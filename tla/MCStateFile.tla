---------------------------- MODULE MCStateFile ----------------------------
(* An instance of StateFile for TLC.                                       *)
EXTENDS StateFile, TLC

Symmetry ==
  Permutations(Procs) \union Permutations(Inodes) \union Permutations(Values)

=============================================================================
