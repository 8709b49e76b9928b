---------------------------- MODULE MCLifecycle ----------------------------
(* Instances of Lifecycle for TLC.  Operators and reapers are              *)
(* interchangeable processes, so the safety runs may permute them.         *)
EXTENDS Lifecycle, TLC

Symmetry == Permutations(Runners) \union Permutations(Reapers \ Runners)

=============================================================================
