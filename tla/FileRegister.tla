---------------------------- MODULE FileRegister ----------------------------
(***************************************************************************)
(* What `save`, `load` and `delete` of src/checkpoint.rs and src/pending.rs*)
(* promise to their callers, and what Lifecycle takes for granted: a state *)
(* file is a register.  A save replaces the whole of it at one instant or  *)
(* not at all; a load answers with what the file held when it was opened,  *)
(* in one piece, or says that there is no file.                            *)
(***************************************************************************)
CONSTANTS
  Procs,   \* processes
  Values,  \* contents a file may have
  Absent,  \* there is no file
  Failed   \* a load that ended with an error

VARIABLES
  value,   \* the file
  seen,    \* what each load under way will answer
  got      \* the answer to the last load of each process

vars == <<value, seen, got>>

Init ==
  /\ value = Absent
  /\ seen = [p \in Procs |-> Absent]
  /\ got = [p \in Procs |-> Absent]

Put(v) == value' = v /\ UNCHANGED <<seen, got>>

Remove == value' = Absent /\ UNCHANGED <<seen, got>>

(* There is no file -- or no longer: it was there when load looked for it, *)
(* and was gone when load opened it.                                       *)
Missing(p) ==
  /\ value = Absent
  /\ got' \in {[got EXCEPT ![p] = a] : a \in {Absent, Failed}}
  /\ UNCHANGED <<value, seen>>

Begin(p) ==
  /\ value # Absent
  /\ seen' = [seen EXCEPT ![p] = value]
  /\ UNCHANGED <<value, got>>

Answer(p) ==
  /\ seen[p] # Absent
  /\ got' = [got EXCEPT ![p] = seen[p]]
  /\ seen' = [seen EXCEPT ![p] = Absent]
  /\ UNCHANGED value

(* The process was killed in the middle of its load.                       *)
Abandon(p) == seen' = [seen EXCEPT ![p] = Absent] /\ UNCHANGED <<value, got>>

Next ==
  \/ \E v \in Values : Put(v)
  \/ Remove
  \/ \E p \in Procs : Missing(p) \/ Begin(p) \/ Answer(p) \/ Abandon(p)

Spec == Init /\ [][Next]_vars

=============================================================================
