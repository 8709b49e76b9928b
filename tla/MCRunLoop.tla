---------------------------- MODULE MCRunLoop ----------------------------
(* Workbooks for RunLoop, small ones in which the interesting cases meet.  *)
EXTENDS RunLoop, TLC

Section(kind) ==
  [kind |-> kind, norun |-> FALSE, guarded |-> FALSE, silent |-> FALSE,
   asks |-> FALSE, tolerant |-> FALSE]

Code      == Section("code")
Guarded   == [Code EXCEPT !.guarded = TRUE]
NoRun     == [Code EXCEPT !.norun = TRUE, !.silent = TRUE]
Tolerant  == [Code EXCEPT !.tolerant = TRUE, !.guarded = TRUE]
WaitFor   == Section("wait")
SliceAsks == [Section("browser") EXCEPT !.asks = TRUE]
MayAsk    == [SliceAsks EXCEPT !.guarded = TRUE]
Enter1    == Section("enter")
Exit1     == Section("exit")

(* Every variable keeps its type; the results are in order (ResultsInOrder)*)
InOrder == TypeOK /\ ResultsInOrder

(* Every kind of section and of block: a slice to navigate from inside an  *)
(* include, with a wait and blocks that may be skipped behind it.          *)
EveryKind ==
  <<Code, Enter1, SliceAsks, Guarded, WaitFor, Exit1, NoRun, Tolerant, MayAsk>>

(* A slice to navigate from, with a wait and guarded blocks behind it.     *)
Jumps == <<Code, SliceAsks, Guarded, WaitFor, Guarded, SliceAsks>>

(* A pause, inside an include, before the first block.                    *)
PauseFirst == <<Enter1, WaitFor, Tolerant, Exit1>>

=============================================================================
