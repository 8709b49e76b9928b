----------------------------- MODULE Checkpoint -----------------------------
(***************************************************************************)
(* The checkpoint record of src/checkpoint.rs and the pure updates the     *)
(* program makes to it in memory.  Nothing here touches the disk: `save`   *)
(* and `load` are atomic replacements and reads of the whole record (the   *)
(* record is written to a temporary file that is renamed over the old      *)
(* one), so a caller models them by assigning or reading its file          *)
(* variable.                                                               *)
(*                                                                         *)
(* Every operator is polymorphic in the record: it needs the fields it     *)
(* names and keeps the others.  Blocks are numbered from 0, as in the      *)
(* code; a set of block numbers stands for the sorted vector `skipped`,    *)
(* which holds at most one entry per block, and a set of wait sections for *)
(* the vector `waits_completed`, which complete_wait keeps duplicate-free. *)
(***************************************************************************)
EXTENDS Naturals, Sequences, FiniteSetsExt

Status == {"in_progress", "complete", "failed", "paused"}

MarkPaused(c)     == [c EXCEPT !.status = "paused"]
MarkInProgress(c) == [c EXCEPT !.status = "in_progress"]
MarkComplete(c)   == [c EXCEPT !.status = "complete"]
MarkFailed(c)     == [c EXCEPT !.status = "failed"]

(* A signal resume satisfied wait section w; asking twice changes nothing. *)
CompleteWait(c, w) == [c EXCEPT !.waits = @ \union {w}]

(* Block b was executed: its result is appended whatever is already there, *)
(* and the resume position moves just past b, forwards or backwards.       *)
AddResult(c, b) == [c EXCEPT !.results = Append(@, b), !.next = b + 1]

(* Block b was skipped for good.  The resume position becomes the largest  *)
(* of its old value and the position after ANY recorded skip, the ones     *)
(* recorded by earlier passes over the workbook included.                  *)
AddSkip(c, b) ==
  LET skips == c.skipped \union {b}
  IN  [c EXCEPT !.skipped = skips,
                !.next    = Max({@} \union {s + 1 : s \in skips})]

=============================================================================
