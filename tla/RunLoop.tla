------------------------------- MODULE RunLoop -------------------------------
(***************************************************************************)
(* The run of one given workbook under one checkpoint id, over all the     *)
(* sessions it takes: `wb run` walks the sections from the top, replays    *)
(* the blocks before the resume position, executes or skips the others,    *)
(* saves the checkpoint after each, and stops at a wait, at a browser      *)
(* slice that asks for a human, at a failure under --bail, at the end, or  *)
(* when it is killed; `wb resume` prepares the next session, where the     *)
(* operator may have it go on, run a step again or go to another step.     *)
(*                                                                         *)
(* Sessions are one after the other (Lifecycle shows what the locks make   *)
(* of concurrent ones); deadlines are left to Lifecycle too.  A step ends  *)
(* with the save of a file or with the end of a section; a session may be  *)
(* killed between any two.                                                 *)
(***************************************************************************)
EXTENDS Checkpoint, Functions

CONSTANTS
  Workbook,     \* its sections, in order
  MaxSessions,  \* bound: run and resume commands
  Navigation,   \* whether operators rerun or go to steps
  Kills,        \* whether a session may be killed
  Absent        \* no such file

Kinds == {"code", "browser", "wait", "enter", "exit"}

(* A section.  `norun`: the block carries {no-run}; `guarded`: a `when`, a *)
(* `skip_if` or the cache may skip it; `silent`: it emits no callback;     *)
(* `asks`: the slice may ask for a human; `tolerant`: --bail does not stop *)
(* at the code (continue_on_error, or a repair that says skip).  Waits and *)
(* include sentinels (enter, exit) only need their kind; text sections only*)
(* matter for headings and are left out.                                   *)
SectionRecords ==
  [kind : Kinds, norun : BOOLEAN, guarded : BOOLEAN, silent : BOOLEAN,
   asks : BOOLEAN, tolerant : BOOLEAN]

ASSUME WorkbookAssumption == Workbook \in Seq(SectionRecords)

ASSUME BoundAssumption ==
  /\ MaxSessions \in Nat
  /\ Navigation \in BOOLEAN
  /\ Kills \in BOOLEAN

Sections == DOMAIN Workbook
Executable(k) == Workbook[k].kind \in {"code", "browser"}
Waits == {k \in Sections : Workbook[k].kind = "wait"}

(* Blocks are numbered from 0; waits and sentinels are not numbered.       *)
BlocksBefore(k) == Cardinality({j \in 1..(k-1) : j \in Sections /\ Executable(j)})
BlockCount == BlocksBefore(Len(Workbook) + 1)
Blocks == 0..(BlockCount - 1)

(* The depth of include frames open just before section k.                 *)
Depth(k) ==
  Cardinality({j \in 1..(k-1) : Workbook[j].kind = "enter"})
    - Cardinality({j \in 1..(k-1) : Workbook[j].kind = "exit"})

(* The sentinels of an include are put around its sections together.       *)
ASSUME NestedAssumption == \A k \in 1..(Len(Workbook) + 1) : Depth(k) >= 0

VARIABLES
  ckpt,      \* <id>.json
  desc,      \* <id>.pending.json: the section that paused
  phase,     \* where the session is
  c,         \* its checkpoint in memory
  sec,       \* the section it is at
  blk,       \* the number of the next block (block_idx)
  replay,    \* blocks below this one are replayed (replay_until)
  over,      \* blocks a goto stepped over (skipped_by_goto)
  restart,   \* a navigating resume: the slice is not restored
  restore,   \* the session still holds the restore of a paused slice
  bail,      \* --bail
  outcome,   \* how the current block ended
  chain,     \* emitted_resume_chain
  seq,       \* the sequence number of the last callback of this session
  sessions,  \* sessions so far (bound)
  high,      \* highest sequence number any session of this run has sent
  reused,    \* a callback went out with a number that was not above `high`
  failedAt,  \* the block the last bail was about
  jumped     \* an operator reran or went to a step at some time

files   == <<ckpt, desc>>
cursor  == <<sec, blk>>
given   == <<replay, over, restart, bail>>
sending == <<seq, high, reused>>
ghosts  == <<failedAt, jumped>>
vars == <<files, phase, c, cursor, given, restore, outcome, chain, sending,
          sessions, ghosts>>

New == [status |-> "in_progress", next |-> 0, results |-> <<>>,
        waits |-> {}, skipped |-> {}, seq |-> 0]

Init ==
  /\ ckpt = Absent
  /\ desc = Absent
  /\ phase = "idle"
  /\ c = Absent
  /\ sec = 1 /\ blk = 0
  /\ replay = 0 /\ over = {} /\ restart = FALSE /\ bail = FALSE
  /\ restore = FALSE
  /\ outcome = "none"
  /\ chain = TRUE
  /\ seq = 0 /\ high = 0 /\ reused = FALSE
  /\ sessions = 0
  /\ failedAt = 0
  /\ jumped = FALSE

-----------------------------------------------------------------------------
(* Building blocks.                                                        *)

(* n callbacks go out, numbered on from the last one of this session.      *)
Send(n) ==
  /\ seq' = seq + n
  /\ high' = Max({high, seq + n})
  /\ reused' = (reused \/ (n > 0 /\ seq < high))

SendNothing == UNCHANGED sending

Save(d) == ckpt' = d /\ c' = d

(* A block that has step outputs has them added to the checkpoint, which is*)
(* saved at once, before anything else is known of the block.              *)
SaveOutputs == ckpt' \in {ckpt, c}

(* The checkpoint with the callback counter as it will be persisted.       *)
WithSeq(d, n) == [d EXCEPT !.seq = n]

Here == Workbook[sec]

AtBlock(kinds) ==
  /\ phase = "loop"
  /\ sec \in Sections
  /\ Here.kind \in kinds

NextSection == sec' = sec + 1 /\ phase' = "loop"
NextBlock   == NextSection /\ blk' = blk + 1

(* At the top of the loop, once the replay is over, step.started goes out  *)
(* again for every frame the replay rebuilt.                               *)
Reopened == IF ~chain /\ blk >= replay THEN Depth(sec) ELSE 0
Chained  == chain' = (chain \/ blk >= replay)

(* The process ends.                                                       *)
Over ==
  /\ phase' = "idle"
  /\ c' = Absent
  /\ sec' = 1 /\ blk' = 0
  /\ replay' = 0 /\ over' = {} /\ restart' = FALSE /\ bail' = FALSE
  /\ restore' = FALSE
  /\ outcome' = "none"
  /\ chain' = TRUE

-----------------------------------------------------------------------------
(* Commands.                                                               *)

Resumable == ckpt # Absent /\ ckpt.status # "complete"

(* prepare_checkpoint, the callback counter, the restore of a slice.  A    *)
(* session that finds nothing to resume starts a run from nothing.         *)
Enter(wantsBail, steppedOver, restarts) ==
  LET d == IF Resumable THEN MarkInProgress(ckpt) ELSE New
  IN  /\ phase' = "loop"
      /\ c' = d
      /\ sec' = 1 /\ blk' = 0
      /\ replay' = d.next
      /\ chain' = (d.next = 0)
      /\ over' = steppedOver /\ restart' = restarts /\ bail' = wantsBail
      /\ restore' = (desc # Absent /\ Workbook[desc].kind = "browser" /\ ~restarts)
      /\ outcome' = "none"
      /\ seq' = d.seq
      /\ IF Resumable THEN UNCHANGED <<high, reused, ghosts>>
                      ELSE /\ high' = 0 /\ reused' = FALSE
                           /\ failedAt' = 0 /\ UNCHANGED jumped

Issue == sessions < MaxSessions /\ sessions' = sessions + 1

Run(wantsBail) ==
  /\ phase = "idle"
  /\ Issue
  /\ Enter(wantsBail, {}, FALSE)
  /\ UNCHANGED files

(* wb resume of a wait: the wait is satisfied and saved ...                *)
ResumeWait(wantsBail) ==
  /\ phase = "idle"
  /\ Resumable
  /\ desc # Absent /\ Workbook[desc].kind = "wait"
  /\ Issue
  /\ ckpt' = MarkInProgress(CompleteWait(ckpt, desc))
  /\ phase' = "consuming"
  /\ bail' = wantsBail
  /\ UNCHANGED <<desc, c, cursor, replay, over, restart, restore, outcome,
                 chain, sending, ghosts>>

(* ... then its descriptor is removed.                                     *)
ResumeConsume ==
  /\ phase = "consuming"
  /\ desc' = Absent
  /\ phase' = "resumed"
  /\ UNCHANGED <<ckpt, c, cursor, given, restore, outcome, chain, sending,
                 sessions, ghosts>>

(* wb resume of a slice; the descriptor stays until the slice completes.   *)
ResumePlain(wantsBail) ==
  /\ phase = "idle"
  /\ Resumable
  /\ desc # Absent /\ Workbook[desc].kind = "browser"
  /\ Issue
  /\ ckpt' = MarkInProgress(ckpt)
  /\ phase' = "resumed"
  /\ bail' = wantsBail
  /\ UNCHANGED <<desc, c, cursor, replay, over, restart, restore, outcome,
                 chain, sending, ghosts>>

(* The results of the blocks below t, in their order (Vec::retain).        *)
Retained(results, t) ==
  LET kept == {i \in DOMAIN results : results[i] < t}
      Nth(n) == CHOOSE i \in kept : Cardinality({j \in kept : j <= i}) = n
  IN  [n \in 1..Cardinality(kept) |-> results[Nth(n)]]

(* Mutant: a jump backwards keeps the results it will record again. *)
ResumeAt_KeepsResults(wantsBail, t) ==
  LET back == t <= ckpt.next
  IN  /\ Navigation
      /\ phase = "idle"
      /\ Resumable
      /\ desc # Absent /\ Workbook[desc].kind = "browser"
      /\ Issue
      /\ ckpt' = [MarkInProgress(ckpt) EXCEPT !.next = t]
      /\ over' = IF back THEN {} ELSE ckpt.next..(t - 1)
      /\ jumped' = TRUE
      /\ restart' = TRUE
      /\ phase' = "resumed"
      /\ bail' = wantsBail
      /\ UNCHANGED <<desc, c, cursor, replay, restore, outcome, chain,
                     sending, failedAt>>

(* --rerun-step / --goto-step: the cursor is put on block t.  Backwards,   *)
(* the results from t on are dropped -- the recorded skips are not;        *)
(* forwards, the blocks in between are handed over as stepped over, in     *)
(* memory only.                                                            *)
ResumeAt(wantsBail, t) ==
  LET back == t <= ckpt.next
      moved == [MarkInProgress(ckpt) EXCEPT !.next = t]
  IN  /\ Navigation
      /\ phase = "idle"
      /\ Resumable
      /\ desc # Absent /\ Workbook[desc].kind = "browser"
      /\ Issue
      /\ ckpt' = IF back
                   THEN [moved EXCEPT !.results = Retained(@, t)]
                   ELSE moved
      /\ over' = IF back THEN {} ELSE ckpt.next..(t - 1)
      /\ jumped' = TRUE
      /\ restart' = TRUE
      /\ phase' = "resumed"
      /\ bail' = wantsBail
      /\ UNCHANGED <<desc, c, cursor, replay, restore, outcome, chain,
                     sending, failedAt>>

ResumeRun ==
  /\ phase = "resumed"
  /\ Enter(bail, over, restart)
  /\ UNCHANGED <<files, sessions>>

-----------------------------------------------------------------------------
(* The loop, section by section.                                           *)

(* Sentinels emit step.started / step.finished once the replay is over.    *)
Include ==
  /\ AtBlock({"enter", "exit"})
  /\ Send(Reopened + (IF blk >= replay THEN 1 ELSE 0))
  /\ Chained
  /\ NextSection
  /\ UNCHANGED <<files, c, blk, given, restore, outcome, sessions, ghosts>>

(* Mutant: the replay passes every wait. *)
PassWait_InReplay ==
  /\ AtBlock({"wait"})
  /\ sec \in c.waits \/ blk < replay
  /\ Send(Reopened)
  /\ Chained
  /\ NextSection
  /\ UNCHANGED <<files, c, blk, given, restore, outcome, sessions, ghosts>>

(* A wait that an earlier resume satisfied, replaying or not.              *)
PassWait ==
  /\ AtBlock({"wait"})
  /\ sec \in c.waits
  /\ Send(Reopened)
  /\ Chained
  /\ NextSection
  /\ UNCHANGED <<files, c, blk, given, restore, outcome, sessions, ghosts>>

(* Mutant: the wait is counted as a block. *)
PauseWait_OneTooFar ==
  /\ AtBlock({"wait"})
  /\ sec \notin c.waits
  /\ Send(Reopened)
  /\ Chained
  /\ Save(WithSeq(MarkPaused([c EXCEPT !.next = blk + 1]), seq'))
  /\ phase' = "pausing"
  /\ UNCHANGED <<desc, cursor, given, restore, outcome, sessions, ghosts>>

(* A wait that is not satisfied pauses the run, replaying or not: the      *)
(* checkpoint is saved with the counter as it is now.                      *)
PauseWait ==
  /\ AtBlock({"wait"})
  /\ sec \notin c.waits
  /\ Send(Reopened)
  /\ Chained
  /\ Save(WithSeq(MarkPaused([c EXCEPT !.next = blk]), seq'))
  /\ phase' = "pausing"
  /\ UNCHANGED <<desc, cursor, given, restore, outcome, sessions, ghosts>>

(* Then the descriptor is written ...                                      *)
PauseDescribe ==
  /\ phase = "pausing"
  /\ desc' = sec
  /\ phase' = "paused"
  /\ UNCHANGED <<ckpt, c, cursor, given, restore, outcome, chain, sending,
                 sessions, ghosts>>

(* ... and then workbook.paused goes out, and step.finished for every open *)
(* frame; the process exits.                                               *)
PauseExit ==
  /\ phase = "paused"
  /\ Send(1 + Depth(sec))
  /\ Over
  /\ UNCHANGED <<files, sessions, ghosts>>

Skip(b) == Save(AddSkip(c, b))

Announced == IF Here.silent THEN 0 ELSE 1

(* Replaying, at a block the operator stepped over.                        *)
ReplayOver ==
  /\ AtBlock({"code", "browser"})
  /\ blk < replay /\ blk \in over
  /\ Send(Announced)
  /\ Skip(blk)
  /\ NextBlock
  /\ UNCHANGED <<desc, given, restore, outcome, chain, sessions, ghosts>>

(* Replaying, at a block that was skipped, or at a slice, whose session    *)
(* lives elsewhere: nothing happens.                                       *)
ReplayNothing ==
  /\ AtBlock({"code", "browser"})
  /\ blk < replay /\ blk \notin over
  /\ Here.kind = "browser" \/ blk \in c.skipped \/ Here.norun
  /\ NextBlock
  /\ SendNothing
  /\ UNCHANGED <<files, c, given, restore, outcome, chain, sessions, ghosts>>

(* Replaying a code block executes it again; of what comes of it only the  *)
(* step outputs are kept, if it has any.                                   *)
ReplayBlock ==
  /\ AtBlock({"code"})
  /\ blk < replay /\ blk \notin over
  /\ blk \notin c.skipped /\ ~Here.norun
  /\ SaveOutputs
  /\ NextBlock
  /\ SendNothing
  /\ UNCHANGED <<desc, c, given, restore, outcome, chain, sessions, ghosts>>

(* A live block is skipped.                                                *)
SkipBlock ==
  /\ AtBlock({"code", "browser"})
  /\ blk >= replay
  /\ Here.norun \/ Here.guarded
  /\ Send(Reopened + Announced)
  /\ Chained
  /\ Skip(blk)
  /\ NextBlock
  /\ UNCHANGED <<desc, given, restore, outcome, sessions, ghosts>>

(* A live block is executed.  The first slice takes the restore.           *)
Outcomes ==
  {"ok", "failed"}
    \union (IF Here.kind = "browser" /\ Here.asks THEN {"asked"} ELSE {})

Execute ==
  /\ AtBlock({"code", "browser"})
  /\ blk >= replay
  /\ ~Here.norun
  /\ outcome' \in Outcomes
  /\ restore' = (restore /\ Here.kind = "code")
  /\ phase' = IF Here.kind = "browser" /\ restore THEN "restored" ELSE "ran"
  /\ SaveOutputs
  /\ Send(Reopened)
  /\ Chained
  /\ UNCHANGED <<desc, c, cursor, given, sessions, ghosts>>

(* Its result is announced and recorded, unless it failed under --bail.    *)
StopsHere ==
  /\ outcome = "failed" /\ bail
  /\ Here.kind = "code" => ~Here.tolerant

Record ==
  /\ phase \in {"ran", "restored"}
  /\ outcome \in {"ok", "failed"} /\ ~StopsHere
  /\ Send(Announced)
  /\ Save(WithSeq(AddResult(c, blk), seq'))
  /\ IF phase = "ran"
       THEN NextBlock
       ELSE phase' = "cleanup" /\ UNCHANGED cursor
  /\ UNCHANGED <<desc, given, restore, outcome, chain, sessions, ghosts>>

(* The descriptor of a restored slice is removed.                          *)
Cleanup ==
  /\ phase = "cleanup"
  /\ desc' = Absent
  /\ NextBlock
  /\ SendNothing
  /\ UNCHANGED <<ckpt, c, given, restore, outcome, chain, sessions, ghosts>>

(* Mutant: the failed block is recorded like any other. *)
Bail_Records ==
  /\ phase \in {"ran", "restored"}
  /\ StopsHere
  /\ Send(Announced + 1 + Depth(sec))
  /\ Save(WithSeq(MarkFailed(AddResult(c, blk)), seq'))
  /\ failedAt' = blk
  /\ phase' = "ending"
  /\ UNCHANGED <<desc, cursor, given, restore, outcome, chain, sessions,
                 jumped>>

(* The block failed under --bail: step.complete, checkpoint.failed and     *)
(* step.finished for every open frame go out, then the checkpoint is saved *)
(* as failed, without the result ...                                       *)
Bail ==
  /\ phase \in {"ran", "restored"}
  /\ StopsHere
  /\ Send(Announced + 1 + Depth(sec))
  /\ Save(WithSeq(MarkFailed(c), seq'))
  /\ failedAt' = blk
  /\ phase' = "ending"
  /\ UNCHANGED <<desc, cursor, given, restore, outcome, chain, sessions,
                 jumped>>

(* The slice asks for a human: the sidecar announces it, then as PauseWait.*)
PauseSlice ==
  /\ phase \in {"ran", "restored"}
  /\ outcome = "asked"
  /\ Send(1)
  /\ Save(WithSeq(MarkPaused([c EXCEPT !.next = blk]), seq'))
  /\ phase' = "pausing"
  /\ UNCHANGED <<desc, cursor, given, restore, outcome, chain, sessions,
                 ghosts>>

(* Past the last section the run is complete.                              *)
Complete ==
  /\ phase = "loop"
  /\ sec > Len(Workbook)
  /\ Save(MarkComplete(c))
  /\ phase' = "ending"
  /\ SendNothing
  /\ UNCHANGED <<desc, cursor, given, restore, outcome, chain, sessions,
                 ghosts>>

(* ... and run.complete is the last callback, of a bail too.               *)
End ==
  /\ phase = "ending"
  /\ Send(1)
  /\ Over
  /\ UNCHANGED <<files, sessions, ghosts>>

Kill ==
  /\ Kills
  /\ phase # "idle"
  /\ Over
  /\ SendNothing
  /\ UNCHANGED <<files, sessions, ghosts>>

Command ==
  \E wantsBail \in BOOLEAN :
    \/ Run(wantsBail) \/ ResumeWait(wantsBail) \/ ResumePlain(wantsBail)
    \/ \E t \in Blocks : ResumeAt(wantsBail, t)

Session ==
  \/ ResumeConsume \/ ResumeRun
  \/ Include \/ PassWait \/ PauseWait \/ PauseDescribe \/ PauseExit
  \/ ReplayOver \/ ReplayNothing \/ ReplayBlock
  \/ SkipBlock \/ Execute \/ Record \/ Cleanup \/ Bail \/ PauseSlice
  \/ Complete \/ End

Next == Command \/ Session \/ Kill

Spec == Init /\ [][Next]_vars

-----------------------------------------------------------------------------
(* Properties.                                                             *)

Executing == {"ran", "restored", "cleanup"}
Walking   == {"loop"} \union Executing
Phases    == Walking \union {"idle", "consuming", "resumed", "pausing",
                             "paused", "ending"}

Checkpoints ==
  [status : Status, next : 0..BlockCount, results : Seq(Blocks),
   waits : SUBSET Waits, skipped : SUBSET Blocks, seq : Nat]

(* The values of the variables; in particular neither the resume position  *)
(* nor a recorded skip is ever beyond the workbook.                        *)
TypeOK ==
  /\ ckpt \in Checkpoints \union {Absent}
  /\ desc \in Sections \union {Absent}
  /\ phase \in Phases
  /\ c \in Checkpoints \union {Absent}
  /\ sec \in 1..(Len(Workbook) + 1) /\ blk \in 0..BlockCount
  /\ replay \in 0..BlockCount /\ over \subseteq Blocks
  /\ restart \in BOOLEAN /\ restore \in BOOLEAN /\ bail \in BOOLEAN
  /\ outcome \in {"none", "ok", "failed", "asked"}
  /\ chain \in BOOLEAN
  /\ seq \in Nat /\ high \in Nat /\ reused \in BOOLEAN
  /\ sessions \in Nat
  /\ failedAt \in 0..BlockCount
  /\ jumped \in BOOLEAN

Finished == ckpt # Absent /\ ckpt.status = "complete"

(* Nothing behind a wait is reached, replayed or executed, before a resume *)
(* satisfied that wait -- wherever the operator put the cursor and whatever*)
(* was killed -- and no run ends as complete without all of its waits      *)
(* (the loop of run_single looks at waits before it looks at the replay).  *)
WaitsRespected ==
  /\ phase \in Walking => \A w \in Waits : w < sec => w \in c.waits
  /\ Finished => Waits \subseteq ckpt.waits

Recorded(d) == Range(d.results)

(* Without navigation, the checkpoint accounts for exactly the blocks      *)
(* before its resume position: each was executed or skipped, not both, and *)
(* none beyond was -- so a resume neither loses a block nor runs one whose *)
(* result it already has (add_result, add_skip and the saves around them). *)
(* Even with navigation, a complete checkpoint is at the end.              *)
Accounted ==
  /\ ckpt # Absent /\ ~jumped =>
       /\ Recorded(ckpt) \union ckpt.skipped = 0..(ckpt.next - 1)
       /\ Recorded(ckpt) \intersect ckpt.skipped = {}
  /\ Finished => ckpt.next = BlockCount

(* No block has two results, and they are in the order of the workbook,    *)
(* reruns and jumps included (the retain of cmd_resume_cmd).               *)
ResultsInOrder ==
  ckpt # Absent =>
    \A j, k \in DOMAIN ckpt.results : j < k => ckpt.results[j] < ckpt.results[k]

(* README.md: "With --bail, the failed block is re-run on resume (not      *)
(* skipped)": a failed checkpoint points at the block that failed.         *)
FailedBlockReruns ==
  ckpt # Absent /\ ckpt.status = "failed" => ckpt.next = failedAt

(* It does as long as no operator made the run jump.                       *)
FailedBlockIsNext == ~jumped => FailedBlockReruns

(* Checkpoint::callback_seq: the counter "stays monotonic across           *)
(* pause/resume": no callback of a run has the number of an earlier one.   *)
SequenceFresh == ~reused

=============================================================================
