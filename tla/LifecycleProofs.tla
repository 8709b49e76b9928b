--------------------------- MODULE LifecycleProofs ---------------------------
(***************************************************************************)
(* Proofs about Lifecycle for any number of processes, waits, blocks and   *)
(* runs, with kills and cancels.  The inductive invariant IInv says who    *)
(* holds the locks and that whoever is about to save has an up-to-date     *)
(* copy; NoLostUpdate and CompleteIsFinal follow from it step by step.     *)
(* RInv follows the numbers of the pauses, for ReportedOnce.  The last     *)
(* part is about calm behaviours: any number of operators, none of them    *)
(* killed, no reaper and no cancel; what a pause leaves behind can always  *)
(* be resumed.                                                             *)
(***************************************************************************)
EXTENDS MCSessions, TLAPS

USE ProcsAssumption, BoundsAssumption, AbsentAssumption

-----------------------------------------------------------------------------
(* What the updates of a checkpoint keep.                                  *)

(* Every update of checkpoint.rs yields a checkpoint whose position stays  *)
(* within the workbook.                                                    *)
LEMMA Updated ==
  ASSUME NEW c \in Checkpoints, c.next <= Blocks
  PROVE  /\ MarkFailed(c) \in Checkpoints /\ MarkFailed(c).next <= Blocks
         /\ MarkComplete(c) \in Checkpoints /\ MarkComplete(c).next <= Blocks
         /\ MarkPaused(c) \in Checkpoints /\ MarkPaused(c).next <= Blocks
         /\ MarkInProgress(c) \in Checkpoints
         /\ MarkInProgress(c).next <= Blocks
         /\ MarkInProgress(c).status = "in_progress"
         /\ c.next < Blocks => /\ Advance(c) \in Checkpoints
                               /\ Advance(c).next <= Blocks
                               /\ Advance(c).status = c.status
BY DEF MarkFailed, MarkComplete, MarkPaused, MarkInProgress, Advance,
       Checkpoints, Status

(* Satisfying a wait, and moving the position, do too.                     *)
LEMMA Satisfied ==
  ASSUME NEW c \in Checkpoints, NEW w \in Waits
  PROVE  /\ CompleteWait(c, w) \in Checkpoints
         /\ CompleteWait(c, w).next = c.next
BY DEF CompleteWait, Checkpoints

LEMMA Moved ==
  ASSUME NEW c \in Checkpoints, NEW t \in Nat
  PROVE  /\ [c EXCEPT !.next = t] \in Checkpoints
         /\ [c EXCEPT !.next = t].next = t
         /\ [c EXCEPT !.next = t].waits = c.waits
BY DEF Checkpoints

(* No update of a checkpoint that continues d stops continuing d.          *)
LEMMA StillContinues ==
  ASSUME NEW c \in Checkpoints, NEW d, Continues(c, d)
  PROVE  /\ Continues(MarkFailed(c), d)
         /\ Continues(MarkComplete(c), d)
         /\ Continues(MarkPaused(c), d)
         /\ Continues(MarkInProgress(c), d)
         /\ d \in Checkpoints => Continues(Advance(c), d)
         /\ \A w \in Waits : Continues(CompleteWait(c, w), d)
BY DEF Continues, MarkFailed, MarkComplete, MarkPaused, MarkInProgress,
       Advance, CompleteWait, Checkpoints

LEMMA ContinuesSelf ==
  ASSUME NEW c \in Checkpoints
  PROVE  Continues(c, c)
BY DEF Continues, Checkpoints

(* What a run starts with continues what is on disk, unless that is done.  *)
LEMMA Opening ==
  ASSUME IInv, NEW i \in Idents
  PROVE  /\ Opened(i) \in Checkpoints
         /\ Opened(i).next <= Blocks
         /\ Opened(i) # Absent
         /\ Opened(i).status # "complete"
         /\ ckpt # Absent => /\ Continues(Opened(i), ckpt)
                             /\ ckpt.status = "complete" => Starting(Opened(i))
<1>1. CASE Continuable(i)
  <2>1. ckpt \in Checkpoints /\ ckpt.next <= Blocks
    BY <1>1 DEF IInv, TypeOK, Continuable
  <2>2. Continues(MarkInProgress(ckpt), ckpt)
    BY <2>1, ContinuesSelf, StillContinues
  <2>3. QED
    BY <1>1, <2>1, <2>2, Updated DEF Opened, Continuable
<1>2. CASE ~Continuable(i)
  <2>1. /\ New(i) \in Checkpoints
        /\ New(i).next <= Blocks
        /\ New(i).status # "complete"
        /\ Starting(New(i))
    BY DEF New, Checkpoints, Status, Starting
  <2>2. ckpt # Absent => Continues(New(i), ckpt)
    BY <1>2 DEF Continuable, Continues, New
  <2>3. QED
    BY <1>2, <2>1, <2>2 DEF Opened
<1>3. QED
  BY <1>1, <1>2

-----------------------------------------------------------------------------
(* The inductive invariant.                                                *)

LEMMA InitIInv == Init => IInv
BY DEF Init, IInv, TypeOK, LocksHeld, SessionsUpToDate, RunUpToDate,
       ResumeUpToDate, ReaperUpToDate, Informed, Labels, HoldsCkpt, HoldsReap

(* Starting a run, and every step of one.                                  *)
LEMMA RunKeepsIInv ==
  ASSUME IInv, NEW p \in Procs, (\E i \in Idents : RunStart(p, i)) \/ RunStep(p)
  PROVE  IInv'
<1> USE DEF IInv, TypeOK, LocksHeld, SessionsUpToDate, RunUpToDate,
           ResumeUpToDate, ReaperUpToDate, Informed, HoldsCkpt, HoldsReap,
           Labels, files, locks, local
<1>1. ASSUME NEW i \in Idents, RunStart(p, i) PROVE IInv'
  BY <1>1, Opening DEF RunStart, Open, Hold, Goto, Issue
<1>2. CASE RunBlock(p)
  <2>1. /\ Advance(mem[p]) \in Checkpoints
        /\ Advance(mem[p]).next <= Blocks
        /\ Advance(mem[p]).status # "complete"
    BY <1>2, Updated DEF RunBlock
  <2>2. Continues(Advance(mem[p]), Advance(mem[p]))
    BY <2>1, ContinuesSelf
  <2>3. QED
    BY <1>2, <2>1, <2>2 DEF RunBlock, Save, Hold
<1>3. CASE RunSlice(p)
  <2>1. /\ Advance(mem[p]) \in Checkpoints
        /\ Advance(mem[p]).next <= Blocks
        /\ Advance(mem[p]).status # "complete"
    BY <1>3, Updated DEF RunSlice
  <2>2. Continues(Advance(mem[p]), Advance(mem[p]))
    BY <2>1, ContinuesSelf
  <2>3. QED
    BY <1>3, <2>1, <2>2 DEF RunSlice, Save, Hold, Goto
<1>4. CASE RunCleanup(p)
  BY <1>4 DEF RunCleanup, Goto
<1>5. CASE RunBail(p)
  <2>1. /\ MarkFailed(mem[p]) \in Checkpoints
        /\ MarkFailed(mem[p]).next <= Blocks
    BY <1>5, Updated DEF RunBail
  <2>2. QED
    BY <1>5, <2>1 DEF RunBail, Save, Hold, Goto
<1>6. CASE RunFinish(p)
  <2>1. /\ MarkComplete(mem[p]) \in Checkpoints
        /\ MarkComplete(mem[p]).next <= Blocks
    BY <1>6, Updated DEF RunFinish
  <2>2. QED
    BY <1>6, <2>1 DEF RunFinish, Save, Hold, Goto
<1>7. CASE PauseSave(p)
  <2>1. /\ MarkPaused(mem[p]) \in Checkpoints
        /\ MarkPaused(mem[p]).next <= Blocks
    BY <1>7, Updated DEF PauseSave
  <2>2. QED
    BY <1>7, <2>1 DEF PauseSave, Save, Hold, Goto
<1>8. CASE PauseDescribe(p)
  BY <1>8 DEF PauseDescribe, Goto, Descriptors, Modes, Never
<1>9. CASE Exit(p)
  BY <1>9 DEF Exit, Gone, Goto
<1>10. CASE RunOutputs(p)
  <2>1. mem[p] \in Checkpoints /\ Continues(mem[p], mem[p])
    BY <1>10, ContinuesSelf DEF RunOutputs
  <2>2. QED
    BY <1>10, <2>1 DEF RunOutputs, Save, Hold
<1> QED
  BY <1>1, <1>2, <1>3, <1>4, <1>5, <1>6, <1>7, <1>8, <1>9, <1>10 DEF RunStep

(* Starting a resume, and every step of one up to the run it enters.       *)
LEMMA ResumeKeepsIInv ==
  ASSUME IInv, NEW p \in Procs, ResumeStart(p) \/ ResumeStep(p)
  PROVE  IInv'
<1> USE DEF IInv, TypeOK, LocksHeld, SessionsUpToDate, RunUpToDate,
           ResumeUpToDate, ReaperUpToDate, Informed, HoldsCkpt, HoldsReap,
           Labels, files, locks, local
<1>1. CASE ResumeStart(p)
  BY <1>1 DEF ResumeStart, Issue, Hold, Goto, Checkpoints
<1>2. CASE ResumeRefuse(p)
  BY <1>2 DEF ResumeRefuse, Goto
<1>3. CASE ResumeAbort(p)
  <2>1. /\ MarkFailed(mem[p]) \in Checkpoints
        /\ MarkFailed(mem[p]).next <= Blocks
    BY <1>3, Updated DEF ResumeAbort
  <2>2. QED
    BY <1>3, <2>1 DEF ResumeAbort, Save, Hold, Goto
<1>4. CASE ResumeDrop(p)
  BY <1>4 DEF ResumeDrop, Goto
<1>5. CASE ResumeDeliver(p)
  <2> DEFINE c == MarkInProgress(CompleteWait(mem[p], dmem[p].at))
  <2>1. dmem[p].at \in Waits
    BY <1>5 DEF ResumeDeliver, Descriptors
  <2>2. c \in Checkpoints /\ c.next <= Blocks
    BY <1>5, <2>1, Satisfied, Updated DEF ResumeDeliver
  <2> HIDE DEF c
  <2>3. QED
    BY <1>5, <2>2 DEF ResumeDeliver, Save, Hold, Goto, c
<1>6. CASE ResumeConsume(p)
  BY <1>6 DEF ResumeConsume, Goto
<1>7. CASE ResumeSlice(p)
  <2>1. /\ MarkInProgress(mem[p]) \in Checkpoints
        /\ MarkInProgress(mem[p]).next <= Blocks
    BY <1>7, Updated DEF ResumeSlice
  <2>2. QED
    BY <1>7, <2>1 DEF ResumeSlice, Save, Hold, Goto
<1>8. ASSUME NEW t \in 0..Blocks, ResumeNavigate(p, t) PROVE IInv'
  <2> DEFINE c == [MarkInProgress(mem[p]) EXCEPT !.next = t]
  <2>1. c \in Checkpoints /\ c.next <= Blocks
    BY <1>8, Updated, Moved DEF ResumeNavigate
  <2> HIDE DEF c
  <2>2. QED
    BY <1>8, <2>1 DEF ResumeNavigate, Save, Hold, Goto, c
<1>9. CASE ResumeRun(p)
  BY <1>9, Opening DEF ResumeRun, Open, Hold, Goto
<1>10. CASE ResumeBusy(p)
  BY <1>10 DEF ResumeBusy, Gone, Goto
<1> QED
  BY <1>1, <1>2, <1>3, <1>4, <1>5, <1>6, <1>7, <1>8, <1>9, <1>10 DEF ResumeStep

(* The reaper.                                                             *)
LEMMA ReapKeepsIInv ==
  ASSUME IInv, NEW p \in Procs, ReapList(p) \/ ReapStep(p)
  PROVE  IInv'
<1> USE DEF IInv, TypeOK, LocksHeld, SessionsUpToDate, RunUpToDate,
           ResumeUpToDate, ReaperUpToDate, Informed, HoldsCkpt, HoldsReap,
           Labels, files, locks, local
<1>1. CASE ReapList(p)
  BY <1>1 DEF ReapList, Goto
<1>2. CASE ReapReload(p)
  BY <1>2 DEF ReapReload, StillReapable, Goto
<1>3. CASE ReapGone(p)
  BY <1>3 DEF ReapGone, Gone, Goto
<1>4. CASE ReapBusy(p)
  BY <1>4 DEF ReapBusy, Gone, Goto
<1>5. CASE ReapClaim(p)
  BY <1>5 DEF ReapClaim, Hold, Goto
<1>6. CASE ReapSettle(p)
  <2>1. mem[p] # Absent => /\ MarkFailed(mem[p]) \in Checkpoints
                           /\ MarkFailed(mem[p]).next <= Blocks
    BY Updated
  <2>2. QED
    BY <1>6, <2>1 DEF ReapSettle, Save, Hold, Goto
<1>7. CASE ReapNotify(p)
  <2>1. timeouts' \in [1..MaxPauses -> 0..2]
    <3>1. CASE dmem[p].no \in 1..MaxPauses
      BY <1>7, <3>1 DEF ReapNotify
    <3>2. CASE dmem[p].no \notin 1..MaxPauses
      BY <1>7, <3>2 DEF ReapNotify
    <3>3. QED
      BY <3>1, <3>2
  <2>2. QED
    BY <1>7, <2>1 DEF ReapNotify, Goto
<1>8. CASE ReapDelete(p)
  BY <1>8 DEF ReapDelete, Gone, Goto
<1> QED
  BY <1>1, <1>2, <1>3, <1>4, <1>5, <1>6, <1>7, <1>8 DEF ReapStep

(* Cancelling, and being killed.                                           *)
LEMMA OthersKeepIInv ==
  ASSUME IInv, NEW p \in Procs, CancelDescriptor(p) \/ CancelCheckpoint(p) \/ Kill(p)
  PROVE  IInv'
<1> USE DEF IInv, TypeOK, LocksHeld, SessionsUpToDate, RunUpToDate,
           ResumeUpToDate, ReaperUpToDate, Informed, HoldsCkpt, HoldsReap,
           Labels, files, locks, local
<1>1. CASE CancelDescriptor(p)
  BY <1>1 DEF CancelDescriptor, Issue, Goto
<1>2. CASE CancelCheckpoint(p)
  BY <1>2 DEF CancelCheckpoint, Goto
<1>3. CASE Kill(p)
  BY <1>3 DEF Kill, Gone, Goto
<1> QED
  BY <1>1, <1>2, <1>3

LEMMA TickKeepsIInv == IInv /\ Tick => IInv'
BY DEF IInv, TypeOK, LocksHeld, SessionsUpToDate, RunUpToDate,
       ResumeUpToDate, ReaperUpToDate, Informed, Tick, files, locks, local

LEMMA StutterKeepsIInv == IInv /\ UNCHANGED vars => IInv'
BY DEF IInv, TypeOK, LocksHeld, SessionsUpToDate, RunUpToDate,
       ResumeUpToDate, ReaperUpToDate, Informed, vars, files, locks, local

LEMMA StepIInv == IInv /\ [Next]_vars => IInv'
<1> SUFFICES ASSUME IInv, [Next]_vars PROVE IInv'
  OBVIOUS
<1>1. ASSUME NEW p \in Procs, Command(p) PROVE IInv'
  BY <1>1, RunKeepsIInv, ResumeKeepsIInv, ReapKeepsIInv, OthersKeepIInv
     DEF Command
<1>2. ASSUME NEW p \in Procs, Proceed(p) PROVE IInv'
  BY <1>2, RunKeepsIInv, ResumeKeepsIInv, ReapKeepsIInv, OthersKeepIInv
     DEF Proceed
<1>3. ASSUME NEW p \in Procs, Kill(p) PROVE IInv'
  BY <1>3, OthersKeepIInv
<1>4. QED
  BY <1>1, <1>2, <1>3, TickKeepsIInv, StutterKeepsIInv DEF Next

(* The inductive invariant holds: locks are held exactly where the code    *)
(* holds them, and no session's copy of the checkpoint is behind the file. *)
THEOREM Invariance == Spec => []IInv
<1>1. QED
  BY InitIInv, StepIInv, PTL DEF Spec

(* Every variable keeps its type; no checkpoint that prepare_checkpoint,   *)
(* resume or the reaper saves points past the end of the workbook.         *)
THEOREM TypeCorrect == Spec => []TypeOK
<1>1. IInv => TypeOK
  BY DEF IInv
<1>2. QED
  BY <1>1, Invariance, PTL

(* A session that holds the checkpoint lock never works on a stale copy.   *)
THEOREM NeverStale == Spec => []SessionsUpToDate
<1>1. IInv => SessionsUpToDate
  BY DEF IInv
<1>2. QED
  BY <1>1, Invariance, PTL

-----------------------------------------------------------------------------
(* What the saves do to the file.                                          *)

(* A step leaves the checkpoint file alone, removes it, or is a save: of a *)
(* running session, of a resume, or of a reaper.                           *)
RunSaves(p) ==
  /\ pc[p] = "running"
  /\ ckpt' \in {mem[p], Advance(mem[p]), MarkFailed(mem[p]),
                MarkComplete(mem[p]), MarkPaused(mem[p])}

ResumeSaves(p) ==
  /\ pc[p] \in {"resuming", "overdue"}
  /\ \/ ckpt' \in {MarkFailed(mem[p]), MarkInProgress(mem[p])}
     \/ \E w \in Waits : ckpt' = MarkInProgress(CompleteWait(mem[p], w))
     \/ \E t \in 0..Blocks : /\ ResumeNavigate(p, t)
                             /\ ckpt' = [MarkInProgress(mem[p]) EXCEPT !.next = t]

ReaperSaves(p) ==
  /\ pc[p] = "reaping" /\ mem[p] # Absent /\ ~Terminal(mem[p])
  /\ ckpt' = MarkFailed(mem[p])

LEMMA WhoSaves ==
  ASSUME IInv, [Next]_vars
  PROVE  \/ ckpt' = ckpt
         \/ ckpt' = Absent
         \/ \E p \in Procs : RunSaves(p) \/ ResumeSaves(p) \/ ReaperSaves(p)
<1> DEFINE Saved == \/ ckpt' = ckpt
                    \/ ckpt' = Absent
                    \/ \E p \in Procs : \/ RunSaves(p)
                                        \/ ResumeSaves(p)
                                        \/ ReaperSaves(p)
<1>1. ASSUME NEW p \in Procs, RunStep(p) PROVE Saved
  BY <1>1 DEF RunStep, RunBlock, RunOutputs, RunSlice, RunCleanup, RunBail,
              RunFinish, PauseSave, PauseDescribe, Exit, Save, RunSaves, files
<1>2. ASSUME NEW p \in Procs, ResumeDeliver(p) PROVE Saved
  <2>1. dmem[p].at \in Waits
    BY <1>2 DEF ResumeDeliver, IInv, TypeOK, Informed, Descriptors
  <2>2. QED
    BY <1>2, <2>1 DEF ResumeDeliver, Save, ResumeSaves
<1>3. ASSUME NEW p \in Procs, NEW t \in 0..Blocks, ResumeNavigate(p, t)
      PROVE  Saved
  <2>1. ResumeSaves(p)
    BY <1>3 DEF ResumeNavigate, Save, ResumeSaves
  <2>2. QED
    BY <2>1
<1>4. ASSUME NEW p \in Procs, ResumeStep(p), ~ResumeDeliver(p),
             ~ \E t \in 0..Blocks : ResumeNavigate(p, t)
      PROVE  Saved
  BY <1>4 DEF ResumeStep, ResumeRefuse, ResumeAbort, ResumeDrop,
              ResumeConsume, ResumeSlice, ResumeRun, ResumeBusy, Save,
              ResumeSaves, files
<1>5. ASSUME NEW p \in Procs, ReapStep(p) PROVE Saved
  BY <1>5 DEF ReapStep, ReapReload, ReapGone, ReapBusy, ReapClaim, ReapSettle,
              ReapNotify, ReapDelete, Save, ReaperSaves, files
<1>6. ASSUME NEW p \in Procs, Command(p) PROVE ckpt' = ckpt
  BY <1>6 DEF Command, RunStart, ResumeStart, ReapList, CancelDescriptor, files
<1>7. ASSUME NEW p \in Procs, CancelCheckpoint(p) \/ Kill(p) PROVE Saved
  BY <1>7 DEF CancelCheckpoint, Kill, files
<1>8. CASE Tick \/ UNCHANGED vars
  BY <1>8 DEF Tick, vars, files
<1>9. QED
  BY <1>1, <1>2, <1>3, <1>4, <1>5, <1>6, <1>7, <1>8 DEF Next, Proceed

(* No save takes back what another process saved: satisfied waits and the  *)
(* resume position only grow within one unfinished run, whatever sessions, *)
(* resumes, reapers, cancels and kills interleave.                         *)
THEOREM NoUpdateLost == Spec => NoLostUpdate
<1> DEFINE Kept == ckpt # Absent /\ ckpt' # Absent =>
                     \/ Continues(ckpt', ckpt)
                     \/ Navigated /\ ckpt.waits \subseteq ckpt'.waits
<1>1. ASSUME IInv, [Next]_vars PROVE Kept
  <2> SUFFICES ASSUME ckpt # Absent, ckpt' # Absent PROVE Kept
    OBVIOUS
  <2>1. ckpt \in Checkpoints /\ Continues(ckpt, ckpt)
    BY <1>1, ContinuesSelf DEF IInv, TypeOK
  <2>2. CASE ckpt' = ckpt
    BY <2>1, <2>2
  <2>3. ASSUME NEW p \in Procs, RunSaves(p) PROVE Kept
    <3>1. mem[p] \in Checkpoints /\ Continues(mem[p], ckpt)
      BY <1>1, <2>3 DEF IInv, TypeOK, SessionsUpToDate, RunUpToDate, RunSaves
    <3>2. QED
      BY <2>1, <2>3, <3>1, StillContinues DEF RunSaves
  <2>4. ASSUME NEW p \in Procs, ResumeSaves(p) PROVE Kept
    <3>1. mem[p] = ckpt
      BY <1>1, <2>4 DEF IInv, SessionsUpToDate, ResumeUpToDate, ResumeSaves
    <3>2. CASE ckpt' \in {MarkFailed(mem[p]), MarkInProgress(mem[p])}
      BY <2>1, <3>1, <3>2, StillContinues
    <3>3. ASSUME NEW w \in Waits,
                 ckpt' = MarkInProgress(CompleteWait(mem[p], w))
          PROVE  Kept
      <4>1. /\ CompleteWait(ckpt, w) \in Checkpoints
            /\ Continues(CompleteWait(ckpt, w), ckpt)
        BY <2>1, Satisfied, StillContinues
      <4>2. QED
        BY <3>1, <3>3, <4>1, StillContinues
    <3>4. ASSUME NEW t \in 0..Blocks, ResumeNavigate(p, t),
                 ckpt' = [MarkInProgress(mem[p]) EXCEPT !.next = t]
          PROVE  Kept
      <4>1. ckpt'.waits = ckpt.waits
        BY <2>1, <3>1, <3>4 DEF MarkInProgress, Checkpoints
      <4>2. QED
        BY <3>4, <4>1 DEF Navigated
    <3>5. QED
      BY <2>4, <3>2, <3>3, <3>4 DEF ResumeSaves
  <2>5. ASSUME NEW p \in Procs, ReaperSaves(p) PROVE Kept
    <3>1. mem[p] = ckpt
      BY <1>1, <2>5 DEF IInv, SessionsUpToDate, ReaperUpToDate, ReaperSaves
    <3>2. QED
      BY <2>1, <2>5, <3>1, StillContinues DEF ReaperSaves
  <2>6. QED
    BY <1>1, <2>2, <2>3, <2>4, <2>5, WhoSaves
<1>2. QED
  BY <1>1, Invariance, PTL DEF Spec, NoLostUpdate

(* A completed run is final: only a fresh run replaces its checkpoint.     *)
THEOREM CompletionIsFinal == Spec => CompleteIsFinal
<1> DEFINE Final == ckpt # Absent /\ ckpt.status = "complete"
                      /\ ckpt' # ckpt /\ ckpt' # Absent
                    => ckpt'.waits = {} /\ ckpt'.next <= 1
<1>1. ASSUME IInv, [Next]_vars PROVE Final
  <2> SUFFICES ASSUME ckpt # Absent, ckpt.status = "complete",
                      ckpt' # ckpt, ckpt' # Absent
               PROVE  ckpt'.waits = {} /\ ckpt'.next <= 1
    OBVIOUS
  <2>1. ASSUME NEW p \in Procs, RunSaves(p)
        PROVE  ckpt'.waits = {} /\ ckpt'.next <= 1
    <3>1. mem[p] \in Checkpoints /\ Starting(mem[p])
      BY <1>1, <2>1 DEF IInv, TypeOK, SessionsUpToDate, RunUpToDate, RunSaves
    <3>2. QED
      BY <2>1, <3>1 DEF RunSaves, Starting, Advance, MarkFailed, MarkComplete,
                        MarkPaused, Checkpoints
  <2>2. ASSUME NEW p \in Procs, ResumeSaves(p) PROVE FALSE
    BY <1>1, <2>2 DEF IInv, SessionsUpToDate, ResumeUpToDate, ResumeSaves
  <2>3. ASSUME NEW p \in Procs, ReaperSaves(p) PROVE FALSE
    BY <1>1, <2>3 DEF IInv, SessionsUpToDate, ReaperUpToDate, ReaperSaves,
                      Terminal
  <2>4. QED
    BY <1>1, <2>1, <2>2, <2>3, WhoSaves
<1>2. QED
  BY <1>1, Invariance, PTL DEF Spec, CompleteIsFinal

-----------------------------------------------------------------------------
(* One report for each pause.                                              *)

(* Pause n was taken, and its descriptor is not still to be written.       *)
Described(n) ==
  n \in 1..pauses /\ \A p \in Procs : pc[p] = "pausing" => n < pauses

(* Descriptors carry the numbers of pauses that were described; one that   *)
(* was reported is gone, or is about to be removed by who reported it; one *)
(* that a reaper is at was not reported yet.                               *)
RInv ==
  /\ pauses <= MaxPauses
  /\ \A p \in Procs : pc[p] = "pausing" => pauses > 0
  /\ desc # Absent => Described(desc.no)
  /\ \A p \in Procs : pc[p] \in HoldsReap => Described(dmem[p].no)
  /\ \A n \in 1..MaxPauses :
       timeouts[n] # 0 =>
         /\ timeouts[n] = 1
         /\ Described(n)
         /\ \/ desc = Absent
            \/ desc.no # n
            \/ \E p \in Procs : pc[p] = "deleting" /\ dmem[p].no = n
  /\ \A p \in Procs : pc[p] \in {"armed", "reaping", "notifying"}
                        => timeouts[dmem[p].no] = 0

(* No reaper dies after it has sent the report of a timeout and before it  *)
(* has removed the descriptor: nothing else would keep the next sweep from *)
(* sending the report again.                                               *)
KilledAtDelete == \E p \in Procs : pc[p] = "deleting" /\ Kill(p)

LEMMA InitRInv == Init => RInv
BY DEF Init, RInv, HoldsReap

(* A step that reports nothing, writes no descriptor and takes up none.    *)
Unreported ==
  /\ timeouts' = timeouts
  /\ desc' \in {desc, Absent}
  /\ pauses' = pauses
  /\ \A r \in Procs : pc'[r] = "pausing" => pc[r] = "pausing"
  /\ \A r \in Procs : pc'[r] \in {"armed", "reaping", "notifying"} =>
       pc[r] \in {"armed", "reaping", "notifying"} /\ dmem'[r] = dmem[r]
  /\ \A r \in Procs : pc'[r] = "deleting" => 
        pc[r] \in HoldsReap /\ dmem'[r] = dmem[r]
  /\ \A r \in Procs : pc[r] = "deleting" => 
        (pc'[r] = "deleting" /\ dmem'[r] = dmem[r]) \/ desc' = Absent

LEMMA UnreportedKeeps ==
  ASSUME IInv, RInv, Unreported
  PROVE  RInv'
<1>1. ASSUME NEW n, Described(n) PROVE Described(n)'
  BY <1>1 DEF Described, Unreported
<1>2. (pauses <= MaxPauses)'
      /\ (\A p \in Procs : pc[p] = "pausing" => pauses > 0)'
      /\ (desc # Absent => Described(desc.no))'
  BY <1>1 DEF RInv, Unreported
<1>3. ASSUME NEW p \in Procs, pc'[p] \in HoldsReap
      PROVE  Described(dmem[p].no)'
  <2>1. pc[p] \in HoldsReap /\ dmem'[p] = dmem[p]
    BY <1>3 DEF Unreported, HoldsReap
  <2>2. QED
    BY <1>1, <2>1 DEF RInv
<1>4. ASSUME NEW n \in 1..MaxPauses, timeouts'[n] # 0
      PROVE  /\ timeouts'[n] = 1
             /\ Described(n)'
             /\ \/ desc' = Absent
                \/ desc'.no # n
                \/ \E p \in Procs : pc'[p] = "deleting" /\ dmem'[p].no = n
  BY <1>1, <1>4 DEF RInv, Unreported
<1>5. ASSUME NEW p \in Procs, pc'[p] \in {"armed", "reaping", "notifying"}
      PROVE  timeouts'[dmem'[p].no] = 0
  BY <1>5 DEF RInv, Unreported
<1>6. QED
  BY <1>2, <1>3, <1>4, <1>5 DEF RInv

(* ... as do all but a pause, a reload and a report.                       *)
LEMMA QuietReports ==
  ASSUME IInv, NEW p \in Procs,
         \/ Command(p)
         \/ RunStep(p) /\ ~PauseSave(p) /\ ~PauseDescribe(p)
         \/ ResumeStep(p)
         \/ ReapStep(p) /\ ~ReapReload(p) /\ ~ReapNotify(p)
         \/ CancelCheckpoint(p)
         \/ Kill(p) /\ pc[p] # "deleting"
  PROVE  Unreported
<1> USE DEF Unreported, Goto, Gone, Save, Hold, Open, HoldsReap,
            files, locks, local, IInv, TypeOK
<1>1. CASE Command(p)
  BY <1>1 DEF Command, RunStart, ResumeStart, ReapList, CancelDescriptor
<1>2. CASE RunStep(p) /\ ~PauseSave(p) /\ ~PauseDescribe(p)
  BY <1>2 DEF RunStep, RunBlock, RunOutputs, RunSlice, RunCleanup,
              RunBail, RunFinish, Exit
<1>3. CASE ResumeStep(p)
  BY <1>3 DEF ResumeStep, ResumeRefuse, ResumeAbort, ResumeDrop,
              ResumeDeliver, ResumeConsume, ResumeSlice, ResumeNavigate,
              ResumeRun, ResumeBusy
<1>4. CASE ReapStep(p) /\ ~ReapReload(p) /\ ~ReapNotify(p)
  BY <1>4 DEF ReapStep, ReapGone, ReapBusy, ReapClaim, ReapSettle,
              ReapDelete, LocksHeld
<1>5. CASE CancelCheckpoint(p) \/ (Kill(p) /\ pc[p] # "deleting")
  BY <1>5 DEF CancelCheckpoint, Kill
<1> HIDE DEF Unreported, Goto, Gone, Save, Hold, Open, IInv, TypeOK
<1>6. QED
  BY <1>1, <1>2, <1>3, <1>4, <1>5

(* A pause takes the next number ...                                       *)
LEMMA PauseSaveReports ==
  ASSUME IInv, RInv, NEW p \in Procs, PauseSave(p)
  PROVE  RInv'
<1>1. /\ pauses' = pauses + 1 /\ pauses \in Nat /\ pauses' <= MaxPauses
      /\ desc' = desc /\ timeouts' = timeouts /\ dmem' = dmem
      /\ pc' = [pc EXCEPT ![p] = "pausing"] /\ pc[p] = "running"
      /\ pc \in [Procs -> Labels]
  BY DEF PauseSave, Goto, IInv, TypeOK
<1>2. ASSUME NEW n, Described(n) PROVE Described(n)'
  BY <1>1, <1>2 DEF Described
<1>3. \A r \in Procs : pc'[r] \in HoldsReap => pc'[r] = pc[r]
  BY <1>1 DEF HoldsReap
<1>4. \A r \in Procs : pc[r] = "deleting" => pc'[r] = "deleting"
  BY <1>1
<1>5. \A r \in Procs : pc'[r] \in {"armed", "reaping", "notifying"} => pc'[r] = pc[r]
  BY <1>1
<1>6. QED
  BY <1>1, <1>2, <1>3, <1>4, <1>5 DEF RInv

(* ... which no descriptor, report or reaper has until it is described.    *)
LEMMA PauseDescribeReports ==
  ASSUME IInv, RInv, NEW p \in Procs, PauseDescribe(p)
  PROVE  RInv'
<1>1. /\ pauses' = pauses /\ pauses \in Nat 
      /\ timeouts' = timeouts /\ dmem' = dmem
      /\ pc' = [pc EXCEPT ![p] = "exiting"] /\ pc[p] = "pausing"
      /\ pc \in [Procs -> Labels]
      /\ timeouts \in [1..MaxPauses -> 0..2]
  BY DEF PauseDescribe, Goto, IInv, TypeOK, local
<1>2. desc'.no = pauses
  BY DEF PauseDescribe
<1>3. pauses \in 1..MaxPauses /\ timeouts[pauses] = 0
  BY <1>1 DEF RInv, Described
<1>4. \A r \in Procs : pc[r] = "pausing" => r = p
  BY <1>1 DEF IInv, LocksHeld, HoldsCkpt
<1>5. \A r \in Procs : pc'[r] # "pausing"
  BY <1>1, <1>4
<1>6. \A n \in 1..pauses : Described(n)'
  BY <1>1, <1>5 DEF Described
<1>7. \A n : Described(n) => n \in 1..pauses
  BY DEF Described
<1>8. \A r \in Procs : pc'[r] \in HoldsReap => pc'[r] = pc[r]
  BY <1>1 DEF HoldsReap
<1>9. \A r \in Procs : pc'[r] \in {"armed", "reaping", "notifying"} => pc'[r] = pc[r]
  BY <1>1
<1>10. \A n \in 1..MaxPauses : timeouts[n] # 0 => n < pauses
  BY <1>1 DEF RInv, Described
<1>11. QED
  BY <1>1, <1>2, <1>3, <1>6, <1>7, <1>8, <1>9, <1>10 DEF RInv

(* A reaper reads a descriptor again with the reap lock in hand: the one   *)
(* it finds was not reported, for who reports removes it under that lock.  *)
LEMMA ReloadReports ==
  ASSUME IInv, RInv, NEW p \in Procs, ReapReload(p)
  PROVE  RInv'
<1>1. /\ pauses' = pauses /\ desc' = desc /\ desc # Absent
      /\ timeouts' = timeouts /\ dmem' = [dmem EXCEPT ![p] = desc]
      /\ pc' = [pc EXCEPT ![p] = "armed"] /\ pc[p] = "listed"
      /\ dmem \in [Procs -> Descriptors \union {Absent}]
      /\ pc \in [Procs -> Labels] /\ reapLock = NoProc
      /\ timeouts \in [1..MaxPauses -> 0..2] /\ desc \in Descriptors
      /\ pauses \in Nat /\ pauses <= MaxPauses
  BY DEF ReapReload, Goto, IInv, TypeOK, local, files, StillReapable, RInv
<1>2. \A r \in Procs : pc[r] \notin HoldsReap
  BY <1>1 DEF IInv, LocksHeld
<1>3. \A n : Described(n) <=> Described(n)'
  BY <1>1 DEF Described
<1>4. desc.no \in 1..MaxPauses /\ timeouts[desc.no] = 0
  BY <1>1, <1>2 DEF RInv, Described, HoldsReap
<1>5. ASSUME NEW r \in Procs, pc'[r] \in HoldsReap 
      PROVE r = p /\ dmem'[r] = desc
  BY <1>1, <1>2, <1>5
<1>6. QED
  BY <1>1, <1>2, <1>3, <1>4, <1>5 DEF RInv, HoldsReap

(* It still is not when it is reported.                                    *)
LEMMA NotifyReports ==
  ASSUME IInv, RInv, NEW p \in Procs, ReapNotify(p)
  PROVE  RInv'
<1> DEFINE k == dmem[p].no
<1>1. /\ pauses' = pauses /\ desc' = desc 
      /\ dmem' = dmem
      /\ timeouts' = [timeouts EXCEPT ![k] = IF @ < 2 THEN @ + 1 ELSE @]
      /\ pc' = [pc EXCEPT ![p] = "deleting"] /\ pc[p] = "notifying"
      /\ pc \in [Procs -> Labels] 
      /\ timeouts \in [1..MaxPauses -> 0..2] 
      /\ pauses \in Nat /\ pauses <= MaxPauses
  BY DEF ReapNotify, Goto, IInv, TypeOK, local, files, RInv
<1>2. \A r \in Procs : pc[r] \in HoldsReap => r = p
  BY <1>1 DEF IInv, LocksHeld, HoldsReap
<1>3. \A n : Described(n) <=> Described(n)'
  BY <1>1 DEF Described
<1>4. k \in 1..MaxPauses /\ timeouts[k] = 0 /\ Described(k)
  BY <1>1 DEF RInv, Described, HoldsReap
<1> HIDE DEF k
<1>5. timeouts'[k] = 1 /\ \A n \in 1..MaxPauses : n # k => timeouts'[n] = timeouts[n]
  BY <1>1, <1>4
<1>6. pc'[p] = "deleting" /\ dmem'[p].no = k
  BY <1>1 DEF k
<1>7. \A r \in Procs : pc'[r] \in HoldsReap => r = p
  BY <1>1, <1>2 DEF HoldsReap
<1>8. ASSUME NEW n \in 1..MaxPauses, timeouts'[n] # 0, n # k
      PROVE  /\ timeouts'[n] = 1
             /\ Described(n)'
             /\ \/ desc' = Absent
                \/ desc'.no # n
  BY <1>1, <1>2, <1>3, <1>5, <1>8 DEF RInv, HoldsReap
<1>9. \A n \in 1..MaxPauses : timeouts'[n] # 0 =>
         /\ timeouts'[n] = 1
         /\ Described(n)'
         /\ \/ desc' = Absent
            \/ desc'.no # n
            \/ \E r \in Procs : pc'[r] = "deleting" /\ dmem'[r].no = n
  BY <1>3, <1>4, <1>5, <1>6, <1>8
<1>10. \A r \in Procs : pc'[r] \in HoldsReap => Described(dmem[r].no)'
  BY <1>3, <1>4, <1>6, <1>7
<1>11. \A r \in Procs : pc'[r] \notin {"armed", "reaping", "notifying"}
  BY <1>6, <1>7 DEF HoldsReap
<1>12. QED
  BY <1>1, <1>3, <1>9, <1>10, <1>11 DEF RInv

(* However many reapers sweep beside whatever sessions, cancels and kills: *)
(* the timeout of one pause is reported once, unless a reaper dies right   *)
(* between sending the report and removing the descriptor.                 *)
THEOREM TimeoutReportedOnce ==
  Spec /\ [][~KilledAtDelete]_vars => []ReportedOnce
<1>1. IInv /\ RInv /\ [Next]_vars /\ [~KilledAtDelete]_vars => RInv'
  <2> SUFFICES ASSUME IInv, RInv, [Next]_vars, [~KilledAtDelete]_vars
               PROVE  RInv'
    OBVIOUS
  <2>1. CASE Tick \/ UNCHANGED vars
    <3>1. Unreported
      BY <2>1 DEF Tick, vars, files, local, Unreported, HoldsReap
    <3>2. QED
      BY <3>1, UnreportedKeeps
  <2>2. ASSUME NEW p \in Procs, Command(p) \/ Proceed(p) \/ Kill(p),
               ~UNCHANGED vars
        PROVE  RInv'
    <3>1. Kill(p) => pc[p] # "deleting"
      BY <2>2 DEF KilledAtDelete
    <3>2. QED
      BY <2>2, <3>1, UnreportedKeeps, QuietReports, PauseSaveReports,
         PauseDescribeReports, ReloadReports, NotifyReports
         DEF Proceed, RunStep, ReapStep
  <2>3. QED
    BY <2>1, <2>2 DEF Next
<1>2. RInv => ReportedOnce
  BY DEF RInv, ReportedOnce
<1>3. QED
  BY <1>1, <1>2, InitRInv, Invariance, PTL DEF Spec

(* Only `wb pending` sweeps.                                               *)
Sweeping ==
  \A p \in Procs : pc[p] \in HoldsReap \union {"listed"} => p \in Reapers

LEMMA OnlyReapersSweep == Spec => []Sweeping
<1>1. Init => Sweeping
  BY DEF Init, Sweeping, HoldsReap
<1>2. ASSUME IInv, Sweeping, [Next]_vars PROVE Sweeping'
  <2> USE DEF Sweeping, HoldsReap, Goto, Gone, Open, local
  <2>0. pc \in [Procs -> Labels] /\ Sweeping
    BY <1>2 DEF IInv, TypeOK
  <2>1. ASSUME NEW p \in Procs, Command(p) \/ CancelCheckpoint(p) \/ Kill(p)
        PROVE  Sweeping'
    BY <2>0, <2>1 DEF Command, RunStart, ResumeStart, ReapList, CancelDescriptor,
                CancelCheckpoint, Kill
  <2>2. ASSUME NEW p \in Procs, RunStep(p) PROVE Sweeping'
    BY <2>0, <2>2 DEF RunStep, RunBlock, RunOutputs, RunSlice, RunCleanup, RunBail,
                RunFinish, PauseSave, PauseDescribe, Exit
  <2>3. ASSUME NEW p \in Procs, ResumeStep(p) PROVE Sweeping'
    BY <2>0, <2>3 DEF ResumeStep, ResumeRefuse, ResumeAbort, ResumeDrop,
                ResumeDeliver, ResumeConsume, ResumeSlice, ResumeNavigate,
                ResumeRun, ResumeBusy
  <2>4. ASSUME NEW p \in Procs, ReapStep(p) PROVE Sweeping'
    BY <2>0, <2>4 DEF ReapStep, ReapReload, ReapGone, ReapBusy, ReapClaim,
                ReapSettle, ReapNotify, ReapDelete
  <2>5. CASE Tick \/ UNCHANGED vars
    BY <2>0, <2>5 DEF Tick, vars
  <2>6. QED
    BY <1>2, <2>1, <2>2, <2>3, <2>4, <2>5 DEF Next, Proceed
<1>3. QED
  BY <1>1, <1>2, Invariance, PTL DEF Spec

(* In particular where reapers are not killed, as in the run of reapers.   *)
COROLLARY OnceWithoutKills ==
  ASSUME Reapers \intersect Killable = {}
  PROVE  Spec => []ReportedOnce
<1>1. IInv /\ Sweeping => ~KilledAtDelete
  BY DEF KilledAtDelete, Sweeping, HoldsReap, Kill
<1>2. QED
  BY <1>1, OnlyReapersSweep, Invariance, TimeoutReportedOnce, PTL


-----------------------------------------------------------------------------
(* Calm behaviours.                                                        *)

(* The descriptor is that of the last pause, and of the checkpoint's run,  *)
(* and asks for something that is not answered yet.                        *)
Resumable ==
  /\ desc # Absent
  /\ desc.ident = ckpt.ident
  /\ desc.at \notin ckpt.waits
  /\ desc.no = pauses

(* What a session that holds the lock has in memory, and has saved.        *)
Saved(p) ==
  /\ pc[p] = "running" => /\ mem[p].status = "in_progress"
                          /\ mem[p].ident = ident[p]
  /\ pc[p] = "pausing" =>
       ckpt = mem[p] /\ ckpt # Absent /\ ckpt.ident = ident[p]
  /\ pc[p] \in {"cleanup", "dropping", "consuming"} =>
       ckpt # Absent /\ ckpt.status # "paused"
  /\ pc[p] = "cleanup" => mem[p].status = "in_progress"
                          /\ mem[p].ident = ident[p]
  /\ pc[p] \in {"resuming", "overdue"} => ckpt = mem[p]

(* Nobody reaps or cancels; and a paused checkpoint can be resumed, but    *)
(* for the moment at which its descriptor is being written.                *)
PInv ==
  /\ \A p \in Procs : /\ pc[p] \notin HoldsReap \union {"listed", "cancelling"}
                      /\ Saved(p)
  /\ ckpt # Absent /\ ckpt.status = "paused" =>
        Resumable \/ \E p \in Procs : pc[p] = "pausing"

CalmInv == calm => PInv


(* Who is not at work on the checkpoint has begun nothing, or is between a *)
(* resume and the run that it enters.                                      *)
Outside == {"idle", "handoff"}

(* Nothing is paused when nothing has begun.                               *)
LEMMA InitCalm == MCInit => CalmInv
BY DEF MCInit, Init, CalmInv, PInv, Saved, HoldsReap

(* One session is at work at a time: the others save nothing.              *)
LEMMA Alone ==
  ASSUME IInv, PInv, NEW p \in Procs, ckptLock \in {p, NoProc}
  PROVE  \A r \in Procs : r # p => pc[r] \in Outside
BY DEF IInv, TypeOK, LocksHeld, PInv, Outside, HoldsCkpt, HoldsReap, Labels

(* A step of one session is judged by that session and the two files.      *)
LEMMA Judged ==
  ASSUME IInv, PInv, NEW p \in Procs, ckptLock \in {p, NoProc},
         \A r \in Procs : r # p => pc'[r] = pc[r],
         Saved(p)',
         pc'[p] \notin HoldsReap \union {"listed", "cancelling"},
         (ckpt # Absent /\ ckpt.status = "paused" =>
            Resumable \/ pc[p] = "pausing")'
  PROVE  PInv'
<1>1. ASSUME NEW r \in Procs, r # p
      PROVE  /\ pc'[r] \notin HoldsReap \union {"listed", "cancelling"}
             /\ Saved(r)'
  BY <1>1, Alone DEF Outside, HoldsReap, Saved
<1>2. QED
  BY <1>1 DEF PInv

(* What a run begins with.                                                 *)
LEMMA Begun ==
  ASSUME NEW i \in Idents
  PROVE  Opened(i).status = "in_progress" /\ Opened(i).ident = i
BY DEF Opened, Continuable, New, MarkInProgress

(* What the saves of a session leave.                                      *)
LEMMA Marked ==
  ASSUME NEW c \in Checkpoints
  PROVE  /\ MarkFailed(c) # Absent /\ MarkFailed(c).status = "failed"
         /\ MarkComplete(c) # Absent /\ MarkComplete(c).status = "complete"
         /\ MarkInProgress(c) # Absent
         /\ MarkInProgress(c).status = "in_progress"
         /\ MarkPaused(c) # Absent /\ MarkPaused(c).status = "paused"
         /\ MarkPaused(c).ident = c.ident
<1>1. /\ MarkFailed(c) \in Checkpoints /\ MarkComplete(c) \in Checkpoints
      /\ MarkInProgress(c) \in Checkpoints /\ MarkPaused(c) \in Checkpoints
  BY DEF MarkFailed, MarkComplete, MarkInProgress, MarkPaused, Checkpoints,
         Status
<1>2. QED
  BY <1>1 DEF MarkFailed, MarkComplete, MarkInProgress, MarkPaused, Checkpoints

(* The steps of a calm run.                                                *)
LEMMA RunsCalmly ==
  ASSUME IInv, PInv, NEW p \in Procs,
         (\E i \in Idents : RunStart(p, i)) \/ RunStep(p)
  PROVE  PInv'
<1>0. /\ pc \in [Procs -> Labels]
      /\ mem \in [Procs -> Checkpoints \union {Absent}]
      /\ ident \in [Procs -> Idents \union {Absent}]
      /\ ckpt \in Checkpoints \union {Absent}
      /\ pauses \in Nat
      /\ Saved(p) /\ Informed(p) /\ RunUpToDate(p)
      /\ pc[p] \in HoldsCkpt => ckptLock = p
      /\ pc[p] \notin HoldsReap \union {"listed", "cancelling"}
      /\ ckptLock \in {p, NoProc} =>
           \A r \in Procs : pc[r] = "pausing" => r = p
      /\ ckpt # Absent /\ ckpt.status = "paused" =>
           Resumable \/ \E r \in Procs : pc[r] = "pausing"
  BY Alone DEF IInv, TypeOK, LocksHeld, SessionsUpToDate, PInv, Outside
<1> DEFINE Fine == (ckpt # Absent /\ ckpt.status = "paused" =>
                      Resumable \/ pc[p] = "pausing")
           In == pc[p] \notin HoldsReap \union {"listed", "cancelling"}
<1> USE DEF Goto, Hold, Save, files, locks, local, HoldsReap, HoldsCkpt,
            Saved, Resumable
<1>1. ASSUME NEW i \in Idents, RunStart(p, i)
      PROVE  PInv'
  <2>1. /\ ckptLock = NoProc /\ mem'[p] = Opened(i) /\ ident'[p] = i
        /\ ckpt' = ckpt /\ desc' = desc /\ pauses' = pauses
        /\ pc' = [pc EXCEPT ![p] = "running"]
    BY <1>0, <1>1 DEF RunStart, Open
  <2>2. Saved(p)'
    BY <1>0, <2>1, Begun
  <2>3. Fine' /\ In'
    BY <1>0, <2>1
  <2>4. QED
    BY <1>0, <2>1, <2>2, <2>3, Judged
<1>2. ASSUME RunBlock(p) \/ RunOutputs(p) \/ RunSlice(p)
      PROVE  PInv'
  <2>1. /\ pc[p] = "running" /\ ckptLock = p
        /\ pc' = [pc EXCEPT ![p] = pc'[p]]
        /\ pc'[p] \in {"running", "cleanup"}
        /\ mem'[p] \in {mem[p], Advance(mem[p])} /\ ckpt' = mem'[p]
        /\ ident' = ident
    BY <1>0, <1>2 DEF RunBlock, RunOutputs, RunSlice
  <2>2. /\ mem'[p].status = mem[p].status /\ mem'[p].ident = mem[p].ident
        /\ mem'[p] # Absent
    BY <1>0, <2>1 DEF Advance, Checkpoints, RunUpToDate
  <2>3. Saved(p)' /\ Fine' /\ In'
    BY <1>0, <2>1, <2>2
  <2>4. QED
    BY <1>0, <2>1, <2>3, Judged
<1>3. ASSUME RunCleanup(p) PROVE PInv'
  <2>1. Saved(p)' /\ Fine' /\ In' /\ ckptLock = p /\ pc[p] = "cleanup"
    BY <1>0, <1>3 DEF RunCleanup
  <2>4. QED
    BY <1>0, <1>3, <2>1, Judged DEF RunCleanup
<1>4. ASSUME RunBail(p) \/ RunFinish(p) PROVE PInv'
  <2>1. ckpt' # Absent /\ ckpt'.status # "paused"
    BY <1>0, <1>4, Marked DEF RunBail, RunFinish, RunUpToDate
  <2>2. Saved(p)' /\ Fine' /\ In' /\ ckptLock = p
    BY <1>0, <1>4, <2>1 DEF RunBail, RunFinish
  <2>4. QED
    BY <1>0, <1>4, <2>2, Judged DEF RunBail, RunFinish
<1>5. ASSUME PauseSave(p) PROVE PInv'
  <2>1. ckpt' # Absent /\ ckpt'.status = "paused" /\ ckpt'.ident = ident[p]
    BY <1>0, <1>5, Marked DEF PauseSave, RunUpToDate
  <2>2. Saved(p)' /\ Fine' /\ In' /\ ckptLock = p
    BY <1>0, <1>5, <2>1 DEF PauseSave
  <2>4. QED
    BY <1>0, <1>5, <2>2, Judged DEF PauseSave
<1>6. ASSUME PauseDescribe(p) PROVE PInv'
  <2>0. /\ pc[p] = "pausing" /\ ckptLock = p /\ ident[p] \in Idents
        /\ now \in Nat /\ Never \in Nat
        /\ pauses' = pauses /\ ckpt' = ckpt
    BY <1>0, <1>6 DEF PauseDescribe, Informed, IInv, TypeOK, Never
  <2>1. PICK at \in (Waits \ mem[p].waits) \union {Slice}, mode \in Modes,
             deadline \in {Never} \union {now + t : t \in Timeouts} :
          desc' = [at |-> at, mode |-> mode, deadline |-> deadline,
                   no |-> pauses, ident |-> ident[p]]
    BY <1>6 DEF PauseDescribe
  <2>3. desc' \in Descriptors
    <3>1. deadline \in Nat
      <4>1. \A t \in Timeouts : now + t \in Nat
        BY <2>0
      <4>2. QED
        BY <2>0, <4>1
    <3>2. at \in Waits \union {Slice}
      OBVIOUS
    <3>3. QED
      BY <1>0, <2>0, <2>1, <3>1, <3>2 DEF Descriptors
  <2>4. desc' # Absent /\ desc'.at \notin mem[p].waits
    <3>1. desc'.at = at /\ mem[p].waits \subseteq Waits
      BY <1>0, <2>0, <2>1 DEF Checkpoints
    <3>2. at \notin mem[p].waits
      BY <3>1, SliceAssumption
    <3>3. desc' # Absent
      BY <2>3
    <3>4. QED
      BY <3>1, <3>2, <3>3
  <2>5. Saved(p)' /\ Fine' /\ In'
    BY <1>0, <1>6, <2>0, <2>1, <2>4 DEF PauseDescribe
  <2>6. QED
    BY <1>0, <1>6, <2>0, <2>5, Judged DEF PauseDescribe
<1>7. ASSUME Exit(p) PROVE PInv'
  <2>1. pc[p] = "exiting" /\ pc' = [pc EXCEPT ![p] = "idle"]
        /\ ckpt' = ckpt /\ desc' = desc /\ pauses' = pauses
    BY <1>7 DEF Exit, Gone
  <2>2. Saved(p)' /\ Fine' /\ In'
    BY <1>0, <2>1
  <2>4. QED
    BY <1>0, <2>1, <2>2, Judged
<1> HIDE DEF Goto, Hold, Save, files, locks, local, HoldsReap, HoldsCkpt,
            Saved, Resumable
<1>8. QED
  BY <1>1, <1>2, <1>3, <1>4, <1>5, <1>6, <1>7 DEF RunStep

(* The steps of a calm resume.                                             *)
LEMMA ResumesCalmly ==
  ASSUME IInv, PInv, NEW p \in Procs, ResumeStart(p) \/ ResumeStep(p)
  PROVE  PInv'
<1>0. /\ pc \in [Procs -> Labels]
      /\ mem \in [Procs -> Checkpoints \union {Absent}]
      /\ ident \in [Procs -> Idents \union {Absent}]
      /\ ckpt \in Checkpoints \union {Absent}
      /\ pauses \in Nat
      /\ Saved(p) /\ Informed(p) /\ ResumeUpToDate(p)
      /\ pc[p] \in HoldsCkpt => ckptLock = p
      /\ pc[p] \notin HoldsReap \union {"listed", "cancelling"}
      /\ ckptLock \in {p, NoProc} =>
           \A r \in Procs : pc[r] = "pausing" => r = p
      /\ ckpt # Absent /\ ckpt.status = "paused" =>
           Resumable \/ \E r \in Procs : pc[r] = "pausing"
  BY Alone DEF IInv, TypeOK, LocksHeld, SessionsUpToDate, PInv, Outside
<1> DEFINE Fine == (ckpt # Absent /\ ckpt.status = "paused" =>
                      Resumable \/ pc[p] = "pausing")
           In == pc[p] \notin HoldsReap \union {"listed", "cancelling"}
<1> USE DEF Goto, Hold, Save, files, locks, local, HoldsReap, HoldsCkpt,
            Saved, Resumable
<1>1. ASSUME ResumeStart(p) PROVE PInv'
  <2>1. /\ ckptLock = NoProc /\ pc[p] = "idle"
        /\ mem'[p] = ckpt /\ ckpt' = ckpt
        /\ desc' = desc /\ pauses' = pauses
        /\ pc' = [pc EXCEPT ![p] = pc'[p]]
        /\ pc'[p] \in {"overdue", "resuming"}
    BY <1>0, <1>1 DEF ResumeStart
  <2>2. Saved(p)' /\ Fine' /\ In'
    BY <1>0, <2>1
  <2>3. QED
    BY <1>0, <2>1, <2>2, Judged
<1>2. ASSUME ResumeRefuse(p) \/ ResumeBusy(p) PROVE PInv'
  <2>1. /\ ckpt' = ckpt /\ desc' = desc /\ pauses' = pauses
        /\ pc' = [pc EXCEPT ![p] = pc'[p]] /\ pc'[p] \in {"exiting", "idle"}
        /\ pc[p] # "pausing"
    BY <1>0, <1>2 DEF ResumeRefuse, ResumeBusy, Gone
  <2>2. \A r \in Procs : pc'[r] = "pausing" <=> pc[r] = "pausing"
    BY <1>0, <2>1
  <2>3. /\ \A r \in Procs :
             /\ pc'[r] \notin HoldsReap \union {"listed", "cancelling"}
             /\ r # p => Saved(r)'
        /\ Saved(p)'
    BY <1>0, <1>2, <2>1 DEF ResumeRefuse, ResumeBusy, Gone, PInv
  <2>4. (ckpt # Absent /\ ckpt.status = "paused" =>
           Resumable \/ \E r \in Procs : pc[r] = "pausing")'
    BY <1>0, <2>1, <2>2
  <2>5. QED
    BY <2>3, <2>4 DEF PInv
<1>3. ASSUME ResumeAbort(p) \/ ResumeDeliver(p) \/ ResumeSlice(p)
             \/ \E t \in 0..Blocks : ResumeNavigate(p, t)
      PROVE PInv'
  <2>1. ckpt' # Absent /\ ckpt'.status \in {"failed", "in_progress"}
    <3>0. mem[p] \in Checkpoints
      BY <1>0, <1>3 DEF ResumeAbort, ResumeDeliver, ResumeSlice,
                             ResumeNavigate, ResumeUpToDate
    <3>1. CASE ResumeAbort(p)
      BY <3>0, <3>1, Marked DEF ResumeAbort
    <3>2. CASE ResumeDeliver(p)
      <4>1. dmem[p].at \in Waits
        BY <3>2 DEF ResumeDeliver, IInv, TypeOK, Informed, Descriptors
      <4>2. CompleteWait(mem[p], dmem[p].at) \in Checkpoints
        BY <3>0, <4>1, Satisfied
      <4> DEFINE c == CompleteWait(mem[p], dmem[p].at)
      <4> HIDE DEF c
      <4>3. ckpt' = MarkInProgress(c) /\ c \in Checkpoints
        BY <3>2, <4>2 DEF ResumeDeliver, c
      <4>4. QED
        BY <4>3, Marked
    <3>3. CASE ResumeSlice(p)
      BY <3>0, <3>3, Marked DEF ResumeSlice
    <3>4. ASSUME NEW t \in 0..Blocks, ResumeNavigate(p, t)
          PROVE  ckpt' # Absent /\ ckpt'.status \in {"failed", "in_progress"}
      <4>1. ckpt' = [mem[p] EXCEPT !.status = "in_progress", !.next = t]
        BY <3>0, <3>4 DEF ResumeNavigate, MarkInProgress, Checkpoints
      <4>2. t \in Nat
        OBVIOUS
      <4>3. QED
        BY <3>0, <4>1, <4>2 DEF Checkpoints, Status
    <3>5. QED
      BY <1>3, <3>1, <3>2, <3>3, <3>4
  <2>2. /\ pc[p] \in HoldsCkpt
        /\ pc' = [pc EXCEPT ![p] = pc'[p]]
        /\ pc'[p] \in {"dropping", "consuming", "handoff"}
    BY <1>0, <1>3 DEF ResumeAbort, ResumeDeliver, ResumeSlice, ResumeNavigate
  <2>3. Saved(p)' /\ Fine' /\ In'
    BY <1>0, <2>1, <2>2
  <2>4. QED
    BY <1>0, <2>2, <2>3, Judged
<1>4. ASSUME ResumeDrop(p) \/ ResumeConsume(p) PROVE PInv'
  <2>1. /\ ckpt' = ckpt /\ pc[p] \in {"dropping", "consuming"} /\ ckptLock = p
        /\ pc' = [pc EXCEPT ![p] = pc'[p]] /\ pc'[p] \in {"exiting", "handoff"}
    BY <1>0, <1>4 DEF ResumeDrop, ResumeConsume
  <2>2. Saved(p)' /\ Fine' /\ In'
    BY <1>0, <2>1
  <2>3. QED
    BY <1>0, <2>1, <2>2, Judged
<1>5. ASSUME ResumeRun(p) PROVE PInv'
  <2>1. /\ ckptLock = NoProc /\ mem'[p] = Opened(ident[p]) /\ ident' = ident
        /\ ckpt' = ckpt /\ desc' = desc /\ pauses' = pauses
        /\ pc' = [pc EXCEPT ![p] = "running"] /\ ident[p] \in Idents
        /\ pc[p] = "handoff"
    BY <1>0, <1>5 DEF ResumeRun, Open, Informed
  <2>2. Saved(p)'
    BY <1>0, <2>1, Begun
  <2>3. Fine' /\ In'
    BY <1>0, <2>1
  <2>4. QED
    BY <1>0, <2>1, <2>2, <2>3, Judged
<1> HIDE DEF Goto, Hold, Save, files, locks, local, HoldsReap, HoldsCkpt,
            Saved, Resumable
<1>6. QED
  BY <1>1, <1>2, <1>3, <1>4, <1>5 DEF ResumeStep

(* CalmPausesResume, for any number of operators, workbooks and pauses:    *)
(* as long as nobody is killed, cancels or reaps, a paused checkpoint that *)
(* no session holds has the descriptor a resume needs, of that pause and   *)
(* of that run.                                                            *)
THEOREM PausesResume == MCSpec => []CalmPausesResume
<1>1. MCInit => Init
  BY DEF MCInit
<1>2. [MCNext]_<<vars, calm>> => [Next]_vars
  BY DEF MCNext, Operators, Next, Command, Proceed
<1>3. MCSpec => []IInv
  BY <1>1, <1>2, Invariance, PTL DEF MCSpec, Spec
<1>4. ASSUME IInv, CalmInv, [MCNext]_<<vars, calm>> PROVE CalmInv'
  <2> SUFFICES ASSUME calm' PROVE PInv'
    BY DEF CalmInv
  <2>1. CASE UNCHANGED <<vars, calm>> \/ (Tick /\ UNCHANGED calm)
    BY <1>4, <2>1 DEF CalmInv, PInv, Saved, Resumable, vars, files, locks,
                      local, Tick
  <2>2. ASSUME Operators, ~Tick, UNCHANGED calm PROVE PInv'
    BY <1>4, <2>2, RunsCalmly, ResumesCalmly DEF Operators, CalmInv
  <2>3. QED
    BY <1>4, <2>1, <2>2 DEF MCNext
<1>5. CalmInv /\ IInv => CalmPausesResume
  BY DEF CalmInv, PInv, CalmPausesResume, PausedIsResumable, Resumable, IInv,
         LocksHeld, HoldsCkpt
<1>6. QED
  BY <1>3, <1>4, <1>5, InitCalm, PTL DEF MCSpec
=============================================================================
