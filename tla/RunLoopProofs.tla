---------------------------- MODULE RunLoopProofs ----------------------------
(***************************************************************************)
(* No workbook, no navigation and no crash gets a run past a wait that no  *)
(* resume satisfied: WaitsRespected is an invariant of RunLoop, whatever   *)
(* the workbook, the number of sessions, and wherever the cursor is put.   *)
(*                                                                         *)
(* WaitsRespected is not inductive: that the waits before a section are in *)
(* the session's checkpoint says nothing of the next section unless the    *)
(* one that ends is a block or a sentinel (AtBlocks), and a checkpoint that*)
(* is saved as complete must be the one the walk kept (Shaped).            *)
(*                                                                         *)
(* That a checkpoint accounts for the blocks before its cursor (Accounted),*)
(* in order (InOrder), is not inductive either: CInv adds where the walk is*)
(* (Position), that the checkpoint it keeps has nothing past it (Ahead),   *)
(* that a block recorded is behind satisfied waits only, so that reopening *)
(* a wait cuts the results at it, and the same of the file (OnFile).       *)
(***************************************************************************)
EXTENDS MCRunLoop, FiniteSetTheorems, WellFoundedInduction, TLAPS

Fields == DOMAIN New

Shaped ==
  /\ ckpt # Absent => DOMAIN ckpt = Fields
  /\ phase \in Walking \union {"pausing"} => DOMAIN c = Fields

Unfinished == phase \in Walking => c.status # "complete"

AtBlocks ==
  /\ sec \in Nat
  /\ phase \in Executing => sec \notin Waits

WInv == Shaped /\ Unfinished /\ AtBlocks /\ WaitsRespected

(* The updates of a checkpoint that a walk makes keep its waits, and only  *)
(* the end of the walk makes it complete.                                  *)
LEMMA Kept ==
  ASSUME NEW d, DOMAIN d = Fields, NEW b, NEW n
  PROVE  /\ DOMAIN AddSkip(d, b) = Fields
         /\ AddSkip(d, b).waits = d.waits
         /\ AddSkip(d, b).status = d.status
         /\ DOMAIN WithSeq(AddResult(d, b), n) = Fields
         /\ WithSeq(AddResult(d, b), n).waits = d.waits
         /\ WithSeq(AddResult(d, b), n).status = d.status
<1> DEFINE a == AddResult(d, b)
           k == AddSkip(d, b)
<1>1. DOMAIN k = Fields /\ k.waits = d.waits /\ k.status = d.status
  BY DEF AddSkip, Fields, New
<1>2. DOMAIN a = Fields /\ a.waits = d.waits /\ a.status = d.status
  BY DEF AddResult, Fields, New
<1> HIDE DEF a
<1>3. /\ DOMAIN WithSeq(a, n) = Fields
      /\ WithSeq(a, n).waits = a.waits /\ WithSeq(a, n).status = a.status
  BY <1>2 DEF WithSeq, Fields, New
<1> QED BY <1>1, <1>2, <1>3 DEF a

(* ... as do a pause and a failure, which end the walk.                    *)
LEMMA Stopped ==
  ASSUME NEW d, DOMAIN d = Fields, NEW b, NEW n
  PROVE  LET p == WithSeq(MarkPaused([d EXCEPT !.next = b]), n)
             f == WithSeq(MarkFailed(d), n)
         IN  /\ DOMAIN p = Fields /\ p.status = "paused"
             /\ DOMAIN f = Fields /\ f.status = "failed"
<1> DEFINE e == [d EXCEPT !.next = b]
<1>1. DOMAIN e = Fields
  BY DEF Fields, New
<1> HIDE DEF e
<1> DEFINE p == MarkPaused(e)
           f == MarkFailed(d)
<1>2. DOMAIN p = Fields /\ p.status = "paused"
  BY <1>1 DEF MarkPaused, Fields, New
<1>3. DOMAIN f = Fields /\ f.status = "failed"
  BY DEF MarkFailed, Fields, New
<1> HIDE DEF p, f
<1>4. DOMAIN WithSeq(p, n) = Fields /\ WithSeq(p, n).status = "paused"
  BY <1>2 DEF WithSeq, Fields, New
<1>5. DOMAIN WithSeq(f, n) = Fields /\ WithSeq(f, n).status = "failed"
  BY <1>3 DEF WithSeq, Fields, New
<1> QED BY <1>4, <1>5 DEF p, f, e

(* A section that is not a wait is left behind with nothing to ask.        *)
LEMMA Past ==
  ASSUME NEW s \in Nat, s \notin Waits, NEW done,
         \A w \in Waits : w < s => w \in done
  PROVE  \A w \in Waits : w < s + 1 => w \in done
BY WorkbookAssumption DEF Waits, Sections


-----------------------------------------------------------------------------
(* Commands.                                                               *)

LEMMA InitWInv == Init => WInv
BY DEF Init, WInv, Shaped, Unfinished, AtBlocks, WaitsRespected, Finished, Walking, Executing

(* Entering the run: at the first section, behind which there is nothing.  *)
LEMMA Entering ==
  ASSUME WInv, NEW b, NEW o, NEW r, Enter(b, o, r), UNCHANGED files
  PROVE  WInv'
<1> DEFINE d == IF Resumable THEN MarkInProgress(ckpt) ELSE New
<1>1. DOMAIN d = Fields /\ d.status = "in_progress"
  <2>1. CASE Resumable
    <3>1. DOMAIN ckpt = Fields
      BY <2>1 DEF WInv, Shaped, Resumable
    <3> QED BY <2>1, <3>1 DEF MarkInProgress, Fields, New
  <2>2. CASE ~Resumable
    BY <2>2 DEF Fields, New
  <2> QED BY <2>1, <2>2
<1>2. phase' = "loop" /\ c' = d /\ sec' = 1
  BY DEF Enter
<1>3. \A w \in Waits : ~(w < 1)
  BY WorkbookAssumption DEF Waits, Sections
<1>4. Fields' = Fields
  BY DEF Fields, New
<1> HIDE DEF d
<1> QED BY <1>1, <1>2, <1>3, <1>4 DEF files, WInv, Shaped, Unfinished, AtBlocks, WaitsRespected, Finished, Walking, Executing

(* A resume saves a checkpoint that is not complete, and hands it over.    *)
LEMMA Resuming ==
  ASSUME WInv, NEW d, DOMAIN d = Fields, d.status = "in_progress",
         ckpt' = d, phase' \in {"consuming", "resumed"}, UNCHANGED sec
  PROVE  WInv'
<1>1. Fields' = Fields
  BY DEF Fields, New
<1> QED BY <1>1 DEF WInv, Shaped, Unfinished, AtBlocks, WaitsRespected, Finished, Walking, Executing

LEMMA CommandWInv == WInv /\ Command => WInv'
<1> SUFFICES ASSUME WInv, NEW b \in BOOLEAN,
                    \/ Run(b) \/ ResumeWait(b) \/ ResumePlain(b)
                    \/ \E t \in Blocks : ResumeAt(b, t)
             PROVE  WInv'
  BY DEF Command
<1>1. CASE Run(b)
  BY <1>1, Entering DEF Run
<1> DEFINE m == MarkInProgress(ckpt)
<1>2. Resumable => DOMAIN ckpt = Fields
  BY DEF WInv, Shaped, Resumable
<1>3. Resumable => DOMAIN m = Fields /\ m.status = "in_progress"
  BY <1>2 DEF MarkInProgress, Fields, New
<1>4. CASE ResumeWait(b)
  <2> DEFINE w == CompleteWait(ckpt, desc)
  <2>1. DOMAIN w = Fields
    BY <1>2, <1>4 DEF ResumeWait, CompleteWait, Fields, New
  <2> HIDE DEF w
  <2>2. DOMAIN MarkInProgress(w) = Fields
        /\ MarkInProgress(w).status = "in_progress"
    BY <2>1 DEF MarkInProgress, Fields, New
  <2>3. ckpt' = MarkInProgress(w) /\ phase' = "consuming" /\ UNCHANGED sec
    BY <1>4 DEF ResumeWait, w, cursor
  <2> QED BY <2>2, <2>3, Resuming
<1>5. CASE ResumePlain(b)
  BY <1>3, <1>5, Resuming DEF ResumePlain, cursor
<1>6. CASE \E t \in Blocks : ResumeAt(b, t)
  <2> PICK t \in Blocks : ResumeAt(b, t)
    BY <1>6
  <2> HIDE DEF m
  <2> DEFINE v == [m EXCEPT !.next = t]
  <2>1. DOMAIN v = Fields /\ v.status = "in_progress"
    BY <1>3 DEF ResumeAt, Fields, New
  <2> HIDE DEF v
  <2> DEFINE x == [v EXCEPT !.results = Retained(@, t)]
  <2>2. DOMAIN x = Fields /\ x.status = "in_progress"
    BY <2>1 DEF Fields, New
  <2>3. ckpt' \in {v, x} /\ phase' = "resumed" /\ UNCHANGED sec
    BY DEF ResumeAt, v, m, cursor
  <2> QED BY <2>1, <2>2, <2>3, Resuming
<1> QED BY <1>1, <1>4, <1>5, <1>6

-----------------------------------------------------------------------------
(* The walk.                                                               *)

(* A step to the next section from one that is not an open wait; the file  *)
(* is left alone, or becomes the session's checkpoint of after the step.   *)
LEMMA Walked ==
  ASSUME WInv, phase \in Walking, sec \in Sections,
         sec \in Waits => sec \in c.waits,
         DOMAIN c' = Fields, c'.waits = c.waits, c'.status = c.status,
         ckpt' \in {ckpt, c, c'}, sec' = sec + 1, phase' = "loop"
  PROVE  WInv'
<1>1. Fields' = Fields
  BY DEF Fields, New
<1>2. DOMAIN c = Fields /\ c.status # "complete"
  BY DEF WInv, Shaped, Unfinished
<1>3. sec' \in Nat
  BY DEF WInv, AtBlocks
<1>4. \A w \in Waits : w < sec => w \in c.waits
  BY DEF WInv, WaitsRespected
<1>5. \A w \in Waits : w < sec + 1 => w \in c.waits
  BY <1>4, WorkbookAssumption DEF Waits, Sections, WInv, AtBlocks
<1>6. ckpt' # Absent => DOMAIN ckpt' = Fields
  BY <1>2 DEF WInv, Shaped
<1>7. Finished' => Waits \subseteq ckpt'.waits
  BY <1>2 DEF WInv, WaitsRespected, Finished
<1> QED BY <1>1, <1>2, <1>3, <1>5, <1>6, <1>7
  DEF WInv, Shaped, Unfinished, AtBlocks, WaitsRespected, Finished, Walking, Executing

LEMMA PassingWInv ==
  WInv /\ (Include \/ PassWait \/ ReplayNothing \/ ReplayBlock) => WInv'
<1> SUFFICES ASSUME WInv, Include \/ PassWait \/ ReplayNothing \/ ReplayBlock
             PROVE  WInv'
  OBVIOUS
<1>1. /\ phase = "loop" /\ sec \in Sections
      /\ UNCHANGED c /\ ckpt' \in {ckpt, c}
      /\ sec' = sec + 1 /\ phase' = "loop"
      /\ sec \in Waits => sec \in c.waits
  BY DEF Include, PassWait, ReplayNothing, ReplayBlock, AtBlock, NextSection,
         NextBlock, SaveOutputs, files, Waits, Here
<1>2. DOMAIN c = Fields
  BY <1>1 DEF WInv, Shaped, Walking
<1> QED BY <1>1, <1>2, Walked DEF Walking

LEMMA SkippingWInv == WInv /\ (ReplayOver \/ SkipBlock) => WInv'
<1> SUFFICES ASSUME WInv, ReplayOver \/ SkipBlock
             PROVE  WInv'
  OBVIOUS
<1>1. /\ phase = "loop" /\ sec \in Sections
      /\ c' = AddSkip(c, blk) /\ ckpt' = c'
      /\ sec' = sec + 1 /\ phase' = "loop"
      /\ sec \in Waits => sec \in c.waits
  BY DEF ReplayOver, SkipBlock, AtBlock, NextSection, NextBlock, Skip, Save,
         Waits, Here
<1>2. DOMAIN c = Fields
  BY <1>1 DEF WInv, Shaped, Walking
<1>3. /\ DOMAIN AddSkip(c, blk) = Fields
      /\ AddSkip(c, blk).waits = c.waits
      /\ AddSkip(c, blk).status = c.status
  BY <1>2, Kept
<1> QED BY <1>1, <1>3, Walked DEF Walking

(* A block executes in place ...                                           *)
LEMMA ExecuteWInv == WInv /\ Execute => WInv'
<1> SUFFICES ASSUME WInv, Execute
             PROVE  WInv'
  OBVIOUS
<1>1. /\ phase = "loop" /\ UNCHANGED <<c, sec>> /\ ckpt' \in {ckpt, c}
      /\ phase' \in Executing /\ sec \notin Waits
  BY DEF Execute, AtBlock, SaveOutputs, Executing, cursor, Waits, Here
<1>2. Fields' = Fields
  BY DEF Fields, New
<1>3. DOMAIN c = Fields /\ c.status # "complete"
  BY <1>1 DEF WInv, Shaped, Unfinished, Walking
<1> QED BY <1>1, <1>2, <1>3 DEF WInv, Shaped, Unfinished, AtBlocks, WaitsRespected, Finished, Walking, Executing

(* ... and is left when its result, or its descriptor, is dealt with.      *)
LEMMA RecordWInv == WInv /\ Record => WInv'
<1> SUFFICES ASSUME WInv, Record
             PROVE  WInv'
  OBVIOUS
<1> DEFINE d == WithSeq(AddResult(c, blk), seq')
<1>1. phase \in {"ran", "restored"} /\ c' = d /\ ckpt' = d
  BY DEF Record, Save
<1>2. DOMAIN c = Fields /\ c.status # "complete"
  BY <1>1 DEF WInv, Shaped, Unfinished, Walking, Executing
<1>3. DOMAIN d = Fields /\ d.waits = c.waits /\ d.status = c.status
  BY <1>2, Kept
<1>4. \/ sec' = sec + 1 /\ phase' = "loop"
      \/ sec' = sec /\ phase' = "cleanup"
  BY DEF Record, NextBlock, NextSection, cursor
<1>5. Fields' = Fields
  BY DEF Fields, New
<1> HIDE DEF d
<1>6. sec \in Nat /\ sec \notin Waits /\ \A w \in Waits : w < sec => w \in c.waits
  BY <1>1 DEF WInv, Shaped, Unfinished, AtBlocks, WaitsRespected, Finished, Walking, Executing
<1>7. \A w \in Waits : w < sec + 1 => w \in c.waits
  BY <1>6, Past
<1> QED BY <1>1, <1>2, <1>3, <1>4, <1>5, <1>6, <1>7 DEF WInv, Shaped, Unfinished, AtBlocks, WaitsRespected, Finished, Walking, Executing

LEMMA CleanupWInv == WInv /\ Cleanup => WInv'
<1> SUFFICES ASSUME WInv, Cleanup
             PROVE  WInv'
  OBVIOUS
<1>1. /\ phase = "cleanup" /\ UNCHANGED <<ckpt, c>>
      /\ sec' = sec + 1 /\ phase' = "loop"
  BY DEF Cleanup, NextBlock, NextSection
<1>2. sec \in Nat /\ sec \notin Waits /\ \A w \in Waits : w < sec => w \in c.waits
  BY <1>1 DEF WInv, Shaped, Unfinished, AtBlocks, WaitsRespected, Finished, Walking, Executing
<1>3. \A w \in Waits : w < sec + 1 => w \in c.waits
  BY <1>2, Past
<1>4. Fields' = Fields
  BY DEF Fields, New
<1> QED BY <1>1, <1>2, <1>3, <1>4 DEF WInv, Shaped, Unfinished, AtBlocks, WaitsRespected, Finished, Walking, Executing

-----------------------------------------------------------------------------
(* The ways a walk ends.                                                   *)

LEMMA PauseWInv == WInv /\ (PauseWait \/ PauseSlice \/ Bail) => WInv'
<1> SUFFICES ASSUME WInv, PauseWait \/ PauseSlice \/ Bail
             PROVE  WInv'
  OBVIOUS
<1>1. phase \in Walking /\ UNCHANGED sec /\ phase' \in {"pausing", "ending"}
  BY DEF PauseWait, PauseSlice, Bail, AtBlock, Walking, Executing, cursor
<1>2. DOMAIN c = Fields
  BY <1>1 DEF WInv, Shaped
<1> DEFINE p == WithSeq(MarkPaused([c EXCEPT !.next = blk]), seq')
           f == WithSeq(MarkFailed(c), seq')
<1>3. c' = ckpt' /\ c' \in {p, f}
  BY DEF PauseWait, PauseSlice, Bail, Save
<1>4. /\ DOMAIN p = Fields /\ p.status = "paused"
      /\ DOMAIN f = Fields /\ f.status = "failed"
  BY <1>2, Stopped
<1>5. Fields' = Fields
  BY DEF Fields, New
<1> HIDE DEF p, f
<1> QED BY <1>1, <1>3, <1>4, <1>5 DEF WInv, Shaped, Unfinished, AtBlocks, WaitsRespected, Finished, Walking, Executing

(* The end of the workbook: every wait is behind it.                       *)
LEMMA CompleteWInv == WInv /\ Complete => WInv'
<1> SUFFICES ASSUME WInv, Complete
             PROVE  WInv'
  OBVIOUS
<1>1. /\ phase = "loop" /\ sec > Len(Workbook) /\ UNCHANGED sec
      /\ c' = MarkComplete(c) /\ ckpt' = c' /\ phase' = "ending"
  BY DEF Complete, Save, cursor
<1>2. DOMAIN c = Fields
  BY <1>1 DEF WInv, Shaped, Walking
<1>3. DOMAIN c' = Fields /\ c'.waits = c.waits
  BY <1>1, <1>2 DEF MarkComplete, Fields, New
<1>4. \A w \in Waits : w < sec
  BY <1>1, WorkbookAssumption DEF Waits, Sections, WInv, AtBlocks
<1>5. Waits \subseteq c.waits
  BY <1>1, <1>4 DEF WInv, WaitsRespected, Walking
<1>6. Fields' = Fields
  BY DEF Fields, New
<1> QED BY <1>1, <1>3, <1>5, <1>6 DEF WInv, Shaped, Unfinished, AtBlocks, WaitsRespected, Finished, Walking, Executing

(* Steps outside the walk leave the checkpoint alone.                      *)
LEMMA AsideWInv ==
  WInv /\ (ResumeConsume \/ PauseDescribe \/ PauseExit \/ End \/ Kill) => WInv'
<1> SUFFICES ASSUME WInv,
                    ResumeConsume \/ PauseDescribe \/ PauseExit \/ End \/ Kill
             PROVE  WInv'
  OBVIOUS
<1>1. /\ UNCHANGED ckpt /\ sec' \in {sec, 1}
      /\ phase' \in {"idle", "resumed", "paused"}
  BY DEF ResumeConsume, PauseDescribe, PauseExit, End, Kill, Over, files, cursor
<1>2. Fields' = Fields
  BY DEF Fields, New
<1> QED BY <1>1, <1>2 DEF WInv, Shaped, Unfinished, AtBlocks, WaitsRespected, Finished, Walking, Executing

LEMMA ResumeRunWInv == WInv /\ ResumeRun => WInv'
BY Entering DEF ResumeRun

LEMMA StutterWInv == WInv /\ UNCHANGED vars => WInv'
<1>1. UNCHANGED vars => Fields' = Fields
  BY DEF Fields, New
<1> QED BY <1>1 DEF vars, files, cursor, WInv, Shaped, Unfinished, AtBlocks, WaitsRespected, Finished, Walking, Executing

LEMMA StepWInv == WInv /\ [Next]_vars => WInv'
BY CommandWInv, ResumeRunWInv, PassingWInv, SkippingWInv, ExecuteWInv,
   RecordWInv, CleanupWInv, PauseWInv, CompleteWInv, AsideWInv, StutterWInv
   DEF Next, Session

-----------------------------------------------------------------------------
(* A run never gets past an unsatisfied wait -- not by replaying, not by an*)
(* operator's jump, not by a crash -- and never completes without it.      *)
THEOREM WaitsAlwaysRespected == Spec => []WaitsRespected
<1>1. WInv => WaitsRespected
  BY DEF WInv
<1> QED BY InitWInv, StepWInv, <1>1, PTL DEF Spec

-----------------------------------------------------------------------------
(* What a checkpoint accounts for.                                         *)

(* The order of the workbook.                                              *)
Ascending(r) == \A j, k \in DOMAIN r : j < k => r[j] < r[k]

(* A wait before block b has been satisfied.                               *)
BehindWaits(d, b) == \A w \in Waits : BlocksBefore(w) <= b => w \in d.waits

(* Every block before the cursor is accounted for, once.                   *)
Whole(d) ==
  /\ Recorded(d) \union d.skipped = 0..(d.next - 1)
  /\ Recorded(d) \intersect d.skipped = {}

(* What a checkpoint says of the run, in memory or on file.                *)
Sound(d, jump) ==
  /\ Ascending(d.results)
  /\ \A b \in Recorded(d) : b < d.next
  /\ \A b \in Recorded(d) \union d.skipped : BehindWaits(d, b)
  /\ ~jump => Whole(d)

(* Where a session is: the block counter is the number of the blocks before *)
(* the section, and only what is not replayed is executed.                 *)
Position ==
  /\ phase \in Walking => c \in Checkpoints /\ blk = BlocksBefore(sec)
  /\ phase \in Executing => sec \in Sections /\ Executable(sec) /\ blk >= replay
  /\ phase = "pausing" => sec \in Sections
  /\ ~jumped => over = {}

(* The blocks behind the walk, the one it executes not counted *)
Behind == IF phase = "cleanup" THEN blk + 1 ELSE blk

(* The checkpoint of a walk has no result at or past the walk that is not a *)
(* replayed one, and its cursor is where the walk is or where it resumed.  *)
Ahead ==
  phase \in Walking =>
    /\ Sound(c, jumped) /\ c.status = "in_progress"
    /\ \A b \in Recorded(c) : b < replay \/ b < Behind
    /\ c.next >= replay /\ c.next >= Behind
    /\ ~jumped => c.next = replay \/ c.next = Behind

(* The checkpoint on file: complete only at the end, failed at its block.  *)
OnFile ==
  ckpt # Absent =>
    /\ Sound(ckpt, jumped)
    /\ ckpt.status = "complete" => ckpt.next = BlockCount
    /\ ckpt.status = "failed" /\ ~jumped => ckpt.next = failedAt

(* The inductive invariant.                                                *)
CInv == WInv /\ TypeOK /\ Position /\ Ahead /\ OnFile

-----------------------------------------------------------------------------
(* Counting.                                                               *)

(* The numbers are well-founded, so a bounded set has a greatest one.      *)
LEMMA Less == IsWellFoundedOn({p \in Nat \X Nat : p[1] < p[2]}, Nat)
BY NatLessThanWellFounded DEF OpToRel

(* It is what Max chooses.                                                 *)
LEMMA Greatest ==
  ASSUME NEW n \in Nat, NEW T \in SUBSET (0..n), T # {}
  PROVE  /\ Max(T) \in T
         /\ \A y \in T : Max(T) >= y
<1> DEFINE R == {p \in Nat \X Nat : p[1] < p[2]}
           U == {n - x : x \in T}
<1>1. U \subseteq Nat
  OBVIOUS
<1>2. U # {}
  <2>1. PICK x : x \in T
    OBVIOUS
  <2>2. n - x \in U
    BY <2>1
  <2> QED BY <2>2
<1>3. PICK u \in U : \A y \in U : ~ (<<y, u>> \in R)
  <2> HIDE DEF U, R
  <2> QED BY <1>1, <1>2, Less, WFMin DEF R
<1>4. \A y \in U : y >= u
  <2> SUFFICES ASSUME NEW y \in U, ~(y >= u) PROVE FALSE
    OBVIOUS
  <2>1. y \in Nat /\ u \in Nat
    BY <1>1
  <2>2. <<y, u>> \in R
    BY <2>1
  <2> QED BY <1>3, <2>2
<1>5. PICK x \in T : u = n - x
  OBVIOUS
<1>6. ASSUME NEW y \in T PROVE x >= y
  <2>1. n - y >= n - x
    BY <1>4, <1>5
  <2> QED BY <2>1
<1> QED BY <1>6 DEF Max

(* Of two numbers.                                                         *)
LEMMA GreaterOf ==
  ASSUME NEW m \in Nat, NEW n \in Nat
  PROVE  Max({m, n}) \in Nat
<1>1. PICK k \in Nat : k = m + n
  OBVIOUS
<1>2. PICK T \in SUBSET (0..k) : T = {m, n} /\ T # {}
  <2>1. m \in 0..k /\ n \in 0..k
    BY <1>1
  <2> QED BY <2>1, Zenon
<1>3. Max(T) \in T
  BY <1>2, Greatest
<1> QED BY <1>2, <1>3

(* The sections before one, of which the blocks are counted.               *)
LEMMA SectionsAre ==
  /\ Len(Workbook) \in Nat /\ Sections = 1..Len(Workbook)
  /\ \A k \in Sections : Workbook[k] \in SectionRecords
BY WorkbookAssumption DEF Sections

Before(k) == {j \in 1..(k-1) : j \in Sections /\ Executable(j)}

(* The number of the blocks before a section.                              *)
LEMMA CountBefore ==
  ASSUME NEW k \in Nat
  PROVE  /\ BlocksBefore(k) = Cardinality(Before(k))
         /\ IsFiniteSet(Before(k)) /\ BlocksBefore(k) \in Nat
<1>1. BlocksBefore(k) = Cardinality(Before(k))
  BY DEF BlocksBefore, Before
<1>2. IsFiniteSet(1..(k-1)) /\ Before(k) \subseteq 1..(k-1)
  BY FS_Interval DEF Before
<1>3. IsFiniteSet(Before(k))
  BY <1>2, FS_Subset
<1> QED BY <1>1, <1>3, FS_CardinalityType

(* A block is numbered, and what follows it has the next number.           *)
LEMMA CountNext ==
  ASSUME NEW k \in Nat \ {0}
  PROVE  BlocksBefore(k + 1) =
           BlocksBefore(k) + (IF k \in Sections /\ Executable(k) THEN 1 ELSE 0)
<1>1. k + 1 \in Nat /\ IsFiniteSet(Before(k)) /\ Cardinality(Before(k)) \in Nat
  BY CountBefore, FS_CardinalityType
<1>2. CASE k \in Sections /\ Executable(k)
  <2>1. Before(k + 1) = Before(k) \union {k} /\ k \notin Before(k)
    BY <1>2 DEF Before
  <2>2. Cardinality(Before(k) \union {k}) = Cardinality(Before(k)) + 1
    BY <1>1, <2>1, FS_AddElement
  <2> QED BY <1>1, <1>2, <2>1, <2>2, CountBefore
<1>3. CASE ~(k \in Sections /\ Executable(k))
  <2>1. Before(k + 1) = Before(k)
    BY <1>3 DEF Before
  <2> QED BY <1>1, <1>3, <2>1, CountBefore
<1> QED BY <1>2, <1>3

(* The number of the blocks before a section grows with it.                *)
LEMMA CountGrows ==
  ASSUME NEW k \in Nat, NEW l \in Nat, k <= l
  PROVE  BlocksBefore(k) <= BlocksBefore(l)
<1>1. Before(k) \subseteq Before(l)
  BY DEF Before
<1> QED BY <1>1, CountBefore, FS_Subset

(* Where a section is among the blocks.                                    *)
LEMMA Numbered ==
  /\ BlockCount \in Nat /\ BlocksBefore(1) = 0
  /\ \A k \in 1..(Len(Workbook) + 1) : BlocksBefore(k) \in 0..BlockCount
  /\ \A k \in Sections : Executable(k) =>
       /\ BlocksBefore(k) \in Blocks
       /\ BlocksBefore(k + 1) = BlocksBefore(k) + 1
       /\ \A w \in Waits : BlocksBefore(w) <= BlocksBefore(k) => w < k
  /\ \A k \in Sections : ~Executable(k) => BlocksBefore(k + 1) = BlocksBefore(k)
<1>0. Len(Workbook) + 1 \in Nat /\ Sections = 1..Len(Workbook)
  BY SectionsAre
<1>1. BlockCount \in Nat
  BY <1>0, CountBefore DEF BlockCount
<1>2. BlocksBefore(1) = 0
  <2>1. Before(1) = {}
    BY DEF Before
  <2> QED BY <2>1, CountBefore, FS_EmptySet
<1>3. ASSUME NEW k \in 1..(Len(Workbook) + 1) PROVE BlocksBefore(k) \in 0..BlockCount
  BY <1>0, <1>1, CountBefore, CountGrows DEF BlockCount
<1>4. ASSUME NEW k \in Sections, Executable(k)
      PROVE  /\ BlocksBefore(k) \in Blocks
             /\ BlocksBefore(k + 1) = BlocksBefore(k) + 1
             /\ \A w \in Waits : BlocksBefore(w) <= BlocksBefore(k) => w < k
  <2>1. BlocksBefore(k + 1) = BlocksBefore(k) + 1 /\ BlocksBefore(k) \in Nat
    <3>1. k \in Nat \ {0} /\ k \in Nat
      BY <1>0
    <3> QED BY <1>4, <3>1, CountNext, CountBefore
  <2>2. k + 1 \in 1..(Len(Workbook) + 1)
    BY <1>0
  <2>3. BlocksBefore(k + 1) \in 0..BlockCount
    BY <1>3, <2>2
  <2>4. ASSUME NEW w \in Waits, ~(w < k) PROVE ~(BlocksBefore(w) <= BlocksBefore(k))
    <3>1. w # k /\ w \in Nat /\ k \in Nat
      BY <1>0, <1>4 DEF Waits, Executable
    <3>2. k + 1 <= w
      BY <2>4, <3>1
    <3>3. BlocksBefore(k + 1) <= BlocksBefore(w) /\ BlocksBefore(w) \in Nat
      BY <3>1, <3>2, CountGrows, CountBefore
    <3> QED BY <2>1, <3>3
  <2> QED BY <1>1, <2>1, <2>3, <2>4 DEF Blocks
<1>5. ASSUME NEW k \in Sections, ~Executable(k) PROVE BlocksBefore(k + 1) = BlocksBefore(k)
  <2>1. k \in Nat \ {0} /\ BlocksBefore(k) \in Nat
    BY <1>0, CountBefore
  <2> QED BY <1>5, <2>1, CountNext
<1> QED BY <1>1, <1>2, <1>3, <1>4, <1>5

(* The frames of an include are closed at most as often as opened.         *)
LEMMA Nested ==
  ASSUME NEW k \in 1..(Len(Workbook) + 1)
  PROVE  Depth(k) \in Nat
<1> DEFINE E(kind) == {j \in 1..(k-1) : Workbook[j].kind = kind}
<1>1. ASSUME NEW kind PROVE Cardinality(E(kind)) \in Nat
  <2>1. k \in Nat
    BY SectionsAre
  <2>2. IsFiniteSet(1..(k-1)) /\ E(kind) \subseteq 1..(k-1)
    BY <2>1, FS_Interval
  <2> QED BY <2>2, FS_Subset, FS_CardinalityType
<1>2. Depth(k) = Cardinality(E("enter")) - Cardinality(E("exit")) /\ Depth(k) >= 0
  BY NestedAssumption DEF Depth
<1> HIDE DEF E
<1> QED BY <1>1, <1>2

-----------------------------------------------------------------------------
(* What is retained of the results: those below t, in their order.         *)
LEMMA RetainedAre ==
  ASSUME NEW A, A \subseteq Nat, NEW s \in Seq(A), NEW t \in Nat
  PROVE  /\ Retained(s, t) \in Seq(A)
         /\ \A k \in DOMAIN Retained(s, t) :
              Retained(s, t)[k] < t /\ \E i \in DOMAIN s : Retained(s, t)[k] = s[i]
         /\ Ascending(s) => Ascending(Retained(s, t))
<1> DEFINE K == {i \in DOMAIN s : s[i] < t}
           UpTo(i) == {j \in K : j <= i}
           n == Cardinality(K)
           rank == [i \in K |-> Cardinality(UpTo(i))]
           Nth(k) == CHOOSE i \in K : Cardinality(UpTo(i)) = k
           r == [k \in 1..n |-> s[Nth(k)]]
<1>1. Len(s) \in Nat /\ DOMAIN s = 1..Len(s) /\ K \subseteq 1..Len(s) /\ K \subseteq Nat
  OBVIOUS
<1>2. IsFiniteSet(K) /\ n \in Nat
  <2>1. IsFiniteSet(1..Len(s))
    BY <1>1, FS_Interval
  <2> QED BY <1>1, <2>1, FS_Subset, FS_CardinalityType
<1>3. r = Retained(s, t)
  BY DEF Retained
<1> HIDE DEF K, n
<1>4. ASSUME NEW i \in K
      PROVE  IsFiniteSet(UpTo(i)) /\ Cardinality(UpTo(i)) \in 1..n
  <2>1. UpTo(i) \subseteq K
    OBVIOUS
  <2>2. IsFiniteSet(UpTo(i)) /\ Cardinality(UpTo(i)) <= n /\ Cardinality(UpTo(i)) \in Nat
    BY <1>2, <2>1, FS_Subset, FS_CardinalityType DEF n
  <2>3. UpTo(i) # {}
    BY <1>1
  <2>4. Cardinality(UpTo(i)) # 0
    BY <2>2, <2>3, FS_EmptySet
  <2> QED BY <1>2, <2>2, <2>4
<1>5. ASSUME NEW i \in K, NEW j \in K, i < j
      PROVE  Cardinality(UpTo(i)) < Cardinality(UpTo(j))
  <2>0. i \in Nat /\ j \in Nat
    BY <1>1
  <2>1. UpTo(i) \subseteq UpTo(j) /\ UpTo(i) # UpTo(j)
    <3>1. j \in UpTo(j) /\ j \notin UpTo(i)
      BY <1>5, <2>0
    <3>2. \A x \in UpTo(i) : x \in UpTo(j)
      BY <1>1, <1>5, <2>0
    <3> QED BY <3>1, <3>2
  <2>2. IsFiniteSet(UpTo(j)) /\ IsFiniteSet(UpTo(i))
    BY <1>4
  <2> QED BY <2>1, <2>2, FS_Subset, FS_CardinalityType
<1>6. rank \in Injection(K, 1..n)
  <2>1. rank \in [K -> 1..n]
    BY <1>4
  <2>2. ASSUME NEW i \in K, NEW j \in K, rank[i] = rank[j] PROVE i = j
    <3>1. i \in Nat /\ j \in Nat /\ rank[i] \in Nat
      BY <1>1, <1>2, <2>1
    <3>2. rank[i] = Cardinality(UpTo(i)) /\ rank[j] = Cardinality(UpTo(j))
      OBVIOUS
    <3>3. ~(i < j) /\ ~(j < i)
      <4>1. /\ Cardinality(UpTo(i)) = Cardinality(UpTo(j))
            /\ Cardinality(UpTo(i)) \in Nat /\ Cardinality(UpTo(j)) \in Nat
        <5> HIDE DEF UpTo, rank
        <5> QED BY <2>2, <3>1, <3>2
      <4>2. /\ i < j => Cardinality(UpTo(i)) < Cardinality(UpTo(j))
            /\ j < i => Cardinality(UpTo(j)) < Cardinality(UpTo(i))
        <5> HIDE DEF UpTo, rank
        <5> QED BY <1>5
      <4> HIDE DEF UpTo, rank
      <4> QED BY <4>1, <4>2
    <3> QED BY <3>1, <3>3
  <2> HIDE DEF rank
  <2> QED BY <2>1, <2>2 DEF Injection, IsInjective
<1>7. \A k \in 1..n : \E i \in K : rank[i] = k
  <2>1. IsFiniteSet(1..n) /\ Cardinality(1..n) = Cardinality(K)
    <3>1. IsFiniteSet(1..n) /\ Cardinality(1..n) = (IF 1 > n THEN 0 ELSE n - 1 + 1)
      BY <1>2, FS_Interval
    <3> QED BY <1>2, <3>1 DEF n
  <2>2. rank \in Surjection(K, 1..n)
    <3> HIDE DEF rank
    <3> QED BY <1>2, <1>6, <2>1, FS_Injection
  <2> HIDE DEF rank
  <2> QED BY <2>2 DEF Surjection
<1>8. ASSUME NEW k \in 1..n
      PROVE  Nth(k) \in K /\ Cardinality(UpTo(Nth(k))) = k
  <2>1. \E i \in K : Cardinality(UpTo(i)) = k
    BY <1>7
  <2> HIDE DEF UpTo
  <2> QED BY <2>1
<1> HIDE DEF UpTo, Nth
<1>9. r \in Seq(A) /\ DOMAIN r = 1..n
  <2>1. ASSUME NEW k \in 1..n PROVE s[Nth(k)] \in A
    <3>1. Nth(k) \in 1..Len(s)
      BY <1>1, <1>8
    <3> QED BY <3>1
  <2>2. r \in [1..n -> A]
    BY <2>1
  <2> QED BY <1>2, <2>2
<1>10. ASSUME NEW k \in 1..n PROVE r[k] = s[Nth(k)] /\ s[Nth(k)] < t /\ Nth(k) \in DOMAIN s
  BY <1>8 DEF K
<1>11. ASSUME Ascending(s), NEW k \in 1..n, NEW l \in 1..n, k < l PROVE r[k] < r[l]
  <2>1. Nth(k) \in K /\ Nth(l) \in K /\ Nth(k) \in Nat /\ Nth(l) \in Nat
    BY <1>1, <1>8
  <2>2. Nth(k) # Nth(l) /\ ~(Nth(l) < Nth(k))
    <3>1. Cardinality(UpTo(Nth(k))) = k /\ Cardinality(UpTo(Nth(l))) = l /\ k \in Nat /\ l \in Nat
      BY <1>2, <1>8
    <3> QED BY <1>5, <1>11, <2>1, <3>1
  <2>3. Nth(k) < Nth(l)
    BY <2>1, <2>2
  <2> QED BY <1>10, <1>11, <2>3 DEF Ascending
<1> HIDE DEF r
<1>12. Ascending(s) => Ascending(r)
  BY <1>9, <1>11 DEF Ascending
<1> QED BY <1>3, <1>9, <1>10, <1>12

-----------------------------------------------------------------------------
(* The updates of a checkpoint.                                            *)

(* A session's own: its result, ...                                        *)
LEMMA Results ==
  ASSUME NEW d \in Checkpoints, NEW b \in Blocks, NEW n \in Nat
  PROVE  LET e == WithSeq(AddResult(d, b), n)
         IN  /\ e \in Checkpoints
             /\ e.results = Append(d.results, b) /\ e.next = b + 1
             /\ e.waits = d.waits /\ e.skipped = d.skipped /\ e.status = d.status
<1>1. b + 1 \in 0..BlockCount /\ Append(d.results, b) \in Seq(Blocks)
  BY Numbered DEF Blocks, Checkpoints
<1>2. PICK k \in 0..BlockCount, r \in Seq(Blocks) : k = b + 1 /\ r = Append(d.results, b)
  BY <1>1
<1> DEFINE a == [d EXCEPT !.results = r, !.next = k]
<1>3. /\ a \in Checkpoints
      /\ a.results = r /\ a.next = k
      /\ a.waits = d.waits /\ a.skipped = d.skipped /\ a.status = d.status
  BY DEF Checkpoints
<1>4. AddResult(d, b) = a
  BY <1>2 DEF AddResult
<1> HIDE DEF a
<1>5. LET e == [a EXCEPT !.seq = n]
      IN  /\ e \in Checkpoints
          /\ e.results = a.results /\ e.next = a.next
          /\ e.waits = a.waits /\ e.skipped = a.skipped /\ e.status = a.status
  BY <1>3 DEF Checkpoints
<1> QED BY <1>2, <1>3, <1>4, <1>5 DEF WithSeq

(* ... a skip, which puts the cursor past every recorded one, ...          *)
LEMMA Skips ==
  ASSUME NEW d \in Checkpoints, NEW b \in Blocks
  PROVE  LET e == AddSkip(d, b)
         IN  /\ e \in Checkpoints
             /\ e.results = d.results /\ e.skipped = d.skipped \union {b}
             /\ e.waits = d.waits /\ e.status = d.status
             /\ e.next >= d.next /\ e.next >= b + 1
             /\ \/ e.next = d.next
                \/ \E s \in d.skipped \union {b} : e.next = s + 1
<1>0. BlockCount \in Nat /\ d.next \in 0..BlockCount /\ d.skipped \subseteq Blocks
  BY Numbered DEF Checkpoints
<1>1. PICK u \in SUBSET Blocks : u = d.skipped \union {b}
  BY <1>0
<1>2. PICK T \in SUBSET (0..BlockCount) : T = {d.next} \union {s + 1 : s \in u}
  <2>1. ASSUME NEW s \in u PROVE s + 1 \in 0..BlockCount
    BY <1>0 DEF Blocks
  <2> QED BY <1>0, <2>1
<1>3. T # {} /\ d.next \in T /\ b + 1 \in T
  BY <1>1, <1>2
<1>4. Max(T) \in T /\ \A y \in T : Max(T) >= y
  BY <1>0, <1>3, Greatest
<1>5. PICK k \in 0..BlockCount : k = Max(T)
  BY <1>4
<1>6. AddSkip(d, b) = [d EXCEPT !.skipped = u, !.next = k]
  BY <1>1, <1>2, <1>5 DEF AddSkip
<1>7. LET e == [d EXCEPT !.skipped = u, !.next = k]
      IN  /\ e \in Checkpoints
          /\ e.results = d.results /\ e.skipped = u
          /\ e.waits = d.waits /\ e.status = d.status /\ e.next = k
  BY DEF Checkpoints
<1>8. k >= d.next /\ k >= b + 1 /\ (k = d.next \/ \E s \in u : k = s + 1)
  BY <1>2, <1>3, <1>4, <1>5
<1> QED BY <1>1, <1>6, <1>7, <1>8

(* ... a pause and a failure, ...                                          *)
LEMMA Pauses ==
  ASSUME NEW d \in Checkpoints, NEW b \in 0..BlockCount, NEW n \in Nat
  PROVE  LET e == WithSeq(MarkPaused([d EXCEPT !.next = b]), n)
         IN  /\ e \in Checkpoints /\ e.next = b /\ e.status = "paused"
             /\ e.results = d.results /\ e.waits = d.waits /\ e.skipped = d.skipped
<1> DEFINE a == [d EXCEPT !.next = b]
<1>1. /\ a \in Checkpoints
      /\ a.next = b /\ a.results = d.results /\ a.waits = d.waits /\ a.skipped = d.skipped
  BY DEF Checkpoints
<1> HIDE DEF a
<1> DEFINE m == MarkPaused(a)
<1>2. /\ m \in Checkpoints /\ m.status = "paused"
      /\ m.next = a.next /\ m.results = a.results /\ m.waits = a.waits
      /\ m.skipped = a.skipped
  BY <1>1 DEF Checkpoints, MarkPaused, Status
<1> HIDE DEF m
<1>3. LET e == [m EXCEPT !.seq = n]
      IN  /\ e \in Checkpoints
          /\ e.results = m.results /\ e.next = m.next
          /\ e.waits = m.waits /\ e.skipped = m.skipped /\ e.status = m.status
  BY <1>2 DEF Checkpoints
<1> QED BY <1>1, <1>2, <1>3 DEF WithSeq, m, a

(* A block failed.                                                         *)
LEMMA Fails ==
  ASSUME NEW d \in Checkpoints, NEW n \in Nat
  PROVE  LET e == WithSeq(MarkFailed(d), n)
         IN  /\ e \in Checkpoints /\ e.next = d.next /\ e.status = "failed"
             /\ e.results = d.results /\ e.waits = d.waits /\ e.skipped = d.skipped
<1> DEFINE m == MarkFailed(d)
<1>1. /\ m \in Checkpoints /\ m.status = "failed"
      /\ m.next = d.next /\ m.results = d.results /\ m.waits = d.waits
      /\ m.skipped = d.skipped
  BY DEF Checkpoints, MarkFailed, Status
<1> HIDE DEF m
<1>2. LET e == [m EXCEPT !.seq = n]
      IN  /\ e \in Checkpoints
          /\ e.results = m.results /\ e.next = m.next
          /\ e.waits = m.waits /\ e.skipped = m.skipped /\ e.status = m.status
  BY <1>1 DEF Checkpoints
<1> QED BY <1>1, <1>2 DEF WithSeq, m

(* ... its end, and a resume.                                              *)
LEMMA Marks ==
  ASSUME NEW d \in Checkpoints, NEW e \in {MarkComplete(d), MarkInProgress(d)}
  PROVE  /\ e \in Checkpoints /\ e.next = d.next
         /\ e.results = d.results /\ e.waits = d.waits /\ e.skipped = d.skipped
         /\ e.status \in {"complete", "in_progress"}
         /\ e = MarkInProgress(d) => e.status = "in_progress"
<1>1. LET f == MarkComplete(d)
      IN  /\ f \in Checkpoints /\ f.next = d.next
          /\ f.results = d.results /\ f.waits = d.waits /\ f.skipped = d.skipped
          /\ f.status = "complete"
  BY DEF Checkpoints, MarkComplete, Status
<1>2. LET f == MarkInProgress(d)
      IN  /\ f \in Checkpoints /\ f.next = d.next
          /\ f.results = d.results /\ f.waits = d.waits /\ f.skipped = d.skipped
          /\ f.status = "in_progress"
  BY DEF Checkpoints, MarkInProgress, Status
<1> QED BY <1>1, <1>2

-----------------------------------------------------------------------------
(* What the updates keep.                                                  *)

(* The fields that Sound looks at.                                         *)
Alike(d, e) ==
  e.results = d.results /\ e.skipped = d.skipped /\ e.waits = d.waits

(* The results are blocks, and the cursor is at most behind the last one.  *)
LEMMA RecordedAre ==
  ASSUME NEW d \in Checkpoints
  PROVE  /\ Recorded(d) \subseteq Blocks /\ d.skipped \subseteq Blocks
         /\ d.next \in 0..BlockCount /\ d.next \in Nat /\ d.waits \subseteq Waits
         /\ Len(d.results) \in Nat /\ DOMAIN d.results = 1..Len(d.results)
         /\ \A i \in DOMAIN d.results : d.results[i] \in Recorded(d)
         /\ Blocks \subseteq Nat
<1>1. d.results \in Seq(Blocks) /\ d.next \in 0..BlockCount
  BY DEF Checkpoints
<1> QED BY <1>1, Numbered DEF Recorded, Range, Blocks, Checkpoints

(* A cursor that is put on a block behind which all results are.           *)
LEMMA SoundAt ==
  ASSUME NEW d \in Checkpoints, NEW e \in Checkpoints, NEW j \in BOOLEAN, Sound(d, j),
         Alike(d, e), \A b \in Recorded(d) : b < e.next, ~j => e.next = d.next
  PROVE  Sound(e, j)
<1>1. Recorded(e) = Recorded(d)
  BY DEF Alike, Recorded
<1> QED BY <1>1 DEF Alike, Sound, BehindWaits, Whole

(* A result is recorded.                                                   *)
LEMMA SoundResult ==
  ASSUME NEW d \in Checkpoints, NEW e \in Checkpoints, NEW j \in BOOLEAN, Sound(d, j),
         NEW b \in Blocks, e.results = Append(d.results, b), e.next = b + 1,
         e.waits = d.waits, e.skipped = d.skipped,
         \A r \in Recorded(d) : r < b, BehindWaits(d, b), ~j => d.next = b
  PROVE  Sound(e, j)
<1> DEFINE n == Len(d.results)
<1>0. /\ n \in Nat /\ DOMAIN d.results = 1..n /\ b \in Nat
      /\ \A i \in 1..n : d.results[i] \in Recorded(d)
      /\ Recorded(d) \subseteq Nat /\ d.skipped \subseteq Nat /\ d.next \in Nat
  BY RecordedAre
<1>1. /\ DOMAIN e.results = 1..(n + 1)
      /\ \A i \in 1..n : e.results[i] = d.results[i]
      /\ e.results[n + 1] = b
  <2>1. d.results \in Seq(Blocks)
    BY DEF Checkpoints
  <2> QED BY <2>1
<1> HIDE DEF n
<1>2. Recorded(e) = Recorded(d) \union {b}
  <2>1. Recorded(d) = {d.results[i] : i \in 1..n} /\ Recorded(e) = {e.results[i] : i \in 1..(n + 1)}
    BY <1>0, <1>1 DEF Recorded, Range
  <2>2. 1..(n + 1) = 1..n \union {n + 1}
    BY <1>0
  <2> QED BY <1>1, <2>1, <2>2
<1>3. Ascending(e.results)
  <2>1. SUFFICES ASSUME NEW i \in 1..(n + 1), NEW k \in 1..(n + 1), i < k
                 PROVE  e.results[i] < e.results[k]
    BY <1>1 DEF Ascending
  <2>2. CASE k = n + 1
    <3>1. i \in 1..n
      BY <1>0, <2>1, <2>2
    <3> QED BY <1>0, <1>1, <2>2, <3>1
  <2>3. CASE k # n + 1
    <3>1. i \in 1..n /\ k \in 1..n
      BY <1>0, <2>1, <2>3
    <3> QED BY <1>0, <1>1, <2>1, <3>1 DEF Sound, Ascending
  <2> QED BY <2>2, <2>3
<1>4. \A r \in Recorded(e) : r < e.next
  BY <1>0, <1>2
<1>5. \A r \in Recorded(e) \union e.skipped : BehindWaits(e, r)
  BY <1>2 DEF Sound, BehindWaits
<1>6. ~j => Whole(e)
  <2>1. ASSUME ~j PROVE Whole(e)
    <3>1. Whole(d) /\ d.next = b /\ e.next = b + 1
      BY <2>1 DEF Sound
    <3>2. 0..b = 0..(b - 1) \union {b} /\ b \notin 0..(b - 1) /\ b + 1 - 1 = b
      BY <1>0
    <3>3. Recorded(d) \union d.skipped = 0..(b - 1) /\ Recorded(d) \intersect d.skipped = {}
      BY <3>1 DEF Whole
    <3>4. e.next - 1 = b
      BY <3>1, <1>0
    <3> QED BY <1>2, <3>2, <3>3, <3>4 DEF Whole
  <2> QED BY <2>1
<1> QED BY <1>3, <1>4, <1>5, <1>6 DEF Sound

(* A skip is recorded.                                                     *)
LEMMA SoundSkip ==
  ASSUME NEW d \in Checkpoints, NEW e \in Checkpoints, NEW j \in BOOLEAN, Sound(d, j),
         NEW b \in Blocks, e.results = d.results, e.waits = d.waits,
         e.skipped = d.skipped \union {b}, e.next >= d.next, e.next >= b + 1,
         e.next = d.next \/ \E s \in d.skipped \union {b} : e.next = s + 1,
         BehindWaits(d, b), ~j => d.next = b
  PROVE  Sound(e, j) /\ (~j => e.next = b + 1)
<1>0. /\ Recorded(e) = Recorded(d) /\ b \in Nat
      /\ Recorded(d) \subseteq Nat /\ d.skipped \subseteq Nat /\ d.next \in Nat /\ e.next \in Nat
  BY RecordedAre DEF Recorded
<1>1. Ascending(e.results) /\ \A r \in Recorded(e) : r < e.next
  BY <1>0 DEF Sound
<1>2. \A r \in Recorded(e) \union e.skipped : BehindWaits(e, r)
  BY <1>0 DEF Sound, BehindWaits
<1>3. ASSUME ~j PROVE Whole(e) /\ e.next = b + 1
  <2>1. /\ d.next = b /\ Recorded(d) \union d.skipped = 0..(b - 1)
        /\ Recorded(d) \intersect d.skipped = {}
    BY <1>3 DEF Sound, Whole
  <2>2. \A s \in d.skipped : s < b
    BY <1>0, <2>1
  <2>3. e.next = b + 1
    BY <1>0, <2>1, <2>2
  <2>4. 0..b = 0..(b - 1) \union {b} /\ b \notin 0..(b - 1) /\ e.next - 1 = b
    BY <1>0, <2>3
  <2> QED BY <1>0, <2>1, <2>3, <2>4 DEF Whole
<1> QED BY <1>1, <1>2, <1>3 DEF Sound

-----------------------------------------------------------------------------
(* Steps.                                                                  *)

Rest == TypeOK /\ Position /\ Ahead /\ OnFile

(* The variables that only have a type to keep.                            *)
Small ==
  /\ desc \in Sections \union {Absent} /\ restore \in BOOLEAN
  /\ outcome \in {"none", "ok", "failed", "asked"} /\ chain \in BOOLEAN
  /\ seq \in Nat /\ high \in Nat /\ reused \in BOOLEAN /\ sessions \in Nat

(* What a session has been given, and what the files say of it, stays.     *)
Same == UNCHANGED <<replay, over, restart, bail, failedAt, jumped>>

(* A callback is numbered.                                                 *)
LEMMA Sent ==
  ASSUME TypeOK, NEW n \in Nat, Send(n)
  PROVE  seq' \in Nat /\ high' \in Nat /\ reused' \in BOOLEAN
<1>1. seq \in Nat /\ high \in Nat /\ seq + n \in Nat
  BY DEF TypeOK
<1>2. seq' \in Nat /\ high' \in Nat
  BY <1>1, GreaterOf DEF Send
<1>3. reused' \in BOOLEAN
  BY DEF Send
<1> QED BY <1>2, <1>3

(* No callback is numbered.                                                *)
LEMMA NothingSent ==
  ASSUME TypeOK, SendNothing
  PROVE  seq' \in Nat /\ high' \in Nat /\ reused' \in BOOLEAN
BY DEF TypeOK, SendNothing, sending

(* How many callbacks a step sends.                                        *)
LEMMA Counts ==
  ASSUME TypeOK
  PROVE  Reopened \in Nat /\ Announced \in Nat /\ Depth(sec) \in Nat
<1>1. Depth(sec) \in Nat
  BY Nested DEF TypeOK
<1> QED BY <1>1 DEF Reopened, Announced

(* The first state.                                                        *)
LEMMA InitRest == Init => Rest
<1> SUFFICES ASSUME Init PROVE Rest
  OBVIOUS
<1>1. TypeOK
  <2>1. /\ 1 \in 1..(Len(Workbook) + 1) /\ 0 \in 0..BlockCount /\ "idle" \in Phases
        /\ {} \subseteq Blocks
    BY Numbered, SectionsAre DEF Phases
  <2> QED BY <2>1 DEF Init, TypeOK
<1>2. Position /\ Ahead /\ OnFile
  BY DEF Init, Position, Ahead, OnFile, Walking, Executing
<1> QED BY <1>1, <1>2 DEF Rest

(* A session that begins to walk, at the first section.                    *)
LEMMA EnterRest ==
  ASSUME CInv, NEW b \in BOOLEAN, NEW o \in SUBSET Blocks, NEW r \in BOOLEAN,
         Enter(b, o, r), UNCHANGED files, sessions' \in Nat, ~jumped => o = {}
  PROVE  Rest'
<1> DEFINE d == IF Resumable THEN MarkInProgress(ckpt) ELSE New
<1>0. TypeOK /\ OnFile
  BY DEF CInv
<1>1. d \in Checkpoints /\ d.status = "in_progress" /\ Sound(d, jumped)
  <2>1. CASE Resumable
    <3>1. ckpt \in Checkpoints /\ Sound(ckpt, jumped) /\ jumped \in BOOLEAN
      BY <1>0, <2>1 DEF TypeOK, OnFile, Resumable
    <3> DEFINE e == MarkInProgress(ckpt)
    <3>2. e \in Checkpoints /\ e.status = "in_progress" /\ Alike(ckpt, e) /\ e.next = ckpt.next
      BY <3>1, Marks DEF Alike
    <3> HIDE DEF e
    <3>3. Sound(e, jumped)
      BY <3>1, <3>2, SoundAt DEF Sound
    <3> QED BY <2>1, <3>2, <3>3 DEF e
  <2>2. CASE ~Resumable
    <3>1. /\ New \in Checkpoints /\ New.status = "in_progress" /\ New.results = << >>
          /\ New.skipped = {} /\ New.next = 0
      BY Numbered DEF New, Checkpoints, Status
    <3>2. Recorded(New) = {} /\ 0..(0 - 1) = {}
      BY <3>1 DEF Recorded, Range
    <3>3. Sound(New, jumped)
      BY <3>1, <3>2 DEF Sound, Ascending, Whole
    <3> QED BY <2>2, <3>1, <3>3
  <2> QED BY <2>1, <2>2
<1>2. /\ phase' = "loop" /\ c' = d /\ sec' = 1 /\ blk' = 0 /\ replay' = d.next
      /\ over' = o /\ restart' = r /\ bail' = b /\ outcome' = "none" /\ seq' = d.seq
      /\ chain' \in BOOLEAN /\ restore' \in BOOLEAN /\ desc' = desc /\ ckpt' = ckpt
      /\ jumped' = jumped
      /\ \/ UNCHANGED <<high, reused, failedAt>>
         \/ ~Resumable /\ high' = 0 /\ reused' = FALSE /\ failedAt' = 0
  BY DEF Enter, files, ghosts
<1> HIDE DEF d
<1>3. d.seq \in Nat /\ d.next \in 0..BlockCount /\ BlockCount \in Nat
  BY <1>1, Numbered DEF Checkpoints
<1>4. TypeOK'
  <2>1. sec' \in 1..(Len(Workbook) + 1) /\ blk' \in 0..BlockCount
    BY <1>2, <1>3, SectionsAre
  <2>2. high' \in Nat /\ reused' \in BOOLEAN /\ failedAt' \in 0..BlockCount
    <3>1. 0 \in 0..BlockCount
      BY <1>3
    <3>2. CASE UNCHANGED <<high, reused, failedAt>>
      BY <1>0, <3>2 DEF TypeOK
    <3>3. CASE high' = 0 /\ reused' = FALSE /\ failedAt' = 0
      BY <3>1, <3>3
    <3> QED BY <1>2, <3>2, <3>3
  <2>3. phase' \in Phases
    BY <1>2 DEF Phases, Walking
  <2> QED BY <1>0, <1>1, <1>2, <1>3, <2>1, <2>2, <2>3 DEF TypeOK
<1>5. Position'
  BY <1>1, <1>2, Numbered DEF Position, Executing
<1>6. Ahead'
  <2>1. \A x \in Recorded(d) : x < d.next
    BY <1>1 DEF Sound
  <2>2. Behind' = 0
    BY <1>2 DEF Behind
  <2> QED BY <1>1, <1>2, <1>3, <2>1, <2>2 DEF Ahead
<1>7. OnFile'
  BY <1>0, <1>2 DEF OnFile, Resumable
<1> QED BY <1>4, <1>5, <1>6, <1>7 DEF Rest

(* A resume saves the checkpoint and hands the session over.               *)
LEMMA ResumedRest ==
  ASSUME CInv, NEW e \in Checkpoints, Sound(e, jumped'), e.status = "in_progress",
         ckpt' = e, phase' \in {"consuming", "resumed"},
         over' \subseteq Blocks, ~jumped' => over' = {}, restart' \in BOOLEAN, bail' \in BOOLEAN,
         jumped' \in BOOLEAN, sessions' \in Nat,
         UNCHANGED <<desc, c, cursor, replay, restore, outcome, chain, sending, failedAt>>
  PROVE  Rest'
<1>1. TypeOK'
  <2>1. phase' \in Phases
    BY DEF Phases
  <2> QED BY <2>1 DEF CInv, TypeOK, cursor, sending
<1>2. Position' /\ Ahead'
  BY DEF Position, Ahead, Walking, Executing
<1>3. OnFile'
  BY DEF OnFile
<1> QED BY <1>1, <1>2, <1>3 DEF Rest

(* The commands, an operator's jumps with them.                            *)
LEMMA CommandRest ==
  ASSUME CInv, Command
  PROVE  Rest'
<1>0. TypeOK /\ OnFile /\ (~jumped => over = {})
  BY DEF CInv, Position
<1>1. PICK b \in BOOLEAN :
        \/ Run(b) \/ ResumeWait(b) \/ ResumePlain(b)
        \/ \E t \in Blocks : ResumeAt(b, t)
  BY DEF Command
<1>2. sessions' \in Nat
  <2>1. Issue
    BY <1>1 DEF Run, ResumeWait, ResumePlain, ResumeAt
  <2>2. sessions \in Nat
    BY <1>0 DEF TypeOK
  <2> QED BY <2>1, <2>2 DEF Issue
<1>3. CASE Run(b)
  BY <1>2, <1>3, EnterRest DEF Run
<1>4. ASSUME Resumable
      PROVE  ckpt \in Checkpoints /\ Sound(ckpt, jumped) /\ jumped \in BOOLEAN
  BY <1>0, <1>4 DEF TypeOK, OnFile, Resumable
<1>5. CASE ResumeWait(b)
  <2>1. ckpt \in Checkpoints /\ Sound(ckpt, jumped) /\ jumped \in BOOLEAN
    BY <1>4, <1>5 DEF ResumeWait
  <2> DEFINE w == CompleteWait(ckpt, desc)
             e == MarkInProgress(w)
  <2>2. /\ w \in Checkpoints /\ w.results = ckpt.results /\ w.skipped = ckpt.skipped
        /\ w.waits = ckpt.waits \union {desc} /\ w.next = ckpt.next
    <3>1. desc \in Waits
      BY <1>0, <1>5 DEF ResumeWait, TypeOK, Waits
    <3>2. PICK u \in SUBSET Waits : u = ckpt.waits \union {desc}
      BY <2>1, <3>1 DEF Checkpoints
    <3>3. w = [ckpt EXCEPT !.waits = u]
      BY <3>2 DEF CompleteWait
    <3> HIDE DEF w
    <3> QED BY <2>1, <3>2, <3>3 DEF Checkpoints
  <2> HIDE DEF w
  <2>3. /\ e \in Checkpoints /\ Alike(w, e) /\ e.next = w.next /\ e.status = "in_progress"
    BY <2>2, Marks DEF Alike
  <2>4. ckpt' = e
    BY <1>5 DEF ResumeWait, w
  <2> HIDE DEF e
  <2>5. Sound(e, jumped)
    <3>1. Recorded(e) = Recorded(ckpt)
      BY <2>2, <2>3 DEF Recorded, Alike
    <3> QED BY <2>1, <2>2, <2>3, <3>1 DEF Sound, Alike, BehindWaits, Whole
  <2>6. /\ phase' = "consuming" /\ bail' \in BOOLEAN /\ jumped' = jumped
        /\ over' = over /\ restart' = restart
        /\ UNCHANGED <<desc, c, cursor, replay, restore, outcome, chain, sending, failedAt>>
    BY <1>5 DEF ResumeWait, ghosts
  <2>7. over' \subseteq Blocks /\ (~jumped' => over' = {}) /\ restart' \in BOOLEAN
        /\ jumped' \in BOOLEAN
    BY <1>0, <2>6 DEF TypeOK
  <2>8. Sound(e, jumped')
    BY <2>5, <2>6
  <2> QED BY <1>2, <2>3, <2>4, <2>6, <2>7, <2>8, ResumedRest
<1>6. CASE ResumePlain(b)
  <2>1. ckpt \in Checkpoints /\ Sound(ckpt, jumped) /\ jumped \in BOOLEAN
    BY <1>4, <1>6 DEF ResumePlain
  <2> DEFINE e == MarkInProgress(ckpt)
  <2>3. /\ e \in Checkpoints /\ Alike(ckpt, e) /\ e.next = ckpt.next /\ e.status = "in_progress"
    BY <2>1, Marks DEF Alike
  <2>4. ckpt' = e
    BY <1>6 DEF ResumePlain
  <2> HIDE DEF e
  <2>5. Sound(e, jumped)
    BY <2>1, <2>3, SoundAt DEF Sound
  <2>6. /\ phase' = "resumed" /\ bail' \in BOOLEAN /\ jumped' = jumped
        /\ over' = over /\ restart' = restart
        /\ UNCHANGED <<desc, c, cursor, replay, restore, outcome, chain, sending, failedAt>>
    BY <1>6 DEF ResumePlain, ghosts
  <2>7. over' \subseteq Blocks /\ (~jumped' => over' = {}) /\ restart' \in BOOLEAN
        /\ jumped' \in BOOLEAN
    BY <1>0, <2>6 DEF TypeOK
  <2>8. Sound(e, jumped')
    BY <2>5, <2>6
  <2> QED BY <1>2, <2>3, <2>4, <2>6, <2>7, <2>8, ResumedRest
<1>7. CASE \E t \in Blocks : ResumeAt(b, t)
  <2>0. PICK t \in Blocks : ResumeAt(b, t)
    BY <1>7
  <2>1. ckpt \in Checkpoints /\ Sound(ckpt, jumped) /\ jumped \in BOOLEAN
    BY <1>4, <2>0 DEF ResumeAt
  <2> DEFINE m == MarkInProgress(ckpt)
             v == [m EXCEPT !.next = t]
             u == [v EXCEPT !.results = Retained(@, t)]
  <2>2. /\ m \in Checkpoints /\ Alike(ckpt, m) /\ m.next = ckpt.next /\ m.status = "in_progress"
    BY <2>1, Marks DEF Alike
  <2>3. t \in Nat /\ t \in 0..BlockCount /\ ckpt.next \in Nat /\ BlockCount \in Nat
    BY <2>1, RecordedAre, Numbered DEF Blocks
  <2> HIDE DEF m
  <2>4. v \in Checkpoints /\ Alike(ckpt, v) /\ v.next = t /\ v.status = "in_progress"
    BY <2>2, <2>3 DEF Checkpoints, Alike
  <2> HIDE DEF v
  <2>5. PICK q \in Seq(Blocks) :
          /\ q = Retained(v.results, t)
          /\ \A k \in DOMAIN q : q[k] < t /\ \E i \in DOMAIN v.results : q[k] = v.results[i]
          /\ Ascending(v.results) => Ascending(q)
    <3>1. v.results \in Seq(Blocks) /\ Blocks \subseteq Nat
      BY <2>4, RecordedAre DEF Checkpoints
    <3> QED BY <2>3, <3>1, RetainedAre
  <2>6. /\ u \in Checkpoints /\ u.results = q /\ u.skipped = v.skipped /\ u.waits = v.waits
        /\ u.next = t /\ u.status = "in_progress"
    <3>1. u = [v EXCEPT !.results = q]
      BY <2>5
    <3> HIDE DEF u
    <3> QED BY <2>4, <3>1 DEF Checkpoints
  <2> HIDE DEF u
  <2>7. Sound(u, TRUE)
    <3>1. Ascending(v.results)
      BY <2>1, <2>4 DEF Sound, Alike
    <3>2. Recorded(u) \subseteq Recorded(ckpt) /\ \A x \in Recorded(u) : x < t
      BY <2>4, <2>5, <2>6 DEF Recorded, Range, Alike
    <3> QED BY <2>1, <2>4, <2>5, <2>6, <3>1, <3>2 DEF Sound, BehindWaits, Alike
  <2>8. ckpt.next < t => Sound(v, TRUE)
    <3>1. ASSUME ckpt.next < t PROVE Sound(v, TRUE)
      <4>1. Recorded(v) = Recorded(ckpt) /\ Recorded(ckpt) \subseteq Nat
        BY <2>1, <2>4, RecordedAre DEF Recorded, Alike
      <4>2. \A x \in Recorded(v) : x < t
        BY <2>1, <2>3, <3>1, <4>1 DEF Sound
      <4> QED BY <2>1, <2>4, <4>1, <4>2 DEF Sound, BehindWaits, Alike
    <3> QED BY <3>1
  <2>9. /\ jumped' = TRUE /\ restart' = TRUE /\ phase' = "resumed" /\ bail' = b
        /\ UNCHANGED <<desc, c, cursor, replay, restore, outcome, chain, sending, failedAt>>
        /\ over' = (IF t <= ckpt.next THEN {} ELSE ckpt.next..(t - 1))
        /\ ckpt' = (IF t <= ckpt.next THEN u ELSE v)
    BY <2>0 DEF ResumeAt, m, v, u
  <2>10. over' \subseteq Blocks
    BY <2>3, <2>9 DEF Blocks
  <2>11. CASE t <= ckpt.next
    BY <1>2, <2>6, <2>7, <2>9, <2>10, <2>11, ResumedRest
  <2>12. CASE ~(t <= ckpt.next)
    <3>1. Sound(v, TRUE)
      <4>1. ckpt.next < t
        BY <2>3, <2>12
      <4> QED BY <2>8, <4>1
    <3> QED BY <1>2, <2>4, <2>9, <2>10, <2>12, <3>1, ResumedRest
  <2> QED BY <2>11, <2>12
<1> QED BY <1>1, <1>3, <1>5, <1>6, <1>7

(* ... then its descriptor is consumed, and the run begins.                *)
LEMMA ResumeRest ==
  ASSUME CInv, ResumeConsume \/ ResumeRun
  PROVE  Rest'
<1>0. TypeOK /\ Position /\ OnFile
  BY DEF CInv
<1>1. CASE ResumeConsume
  <2>1. TypeOK'
    BY <1>0, <1>1 DEF ResumeConsume, TypeOK, Phases, cursor, given, sending, ghosts
  <2>2. Position' /\ Ahead' /\ OnFile'
    BY <1>0, <1>1 DEF ResumeConsume, Position, Ahead, OnFile, Walking, Executing, given, ghosts
  <2> QED BY <2>1, <2>2 DEF Rest
<1>2. CASE ResumeRun
  <2>1. /\ bail \in BOOLEAN /\ over \in SUBSET Blocks /\ restart \in BOOLEAN
        /\ sessions' \in Nat /\ (~jumped => over = {})
    BY <1>0, <1>2 DEF TypeOK, Position, ResumeRun
  <2> QED BY <1>2, <2>1, EnterRest DEF ResumeRun
<1> QED BY <1>1, <1>2

(* The walk goes on to the next section.                                   *)
LEMMA WalksOn ==
  ASSUME CInv, phase \in Walking, sec \in Sections, Same, Small',
         NEW d \in Checkpoints, c' = d, ckpt' \in {ckpt, c, d}, Sound(d, jumped),
         d.status = "in_progress",
         sec' = sec + 1, phase' = "loop", blk' = BlocksBefore(sec + 1),
         \A b \in Recorded(d) : b < replay \/ b < blk',
         d.next >= replay, d.next >= blk', ~jumped => d.next = replay \/ d.next = blk'
  PROVE  Rest'
<1>0. /\ TypeOK /\ Position /\ OnFile /\ c \in Checkpoints /\ Sound(c, jumped)
      /\ c.status = "in_progress"
  BY DEF CInv, Position, Ahead
<1>1. TypeOK'
  <2>1. sec' \in 1..(Len(Workbook) + 1)
    BY SectionsAre
  <2>2. blk' \in 0..BlockCount /\ phase' \in Phases
    BY <2>1, Numbered DEF Phases, Walking
  <2>3. ckpt' \in Checkpoints \union {Absent}
    BY <1>0 DEF TypeOK
  <2> QED BY <1>0, <2>1, <2>2, <2>3 DEF TypeOK, Same, Small
<1>2. Position'
  BY <1>0 DEF Position, Executing, Same
<1>3. Ahead'
  <2>1. Behind' = blk'
    BY DEF Behind
  <2> QED BY <2>1 DEF Ahead, Same
<1>4. OnFile'
  BY <1>0 DEF OnFile, Same
<1> QED BY <1>1, <1>2, <1>3, <1>4 DEF Rest

(* What is known of a session at the top of the loop.                      *)
LEMMA AtTop ==
  ASSUME CInv, phase = "loop"
  PROVE  /\ TypeOK /\ c \in Checkpoints /\ blk = BlocksBefore(sec) /\ Sound(c, jumped)
         /\ c.status = "in_progress" /\ (~jumped => over = {})
         /\ \A b \in Recorded(c) : b < replay \/ b < blk
         /\ c.next >= replay /\ c.next >= blk
         /\ ~jumped => c.next = replay \/ c.next = blk
         /\ c.next \in Nat /\ blk \in Nat /\ replay \in Nat /\ jumped \in BOOLEAN
         /\ \A w \in Waits : w < sec => w \in c.waits
         /\ Recorded(c) \subseteq Nat
<1>1. Behind = blk /\ phase \in Walking
  BY DEF Behind, Walking
<1>2. TypeOK /\ c \in Checkpoints
  BY <1>1 DEF CInv, Position
<1>3. c.next \in Nat /\ blk \in Nat /\ replay \in Nat /\ jumped \in BOOLEAN
      /\ Recorded(c) \subseteq Nat
  BY <1>2, RecordedAre, Numbered DEF TypeOK
<1>4. \A w \in Waits : w < sec => w \in c.waits
  BY <1>1 DEF CInv, WInv, WaitsRespected
<1> QED BY <1>1, <1>2, <1>3, <1>4 DEF CInv, Position, Ahead

(* A block is behind every wait that is not satisfied.                     *)
LEMMA BehindAll ==
  ASSUME NEW d, NEW s \in Sections, Executable(s), \A w \in Waits : w < s => w \in d.waits
  PROVE  BehindWaits(d, BlocksBefore(s))
BY Numbered DEF BehindWaits

(* Sections that are passed, and blocks that are replayed.                 *)
LEMMA PassingRest ==
  ASSUME CInv, Include \/ PassWait \/ ReplayNothing \/ ReplayBlock
  PROVE  Rest'
<1>0. phase = "loop" /\ sec \in Sections /\ phase \in Walking
  BY DEF Include, PassWait, ReplayNothing, ReplayBlock, AtBlock, Walking
<1>1. /\ TypeOK /\ c \in Checkpoints /\ blk = BlocksBefore(sec) /\ Sound(c, jumped)
      /\ c.status = "in_progress"
      /\ \A b \in Recorded(c) : b < replay \/ b < blk
      /\ c.next >= replay /\ c.next >= blk
      /\ ~jumped => c.next = replay \/ c.next = blk
      /\ c.next \in Nat /\ blk \in Nat /\ replay \in Nat
      /\ Recorded(c) \subseteq Nat
  BY <1>0, AtTop
<1>2. /\ Same /\ c' = c /\ ckpt' \in {ckpt, c} /\ sec' = sec + 1 /\ phase' = "loop"
      /\ UNCHANGED <<desc, restore, outcome, sessions>>
  BY DEF Same, Include, PassWait, ReplayNothing, ReplayBlock, NextSection, NextBlock,
         SaveOutputs, files, given, ghosts
<1>3. Small'
  <2>1. chain' \in BOOLEAN
    BY <1>1 DEF Include, PassWait, ReplayNothing, ReplayBlock, Chained, TypeOK
  <2>2. seq' \in Nat /\ high' \in Nat /\ reused' \in BOOLEAN
    <3>1. CASE SendNothing
      BY <1>1, <3>1, NothingSent
    <3>2. CASE Include
      <4>1. PICK n \in Nat : n = Reopened + (IF blk >= replay THEN 1 ELSE 0)
        BY <1>1, Counts
      <4> QED BY <1>1, <3>2, <4>1, Sent DEF Include
    <3>3. CASE PassWait
      BY <1>1, <3>3, Counts, Sent DEF PassWait
    <3> QED BY <3>1, <3>2, <3>3 DEF ReplayNothing, ReplayBlock
  <2> QED BY <1>1, <1>2, <2>1, <2>2 DEF Small, TypeOK
<1>4. \/ ~Executable(sec) /\ blk' = blk
      \/ Executable(sec) /\ blk' = blk + 1 /\ blk < replay
  BY DEF Include, PassWait, ReplayNothing, ReplayBlock, AtBlock, NextBlock, Executable, Here
<1>5. blk' = BlocksBefore(sec + 1)
  BY <1>0, <1>1, <1>4, Numbered
<1>6. /\ \A b \in Recorded(c) : b < replay \/ b < blk'
      /\ c.next >= blk'
      /\ ~jumped => c.next = replay \/ c.next = blk'
  BY <1>1, <1>4
<1> QED BY <1>0, <1>1, <1>2, <1>3, <1>5, <1>6, WalksOn

(* Blocks that are skipped, live or because an operator stepped over them. *)
LEMMA SkippingRest ==
  ASSUME CInv, ReplayOver \/ SkipBlock
  PROVE  Rest'
<1>0. phase = "loop" /\ sec \in Sections /\ phase \in Walking /\ Executable(sec)
  BY DEF ReplayOver, SkipBlock, AtBlock, Walking, Executable, Here
<1>1. /\ TypeOK /\ c \in Checkpoints /\ blk = BlocksBefore(sec) /\ Sound(c, jumped)
      /\ c.status = "in_progress" /\ (~jumped => over = {})
      /\ \A b \in Recorded(c) : b < replay \/ b < blk
      /\ c.next >= replay /\ c.next >= blk
      /\ ~jumped => c.next = replay \/ c.next = blk
      /\ c.next \in Nat /\ blk \in Nat /\ replay \in Nat /\ jumped \in BOOLEAN
      /\ \A w \in Waits : w < sec => w \in c.waits
      /\ Recorded(c) \subseteq Nat
  BY <1>0, AtTop
<1> DEFINE e == AddSkip(c, blk)
<1>2. /\ Same /\ c' = e /\ ckpt' = e /\ sec' = sec + 1 /\ phase' = "loop" /\ blk' = blk + 1
      /\ UNCHANGED <<desc, restore, outcome, sessions>>
  BY DEF Same, ReplayOver, SkipBlock, NextSection, NextBlock, Skip, Save, given, ghosts
<1>3. /\ blk \in Blocks /\ BlocksBefore(sec + 1) = blk + 1 /\ BehindWaits(c, blk)
  BY <1>0, <1>1, Numbered, BehindAll
<1>4. /\ e \in Checkpoints
      /\ e.results = c.results /\ e.skipped = c.skipped \union {blk}
      /\ e.waits = c.waits /\ e.status = c.status
      /\ e.next >= c.next /\ e.next >= blk + 1
      /\ e.next = c.next \/ \E s \in c.skipped \union {blk} : e.next = s + 1
  BY <1>1, <1>3, Skips
<1> HIDE DEF e
<1>5. ~jumped => c.next = blk
  <2>1. ASSUME ~jumped PROVE blk >= replay
    BY <1>1, <2>1 DEF ReplayOver, SkipBlock
  <2> QED BY <1>1, <2>1
<1>6. Sound(e, jumped) /\ (~jumped => e.next = blk + 1)
  BY <1>1, <1>3, <1>4, <1>5, SoundSkip
<1>7. Small'
  <2>1. chain' \in BOOLEAN
    BY <1>1 DEF ReplayOver, SkipBlock, Chained, TypeOK
  <2>2. seq' \in Nat /\ high' \in Nat /\ reused' \in BOOLEAN
    <3>1. CASE ReplayOver
      BY <1>1, <3>1, Counts, Sent DEF ReplayOver
    <3>2. CASE SkipBlock
      <4>1. PICK n \in Nat : n = Reopened + Announced
        BY <1>1, Counts
      <4> QED BY <1>1, <3>2, <4>1, Sent DEF SkipBlock
    <3> QED BY <3>1, <3>2
  <2> QED BY <1>1, <1>2, <2>1, <2>2 DEF Small, TypeOK
<1>8. /\ \A b \in Recorded(e) : b < replay \/ b < blk'
      /\ e.next >= replay /\ e.next >= blk'
      /\ ~jumped => e.next = replay \/ e.next = blk'
  <2>1. Recorded(e) = Recorded(c) /\ e.next \in Nat
    BY <1>4, RecordedAre DEF Recorded
  <2> QED BY <1>1, <1>2, <1>4, <1>6, <2>1
<1> QED BY <1>0, <1>1, <1>2, <1>3, <1>4, <1>6, <1>7, <1>8, WalksOn

(* A block executes where the walk is ...                                  *)
LEMMA ExecuteRest ==
  ASSUME CInv, Execute
  PROVE  Rest'
<1>0. phase = "loop" /\ sec \in Sections /\ phase \in Walking /\ Executable(sec) /\ blk >= replay
  BY DEF Execute, AtBlock, Walking, Executable, Here
<1>1. /\ TypeOK /\ c \in Checkpoints /\ blk = BlocksBefore(sec) /\ Sound(c, jumped)
      /\ c.status = "in_progress" /\ (~jumped => over = {})
      /\ \A b \in Recorded(c) : b < replay \/ b < blk
      /\ c.next >= replay /\ c.next >= blk
      /\ ~jumped => c.next = replay \/ c.next = blk
  BY <1>0, AtTop
<1>2. /\ UNCHANGED <<desc, c, sec, blk, replay, over, restart, bail, sessions, failedAt, jumped>>
      /\ ckpt' \in {ckpt, c} /\ phase' \in {"ran", "restored"}
      /\ outcome' \in {"ok", "failed", "asked"}
  BY DEF Execute, SaveOutputs, Outcomes, cursor, given, ghosts
<1>3. Small'
  <2>1. chain' \in BOOLEAN /\ restore' \in BOOLEAN
    BY <1>1 DEF Execute, Chained, TypeOK
  <2>2. seq' \in Nat /\ high' \in Nat /\ reused' \in BOOLEAN
    BY <1>1, Counts, Sent DEF Execute
  <2> QED BY <1>1, <1>2, <2>1, <2>2 DEF Small, TypeOK
<1>4. TypeOK'
  <2>1. phase' \in Phases
    BY <1>2 DEF Phases, Walking, Executing
  <2> QED BY <1>1, <1>2, <1>3, <2>1 DEF TypeOK, Small
<1>5. Position'
  BY <1>0, <1>1, <1>2 DEF Position
<1>6. Ahead'
  <2>1. Behind' = blk
    BY <1>2 DEF Behind
  <2> QED BY <1>1, <1>2, <2>1 DEF Ahead
<1>7. OnFile'
  BY <1>1, <1>2 DEF CInv, OnFile
<1> QED BY <1>4, <1>5, <1>6, <1>7 DEF Rest

(* ... what is known of it then ...                                        *)
LEMMA AtTheBlock ==
  ASSUME CInv, phase \in {"ran", "restored"}
  PROVE  /\ TypeOK /\ c \in Checkpoints /\ blk = BlocksBefore(sec) /\ Sound(c, jumped)
         /\ sec \in Sections /\ Executable(sec) /\ blk >= replay
         /\ c.status = "in_progress" /\ (~jumped => over = {})
         /\ \A b \in Recorded(c) : b < blk
         /\ c.next >= blk /\ (~jumped => c.next = blk)
         /\ c.next \in Nat /\ blk \in Nat /\ replay \in Nat /\ jumped \in BOOLEAN
         /\ blk \in Blocks /\ BlocksBefore(sec + 1) = blk + 1 /\ BehindWaits(c, blk)
         /\ Recorded(c) \subseteq Nat
<1>1. Behind = blk /\ phase \in Walking /\ phase \in Executing
  BY DEF Behind, Walking, Executing
<1>2. TypeOK /\ c \in Checkpoints /\ blk = BlocksBefore(sec) /\ sec \in Sections
      /\ Executable(sec) /\ blk >= replay
  BY <1>1 DEF CInv, Position
<1>3. c.next \in Nat /\ blk \in Nat /\ replay \in Nat /\ jumped \in BOOLEAN
      /\ Recorded(c) \subseteq Nat
  BY <1>2, RecordedAre, Numbered DEF TypeOK
<1>4. \A w \in Waits : w < sec => w \in c.waits
  BY <1>1 DEF CInv, WInv, WaitsRespected
<1>5. blk \in Blocks /\ BlocksBefore(sec + 1) = blk + 1 /\ BehindWaits(c, blk)
  BY <1>2, <1>4, Numbered, BehindAll
<1>6. /\ Sound(c, jumped) /\ c.status = "in_progress"
      /\ \A b \in Recorded(c) : b < replay \/ b < blk
      /\ c.next >= blk /\ c.next >= replay
      /\ ~jumped => c.next = replay \/ c.next = blk
  BY <1>1 DEF CInv, Ahead
<1>7. /\ \A b \in Recorded(c) : b < blk
      /\ ~jumped => c.next = blk
  BY <1>2, <1>3, <1>6
<1> QED BY <1>2, <1>3, <1>5, <1>6, <1>7 DEF CInv, Position

(* ... and its result is recorded.                                         *)
LEMMA RecordRest ==
  ASSUME CInv, Record
  PROVE  Rest'
<1>0. phase \in {"ran", "restored"} /\ phase \in Walking
  BY DEF Record, Walking, Executing
<1>1. /\ TypeOK /\ c \in Checkpoints /\ blk = BlocksBefore(sec) /\ Sound(c, jumped)
      /\ sec \in Sections /\ Executable(sec) /\ blk >= replay
      /\ c.status = "in_progress" /\ (~jumped => over = {})
      /\ \A b \in Recorded(c) : b < blk
      /\ c.next >= blk /\ (~jumped => c.next = blk)
      /\ c.next \in Nat /\ blk \in Nat /\ replay \in Nat /\ jumped \in BOOLEAN
      /\ blk \in Blocks /\ BlocksBefore(sec + 1) = blk + 1 /\ BehindWaits(c, blk)
      /\ Recorded(c) \subseteq Nat
  BY <1>0, AtTheBlock
<1>2. seq' \in Nat /\ high' \in Nat /\ reused' \in BOOLEAN
  BY <1>1, Counts, Sent DEF Record
<1> DEFINE e == WithSeq(AddResult(c, blk), seq')
<1>3. /\ e \in Checkpoints
      /\ e.results = Append(c.results, blk) /\ e.next = blk + 1
      /\ e.waits = c.waits /\ e.skipped = c.skipped /\ e.status = c.status
  BY <1>1, <1>2, Results
<1>4. /\ Same /\ c' = e /\ ckpt' = e
      /\ UNCHANGED <<desc, restore, outcome, chain, sessions>>
      /\ \/ sec' = sec + 1 /\ phase' = "loop" /\ blk' = blk + 1
         \/ phase' = "cleanup" /\ sec' = sec /\ blk' = blk
  BY DEF Same, Record, NextSection, NextBlock, Save, given, ghosts, cursor
<1> HIDE DEF e
<1>5. Sound(e, jumped)
  BY <1>1, <1>3, SoundResult
<1>6. \A b \in Recorded(e) : b < blk + 1
  BY <1>3, <1>5 DEF Sound
<1>7. Small'
  BY <1>1, <1>2, <1>4 DEF Small, TypeOK
<1>8. CASE sec' = sec + 1 /\ phase' = "loop" /\ blk' = blk + 1
  <2>1. blk' = BlocksBefore(sec + 1) /\ e.next >= replay /\ e.next >= blk' /\ e.next = blk'
    BY <1>1, <1>3, <1>8
  <2>2. \A b \in Recorded(e) : b < replay \/ b < blk'
    BY <1>6, <1>8
  <2> QED BY <1>0, <1>1, <1>3, <1>4, <1>5, <1>7, <1>8, <2>1, <2>2, WalksOn
<1>9. CASE phase' = "cleanup" /\ sec' = sec /\ blk' = blk
  <2>1. TypeOK'
    <3>1. phase' \in Phases
      BY <1>9 DEF Phases, Walking, Executing
    <3> QED BY <1>1, <1>3, <1>4, <1>7, <1>9, <3>1 DEF TypeOK, Small, Same
  <2>2. Position'
    BY <1>1, <1>3, <1>4, <1>9 DEF Position, Same
  <2>3. Ahead'
    <3>1. Behind' = blk + 1
      BY <1>9 DEF Behind
    <3>2. e.next >= replay /\ e.next >= blk + 1
      BY <1>1, <1>3
    <3> QED BY <1>1, <1>3, <1>4, <1>5, <1>6, <3>1, <3>2 DEF Ahead, Same
  <2>4. OnFile'
    BY <1>1, <1>3, <1>4, <1>5 DEF OnFile, Same
  <2> QED BY <2>1, <2>2, <2>3, <2>4 DEF Rest
<1> QED BY <1>4, <1>8, <1>9

(* The descriptor of a restored slice is removed.                          *)
LEMMA CleanupRest ==
  ASSUME CInv, Cleanup
  PROVE  Rest'
<1>0. phase = "cleanup" /\ phase \in Walking /\ phase \in Executing
  BY DEF Cleanup, Walking, Executing
<1>1. /\ TypeOK /\ c \in Checkpoints /\ blk = BlocksBefore(sec) /\ Sound(c, jumped)
      /\ sec \in Sections /\ Executable(sec) /\ c.status = "in_progress"
      /\ \A b \in Recorded(c) : b < replay \/ b < blk + 1
      /\ c.next >= replay /\ c.next >= blk + 1
      /\ ~jumped => c.next = replay \/ c.next = blk + 1
  BY <1>0 DEF CInv, Position, Ahead, Behind
<1>2. BlocksBefore(sec + 1) = blk + 1
  BY <1>1, Numbered
<1>3. /\ Same /\ c' = c /\ ckpt' = ckpt /\ sec' = sec + 1 /\ phase' = "loop" /\ blk' = blk + 1
      /\ desc' = Absent /\ UNCHANGED <<restore, outcome, chain, sessions>>
  BY DEF Same, Cleanup, NextSection, NextBlock, given, ghosts
<1>4. Small'
  <2>1. seq' \in Nat /\ high' \in Nat /\ reused' \in BOOLEAN
    BY <1>1, NothingSent DEF Cleanup
  <2> QED BY <1>1, <1>3, <2>1 DEF Small, TypeOK
<1> QED BY <1>0, <1>1, <1>2, <1>3, <1>4, WalksOn

-----------------------------------------------------------------------------
(* The ways a walk ends.                                                   *)

(* The session's checkpoint is saved as it ends.                           *)
LEMMA StopsRest ==
  ASSUME CInv, phase' \in {"pausing", "ending"}, phase' = "pausing" => sec \in Sections,
         UNCHANGED <<sec, blk, replay, over, restart, bail, jumped>>,
         failedAt' \in 0..BlockCount, Small',
         NEW d \in Checkpoints, c' = d, ckpt' = d, Sound(d, jumped),
         d.status = "complete" => d.next = BlockCount,
         d.status = "failed" /\ ~jumped => d.next = failedAt'
  PROVE  Rest'
<1>1. TypeOK'
  <2>1. phase' \in Phases
    BY DEF Phases
  <2> QED BY <2>1 DEF CInv, TypeOK, Small
<1>2. Position' /\ Ahead'
  BY DEF CInv, Position, Ahead, Walking, Executing
<1>3. OnFile'
  BY DEF OnFile
<1> QED BY <1>1, <1>2, <1>3 DEF Rest

(* At a wait that is not satisfied every recorded block is before it, and, *)
(* unless an operator jumped, the replay is over: the checkpoint accounts  *)
(* for the blocks before its cursor, none of them behind this wait.        *)
LEMMA PauseWaitRest ==
  ASSUME CInv, PauseWait
  PROVE  Rest'
<1>0. /\ phase = "loop" /\ sec \in Sections /\ sec \in Waits /\ sec \notin c.waits
  BY DEF PauseWait, AtBlock, Waits, Here
<1>1. /\ TypeOK /\ c \in Checkpoints /\ blk = BlocksBefore(sec) /\ Sound(c, jumped)
      /\ c.next >= replay /\ c.next >= blk
      /\ ~jumped => c.next = replay \/ c.next = blk
      /\ c.next \in Nat /\ blk \in Nat /\ replay \in Nat /\ jumped \in BOOLEAN
      /\ Recorded(c) \subseteq Nat
  BY <1>0, AtTop
<1>2. \A b \in Recorded(c) \union c.skipped : b < blk
  <2>1. SUFFICES ASSUME NEW b \in Recorded(c) \union c.skipped, ~(b < blk) PROVE FALSE
    OBVIOUS
  <2>2. b \in Nat
    BY <1>1, RecordedAre
  <2>3. BlocksBefore(sec) <= b
    BY <1>1, <2>1, <2>2
  <2>4. BehindWaits(c, b)
    BY <1>1 DEF Sound
  <2> QED BY <1>0, <2>3, <2>4 DEF BehindWaits
<1>3. ~jumped => c.next = blk
  <2>1. SUFFICES ASSUME ~jumped, c.next # blk PROVE FALSE
    OBVIOUS
  <2>2. blk \in 0..(c.next - 1)
    BY <1>1, <2>1
  <2>3. blk \in Recorded(c) \union c.skipped
    BY <1>1, <2>1, <2>2 DEF Sound, Whole
  <2> QED BY <1>1, <1>2, <2>3
<1>4. /\ seq' \in Nat /\ high' \in Nat /\ reused' \in BOOLEAN /\ chain' \in BOOLEAN
      /\ blk \in 0..BlockCount
  <2>1. seq' \in Nat /\ high' \in Nat /\ reused' \in BOOLEAN
    BY <1>1, Counts, Sent DEF PauseWait
  <2>2. chain' \in BOOLEAN /\ blk \in 0..BlockCount
    BY <1>1 DEF PauseWait, Chained, TypeOK
  <2> QED BY <2>1, <2>2
<1> DEFINE e == WithSeq(MarkPaused([c EXCEPT !.next = blk]), seq')
<1>5. /\ e \in Checkpoints /\ e.next = blk /\ e.status = "paused" /\ Alike(c, e)
  BY <1>1, <1>4, Pauses DEF Alike
<1>6. /\ c' = e /\ ckpt' = e /\ phase' = "pausing"
      /\ UNCHANGED <<desc, sec, blk, replay, over, restart, bail, restore, outcome, sessions,
                     failedAt, jumped>>
  BY DEF PauseWait, Save, cursor, given, ghosts
<1> HIDE DEF e
<1>7. Sound(e, jumped)
  BY <1>1, <1>2, <1>3, <1>5, SoundAt
<1>8. Small' /\ failedAt' \in 0..BlockCount
  BY <1>1, <1>4, <1>6 DEF Small, TypeOK
<1> QED BY <1>0, <1>5, <1>6, <1>7, <1>8, StopsRest

(* A slice that asks for a human, and a failure under --bail, leave the    *)
(* cursor on their block.                                                  *)
LEMMA StopRest ==
  ASSUME CInv, PauseSlice \/ Bail
  PROVE  Rest'
<1>0. phase \in {"ran", "restored"}
  BY DEF PauseSlice, Bail
<1>1. /\ TypeOK /\ c \in Checkpoints /\ Sound(c, jumped) /\ sec \in Sections
      /\ \A b \in Recorded(c) : b < blk
      /\ c.next >= blk /\ (~jumped => c.next = blk)
      /\ c.next \in Nat /\ blk \in Nat /\ jumped \in BOOLEAN /\ blk \in Blocks
  BY <1>0, AtTheBlock
<1>2. seq' \in Nat /\ high' \in Nat /\ reused' \in BOOLEAN /\ blk \in 0..BlockCount
  <2>1. CASE PauseSlice
    BY <1>1, <2>1, Sent DEF PauseSlice, TypeOK
  <2>2. CASE Bail
    <3>1. PICK n \in Nat : n = Announced + 1 + Depth(sec)
      BY <1>1, Counts
    <3> QED BY <1>1, <2>2, <3>1, Sent DEF Bail, TypeOK
  <2> QED BY <2>1, <2>2
<1>3. UNCHANGED <<desc, sec, blk, replay, over, restart, bail, restore, outcome, chain,
                  sessions, jumped>>
  BY DEF PauseSlice, Bail, cursor, given, ghosts
<1>4. Small'
  BY <1>1, <1>2, <1>3 DEF Small, TypeOK
<1>5. CASE PauseSlice
  <2> DEFINE e == WithSeq(MarkPaused([c EXCEPT !.next = blk]), seq')
  <2>1. /\ e \in Checkpoints /\ e.next = blk /\ e.status = "paused" /\ Alike(c, e)
    BY <1>1, <1>2, Pauses DEF Alike
  <2>2. c' = e /\ ckpt' = e /\ phase' = "pausing" /\ failedAt' = failedAt
    BY <1>5 DEF PauseSlice, Save, ghosts
  <2> HIDE DEF e
  <2>3. Sound(e, jumped)
    BY <1>1, <2>1, SoundAt
  <2>4. failedAt' \in 0..BlockCount
    BY <1>1, <2>2 DEF TypeOK
  <2> QED BY <1>1, <1>3, <1>4, <2>1, <2>2, <2>3, <2>4, StopsRest
<1>6. CASE Bail
  <2> DEFINE e == WithSeq(MarkFailed(c), seq')
  <2>1. /\ e \in Checkpoints /\ e.next = c.next /\ e.status = "failed" /\ Alike(c, e)
    BY <1>1, <1>2, Fails DEF Alike
  <2>2. c' = e /\ ckpt' = e /\ phase' = "ending" /\ failedAt' = blk
    BY <1>6 DEF Bail, Save
  <2> HIDE DEF e
  <2>3. Sound(e, jumped)
    <3>1. \A b \in Recorded(c) : b < e.next
      BY <1>1, <2>1 DEF Sound
    <3> QED BY <1>1, <2>1, <3>1, SoundAt
  <2>4. failedAt' \in 0..BlockCount /\ (~jumped => e.next = failedAt')
    BY <1>1, <1>2, <2>1, <2>2
  <2> QED BY <1>1, <1>3, <1>4, <2>1, <2>2, <2>3, <2>4, StopsRest
<1> QED BY <1>5, <1>6

(* Past the last section no block is left.                                 *)
LEMMA CompleteRest ==
  ASSUME CInv, Complete
  PROVE  Rest'
<1>0. phase = "loop" /\ sec > Len(Workbook)
  BY DEF Complete
<1>1. /\ TypeOK /\ c \in Checkpoints /\ blk = BlocksBefore(sec) /\ Sound(c, jumped)
      /\ c.next >= blk /\ jumped \in BOOLEAN
  BY <1>0, AtTop
<1>2. c.next = BlockCount
  <2>1. sec = Len(Workbook) + 1 /\ BlockCount \in Nat
    BY <1>0, <1>1, SectionsAre, Numbered DEF TypeOK
  <2>2. blk = BlockCount
    BY <1>1, <2>1 DEF BlockCount
  <2>3. c.next \in 0..BlockCount
    BY <1>1, RecordedAre
  <2> QED BY <1>1, <2>1, <2>2, <2>3
<1> DEFINE e == MarkComplete(c)
<1>3. e \in Checkpoints /\ e.next = c.next /\ Alike(c, e)
  BY <1>1, Marks DEF Alike
<1>4. e.status = "complete"
  BY <1>1 DEF MarkComplete, Checkpoints
<1>5. /\ c' = e /\ ckpt' = e /\ phase' = "ending"
      /\ UNCHANGED <<desc, sec, blk, replay, over, restart, bail, restore, outcome, chain,
                     sessions, failedAt, jumped>>
  BY DEF Complete, Save, cursor, given, ghosts
<1> HIDE DEF e
<1>6. Sound(e, jumped)
  <2>1. \A b \in Recorded(c) : b < e.next
    BY <1>1, <1>3 DEF Sound
  <2> QED BY <1>1, <1>3, <2>1, SoundAt
<1>7. Small' /\ failedAt' \in 0..BlockCount
  <2>1. seq' \in Nat /\ high' \in Nat /\ reused' \in BOOLEAN
    BY <1>1, NothingSent DEF Complete
  <2> QED BY <1>1, <1>5, <2>1 DEF Small, TypeOK
<1> QED BY <1>2, <1>3, <1>4, <1>5, <1>6, <1>7, StopsRest

(* The process ends, or is killed; before that, the pause is described.    *)
LEMMA AsideRest ==
  ASSUME CInv, PauseDescribe \/ PauseExit \/ End \/ Kill
  PROVE  Rest'
<1>0. TypeOK /\ Position /\ OnFile
  BY DEF CInv
<1>1. CASE PauseDescribe
  <2>1. /\ phase = "pausing" /\ phase' = "paused" /\ desc' = sec /\ sec \in Sections
        /\ UNCHANGED <<ckpt, c, sec, blk, replay, over, restart, bail, restore, outcome, chain,
                       seq, high, reused, sessions, failedAt, jumped>>
    BY <1>0, <1>1 DEF PauseDescribe, Position, cursor, given, sending, ghosts
  <2>2. TypeOK'
    BY <1>0, <2>1 DEF TypeOK, Phases
  <2>3. Position' /\ Ahead' /\ OnFile'
    BY <1>0, <2>1 DEF Position, Ahead, OnFile, Walking, Executing
  <2> QED BY <2>2, <2>3 DEF Rest
<1>2. CASE PauseExit \/ End \/ Kill
  <2>1. Over /\ UNCHANGED <<ckpt, desc, sessions, failedAt, jumped>>
    BY <1>2 DEF PauseExit, End, Kill, files, ghosts
  <2>2. seq' \in Nat /\ high' \in Nat /\ reused' \in BOOLEAN
    <3>1. CASE PauseExit
      <4>1. PICK n \in Nat : n = 1 + Depth(sec)
        BY <1>0, Counts
      <4> QED BY <1>0, <3>1, <4>1, Sent DEF PauseExit
    <3>2. CASE End
      BY <1>0, <3>2, Sent DEF End
    <3>3. CASE Kill
      BY <1>0, <3>3, NothingSent DEF Kill
    <3> QED BY <1>2, <3>1, <3>2, <3>3
  <2>3. TypeOK'
    <3>1. /\ 1 \in 1..(Len(Workbook) + 1) /\ 0 \in 0..BlockCount /\ "idle" \in Phases
          /\ {} \subseteq Blocks
      BY Numbered, SectionsAre DEF Phases
    <3> QED BY <1>0, <2>1, <2>2, <3>1 DEF Over, TypeOK
  <2>4. Position' /\ Ahead' /\ OnFile'
    BY <1>0, <2>1 DEF Over, Position, Ahead, OnFile, Walking, Executing
  <2> QED BY <2>3, <2>4 DEF Rest
<1> QED BY <1>1, <1>2

-----------------------------------------------------------------------------

(* Nothing happens.                                                        *)
LEMMA StutterRest ==
  ASSUME CInv, UNCHANGED vars
  PROVE  Rest'
<1>1. UNCHANGED <<ckpt, desc, phase, c, sec, blk, replay, over, restart, bail, restore, outcome,
                  chain, seq, high, reused, sessions, failedAt, jumped>>
  BY DEF vars, files, cursor, given, sending, ghosts
<1>2. TypeOK'
  BY <1>1 DEF CInv, TypeOK
<1>3. Position' /\ OnFile'
  BY <1>1 DEF CInv, Position, OnFile
<1>4. Ahead'
  BY <1>1 DEF CInv, Ahead, Behind
<1> QED BY <1>2, <1>3, <1>4 DEF Rest

(* The invariant of the waits, and with it all that is known of a          *)
(* checkpoint, holds in every state a run gets to.                         *)
LEMMA CInvariant == Spec => []CInv
<1>1. Init => CInv
  BY InitWInv, InitRest DEF CInv, Rest
<1>2. CInv /\ [Next]_vars => CInv'
  <2> SUFFICES ASSUME CInv, [Next]_vars PROVE CInv'
    OBVIOUS
  <2>1. WInv'
    BY StepWInv DEF CInv
  <2>2. Rest'
    BY CommandRest, ResumeRest, PassingRest, SkippingRest, ExecuteRest, RecordRest,
       CleanupRest, PauseWaitRest, StopRest, CompleteRest, AsideRest, StutterRest
       DEF Next, Session
  <2> QED BY <2>1, <2>2 DEF CInv, Rest
<1> QED BY <1>1, <1>2, PTL DEF Spec

(* Without an operator's jump a checkpoint accounts for exactly the blocks *)
(* before its cursor, each executed or skipped and none of them both, so   *)
(* that a resume neither loses a block nor runs one again that it has the  *)
(* result of; a complete one is at the end, jumps included (add_result,    *)
(* add_skip and every save around them).                                   *)
THEOREM AlwaysAccounted == Spec => []Accounted
<1>1. CInv => Accounted
  BY DEF CInv, OnFile, Sound, Whole, Accounted, Finished
<1> QED BY CInvariant, <1>1, PTL

(* A checkpoint that failed under --bail is at the block that failed, as   *)
(* long as no operator made the run jump: the resume runs it again.        *)
THEOREM FailedBlockAlwaysNext == Spec => []FailedBlockIsNext
<1>1. CInv => FailedBlockIsNext
  BY DEF CInv, OnFile, FailedBlockIsNext, FailedBlockReruns
<1> QED BY CInvariant, <1>1, PTL

(* The types; and no block has two results, and they are in the order of   *)
(* the workbook, whatever was run again or jumped over.                    *)
THEOREM AlwaysInOrder == Spec => []InOrder
<1>1. CInv => InOrder
  BY DEF CInv, OnFile, Sound, Ascending, InOrder, ResultsInOrder
<1> QED BY CInvariant, <1>1, PTL

=============================================================================
