------------------------------ MODULE Lifecycle ------------------------------
(***************************************************************************)
(* One checkpoint id, the two files the program keeps for it -- the        *)
(* checkpoint `<id>.json` and the pending descriptor `<id>.pending.json` --*)
(* the two advisory locks that guard them, and the processes that meet on  *)
(* them: `wb run`, `wb resume`, `wb pending` (the reaper of expired pauses)*)
(* and `wb cancel`.                                                        *)
(*                                                                         *)
(* A step of a process is one operation on a file, with the in-memory work *)
(* that leads to it; between two steps any other process may run, the      *)
(* process may be killed, and a deadline may pass.                         *)
(*                                                                         *)
(* The workbook is left open: a run may execute a block, pause at any wait *)
(* section that is not satisfied or in any browser slice, bail, or end, as *)
(* some workbook would make it do.  What holds here holds for all of them. *)
(* (RunLoop models the run of a given workbook.)                           *)
(***************************************************************************)
EXTENDS Checkpoint

CONSTANTS
  Procs,        \* operating-system processes (each is reused after it exits)
  Runners,      \* those that execute `wb run` and `wb resume`
  Reapers,      \* those that execute `wb pending`
  Cancellers,   \* those that execute `wb cancel`
  Killable,     \* those that may be killed between two steps
  Idents,       \* what a checkpoint is matched on: workbook path + param hash
  Waits,        \* the section indices of `wait` blocks
  Slice,        \* the "section" of a browser-slice pause
  Blocks,       \* number of executable blocks
  Timeouts,     \* durations a pause may give, in ticks
  MaxNow,       \* bound: the clock stops there
  MaxPauses,    \* bound: pauses in a behaviour
  MaxCommands,  \* bound: run, resume and cancel commands issued by operators
  Absent,       \* no such file, nothing loaded
  NoProc        \* nobody holds the lock

ASSUME ProcsAssumption ==
  /\ Runners \subseteq Procs
  /\ Reapers \subseteq Procs
  /\ Cancellers \subseteq Procs
  /\ Killable \subseteq Procs
  /\ NoProc \notin Procs

ASSUME BoundsAssumption ==
  /\ Blocks \in Nat
  /\ Timeouts \subseteq Nat
  /\ MaxNow \in Nat
  /\ MaxPauses \in Nat
  /\ MaxCommands \in Nat

(* `on_timeout` of a descriptor.  "unset" and every unrecognised value are *)
(* treated as "abort" by the reaper and by resume.                         *)
Modes == {"abort", "skip", "prompt", "unset"}

(* A deadline that is never reached: the descriptor has no timeout.        *)
Never == MaxNow + 1

Checkpoints ==
  [status : Status, next : Nat, waits : SUBSET Waits, ident : Idents]

(* `no` numbers the pauses of a behaviour and `ident` says whose pause it  *)
(* is; neither is written to the file, and no step depends on them.        *)
Descriptors ==
  [at : Waits \union {Slice}, mode : Modes, deadline : Nat,
   no : Nat, ident : Idents]

ASSUME AbsentAssumption ==
  Absent \notin Checkpoints /\ Absent \notin Descriptors /\ Absent \notin Idents

(* A paused slice is no wait: its descriptor has a kind of its own.        *)
ASSUME SliceAssumption == Slice \notin Waits

VARIABLES
  ckpt,       \* <id>.json
  desc,       \* <id>.pending.json
  ckptLock,   \* holder of the advisory lock on the checkpoint
  reapLock,   \* holder of <id>.pending.reap.lock
  now,        \* the clock
  pc,         \* what each process does next
  mem,        \* the checkpoint each process has in memory
  dmem,       \* the descriptor each process has in memory
  ident,      \* the workbook and parameters each runner was started with
  restart,    \* a resume that navigates: the slice is not restored
  restore,    \* the run holds the one-shot restore of a paused slice
  pauses,     \* pauses so far (bound, and the numbering of descriptors)
  commands,   \* operator commands so far (bound)
  timeouts    \* how often a reaper reported each pause timed out: 0, 1, more

files == <<ckpt, desc>>
locks == <<ckptLock, reapLock>>
local == <<mem, dmem, ident, restart, restore>>
vars  == <<files, locks, now, pc, local, pauses, commands, timeouts>>

Init ==
  /\ ckpt = Absent
  /\ desc = Absent
  /\ ckptLock = NoProc
  /\ reapLock = NoProc
  /\ now = 0
  /\ pc = [p \in Procs |-> "idle"]
  /\ mem = [p \in Procs |-> Absent]
  /\ dmem = [p \in Procs |-> Absent]
  /\ ident = [p \in Procs |-> Absent]
  /\ restart = [p \in Procs |-> FALSE]
  /\ restore = [p \in Procs |-> FALSE]
  /\ pauses = 0
  /\ commands = 0
  /\ timeouts = [n \in 1..MaxPauses |-> 0]

-----------------------------------------------------------------------------
(* Building blocks.                                                        *)

New(i) == [status |-> "in_progress", next |-> 0, waits |-> {}, ident |-> i]

Advance(c) == [c EXCEPT !.next = @ + 1]

Expired(d) == now >= d.deadline

Reapable(d) == Expired(d) /\ d.mode \notin {"skip", "prompt"}

Goto(p, label) == pc' = [pc EXCEPT ![p] = label]

Hold(p, c) == mem' = [mem EXCEPT ![p] = c]

Save(p, c) == ckpt' = c /\ Hold(p, c)

Issue == commands < MaxCommands /\ commands' = commands + 1

(* What a run of i finds in the file: a checkpoint that is not complete,   *)
(* of the same workbook and parameters, is continued; anything else is     *)
(* replaced by a fresh one -- in memory only, until the first save.        *)
Continuable(i) ==
  ckpt # Absent /\ ckpt.status # "complete" /\ ckpt.ident = i

Opened(i) == IF Continuable(i) THEN MarkInProgress(ckpt) ELSE New(i)

(* Take the session lock, load the checkpoint, look for a slice to restore.*)
Open(p, i) ==
  /\ ckptLock = NoProc
  /\ ckptLock' = p
  /\ Hold(p, Opened(i))
  /\ restore' = [restore EXCEPT
       ![p] = desc # Absent /\ desc.at = Slice /\ ~restart[p]]
  /\ Goto(p, "running")

(* A process ends: the operating system drops what it held.                *)
Gone(p) ==
  /\ Goto(p, "idle")
  /\ ckptLock' = IF ckptLock = p THEN NoProc ELSE ckptLock
  /\ reapLock' = IF reapLock = p THEN NoProc ELSE reapLock
  /\ mem' = [mem EXCEPT ![p] = Absent]
  /\ dmem' = [dmem EXCEPT ![p] = Absent]
  /\ restart' = [restart EXCEPT ![p] = FALSE]
  /\ restore' = [restore EXCEPT ![p] = FALSE]
  /\ ident' = [ident EXCEPT ![p] = Absent]

-----------------------------------------------------------------------------
(* wb run.                                                                 *)

RunStart(p, i) ==
  /\ p \in Runners
  /\ pc[p] = "idle"
  /\ Issue
  /\ Open(p, i)
  /\ ident' = [ident EXCEPT ![p] = i]
  /\ UNCHANGED <<files, reapLock, now, dmem, restart, pauses, timeouts>>

(* A code block ran; its result is saved before the next one starts.       *)
RunBlock(p) ==
  /\ pc[p] = "running"
  /\ mem[p].next < Blocks
  /\ Save(p, Advance(mem[p]))
  /\ UNCHANGED <<desc, locks, now, pc, dmem, ident, restart, restore,
                 pauses, commands, timeouts>>

(* A block, live or replayed, has step outputs: they are added to the      *)
(* checkpoint, which is saved whatever becomes of the block.               *)
RunOutputs(p) ==
  /\ pc[p] = "running"
  /\ Blocks > 0
  /\ Save(p, mem[p])
  /\ UNCHANGED <<desc, locks, now, pc, dmem, ident, restart, restore,
                 pauses, commands, timeouts>>

(* A browser slice ran to its end.  The first one of the run takes the     *)
(* restore, and a slice that was restored has its descriptor removed.      *)
RunSlice(p) ==
  /\ pc[p] = "running"
  /\ mem[p].next < Blocks
  /\ Save(p, Advance(mem[p]))
  /\ Goto(p, IF restore[p] THEN "cleanup" ELSE "running")
  /\ restore' = [restore EXCEPT ![p] = FALSE]
  /\ UNCHANGED <<desc, locks, now, dmem, ident, restart,
                 pauses, commands, timeouts>>

RunCleanup(p) ==
  /\ pc[p] = "cleanup"
  /\ desc' = Absent
  /\ Goto(p, "running")
  /\ UNCHANGED <<ckpt, locks, now, local, pauses, commands, timeouts>>

(* --bail and the block failed: its result is not saved.                   *)
RunBail(p) ==
  /\ pc[p] = "running"
  /\ mem[p].next < Blocks
  /\ Save(p, MarkFailed(mem[p]))
  /\ Goto(p, "exiting")
  /\ UNCHANGED <<desc, locks, now, dmem, ident, restart, restore,
                 pauses, commands, timeouts>>

RunFinish(p) ==
  /\ pc[p] = "running"
  /\ mem[p].next >= Blocks
  /\ Save(p, MarkComplete(mem[p]))
  /\ Goto(p, "exiting")
  /\ UNCHANGED <<desc, locks, now, dmem, ident, restart, restore,
                 pauses, commands, timeouts>>

(* A wait section, or a slice that asks for a human: first the checkpoint  *)
(* is saved as paused ...                                                  *)
PauseSave(p) ==
  /\ pc[p] = "running"
  /\ pauses < MaxPauses
  /\ pauses' = pauses + 1
  /\ Save(p, MarkPaused(mem[p]))
  /\ Goto(p, "pausing")
  /\ UNCHANGED <<desc, locks, now, dmem, ident, restart, restore,
                 commands, timeouts>>

(* ... then the descriptor is written beside it.  A wait carries the mode  *)
(* of its spec; a slice aborts on timeout or leaves the mode unset.        *)
PauseDescribe(p) ==
  /\ pc[p] = "pausing"
  /\ \E at \in (Waits \ mem[p].waits) \union {Slice}, mode \in Modes,
        deadline \in {Never} \union {now + t : t \in Timeouts} :
       /\ at = Slice => mode \in {"abort", "unset"}
       /\ desc' = [at |-> at, mode |-> mode, deadline |-> deadline,
                   no |-> pauses, ident |-> ident[p]]
  /\ Goto(p, "exiting")
  /\ UNCHANGED <<ckpt, locks, now, local, pauses, commands, timeouts>>

Exit(p) ==
  /\ pc[p] = "exiting"
  /\ Gone(p)
  /\ UNCHANGED <<files, now, pauses, commands, timeouts>>

-----------------------------------------------------------------------------
(* wb resume.                                                              *)

(* Lock, load both files; only a wait looks at the deadline.               *)
ResumeStart(p) ==
  /\ p \in Runners
  /\ pc[p] = "idle"
  /\ Issue
  /\ ckptLock = NoProc
  /\ ckpt # Absent /\ ckpt.status # "complete"
  /\ desc # Absent
  /\ ckptLock' = p
  /\ Hold(p, ckpt)
  /\ dmem' = [dmem EXCEPT ![p] = desc]
  /\ ident' = [ident EXCEPT ![p] = ckpt.ident]
  /\ Goto(p, IF desc.at # Slice /\ Expired(desc) THEN "overdue"
                                                 ELSE "resuming")
  /\ UNCHANGED <<files, reapLock, now, restart, restore, pauses, timeouts>>

(* A required binding is missing, or the operator asked to retry later.    *)
ResumeRefuse(p) ==
  /\ \/ pc[p] = "resuming" /\ dmem[p].at # Slice
     \/ pc[p] = "overdue"  /\ dmem[p].mode = "prompt"
  /\ Goto(p, "exiting")
  /\ UNCHANGED <<files, locks, now, local, pauses, commands, timeouts>>

(* The wait is overdue and must abort, or nobody is there to be prompted.  *)
ResumeAbort(p) ==
  /\ pc[p] = "overdue"
  /\ dmem[p].mode # "skip"
  /\ Save(p, MarkFailed(mem[p]))
  /\ Goto(p, "dropping")
  /\ UNCHANGED <<desc, locks, now, dmem, ident, restart, restore,
                 pauses, commands, timeouts>>

ResumeDrop(p) ==
  /\ pc[p] = "dropping"
  /\ desc' = Absent
  /\ Goto(p, "exiting")
  /\ UNCHANGED <<ckpt, locks, now, local, pauses, commands, timeouts>>

(* Mutant: the checkpoint stays paused. *)
ResumeDeliver_StaysPaused(p) ==
  /\ \/ pc[p] = "resuming" /\ dmem[p].at # Slice
     \/ pc[p] = "overdue"  /\ dmem[p].mode \in {"skip", "prompt"}
  /\ Save(p, CompleteWait(mem[p], dmem[p].at))
  /\ Goto(p, "consuming")
  /\ UNCHANGED <<desc, locks, now, dmem, ident, restart, restore,
                 pauses, commands, timeouts>>

(* The wait got its values -- or empty ones, when it is overdue and may be *)
(* skipped: it is recorded as satisfied ...                                *)
ResumeDeliver(p) ==
  /\ \/ pc[p] = "resuming" /\ dmem[p].at # Slice
     \/ pc[p] = "overdue"  /\ dmem[p].mode \in {"skip", "prompt"}
  /\ Save(p, MarkInProgress(CompleteWait(mem[p], dmem[p].at)))
  /\ Goto(p, "consuming")
  /\ UNCHANGED <<desc, locks, now, dmem, ident, restart, restore,
                 pauses, commands, timeouts>>

(* ... its descriptor is removed, and the lock is let go for the run that  *)
(* this same process is about to enter.                                    *)
ResumeConsume(p) ==
  /\ pc[p] = "consuming"
  /\ desc' = Absent
  /\ ckptLock' = NoProc
  /\ Goto(p, "handoff")
  /\ UNCHANGED <<ckpt, reapLock, now, local, pauses, commands, timeouts>>

(* A paused slice goes on where it was, whatever its deadline; its         *)
(* descriptor stays until the slice completes.                             *)
ResumeSlice(p) ==
  /\ pc[p] = "resuming"
  /\ dmem[p].at = Slice
  /\ Save(p, MarkInProgress(mem[p]))
  /\ ckptLock' = NoProc
  /\ Goto(p, "handoff")
  /\ UNCHANGED <<desc, reapLock, now, dmem, ident, restart, restore,
                 pauses, commands, timeouts>>

(* --rerun-step or --goto-step: go on at block t, from its beginning.      *)
ResumeNavigate(p, t) ==
  /\ pc[p] = "resuming"
  /\ dmem[p].at = Slice
  /\ Save(p, [MarkInProgress(mem[p]) EXCEPT !.next = t])
  /\ restart' = [restart EXCEPT ![p] = TRUE]
  /\ ckptLock' = NoProc
  /\ Goto(p, "handoff")
  /\ UNCHANGED <<desc, reapLock, now, dmem, ident, restore,
                 pauses, commands, timeouts>>

(* Mutant: the run goes on with the copy of before the lock was let go. *)
ResumeRun_KeepsCopy(p) ==
  /\ pc[p] = "handoff"
  /\ ckptLock = NoProc
  /\ ckptLock' = p
  /\ restore' = [restore EXCEPT ![p] = FALSE]
  /\ Goto(p, "running")
  /\ UNCHANGED <<files, reapLock, now, mem, dmem, ident, restart,
                 pauses, commands, timeouts>>

ResumeRun(p) ==
  /\ pc[p] = "handoff"
  /\ Open(p, ident[p])
  /\ UNCHANGED <<files, reapLock, now, dmem, ident, restart,
                 pauses, commands, timeouts>>

(* Somebody took the lock in between: exit EXIT_CHECKPOINT_BUSY.           *)
ResumeBusy(p) ==
  /\ pc[p] = "handoff"
  /\ ckptLock # NoProc
  /\ Gone(p)
  /\ UNCHANGED <<files, now, pauses, commands, timeouts>>

-----------------------------------------------------------------------------
(* wb pending: the reaper.                                                 *)

(* The directory is listed without any lock.                               *)
ReapList(p) ==
  /\ p \in Reapers
  /\ pc[p] = "idle"
  /\ desc # Absent /\ Reapable(desc)
  /\ Goto(p, "listed")
  /\ UNCHANGED <<files, locks, now, local, pauses, commands, timeouts>>

(* Under the reap lock the descriptor is read again ...                    *)
StillReapable == desc # Absent /\ Reapable(desc)

(* Mutant: two reapers may be at one descriptor. *)
ReapReload_NoLock(p) ==
  /\ pc[p] = "listed"
  /\ StillReapable
  /\ reapLock' = p
  /\ dmem' = [dmem EXCEPT ![p] = desc]
  /\ Goto(p, "armed")
  /\ UNCHANGED <<files, ckptLock, now, mem, ident, restart, restore,
                 pauses, commands, timeouts>>

ReapReload(p) ==
  /\ pc[p] = "listed"
  /\ reapLock = NoProc
  /\ StillReapable
  /\ reapLock' = p
  /\ dmem' = [dmem EXCEPT ![p] = desc]
  /\ Goto(p, "armed")
  /\ UNCHANGED <<files, ckptLock, now, mem, ident, restart, restore,
                 pauses, commands, timeouts>>

(* ... and left alone if another reaper or a resume dealt with it.         *)
ReapGone(p) ==
  /\ pc[p] = "listed"
  /\ reapLock = NoProc
  /\ ~StillReapable
  /\ Gone(p)
  /\ UNCHANGED <<files, now, pauses, commands, timeouts>>

(* Mutant: the reap lock is not let go. *)
ReapBusy_KeepsReapLock(p) ==
  /\ pc[p] = "armed"
  /\ ckptLock # NoProc
  /\ Goto(p, "idle")
  /\ UNCHANGED <<files, locks, now, local, pauses, commands, timeouts>>

(* A live run holds the checkpoint: skip it in this sweep.                 *)
ReapBusy(p) ==
  /\ pc[p] = "armed"
  /\ ckptLock # NoProc
  /\ Gone(p)
  /\ UNCHANGED <<files, now, pauses, commands, timeouts>>

(* Mutant: the checkpoint is taken from under a session. *)
ReapClaim_NoLock(p) ==
  /\ pc[p] = "armed"
  /\ ckptLock' = p
  /\ Hold(p, ckpt)
  /\ Goto(p, "reaping")
  /\ UNCHANGED <<files, reapLock, now, dmem, ident, restart, restore,
                 pauses, commands, timeouts>>

ReapClaim(p) ==
  /\ pc[p] = "armed"
  /\ ckptLock = NoProc
  /\ ckptLock' = p
  /\ Hold(p, ckpt)
  /\ Goto(p, "reaping")
  /\ UNCHANGED <<files, reapLock, now, dmem, ident, restart, restore,
                 pauses, commands, timeouts>>

(* Mutant: only a failed run is over. *)
Terminal_FailedOnly(c) == c.status = "failed"

(* Fail the checkpoint unless its run is over; either way the checkpoint   *)
(* lock is released here.  Who moved it to failed, or found none, reports. *)
Terminal(c) == c.status \in {"failed", "complete"}

ReapSettle(p) ==
  /\ pc[p] = "reaping"
  /\ ckptLock' = NoProc
  /\ \/ /\ mem[p] # Absent /\ Terminal(mem[p])
        /\ Goto(p, "deleting")
        /\ UNCHANGED <<ckpt, mem>>
     \/ /\ mem[p] # Absent /\ ~Terminal(mem[p])
        /\ Save(p, MarkFailed(mem[p]))
        /\ Goto(p, "notifying")
     \/ /\ mem[p] = Absent
        /\ Goto(p, "notifying")
        /\ UNCHANGED <<ckpt, mem>>
  /\ UNCHANGED <<desc, reapLock, now, dmem, ident, restart, restore,
                 pauses, commands, timeouts>>

(* checkpoint.failed with error_type "timeout".                            *)
ReapNotify(p) ==
  /\ pc[p] = "notifying"
  /\ timeouts' = [timeouts EXCEPT ![dmem[p].no] = IF @ < 2 THEN @ + 1 ELSE @]
  /\ Goto(p, "deleting")
  /\ UNCHANGED <<files, locks, now, local, pauses, commands>>

ReapDelete(p) ==
  /\ pc[p] = "deleting"
  /\ desc' = Absent
  /\ Gone(p)
  /\ UNCHANGED <<ckpt, now, pauses, commands, timeouts>>

-----------------------------------------------------------------------------
(* wb cancel, which takes no lock: descriptor first, then checkpoint.      *)

CancelDescriptor(p) ==
  /\ p \in Cancellers
  /\ pc[p] = "idle"
  /\ Issue
  /\ ckpt # Absent \/ desc # Absent
  /\ desc' = Absent
  /\ Goto(p, "cancelling")
  /\ UNCHANGED <<ckpt, locks, now, local, pauses, timeouts>>

CancelCheckpoint(p) ==
  /\ pc[p] = "cancelling"
  /\ ckpt' = Absent
  /\ Goto(p, "idle")
  /\ UNCHANGED <<desc, locks, now, local, pauses, commands, timeouts>>

-----------------------------------------------------------------------------
(* The environment.                                                        *)

Kill(p) ==
  /\ p \in Killable
  /\ pc[p] # "idle"
  /\ Gone(p)
  /\ UNCHANGED <<files, now, pauses, commands, timeouts>>

Tick ==
  /\ now < MaxNow
  /\ now' = now + 1
  /\ UNCHANGED <<files, locks, pc, local, pauses, commands, timeouts>>

RunStep(p) ==
  \/ RunBlock(p) \/ RunOutputs(p) \/ RunSlice(p) \/ RunCleanup(p)
  \/ RunBail(p) \/ RunFinish(p) \/ PauseSave(p) \/ PauseDescribe(p) \/ Exit(p)

ResumeStep(p) ==
  \/ ResumeRefuse(p) \/ ResumeAbort(p) \/ ResumeDrop(p)
  \/ ResumeDeliver(p) \/ ResumeConsume(p) \/ ResumeSlice(p)
  \/ \E t \in 0..Blocks : t < Blocks /\ ResumeNavigate(p, t)
  \/ ResumeRun(p) \/ ResumeBusy(p)

ReapStep(p) ==
  \/ ReapReload(p) \/ ReapGone(p) \/ ReapBusy(p) \/ ReapClaim(p)
  \/ ReapSettle(p) \/ ReapNotify(p) \/ ReapDelete(p)

(* What a process that has begun a command does next.                      *)
Proceed(p) == RunStep(p) \/ ResumeStep(p) \/ ReapStep(p) \/ CancelCheckpoint(p)

(* What begins a command.                                                  *)
Command(p) ==
  \/ \E i \in Idents : RunStart(p, i)
  \/ ResumeStart(p) \/ ReapList(p) \/ CancelDescriptor(p)

Next ==
  \/ \E p \in Procs : Command(p) \/ Proceed(p) \/ Kill(p)
  \/ Tick

Spec == Init /\ [][Next]_vars

(* A process that was started gets to run, and `wb pending` is called      *)
(* again and again (a cron job or a supervisor).  Nothing makes an operator*)
(* issue a command, a deadline pass or a process die.                      *)
Fairness ==
  /\ \A p \in Procs : WF_vars(Proceed(p))
  /\ \A p \in Reapers : WF_vars(ReapList(p))

FairSpec == Spec /\ Fairness

-----------------------------------------------------------------------------
(* Properties.                                                             *)

HoldsCkpt == {"running", "cleanup", "pausing", "exiting", "resuming",
              "overdue", "dropping", "consuming", "reaping"}
HoldsReap == {"armed", "reaping", "notifying", "deleting"}
Labels    == HoldsCkpt \union HoldsReap
               \union {"idle", "handoff", "listed", "cancelling"}

(* The values of the variables; in particular no run records more blocks   *)
(* than the workbook has, whatever it was resumed from.                    *)
TypeOK ==
  /\ ckpt \in Checkpoints \union {Absent}
  /\ desc \in Descriptors \union {Absent}
  /\ ckpt # Absent => ckpt.next <= Blocks
  /\ ckptLock \in Procs \union {NoProc}
  /\ reapLock \in Procs \union {NoProc}
  /\ now \in Nat
  /\ pc \in [Procs -> Labels]
  /\ mem \in [Procs -> Checkpoints \union {Absent}]
  /\ \A p \in Procs : mem[p] # Absent => mem[p].next <= Blocks
  /\ dmem \in [Procs -> Descriptors \union {Absent}]
  /\ ident \in [Procs -> Idents \union {Absent}]
  /\ restart \in [Procs -> BOOLEAN]
  /\ restore \in [Procs -> BOOLEAN]
  /\ pauses \in Nat
  /\ commands \in Nat
  /\ timeouts \in [1..MaxPauses -> 0..2]

(* A process is between taking and dropping a lock exactly when it is the  *)
(* holder: two sessions never work on one checkpoint (try_lock_for in      *)
(* prepare_checkpoint, cmd_resume_cmd and reap_expired), two reapers never *)
(* on one descriptor.                                                      *)
LocksHeld ==
  \A p \in Procs : /\ pc[p] \in HoldsCkpt <=> ckptLock = p
                   /\ pc[p] \in HoldsReap <=> reapLock = p

(* What continues checkpoint d, the one on disk, may not have lost any of  *)
(* it: a run that went on after d keeps its satisfied waits and its place. *)
Continues(c, d) ==
  (d.status # "complete" /\ d.ident = c.ident)
    => d.waits \subseteq c.waits /\ d.next <= c.next

(* A run that started from nothing and has saved nothing yet.              *)
Starting(c) == c.waits = {} /\ c.next = 0

(* What a run is about to write back is up to date with the disk; over a   *)
(* complete checkpoint only a fresh run is ever written.                   *)
RunUpToDate(p) ==
  pc[p] \in {"running", "cleanup"} =>
    /\ mem[p] # Absent /\ mem[p].status # "complete"
    /\ ckpt # Absent =>
         /\ Continues(mem[p], ckpt)
         /\ ckpt.status = "complete" => Starting(mem[p])

(* A resume has what is on disk, and it is not complete; a reaper has what *)
(* is on disk.  (A cancel may remove the file under either.)               *)
ResumeUpToDate(p) ==
  pc[p] \in {"resuming", "overdue"} =>
    /\ mem[p] # Absent /\ mem[p].status # "complete"
    /\ ckpt # Absent => ckpt = mem[p]

ReaperUpToDate(p) ==
  pc[p] = "reaping" /\ mem[p] # Absent /\ ckpt # Absent => ckpt = mem[p]

(* Which run a session works for, and what a resume or a reaper answers.   *)
Informed(p) ==
  /\ pc[p] \in {"running", "cleanup", "pausing", "resuming", "overdue",
               "consuming", "handoff"} => ident[p] \in Idents
  /\ pc[p] \in {"resuming", "overdue"} \union HoldsReap => dmem[p] # Absent
  /\ pc[p] = "overdue" => dmem[p].at # Slice

(* Sessions and reapers, which read the checkpoint once and save it many   *)
(* times, never hold a copy that has fallen behind the file: the lock that *)
(* each takes before loading is what makes the saves of NoLostUpdate safe. *)
SessionsUpToDate ==
  \A p \in Procs : RunUpToDate(p) /\ ResumeUpToDate(p) /\ ReaperUpToDate(p)

IInv ==
  /\ TypeOK
  /\ LocksHeld
  /\ SessionsUpToDate
  /\ \A p \in Procs : Informed(p)

Navigated == \E p \in Procs, t \in 0..Blocks : ResumeNavigate(p, t)

(* No process, by its saves, takes back what another one saved: as long as *)
(* the checkpoint belongs to the same unfinished run, a wait that a resume *)
(* satisfied stays satisfied and the resume position does not go back --   *)
(* except by the operator's own rerun/goto ("last-writer-wins would lose   *)
(* state", prepare_checkpoint).  Kills and cancels do not change that.     *)
NoLostUpdate ==
  [][ckpt # Absent /\ ckpt' # Absent =>
       \/ Continues(ckpt', ckpt)
       \/ Navigated /\ ckpt.waits \subseteq ckpt'.waits]_vars

(* A finished run is final: a complete checkpoint is only ever replaced by *)
(* one that a fresh run of the workbook started from nothing, never failed *)
(* by a reaper that found an old descriptor nor reopened by a resume.      *)
CompleteIsFinal ==
  [][ckpt # Absent /\ ckpt.status = "complete"
       /\ ckpt' # ckpt /\ ckpt' # Absent
     => ckpt'.waits = {} /\ ckpt'.next <= 1]_vars

(* However many reapers sweep at once, the timeout of one pause is reported*)
(* once (reap_expired takes the reap lock and reads the descriptor again). *)
ReportedOnce == \A n \in 1..MaxPauses : timeouts[n] <= 1

(* Between sessions a paused checkpoint can be resumed: the descriptor is  *)
(* there, belongs to that run and asks for a wait that is not satisfied.   *)
PausedIsResumable ==
  ckpt # Absent /\ ckpt.status = "paused" /\ ckptLock = NoProc =>
    /\ desc # Absent
    /\ desc.ident = ckpt.ident
    /\ desc.at \notin ckpt.waits
    /\ desc.no = pauses

(* A reaper removes nothing but expired descriptors that are to abort.     *)
ReapsOnlyExpired ==
  [][\A p \in Procs : pc[p] = "deleting" /\ desc # Absent /\ desc' # desc
       => Reapable(desc)]_vars

(* An expired pause that is to abort does not stay: `wb pending`, called   *)
(* again and again, removes it, unless a session replaced it meanwhile.    *)
ExpiredIsReaped ==
  \A n \in 1..MaxPauses :
    desc # Absent /\ desc.no = n /\ Reapable(desc)
      ~> (desc = Absent \/ desc.no # n)

=============================================================================
