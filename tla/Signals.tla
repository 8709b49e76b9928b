------------------------------ MODULE Signals ------------------------------
(***************************************************************************)
(* How a signal reaches the pause it answers: src/src/signal.rs and the    *)
(* wb resume command of src/src/lib.rs.                                    *)
(*                                                                         *)
(* A signal is the value of one Redis key per checkpoint id (external).  A *)
(* resume that is given an id reads it late: under the lock, after the     *)
(* gates and the descriptor, and only if no value came with the command.   *)
(* A resume without an id looks for one: it goes through the descriptors,  *)
(* and takes the first signal it finds before anything else.  Taking is    *)
(* GET, then DEL, then parsing.                                            *)
(***************************************************************************)
EXTENDS Integers, Sequences, FiniteSets

CONSTANTS
    Resumes,       \* processes: operators, agents, and the cron job
    Cron,          \* the process that only scans
    Nobody,        \* a lock without a holder
    Ids,           \* checkpoint ids
    BrowserIds,    \* the ids that pause in a browser slice, not at a wait
    MaxSignals,    \* bound: signals written
    MaxPauses      \* bound: pauses of an id

SignalsConstants ==
    /\ Cron \in Resumes /\ Nobody \notin Resumes /\ Ids \subseteq Nat \ {0}
    /\ BrowserIds \subseteq Ids /\ MaxSignals \in Nat /\ MaxPauses \in Nat \ {0}

VARIABLES
    redis,     \* the signal under an id's key, 0 for none
    signals,   \* signal -> what its value is: "full", "partial", "malformed"
    desc,      \* id -> the pause its descriptor is for (0 for none), and whether it expired
    lock,      \* id -> the process that holds its lock, or Nobody
    proc,      \* the resume processes
    answers,   \* what was read under the lock and bound: a signal, an id, a pause
    wasted     \* what could have been, and was not, though the process lived

signalVars == <<redis, signals, desc, lock, proc, answers, wasted>>

Kinds == {"full", "partial", "malformed"}
OnTimeout == {"abort", "skip", "prompt"}

-----------------------------------------------------------------------------

\* A process: the rest of its scan, its id, the signal it took and where it read it, in the
\* scan or for the id of the command.  Whether values came with the command is chosen where it matters.
Off == [pc |-> "off", scan |-> {}, id |-> 0,
        taken |-> 0, how |-> "", pause |-> 0]

Pause(n) == [pause |-> n, expired |-> FALSE, onTimeout |-> "skip"]

SignalsInit ==
    /\ redis = [i \in Ids |-> 0]
    /\ signals = << >>
    /\ desc = [i \in Ids |-> Pause(1)]
    /\ lock = [i \in Ids |-> Nobody]
    /\ proc = [p \in Resumes |-> Off]
    /\ answers = {}
    /\ wasted = {}

\* An operator writes a signal; the key has one value, and the last one stays.
Write ==
    /\ Len(signals) < MaxSignals
    /\ \E i \in Ids, k \in Kinds :
          /\ signals' = Append(signals, k)
          /\ redis' = [redis EXCEPT ![i] = Len(signals) + 1]
    /\ UNCHANGED <<desc, lock, proc, answers, wasted>>

\* The time of a wait runs out.
Expire(i) ==
    /\ desc[i].pause # 0 /\ ~desc[i].expired /\ i \notin BrowserIds
    /\ \E t \in OnTimeout : desc' = [desc EXCEPT ![i].expired = TRUE, ![i].onTimeout = t]
    /\ UNCHANGED <<redis, signals, lock, proc, answers, wasted>>

-----------------------------------------------------------------------------
(* A resume process.                                                       *)

Goto(p, r) == proc' = [proc EXCEPT ![p] = r] /\ UNCHANGED wasted

\* A signal satisfies a wait if it has a value for every bind.
Satisfies(n) == n # 0 /\ signals[n] = "full"

\* The process ends, or goes on without the signal it took.
Waste(p) == IF proc[p].how = "id" /\ Satisfies(proc[p].taken) THEN {proc[p].taken} ELSE {}
Leave(p) == proc' = [proc EXCEPT ![p] = Off] /\ wasted' = wasted \union Waste(p)
Exit(p) == Leave(p) /\ lock' = [lock EXCEPT ![proc[p].id] = Nobody]

\* With an id: straight to the lock.
BeginWithId(p) ==
    /\ proc[p].pc = "off"
    /\ \E i \in Ids : Goto(p, [Off EXCEPT !.pc = "lock", !.id = i])
    /\ UNCHANGED <<redis, signals, desc, lock, answers>>

\* Without: it will go through the descriptors there are now.
BeginScan(p) ==
    /\ proc[p].pc = "off"
    /\ Goto(p, [Off EXCEPT !.pc = "scan", !.scan = {i \in Ids : desc[i].pause # 0}])
    /\ UNCHANGED <<redis, signals, desc, lock, answers>>

\* GET, in the order of the ids: a key without a value sends the scan on, and ends it
\* after the last.
ScanGet(p) ==
    /\ proc[p].pc = "scan"
    /\ \/ proc[p].scan = {} /\ Leave(p)
       \/ \E i \in proc[p].scan :
             /\ \A j \in proc[p].scan : i <= j
             /\ Goto(p, IF redis[i] = 0 THEN [proc[p] EXCEPT !.scan = @ \ {i}]
                        ELSE [proc[p] EXCEPT !.pc = "scanned", !.scan = {}, !.id = i,
                                             !.taken = redis[i], !.how = "scan"])
    /\ UNCHANGED <<redis, signals, desc, lock, answers>>

Malformed(n) == signals[n] = "malformed"

\* DEL, then parse: whatever the key holds now goes; an unreadable value is an error.
ScanDel_ParseFirst(p) ==
    /\ proc[p].pc = "scanned"
    /\ IF Malformed(proc[p].taken) THEN Leave(p) /\ UNCHANGED redis
       ELSE Goto(p, [proc[p] EXCEPT !.pc = "lock"]) /\ redis' = [redis EXCEPT ![proc[p].id] = 0]
    /\ UNCHANGED <<signals, desc, lock, answers>>

ScanDel(p) ==
    /\ proc[p].pc = "scanned"
    /\ redis' = [redis EXCEPT ![proc[p].id] = 0]
    /\ IF Malformed(proc[p].taken) THEN Leave(p) ELSE Goto(p, [proc[p] EXCEPT !.pc = "lock"])
    /\ UNCHANGED <<signals, desc, lock, answers>>

\* The lock of the id: busy means exit, with what was taken.
Lock(p) ==
    /\ proc[p].pc = "lock"
    /\ IF lock[proc[p].id] # Nobody THEN Leave(p) /\ UNCHANGED lock
       ELSE Goto(p, [proc[p] EXCEPT !.pc = "check"]) /\ lock' = [lock EXCEPT ![proc[p].id] = p]
    /\ UNCHANGED <<redis, signals, desc, answers>>

Desc(p) == desc[proc[p].id]

\* Under the lock, the files are the process's own: the checkpoint, the gates and the
\* descriptor first.  One of them may send it away.
Refused(p) ==
    /\ proc[p].pc = "check"
    /\ Exit(p)
    /\ UNCHANGED <<redis, signals, desc, answers>>

Waiting(p) == proc[p].pc = "check" /\ Desc(p).pause # 0 /\ proc[p].id \notin BrowserIds

\* The pause is over: lock dropped, and run_single takes it again.
Answer(p) ==
    IF proc[p].how = "id" THEN {<<proc[p].taken, proc[p].id, Desc(p).pause>>} ELSE {}
GoOn(p) == [proc EXCEPT ![p] = [@ EXCEPT !.pc = "rerun", !.taken = 0, !.how = "", !.pause = Desc(p).pause]]
Unlock(p) == lock' = [lock EXCEPT ![proc[p].id] = Nobody]
Complete(p) ==
    /\ proc' = GoOn(p)
    /\ desc' = [desc EXCEPT ![proc[p].id] = Pause(0)]
    /\ Unlock(p)

\* An expired wait does not look for values: it is aborted, or skipped with empty ones; at
\* the prompt the operator chooses, or leaves it as it is.
Expired(p) ==
    /\ Waiting(p) /\ Desc(p).expired
    /\ \/ /\ Desc(p).onTimeout # "skip"
          /\ Exit(p) /\ desc' = [desc EXCEPT ![proc[p].id] = Pause(0)]
       \/ /\ Desc(p).onTimeout # "abort"
          /\ Complete(p) /\ wasted' = wasted \union Waste(p)
       \/ /\ Desc(p).onTimeout = "prompt"
          /\ Exit(p) /\ UNCHANGED desc
    /\ UNCHANGED <<redis, signals, answers>>

\* Values that came with the command leave Redis alone, and a signal of the scan unused.
OwnValues(p) ==
    /\ Waiting(p) /\ ~Desc(p).expired
    /\ Complete(p)
    /\ wasted' = wasted \union Waste(p)
    /\ UNCHANGED <<redis, signals, answers>>

\* GET under the lock, unless the scan has the signal.
Read(p) ==
    /\ Goto(p, IF proc[p].taken = 0 /\ redis[proc[p].id] # 0
               THEN [proc[p] EXCEPT !.pc = "read", !.taken = redis[proc[p].id], !.how = "id"]
               ELSE [proc[p] EXCEPT !.pc = "bind"])
    /\ UNCHANGED <<redis, signals, desc, lock, answers>>

ReadGet(p) == Waiting(p) /\ ~Desc(p).expired /\ Read(p)

ReadDel_Keeps(p) ==
    /\ proc[p].pc = "read"
    /\ Goto(p, [proc[p] EXCEPT !.pc = "bind"])
    /\ UNCHANGED <<redis, signals, desc, lock, answers>>

ReadDel(p) ==
    /\ proc[p].pc = "read"
    /\ redis' = [redis EXCEPT ![proc[p].id] = 0]
    /\ Goto(p, [proc[p] EXCEPT !.pc = "bind"])
    /\ UNCHANGED <<signals, desc, lock, answers>>

\* Every bind needs a value (a wait without any needs no signal, and is left out); an error
\* of the read is only a warning, so a malformed signal is no signal.  The values bound, the
\* wait is complete in the checkpoint and the descriptor is deleted.
Bind(p) ==
    /\ proc[p].pc = "bind"
    /\ IF Satisfies(proc[p].taken)
       THEN Complete(p) /\ answers' = answers \union Answer(p) /\ UNCHANGED wasted
       ELSE Exit(p) /\ UNCHANGED <<desc, answers>>
    /\ UNCHANGED <<redis, signals>>

\* A browser pause is resumed with a value of the command, or the signal of the scan, or
\* none; the descriptor stays until the slice is over.
Reenter(p) ==
    /\ proc[p].pc = "check" /\ Desc(p).pause # 0 /\ proc[p].id \in BrowserIds
    /\ \/ answers' = answers \union Answer(p) /\ UNCHANGED wasted
       \/ wasted' = wasted \union Waste(p) /\ UNCHANGED answers
    /\ proc' = GoOn(p)
    /\ Unlock(p)
    /\ UNCHANGED <<redis, signals, desc>>

\* run_single: the lock again, the rest of the workbook, and its end or the next pause.
Rerun(p) ==
    /\ proc[p].pc = "rerun"
    /\ Leave(p)
    /\ \/ lock[proc[p].id] # Nobody /\ UNCHANGED desc
       \/ /\ lock[proc[p].id] = Nobody
          /\ \/ desc' = [desc EXCEPT ![proc[p].id] = Pause(0)]
             \/ proc[p].pause < MaxPauses /\ desc' = [desc EXCEPT ![proc[p].id] = Pause(proc[p].pause + 1)]
    /\ UNCHANGED <<redis, signals, lock, answers>>

Kill(p) ==
    /\ proc[p].pc # "off"
    /\ Goto(p, Off)
    /\ lock' = [i \in Ids |-> IF lock[i] = p THEN Nobody ELSE lock[i]]
    /\ UNCHANGED <<redis, signals, desc, answers>>

Resume(p) ==
    \/ ScanGet(p) \/ ScanDel(p) \/ Lock(p) \/ Refused(p) \/ Expired(p) \/ OwnValues(p)
    \/ ReadGet(p) \/ ReadDel(p) \/ Bind(p) \/ Reenter(p) \/ Rerun(p)

\* External: a cron job goes on calling wb resume without an id.
SignalsFairness == WF_signalVars(BeginScan(Cron)) /\ WF_signalVars(Resume(Cron))

SignalsNext ==
    \/ Write
    \/ \E i \in Ids : Expire(i)
    \/ \E p \in Resumes : BeginScan(p) \/ Resume(p)
    \/ \E p \in Resumes \ {Cron} : BeginWithId(p) \/ Kill(p)

-----------------------------------------------------------------------------

SignalsTypeOK ==
    /\ redis \in [Ids -> 0..MaxSignals]
    /\ signals \in Seq(Kinds) /\ Len(signals) <= MaxSignals
    /\ \A i \in Ids : desc[i].pause \in 0..MaxPauses
    /\ lock \in [Ids -> Resumes \union {Nobody}]
    /\ \A p \in Resumes : proc[p].taken \in 0..Len(signals)

\* A signal answers one pause, unless a scan was in it: the lock separates the resumes
\* that read under it, however their GET and DEL fall, but not those that scan.
AnswersOnce ==
    \A a, b \in answers : a[1] = b[1] => a = b

\* A signal that was read under the lock answers its pause if it can: the gates, the
\* descriptor and the timeout have been looked at before it is taken.
WastesNoAnswer == wasted = {}

\* A signal written for an id that waits is taken as long as somebody goes on scanning: no
\* malformed one before it stays in the way.
SignalsAreTaken ==
    \A i \in Ids : redis[i] # 0 ~> redis[i] = 0 \/ desc[i].pause = 0
=============================================================================
