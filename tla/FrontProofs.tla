---------------------------- MODULE FrontProofs ----------------------------
(* Proofs about what surrounds the run of a workbook, for every number of  *)
(* processes, workbooks, files, edits and commands, and every bound: the   *)
(* gates it has to pass, its container, its blocks and their cache, its    *)
(* artifacts, and what the MCP server tells of it.                         *)
EXTENDS Front, Sequences, FiniteSetTheorems, TLAPS

-----------------------------------------------------------------------------
(* The gates.  What a run executes is compared with what the author's      *)
(* commands recorded; between the two lie the files those commands write   *)
(* (Recorded) and the gates a process has passed (Passed), and both only   *)
(* ever refer to what has been recorded, because records are never         *)
(* withdrawn and a process works on bytes it read once.                    *)

Stored == Contents \cup {Torn}
Entry == Stored \cup {Nothing}

Pcs == {"idle", "add", "truncate", "write", "private", "sign", "lock", "fetched",
        "trust", "sig", "locked", "allow", "parse"}

Process ==
    [pc : Pcs, path : Paths, sec : Security, buf : Stored, mine : [Paths -> Entry],
     steady : BOOLEAN, resumes : BOOLEAN, gates : Security]

\* The shape of the state that the arguments need.
Shaped ==
    /\ files \in [Paths -> Stored] /\ include \in Contents
    /\ \A p \in Paths \ {Fetched} : files[p] \in Contents
    /\ store \subseteq [Paths -> Entry]
    /\ sig \subseteq Keys \X Stored /\ key \in Keys \cup {Nothing}
    /\ ckpt \subseteq Security
    /\ proc \in [Procs -> Process]
    /\ seen \in [reviewed : SUBSET (Paths \X Stored), signed : SUBSET (Keys \X Stored),
                 locked : SUBSET (Stored \X Contents), ledger : [Paths -> Entry], raced : BOOLEAN]

\* The files of the author, and trust stores in memory, hold what was recorded.
Recorded ==
    /\ \A s \in store : \A p \in Paths : s[p] # Nothing => <<p, s[p]>> \in seen.reviewed
    /\ \A q \in Procs : \A p \in Paths :
         proc[q].mine[p] # Nothing => <<p, proc[q].mine[p]>> \in seen.reviewed
    /\ sig \subseteq seen.signed
    /\ lock \subseteq seen.locked

\* What a process knows once a gate is behind it.
PassedTrust(c) ==
    c.pc \in {"sig", "locked", "allow", "parse"} /\ c.sec.trust
      => <<c.path, c.buf>> \in seen.reviewed
PassedSig(c) ==
    c.pc \in {"locked", "allow", "parse"} /\ c.sec.sig /\ c.sec.pinned
      => <<Owner, c.buf>> \in seen.signed
PassedLock(c) ==
    c.pc \in {"allow", "parse"} /\ c.sec.locked /\ c.steady => <<c.buf, include>> \in seen.locked
PassedAllow(c) ==
    c.pc = "parse" /\ c.sec.allow /\ ~c.resumes /\ c.steady => Allowed(c.path, include)

\* The gates of a run that was fetched, and of one that is resumed.
InForce(c) ==
    /\ c.pc \in {"trust", "sig", "locked", "allow", "parse"} /\ c.path = Fetched => c.sec.trust
    /\ c.resumes => c.gates = c.sec
    /\ c.pc = "fetched" => c.path = Fetched /\ ~c.resumes

Passed ==
    \A q \in Procs : /\ PassedTrust(proc[q]) /\ PassedSig(proc[q]) /\ PassedLock(proc[q])
                     /\ PassedAllow(proc[q]) /\ InForce(proc[q])

GInv == Shaped /\ Recorded /\ Passed /\ RunsWhatWasGated /\ ResumeKeepsGates

\* Without overlaps there is one trust command at a time.  Until it writes, the store
\* is the ledger; it differs from the ledger in memory in its own path only.
Alone ==
    /\ \A q, r \in Procs : proc[q].pc \in TrustPcs /\ proc[r].pc \in TrustPcs => q = r
    /\ \A q \in Procs :
         /\ proc[q].pc = "add" => proc[q].mine = seen.ledger
         /\ proc[q].pc \in {"truncate", "write"} =>
              \A p \in Paths \ {proc[q].path} : proc[q].mine[p] = seen.ledger[p]
         /\ proc[q].pc = "write" => store = {}

LInv == (~seen.raced => Alone) /\ StoreIsLedger

-----------------------------------------------------------------------------
\* Records are never withdrawn.
Grows ==
    /\ seen.reviewed \subseteq seen'.reviewed
    /\ seen.signed \subseteq seen'.signed
    /\ seen.locked \subseteq seen'.locked

\* What is judged of a process depends on the process, the include and the records.
Judged(c) == PassedTrust(c) /\ PassedSig(c) /\ PassedLock(c) /\ PassedAllow(c) /\ InForce(c)

\* Loading the trust store gives a store whose entries were recorded.
LEMMA LoadedIsRecorded ==
    ASSUME Shaped, Recorded
    PROVE  /\ Loaded \in [Paths -> Entry]
           /\ \A p \in Paths : Loaded[p] # Nothing => <<p, Loaded[p]>> \in seen.reviewed
<1>1. CASE store = {}
  BY <1>1 DEF Loaded, Empty, Entry
<1>2. CASE store # {}
  <2>1. Loaded \in store
    BY <1>2 DEF Loaded
  <2> QED
    BY <2>1 DEF Shaped, Recorded
<1> QED
  BY <1>1, <1>2

\* An execution that was judged stays judged, and a command that begins forgets it.
LEMMA ExecutedStays ==
    ASSUME RunsWhatWasGated, ResumeKeepsGates, Grows, ran' = ran \/ ran' = {}
    PROVE  RunsWhatWasGated' /\ ResumeKeepsGates'
BY DEF RunsWhatWasGated, RunsWhatWasReviewed, RunsWhatWasSigned, RunsWhatWasChecked,
       ResumeKeepsGates, Grows, Allowed

\* A step of one process that edits no include leaves what the others have passed.
LEMMA OthersPassed ==
    ASSUME NEW q \in Procs, Passed, Grows, include' = include,
           \A r \in Procs \ {q} : proc'[r] = proc[r], Judged(proc[q])'
    PROVE  Passed'
<1> SUFFICES ASSUME NEW r \in Procs
             PROVE  Judged(proc[r])'
  BY DEF Passed, Judged
<1>1. CASE r = q
  BY <1>1
<1>2. CASE r # q
  <2>1. proc'[r] = proc[r] /\ Judged(proc[r])
    BY <1>2 DEF Passed, Judged
  <2> QED
    BY <2>1 DEF Judged, PassedTrust, PassedSig, PassedLock, PassedAllow, InForce, Grows, Allowed
<1> QED
  BY <1>1, <1>2

\* The records that commands start from.
LEMMA Types ==
    /\ Ungated \in Security /\ Empty \in [Paths -> Entry] /\ Idle \in Process
    /\ \A sec \in Security : [sec EXCEPT !.allow = FALSE] \in Security
    /\ \A t \in BOOLEAN : [Ungated EXCEPT !.trust = t] \in Security
    /\ Contents \subseteq Stored /\ 0 \in Contents /\ Nothing \notin Stored /\ Owner \in Keys
<1>1. Ungated \in Security /\ \A t \in BOOLEAN : [Ungated EXCEPT !.trust = t] \in Security
  BY DEF Ungated, Security
<1>2. \A sec \in Security : [sec EXCEPT !.allow = FALSE] \in Security
  BY DEF Security
<1>3. Contents \subseteq Stored /\ 0 \in Contents /\ Nothing \notin Stored /\ Owner \in Keys
  BY GatesAssumption DEF Stored, Contents, Torn, Nothing, Owner, Keys
<1>4. Empty \in [Paths -> Entry]
  BY DEF Empty, Entry
<1>5. Root \in Paths /\ 0 \in Stored
  BY <1>3, GatesAssumption
<1>6. Idle \in Process
  BY <1>1, <1>4, <1>5 DEF Idle, Process, Pcs
<1> QED
  BY <1>1, <1>2, <1>3, <1>4, <1>6

\* What End and Goto make of a process.
LEMMA Ends ==
    ASSUME NEW q \in Procs, Shaped, proc' = [proc EXCEPT ![q] = Idle]
    PROVE  /\ proc' \in [Procs -> Process] /\ proc'[q] = Idle
           /\ \A r \in Procs \ {q} : proc'[r] = proc[r]
BY Types DEF Shaped

LEMMA Advances ==
    ASSUME NEW q \in Procs, NEW pc \in Pcs, Shaped, proc' = [proc EXCEPT ![q].pc = pc]
    PROVE  /\ proc' \in [Procs -> Process] /\ proc'[q] = [proc[q] EXCEPT !.pc = pc]
           /\ \A r \in Procs \ {q} : proc'[r] = proc[r]
<1>1. proc[q] \in Process /\ proc'[q] = [proc[q] EXCEPT !.pc = pc]
  BY DEF Shaped
<1>2. proc'[q] \in Process
  BY <1>1 DEF Process
<1>3. \A r \in Procs \ {q} : proc'[r] = proc[r]
  BY DEF Shaped
<1> QED
  BY <1>1, <1>2, <1>3 DEF Shaped

\* A process that ends, and one that goes on to a label where it is judged well, while
\* nothing else changes.
LEMMA EndKeeps ==
    ASSUME GInv, NEW q \in Procs, End(q), UNCHANGED <<Disk, ran, seen>>
    PROVE  GInv'
<1> USE DEF GInv, End, Disk
<1>1. Shaped' /\ proc'[q] = Idle /\ \A r \in Procs \ {q} : proc'[r] = proc[r]
  BY Ends DEF Shaped
<1>2. Grows
  BY DEF Grows
<1>3. Recorded'
  <2>1. \A p \in Paths : proc'[q].mine[p] = Nothing
    BY <1>1 DEF Idle, Empty
  <2> QED
    BY <1>1, <2>1 DEF Recorded
<1>4. Judged(proc[q])'
  BY <1>1 DEF Judged, PassedTrust, PassedSig, PassedLock, PassedAllow, InForce, Idle
<1> QED
  BY <1>1, <1>2, <1>3, <1>4, OthersPassed, ExecutedStays

LEMMA GotoKeeps ==
    ASSUME GInv, NEW q \in Procs, NEW pc \in Pcs, Goto(q, pc), UNCHANGED <<Disk, ran, seen>>,
           Judged([proc[q] EXCEPT !.pc = pc])
    PROVE  GInv'
<1> USE DEF GInv, Goto, Disk
<1>1. /\ Shaped' /\ proc[q] \in Process /\ proc'[q] = [proc[q] EXCEPT !.pc = pc]
      /\ \A r \in Procs \ {q} : proc'[r] = proc[r]
  BY Advances DEF Shaped
<1>2. Grows
  BY DEF Grows
<1>3. Recorded'
  <2>1. proc'[q].mine = proc[q].mine
    BY <1>1 DEF Process
  <2> QED
    BY <1>1, <2>1 DEF Recorded
<1>4. Judged(proc[q])'
  BY <1>1 DEF Judged, PassedTrust, PassedSig, PassedLock, PassedAllow, InForce, Allowed
<1> QED
  BY <1>1, <1>2, <1>3, <1>4, OthersPassed, ExecutedStays

\* The actions, one by one.
LEMMA TrustAddKeeps ==
    ASSUME GInv, NEW q \in Procs, NEW p \in Paths, TrustAdd(q, p)
    PROVE  GInv'
<1> USE Types DEF GInv, TrustAdd, Begin, Disk, Overlap
<1>1. proc' \in [Procs -> Process]
  BY GatesAssumption, LoadedIsRecorded DEF Shaped, Process, Pcs
<1>2. Shaped'
  BY <1>1 DEF Shaped
<1>3. Grows
  BY DEF Grows, Shaped
<1>4. Recorded'
  BY <1>3, LoadedIsRecorded DEF Recorded, Shaped, Process, Idle, Empty, Entry, Grows
<1>5. Judged(proc[q])'
  BY <1>3 DEF Shaped, Process, Idle, Passed, Judged, PassedTrust, PassedSig, PassedLock,
              PassedAllow, InForce, Grows, Recorded
<1>6. Passed'
  BY <1>3, <1>5, OthersPassed DEF Shaped
<1>7. RunsWhatWasGated' /\ ResumeKeepsGates'
  BY <1>3, ExecutedStays
<1> QED
  BY <1>4, <1>6, <1>7, <1>2

LEMMA TrustRemoveKeeps ==
    ASSUME GInv, NEW q \in Procs, NEW p \in Paths, TrustRemove(q, p)
    PROVE  GInv'
<1> USE Types DEF GInv, TrustRemove, Begin, Disk, Overlap
<1>1. proc' \in [Procs -> Process]
  <2> DEFINE kept == [Loaded EXCEPT ![p] = Nothing]
  <2>1. kept \in [Paths -> Entry]
    BY LoadedIsRecorded DEF Entry
  <2> HIDE DEF kept
  <2>2. [Idle EXCEPT !.pc = "truncate", !.path = p, !.mine = kept] \in Process
    BY <2>1 DEF Process, Pcs
  <2> QED
    BY <2>2 DEF Shaped, kept
<1>2. Shaped'
  BY <1>1 DEF Shaped
<1>3. Grows
  BY DEF Grows, Shaped
<1>4. Recorded'
  BY <1>3, LoadedIsRecorded DEF Recorded, Shaped, Process, Idle, Empty, Entry, Grows
<1>5. Judged(proc[q])'
  BY <1>3 DEF Shaped, Process, Idle, Passed, Judged, PassedTrust, PassedSig, PassedLock,
              PassedAllow, InForce, Grows
<1>6. Passed'
  BY <1>3, <1>5, OthersPassed DEF Shaped
<1>7. RunsWhatWasGated' /\ ResumeKeepsGates'
  BY <1>3, ExecutedStays
<1> QED
  BY <1>4, <1>6, <1>7, <1>2

LEMMA TrustFileKeeps ==
    ASSUME GInv, NEW q \in Procs, TrustFile(q)
    PROVE  GInv'
<1> USE Types DEF GInv, TrustFile, Disk
<1>0. proc[q] \in Process /\ proc[q].path \in Paths /\ files[proc[q].path] \in Stored
  BY DEF Shaped, Process
<1>1. proc' \in [Procs -> Process]
  <2>1. WithFile(q) \in [Paths -> Entry]
    BY <1>0 DEF WithFile, Process, Entry
  <2>2. [proc[q] EXCEPT !.pc = "truncate", !.mine = WithFile(q)] \in Process
    BY <1>0, <2>1 DEF Process, Pcs
  <2> QED
    BY <2>2 DEF Shaped
<1>2. Shaped'
  <2>1. seen.reviewed \cup {<<proc[q].path, files[proc[q].path]>>} \in SUBSET (Paths \X Stored)
    BY <1>0 DEF Shaped
  <2> QED
    BY <1>1, <2>1 DEF Shaped
<1>3. Grows
  BY DEF Grows, Shaped
<1>4. Recorded'
  BY <1>0, <1>3 DEF Recorded, Shaped, Process, WithFile, Grows
<1>5. Judged(proc[q])'
  BY <1>3 DEF Shaped, Process, Idle, Passed, Judged, PassedTrust, PassedSig, PassedLock,
              PassedAllow, InForce, Grows
<1>6. Passed'
  BY <1>3, <1>5, OthersPassed DEF Shaped
<1>7. RunsWhatWasGated' /\ ResumeKeepsGates'
  BY <1>3, ExecutedStays
<1> QED
  BY <1>4, <1>6, <1>7, <1>2

LEMMA TrustTruncateKeeps ==
    ASSUME GInv, NEW q \in Procs, TrustTruncate(q)
    PROVE  GInv'
<1> USE Types DEF GInv, TrustTruncate, Goto
<1>1. proc' \in [Procs -> Process]
  BY Advances DEF Pcs
<1>2. Shaped'
  BY <1>1 DEF Shaped
<1>3. Grows
  BY DEF Grows, Shaped
<1>4. Recorded'
  BY <1>3 DEF Recorded, Shaped, Process, Idle, Empty, Entry, Grows
<1>5. Judged(proc[q])'
  BY <1>3 DEF Shaped, Process, Idle, Passed, Judged, PassedTrust, PassedSig, PassedLock,
              PassedAllow, InForce, Grows
<1>6. Passed'
  BY <1>3, <1>5, OthersPassed DEF Shaped
<1>7. RunsWhatWasGated' /\ ResumeKeepsGates'
  BY <1>3, ExecutedStays
<1> QED
  BY <1>4, <1>6, <1>7, <1>2

LEMMA TrustWriteKeeps ==
    ASSUME GInv, NEW q \in Procs, TrustWrite(q)
    PROVE  GInv'
<1> USE Types DEF GInv, TrustWrite, End
<1>1. proc' \in [Procs -> Process]
  BY Ends
<1>2. Shaped'
  <2>1. proc[q].mine \in [Paths -> Entry] /\ proc[q].path \in Paths
    BY DEF Shaped, Process
  <2>2. [seen.ledger EXCEPT ![proc[q].path] = proc[q].mine[proc[q].path]] \in [Paths -> Entry]
    BY <2>1 DEF Shaped
  <2> QED
    BY <1>1, <2>1, <2>2 DEF Shaped
<1>3. Grows
  BY DEF Grows, Shaped
<1>4. Recorded'
  BY <1>3 DEF Recorded, Shaped, Process, Idle, Empty, Entry, Grows
<1>5. Judged(proc[q])'
  BY <1>3 DEF Shaped, Process, Idle, Passed, Judged, PassedTrust, PassedSig, PassedLock,
              PassedAllow, InForce, Grows
<1>6. Passed'
  BY <1>3, <1>5, OthersPassed DEF Shaped
<1>7. RunsWhatWasGated' /\ ResumeKeepsGates'
  BY <1>3, ExecutedStays
<1> QED
  BY <1>4, <1>6, <1>7, <1>2

LEMMA KeygenKeeps ==
    ASSUME GInv, NEW q \in Procs, Keygen(q)
    PROVE  GInv'
<1> USE Types DEF GInv, Keygen, Begin
<1>1. proc' \in [Procs -> Process]
  BY DEF Shaped, Process, Pcs
<1>2. Shaped'
  BY <1>1 DEF Shaped
<1>3. Grows
  BY DEF Grows, Shaped
<1>4. Recorded'
  BY <1>3 DEF Recorded, Shaped, Process, Idle, Empty, Entry, Grows
<1>5. Judged(proc[q])'
  BY <1>3 DEF Shaped, Process, Idle, Passed, Judged, PassedTrust, PassedSig, PassedLock,
              PassedAllow, InForce, Grows, Recorded
<1>6. Passed'
  BY <1>3, <1>5, OthersPassed DEF Shaped
<1>7. RunsWhatWasGated' /\ ResumeKeepsGates'
  BY <1>3, ExecutedStays
<1> QED
  BY <1>4, <1>6, <1>7, <1>2

LEMMA KeygenCreateKeeps ==
    ASSUME GInv, NEW q \in Procs, KeygenCreate(q)
    PROVE  GInv'
<1> USE Types DEF GInv, KeygenCreate, End
<1>1. proc' \in [Procs -> Process]
  BY DEF Shaped, Process, Pcs
<1>2. Shaped'
  BY <1>1 DEF Shaped
<1>3. Grows
  BY DEF Grows, Shaped
<1>4. Recorded'
  BY <1>3 DEF Recorded, Shaped, Process, Idle, Empty, Entry, Grows
<1>5. Judged(proc[q])'
  BY <1>3 DEF Shaped, Process, Idle, Passed, Judged, PassedTrust, PassedSig, PassedLock,
              PassedAllow, InForce, Grows, Recorded
<1>6. Passed'
  BY <1>3, <1>5, OthersPassed DEF Shaped
<1>7. RunsWhatWasGated' /\ ResumeKeepsGates'
  BY <1>3, ExecutedStays
<1> QED
  BY <1>4, <1>6, <1>7, <1>2

LEMMA SignKeeps ==
    ASSUME GInv, NEW q \in Procs, Sign(q)
    PROVE  GInv'
<1> USE Types DEF GInv, Sign, Begin, Disk
<1>1. proc' \in [Procs -> Process]
  BY GatesAssumption DEF Shaped, Process, Pcs
<1>2. Shaped'
  BY <1>1 DEF Shaped
<1>3. Grows
  BY DEF Grows, Shaped
<1>4. Recorded'
  BY <1>3 DEF Recorded, Shaped, Process, Idle, Empty, Entry, Grows
<1>5. Judged(proc[q])'
  BY <1>3 DEF Shaped, Process, Idle, Passed, Judged, PassedTrust, PassedSig, PassedLock,
              PassedAllow, InForce, Grows, Recorded
<1>6. Passed'
  BY <1>3, <1>5, OthersPassed DEF Shaped
<1>7. RunsWhatWasGated' /\ ResumeKeepsGates'
  BY <1>3, ExecutedStays
<1> QED
  BY <1>4, <1>6, <1>7, <1>2

LEMMA SignWriteKeeps ==
    ASSUME GInv, NEW q \in Procs, SignWrite(q)
    PROVE  GInv'
<1> USE Types DEF GInv, SignWrite, End
<1>1. proc' \in [Procs -> Process]
  BY Ends
<1>2. Shaped'
  <2>1. proc[q].buf \in Stored
    BY DEF Shaped, Process
  <2>2. CASE key = Nothing
    BY <1>1, <2>2 DEF Shaped
  <2>3. CASE key # Nothing
    <3>1. sig' \subseteq Keys \X Stored
      BY <2>1, <2>3 DEF Shaped
    <3>2. seen.signed \cup sig' \in SUBSET (Keys \X Stored)
      BY <3>1 DEF Shaped
    <3> QED
      BY <1>1, <2>3, <3>1, <3>2 DEF Shaped
  <2> QED
    BY <2>2, <2>3
<1>3. Grows
  BY DEF Grows, Shaped
<1>4. Recorded'
  BY <1>3 DEF Recorded, Shaped, Process, Idle, Empty, Entry, Grows
<1>5. Judged(proc[q])'
  BY <1>3 DEF Shaped, Process, Idle, Passed, Judged, PassedTrust, PassedSig, PassedLock,
              PassedAllow, InForce, Grows
<1>6. Passed'
  BY <1>3, <1>5, OthersPassed DEF Shaped
<1>7. RunsWhatWasGated' /\ ResumeKeepsGates'
  BY <1>3, ExecutedStays
<1> QED
  BY <1>4, <1>6, <1>7, <1>2

LEMMA LockKeeps ==
    ASSUME GInv, NEW q \in Procs, Lock(q)
    PROVE  GInv'
<1> USE Types DEF GInv, Lock, Begin, Disk
<1>1. proc' \in [Procs -> Process]
  BY GatesAssumption DEF Shaped, Process, Pcs
<1>2. Shaped'
  BY <1>1 DEF Shaped
<1>3. Grows
  BY DEF Grows, Shaped
<1>4. Recorded'
  BY <1>3 DEF Recorded, Shaped, Process, Idle, Empty, Entry, Grows
<1>5. Judged(proc[q])'
  BY <1>3 DEF Shaped, Process, Idle, Passed, Judged, PassedTrust, PassedSig, PassedLock,
              PassedAllow, InForce, Grows, Recorded
<1>6. Passed'
  BY <1>3, <1>5, OthersPassed DEF Shaped
<1>7. RunsWhatWasGated' /\ ResumeKeepsGates'
  BY <1>3, ExecutedStays
<1> QED
  BY <1>4, <1>6, <1>7, <1>2

LEMMA LockWriteKeeps ==
    ASSUME GInv, NEW q \in Procs, LockWrite(q)
    PROVE  GInv'
<1> USE Types DEF GInv, LockWrite, End
<1>1. proc' \in [Procs -> Process]
  BY Ends
<1>2. Shaped'
  <2>1. proc[q].buf \in Stored
    BY DEF Shaped, Process
  <2>2. seen.locked \cup lock' \in SUBSET (Stored \X Contents)
    BY <2>1 DEF Shaped
  <2> QED
    BY <1>1, <2>2 DEF Shaped
<1>3. Grows
  BY DEF Grows, Shaped
<1>4. Recorded'
  BY <1>3 DEF Recorded, Shaped, Process, Idle, Empty, Entry, Grows
<1>5. Judged(proc[q])'
  BY <1>3 DEF Shaped, Process, Idle, Passed, Judged, PassedTrust, PassedSig, PassedLock,
              PassedAllow, InForce, Grows
<1>6. Passed'
  BY <1>3, <1>5, OthersPassed DEF Shaped
<1>7. RunsWhatWasGated' /\ ResumeKeepsGates'
  BY <1>3, ExecutedStays
<1> QED
  BY <1>4, <1>6, <1>7, <1>2

LEMMA RunKeeps ==
    ASSUME GInv, NEW q \in Procs, NEW p \in Paths, NEW sec \in Flags, Run(q, p, sec)
    PROVE  GInv'
<1> USE Types DEF GInv, Run, Begin, Disk
<1>1. proc' \in [Procs -> Process]
  <2> DEFINE force == IF p = Root THEN sec ELSE [Ungated EXCEPT !.trust = sec.trust]
  <2>1. force \in Security
    <3>1. sec \in Security /\ sec.trust \in BOOLEAN
      BY GatesAssumption DEF Security
    <3> QED
      BY <3>1
  <2> HIDE DEF force
  <2>2. files[p] \in Stored
    BY DEF Shaped
  <2>3. [Idle EXCEPT !.pc = "trust", !.path = p, !.buf = files[p], !.sec = force] \in Process
    BY <2>1, <2>2 DEF Process, Pcs
  <2> QED
    BY <2>3 DEF Shaped, force
<1>2. Shaped'
  BY <1>1 DEF Shaped
<1>3. Grows
  BY DEF Grows, Shaped
<1>4. Recorded'
  BY <1>3 DEF Recorded, Shaped, Process, Idle, Empty, Entry, Grows
<1>5. Judged(proc[q])'
  BY <1>3 DEF Shaped, Process, Idle, Passed, Judged, PassedTrust, PassedSig, PassedLock,
              PassedAllow, InForce, Grows
<1>6. Passed'
  BY <1>3, <1>5, OthersPassed DEF Shaped
<1>7. RunsWhatWasGated' /\ ResumeKeepsGates'
  BY <1>3, ExecutedStays
<1> QED
  BY <1>4, <1>6, <1>7, <1>2

LEMMA FetchKeeps ==
    ASSUME GInv, NEW q \in Procs, Fetch(q)
    PROVE  GInv'
<1> USE Types DEF GInv, Fetch, Begin
<1>1. proc' \in [Procs -> Process]
  BY DEF Shaped, Process, Pcs
<1>2. Shaped'
  <2>1. files' \in [Paths -> Stored]
    <3>1. PICK content \in Contents \cup {Torn} : files' = [files EXCEPT ![Fetched] = content]
      OBVIOUS
    <3> QED
      BY <3>1 DEF Shaped, Stored
  <2> QED
    BY <1>1, <2>1 DEF Shaped
<1>3. Grows
  BY DEF Grows, Shaped
<1>4. Recorded'
  BY <1>3 DEF Recorded, Shaped, Process, Idle, Empty, Entry, Grows
<1>5. Judged(proc[q])'
  BY <1>3 DEF Shaped, Process, Idle, Passed, Judged, PassedTrust, PassedSig, PassedLock,
              PassedAllow, InForce, Grows
<1>6. Passed'
  BY <1>3, <1>5, OthersPassed DEF Shaped
<1>7. RunsWhatWasGated' /\ ResumeKeepsGates'
  BY <1>3, ExecutedStays
<1> QED
  BY <1>4, <1>6, <1>7, <1>2

LEMMA RemoteKeeps ==
    ASSUME GInv, NEW q \in Procs, Remote(q)
    PROVE  GInv'
<1> USE Types DEF GInv, Remote, Disk
<1>0. PICK force \in Security :
         /\ proc' = [proc EXCEPT ![q] = [proc[q] EXCEPT !.pc = "trust", !.buf = files[Fetched], !.sec = force]]
         /\ force.trust
  <2>1. [Ungated EXCEPT !.trust = TRUE] \in Security /\ [Ungated EXCEPT !.trust = TRUE].trust
    BY DEF Ungated, Security
  <2>2. proc' = [proc EXCEPT ![q] = [proc[q] EXCEPT !.pc = "trust", !.buf = files[Fetched],
                                                    !.sec = [Ungated EXCEPT !.trust = TRUE]]]
    BY DEF Shaped
  <2> QED
    BY <2>1, <2>2
<1>a. /\ proc[q] \in Process /\ proc[q].path = Fetched /\ ~proc[q].resumes
      /\ files[Fetched] \in Stored
  <2>1. proc[q] \in Process /\ proc[q].path = Fetched /\ ~proc[q].resumes
    BY DEF Shaped, Passed, InForce
  <2> QED
    BY <2>1 DEF Shaped, Process
<1>b. /\ proc'[q] = [proc[q] EXCEPT !.pc = "trust", !.buf = files[Fetched], !.sec = force]
      /\ proc'[q] \in Process /\ \A r \in Procs \ {q} : proc'[r] = proc[r]
  <2>1. [proc[q] EXCEPT !.pc = "trust", !.buf = files[Fetched], !.sec = force] \in Process
    BY <1>a DEF Process, Pcs
  <2> QED
    BY <1>0, <2>1 DEF Shaped
<1>c. /\ proc'[q].pc = "trust" /\ proc'[q].sec.trust /\ ~proc'[q].resumes
      /\ proc'[q].mine = proc[q].mine
  <2> HIDE Types DEF GInv, Remote, Disk, Begin, Goto, End, Passes, Overlap
  <2>1. proc'[q].pc = "trust" /\ proc'[q].sec = force
    BY <1>a, <1>b DEF Process
  <2>2. proc'[q].resumes = proc[q].resumes
    BY <1>a, <1>b DEF Process
  <2>3. proc'[q].mine = proc[q].mine
    BY <1>a, <1>b DEF Process
  <2> QED
    BY <1>0, <1>a, <2>1, <2>2, <2>3
<1>1. proc' \in [Procs -> Process]
  BY <1>0, <1>b DEF Shaped
<1>2. Shaped'
  BY <1>1 DEF Shaped
<1>3. Grows
  BY DEF Grows, Shaped
<1>4. Recorded'
  <2>1. \A r \in Procs : proc'[r].mine = proc[r].mine
    BY <1>b, <1>c
  <2>2. store' = store /\ sig' = sig /\ lock' = lock /\ seen' = seen
    OBVIOUS
  <2> QED
    BY <2>1, <2>2 DEF Recorded
<1>5. Judged(proc[q])'
  BY <1>c DEF Judged, PassedTrust, PassedSig, PassedLock, PassedAllow, InForce
<1>6. Passed'
  BY <1>3, <1>5, OthersPassed DEF Shaped
<1>7. RunsWhatWasGated' /\ ResumeKeepsGates'
  BY <1>3, ExecutedStays
<1> QED
  BY <1>4, <1>6, <1>7, <1>2

LEMMA ResumeKeeps ==
    ASSUME GInv, NEW q \in Procs, Resume(q)
    PROVE  GInv'
<1> USE Types DEF GInv, Resume, Begin, Disk
<1>0. PICK gates \in ckpt : proc' = [proc EXCEPT ![q] =
          [Idle EXCEPT !.pc = "trust", !.buf = files[Root], !.sec = gates, !.resumes = TRUE, !.gates = gates]]
  OBVIOUS
<1>a. gates \in Security /\ files[Root] \in Stored
  BY GatesAssumption DEF Shaped
<1>b. /\ proc'[q] = [Idle EXCEPT !.pc = "trust", !.buf = files[Root], !.sec = gates,
                                 !.resumes = TRUE, !.gates = gates]
      /\ proc'[q] \in Process /\ \A r \in Procs \ {q} : proc'[r] = proc[r]
  <2>1. [Idle EXCEPT !.pc = "trust", !.buf = files[Root], !.sec = gates,
                     !.resumes = TRUE, !.gates = gates] \in Process
    BY <1>a DEF Process, Pcs
  <2> QED
    BY <1>0, <2>1 DEF Shaped
<1>c. /\ proc'[q].pc = "trust" /\ proc'[q].path = Root /\ proc'[q].gates = proc'[q].sec
      /\ proc'[q].mine = Empty
  BY <1>b DEF Idle
<1>1. proc' \in [Procs -> Process]
  BY <1>0, <1>b DEF Shaped
<1>2. Shaped'
  BY <1>1 DEF Shaped
<1>3. Grows
  BY DEF Grows, Shaped
<1>4. Recorded'
  BY <1>3, <1>b, <1>c DEF Recorded, Grows, Empty
<1>5. Judged(proc[q])'
  BY <1>c, GatesAssumption DEF Judged, PassedTrust, PassedSig, PassedLock, PassedAllow, InForce
<1>6. Passed'
  BY <1>3, <1>5, OthersPassed DEF Shaped
<1>7. RunsWhatWasGated' /\ ResumeKeepsGates'
  BY <1>3, ExecutedStays
<1> QED
  BY <1>4, <1>6, <1>7, <1>2

LEMMA TrustGateKeeps ==
    ASSUME GInv, NEW q \in Procs, TrustGate(q)
    PROVE  GInv'
<1> USE DEF TrustGate, Passes
<1>1. CASE End(q)
  BY <1>1, EndKeeps DEF Disk
<1>2. CASE Goto(q, "sig") /\ ~End(q)
  <2>1. proc[q] \in Process /\ Judged(proc[q])
    BY DEF GInv, Shaped, Passed, Judged
  <2>2. proc[q].sec.trust => <<proc[q].path, proc[q].buf>> \in seen.reviewed
    <3>1. proc[q].sec.trust => Trusted(proc[q].path, proc[q].buf)
      BY <1>2
    <3>2. proc[q].path \in Paths /\ proc[q].buf # Nothing
      BY <2>1, Types DEF Process
    <3> QED
      BY <3>1, <3>2, LoadedIsRecorded DEF Trusted, GInv
  <2>3. Judged([proc[q] EXCEPT !.pc = "sig"])
    BY <2>1, <2>2 DEF Judged, PassedTrust, PassedSig, PassedLock, PassedAllow, InForce, Process
  <2>4. Goto(q, "sig") /\ "sig" \in Pcs
    BY <1>2 DEF Pcs
  <2> QED
    BY <2>3, <2>4, GotoKeeps DEF Disk
<1> QED
  BY <1>1, <1>2

LEMMA SigGateKeeps ==
    ASSUME GInv, NEW q \in Procs, SigGate(q)
    PROVE  GInv'
<1> USE DEF SigGate, Passes
<1>1. CASE End(q)
  BY <1>1, EndKeeps DEF Disk
<1>2. CASE Goto(q, "locked") /\ ~End(q)
  <2>1. proc[q] \in Process /\ Judged(proc[q])
    BY DEF GInv, Shaped, Passed, Judged
  <2>2. proc[q].sec.sig /\ proc[q].sec.pinned => <<Owner, proc[q].buf>> \in seen.signed
    <3>1. proc[q].sec.sig => Verifies(proc[q].sec, proc[q].buf)
      BY <1>2
    <3>2. \A s \in sig : s = <<s[1], s[2]>> /\ s \in seen.signed
      BY DEF GInv, Shaped, Recorded
    <3> QED
      BY <3>1, <3>2 DEF Verifies
  <2>3. Judged([proc[q] EXCEPT !.pc = "locked"])
    BY <2>1, <2>2 DEF Judged, PassedTrust, PassedSig, PassedLock, PassedAllow, InForce, Process
  <2>4. Goto(q, "locked") /\ "locked" \in Pcs
    BY <1>2 DEF Pcs
  <2> QED
    BY <2>3, <2>4, GotoKeeps DEF Disk
<1> QED
  BY <1>1, <1>2

LEMMA LockGateKeeps ==
    ASSUME GInv, NEW q \in Procs, LockGate(q)
    PROVE  GInv'
<1> USE DEF LockGate, Passes
<1>1. CASE End(q)
  BY <1>1, EndKeeps DEF Disk
<1>2. CASE Goto(q, "allow") /\ ~End(q)
  <2>1. proc[q] \in Process /\ Judged(proc[q])
    BY DEF GInv, Shaped, Passed, Judged
  <2>2. proc[q].sec.locked => <<proc[q].buf, include>> \in seen.locked
    BY <1>2 DEF GInv, Recorded
  <2>3. Judged([proc[q] EXCEPT !.pc = "allow"])
    BY <2>1, <2>2 DEF Judged, PassedTrust, PassedSig, PassedLock, PassedAllow, InForce, Process
  <2>4. Goto(q, "allow") /\ "allow" \in Pcs
    BY <1>2 DEF Pcs
  <2> QED
    BY <2>3, <2>4, GotoKeeps DEF Disk
<1> QED
  BY <1>1, <1>2

LEMMA AllowGateKeeps ==
    ASSUME GInv, NEW q \in Procs, AllowGate(q)
    PROVE  GInv'
<1> USE DEF AllowGate, Passes
<1>1. CASE End(q)
  BY <1>1, EndKeeps DEF Disk
<1>2. CASE Goto(q, "parse") /\ ~End(q)
  <2>1. proc[q] \in Process /\ Judged(proc[q])
    BY DEF GInv, Shaped, Passed, Judged
  <2>2. proc[q].sec.allow /\ ~proc[q].resumes => Allowed(proc[q].path, include)
    BY <1>2
  <2>3. Judged([proc[q] EXCEPT !.pc = "parse"])
    BY <2>1, <2>2 DEF Judged, PassedTrust, PassedSig, PassedLock, PassedAllow, InForce, Process
  <2>4. Goto(q, "parse") /\ "parse" \in Pcs
    BY <1>2 DEF Pcs
  <2> QED
    BY <2>3, <2>4, GotoKeeps DEF Disk
<1> QED
  BY <1>1, <1>2

LEMMA KillKeeps ==
    ASSUME GInv, NEW q \in Procs, Kill(q)
    PROVE  GInv'
<1> USE Types DEF GInv, Kill, End, Disk
<1>1. proc' \in [Procs -> Process]
  BY DEF Shaped, Process, Pcs
<1>2. Shaped'
  BY <1>1 DEF Shaped
<1>3. Grows
  BY DEF Grows, Shaped
<1>4. Recorded'
  BY <1>3 DEF Recorded, Shaped, Process, Idle, Empty, Entry, Grows
<1>5. Judged(proc[q])'
  BY <1>3 DEF Shaped, Process, Idle, Passed, Judged, PassedTrust, PassedSig, PassedLock,
              PassedAllow, InForce, Grows, Recorded
<1>6. Passed'
  BY <1>3, <1>5, OthersPassed DEF Shaped
<1>7. RunsWhatWasGated' /\ ResumeKeepsGates'
  BY <1>3, ExecutedStays
<1> QED
  BY <1>4, <1>6, <1>7, <1>2

\* What is executed is what the gates were passed with, and the include is the one they
\* looked at unless it was edited since.
LEMMA ExecuteKeeps ==
    ASSUME GInv, NEW q \in Procs, Execute(q)
    PROVE  GInv'
<1> USE DEF GInv, Execute, End
<1>1. /\ proc' \in [Procs -> Process] /\ proc'[q] = Idle
      /\ \A r \in Procs \ {q} : proc'[r] = proc[r]
  BY Ends
<1>2. ckpt' \subseteq Security
  <2>1. [proc[q].sec EXCEPT !.allow = FALSE] \in Security
    BY Types DEF Shaped, Process
  <2> QED
    BY <2>1 DEF Shaped
<1>3. Shaped'
  BY <1>1, <1>2 DEF Shaped
<1>4. Grows
  BY DEF Grows
<1>5. Recorded'
  <2>1. \A p \in Paths : proc'[q].mine[p] = Nothing
    BY <1>1 DEF Idle, Empty
  <2> QED
    BY <1>1, <2>1 DEF Recorded
<1>6. Judged(proc[q])'
  BY <1>1 DEF Judged, PassedTrust, PassedSig, PassedLock, PassedAllow, InForce, Idle
<1>7. Passed'
  BY <1>1, <1>4, <1>6, OthersPassed
<1>8. RunsWhatWasGated' /\ ResumeKeepsGates'
  <2>1. ran' = {Executed(q, proc[q].buf)} /\ seen' = seen
    BY DEF Bytes
  <2>2. Judged(proc[q]) /\ proc[q].pc = "parse"
    BY DEF Passed, Judged
  <2>3. RunsWhatWasGated'
    <3> DEFINE e == Executed(q, proc[q].buf)
    <3>1. /\ e.path = proc[q].path /\ e.root = proc[q].buf /\ e.inc = include /\ e.sec = proc[q].sec
          /\ e.steady = proc[q].steady /\ e.resumes = proc[q].resumes
      BY DEF Executed
    <3> HIDE DEF e
    <3>2. (e.sec.trust \/ e.path = Fetched) => <<e.path, e.root>> \in seen.reviewed
      BY <2>2, <3>1 DEF Judged, PassedTrust, InForce
    <3>3. (e.sec.sig /\ e.sec.pinned) => <<Owner, e.root>> \in seen.signed
      BY <2>2, <3>1 DEF Judged, PassedSig
    <3>4. e.steady => /\ e.sec.locked => <<e.root, e.inc>> \in seen.locked
                      /\ (e.sec.allow /\ ~e.resumes) => Allowed(e.path, e.inc)
      BY <2>2, <3>1 DEF Judged, PassedLock, PassedAllow
    <3>5. ran' = {e}
      BY <2>1 DEF e
    <3>6. RunsWhatWasReviewed' /\ RunsWhatWasSigned'
      BY <2>1, <3>2, <3>3, <3>5 DEF RunsWhatWasReviewed, RunsWhatWasSigned
    <3>7. RunsWhatWasChecked'
      BY <2>1, <3>4, <3>5 DEF RunsWhatWasChecked, Allowed
    <3> QED
      BY <3>6, <3>7 DEF RunsWhatWasGated
  <2>4. ResumeKeepsGates'
    <3>1. SUFFICES ASSUME NEW e \in ran', e.resumes
                   PROVE  /\ e.gates.trust => <<e.path, e.root>> \in seen.reviewed
                          /\ (e.gates.sig /\ e.gates.pinned) => <<Owner, e.root>> \in seen.signed
                          /\ (e.gates.locked /\ e.steady) => <<e.root, e.inc>> \in seen.locked
      BY <2>1 DEF ResumeKeepsGates
    <3>2. e = Executed(q, proc[q].buf) /\ e.gates = proc[q].sec
      BY <2>1, <2>2, <3>1 DEF Executed, Judged, InForce
    <3> QED
      BY <2>2, <3>2 DEF Executed, Judged, PassedTrust, PassedSig, PassedLock
  <2> QED
    BY <2>3, <2>4
<1> QED
  BY <1>3, <1>5, <1>7, <1>8

\* The author edits a workbook: processes have the bytes they work on.
LEMMA EditKeeps ==
    ASSUME GInv, NEW p \in Paths, Edit(p)
    PROVE  GInv'
<1> USE DEF GInv, Edit
<1>1. Shaped'
  <2>1. files[p] \in Contents /\ files[p] + 1 \in Contents
    BY GatesAssumption DEF Shaped, Contents
  <2> QED
    BY <2>1, Types DEF Shaped
<1>2. Recorded' /\ Passed'
  BY DEF Recorded, Passed, PassedTrust, PassedSig, PassedLock, PassedAllow, InForce, Allowed
<1>3. RunsWhatWasGated' /\ ResumeKeepsGates'
  BY ExecutedStays DEF Grows
<1> QED
  BY <1>1, <1>2, <1>3

LEMMA EditIncludeKeeps ==
    ASSUME GInv, EditInclude
    PROVE  GInv'
<1> USE DEF GInv, EditInclude
<1>1. \A q \in Procs : proc[q] \in Process /\ proc'[q] = [proc[q] EXCEPT !.steady = FALSE]
  BY DEF Shaped
<1>2. \A q \in Procs : proc'[q] \in Process
  BY <1>1 DEF Process
<1>3. Shaped'
  <2>1. include' \in Contents
    BY GatesAssumption DEF Shaped, Contents
  <2>2. proc' \in [Procs -> Process]
    BY <1>2
  <2> QED
    BY <2>1, <2>2 DEF Shaped
<1>4. \A q \in Procs :
        /\ ~proc'[q].steady
        /\ proc'[q].pc = proc[q].pc /\ proc'[q].sec = proc[q].sec /\ proc'[q].path = proc[q].path
        /\ proc'[q].buf = proc[q].buf /\ proc'[q].mine = proc[q].mine
        /\ proc'[q].resumes = proc[q].resumes /\ proc'[q].gates = proc[q].gates
  <2> SUFFICES ASSUME NEW q \in Procs
               PROVE  /\ ~proc'[q].steady
                      /\ proc'[q].pc = proc[q].pc /\ proc'[q].sec = proc[q].sec
                      /\ proc'[q].path = proc[q].path
                      /\ proc'[q].buf = proc[q].buf /\ proc'[q].mine = proc[q].mine
                      /\ proc'[q].resumes = proc[q].resumes /\ proc'[q].gates = proc[q].gates
    OBVIOUS
  <2> HIDE DEF GInv, EditInclude
  <2> QED
    BY <1>1 DEF Process
<1>5. Recorded'
  BY <1>4 DEF Recorded
<1>6. Passed'
  <2> SUFFICES ASSUME NEW q \in Procs
               PROVE  Judged(proc[q])'
    BY DEF Passed, Judged
  <2>1. Judged(proc[q]) /\ seen' = seen
    BY DEF Passed, Judged
  <2>2. PassedTrust(proc[q])' /\ PassedSig(proc[q])'
    BY <1>4, <2>1 DEF Judged, PassedTrust, PassedSig
  <2>3. PassedLock(proc[q])' /\ PassedAllow(proc[q])'
    BY <1>4 DEF PassedLock, PassedAllow
  <2>4. InForce(proc[q])'
    BY <1>4, <2>1 DEF Judged, InForce
  <2> QED
    BY <2>2, <2>3, <2>4 DEF Judged
<1>7. RunsWhatWasGated' /\ ResumeKeepsGates'
  BY ExecutedStays DEF Grows
<1> QED
  BY <1>3, <1>5, <1>6, <1>7

LEMMA StepKeeps == GInv /\ [Next]_vars => GInv'
<1> SUFFICES ASSUME GInv, [Next]_vars
             PROVE  GInv'
  OBVIOUS
<1>1. ASSUME NEW p \in Paths, Edit(p) PROVE GInv'
  BY <1>1, EditKeeps
<1>2. ASSUME EditInclude PROVE GInv'
  BY <1>2, EditIncludeKeeps
<1>3. ASSUME NEW q \in Procs, Trust(q) PROVE GInv'
  BY <1>3, TrustAddKeeps, TrustRemoveKeeps, TrustFileKeeps, TrustTruncateKeeps, TrustWriteKeeps DEF
                              Trust
<1>4. ASSUME NEW q \in Procs, Author(q) PROVE GInv'
  BY <1>4, KeygenKeeps, KeygenCreateKeeps, SignKeeps, SignWriteKeeps, LockKeeps, LockWriteKeeps DEF
                              Author
<1>5. ASSUME NEW q \in Procs, Gate(q) PROVE GInv'
  BY <1>5, TrustGateKeeps, SigGateKeeps, LockGateKeeps, AllowGateKeeps DEF Gate
<1>6. ASSUME NEW q \in Procs, NEW p \in Paths, NEW sec \in Flags, Run(q, p, sec) PROVE GInv'
  BY <1>6, RunKeeps
<1>7. ASSUME NEW q \in Procs, Fetch(q) \/ Remote(q) \/ Resume(q) \/ Execute(q) \/ Kill(q) PROVE GInv'
  BY <1>7, FetchKeeps, RemoteKeeps, ResumeKeeps, ExecuteKeeps, KillKeeps
<1>8. ASSUME UNCHANGED vars PROVE GInv'
  BY <1>8 DEF vars, GInv, Shaped, Recorded, Passed, PassedTrust, PassedSig, PassedLock, PassedAllow,
              InForce, RunsWhatWasGated, RunsWhatWasReviewed, RunsWhatWasSigned, RunsWhatWasChecked,
              ResumeKeepsGates, Allowed
<1> QED
  BY <1>1, <1>2, <1>3, <1>4, <1>5, <1>6, <1>7, <1>8 DEF Next

LEMMA InitKeeps == Init => GInv
<1> SUFFICES ASSUME Init PROVE GInv
  OBVIOUS
<1> USE Types DEF Init
<1>1. Shaped
  <2>1. NoHistory \in [reviewed : SUBSET (Paths \X Stored), signed : SUBSET (Keys \X Stored),
                       locked : SUBSET (Stored \X Contents), ledger : [Paths -> Entry], raced : BOOLEAN]
    BY DEF NoHistory
  <2> QED
    BY <2>1 DEF Shaped
<1>2. Recorded
  BY DEF Recorded, Idle, Empty, NoHistory
<1>3. Passed
  BY DEF Passed, PassedTrust, PassedSig, PassedLock, PassedAllow, InForce, Idle
<1>4. RunsWhatWasGated /\ ResumeKeepsGates
  BY DEF RunsWhatWasGated, RunsWhatWasReviewed, RunsWhatWasSigned, RunsWhatWasChecked,
         ResumeKeepsGates
<1> QED
  BY <1>1, <1>2, <1>3, <1>4 DEF GInv

(* Whatever the author edits and records, whoever else runs, and whatever  *)
(* is killed, GInv holds of gates, trust store, lock file and signature.   *)
THEOREM GatesInvariance == Spec => []GInv
  BY InitKeeps, StepKeeps, PTL DEF Spec

(* For any number of processes, files and versions: the bytes that are     *)
(* executed have passed the gates in force, although the files they came   *)
(* from, and the records they were compared with, change meanwhile.        *)
THEOREM OnlyGatedRuns == Spec => []RunsWhatWasGated
<1>1. GInv => RunsWhatWasGated
  BY DEF GInv
<1> QED
  BY <1>1, GatesInvariance, PTL

(* What wb resume executes has passed the gates of the run that created    *)
(* the checkpoint, for any number of resumes of edited workbooks.          *)
THEOREM ResumesKeepTheGates == Spec => []ResumeKeepsGates
<1>1. GInv => ResumeKeepsGates
  BY DEF GInv
<1> QED
  BY <1>1, GatesInvariance, PTL

-----------------------------------------------------------------------------
\* A step of a command that does not hold the trust store, or that gives it up before writing.
Quiet ==
    /\ store' = store /\ seen'.ledger = seen.ledger /\ seen'.raced = seen.raced
    /\ \A q \in Procs :
         \/ proc'[q].pc = proc[q].pc /\ proc'[q].mine = proc[q].mine /\ proc'[q].path = proc[q].path
         \/ proc[q].pc # "write" /\ proc'[q].pc \notin TrustPcs

LEMMA QuietKeeps == LInv /\ Quiet => LInv'
<1> SUFFICES ASSUME LInv, Quiet
             PROVE  LInv'
  OBVIOUS
<1>1. (~seen.raced => Alone)'
  BY DEF LInv, Quiet, Alone, TrustPcs
<1>2. StoreIsLedger'
  BY DEF LInv, Quiet, StoreIsLedger, Loaded, TrustPcs
<1> QED
  BY <1>1, <1>2 DEF LInv

\* The processes other than q, for a step of q.
Others(q) == \A r \in Procs \ {q} : proc'[r] = proc[r]

LEMMA QuietStep ==
    ASSUME LInv, NEW q \in Procs, Others(q), store' = store, seen'.ledger = seen.ledger,
           seen'.raced = seen.raced, proc[q].pc # "write", proc'[q].pc \notin TrustPcs
    PROVE  LInv'
BY QuietKeeps DEF Others, Quiet

\* Commands that have nothing to do with the trust store.
LEMMA OtherCommandsKeepLedger ==
    ASSUME GInv, LInv, NEW q \in Procs,
           \/ Author(q) \/ Gate(q) \/ Fetch(q) \/ Remote(q) \/ Resume(q) \/ Execute(q)
           \/ \E p \in Paths, sec \in Flags : Run(q, p, sec)
    PROVE  LInv'
<1> USE DEF GInv, Shaped, TrustPcs
<1>1. CASE Author(q)
  <2>1. CASE Keygen(q) \/ Sign(q) \/ Lock(q)
    <3>1. /\ proc[q].pc = "idle" /\ proc'[q].pc \in {"private", "sign", "lock"} /\ Others(q)
      <4>1. CASE Keygen(q)
        BY <4>1 DEF Keygen, Begin, Idle, Others
      <4>2. CASE Sign(q)
        BY <4>2 DEF Sign, Begin, Idle, Others
      <4>3. CASE Lock(q)
        BY <4>3 DEF Lock, Begin, Idle, Others
      <4> QED
        BY <2>1, <4>1, <4>2, <4>3
    <3>2. store' = store /\ seen' = seen
      BY <2>1 DEF Keygen, Sign, Lock, Disk
    <3> QED
      BY <3>1, <3>2, QuietStep
  <2>2. CASE KeygenCreate(q) \/ SignWrite(q) \/ LockWrite(q)
    BY <2>2, QuietStep, Ends DEF KeygenCreate, SignWrite, LockWrite, End, Idle, Others
  <2> QED
    BY <1>1, <2>1, <2>2 DEF Author
<1>2. CASE Gate(q)
  <2>1. /\ proc[q].pc \in {"trust", "sig", "locked", "allow"} /\ store' = store /\ seen' = seen
        /\ End(q) \/ \E pc \in {"sig", "locked", "allow", "parse"} : Goto(q, pc)
    BY <1>2 DEF Gate, TrustGate, SigGate, LockGate, AllowGate, Passes, Disk
  <2>2. CASE End(q)
    BY <2>1, <2>2, QuietStep, Ends DEF End, Idle, Others
  <2>3. ASSUME NEW pc \in {"sig", "locked", "allow", "parse"}, Goto(q, pc)
        PROVE  LInv'
    <3>1. pc \in Pcs
      BY DEF Pcs
    <3>2. proc'[q].pc = pc /\ Others(q)
      BY <2>3, <3>1, Advances DEF Goto, Process, Others
    <3> QED
      BY <2>1, <3>2, QuietStep
  <2> QED
    BY <2>1, <2>2, <2>3
<1>3. CASE Fetch(q)
  BY <1>3, QuietStep DEF Fetch, Begin, Idle, Others
<1>4. CASE Remote(q)
  <2>1. proc'[q].pc = "trust" /\ Others(q)
    BY <1>4 DEF Remote, Process, Others
  <2> QED
    BY <1>4, <2>1, QuietStep DEF Remote, Disk
<1>5. CASE Resume(q)
  <2>1. proc[q].pc = "idle" /\ proc'[q].pc = "trust" /\ Others(q)
    <3>1. PICK gates \in ckpt :
            Begin(q, [Idle EXCEPT !.pc = "trust", !.buf = files[Root], !.sec = gates,
                                  !.resumes = TRUE, !.gates = gates])
      BY <1>5 DEF Resume
    <3>2. /\ proc[q].pc = "idle" /\ Others(q)
          /\ proc'[q] = [Idle EXCEPT !.pc = "trust", !.buf = files[Root], !.sec = gates,
                                     !.resumes = TRUE, !.gates = gates]
      BY <3>1 DEF Begin, Others
    <3> QED
      BY <3>2 DEF Idle
  <2>2. store' = store /\ seen' = seen
    BY <1>5 DEF Resume, Disk
  <2> QED
    BY <2>1, <2>2, QuietStep
<1>6. CASE Execute(q)
  BY <1>6, QuietStep, Ends DEF Execute, End, Idle, Others
<1>7. ASSUME NEW p \in Paths, NEW sec \in Flags, Run(q, p, sec) PROVE LInv'
  BY <1>7, QuietStep DEF Run, Begin, Idle, Disk, Others
<1> QED
  BY <1>1, <1>2, <1>3, <1>4, <1>5, <1>6, <1>7

\* Commands that begin see whether another one is under way.
LEMMA TrustBeginsKeepLedger ==
    ASSUME GInv, LInv, NEW q \in Procs, NEW p \in Paths, TrustAdd(q, p) \/ TrustRemove(q, p)
    PROVE  LInv'
<1> USE DEF GInv, Shaped, TrustPcs
<1>0. /\ proc[q].pc = "idle" /\ Others(q)
      /\ \/ proc'[q] = [Idle EXCEPT !.pc = "add", !.path = p, !.mine = Loaded]
         \/ proc'[q] = [Idle EXCEPT !.pc = "truncate", !.path = p, !.mine = [Loaded EXCEPT ![p] = Nothing]]
  BY DEF TrustAdd, TrustRemove, Begin, Others
<1>1. /\ store' = store /\ seen'.ledger = seen.ledger
      /\ proc'[q].pc \in {"add", "truncate"} /\ proc'[q].path = p
      /\ seen'.raced = (seen.raced \/ \E r \in Procs : proc[r].pc \in TrustPcs)
  <2>1. store' = store /\ seen' = Overlap
    BY DEF TrustAdd, TrustRemove, Disk
  <2>2. proc'[q].pc \in {"add", "truncate"} /\ proc'[q].path = p
    BY <1>0 DEF Idle
  <2>3. /\ Overlap.ledger = seen.ledger
        /\ Overlap.raced = (seen.raced \/ \E r \in Procs : proc[r].pc \in TrustPcs)
    BY DEF Overlap
  <2> QED
    BY <2>1, <2>2, <2>3
<1>2. /\ proc'[q].pc = "add" => proc'[q].mine = Loaded
      /\ proc'[q].pc = "truncate" => proc'[q].mine = [Loaded EXCEPT ![p] = Nothing]
  BY <1>0 DEF Idle
<1>3. CASE seen'.raced
  BY <1>3 DEF LInv, StoreIsLedger
<1>4. CASE ~seen'.raced
  <2>1. ~seen.raced /\ \A r \in Procs : proc[r].pc \notin TrustPcs
    BY <1>1, <1>4
  <2>2. Loaded = seen.ledger /\ Loaded' = Loaded
    BY <1>1, <2>1 DEF LInv, StoreIsLedger, Loaded
  <2>3. \A r \in Procs \ {q} : proc'[r].pc \notin TrustPcs
    BY <1>0, <2>1 DEF Others
  <2>4. proc'[q].pc = "truncate" => \A r \in Paths \ {p} : proc'[q].mine[r] = seen'.ledger[r]
    BY <1>1, <1>2, <2>2, LoadedIsRecorded
  <2>5. Alone'
    BY <1>1, <1>2, <2>2, <2>3, <2>4 DEF Alone
  <2> QED
    BY <1>1, <2>2, <2>5 DEF LInv, StoreIsLedger
<1> QED
  BY <1>3, <1>4

LEMMA TrustFileKeepsLedger ==
    ASSUME GInv, LInv, NEW q \in Procs, TrustFile(q)
    PROVE  LInv'
<1> USE DEF GInv, Shaped, TrustPcs
<1>1. /\ proc[q] \in Process /\ Others(q) /\ store' = store
      /\ seen'.ledger = seen.ledger /\ seen'.raced = seen.raced
      /\ proc'[q] = [proc[q] EXCEPT !.pc = "truncate", !.mine = WithFile(q)]
  BY DEF TrustFile, Disk, Others
<1>2. proc'[q].pc = "truncate" /\ proc'[q].mine = WithFile(q) /\ proc'[q].path = proc[q].path
  BY <1>1 DEF Process
<1>3. \A p \in Paths \ {proc[q].path} : WithFile(q)[p] = proc[q].mine[p]
  BY <1>1 DEF WithFile, Process
<1>4. (~seen.raced => Alone)'
  <2> SUFFICES ASSUME ~seen.raced
               PROVE  Alone'
    BY <1>1
  <2>1. Alone /\ proc[q].pc = "add"
    BY DEF LInv, TrustFile
  <2>2. \A r \in Procs \ {q} : proc'[r] = proc[r] /\ proc[r].pc \notin TrustPcs
    BY <1>1, <2>1 DEF Alone, Others
  <2>3. \A p \in Paths \ {proc[q].path} : WithFile(q)[p] = seen.ledger[p]
    BY <1>3, <2>1 DEF Alone
  <2>4. \A r, s \in Procs : proc'[r].pc \in TrustPcs /\ proc'[s].pc \in TrustPcs => r = s
    BY <2>2
  <2>5. \A r \in Procs \ {q} : proc'[r].pc \notin TrustPcs
    BY <2>2
  <2>6. ASSUME NEW r \in Procs
        PROVE  /\ proc'[r].pc = "add" => proc'[r].mine = seen'.ledger
               /\ proc'[r].pc \in {"truncate", "write"} =>
                    \A p \in Paths \ {proc'[r].path} : proc'[r].mine[p] = seen'.ledger[p]
               /\ proc'[r].pc = "write" => store' = {}
    <3>1. CASE r = q
      BY <1>1, <1>2, <2>3, <3>1
    <3>2. CASE r # q
      BY <2>5, <3>2
    <3> QED
      BY <3>1, <3>2
  <2> QED
    BY <2>4, <2>6 DEF Alone
<1>5. StoreIsLedger'
  <2>1. proc[q].pc = "add"
    BY DEF TrustFile
  <2> QED
    BY <1>1, <1>2, <2>1 DEF LInv, StoreIsLedger, Loaded, Others
<1> QED
  BY <1>4, <1>5 DEF LInv

\* While the store is torn nothing is claimed of it, and then it is the ledger again.
LEMMA TrustSavesKeepLedger ==
    ASSUME GInv, LInv, NEW q \in Procs, TrustTruncate(q) \/ TrustWrite(q)
    PROVE  LInv'
<1> USE DEF GInv, Shaped, TrustPcs
<1>1. CASE TrustTruncate(q)
  <2>1. /\ proc[q].pc = "truncate" /\ store' = {} /\ seen' = seen /\ Others(q)
        /\ proc'[q].pc = "write" /\ proc'[q].mine = proc[q].mine /\ proc'[q].path = proc[q].path
    BY <1>1 DEF TrustTruncate, Goto, Process, Others
  <2>2. (~seen.raced => Alone)'
    BY <2>1 DEF LInv, Alone, Others
  <2> QED
    BY <2>1, <2>2 DEF LInv, StoreIsLedger
<1>2. CASE TrustWrite(q)
  <2>1. /\ proc[q].pc = "write" /\ store' = {proc[q].mine} /\ Others(q) /\ proc'[q] = Idle
        /\ seen' = [seen EXCEPT !.ledger[proc[q].path] = proc[q].mine[proc[q].path]]
    BY <1>2, Ends DEF TrustWrite, End, Others
  <2>2. /\ seen'.raced = seen.raced
        /\ seen'.ledger = [seen.ledger EXCEPT ![proc[q].path] = proc[q].mine[proc[q].path]]
    BY <2>1
  <2>3. Loaded' = proc[q].mine
    BY <2>1 DEF Loaded
  <2>4. CASE seen.raced
    BY <2>2, <2>4 DEF LInv, StoreIsLedger
  <2>5. CASE ~seen.raced
    <3>1. Alone
      BY <2>5 DEF LInv
    <3>2. \A r \in Procs : proc'[r].pc \notin TrustPcs
      BY <2>1, <3>1 DEF Alone, Others, Idle
    <3>3. seen'.ledger = proc[q].mine
      <4>1. proc[q].mine \in [Paths -> Entry] /\ proc[q].path \in Paths /\ seen.ledger \in [Paths -> Entry]
        BY DEF Process
      <4>2. \A p \in Paths \ {proc[q].path} : proc[q].mine[p] = seen.ledger[p]
        BY <2>1, <3>1 DEF Alone
      <4> QED
        BY <2>2, <4>1, <4>2
    <3> QED
      BY <2>2, <2>3, <3>2, <3>3 DEF LInv, Alone, StoreIsLedger
  <2> QED
    BY <2>4, <2>5
<1> QED
  BY <1>1, <1>2

LEMMA KillKeepsLedger ==
    ASSUME GInv, LInv, NEW q \in Procs, Kill(q)
    PROVE  LInv'
<1> USE DEF GInv, Shaped, TrustPcs
<1>1. store' = store /\ Others(q) /\ proc'[q] = Idle /\ seen'.raced = seen.raced
  BY Ends DEF Kill, End, Disk, Others
<1>2. CASE proc[q].pc # "write"
  BY <1>1, <1>2, QuietStep DEF Kill, Idle
<1>3. CASE proc[q].pc = "write"
  <2>1. seen'.ledger = Empty
    BY <1>3 DEF Kill
  <2>2. CASE seen.raced
    BY <1>1, <2>2 DEF LInv, StoreIsLedger
  <2>3. CASE ~seen.raced
    <3>1. Alone
      BY <2>3 DEF LInv
    <3>2. store = {} /\ \A r \in Procs : proc'[r].pc \notin TrustPcs
      BY <1>1, <1>3, <3>1 DEF Alone, Others, Idle
    <3> QED
      BY <1>1, <2>1, <3>2 DEF LInv, Alone, StoreIsLedger, Loaded
  <2> QED
    BY <2>2, <2>3
<1> QED
  BY <1>2, <1>3

LEMMA LedgerKeeps == GInv /\ LInv /\ [Next]_vars => LInv'
<1> SUFFICES ASSUME GInv, LInv, [Next]_vars
             PROVE  LInv'
  OBVIOUS
<1>1. ASSUME NEW p \in Paths, Edit(p) PROVE LInv'
  BY <1>1, QuietKeeps DEF Edit, Quiet
<1>2. ASSUME EditInclude PROVE LInv'
  <2>1. \A q \in Procs : proc[q] \in Process /\ proc'[q] = [proc[q] EXCEPT !.steady = FALSE]
    BY <1>2 DEF EditInclude, GInv, Shaped
  <2>2. \A q \in Procs :
          proc'[q].pc = proc[q].pc /\ proc'[q].mine = proc[q].mine /\ proc'[q].path = proc[q].path
    BY <2>1 DEF Process
  <2> QED
    BY <1>2, <2>2, QuietKeeps DEF EditInclude, Quiet
<1>3. ASSUME NEW q \in Procs, Trust(q) PROVE LInv'
  BY <1>3, TrustBeginsKeepLedger, TrustFileKeepsLedger, TrustSavesKeepLedger DEF Trust
<1>4. ASSUME NEW q \in Procs, Kill(q) PROVE LInv'
  BY <1>4, KillKeepsLedger
<1>5. ASSUME NEW q \in Procs,
             \/ Author(q) \/ Gate(q) \/ Fetch(q) \/ Remote(q) \/ Resume(q) \/ Execute(q)
             \/ \E p \in Paths, sec \in Flags : Run(q, p, sec)
      PROVE  LInv'
  BY <1>5, OtherCommandsKeepLedger
<1>6. ASSUME UNCHANGED vars PROVE LInv'
  BY <1>6, QuietKeeps DEF vars, Quiet
<1> QED
  BY <1>1, <1>2, <1>3, <1>4, <1>5, <1>6 DEF Next

(* However many trust commands are run and killed, the store holds what    *)
(* they recorded as long as no two of them overlapped.                     *)
THEOREM LedgerOfTrust == Spec => []StoreIsLedger
<1>1. Init => LInv
  BY DEF Init, LInv, Alone, StoreIsLedger, Loaded, NoHistory, Idle, TrustPcs
<1>2. LInv => StoreIsLedger
  BY DEF LInv
<1> QED
  BY <1>1, <1>2, LedgerKeeps, GatesInvariance, PTL DEF Spec

-----------------------------------------------------------------------------
\* Each file of the author holds one thing or nothing, and what wb sign and wb lock are about
\* to record are bytes of a workbook of the author's, never half a download.
OneOrNone(S) == S = {} \/ \E x : S = {x}

Records ==
    /\ OneOrNone(store) /\ OneOrNone(lock) /\ OneOrNone(sig) /\ OneOrNone(ckpt)
    /\ lock \subseteq Contents \X Contents /\ sig \subseteq Keys \X Contents
    /\ \A q \in Procs : proc[q].pc \in {"sign", "lock"} => proc[q].buf \in Contents

LEMMA AtMostOne ==
    ASSUME NEW S, OneOrNone(S)
    PROVE  Cardinality(S) <= 1
<1>1. CASE S = {}
  BY <1>1, FS_EmptySet
<1>2. CASE \E x : S = {x}
  <2>1. PICK x : S = {x}
    BY <1>2
  <2>2. Cardinality({x}) = 1
    BY FS_Singleton
  <2> QED
    BY <2>1, <2>2
<1> QED
  BY <1>1, <1>2 DEF OneOrNone

\* The processes of a step are those before it, but for one that is idle, keeps its bytes, or
\* begins at another label.
LEMMA BytesKept ==
    ASSUME Records, NEW q \in Procs, \A r \in Procs \ {q} : proc'[r] = proc[r],
           \/ proc'[q].pc \notin {"sign", "lock"}
           \/ proc'[q].buf \in Contents
    PROVE  \A r \in Procs : proc'[r].pc \in {"sign", "lock"} => proc'[r].buf \in Contents
BY DEF Records

LEMMA RecordsStep == GInv /\ Records /\ [Next]_vars => Records'
<1> SUFFICES ASSUME GInv, Records, [Next]_vars
             PROVE  Records'
  OBVIOUS
<1>0. Shaped /\ Shaped'
  BY StepKeeps DEF GInv
<1>1. ASSUME NEW p \in Paths, Edit(p) PROVE Records'
  BY <1>1 DEF Records, Edit, OneOrNone
<1>2. ASSUME EditInclude PROVE Records'
  <2>1. \A q \in Procs : proc[q] \in Process /\ proc'[q] = [proc[q] EXCEPT !.steady = FALSE]
    BY <1>0, <1>2 DEF EditInclude, Shaped
  <2>2. \A q \in Procs : proc'[q].pc = proc[q].pc /\ proc'[q].buf = proc[q].buf
    BY <2>1 DEF Process
  <2> QED
    BY <1>2, <2>2 DEF EditInclude, Records, OneOrNone
<1>3. ASSUME NEW q \in Procs, \A r \in Procs \ {q} : proc'[r] = proc[r],
             proc'[q].pc \notin {"sign", "lock"}, UNCHANGED <<lock, sig, ckpt>>, OneOrNone(store')
      PROVE  Records'
  BY <1>3, BytesKept DEF Records
<1>4. ASSUME NEW q \in Procs, Trust(q) PROVE Records'
  <2>1. UNCHANGED <<lock, sig, ckpt>>
    BY <1>4 DEF Trust, TrustAdd, TrustRemove, TrustFile, TrustTruncate, TrustWrite, Disk
  <2>2. OneOrNone(store')
    BY <1>4 DEF Trust, TrustAdd, TrustRemove, TrustFile, TrustTruncate, TrustWrite, Disk, OneOrNone,
                Records
  <2>3. (\A r \in Procs \ {q} : proc'[r] = proc[r]) /\ proc'[q].pc \notin {"sign", "lock"}
    <3>1. proc[q] \in Process /\ proc \in [Procs -> Process]
      BY <1>0 DEF Shaped
    <3>2. CASE \E p \in Paths : TrustAdd(q, p)
      BY <3>1, <3>2 DEF TrustAdd, Begin, Idle
    <3>3. CASE \E p \in Paths : TrustRemove(q, p)
      BY <3>1, <3>3 DEF TrustRemove, Begin, Idle
    <3>4. CASE TrustFile(q) \/ TrustTruncate(q) \/ TrustWrite(q)
      BY <3>1, <3>4 DEF TrustFile, TrustTruncate, TrustWrite, Goto, End, Process, Idle
    <3> QED
      BY <1>4, <3>2, <3>3, <3>4 DEF Trust
  <2> QED
    BY <1>3, <2>1, <2>2, <2>3
<1>5. ASSUME NEW q \in Procs, Keygen(q) \/ KeygenCreate(q) PROVE Records'
  <2>1. (\A r \in Procs \ {q} : proc'[r] = proc[r]) /\ proc'[q].pc \notin {"sign", "lock"}
    BY <1>0, <1>5 DEF Keygen, KeygenCreate, Begin, End, Shaped, Idle
  <2>2. UNCHANGED <<lock, sig, ckpt, store>>
    BY <1>5 DEF Keygen, KeygenCreate
  <2> QED
    BY <1>3, <2>1, <2>2 DEF Records
<1>6. ASSUME NEW q \in Procs, Sign(q) \/ Lock(q) PROVE Records'
  <2>1. files[Root] \in Contents
    BY <1>0, GatesAssumption DEF Shaped
  <2>2. (\A r \in Procs \ {q} : proc'[r] = proc[r]) /\ proc'[q].buf = files[Root]
    <3>1. PICK pc : proc' = [proc EXCEPT ![q] = [Idle EXCEPT !.pc = pc, !.buf = files[Root]]]
      BY <1>6 DEF Sign, Lock, Begin
    <3> QED
      BY <1>0, <3>1 DEF Shaped, Idle
  <2>3. UNCHANGED Disk
    BY <1>6 DEF Sign, Lock
  <2> QED
    BY <2>1, <2>2, <2>3, BytesKept DEF Records, Disk, OneOrNone
<1>7. ASSUME NEW q \in Procs, SignWrite(q) PROVE Records'
  <2>1. proc[q].buf \in Contents
    BY <1>7 DEF SignWrite, Records
  <2>2. sig' = sig \/ (sig' = {<<key, proc[q].buf>>} /\ key \in Keys)
    BY <1>0, <1>7 DEF SignWrite, Shaped
  <2>3. OneOrNone(sig') /\ sig' \subseteq Keys \X Contents
    BY <2>1, <2>2 DEF Records, OneOrNone
  <2>4. (\A r \in Procs \ {q} : proc'[r] = proc[r]) /\ proc'[q].pc = "idle"
    BY <1>0, <1>7 DEF SignWrite, End, Shaped, Idle
  <2> QED
    BY <1>7, <2>3, <2>4, BytesKept DEF SignWrite, Records, OneOrNone
<1>8. ASSUME NEW q \in Procs, LockWrite(q) PROVE Records'
  <2>1. proc[q].buf \in Contents /\ include \in Contents
    BY <1>0, <1>8 DEF LockWrite, Records, Shaped
  <2>2. OneOrNone(lock') /\ lock' \subseteq Contents \X Contents
    BY <1>8, <2>1 DEF LockWrite, OneOrNone
  <2>3. (\A r \in Procs \ {q} : proc'[r] = proc[r]) /\ proc'[q].pc = "idle"
    BY <1>0, <1>8 DEF LockWrite, End, Shaped, Idle
  <2> QED
    BY <1>8, <2>2, <2>3, BytesKept DEF LockWrite, Records, OneOrNone
<1>9. ASSUME NEW q \in Procs,
             \/ Gate(q) \/ Fetch(q) \/ Remote(q) \/ Resume(q) \/ Kill(q)
             \/ \E p \in Paths, sec \in Flags : Run(q, p, sec)
      PROVE  Records'
  <2>1. (\A r \in Procs \ {q} : proc'[r] = proc[r]) /\ proc'[q].pc \notin {"sign", "lock"}
    <3>1. proc[q] \in Process /\ proc \in [Procs -> Process]
      BY <1>0 DEF Shaped
    <3>2. CASE Gate(q)
      BY <3>1, <3>2 DEF Gate, TrustGate, SigGate, LockGate, AllowGate, Passes, Goto, End, Process, Idle
    <3>3. CASE Fetch(q)
      <4>1. proc' = [proc EXCEPT ![q] = [Idle EXCEPT !.pc = "fetched", !.path = Fetched]]
        BY <3>3 DEF Fetch, Begin
      <4> QED
        BY <3>1, <4>1 DEF Idle
    <3>7. CASE Kill(q)
      BY <3>1, <3>7 DEF Kill, End, Idle
    <3>6. CASE Resume(q)
      BY <3>1, <3>6 DEF Resume, Begin, Idle
    <3>4. CASE Remote(q)
      BY <3>1, <3>4 DEF Remote, Process
    <3>5. CASE \E p \in Paths, sec \in Flags : Run(q, p, sec)
      BY <3>1, <3>5 DEF Run, Begin, Idle
    <3> QED
      BY <1>9, <3>2, <3>3, <3>4, <3>5, <3>6, <3>7
  <2>2. UNCHANGED <<lock, sig, ckpt, store>>
    BY <1>9 DEF Gate, TrustGate, SigGate, LockGate, AllowGate, Fetch, Remote, Resume, Kill, Run, Disk
  <2> QED
    BY <1>3, <2>1, <2>2 DEF Records
<1>10. ASSUME NEW q \in Procs, Execute(q) PROVE Records'
  <2>1. OneOrNone(ckpt')
    BY <1>10 DEF Execute, OneOrNone, Records
  <2>2. (\A r \in Procs \ {q} : proc'[r] = proc[r]) /\ proc'[q].pc = "idle"
    BY <1>0, <1>10 DEF Execute, End, Shaped, Idle
  <2> QED
    BY <1>10, <2>1, <2>2, BytesKept DEF Execute, Records, OneOrNone
<1>11. ASSUME UNCHANGED vars PROVE Records'
  BY <1>11 DEF vars, Records, OneOrNone
<1> QED
  BY <1>1, <1>2, <1>4, <1>5, <1>6, <1>7, <1>8, <1>9, <1>10, <1>11 DEF Next, Author

(* Whatever is edited, downloaded, recorded and killed, every file of the  *)
(* gates holds one record of its kind, or none.                            *)
THEOREM GatesTypes == Spec => []TypeOK
<1>1. Init => Records
  BY GatesAssumption DEF Init, Records, OneOrNone, Idle
<1>2. GInv /\ Records => TypeOK
  BY AtMostOne DEF GInv, Shaped, Records, TypeOK, Stored, Entry
<1> QED
  BY <1>1, <1>2, RecordsStep, GatesInvariance, PTL DEF Spec

(* Nothing but the gates changes what is theirs.                           *)
LEMMA FrontIsGated == FrontSpec => Spec
<1>1. FrontInit => Init
  BY DEF FrontInit
<1>2. [FrontNext]_<<scenario, vars, xs>> => [Next]_vars
  BY DEF FrontNext
<1>3. QED
  BY <1>1, <1>2, PTL DEF FrontSpec, Spec

USE DEF xs

-----------------------------------------------------------------------------
(* The container.                                                          *)

(* What an image is made from is in its tag, but for a custom Dockerfile.  *)
MadeFor(tag) ==
  [base |-> tag[1], apt |-> C!BaseApt[tag[1]] \union tag[2],
   pip |-> IF tag[1] = "python" THEN tag[3] ELSE {},
   npm |-> IF tag[1] = "node" THEN tag[4] ELSE {}]

(* The tag names what the workbook requires; the Dockerfile may have been  *)
(* edited since.                                                           *)
TagOf(tag, req) ==
  tag[1] = req.sandbox /\ tag[2] = req.apt /\ tag[3] = req.pip /\ tag[4] = req.npm

(* The record that is kept of a process.                                   *)
Whole(r) ==
  r = [pc |-> r.pc, command |-> r.command, books |-> r.books, tag |-> r.tag,
       made |-> r.made, errors |-> r.errors, exit |-> r.exit]

ImagesAreTagged == \A i \in x2 : i.tag[1] # "custom" => i.made = MadeFor(i.tag)

ProcessOK(p) ==
  /\ Whole(x4[p])
  /\ x4[p].pc \in {"build", "env", "start", "inside"}
       => TagOf(x4[p].tag, Head(x4[p].books).requires)
  /\ x4[p].pc = "inside" /\ Head(x4[p].books).requires.sandbox # "custom"
       => x4[p].made = MadeFor(x4[p].tag)
  /\ p \in x3 => x4[p].pc \in {"start", "inside", "remove", "killed"}

SandboxInv ==
  /\ DOMAIN x4 = Procs
  /\ ImagesAreTagged
  /\ \A p \in Procs : ProcessOK(p)

(* A tag of what a workbook requires is of it.                             *)
LEMMA TagsAreOf == ASSUME NEW req PROVE TagOf(C!Tag(req), req)
BY DEF TagOf, C!Tag

(* What a Dockerfile is generated from is in the tag.                      *)
LEMMA GeneratedByTag ==
  ASSUME NEW req, NEW tag, TagOf(tag, req) PROVE C!Generated(req) = MadeFor(tag)
BY DEF TagOf, MadeFor, C!Generated

(* The invariant is about each process by itself.                          *)
LEMMA OneProcess ==
  ASSUME SandboxInv, NEW p \in Procs, DOMAIN x4' = Procs, ImagesAreTagged', ProcessOK(p)',
         \A q \in Procs \ {p} : x4'[q] = x4[q] /\ (q \in x3' <=> q \in x3)
  PROVE  SandboxInv'
<1>1. \A q \in Procs \ {p} : ProcessOK(q)'
  BY DEF SandboxInv, ProcessOK, Whole
<1>2. QED
  BY <1>1 DEF SandboxInv

(* What an action does to the process it is of, and to the others.         *)
Becomes(p, r) ==
  /\ DOMAIN x4' = Procs
  /\ \A q \in Procs \ {p} : x4'[q] = x4[q]
  /\ x4'[p] = r

(* A step of a process that asks no more of its tag than it did.           *)
LEMMA SandboxMove ==
  ASSUME SandboxInv, NEW p \in Procs, NEW pc, NEW books, NEW tag, NEW errors, NEW exit, NEW command, NEW made,
         Becomes(p, [pc |-> pc, command |-> command, books |-> books, tag |-> tag,
                     made |-> made, errors |-> errors, exit |-> exit]),
         ImagesAreTagged',
         \A q \in Procs \ {p} : q \in x3' <=> q \in x3,
         p \in x3' => pc \in {"start", "inside", "remove", "killed"},
         pc \in {"build", "env", "start", "inside"} => TagOf(tag, Head(books).requires),
         pc = "inside" /\ Head(books).requires.sandbox # "custom" => made = MadeFor(tag)
  PROVE  SandboxInv'
<1>1. Whole(x4'[p])
  BY DEF Becomes, Whole
<1>2. /\ x4'[p].pc = pc /\ x4'[p].books = books /\ x4'[p].tag = tag /\ x4'[p].made = made
  BY DEF Becomes
<1>3. ProcessOK(p)'
  <2>1. Whole(x4[p])'
    BY <1>1 DEF Whole
  <2>2. QED
    BY <2>1, <1>2 DEF ProcessOK
<1>4. QED
  BY <1>3, OneProcess DEF Becomes

(* A new process has no tag yet.                                           *)
LEMMA StartKept ==
  ASSUME SandboxInv, NEW p \in Procs, NEW job, C!Start(p, job) PROVE SandboxInv'
<1>1. Becomes(p, [pc |-> "next", command |-> job.command, books |-> job.books, tag |-> << >>,
                  made |-> << >>, errors |-> 0, exit |-> -1])
  BY DEF C!Start, C!Idle, Becomes, SandboxInv
<1>2. p \notin x3
  BY DEF C!Start, SandboxInv, ProcessOK
<1>3. ImagesAreTagged' /\ x3' = x3
  BY DEF C!Start, SandboxInv, ImagesAreTagged
<1>4. QED
  BY <1>1, <1>2, <1>3, SandboxMove

(* A process that runs the workbook itself starts no container.            *)
LEMMA RunInProcessKept ==
  ASSUME SandboxInv, NEW p \in Procs, C!RunInProcess(p) PROVE SandboxInv'
<1>1. Becomes(p, [pc |-> "done", command |-> x4[p].command, books |-> x4[p].books, tag |-> x4[p].tag,
                  made |-> x4[p].made,
                  errors |-> x4[p].errors, exit |-> 0])
  <2>1. DOMAIN x4' = Procs
    BY DEF C!RunInProcess, C!Exits, C!Success, SandboxInv
  <2>2. \A q \in Procs \ {p} : x4'[q] = x4[q]
    BY DEF C!RunInProcess, C!Exits, C!Success, SandboxInv
  <2>3. Whole(x4[p])
    BY DEF SandboxInv, ProcessOK
  <2>4. x4'[p] = [pc |-> "done", command |-> x4[p].command, books |-> x4[p].books, tag |-> x4[p].tag,
                  made |-> x4[p].made,
                  errors |-> x4[p].errors, exit |-> 0]
    BY <2>3 DEF C!RunInProcess, C!Exits, C!Success, SandboxInv, Whole
  <2>5. QED
    BY <2>1, <2>2, <2>4 DEF Becomes
<1>2. p \notin x3
  BY DEF C!RunInProcess, SandboxInv, ProcessOK
<1>3. ImagesAreTagged' /\ x3' = x3
  BY DEF C!RunInProcess, SandboxInv, ImagesAreTagged
<1>4. QED
  BY <1>1, <1>2, <1>3, SandboxMove

(* A build ends, passes a workbook over, or looks for its image.           *)
LEMMA ConsiderKept ==
  ASSUME SandboxInv, NEW p \in Procs, C!Consider(p) PROVE SandboxInv'
<1>1. p \notin x3 /\ x4[p].pc = "next"
  BY DEF C!Consider, SandboxInv, ProcessOK
<1>2. ImagesAreTagged' /\ x3' = x3
  BY DEF C!Consider, SandboxInv, ImagesAreTagged
<1>3. CASE x4[p].books = << >>
  <2>1. PICK code : x4' = [x4 EXCEPT ![p].pc = "done", ![p].exit = code]
    BY <1>3 DEF C!Consider, C!Exits
  <2>2. Becomes(p, [pc |-> "done", command |-> x4[p].command,
                    books |-> x4[p].books, tag |-> x4[p].tag,
                    made |-> x4[p].made,
                    errors |-> x4[p].errors, exit |-> code])
    <3>1. DOMAIN x4' = Procs
      BY <2>1 DEF SandboxInv
    <3>2. \A q \in Procs \ {p} : x4'[q] = x4[q]
      BY <2>1 DEF SandboxInv
    <3>3. Whole(x4[p])
      BY DEF SandboxInv, ProcessOK
    <3>4. x4'[p] = [pc |-> "done", command |-> x4[p].command,
                    books |-> x4[p].books, tag |-> x4[p].tag,
                    made |-> x4[p].made,
                    errors |-> x4[p].errors, exit |-> code]
      BY <2>1, <3>3 DEF SandboxInv, Whole
    <3>5. QED
      BY <3>1, <3>2, <3>4 DEF Becomes
  <2>3. QED
    BY <1>1, <1>2, <2>2, SandboxMove
<1>4. CASE x4[p].books # << >> /\ x4' = [x4 EXCEPT ![p].books = Tail(@)]
  <2>1. Becomes(p, [pc |-> "next", command |-> x4[p].command,
                    books |-> Tail(x4[p].books), tag |-> x4[p].tag,
                    made |-> x4[p].made,
                    errors |-> x4[p].errors, exit |-> x4[p].exit])
    <3>1. DOMAIN x4' = Procs
      BY <1>4, <1>1 DEF SandboxInv
    <3>2. \A q \in Procs \ {p} : x4'[q] = x4[q]
      BY <1>4, <1>1 DEF SandboxInv
    <3>3. Whole(x4[p])
      BY DEF SandboxInv, ProcessOK
    <3>4. x4'[p] = [pc |-> "next", command |-> x4[p].command,
                    books |-> Tail(x4[p].books), tag |-> x4[p].tag,
                    made |-> x4[p].made,
                    errors |-> x4[p].errors, exit |-> x4[p].exit]
      BY <1>4, <1>1, <3>3 DEF SandboxInv, Whole
    <3>5. QED
      BY <3>1, <3>2, <3>4 DEF Becomes
  <2>2. QED
    BY <1>1, <1>2, <2>1, SandboxMove
<1>5. CASE x4[p].books # << >> /\ x4' = [x4 EXCEPT ![p].pc = "image"]
  <2>1. Becomes(p, [pc |-> "image", command |-> x4[p].command,
                    books |-> x4[p].books, tag |-> x4[p].tag,
                    made |-> x4[p].made,
                    errors |-> x4[p].errors, exit |-> x4[p].exit])
    <3>1. DOMAIN x4' = Procs
      BY <1>5 DEF SandboxInv
    <3>2. \A q \in Procs \ {p} : x4'[q] = x4[q]
      BY <1>5 DEF SandboxInv
    <3>3. Whole(x4[p])
      BY DEF SandboxInv, ProcessOK
    <3>4. x4'[p] = [pc |-> "image", command |-> x4[p].command,
                    books |-> x4[p].books, tag |-> x4[p].tag,
                    made |-> x4[p].made,
                    errors |-> x4[p].errors, exit |-> x4[p].exit]
      BY <1>5, <3>3 DEF SandboxInv, Whole
    <3>5. QED
      BY <3>1, <3>2, <3>4 DEF Becomes
  <2>2. QED
    BY <1>1, <1>2, <2>1, SandboxMove
<1>6. QED
  BY <1>3, <1>4, <1>5 DEF C!Consider, C!Step

(* A run looks for the image its workbook requires.                        *)
LEMMA EnterKept ==
  ASSUME SandboxInv, NEW p \in Procs, C!Enter(p) PROVE SandboxInv'
<1>1. Becomes(p, [pc |-> "image", command |-> x4[p].command,
                  books |-> x4[p].books, tag |-> x4[p].tag,
                  made |-> x4[p].made,
                  errors |-> x4[p].errors, exit |-> x4[p].exit])
  <2>1. DOMAIN x4' = Procs
    BY DEF C!Enter, C!Step, SandboxInv
  <2>2. \A q \in Procs \ {p} : x4'[q] = x4[q]
    BY DEF C!Enter, C!Step, SandboxInv
  <2>3. Whole(x4[p])
    BY DEF SandboxInv, ProcessOK
  <2>4. x4'[p] = [pc |-> "image", command |-> x4[p].command,
                  books |-> x4[p].books, tag |-> x4[p].tag,
                  made |-> x4[p].made,
                  errors |-> x4[p].errors, exit |-> x4[p].exit]
    BY <2>3 DEF C!Enter, C!Step, SandboxInv, Whole
  <2>5. QED
    BY <2>1, <2>2, <2>4 DEF Becomes
<1>2. p \notin x3
  BY DEF C!Enter, SandboxInv, ProcessOK
<1>3. ImagesAreTagged' /\ x3' = x3
  BY DEF C!Enter, SandboxInv, ImagesAreTagged
<1>4. QED
  BY <1>1, <1>2, <1>3, SandboxMove

(* No image: the run ends, or the next workbook is looked at.              *)
LEMMA NoImageKept ==
  ASSUME SandboxInv, NEW p \in Procs, p \notin x3, C!NoImage(p), x3' = x3, x2' = x2
  PROVE  SandboxInv'
<1>1. ImagesAreTagged'
  BY DEF SandboxInv, ImagesAreTagged
<1>2. CASE x4[p].command = "run"
  <2>1. Becomes(p, [pc |-> "done", command |-> x4[p].command,
                    books |-> x4[p].books, tag |-> x4[p].tag,
                    made |-> x4[p].made,
                    errors |-> x4[p].errors, exit |-> 5])
    <3>1. DOMAIN x4' = Procs
      BY <1>2 DEF C!NoImage, C!Exits, C!Unavailable, SandboxInv
    <3>2. \A q \in Procs \ {p} : x4'[q] = x4[q]
      BY <1>2 DEF C!NoImage, C!Exits, C!Unavailable, SandboxInv
    <3>3. Whole(x4[p])
      BY DEF SandboxInv, ProcessOK
    <3>4. x4'[p] = [pc |-> "done", command |-> x4[p].command,
                    books |-> x4[p].books, tag |-> x4[p].tag,
                    made |-> x4[p].made,
                    errors |-> x4[p].errors, exit |-> 5]
      BY <1>2, <3>3 DEF C!NoImage, C!Exits, C!Unavailable, SandboxInv, Whole
    <3>5. QED
      BY <3>1, <3>2, <3>4 DEF Becomes
  <2>2. QED
    BY <1>1, <2>1, SandboxMove
<1>3. CASE x4[p].command # "run"
  <2>1. Becomes(p, [pc |-> "next", command |-> x4[p].command,
                    books |-> Tail(x4[p].books), tag |-> x4[p].tag,
                    made |-> x4[p].made,
                    errors |-> x4[p].errors + 1, exit |-> x4[p].exit])
    <3>1. DOMAIN x4' = Procs
      BY <1>3 DEF C!NoImage, SandboxInv
    <3>2. \A q \in Procs \ {p} : x4'[q] = x4[q]
      BY <1>3 DEF C!NoImage, SandboxInv
    <3>3. Whole(x4[p])
      BY DEF SandboxInv, ProcessOK
    <3>4. x4'[p] = [pc |-> "next", command |-> x4[p].command,
                    books |-> Tail(x4[p].books), tag |-> x4[p].tag,
                    made |-> x4[p].made,
                    errors |-> x4[p].errors + 1, exit |-> x4[p].exit]
      BY <1>3, <3>3 DEF C!NoImage, SandboxInv, Whole
    <3>5. QED
      BY <3>1, <3>2, <3>4 DEF Becomes
  <2>2. QED
    BY <1>1, <2>1, SandboxMove
<1>4. QED
  BY <1>2, <1>3

(* An image of the tag: the run goes on to its environment.                *)
LEMMA ReadyKept ==
  ASSUME SandboxInv, NEW p \in Procs, NEW tag, p \notin x3, C!Ready(p, tag), x3' = x3, ImagesAreTagged',
         TagOf(tag, Head(x4[p].books).requires)
  PROVE  SandboxInv'
<1>1. CASE x4[p].command = "run"
  <2>1. Becomes(p, [pc |-> "env", command |-> x4[p].command, books |-> x4[p].books, tag |-> tag,
                    made |-> x4[p].made,
                    errors |-> x4[p].errors, exit |-> x4[p].exit])
    <3>1. DOMAIN x4' = Procs
      BY <1>1 DEF C!Ready, SandboxInv
    <3>2. \A q \in Procs \ {p} : x4'[q] = x4[q]
      BY <1>1 DEF C!Ready, SandboxInv
    <3>3. Whole(x4[p])
      BY DEF SandboxInv, ProcessOK
    <3>4. x4'[p] = [pc |-> "env", command |-> x4[p].command, books |-> x4[p].books, tag |-> tag,
                    made |-> x4[p].made,
                    errors |-> x4[p].errors, exit |-> x4[p].exit]
      BY <1>1, <3>3 DEF C!Ready, SandboxInv, Whole
    <3>5. QED
      BY <3>1, <3>2, <3>4 DEF Becomes
  <2>2. QED
    BY <2>1, SandboxMove
<1>2. CASE x4[p].command # "run"
  <2>1. Becomes(p, [pc |-> "next", command |-> x4[p].command,
                    books |-> Tail(x4[p].books), tag |-> tag,
                    made |-> x4[p].made,
                    errors |-> x4[p].errors, exit |-> x4[p].exit])
    <3>1. DOMAIN x4' = Procs
      BY <1>2 DEF C!Ready, SandboxInv
    <3>2. \A q \in Procs \ {p} : x4'[q] = x4[q]
      BY <1>2 DEF C!Ready, SandboxInv
    <3>3. Whole(x4[p])
      BY DEF SandboxInv, ProcessOK
    <3>4. x4'[p] = [pc |-> "next", command |-> x4[p].command,
                    books |-> Tail(x4[p].books), tag |-> tag,
                    made |-> x4[p].made,
                    errors |-> x4[p].errors, exit |-> x4[p].exit]
      BY <1>2, <3>3 DEF C!Ready, SandboxInv, Whole
    <3>5. QED
      BY <3>1, <3>2, <3>4 DEF Becomes
  <2>2. QED
    BY <2>1, SandboxMove
<1>3. QED
  BY <1>1, <1>2

(* The process asks for the tag of what its workbook requires.             *)
LEMMA LookAtImageKept ==
  ASSUME SandboxInv, NEW p \in Procs, C!Look(p) PROVE SandboxInv'
<1> DEFINE req == Head(x4[p].books).requires
<1>1. p \notin x3 /\ x3' = x3 /\ x2' = x2
  BY DEF C!Look, SandboxInv, ProcessOK
<1>2. ImagesAreTagged'
  BY <1>1 DEF SandboxInv, ImagesAreTagged
<1>3. TagOf(C!Tag(req), req)
  BY TagsAreOf
<1>4. CASE C!NoImage(p)
  BY <1>1, <1>4, NoImageKept
<1>5. CASE C!Ready(p, C!Tag(req))
  BY <1>1, <1>2, <1>3, <1>5, ReadyKept
<1>6. CASE x4' = [x4 EXCEPT ![p].pc = "build", ![p].tag = C!Tag(req)]
  <2>1. Becomes(p, [pc |-> "build", command |-> x4[p].command,
                    books |-> x4[p].books, tag |-> C!Tag(req),
                    made |-> x4[p].made,
                    errors |-> x4[p].errors, exit |-> x4[p].exit])
    <3>1. DOMAIN x4' = Procs
      BY <1>6 DEF SandboxInv
    <3>2. \A q \in Procs \ {p} : x4'[q] = x4[q]
      BY <1>6 DEF SandboxInv
    <3>3. Whole(x4[p])
      BY DEF SandboxInv, ProcessOK
    <3>4. x4'[p] = [pc |-> "build", command |-> x4[p].command,
                    books |-> x4[p].books, tag |-> C!Tag(req),
                    made |-> x4[p].made,
                    errors |-> x4[p].errors, exit |-> x4[p].exit]
      BY <1>6, <3>3 DEF SandboxInv, Whole
    <3>5. QED
      BY <3>1, <3>2, <3>4 DEF Becomes
  <2>2. QED
    BY <1>1, <1>2, <1>3, <2>1, SandboxMove
<1>7. QED
  BY <1>4, <1>5, <1>6 DEF C!Look, C!Book

(* The image that is built has the tag, and what the tag names.            *)
LEMMA BuildKept ==
  ASSUME SandboxInv, NEW p \in Procs, C!Build(p) PROVE SandboxInv'
<1> DEFINE book == Head(x4[p].books)
           made == C!Recipe(book)
<1>1. p \notin x3 /\ x3' = x3 /\ TagOf(x4[p].tag, book.requires)
  BY DEF C!Build, SandboxInv, ProcessOK
<1>2. CASE C!NoImage(p) /\ x2' = x2
  BY <1>1, <1>2, NoImageKept
<1>3. CASE /\ x2' = {i \in x2 : i.tag # x4[p].tag} \union {[tag |-> x4[p].tag, made |-> made]}
           /\ C!Ready(p, x4[p].tag)
  <2>1. x4[p].tag[1] # "custom" => made = MadeFor(x4[p].tag)
    <3>1. made = IF book.requires.sandbox = "custom" THEN x1[book.dir] ELSE C!Generated(book.requires)
      BY DEF C!Recipe
    <3>2. C!Generated(book.requires) = MadeFor(x4[p].tag)
      BY <1>1, GeneratedByTag
    <3>3. QED
      BY <1>1, <3>1, <3>2 DEF TagOf
  <2> HIDE DEF made
  <2>2. ImagesAreTagged'
    BY <1>3, <2>1 DEF SandboxInv, ImagesAreTagged
  <2>3. QED
    BY <1>1, <1>3, <2>2, ReadyKept
<1>4. QED
  BY <1>2, <1>3 DEF C!Build, C!Book

(* The environment file changes no tag.                                    *)
LEMMA WriteEnvKept ==
  ASSUME SandboxInv, NEW p \in Procs, C!WriteEnv(p) PROVE SandboxInv'
<1>1. p \notin x3 /\ TagOf(x4[p].tag, Head(x4[p].books).requires)
  BY DEF C!WriteEnv, SandboxInv, ProcessOK
<1>2. ImagesAreTagged'
  BY DEF C!WriteEnv, SandboxInv, ImagesAreTagged
<1>3. CASE x3' = x3 \union {p} /\ C!Step(p, "start")
  <2>1. Becomes(p, [pc |-> "start", command |-> x4[p].command,
                    books |-> x4[p].books, tag |-> x4[p].tag,
                    made |-> x4[p].made,
                    errors |-> x4[p].errors, exit |-> x4[p].exit])
    <3>1. DOMAIN x4' = Procs
      BY <1>3 DEF C!Step, SandboxInv
    <3>2. \A q \in Procs \ {p} : x4'[q] = x4[q]
      BY <1>3 DEF C!Step, SandboxInv
    <3>3. Whole(x4[p])
      BY DEF SandboxInv, ProcessOK
    <3>4. x4'[p] = [pc |-> "start", command |-> x4[p].command,
                    books |-> x4[p].books, tag |-> x4[p].tag,
                    made |-> x4[p].made,
                    errors |-> x4[p].errors, exit |-> x4[p].exit]
      BY <1>3, <3>3 DEF C!Step, SandboxInv, Whole
    <3>5. QED
      BY <3>1, <3>2, <3>4 DEF Becomes
  <2>2. QED
    BY <1>1, <1>2, <1>3, <2>1, SandboxMove
<1>4. CASE C!Exits(p, C!BlockFailed) /\ x3' = x3
  <2>1. Becomes(p, [pc |-> "done", command |-> x4[p].command,
                    books |-> x4[p].books, tag |-> x4[p].tag,
                    made |-> x4[p].made,
                    errors |-> x4[p].errors, exit |-> 1])
    <3>1. DOMAIN x4' = Procs
      BY <1>4 DEF C!Exits, C!BlockFailed, SandboxInv
    <3>2. \A q \in Procs \ {p} : x4'[q] = x4[q]
      BY <1>4 DEF C!Exits, C!BlockFailed, SandboxInv
    <3>3. Whole(x4[p])
      BY DEF SandboxInv, ProcessOK
    <3>4. x4'[p] = [pc |-> "done", command |-> x4[p].command,
                    books |-> x4[p].books, tag |-> x4[p].tag,
                    made |-> x4[p].made,
                    errors |-> x4[p].errors, exit |-> 1]
      BY <1>4, <3>3 DEF C!Exits, C!BlockFailed, SandboxInv, Whole
    <3>5. QED
      BY <3>1, <3>2, <3>4 DEF Becomes
  <2>2. QED
    BY <1>1, <1>2, <1>4, <2>1, SandboxMove
<1>5. QED
  BY <1>3, <1>4 DEF C!WriteEnv

(* The container starts from the image that has the tag.                   *)
LEMMA StartContainerKept ==
  ASSUME SandboxInv, NEW p \in Procs, C!StartContainer(p) PROVE SandboxInv'
<1>1. ImagesAreTagged' /\ x3' = x3
  BY DEF C!StartContainer, SandboxInv, ImagesAreTagged
<1>2. TagOf(x4[p].tag, Head(x4[p].books).requires)
  BY DEF C!StartContainer, SandboxInv, ProcessOK
<1>3. CASE C!Has(x4[p].tag)
  <2> DEFINE image == CHOOSE i \in x2 : i.tag = x4[p].tag
  <2>1. image \in x2 /\ image.tag = x4[p].tag
    BY <1>3 DEF C!Has
  <2>2. x4[p].tag[1] # "custom" => image.made = MadeFor(x4[p].tag)
    BY <2>1 DEF SandboxInv, ImagesAreTagged
  <2>3. x4' = [x4 EXCEPT ![p].pc = "inside", ![p].made = image.made, ![p].exit = C!BlockFailed]
    BY <1>3 DEF C!StartContainer
  <2> HIDE DEF image
  <2>4. Becomes(p, [pc |-> "inside", command |-> x4[p].command,
                    books |-> x4[p].books, tag |-> x4[p].tag,
                    made |-> image.made,
                    errors |-> x4[p].errors, exit |-> 1])
    <3>1. DOMAIN x4' = Procs
      BY <2>3 DEF C!BlockFailed, SandboxInv
    <3>2. \A q \in Procs \ {p} : x4'[q] = x4[q]
      BY <2>3 DEF C!BlockFailed, SandboxInv
    <3>3. Whole(x4[p])
      BY DEF SandboxInv, ProcessOK
    <3>4. x4'[p] = [pc |-> "inside", command |-> x4[p].command,
                    books |-> x4[p].books, tag |-> x4[p].tag,
                    made |-> image.made,
                    errors |-> x4[p].errors, exit |-> 1]
      BY <2>3, <3>3 DEF C!BlockFailed, SandboxInv, Whole
    <3>5. QED
      BY <3>1, <3>2, <3>4 DEF Becomes
  <2>5. QED
    BY <1>1, <1>2, <2>2, <2>4, SandboxMove DEF TagOf
<1>4. CASE ~C!Has(x4[p].tag)
  <2>1. x4' = [x4 EXCEPT ![p].pc = "remove", ![p].made = @, ![p].exit = C!BlockFailed]
    BY <1>4 DEF C!StartContainer
  <2>2. Becomes(p, [pc |-> "remove", command |-> x4[p].command,
                    books |-> x4[p].books, tag |-> x4[p].tag,
                    made |-> x4[p].made,
                    errors |-> x4[p].errors, exit |-> 1])
    <3>1. DOMAIN x4' = Procs
      BY <2>1 DEF C!BlockFailed, SandboxInv
    <3>2. \A q \in Procs \ {p} : x4'[q] = x4[q]
      BY <2>1 DEF C!BlockFailed, SandboxInv
    <3>3. Whole(x4[p])
      BY DEF SandboxInv, ProcessOK
    <3>4. x4'[p] = [pc |-> "remove", command |-> x4[p].command,
                    books |-> x4[p].books, tag |-> x4[p].tag,
                    made |-> x4[p].made,
                    errors |-> x4[p].errors, exit |-> 1]
      BY <2>1, <3>3 DEF C!BlockFailed, SandboxInv, Whole
    <3>5. QED
      BY <3>1, <3>2, <3>4 DEF Becomes
  <2>3. QED
    BY <1>1, <2>2, SandboxMove
<1>5. QED
  BY <1>3, <1>4

(* The container ends: the file of its environment is still to be removed. *)
LEMMA ContainerEndsKept ==
  ASSUME SandboxInv, NEW p \in Procs, NEW code, C!ContainerEnds(p, code) PROVE SandboxInv'
<1>1. ImagesAreTagged' /\ x3' = x3
  BY DEF C!ContainerEnds, SandboxInv, ImagesAreTagged
<1>2. Becomes(p, [pc |-> "remove", command |-> x4[p].command,
                  books |-> x4[p].books, tag |-> x4[p].tag,
                  made |-> x4[p].made,
                  errors |-> x4[p].errors, exit |-> code])
  <2>1. DOMAIN x4' = Procs
    BY DEF C!ContainerEnds, SandboxInv
  <2>2. \A q \in Procs \ {p} : x4'[q] = x4[q]
    BY DEF C!ContainerEnds, SandboxInv
  <2>3. Whole(x4[p])
    BY DEF SandboxInv, ProcessOK
  <2>4. x4'[p] = [pc |-> "remove", command |-> x4[p].command,
                  books |-> x4[p].books, tag |-> x4[p].tag,
                  made |-> x4[p].made,
                  errors |-> x4[p].errors, exit |-> code]
    BY <2>3 DEF C!ContainerEnds, SandboxInv, Whole
  <2>5. QED
    BY <2>1, <2>2, <2>4 DEF Becomes
<1>3. QED
  BY <1>1, <1>2, SandboxMove

(* The file is removed, or stays behind.                                   *)
LEMMA RemoveEnvKept ==
  ASSUME SandboxInv, NEW p \in Procs, C!RemoveEnv(p) PROVE SandboxInv'
<1>1. ImagesAreTagged' /\ x3' = x3 \ {p}
  BY DEF C!RemoveEnv, SandboxInv, ImagesAreTagged
<1>2. Becomes(p, [pc |-> "done", command |-> x4[p].command, books |-> x4[p].books, tag |-> x4[p].tag,
                  made |-> x4[p].made,
                  errors |-> x4[p].errors, exit |-> x4[p].exit])
  <2>1. DOMAIN x4' = Procs
    BY DEF C!RemoveEnv, C!Exits, SandboxInv
  <2>2. \A q \in Procs \ {p} : x4'[q] = x4[q]
    BY DEF C!RemoveEnv, C!Exits, SandboxInv
  <2>3. Whole(x4[p])
    BY DEF SandboxInv, ProcessOK
  <2>4. x4'[p] = [pc |-> "done", command |-> x4[p].command, books |-> x4[p].books, tag |-> x4[p].tag,
                  made |-> x4[p].made,
                  errors |-> x4[p].errors, exit |-> x4[p].exit]
    BY <2>3 DEF C!RemoveEnv, C!Exits, SandboxInv, Whole
  <2>5. QED
    BY <2>1, <2>2, <2>4 DEF Becomes
<1>3. QED
  BY <1>1, <1>2, SandboxMove

(* A process that is killed leaves its file behind.                        *)
LEMMA SandboxKillKept ==
  ASSUME SandboxInv, NEW p \in Procs, C!Kill(p) PROVE SandboxInv'
<1>1. ImagesAreTagged' /\ x3' = x3
  BY DEF C!Kill, SandboxInv, ImagesAreTagged
<1>2. Becomes(p, [pc |-> "killed", command |-> x4[p].command,
                  books |-> x4[p].books, tag |-> x4[p].tag,
                  made |-> x4[p].made,
                  errors |-> x4[p].errors, exit |-> x4[p].exit])
  <2>1. DOMAIN x4' = Procs
    BY DEF C!Kill, C!Step, SandboxInv
  <2>2. \A q \in Procs \ {p} : x4'[q] = x4[q]
    BY DEF C!Kill, C!Step, SandboxInv
  <2>3. Whole(x4[p])
    BY DEF SandboxInv, ProcessOK
  <2>4. x4'[p] = [pc |-> "killed", command |-> x4[p].command,
                  books |-> x4[p].books, tag |-> x4[p].tag,
                  made |-> x4[p].made,
                  errors |-> x4[p].errors, exit |-> x4[p].exit]
    BY <2>3 DEF C!Kill, C!Step, SandboxInv, Whole
  <2>5. QED
    BY <2>1, <2>2, <2>4 DEF Becomes
<1>3. QED
  BY <1>1, <1>2, SandboxMove

(* Pruned images leave the others as they were; a Dockerfile that is       *)
(* edited is not looked at again.                                          *)
LEMMA OthersKept ==
  ASSUME SandboxInv, \/ \E i \in x2 : C!Prune(i)
                     \/ \E d \in Dirs, content \in DockerContents : C!Edit(d, content)
                     \/ UNCHANGED <<x1, x2, x3, x4, x5>>
  PROVE  SandboxInv'
<1>1. x3' = x3 /\ x4' = x4 /\ x2' \subseteq x2
  BY DEF C!Prune, C!Edit
<1>2. ImagesAreTagged'
  BY <1>1 DEF SandboxInv, ImagesAreTagged
<1>3. \A p \in Procs : ProcessOK(p)'
  BY <1>1 DEF SandboxInv, ProcessOK, Whole
<1>4. QED
  BY <1>1, <1>2, <1>3 DEF SandboxInv

(* Every step of the sandbox keeps the invariant.                          *)
LEMMA SandboxKept == ASSUME SandboxInv, C!SandboxNext PROVE SandboxInv'
<1>1. ASSUME NEW p \in Procs,
             \/ \E job \in SandboxJobs : C!Start(p, job)
             \/ C!RunInProcess(p) \/ C!Consider(p) \/ C!Enter(p) \/ C!Look(p) \/ C!Build(p)
      PROVE  SandboxInv'
  BY <1>1, StartKept, RunInProcessKept, ConsiderKept, EnterKept, LookAtImageKept, BuildKept
<1>2. ASSUME NEW p \in Procs,
             \/ C!WriteEnv(p) \/ C!StartContainer(p) \/ C!RemoveEnv(p) \/ C!Kill(p)
             \/ \E code \in {C!Success, C!BlockFailed} : C!ContainerEnds(p, code)
      PROVE  SandboxInv'
  BY <1>2, WriteEnvKept, StartContainerKept, RemoveEnvKept, SandboxKillKept, ContainerEndsKept
<1>3. QED
  BY <1>1, <1>2, OthersKept DEF C!SandboxNext

LEMMA SandboxHolds == FrontSpec => [](scenario = "sandbox" => SandboxInv)
<1> DEFINE I == scenario = "sandbox" => SandboxInv
<1>1. FrontInit => I
  <2>1. ASSUME FrontInit, scenario = "sandbox" PROVE C!SandboxInit
    BY <2>1 DEF FrontInit
  <2>2. C!SandboxInit => SandboxInv
    BY DEF C!SandboxInit, C!Idle, SandboxInv, ImagesAreTagged, ProcessOK, Whole
  <2>3. QED
    BY <2>1, <2>2
<1>2. I /\ [FrontNext]_<<scenario, vars, xs>> => I'
  <2>1. ASSUME SandboxInv, scenario = "sandbox", FrontNext PROVE SandboxInv'
    <3>1. C!SandboxNext
      BY <2>1 DEF FrontNext
    <3>2. QED
      BY <2>1, <3>1, SandboxKept
  <2>2. ASSUME [FrontNext]_<<scenario, vars, xs>> PROVE scenario' = scenario
    BY <2>2 DEF FrontNext
  <2>3. ASSUME SandboxInv, UNCHANGED <<scenario, vars, xs>> PROVE SandboxInv'
    BY <2>3, OthersKept
  <2>4. QED
    BY <2>1, <2>2, <2>3
<1>3. QED
  BY <1>1, <1>2, PTL DEF FrontSpec

(* A container runs from an image made of what its workbook requires,      *)
(* whoever built it and whatever was pruned, and a process that was not    *)
(* killed leaves no environment file: ContainerAsRequired.                 *)
THEOREM ContainersAsRequired == FrontSpec => []ContainerAsRequired
<1>1. (scenario = "sandbox" => SandboxInv) => ContainerAsRequired
  <2>1. SandboxInv => C!RunsRequired
    <3>1. SUFFICES ASSUME SandboxInv, NEW p \in Procs, x4[p].pc = "inside",
                          Head(x4[p].books).requires.sandbox # "custom"
                   PROVE  x4[p].made = C!Generated(Head(x4[p].books).requires)
      BY DEF C!RunsRequired, C!Inside, C!Book
    <3>2. TagOf(x4[p].tag, Head(x4[p].books).requires) /\ x4[p].made = MadeFor(x4[p].tag)
      BY <3>1 DEF SandboxInv, ProcessOK
    <3>3. QED
      BY <3>2, GeneratedByTag
  <2>2. SandboxInv => C!EnvFileGone
    BY DEF SandboxInv, ProcessOK, C!EnvFileGone
  <2>3. QED
    BY <2>1, <2>2 DEF ContainerAsRequired
<1>2. QED
  BY <1>1, SandboxHolds, PTL

(* The types.  Docker has one image for each tag: a build takes the tag    *)
(* from the image that had it.                                             *)
OneImage == \A i, j \in x2 : i.tag = j.tag => i = j
ExitsOK == \A p \in Procs : x4[p].exit \in {-1, C!Success, C!BlockFailed, C!Unavailable}
SandboxTyped == x3 \subseteq Procs /\ x5 \in 0..MaxEdits /\ OneImage /\ ExitsOK

LEMMA ExitsKept ==
  ASSUME SandboxInv, SandboxTyped, NEW p \in Procs,
         \/ \E job \in SandboxJobs : C!Start(p, job)
         \/ C!RunInProcess(p) \/ C!Consider(p) \/ C!Enter(p) \/ C!Look(p) \/ C!Build(p) \/ C!WriteEnv(p)
         \/ C!StartContainer(p) \/ C!RemoveEnv(p) \/ C!Kill(p)
         \/ \E code \in {C!Success, C!BlockFailed} : C!ContainerEnds(p, code)
  PROVE  ExitsOK'
<1> USE DEF C!Step, C!Exits, C!NoImage, C!Ready
<1>1. DOMAIN x4 = Procs /\ Whole(x4[p])
  BY DEF SandboxInv, ProcessOK
<1>2. \A q \in Procs \ {p} : x4'[q].exit = x4[q].exit
  <2>1. CASE \E job \in SandboxJobs : C!Start(p, job)
    BY <1>1, <2>1 DEF C!Start
  <2>2. CASE C!RunInProcess(p) \/ C!Consider(p) \/ C!Enter(p) \/ C!Look(p)
    BY <1>1, <2>2 DEF C!RunInProcess, C!Consider, C!Enter, C!Look
  <2>3. CASE C!Build(p) \/ C!WriteEnv(p)
    BY <1>1, <2>3 DEF C!Build, C!WriteEnv
  <2>4. CASE C!StartContainer(p)
    BY <1>1, <2>4 DEF C!StartContainer
  <2>5. CASE C!RemoveEnv(p) \/ C!Kill(p) \/ \E code \in {C!Success, C!BlockFailed} : C!ContainerEnds(p, code)
    BY <1>1, <2>5 DEF C!RemoveEnv, C!Kill, C!ContainerEnds
  <2>6. QED
    BY <2>1, <2>2, <2>3, <2>4, <2>5
<1>3. x4'[p].exit \in {x4[p].exit, -1, C!Success, C!BlockFailed, C!Unavailable}
  <2>1. CASE \E job \in SandboxJobs : C!Start(p, job)
    BY <1>1, <2>1 DEF C!Start, C!Idle
  <2>2. CASE C!RunInProcess(p) \/ C!Consider(p) \/ C!Enter(p) \/ C!Look(p)
    BY <1>1, <2>2 DEF C!RunInProcess, C!Consider, C!Enter, C!Look, Whole
  <2>3. CASE C!Build(p) \/ C!WriteEnv(p)
    BY <1>1, <2>3 DEF C!Build, C!WriteEnv, Whole
  <2>4. CASE C!StartContainer(p)
    BY <1>1, <2>4 DEF C!StartContainer, Whole
  <2>5. CASE C!RemoveEnv(p) \/ C!Kill(p) \/ \E code \in {C!Success, C!BlockFailed} : C!ContainerEnds(p, code)
    BY <1>1, <2>5 DEF C!RemoveEnv, C!Kill, C!ContainerEnds, Whole
  <2>6. QED
    BY <2>1, <2>2, <2>3, <2>4, <2>5
<1>4. QED
  BY <1>2, <1>3 DEF SandboxTyped, ExitsOK

LEMMA SandboxTypes == ASSUME SandboxInv, SandboxTyped, C!SandboxNext PROVE SandboxTyped'
<1>1. ASSUME NEW p \in Procs,
             \/ \E job \in SandboxJobs : C!Start(p, job)
             \/ C!RunInProcess(p) \/ C!Consider(p) \/ C!Enter(p) \/ C!Look(p) \/ C!Build(p) \/ C!WriteEnv(p)
             \/ C!StartContainer(p) \/ C!RemoveEnv(p) \/ C!Kill(p)
             \/ \E code \in {C!Success, C!BlockFailed} : C!ContainerEnds(p, code)
      PROVE  SandboxTyped'
  <2>1. x3' \subseteq x3 \cup {p} /\ x5' = x5
    BY <1>1 DEF C!Start, C!RunInProcess, C!Consider, C!Enter, C!Look, C!Build, C!WriteEnv,
                C!StartContainer, C!RemoveEnv, C!Kill, C!ContainerEnds
  <2>2. OneImage'
    <3>1. CASE C!Build(p)
      <4>1. CASE x2' = x2
        BY <4>1 DEF SandboxTyped, OneImage
      <4>2. CASE x2' = {i \in x2 : i.tag # x4[p].tag} \union {[tag |-> x4[p].tag, made |-> C!Recipe(C!Book(p))]}
        BY <4>2 DEF SandboxTyped, OneImage
      <4>3. QED
        BY <3>1, <4>1, <4>2 DEF C!Build
    <3>2. CASE x2' = x2
      BY <3>2 DEF SandboxTyped, OneImage
    <3>3. QED
      BY <1>1, <3>1, <3>2 DEF C!Start, C!RunInProcess, C!Consider, C!Enter, C!Look, C!WriteEnv,
                C!StartContainer, C!RemoveEnv, C!Kill, C!ContainerEnds
  <2>3. ExitsOK'
    BY <1>1, ExitsKept
  <2>4. QED
    BY <2>1, <2>2, <2>3 DEF SandboxTyped
<1>2. ASSUME NEW i \in x2, C!Prune(i) PROVE SandboxTyped'
  BY <1>2 DEF C!Prune, SandboxTyped, OneImage, ExitsOK
<1>3. ASSUME NEW d \in Dirs, NEW content \in DockerContents, C!Edit(d, content) PROVE SandboxTyped'
  <2>1. MaxEdits \in Nat
    BY FrontAssumption DEF C!SandboxAssumption
  <2>2. x5' \in 0..MaxEdits /\ x2' = x2 /\ x3' = x3 /\ x4' = x4
    BY <1>3, <2>1 DEF C!Edit, SandboxTyped
  <2>3. QED
    BY <2>2 DEF SandboxTyped, OneImage, ExitsOK
<1>4. QED
  BY <1>1, <1>2, <1>3 DEF C!SandboxNext

LEMMA SandboxTypesStart == ASSUME C!SandboxInit PROVE SandboxTyped
BY FrontAssumption DEF C!SandboxAssumption, C!SandboxInit, C!Idle, SandboxTyped, OneImage, ExitsOK

LEMMA SandboxTypesHold == ASSUME SandboxTyped PROVE C!SandboxTypeOK
BY DEF C!SandboxTypeOK, SandboxTyped, OneImage, ExitsOK

LEMMA SandboxKeepsTypes == FrontSpec => [](scenario = "sandbox" => C!SandboxTypeOK)
<1> DEFINE I == scenario = "sandbox" => SandboxInv
           K == scenario = "sandbox" => SandboxTyped
<1>1. FrontInit => K
  <2>1. ASSUME FrontInit, scenario = "sandbox" PROVE C!SandboxInit
    BY <2>1 DEF FrontInit
  <2>2. QED
    BY <2>1, SandboxTypesStart
<1>2. I /\ K /\ [FrontNext]_<<scenario, vars, xs>> => K'
  <2>1. ASSUME SandboxInv, SandboxTyped, scenario = "sandbox", FrontNext PROVE SandboxTyped'
    <3>1. C!SandboxNext
      BY <2>1 DEF FrontNext
    <3>2. QED
      BY <2>1, <3>1, SandboxTypes
  <2>2. ASSUME [FrontNext]_<<scenario, vars, xs>> PROVE scenario' = scenario
    BY <2>2 DEF FrontNext
  <2>3. ASSUME SandboxTyped, UNCHANGED <<scenario, vars, xs>> PROVE SandboxTyped'
    BY <2>3 DEF SandboxTyped, OneImage, ExitsOK
  <2>4. QED
    BY <2>1, <2>2, <2>3
<1>3. I /\ K => (scenario = "sandbox" => C!SandboxTypeOK)
  BY SandboxTypesHold
<1>4. QED
  BY <1>1, <1>2, <1>3, SandboxHolds, PTL DEF FrontSpec

-----------------------------------------------------------------------------
(* The blocks of a workbook.                                               *)

(* What the record of the run keeps.                                       *)
RunFields == {"pc", "pos", "replay", "mode", "env", "outputs", "cache", "out", "seen", "before",
              "result", "line", "own", "forgiven", "budget", "denied", "runs"}

(* The code of the key's block has run, on the output that is in the key.  *)
HasRun(k) == [block |-> k.block, source |-> k.source, out |-> k.out] \in x6

PositionsOK ==
  /\ DOMAIN x1 = B!Numbers /\ \A b \in B!Numbers : x1[b] \in {0, 1}
  /\ DOMAIN x4 = {"exists", "next", "out"} /\ x4.next \in 1 .. Len(Workbook) + 1
  /\ DOMAIN x5 = RunFields
  /\ x5.pos \in Nat \ {0} /\ x5.replay \in 1 .. Len(Workbook) + 1
  /\ x5.pc \in {"live", "repair", "record", "capture", "settle"} => x5.pos \in B!Numbers

(* No key is in a store, or was one to skip on, before its code has run:   *)
(* the block at hand has when it is recorded as a success.                 *)
KeysHaveRun ==
  /\ \A k \in x3 : HasRun(k)
  /\ \A k \in x5.cache : HasRun(k)
  /\ \A k \in x8 : HasRun(k)
  /\ x5.pc \in {"live", "repair", "record"} => x5.out = x5.seen
  /\ x5.pc = "repair" => x5.result # 0
  /\ x5.pc = "record" /\ x5.result = 0 /\ ~Workbook[x5.pos].no_cache
       => [block |-> x5.pos, source |-> x1[x5.pos], out |-> x5.seen] \in x6

(* Once an artifact was passed over, no block that is left lacks it.       *)
NoneLacks ==
  x2 = B!Absent => \A b \in B!Numbers : b >= x5.pos => ~Workbook[b].reads
DeniesNone ==
  /\ x5.denied => NoneLacks
  /\ x5.pc = "off" => ~x5.denied

EnvIsCaptured == x5.replay = 1 /\ ~x5.mode.named => x5.env = x5.outputs

BlocksInv == PositionsOK /\ KeysHaveRun /\ DeniesNone /\ EnvIsCaptured

(* A workbook has a length.                                                *)
LEMMA Length == Len(Workbook) \in Nat \ {0}
BY FrontAssumption DEF B!BlocksAssumption

(* An edit between runs changes the source, and no key.                    *)
LEMMA EditKept == ASSUME BlocksInv, NEW b \in B!Numbers, B!Edit(b) PROVE BlocksInv'
<1>1. UNCHANGED <<x2, x3, x4, x5, x6, x7, x8>> /\ x1' = [x1 EXCEPT ![b] = 1] /\ x5.pc = "off"
  BY DEF B!Edit
<1>2. PositionsOK'
  BY <1>1 DEF BlocksInv, PositionsOK
<1>3. KeysHaveRun'
  BY <1>1 DEF BlocksInv, KeysHaveRun, HasRun
<1>4. DeniesNone' /\ EnvIsCaptured'
  BY <1>1 DEF BlocksInv, DeniesNone, NoneLacks, EnvIsCaptured
<1>5. QED
  BY <1>2, <1>3, <1>4 DEF BlocksInv

(* Artifacts go between runs, when none was passed over.                   *)
LEMMA FreshArtifactsKept == ASSUME BlocksInv, B!FreshArtifacts PROVE BlocksInv'
<1>1. UNCHANGED <<x1, x3, x4, x5, x6, x7, x8>> /\ x5.pc = "off"
  BY DEF B!FreshArtifacts
<1>2. PositionsOK'
  BY <1>1 DEF BlocksInv, PositionsOK
<1>3. KeysHaveRun'
  BY <1>1 DEF BlocksInv, KeysHaveRun, HasRun
<1>4. DeniesNone' /\ EnvIsCaptured'
  BY <1>1 DEF BlocksInv, DeniesNone, NoneLacks, EnvIsCaptured
<1>5. QED
  BY <1>2, <1>3, <1>4 DEF BlocksInv

(* A run starts with the keys of the store, or with none.                  *)
LEMMA StartBlocksKept == ASSUME BlocksInv, NEW mode, B!Start(mode) PROVE BlocksInv'
<1>1. UNCHANGED <<x1, x2, x3, x6, x7, x8>> /\ x5.pc = "off"
  BY DEF B!Start
<1> DEFINE resuming == mode.named /\ x4.exists
           cache == IF mode.caching THEN x3 ELSE {}
           replay == IF resuming THEN x4.next ELSE 1
           outputs == IF resuming THEN x4.out ELSE B!Absent
<1>2. x5' = [B!Off EXCEPT !.pc = "block", !.runs = x5.runs + 1, !.mode = mode, !.cache = cache,
                          !.replay = replay, !.outputs = outputs]
  BY DEF B!Start
<1>3. replay \in 1 .. Len(Workbook) + 1
  BY Length DEF BlocksInv, PositionsOK
<1>4. replay = 1 /\ ~mode.named => outputs = B!Absent
  OBVIOUS
<1>5. \A k \in cache : k \in x3
  OBVIOUS
<1> HIDE DEF cache, replay, outputs
<1>6. /\ DOMAIN x5' = RunFields /\ x5'.pc = "block" /\ x5'.pos = 1 /\ x5'.replay = replay
      /\ x5'.mode = mode /\ x5'.env = B!Absent /\ x5'.outputs = outputs /\ x5'.cache = cache
      /\ ~x5'.denied
  BY <1>2 DEF B!Off, RunFields
<1>7. DOMAIN x4' = {"exists", "next", "out"} /\ x4'.next \in 1 .. Len(Workbook) + 1
  BY DEF B!Start, BlocksInv, PositionsOK
<1>8. PositionsOK'
  BY <1>1, <1>3, <1>6, <1>7 DEF BlocksInv, PositionsOK
<1>9. KeysHaveRun'
  BY <1>1, <1>5, <1>6 DEF BlocksInv, KeysHaveRun, HasRun
<1>10. DeniesNone' /\ EnvIsCaptured'
  BY <1>4, <1>6 DEF DeniesNone, EnvIsCaptured
<1>11. QED
  BY <1>8, <1>9, <1>10 DEF BlocksInv

(* A run that is over, or killed, keeps nothing.                           *)
LEMMA OffKept ==
  ASSUME BlocksInv, x5' = [B!Off EXCEPT !.runs = x5.runs], UNCHANGED <<x1, x2, x4, x6, x8>>,
         \A k \in x3' : HasRun(k)
  PROVE  BlocksInv'
<1>1. /\ DOMAIN x5' = RunFields /\ x5'.pc = "off" /\ x5'.pos = 1 /\ x5'.replay = 1
      /\ x5'.env = B!Absent /\ x5'.outputs = B!Absent /\ x5'.cache = {} /\ ~x5'.denied
  BY DEF B!Off, RunFields
<1>2. PositionsOK'
  BY <1>1, Length DEF BlocksInv, PositionsOK
<1>3. KeysHaveRun'
  BY <1>1 DEF BlocksInv, KeysHaveRun, HasRun
<1>4. DeniesNone' /\ EnvIsCaptured'
  BY <1>1 DEF DeniesNone, EnvIsCaptured
<1>5. QED
  BY <1>2, <1>3, <1>4 DEF BlocksInv

(* A run that is interrupted leaves the store as it was.                   *)
LEMMA InterruptKept == ASSUME BlocksInv, B!Interrupt PROVE BlocksInv'
BY OffKept DEF B!Interrupt, BlocksInv, KeysHaveRun

(* A run that ends stores the keys it holds.                               *)
LEMMA FinishKept == ASSUME BlocksInv, B!Finish PROVE BlocksInv'
<1>1. \A k \in x3' : HasRun(k)
  BY DEF B!Finish, BlocksInv, KeysHaveRun
<1>2. QED
  BY <1>1, OffKept DEF B!Finish

(* Changes of a run that leave its place in the workbook.                  *)
InPlace == x5'.pos = x5.pos /\ x5'.replay = x5.replay /\ x5'.mode = x5.mode /\ x5'.denied = x5.denied

(* A replayed block leaves its captures in the outputs; no run that starts *)
(* at the first block replays.                                             *)
LEMMA ReplayKept == ASSUME BlocksInv, B!Replay PROVE BlocksInv'
<1>1. PICK code \in {0, 1}, line \in B!Lines(x5.pos) :
         LET captured == code = 0 /\ line \in B!Versions
         IN  /\ x5' = [x5 EXCEPT !.pos = @ + 1, !.outputs = IF captured THEN line ELSE @]
             /\ x4' = IF captured THEN B!Keep(line) ELSE x4
  BY DEF B!Replay
<1> DEFINE outputs == IF code = 0 /\ line \in B!Versions THEN line ELSE x5.outputs
<1>2. x5' = [x5 EXCEPT !.pos = x5.pos + 1, !.outputs = outputs]
  BY <1>1
<1> HIDE DEF outputs
<1>3. /\ x5.pc = "block" /\ x5.pos < x5.replay /\ UNCHANGED <<x1, x3, x6, x7, x8>>
      /\ x2' = B!Written(x5.pos)
  BY DEF B!Replay
<1>4. /\ DOMAIN x5' = RunFields /\ x5'.pc = x5.pc /\ x5'.pos = x5.pos + 1 /\ x5'.replay = x5.replay
      /\ x5'.mode = x5.mode /\ x5'.denied = x5.denied /\ x5'.cache = x5.cache
  BY <1>2 DEF RunFields, BlocksInv, PositionsOK
<1>5. DOMAIN x4' = {"exists", "next", "out"} /\ x4'.next = x4.next
  BY <1>1 DEF B!Keep, BlocksInv, PositionsOK
<1>6. PositionsOK'
  BY <1>3, <1>4, <1>5 DEF BlocksInv, PositionsOK
<1>7. KeysHaveRun'
  BY <1>3, <1>4 DEF BlocksInv, KeysHaveRun, HasRun
<1>8. x5.pos \in B!Numbers /\ x5.pos \in Nat /\ x5.replay # 1
  BY <1>3, Length DEF BlocksInv, PositionsOK, B!Numbers
<1>9. x2' = B!Absent => x2 = B!Absent
  BY <1>3, <1>8 DEF B!Written, B!Absent, BlocksInv, PositionsOK
<1>10. DeniesNone'
  BY <1>3, <1>4, <1>8, <1>9 DEF BlocksInv, DeniesNone, NoneLacks, B!Numbers
<1>11. EnvIsCaptured'
  BY <1>4, <1>8 DEF EnvIsCaptured
<1>12. QED
  BY <1>6, <1>7, <1>10, <1>11 DEF BlocksInv

(* The checkpoint keeps its shape when the run advances.                   *)
LEMMA AdvanceOK ==
  ASSUME PositionsOK, x5.pos \in B!Numbers
  PROVE  /\ DOMAIN B!Advance(x5.pos + 1) = {"exists", "next", "out"}
         /\ B!Advance(x5.pos + 1).next \in 1 .. Len(Workbook) + 1
<1>1. x5.pos + 1 \in 1 .. Len(Workbook) + 1
  BY Length DEF B!Numbers
<1>2. QED
  BY <1>1 DEF B!Advance, PositionsOK

(* A block is skipped on the cache only when no block after it lacks the   *)
(* artifact it would have written.                                         *)
LEMMA SkipKept == ASSUME BlocksInv, B!Skip PROVE BlocksInv'
<1> DEFINE denies == ~B!SkippedByCondition /\ B!Shape.writes /\ x2 = B!Absent
<1>1. /\ x5.pc = "block" /\ x5.pos \in B!Numbers /\ UNCHANGED <<x1, x2, x3, x6, x7>>
      /\ x4' = B!Advance(x5.pos + 1)
      /\ x5' = [x5 EXCEPT !.pos = @ + 1, !.denied = @ \/ denies]
      /\ x8' = IF B!SkippedByCondition THEN x8 ELSE x8 \cup {B!KeyWith(B!Seen)}
      /\ B!SkippedByCondition \/ B!SkippedByCache
  BY DEF B!Skip
<1>2. DOMAIN x4' = {"exists", "next", "out"} /\ x4'.next \in 1 .. Len(Workbook) + 1
  BY <1>1, AdvanceOK DEF BlocksInv
<1>3. denies => NoneLacks'
  <2>1. ASSUME denies PROVE ~B!InputMissing
    BY <1>1, <2>1 DEF B!SkippedByCache
  <2>2. x5'.pos = x5.pos + 1
    BY <1>1 DEF BlocksInv, PositionsOK, RunFields
  <2>3. QED
    BY <1>1, <2>1, <2>2, Length DEF B!InputMissing, NoneLacks, B!Numbers
<1>4. ~B!SkippedByCondition => HasRun(B!KeyWith(B!Seen))
  BY <1>1 DEF B!SkippedByCache, BlocksInv, KeysHaveRun, B!OutHash, B!Seen
<1> HIDE DEF denies
<1>5. /\ DOMAIN x5' = RunFields /\ x5'.pc = x5.pc /\ x5'.pos = x5.pos + 1 /\ x5'.replay = x5.replay
      /\ x5'.mode = x5.mode /\ x5'.cache = x5.cache /\ x5'.env = x5.env /\ x5'.outputs = x5.outputs
  BY <1>1 DEF BlocksInv, PositionsOK, RunFields
<1>6. x5'.denied = (x5.denied \/ denies)
  BY <1>1 DEF BlocksInv, PositionsOK, RunFields
<1>7. PositionsOK'
  BY <1>1, <1>2, <1>5 DEF BlocksInv, PositionsOK
<1>8. KeysHaveRun'
  <2>1. \A k \in x8' : HasRun(k)
    BY <1>1, <1>4 DEF BlocksInv, KeysHaveRun
  <2>2. QED
    BY <1>1, <1>5, <2>1 DEF BlocksInv, KeysHaveRun, HasRun
<1>9. DeniesNone'
  <2>1. x5'.denied => NoneLacks'
    <3>1. x5.denied => NoneLacks'
      BY <1>1, <1>5 DEF BlocksInv, PositionsOK, DeniesNone, NoneLacks, B!Numbers
    <3>2. QED
      BY <1>3, <1>6, <3>1
  <2>2. QED
    BY <1>1, <1>5, <2>1 DEF DeniesNone
<1>10. EnvIsCaptured'
  BY <1>5 DEF BlocksInv, EnvIsCaptured
<1>11. QED
  BY <1>7, <1>8, <1>9, <1>10 DEF BlocksInv

(* A step within a block that changes neither the keys nor the output.     *)
LEMMA WithinBlock ==
  ASSUME BlocksInv, x5.pos \in B!Numbers, DOMAIN x5' = RunFields, InPlace,
         x5'.env = x5.env, x5'.outputs = x5.outputs, x5'.pc # "off", x5.pc # "off",
         UNCHANGED <<x1, x3, x4, x8>>, x2' = B!Absent => x2 = B!Absent, KeysHaveRun'
  PROVE  BlocksInv'
<1>1. PositionsOK'
  BY DEF BlocksInv, PositionsOK, InPlace
<1>2. DeniesNone'
  BY DEF BlocksInv, PositionsOK, InPlace, DeniesNone, NoneLacks
<1>3. EnvIsCaptured'
  BY DEF BlocksInv, InPlace, EnvIsCaptured
<1>4. QED
  BY <1>1, <1>2, <1>3 DEF BlocksInv

(* The output that is in the key is the one the code will see.             *)
LEMMA BeginKept == ASSUME BlocksInv, B!Begin PROVE BlocksInv'
<1>1. /\ x5.pc = "block" /\ x5.pos \in B!Numbers /\ UNCHANGED <<x1, x2, x3, x4, x6, x7, x8>>
      /\ x5' = [x5 EXCEPT !.pc = "live", !.out = B!OutHash, !.seen = B!Seen, !.before = B!Inputs,
                          !.own = TRUE, !.forgiven = FALSE, !.budget = RepairMax]
  BY DEF B!Begin
<1>2. B!OutHash = B!Seen
  BY DEF B!OutHash, B!Seen
<1>3. /\ DOMAIN x5' = RunFields /\ InPlace /\ x5'.pc = "live" /\ x5'.env = x5.env
      /\ x5'.outputs = x5.outputs /\ x5'.cache = x5.cache /\ x5'.out = x5'.seen
  BY <1>1, <1>2 DEF BlocksInv, PositionsOK, RunFields, InPlace
<1>4. KeysHaveRun'
  BY <1>1, <1>3 DEF BlocksInv, KeysHaveRun, HasRun
<1>5. QED
  BY <1>1, <1>3, <1>4, WithinBlock

(* The code of the block runs: what it ran on is remembered.               *)
LEMMA ExecuteKept == ASSUME BlocksInv, B!Execute PROVE BlocksInv'
<1>1. PICK code \in {0, 1}, line \in B!Lines(x5.pos) :
         /\ x5' = [x5 EXCEPT !.pc = IF B!Repairs(code) THEN "repair" ELSE "record",
                             !.result = code, !.line = line]
         /\ x6' = IF code = 0 /\ ~B!Shape.no_cache
                    THEN x6 \cup {[block |-> x5.pos, source |-> x1[x5.pos], out |-> x5.seen]}
                    ELSE x6
  BY DEF B!Execute
<1>2. /\ x5.pc = "live" /\ UNCHANGED <<x1, x3, x4, x7, x8>> /\ x2' = B!Written(x5.pos)
      /\ x5.pos \in B!Numbers
  BY DEF B!Execute, BlocksInv, PositionsOK
<1>3. /\ DOMAIN x5' = RunFields /\ InPlace /\ x5'.env = x5.env /\ x5'.outputs = x5.outputs
      /\ x5'.cache = x5.cache /\ x5'.out = x5.out /\ x5'.seen = x5.seen /\ x5'.result = code
      /\ x5'.pc \in {"repair", "record"} /\ (x5'.pc = "repair" => code = 1)
  BY <1>1 DEF BlocksInv, PositionsOK, RunFields, InPlace, B!Repairs
<1>4. KeysHaveRun'
  <2>1. x6 \subseteq x6'
    BY <1>1
  <2>2. code = 0 /\ ~Workbook[x5.pos].no_cache
          => [block |-> x5.pos, source |-> x1[x5.pos], out |-> x5.seen] \in x6'
    BY <1>1 DEF B!Shape
  <2>3. \A k : HasRun(k) => HasRun(k)'
    BY <2>1 DEF HasRun
  <2>4. /\ \A k \in x3' : HasRun(k)'
        /\ \A k \in x5'.cache : HasRun(k)'
        /\ \A k \in x8' : HasRun(k)'
    BY <1>2, <1>3, <2>3 DEF BlocksInv, KeysHaveRun
  <2>5. QED
    BY <1>2, <1>3, <2>2, <2>4 DEF BlocksInv, KeysHaveRun, InPlace
<1>5. x2' = B!Absent => x2 = B!Absent
  BY <1>2 DEF B!Written, B!Absent, BlocksInv, PositionsOK
<1>6. QED
  BY <1>2, <1>3, <1>4, <1>5, WithinBlock

(* The code is to run again, after a failure.                              *)
LEMMA AgainKept == ASSUME BlocksInv, NEW own, B!Again(own) PROVE BlocksInv'
<1>1. /\ x5.pc = "repair" /\ x5.pos \in B!Numbers /\ UNCHANGED <<x1, x2, x3, x4, x6, x7, x8>>
      /\ x5' = [x5 EXCEPT !.pc = "live", !.own = own, !.budget = @ - 1]
  BY DEF B!Again, BlocksInv, PositionsOK
<1>2. /\ DOMAIN x5' = RunFields /\ InPlace /\ x5'.pc = "live" /\ x5'.env = x5.env
      /\ x5'.outputs = x5.outputs /\ x5'.cache = x5.cache /\ x5'.out = x5.out /\ x5'.seen = x5.seen
  BY <1>1 DEF BlocksInv, PositionsOK, RunFields, InPlace
<1>3. KeysHaveRun'
  BY <1>1, <1>2 DEF BlocksInv, KeysHaveRun, HasRun
<1>4. QED
  BY <1>1, <1>2, <1>3, WithinBlock

(* A failure stays one when it is recorded.                                *)
LEMMA GiveUpKept == ASSUME BlocksInv, NEW forgiven, B!GiveUp(forgiven) PROVE BlocksInv'
<1>1. /\ x5.pc = "repair" /\ x5.pos \in B!Numbers /\ UNCHANGED <<x1, x2, x3, x4, x6, x7, x8>>
      /\ x5' = [x5 EXCEPT !.pc = "record", !.forgiven = forgiven]
  BY DEF B!GiveUp, BlocksInv, PositionsOK
<1>2. /\ DOMAIN x5' = RunFields /\ InPlace /\ x5'.pc = "record" /\ x5'.env = x5.env
      /\ x5'.outputs = x5.outputs /\ x5'.cache = x5.cache /\ x5'.out = x5.out /\ x5'.seen = x5.seen
      /\ x5'.result = x5.result
  BY <1>1 DEF BlocksInv, PositionsOK, RunFields, InPlace
<1>3. KeysHaveRun'
  BY <1>1, <1>2 DEF BlocksInv, KeysHaveRun, HasRun
<1>4. QED
  BY <1>1, <1>2, <1>3, WithinBlock

(* The key that is recorded is of code that just ran.                      *)
LEMMA RecordKept == ASSUME BlocksInv, B!Record PROVE BlocksInv'
<1> DEFINE cache == IF ~x5.mode.caching \/ B!Shape.no_cache THEN x5.cache
                    ELSE IF x5.result = 0 THEN x5.cache \cup {B!KeyWith(x5.out)}
                    ELSE x5.cache \ {B!KeyWith(x5.out)}
<1>1. /\ x5.pc = "record" /\ x5.pos \in B!Numbers /\ UNCHANGED <<x1, x2, x3, x4, x6, x7, x8>>
      /\ x5' = [x5 EXCEPT !.pc = "capture", !.cache = cache]
  BY DEF B!Record, BlocksInv, PositionsOK
<1>2. \A k \in cache : HasRun(k)
  <2>1. x5.result = 0 /\ ~B!Shape.no_cache => HasRun(B!KeyWith(x5.out))
    BY <1>1 DEF BlocksInv, KeysHaveRun, HasRun, B!KeyWith, B!Shape
  <2>2. QED
    BY <2>1 DEF BlocksInv, KeysHaveRun
<1> HIDE DEF cache
<1>3. /\ DOMAIN x5' = RunFields /\ InPlace /\ x5'.pc = "capture" /\ x5'.env = x5.env
      /\ x5'.outputs = x5.outputs /\ x5'.cache = cache
  BY <1>1 DEF BlocksInv, PositionsOK, RunFields, InPlace
<1>4. KeysHaveRun'
  BY <1>1, <1>2, <1>3 DEF BlocksInv, KeysHaveRun, HasRun
<1>5. QED
  BY <1>1, <1>3, <1>4, WithinBlock

(* What is captured goes to the outputs and to the environment.            *)
LEMMA CaptureKept == ASSUME BlocksInv, B!Capture PROVE BlocksInv'
<1>1. x5.pc = "capture" /\ x5.pos \in B!Numbers /\ UNCHANGED <<x1, x2, x3, x6, x7, x8>>
  BY DEF B!Capture, BlocksInv, PositionsOK
<1>2. CASE x5.line \in B!Versions
  <2>1. /\ x5' = [x5 EXCEPT !.pc = "settle", !.env = x5.line, !.outputs = x5.line]
        /\ x4' = B!Keep(x5.line)
    BY <1>2 DEF B!Capture, B!Exported
  <2>2. /\ DOMAIN x5' = RunFields /\ InPlace /\ x5'.pc = "settle" /\ x5'.env = x5'.outputs
        /\ x5'.cache = x5.cache
    BY <2>1 DEF BlocksInv, PositionsOK, RunFields, InPlace
  <2>3. DOMAIN x4' = {"exists", "next", "out"} /\ x4'.next = x4.next
    BY <2>1 DEF B!Keep, BlocksInv, PositionsOK
  <2>4. PositionsOK'
    BY <1>1, <2>2, <2>3 DEF BlocksInv, PositionsOK, InPlace
  <2>5. KeysHaveRun'
    BY <1>1, <2>2 DEF BlocksInv, KeysHaveRun, HasRun
  <2>6. DeniesNone' /\ EnvIsCaptured'
    BY <1>1, <2>2 DEF BlocksInv, DeniesNone, NoneLacks, EnvIsCaptured, InPlace
  <2>7. QED
    BY <2>4, <2>5, <2>6 DEF BlocksInv
<1>3. CASE x5.line \notin B!Versions
  <2>1. PICK result : x5' = [x5 EXCEPT !.pc = "settle", !.result = result] /\ x4' = x4
    BY <1>3 DEF B!Capture
  <2>2. /\ DOMAIN x5' = RunFields /\ InPlace /\ x5'.pc = "settle" /\ x5'.env = x5.env
        /\ x5'.outputs = x5.outputs /\ x5'.cache = x5.cache
    BY <2>1 DEF BlocksInv, PositionsOK, RunFields, InPlace
  <2>3. KeysHaveRun'
    BY <1>1, <2>2 DEF BlocksInv, KeysHaveRun, HasRun
  <2>4. QED
    BY <1>1, <2>1, <2>2, <2>3, WithinBlock
<1>4. QED
  BY <1>2, <1>3

(* The run passes to the next block, or ends.                              *)
LEMMA SettleKept == ASSUME BlocksInv, B!Settle PROVE BlocksInv'
<1>1. x5.pc = "settle" /\ x5.pos \in B!Numbers /\ UNCHANGED <<x1, x2, x3, x6, x8>>
  BY DEF B!Settle, BlocksInv, PositionsOK
<1>2. PICK pos \in {Len(Workbook) + 1, x5.pos + 1} : x5' = [x5 EXCEPT !.pc = "block", !.pos = pos]
  BY DEF B!Settle
<1>3. x4' \in {x4, B!Advance(x5.pos + 1)}
  BY DEF B!Settle
<1>4. DOMAIN x4' = {"exists", "next", "out"} /\ x4'.next \in 1 .. Len(Workbook) + 1
  BY <1>1, <1>3, AdvanceOK DEF BlocksInv, PositionsOK
<1>5. /\ DOMAIN x5' = RunFields /\ x5'.pc = "block" /\ x5'.pos = pos /\ x5'.replay = x5.replay
      /\ x5'.mode = x5.mode /\ x5'.env = x5.env /\ x5'.outputs = x5.outputs /\ x5'.cache = x5.cache
      /\ x5'.denied = x5.denied
  BY <1>2 DEF BlocksInv, PositionsOK, RunFields
<1>6. pos \in Nat \ {0} /\ pos >= x5.pos
  BY <1>1, <1>2, Length DEF B!Numbers
<1>7. PositionsOK'
  BY <1>1, <1>4, <1>5, <1>6 DEF BlocksInv, PositionsOK
<1>8. KeysHaveRun'
  BY <1>1, <1>5 DEF BlocksInv, KeysHaveRun, HasRun
<1>9. DeniesNone'
  <2>1. NoneLacks => NoneLacks'
    BY <1>1, <1>5, <1>6 DEF NoneLacks, B!Numbers
  <2>2. QED
    BY <1>5, <2>1 DEF BlocksInv, DeniesNone
<1>10. EnvIsCaptured'
  BY <1>5 DEF BlocksInv, EnvIsCaptured
<1>11. QED
  BY <1>7, <1>8, <1>9, <1>10 DEF BlocksInv

(* Every step of a run keeps the invariant.                                *)
LEMMA BlocksKept == ASSUME BlocksInv, B!Next PROVE BlocksInv'
<1>1. CASE \/ \E b \in B!Numbers : B!Edit(b)
           \/ B!FreshArtifacts \/ B!Interrupt \/ \E mode \in BlockFlags : B!Start(mode)
  BY <1>1, EditKept, FreshArtifactsKept, InterruptKept, StartBlocksKept
<1>2. CASE \/ B!Replay \/ B!Skip \/ B!Begin \/ B!Execute \/ B!Record \/ B!Capture \/ B!Settle \/ B!Finish
           \/ \E own \in BOOLEAN : B!Again(own)
           \/ \E f \in BOOLEAN : B!GiveUp(f)
  BY <1>2, ReplayKept, SkipKept, BeginKept, ExecuteKept, RecordKept, CaptureKept, SettleKept,
     FinishKept, AgainKept, GiveUpKept
<1>3. QED
  BY <1>1, <1>2 DEF B!Next, B!Loop

(* The invariant holds as long as the blocks are at work.                  *)
LEMMA BlocksInvariant == FrontSpec => [](scenario = "blocks" => BlocksInv)
<1>1. FrontInit => (scenario = "blocks" => BlocksInv)
  <2>1. ASSUME FrontInit, scenario = "blocks" PROVE B!Init
    BY <2>1 DEF FrontInit
  <2>2. ASSUME B!Init PROVE BlocksInv
    <3>1. /\ DOMAIN x5 = RunFields /\ x5.pc = "off" /\ x5.pos = 1 /\ x5.replay = 1 /\ x5.cache = {}
          /\ x5.env = x5.outputs /\ ~x5.denied
      BY <2>2 DEF B!Init, B!Off, RunFields
    <3>2. PositionsOK
      BY <2>2, <3>1, Length DEF B!Init, PositionsOK
    <3>3. KeysHaveRun
      BY <2>2, <3>1 DEF B!Init, KeysHaveRun
    <3>4. DeniesNone /\ EnvIsCaptured
      BY <3>1 DEF DeniesNone, EnvIsCaptured
    <3>5. QED
      BY <3>2, <3>3, <3>4 DEF BlocksInv
  <2>3. QED
    BY <2>1, <2>2
<1>2. (scenario = "blocks" => BlocksInv) /\ [FrontNext]_<<scenario, vars, xs>>
        => (scenario = "blocks" => BlocksInv)'
  <2>1. ASSUME BlocksInv, scenario = "blocks", FrontNext PROVE BlocksInv'
    <3>1. B!Next
      BY <2>1 DEF FrontNext
    <3>2. QED
      BY <2>1, <3>1, BlocksKept
  <2>2. ASSUME [FrontNext]_<<scenario, vars, xs>> PROVE scenario' = scenario
    BY <2>2 DEF FrontNext
  <2>3. ASSUME BlocksInv, UNCHANGED <<scenario, vars, xs>> PROVE BlocksInv'
    BY <2>3 DEF BlocksInv, PositionsOK, KeysHaveRun, HasRun, DeniesNone, NoneLacks, EnvIsCaptured
  <2>4. QED
    BY <2>1, <2>2, <2>3
<1>3. QED
  BY <1>1, <1>2, PTL DEF FrontSpec

(* The cache skips a block only if its code, as it is, has run on the      *)
(* value of the step output it would see now: SkipsOnlyWhatRan.            *)
THEOREM CacheSkipsWhatRan == FrontSpec => []SkipsOnlyWhatRan
<1>1. (scenario = "blocks" => BlocksInv) => SkipsOnlyWhatRan
  BY DEF BlocksInv, KeysHaveRun, HasRun, SkipsOnlyWhatRan, B!SkipsOnlyWhatRan
<1>2. QED
  BY <1>1, BlocksInvariant, PTL

(* The cache never passes over the block that writes an artifact while a   *)
(* block that is left lacks it as its input: InputNotDenied.               *)
THEOREM InputsAreNotDenied == FrontSpec => []InputNotDenied
<1>1. (scenario = "blocks" => BlocksInv) => InputNotDenied
  <2>1. SUFFICES ASSUME BlocksInv, x5.pc = "live", B!Shape.reads, x2 = B!Absent PROVE ~x5.denied
    BY DEF InputNotDenied, B!InputNotDenied
  <2>2. x5.pos \in B!Numbers /\ x5.pos >= x5.pos
    BY <2>1 DEF BlocksInv, PositionsOK
  <2>3. QED
    BY <2>1, <2>2 DEF BlocksInv, DeniesNone, NoneLacks, B!Shape
<1>2. QED
  BY <1>1, BlocksInvariant, PTL

(* In a session that replayed nothing a condition sees the value that was  *)
(* captured last: EnvFollowsCapture.                                       *)
THEOREM ConditionsSeeCaptures == FrontSpec => []EnvFollowsCapture
<1>1. (scenario = "blocks" => BlocksInv) => EnvFollowsCapture
  BY DEF BlocksInv, EnvIsCaptured, EnvFollowsCapture, B!EnvFollowsCapture
<1>2. QED
  BY <1>1, BlocksInvariant, PTL

(* The types: the cache holds keys of blocks, and a run is at a block or   *)
(* behind the last one.                                                    *)
LEMMA BlockNumbers ==
  /\ RepairMax \in Nat /\ MaxRuns \in Nat /\ BlockFlags \subseteq B!Modes
  /\ B!Numbers = 1 .. Len(Workbook)
BY FrontAssumption DEF B!BlocksAssumption, B!Numbers

LEMMA OffTyped == B!Off \in B!Run
<1>1. B!NoFlags \in B!Modes
  BY DEF B!NoFlags, B!Modes
<1>2. 1 \in 1 .. Len(Workbook) + 1 /\ 0 \in 0 .. RepairMax /\ 0 \in 0 .. MaxRuns /\ {} \in SUBSET B!Key
  BY Length, BlockNumbers
<1>3. B!Absent \in B!Values
  BY DEF B!Values
<1>4. QED
  BY <1>1, <1>2, <1>3 DEF B!Off, B!Run

(* What a block uses, and the keys it is known by.                         *)
LEMMA KeysTyped ==
  ASSUME B!TypeOK, x5.pos \in B!Numbers
  PROVE  /\ B!Seen \in B!Values /\ B!OutHash \in B!Values /\ B!Inputs \in B!Values
         /\ B!Written(x5.pos) \in B!Values
         /\ \A out \in B!Values : B!KeyWith(out) \in B!Key
         /\ \A out, before \in B!Values : [B!KeyWith(out) EXCEPT !.inputs = before] \in B!Key
         /\ \A line \in B!Lines(x5.pos) : line \in B!Values \cup {B!Malformed}
<1>1. x5.env \in B!Values /\ x2 \in B!Values /\ x1[x5.pos] \in B!Versions
  BY DEF B!TypeOK, B!Run
<1>2. B!Absent \in B!Values /\ B!Versions \subseteq B!Values
  BY DEF B!Values
<1>3. B!Inputs \in B!Values
  BY <1>1, <1>2 DEF B!Inputs
<1>4. B!Seen \in B!Values /\ B!OutHash \in B!Values /\ B!Written(x5.pos) \in B!Values
  BY <1>1, <1>2 DEF B!Seen, B!OutHash, B!Written
<1>5. \A out \in B!Values : B!KeyWith(out) \in B!Key
  BY <1>1, <1>3 DEF B!KeyWith, B!Key
<1>6. \A out, before \in B!Values : [B!KeyWith(out) EXCEPT !.inputs = before] \in B!Key
  BY <1>5 DEF B!Key
<1>7. \A line \in B!Lines(x5.pos) : line \in B!Values \cup {B!Malformed}
  BY <1>1, <1>2 DEF B!Lines
<1>8. QED
  BY <1>3, <1>4, <1>5, <1>6, <1>7

LEMMA SavedTyped ==
  ASSUME B!TypeOK
  PROVE  /\ \A value \in B!Values : B!Keep(value) \in B!Saved
         /\ \A next \in 1 .. Len(Workbook) + 1 : B!Advance(next) \in B!Saved
BY DEF B!TypeOK, B!Keep, B!Advance, B!Saved

LEMMA BetweenTyped ==
  ASSUME B!TypeOK, \/ \E b \in B!Numbers : B!Edit(b)
                   \/ B!FreshArtifacts \/ B!Interrupt \/ B!Finish
  PROVE  B!TypeOK'
<1>1. CASE B!Interrupt \/ B!Finish
  <2>1. x5' = [B!Off EXCEPT !.runs = x5.runs] /\ UNCHANGED <<x1, x2, x4, x6, x7, x8>>
    BY <1>1 DEF B!Interrupt, B!Finish
  <2>2. x3' \subseteq B!Key
    BY <1>1 DEF B!Interrupt, B!Finish, B!TypeOK, B!Run
  <2>3. x5' \in B!Run
    <3>1. PICK off : off = B!Off
      OBVIOUS
    <3>2. off \in B!Run /\ x5.runs \in 0 .. MaxRuns /\ x5' = [off EXCEPT !.runs = x5.runs]
      BY <2>1, <3>1, OffTyped DEF B!TypeOK, B!Run
    <3>3. QED
      BY <3>2 DEF B!Run
  <2>4. QED
    BY <2>1, <2>2, <2>3 DEF B!TypeOK
<1>2. CASE B!FreshArtifacts
  BY <1>2 DEF B!FreshArtifacts, B!TypeOK, B!Values
<1>3. ASSUME NEW b \in B!Numbers, B!Edit(b) PROVE B!TypeOK'
  <2>1. x1' \in [B!Numbers -> B!Versions] /\ UNCHANGED <<x2, x3, x4, x5, x6, x7, x8>>
    BY <1>3 DEF B!Edit, B!TypeOK, B!Versions
  <2>2. QED
    BY <2>1 DEF B!TypeOK
<1>4. QED
  BY <1>1, <1>2, <1>3

LEMMA StartTyped == ASSUME B!TypeOK, NEW mode \in BlockFlags, B!Start(mode) PROVE B!TypeOK'
<1>1. UNCHANGED <<x1, x2, x3, x6, x7, x8>>
  BY DEF B!Start
<1> DEFINE resuming == mode.named /\ x4.exists
           cache == IF mode.caching THEN x3 ELSE {}
           replay == IF resuming THEN x4.next ELSE 1
           outputs == IF resuming THEN x4.out ELSE B!Absent
<1>2. PICK off : off = B!Off
  OBVIOUS
<1>3. replay \in 1 .. Len(Workbook) + 1 /\ outputs \in B!Values /\ cache \in SUBSET B!Key
  BY Length DEF B!TypeOK, B!Saved, B!Values
<1>4. off \in B!Run /\ mode \in B!Modes /\ x5.runs + 1 \in 0 .. MaxRuns
  BY <1>2, OffTyped, BlockNumbers DEF B!Start, B!TypeOK, B!Run
<1>5. x5' = [off EXCEPT !.pc = "block", !.runs = x5.runs + 1, !.mode = mode, !.cache = cache,
                        !.replay = replay, !.outputs = outputs]
  BY <1>2 DEF B!Start
<1> HIDE DEF cache, replay, outputs
<1>6. x5' \in B!Run
  BY <1>3, <1>4, <1>5 DEF B!Run
<1>7. x4' \in B!Saved
  BY DEF B!Start, B!TypeOK, B!Saved
<1>8. QED
  BY <1>1, <1>6, <1>7 DEF B!TypeOK

LEMMA ReplayTyped == ASSUME B!TypeOK, B!Replay PROVE B!TypeOK'
<1>1. PICK code \in {0, 1}, line \in B!Lines(x5.pos) :
         LET captured == code = 0 /\ line \in B!Versions
         IN  /\ x5' = [x5 EXCEPT !.pos = @ + 1, !.outputs = IF captured THEN line ELSE @]
             /\ x4' = IF captured THEN B!Keep(line) ELSE x4
  BY DEF B!Replay
<1>2. x5.pos \in B!Numbers /\ x5.pos + 1 \in 1 .. Len(Workbook) + 1
  BY Length, BlockNumbers DEF B!Replay, B!TypeOK, B!Run
<1> DEFINE outputs == IF code = 0 /\ line \in B!Versions THEN line ELSE x5.outputs
<1>3. outputs \in B!Values /\ x5 \in B!Run
  BY DEF B!TypeOK, B!Run, B!Values
<1>4. x5' = [x5 EXCEPT !.pos = x5.pos + 1, !.outputs = outputs]
  BY <1>1
<1> HIDE DEF outputs
<1>5. x5' \in B!Run
  BY <1>2, <1>3, <1>4 DEF B!Run
<1>6. x4' \in B!Saved
  BY <1>1, SavedTyped DEF B!TypeOK, B!Values
<1>7. x2' \in B!Values /\ UNCHANGED <<x1, x3, x6, x7, x8>>
  BY <1>2, KeysTyped DEF B!Replay
<1>8. QED
  BY <1>5, <1>6, <1>7 DEF B!TypeOK

LEMMA SkipTyped == ASSUME B!TypeOK, B!Skip PROVE B!TypeOK'
<1> DEFINE denied == x5.denied \/ (~B!SkippedByCondition /\ B!Shape.writes /\ x2 = B!Absent)
<1>1. /\ x5.pos \in B!Numbers /\ UNCHANGED <<x1, x2, x3, x6, x7>>
      /\ x4' = B!Advance(x5.pos + 1)
      /\ x5' = [x5 EXCEPT !.pos = x5.pos + 1, !.denied = denied]
      /\ x8' = IF B!SkippedByCondition THEN x8 ELSE x8 \cup {B!KeyWith(B!Seen)}
  BY DEF B!Skip
<1>2. denied \in BOOLEAN
  OBVIOUS
<1> HIDE DEF denied
<1>3. x5.pos + 1 \in 1 .. Len(Workbook) + 1
  BY <1>1, Length, BlockNumbers
<1>4. x5' \in B!Run
  BY <1>1, <1>2, <1>3 DEF B!TypeOK, B!Run
<1>5. x4' \in B!Saved
  BY <1>1, <1>3, SavedTyped
<1>6. x8' \subseteq B!Key
  BY <1>1, KeysTyped DEF B!TypeOK
<1>7. QED
  BY <1>1, <1>4, <1>5, <1>6 DEF B!TypeOK

LEMMA BeginTyped == ASSUME B!TypeOK, B!Begin PROVE B!TypeOK'
<1>1. /\ x5.pos \in B!Numbers /\ UNCHANGED <<x1, x2, x3, x4, x6, x7, x8>>
      /\ x5' = [x5 EXCEPT !.pc = "live", !.out = B!OutHash, !.seen = B!Seen, !.before = B!Inputs,
                          !.own = TRUE, !.forgiven = FALSE, !.budget = RepairMax]
  BY DEF B!Begin
<1>2. x5' \in B!Run
  <2>1. PICK out \in B!Values, saw \in B!Values, before \in B!Values :
          out = B!OutHash /\ saw = B!Seen /\ before = B!Inputs
    BY <1>1, KeysTyped
  <2>2. x5' = [x5 EXCEPT !.pc = "live", !.out = out, !.seen = saw, !.before = before,
                         !.own = TRUE, !.forgiven = FALSE, !.budget = RepairMax]
    BY <1>1, <2>1
  <2>3. x5 \in B!Run /\ RepairMax \in 0 .. RepairMax
    BY BlockNumbers DEF B!TypeOK
  <2>4. QED
    BY <2>2, <2>3 DEF B!Run
<1>3. QED
  BY <1>1, <1>2 DEF B!TypeOK

LEMMA ExecuteTyped == ASSUME B!TypeOK, x5.pos \in B!Numbers, B!Execute PROVE B!TypeOK'
<1>1. PICK code \in {0, 1}, line \in B!Lines(x5.pos) :
         /\ x5' = [x5 EXCEPT !.pc = IF B!Repairs(code) THEN "repair" ELSE "record",
                             !.result = code, !.line = line]
         /\ x6' = IF code = 0 /\ ~B!Shape.no_cache
                    THEN x6 \cup {[block |-> x5.pos, source |-> x1[x5.pos], out |-> x5.seen]}
                    ELSE x6
  BY DEF B!Execute
<1>2. UNCHANGED <<x1, x3, x4, x7, x8>> /\ x2' \in B!Values
  BY KeysTyped DEF B!Execute
<1>3. PICK pc \in {"repair", "record"} : x5' = [x5 EXCEPT !.pc = pc, !.result = code, !.line = line]
  BY <1>1
<1>4. x5' \in B!Run
  BY <1>3, KeysTyped DEF B!TypeOK, B!Run
<1>5. x6' \subseteq [block : B!Numbers, source : B!Versions, out : B!Values]
  BY <1>1 DEF B!TypeOK, B!Run
<1>6. QED
  BY <1>2, <1>4, <1>5 DEF B!TypeOK

LEMMA RepairTyped ==
  ASSUME B!TypeOK, NEW b \in BOOLEAN, B!Again(b) \/ B!GiveUp(b) PROVE B!TypeOK'
<1>1. UNCHANGED <<x1, x2, x3, x4, x6, x7, x8>>
  BY DEF B!Again, B!GiveUp
<1>2. x5' \in B!Run
  <2>1. CASE B!Again(b)
    <3>1. x5.budget - 1 \in 0 .. RepairMax /\ x5 \in B!Run
      BY <2>1, BlockNumbers DEF B!Again, B!TypeOK, B!Run
    <3>2. x5' = [x5 EXCEPT !.pc = "live", !.own = b, !.budget = x5.budget - 1]
      BY <2>1 DEF B!Again
    <3>3. QED
      BY <3>1, <3>2 DEF B!Run
  <2>2. CASE B!GiveUp(b)
    BY <2>2 DEF B!GiveUp, B!TypeOK, B!Run
  <2>3. QED
    BY <2>1, <2>2
<1>3. QED
  BY <1>1, <1>2 DEF B!TypeOK

LEMMA RecordTyped == ASSUME B!TypeOK, x5.pos \in B!Numbers, B!Record PROVE B!TypeOK'
<1> DEFINE cache == IF ~x5.mode.caching \/ B!Shape.no_cache THEN x5.cache
                    ELSE IF x5.result = 0 THEN x5.cache \cup {B!KeyWith(x5.out)}
                    ELSE x5.cache \ {B!KeyWith(x5.out)}
<1>1. UNCHANGED <<x1, x2, x3, x4, x6, x7, x8>> /\ x5' = [x5 EXCEPT !.pc = "capture", !.cache = cache]
  BY DEF B!Record
<1>2. cache \in SUBSET B!Key
  BY KeysTyped DEF B!TypeOK, B!Run
<1> HIDE DEF cache
<1>3. x5' \in B!Run
  BY <1>1, <1>2 DEF B!TypeOK, B!Run
<1>4. QED
  BY <1>1, <1>3 DEF B!TypeOK

LEMMA CaptureTyped == ASSUME B!TypeOK, B!Capture PROVE B!TypeOK'
<1>1. UNCHANGED <<x1, x2, x3, x6, x7, x8>>
  BY DEF B!Capture
<1>2. CASE x5.line \in B!Versions
  <2>1. /\ x5' = [x5 EXCEPT !.pc = "settle", !.env = x5.line, !.outputs = x5.line]
        /\ x4' = B!Keep(x5.line)
    BY <1>2 DEF B!Capture, B!Exported
  <2>2. x5.line \in B!Values
    BY <1>2 DEF B!Values
  <2>3. x5' \in B!Run /\ x4' \in B!Saved
    BY <2>1, <2>2, SavedTyped DEF B!TypeOK, B!Run
  <2>4. QED
    BY <1>1, <2>3 DEF B!TypeOK
<1>3. CASE x5.line \notin B!Versions
  <2>1. PICK result \in {1, x5.result} : x5' = [x5 EXCEPT !.pc = "settle", !.result = result] /\ x4' = x4
    BY <1>3 DEF B!Capture
  <2>2. x5' \in B!Run
    BY <2>1 DEF B!TypeOK, B!Run
  <2>3. QED
    BY <1>1, <2>1, <2>2 DEF B!TypeOK
<1>4. QED
  BY <1>2, <1>3

LEMMA SettleTyped == ASSUME B!TypeOK, x5.pos \in B!Numbers, B!Settle PROVE B!TypeOK'
<1>1. UNCHANGED <<x1, x2, x3, x6, x8>>
  BY DEF B!Settle
<1>2. PICK pos \in {Len(Workbook) + 1, x5.pos + 1} : x5' = [x5 EXCEPT !.pc = "block", !.pos = pos]
  BY DEF B!Settle
<1>3. x4' \in {x4, B!Advance(x5.pos + 1)}
  BY DEF B!Settle
<1>4. pos \in 1 .. Len(Workbook) + 1 /\ x5.pos + 1 \in 1 .. Len(Workbook) + 1
  BY <1>2, Length, BlockNumbers
<1>5. x5' \in B!Run /\ x4' \in B!Saved
  BY <1>2, <1>3, <1>4, SavedTyped DEF B!TypeOK, B!Run
<1>6. x7' \subseteq B!Key
  <2>1. [B!KeyWith(x5.seen) EXCEPT !.inputs = x5.before] \in B!Key
    BY KeysTyped DEF B!TypeOK, B!Run
  <2>2. QED
    BY <2>1 DEF B!Settle, B!TypeOK
<1>7. QED
  BY <1>1, <1>5, <1>6 DEF B!TypeOK

LEMMA BlocksTypes ==
  ASSUME B!TypeOK, B!Next, x5.pc \in {"live", "repair", "record", "capture", "settle"} => x5.pos \in B!Numbers
  PROVE  B!TypeOK'
<1>1. CASE \/ \E b \in B!Numbers : B!Edit(b)
           \/ B!FreshArtifacts \/ B!Interrupt \/ B!Finish \/ \E mode \in BlockFlags : B!Start(mode)
  BY <1>1, BetweenTyped, StartTyped
<1>2. CASE B!Replay \/ B!Skip \/ B!Begin \/ B!Capture
           \/ \E b \in BOOLEAN : B!Again(b) \/ B!GiveUp(b)
  BY <1>2, ReplayTyped, SkipTyped, BeginTyped, CaptureTyped, RepairTyped
<1>3. CASE B!Execute \/ B!Record \/ B!Settle
  <2>1. x5.pos \in B!Numbers
    BY <1>3 DEF B!Execute, B!Record, B!Settle
  <2>2. QED
    BY <1>3, <2>1, ExecuteTyped, RecordTyped, SettleTyped
<1>4. QED
  BY <1>1, <1>2, <1>3 DEF B!Next, B!Loop

LEMMA BlocksTypesStart == ASSUME B!Init PROVE B!TypeOK
<1>1. x5 \in B!Run
  BY OffTyped DEF B!Init
<1>2. x1 \in [B!Numbers -> B!Versions] /\ x2 \in B!Values /\ x4 \in B!Saved
  BY Length DEF B!Init, B!Versions, B!Values, B!Saved
<1>3. QED
  BY <1>1, <1>2 DEF B!Init, B!TypeOK

LEMMA BlocksKeepTypes == FrontSpec => [](scenario = "blocks" => B!TypeOK)
<1> DEFINE I == scenario = "blocks" => BlocksInv
           K == scenario = "blocks" => B!TypeOK
<1>1. FrontInit => K
  <2>1. ASSUME FrontInit, scenario = "blocks" PROVE B!Init
    BY <2>1 DEF FrontInit
  <2>2. QED
    BY <2>1, BlocksTypesStart
<1>2. I /\ K /\ [FrontNext]_<<scenario, vars, xs>> => K'
  <2>1. ASSUME BlocksInv, B!TypeOK, scenario = "blocks", FrontNext PROVE B!TypeOK'
    <3>1. B!Next
      BY <2>1 DEF FrontNext
    <3>2. QED
      BY <2>1, <3>1, BlocksTypes DEF BlocksInv, PositionsOK
  <2>2. ASSUME [FrontNext]_<<scenario, vars, xs>> PROVE scenario' = scenario
    BY <2>2 DEF FrontNext
  <2>3. ASSUME B!TypeOK, UNCHANGED <<scenario, vars, xs>> PROVE B!TypeOK'
    BY <2>3 DEF B!TypeOK
  <2>4. QED
    BY <2>1, <2>2, <2>3
<1>3. QED
  BY <1>1, <1>2, BlocksInvariant, PTL DEF FrontSpec

-----------------------------------------------------------------------------
(* The artifacts of a workbook.                                            *)

SessionFields == {"number", "step", "pc", "seen", "todo", "sending", "found", "entries"}

(* The session has the file as it is; the file is on its way to the        *)
(* manifest; a step of this session wrote it.                              *)
IsThere(n) == x1[n] # A!NoFile
HasSeen(n) == IsThere(n) /\ x4.seen[n] = x1[n].stamp
Sending(n) == x4.pc = "send" /\ x4.sending = n
IsFound(n) == \E f \in x4.found : f.name = n
IsOwn(n) == x1[n].live /\ x1[n].session = x4.number

Recording == x4.pc \in {"truncate", "write"}

(* Nothing is stamped later than now, nor by a session to come.            *)
StampsOK ==
  /\ DOMAIN x1 = Names /\ DOMAIN x2 = Names /\ DOMAIN x5 = Names
  /\ DOMAIN x4 = SessionFields /\ DOMAIN x4.seen = Names
  /\ x4.number \in Nat /\ x6 \in Nat
  /\ x4.pc = "send" => x4.sending \in Names
  /\ \A n \in Names :
       /\ x1[n].stamp \in Nat /\ x1[n].stamp <= x6 /\ (IsThere(n) => x1[n].stamp > 0)
       /\ x1[n].session \in Nat /\ x1[n].session <= x4.number
       /\ x1[n].live => IsThere(n)
       /\ x4.seen[n] \in Nat /\ x4.seen[n] <= x6
       /\ x3.entries[n].stamp \in Nat /\ x3.entries[n].stamp <= x6
       /\ Recording => x4.entries[n].stamp \in Nat /\ x4.entries[n].stamp <= x6

(* An entry tells of the file as it is, with the label announced before.   *)
Tells(e, n) ==
  /\ e[n].stamp = x1[n].stamp
  /\ x2[n] < x1[n].stamp => e[n].label = x2[n]

(* What was found has its label until the next slice announces others.     *)
FoundOK ==
  /\ \A f \in x4.found : f.label = x2[f.name]
  /\ x4.pc \in {"announce", "block", "replay"} => x4.found = {}

(* What the session has seen is in the manifest, or on its way there.      *)
SeenIsListed(n) ==
  /\ Recording => Tells(x4.entries, n)
  /\ ~Recording /\ ~Sending(n) /\ ~(x4.pc \in {"sync", "send", "record"} /\ IsFound(n))
       => x3.state = "whole" /\ Tells(x3.entries, n)
ListedOK == ~x7 => \A n \in Names : HasSeen(n) => SeenIsListed(n)

StoreOK ==
  \A n \in Names : HasSeen(n) /\ ~Sending(n) /\ x5[n] # A!Failed => x5[n] = x1[n].stamp

(* What a step of this session wrote was seen after that step, or will be. *)
OwnIsSeen(n) ==
  \/ x4.seen[n] = x1[n].stamp
  \/ /\ x1[n].step = x4.step
     /\ \/ x4.pc = "block"
        \/ x4.pc \in {"sync", "send"} /\ n \in x4.todo /\ ~Sending(n)
OwnOK ==
  /\ x4.pc # "over" => \A n \in Names : IsOwn(n) => OwnIsSeen(n)
  /\ \A n \in Names : Sending(n) /\ IsOwn(n) => x1[n].step = x4.step
  /\ \A n \in Names : IsFound(n) /\ IsOwn(n) => x1[n].step = x4.step

(* Entries name the step that wrote the file.                              *)
NamesStep(e, n) ==
  e[n].stamp = x1[n].stamp /\ IsThere(n) /\ x1[n].live /\ x1[n].session = e[n].session
    => x1[n].step = e[n].step
EntriesOK ==
  \A n \in Names : NamesStep(x3.entries, n) /\ (Recording => NamesStep(x4.entries, n))

ArtInv == StampsOK /\ FoundOK /\ ListedOK /\ StoreOK /\ OwnOK /\ EntriesOK

(* A file is written: by the block at hand, a replayed one or a stray one. *)
LEMMA FileWritten ==
  ASSUME ArtInv, NEW n \in Names, NEW who, A!Writes(n, who), UNCHANGED <<x2, x3, x4, x5, x7>>,
         x4.pc = "block" => who = x4.step, x4.pc # "over"
  PROVE  ArtInv'
<1>1. /\ DOMAIN x1' = Names /\ x6' = x6 + 1 /\ UNCHANGED <<x2, x3, x4, x5, x7>>
      /\ x1'[n].stamp = x6 + 1 /\ x1'[n].session = x4.number /\ x1'[n].step = who
      /\ x1'[n] = [stamp |-> x6 + 1, session |-> x4.number, step |-> who, live |-> x4.pc = "block"]
      /\ \A m \in Names \ {n} : x1'[m] = x1[m]
  BY DEF A!Writes, ArtInv, StampsOK
<1>2. x1'[n].live <=> x4.pc = "block"
  <2>1. PICK live : /\ x1'[n] = [stamp |-> x6 + 1, session |-> x4.number, step |-> who, live |-> live]
                    /\ live = (x4.pc = "block")
    BY <1>1, Zenon
  <2>2. x1'[n].live = live
    BY <2>1
  <2>3. QED
    BY <2>1, <2>2, Zenon
<1>3. IsThere(n)'
  BY <1>1 DEF IsThere, A!NoFile, ArtInv, StampsOK
<1>4. StampsOK'
  BY <1>1, <1>2, <1>3 DEF ArtInv, StampsOK, IsThere, Recording
<1>5. ~HasSeen(n)' /\ x3'.entries[n].stamp # x1'[n].stamp
      /\ (Recording' => x4'.entries[n].stamp # x1'[n].stamp)
  BY <1>1 DEF HasSeen, ArtInv, StampsOK, Recording
<1>6. \A m \in Names \ {n} : /\ HasSeen(m)' <=> HasSeen(m)
                             /\ IsThere(m)' <=> IsThere(m)
                             /\ IsOwn(m)' <=> IsOwn(m)
  BY <1>1 DEF HasSeen, IsThere, IsOwn
<1>7. FoundOK'
  BY <1>1 DEF ArtInv, FoundOK
<1>8. ListedOK'
  BY <1>1, <1>5, <1>6 DEF ArtInv, ListedOK, SeenIsListed, Tells, Sending, IsFound, Recording
<1>9. StoreOK'
  BY <1>1, <1>5, <1>6 DEF ArtInv, StoreOK, Sending
<1>10. OwnOK'
  <2>1. IsOwn(n)' => x4.pc = "block" /\ x1'[n].step = x4.step
    BY <1>1, <1>2 DEF IsOwn
  <2>2. \A m \in Names : IsOwn(m)' => OwnIsSeen(m)'
    BY <1>1, <1>6, <2>1 DEF ArtInv, OwnOK, OwnIsSeen, Sending
  <2>3. \A m \in Names : Sending(m)' /\ IsOwn(m)' => x1'[m].step = x4'.step
    BY <1>1, <1>6, <2>1 DEF ArtInv, OwnOK, Sending
  <2>4. \A m \in Names : IsFound(m)' /\ IsOwn(m)' => x1'[m].step = x4'.step
    BY <1>1, <1>6, <2>1 DEF ArtInv, OwnOK, IsFound
  <2>5. QED
    BY <2>2, <2>3, <2>4 DEF OwnOK
<1>11. EntriesOK'
  BY <1>1, <1>5, <1>6 DEF ArtInv, EntriesOK, NamesStep, Recording
<1>12. QED
  BY <1>4, <1>7, <1>8, <1>9, <1>10, <1>11 DEF ArtInv

(* A file that is written is newer than all that was seen.                 *)
LEMMA WriteKept == ASSUME ArtInv, NEW n \in Names, A!Write(n) \/ A!StrayWrite(n) PROVE ArtInv'
BY FileWritten DEF A!Write, A!StrayWrite, A!RunningStep

(* A file that is removed has no stamp, and no session has seen it.        *)
LEMMA RemoveKept == ASSUME ArtInv, NEW n \in Names, A!Remove(n) PROVE ArtInv'
<1>1. /\ DOMAIN x1' = Names /\ UNCHANGED <<x2, x3, x4, x5, x6, x7>> /\ x1'[n] = A!NoFile
      /\ \A m \in Names \ {n} : x1'[m] = x1[m]
  BY DEF A!Remove, ArtInv, StampsOK
<1>2. ~IsThere(n)' /\ ~HasSeen(n)' /\ ~IsOwn(n)' /\ ~x1'[n].live
      /\ x1'[n].stamp = 0 /\ x1'[n].session = 0
  BY <1>1 DEF IsThere, HasSeen, IsOwn, A!NoFile
<1>3. \A m \in Names \ {n} : /\ HasSeen(m)' <=> HasSeen(m)
                             /\ IsThere(m)' <=> IsThere(m)
                             /\ IsOwn(m)' <=> IsOwn(m)
  BY <1>1 DEF HasSeen, IsThere, IsOwn
<1>4. StampsOK'
  BY <1>1, <1>2 DEF ArtInv, StampsOK, IsThere, Recording
<1>5. FoundOK'
  BY <1>1 DEF ArtInv, FoundOK
<1>6. ListedOK'
  BY <1>1, <1>2, <1>3 DEF ArtInv, ListedOK, SeenIsListed, Tells, Sending, IsFound, Recording
<1>7. StoreOK'
  BY <1>1, <1>2, <1>3 DEF ArtInv, StoreOK, Sending
<1>8. OwnOK'
  BY <1>1, <1>2, <1>3 DEF ArtInv, OwnOK, OwnIsSeen, Sending, IsFound
<1>9. EntriesOK'
  BY <1>1, <1>2, <1>3 DEF ArtInv, EntriesOK, NamesStep, Recording
<1>10. QED
  BY <1>4, <1>5, <1>6, <1>7, <1>8, <1>9 DEF ArtInv

(* A label that is announced is later than any file.                       *)
LEMMA AnnounceKept == ASSUME ArtInv, NEW n \in Names, A!Announce(n) PROVE ArtInv'
<1>1. /\ DOMAIN x2' = Names /\ UNCHANGED <<x1, x3, x4, x5, x7>> /\ x6' = x6 + 1 /\ x2'[n] = x6 + 1
      /\ \A m \in Names \ {n} : x2'[m] = x2[m]
      /\ x4.pc = "announce"
  BY DEF A!Announce, ArtInv, StampsOK
<1>2. StampsOK'
  BY <1>1 DEF ArtInv, StampsOK, IsThere, Recording
<1>3. FoundOK'
  BY <1>1 DEF ArtInv, FoundOK
<1>4. ListedOK'
  <2>1. \A m \in Names : x2'[m] < x1[m].stamp => m # n
    BY <1>1 DEF ArtInv, StampsOK
  <2>2. \A m \in Names : \A e : Tells(e, m) => Tells(e, m)'
    BY <1>1, <2>1 DEF Tells
  <2>3. QED
    BY <1>1, <2>2 DEF ArtInv, ListedOK, SeenIsListed, HasSeen, IsThere, Sending, IsFound, Recording
<1>5. StoreOK'
  BY <1>1 DEF ArtInv, StoreOK, Sending, HasSeen, IsThere
<1>6. OwnOK'
  BY <1>1 DEF ArtInv, OwnOK, OwnIsSeen, Sending, IsFound, IsOwn
<1>7. EntriesOK'
  BY <1>1 DEF ArtInv, EntriesOK, NamesStep, Recording, IsThere
<1>8. QED
  BY <1>2, <1>3, <1>4, <1>5, <1>6, <1>7 DEF ArtInv

(* A step of the session that touches neither the files nor the labels.    *)
Untouched == UNCHANGED <<x1, x2, x6>>

(* A session that starts, or is killed, has seen nothing.                  *)
LEMMA NothingSeen ==
  ASSUME ArtInv, Untouched, UNCHANGED <<x3, x5>>, DOMAIN x4' = SessionFields,
         x4'.number \in Nat, x4'.number >= x4.number,
         x4'.pc = "over" \/ x4'.number > x4.number,
         x4'.pc \in {"over", "replay", "announce", "block"},
         x4'.seen = [n \in Names |-> 0], x4'.found = {}
  PROVE  ArtInv'
<1>1. x4'.pc # "send" /\ ~Recording'
  BY DEF Recording
<1>2. StampsOK'
  BY <1>1 DEF ArtInv, StampsOK, IsThere, Untouched
<1>3. \A n \in Names : ~HasSeen(n)' /\ ~Sending(n)' /\ ~IsFound(n)'
  BY <1>1 DEF HasSeen, Sending, IsFound, IsThere, Untouched, ArtInv, StampsOK
<1>4. x4'.pc # "over" => \A n \in Names : ~IsOwn(n)'
  BY DEF IsOwn, Untouched, ArtInv, StampsOK
<1>5. FoundOK'
  BY DEF FoundOK
<1>6. ListedOK' /\ StoreOK'
  BY <1>3 DEF ListedOK, StoreOK
<1>7. OwnOK'
  BY <1>3, <1>4 DEF OwnOK
<1>8. EntriesOK'
  BY <1>1 DEF ArtInv, EntriesOK, NamesStep, IsThere, Untouched
<1>9. QED
  BY <1>2, <1>5, <1>6, <1>7, <1>8 DEF ArtInv

(* A session that opens has seen nothing.                                  *)
LEMMA OpenKept == ASSUME ArtInv, NEW step, A!Open(step) PROVE ArtInv'
<1>1. x4.pc = "over" /\ Untouched /\ UNCHANGED <<x3, x5>> /\ x4.number \in Nat
  BY DEF A!Open, Untouched, ArtInv, StampsOK
<1>2. /\ DOMAIN x4' = SessionFields /\ x4'.number = x4.number + 1
      /\ x4'.pc \in {"over", "replay", "announce", "block"}
      /\ x4'.seen = [n \in Names |-> 0] /\ x4'.found = {}
  <2>1. CASE x4' = A!Fresh(x4.number + 1, 1, A!Entry(1))
    BY <2>1 DEF A!Fresh, A!Entry, SessionFields
  <2>2. CASE x4' = [A!Fresh(x4.number + 1, step, "replay") EXCEPT !.todo = 1..(step - 1)]
    BY <2>2 DEF A!Fresh, SessionFields
  <2>3. QED
    BY <2>1, <2>2 DEF A!Open
<1>3. QED
  BY <1>1, <1>2, NothingSeen

(* A session that is killed has no file of its own left to account for.    *)
LEMMA ArtKillKept == ASSUME ArtInv, A!Kill PROVE ArtInv'
<1>1. /\ DOMAIN x4' = SessionFields /\ x4'.number = x4.number /\ x4'.pc = "over"
      /\ x4'.seen = [n \in Names |-> 0] /\ x4'.found = {}
      /\ Untouched /\ UNCHANGED <<x3, x5>> /\ x4.number \in Nat
  BY DEF A!Kill, A!Fresh, SessionFields, Untouched, ArtInv, StampsOK
<1>2. QED
  BY <1>1, NothingSeen

(* The session moves on, with what it has seen.                            *)
MovesOn ==
  /\ Untouched /\ UNCHANGED <<x3, x5, x7>>
  /\ DOMAIN x4' = SessionFields /\ x4'.number = x4.number /\ x4'.seen = x4.seen
  /\ x4.pc # "send" /\ x4'.pc # "send" /\ ~Recording'

(* A step within the session that leaves the files and the manifest alone. *)
LEMMA MoveKept == ASSUME ArtInv, MovesOn, FoundOK', ListedOK', OwnOK' PROVE ArtInv'
<1>1. StampsOK'
  BY DEF ArtInv, StampsOK, IsThere, Untouched, MovesOn
<1>2. \A n : ~Sending(n) /\ ~Sending(n)' /\ (HasSeen(n)' <=> HasSeen(n))
  BY DEF Sending, HasSeen, IsThere, Untouched, MovesOn
<1>3. StoreOK'
  BY <1>2 DEF ArtInv, StoreOK, Untouched, MovesOn
<1>4. EntriesOK'
  BY DEF ArtInv, EntriesOK, NamesStep, IsThere, Untouched, MovesOn
<1>5. QED
  BY <1>1, <1>3, <1>4 DEF ArtInv

(* What is seen is listed after a move unless less of it was on its way.   *)
LEMMA MoveListed ==
  ASSUME ArtInv, MovesOn, ~Recording,
         \/ x4'.pc \in {"sync", "record"} /\ x4'.found = x4.found
         \/ x4.pc \notin {"sync", "record"}
         \/ x4.found = {}
  PROVE  ListedOK'
<1>1. \A n : /\ HasSeen(n)' <=> HasSeen(n)
             /\ ~Sending(n) /\ ~Sending(n)'
  BY DEF HasSeen, IsThere, Untouched, MovesOn, Sending
<1>2. \A e, n : Tells(e, n) <=> Tells(e, n)'
  BY DEF Tells, Untouched, MovesOn
<1>3. SUFFICES ASSUME ~x7, NEW n \in Names, HasSeen(n) PROVE SeenIsListed(n)'
  BY <1>1 DEF ListedOK, MovesOn
<1>4. ~(x4'.pc \in {"sync", "send", "record"} /\ IsFound(n)')
        => ~(x4.pc \in {"sync", "send", "record"} /\ IsFound(n))
  BY DEF IsFound, MovesOn
<1>5. SeenIsListed(n)
  BY <1>3 DEF ArtInv, ListedOK
<1>6. QED
  BY <1>1, <1>2, <1>4, <1>5 DEF SeenIsListed, MovesOn

(* A block that was replayed is taken off the list.                        *)
LEMMA ReplayedKept == ASSUME ArtInv, A!Replayed PROVE ArtInv'
<1>1. /\ x4.pc = "replay" /\ x4'.pc \in {"replay", "announce", "block"} /\ MovesOn
      /\ x4'.step = x4.step /\ x4'.found = x4.found /\ x4.found = {}
  <2>1. x4.pc = "replay" /\ Untouched /\ UNCHANGED <<x3, x5, x7>> /\ x4.found = {}
    BY DEF A!Replayed, Untouched, ArtInv, FoundOK
  <2>2. CASE x4' = [x4 EXCEPT !.todo = x4.todo \ {A!Smallest(x4.todo)}]
    BY <2>1, <2>2 DEF MovesOn, ArtInv, StampsOK, SessionFields, Recording
  <2>3. CASE x4' = [x4 EXCEPT !.todo = {}, !.pc = A!Entry(x4.step)]
    <3>1. A!Entry(x4.step) \in {"announce", "block"}
      BY DEF A!Entry
    <3>2. /\ DOMAIN x4' = SessionFields /\ x4'.number = x4.number /\ x4'.seen = x4.seen
          /\ x4'.pc = A!Entry(x4.step) /\ x4'.step = x4.step /\ x4'.found = x4.found
      BY <2>3 DEF ArtInv, StampsOK, SessionFields
    <3>3. QED
      BY <2>1, <3>1, <3>2 DEF MovesOn, Recording
  <2>4. QED
    BY <2>2, <2>3 DEF A!Replayed
<1>2. FoundOK'
  BY <1>1 DEF FoundOK
<1>3. ListedOK'
  BY <1>1, MoveListed DEF Recording
<1>4. OwnOK'
  BY <1>1 DEF ArtInv, OwnOK, OwnIsSeen, IsOwn, IsFound, Sending, MovesOn, Untouched
<1>5. QED
  BY <1>1, <1>2, <1>3, <1>4, MoveKept

(* The directory is listed: what a step of this session has just written   *)
(* is among what is to be looked at.                                       *)
LEMMA ListingKept ==
  ASSUME ArtInv, x4.pc \in {"announce", "block"}, x4' = A!Listing, Untouched, UNCHANGED <<x3, x5, x7>>
  PROVE  ArtInv'
<1> DEFINE there == {n \in Names : x1[n] # A!NoFile}
<1>1. x4' = [x4 EXCEPT !.pc = "sync", !.todo = there]
  BY DEF A!Listing
<1>2. \A n \in Names : x1[n].live => n \in there
  BY DEF ArtInv, StampsOK, IsThere
<1> HIDE DEF there
<1>3. /\ x4'.pc = "sync" /\ MovesOn /\ x4'.step = x4.step /\ x4'.found = x4.found /\ x4.found = {}
      /\ x4'.todo = there
  BY <1>1 DEF MovesOn, ArtInv, StampsOK, SessionFields, Recording, FoundOK
<1>4. FoundOK'
  BY <1>3 DEF FoundOK
<1>5. ListedOK'
  BY <1>3, MoveListed DEF Recording
<1>6. OwnOK'
  BY <1>2, <1>3 DEF ArtInv, OwnOK, OwnIsSeen, IsOwn, IsFound, Sending, MovesOn, Untouched
<1>7. QED
  BY <1>3, <1>4, <1>5, <1>6, MoveKept

(* When the block ended the files are listed.                              *)
LEMMA BlockEndsKept == ASSUME ArtInv, NEW ok, A!BlockEnds(ok) PROVE ArtInv'
BY ListingKept DEF A!BlockEnds, Untouched

(* The slice starts the block, or lists the files when it is malformed.    *)
LEMMA SliceStartsKept == ASSUME ArtInv, NEW wellFormed, A!SliceStarts(wellFormed) PROVE ArtInv'
<1>1. x4.pc = "announce" /\ Untouched /\ UNCHANGED <<x3, x5, x7>>
  BY DEF A!SliceStarts, Untouched
<1>2. CASE x4' = A!Listing
  BY <1>1, <1>2, ListingKept
<1>3. CASE x4' = [x4 EXCEPT !.pc = "block"]
  <2>1. /\ x4'.pc = "block" /\ MovesOn /\ x4'.step = x4.step /\ x4'.found = x4.found /\ x4.found = {}
    BY <1>1, <1>3 DEF MovesOn, ArtInv, StampsOK, SessionFields, Recording, FoundOK
  <2>2. FoundOK'
    BY <2>1 DEF FoundOK
  <2>3. ListedOK'
    BY <1>1, <2>1, MoveListed DEF Recording
  <2>4. OwnOK'
    BY <1>1, <2>1 DEF ArtInv, OwnOK, OwnIsSeen, IsOwn, IsFound, Sending, MovesOn, Untouched
  <2>5. QED
    BY <2>1, <2>2, <2>3, <2>4, MoveKept
<1>4. QED
  BY <1>2, <1>3 DEF A!SliceStarts

(* What was found is recorded, when anything was.                          *)
LEMMA SyncEndsKept == ASSUME ArtInv, A!SyncEnds PROVE ArtInv'
<1> DEFINE pc == IF x4.found = {} THEN "next" ELSE "record"
<1>1. x4.pc = "sync" /\ x4.todo = {} /\ x4' = [x4 EXCEPT !.pc = pc] /\ Untouched /\ UNCHANGED <<x3, x5, x7>>
  BY DEF A!SyncEnds, Untouched
<1>2. pc \in {"next", "record"} /\ (pc = "next" => x4.found = {})
  OBVIOUS
<1> HIDE DEF pc
<1>3. /\ x4'.pc = pc /\ MovesOn /\ x4'.step = x4.step /\ x4'.found = x4.found
  BY <1>1, <1>2 DEF MovesOn, ArtInv, StampsOK, SessionFields, Recording
<1>4. FoundOK'
  BY <1>2, <1>3 DEF ArtInv, FoundOK, MovesOn, Untouched
<1>5. ListedOK'
  BY <1>1, <1>2, <1>3, MoveListed DEF Recording
<1>6. OwnOK'
  BY <1>1, <1>2, <1>3 DEF ArtInv, OwnOK, OwnIsSeen, IsOwn, IsFound, Sending, MovesOn, Untouched
<1>7. QED
  BY <1>3, <1>4, <1>5, <1>6, MoveKept

(* The step that follows has nothing found yet.                            *)
LEMMA NextStepKept == ASSUME ArtInv, A!NextStep PROVE ArtInv'
<1>0. PICK pc \in {"announce", "block", "done"} :
         \E step : x4' = [x4 EXCEPT !.pc = pc, !.step = step, !.found = {}, !.entries = A!NoEntries]
  BY DEF A!NextStep, A!Entry
<1>1. PICK step : x4' = [x4 EXCEPT !.pc = pc, !.step = step, !.found = {}, !.entries = A!NoEntries]
  BY <1>0
<1>2. x4.pc = "next" /\ Untouched /\ UNCHANGED <<x3, x5, x7>>
  BY DEF A!NextStep, Untouched
<1>3. /\ x4'.pc = pc /\ MovesOn /\ x4'.found = {}
  BY <1>1, <1>2 DEF MovesOn, ArtInv, StampsOK, SessionFields, Recording
<1>4. FoundOK'
  BY <1>3 DEF FoundOK
<1>5. ListedOK'
  BY <1>2, <1>3, MoveListed DEF Recording
<1>6. OwnOK'
  BY <1>2, <1>3 DEF ArtInv, OwnOK, OwnIsSeen, IsOwn, IsFound, Sending, MovesOn, Untouched
<1>7. QED
  BY <1>3, <1>4, <1>5, <1>6, MoveKept

(* A file that was not seen as it is, is seen and on its way.              *)
LEMMA LookKept == ASSUME ArtInv, NEW n \in Names, A!Look(n) PROVE ArtInv'
<1>1. x4.pc = "sync" /\ n \in x4.todo /\ Untouched /\ UNCHANGED <<x3, x5, x7>>
  BY DEF A!Look, Untouched
<1>2. CASE x1[n].stamp = x4.seen[n]
  <2>1. x4' = [x4 EXCEPT !.todo = x4.todo \ {n}]
    BY <1>2 DEF A!Look
  <2>2. /\ x4'.pc = "sync" /\ MovesOn /\ x4'.step = x4.step /\ x4'.found = x4.found
        /\ x4'.todo = x4.todo \ {n}
    BY <1>1, <2>1 DEF MovesOn, ArtInv, StampsOK, SessionFields, Recording
  <2>3. FoundOK'
    BY <1>1, <2>2 DEF ArtInv, FoundOK, MovesOn, Untouched
  <2>4. ListedOK'
    BY <1>1, <2>2, MoveListed DEF Recording
  <2>5. OwnOK'
    BY <1>1, <1>2, <2>2 DEF ArtInv, OwnOK, OwnIsSeen, IsOwn, IsFound, Sending, MovesOn, Untouched
  <2>6. QED
    BY <2>2, <2>3, <2>4, <2>5, MoveKept
<1>3. CASE x1[n].stamp # x4.seen[n]
  <2>1. PICK noted : /\ noted = [x4.seen EXCEPT ![n] = x1[n].stamp]
                     /\ x4' = [x4 EXCEPT !.pc = "send", !.seen = noted, !.sending = n]
    BY <1>3 DEF A!Look
  <2>2. DOMAIN noted = Names /\ noted[n] = x1[n].stamp /\ \A m \in Names \ {n} : noted[m] = x4.seen[m]
    BY <2>1 DEF ArtInv, StampsOK
  <2>3. /\ DOMAIN x4' = SessionFields /\ x4'.number = x4.number /\ x4'.step = x4.step
        /\ x4'.pc = "send" /\ x4'.seen = noted /\ x4'.sending = n
        /\ x4'.todo = x4.todo /\ x4'.found = x4.found
    BY <2>1 DEF ArtInv, StampsOK, SessionFields
  <2>4. StampsOK'
    BY <1>1, <2>2, <2>3 DEF ArtInv, StampsOK, IsThere, Untouched, Recording
  <2>5. /\ Sending(n)' /\ ~Recording /\ ~Recording'
        /\ \A m \in Names : ~Sending(m) /\ (m # n => ~Sending(m)')
        /\ \A m \in Names : m # n => (HasSeen(m)' <=> HasSeen(m))
        /\ \A m \in Names : (IsOwn(m)' <=> IsOwn(m)) /\ (IsFound(m)' <=> IsFound(m))
    BY <1>1, <2>2, <2>3 DEF Sending, Recording, HasSeen, IsThere, IsOwn, IsFound, Untouched
  <2>6. FoundOK'
    BY <1>1, <2>3 DEF ArtInv, FoundOK, Untouched
  <2>7. ListedOK'
    BY <1>1, <2>3, <2>5 DEF ArtInv, ListedOK, SeenIsListed, Tells, Untouched
  <2>8. StoreOK'
    BY <1>1, <2>3, <2>5 DEF ArtInv, StoreOK, Untouched
  <2>9. IsOwn(n) => x1[n].step = x4.step
    BY <1>1, <1>3, <2>5 DEF ArtInv, OwnOK, OwnIsSeen
  <2>10. \A m \in Names : IsOwn(m) => OwnIsSeen(m)'
    <3>1. OwnIsSeen(n)'
      BY <1>1, <2>2, <2>3 DEF OwnIsSeen, Untouched
    <3>2. \A m \in Names \ {n} : IsOwn(m) => OwnIsSeen(m)'
      BY <1>1, <2>2, <2>3, <2>5 DEF ArtInv, OwnOK, OwnIsSeen, Untouched
    <3>3. QED
      BY <3>1, <3>2
  <2>11. OwnOK'
    BY <1>1, <2>3, <2>5, <2>9, <2>10 DEF ArtInv, OwnOK, Untouched
  <2>12. EntriesOK'
    BY <1>1, <2>5 DEF ArtInv, EntriesOK, NamesStep, IsThere, Untouched
  <2>13. QED
    BY <2>4, <2>6, <2>7, <2>8, <2>11, <2>12 DEF ArtInv
<1>4. QED
  BY <1>2, <1>3

(* A file that was sent is found with its label, whether it arrived or     *)
(* not.                                                                    *)
LEMMA SendKept == ASSUME ArtInv, NEW arrives, A!Send(arrives) PROVE ArtInv'
<1> DEFINE n == x4.sending
           f == [name |-> n, label |-> x2[n]]
           what == IF arrives THEN x1[n].stamp ELSE A!Failed
<1>1. /\ x4.pc = "send" /\ n \in Names /\ Untouched /\ UNCHANGED <<x3, x7>>
      /\ x4' = [x4 EXCEPT !.pc = "sync", !.todo = x4.todo \ {n}, !.found = x4.found \union {f}]
      /\ x5' = [x5 EXCEPT ![n] = what]
  BY DEF A!Send, ArtInv, StampsOK, Untouched
<1>2. f.name = n /\ f.label = x2[n] /\ what \in {A!Failed, x1[n].stamp}
  OBVIOUS
<1> HIDE DEF n, f, what
<1>3. /\ DOMAIN x4' = SessionFields /\ x4'.number = x4.number /\ x4'.step = x4.step
      /\ x4'.pc = "sync" /\ x4'.seen = x4.seen
      /\ x4'.todo = x4.todo \ {n} /\ x4'.found = x4.found \union {f}
  BY <1>1 DEF ArtInv, StampsOK, SessionFields
<1>4. DOMAIN x5' = Names /\ x5'[n] = what /\ \A m \in Names \ {n} : x5'[m] = x5[m]
  BY <1>1 DEF ArtInv, StampsOK
<1>5. StampsOK'
  BY <1>1, <1>3, <1>4 DEF ArtInv, StampsOK, IsThere, Untouched, Recording
<1>6. /\ ~Recording /\ ~Recording'
      /\ \A m \in Names : ~Sending(m)' /\ (Sending(m) <=> m = n)
      /\ \A m \in Names : (HasSeen(m)' <=> HasSeen(m)) /\ (IsOwn(m)' <=> IsOwn(m))
      /\ \A m \in Names : IsFound(m)' <=> IsFound(m) \/ m = n
  BY <1>1, <1>2, <1>3 DEF Recording, Sending, HasSeen, IsThere, IsOwn, IsFound, Untouched, n
<1>7. FoundOK'
  BY <1>1, <1>2, <1>3 DEF ArtInv, FoundOK, Untouched
<1>8. ListedOK'
  <2>1. SUFFICES ASSUME ~x7, NEW m \in Names, HasSeen(m) PROVE SeenIsListed(m)'
    BY <1>1, <1>6 DEF ListedOK
  <2>2. SeenIsListed(m)
    BY <2>1 DEF ArtInv, ListedOK
  <2>3. QED
    BY <1>1, <1>3, <1>6, <2>2 DEF SeenIsListed, Tells, Untouched
<1>9. StoreOK'
  BY <1>1, <1>2, <1>4, <1>6 DEF ArtInv, StoreOK, Untouched
<1>10. OwnOK'
  <2>1. \A m \in Names : IsOwn(m) => OwnIsSeen(m)'
    BY <1>1, <1>3, <1>6 DEF ArtInv, OwnOK, OwnIsSeen, Untouched
  <2>2. IsOwn(n) => x1[n].step = x4.step
    BY <1>1, <1>6 DEF ArtInv, OwnOK
  <2>3. \A m \in Names : IsFound(m)' /\ IsOwn(m)' => x1'[m].step = x4'.step
    BY <1>1, <1>3, <1>6, <2>2 DEF ArtInv, OwnOK, Untouched
  <2>4. QED
    BY <1>6, <2>1, <2>3 DEF OwnOK
<1>11. EntriesOK'
  BY <1>1, <1>6 DEF ArtInv, EntriesOK, NamesStep, IsThere, Untouched
<1>12. QED
  BY <1>5, <1>7, <1>8, <1>9, <1>10, <1>11 DEF ArtInv

(* What is to be written: an entry for each file found, the others as they *)
(* were.                                                                   *)
LEMMA UpsertOf ==
  ASSUME NEW n \in Names
  PROVE  LET entries == A!Upsert(x3.entries)
             f == CHOOSE g \in x4.found : g.name = n
         IN  /\ IsFound(n) => /\ f \in x4.found /\ f.name = n
                              /\ entries[n].stamp = x1[n].stamp /\ entries[n].label = f.label
                              /\ entries[n].session = x4.number /\ entries[n].step = x4.step
             /\ ~IsFound(n) => entries[n] = x3.entries[n]
<1> DEFINE f == CHOOSE g \in x4.found : g.name = n
<1>1. IsFound(n) => f \in x4.found /\ f.name = n
  BY DEF IsFound
<1>2. A!Upsert(x3.entries)[n] = IF IsFound(n) THEN A!EntryOf(f) ELSE x3.entries[n]
  BY DEF A!Upsert, IsFound
<1>3. IsFound(n) => A!EntryOf(f) = [stamp |-> x1[n].stamp, label |-> f.label,
                                    session |-> x4.number, step |-> x4.step]
  BY <1>1 DEF A!EntryOf
<1> HIDE DEF f
<1>4. /\ IsFound(n) => /\ f \in x4.found /\ f.name = n
                       /\ A!Upsert(x3.entries)[n].stamp = x1[n].stamp
                       /\ A!Upsert(x3.entries)[n].label = f.label
                       /\ A!Upsert(x3.entries)[n].session = x4.number
                       /\ A!Upsert(x3.entries)[n].step = x4.step
      /\ ~IsFound(n) => A!Upsert(x3.entries)[n] = x3.entries[n]
  BY <1>1, <1>2, <1>3
<1>5. QED
  BY <1>4 DEF f

(* The manifest is read, and what was found is entered.                    *)
LEMMA RecordLoadKept == ASSUME ArtInv, A!RecordLoad PROVE ArtInv'
<1> DEFINE entries == A!Upsert(x3.entries)
<1>1. /\ x4.pc = "record" /\ x4' = [x4 EXCEPT !.entries = entries, !.pc = "truncate"]
      /\ Untouched /\ UNCHANGED <<x3, x5, x7>>
  BY DEF A!RecordLoad, A!Base, Untouched
<1>2. \A n \in Names :
        /\ IsFound(n) => /\ entries[n].stamp = x1[n].stamp /\ entries[n].label = x2[n]
                         /\ entries[n].session = x4.number /\ entries[n].step = x4.step
        /\ ~IsFound(n) => entries[n] = x3.entries[n]
  BY UpsertOf DEF ArtInv, FoundOK
<1> HIDE DEF entries
<1>3. /\ DOMAIN x4' = SessionFields /\ x4'.number = x4.number /\ x4'.step = x4.step
      /\ x4'.pc = "truncate" /\ x4'.seen = x4.seen
      /\ x4'.todo = x4.todo /\ x4'.found = x4.found /\ x4'.entries = entries
  BY <1>1 DEF ArtInv, StampsOK, SessionFields
<1>4. /\ ~Recording /\ Recording'
      /\ \A n : ~Sending(n) /\ ~Sending(n)' /\ (IsFound(n)' <=> IsFound(n))
      /\ \A n : (HasSeen(n)' <=> HasSeen(n)) /\ (IsOwn(n)' <=> IsOwn(n)) /\ (IsThere(n)' <=> IsThere(n))
  BY <1>1, <1>3 DEF Recording, Sending, IsFound, HasSeen, IsThere, IsOwn, Untouched
<1>5. \A n \in Names : entries[n].stamp \in Nat /\ entries[n].stamp <= x6
  BY <1>2 DEF ArtInv, StampsOK
<1>6. StampsOK'
  BY <1>1, <1>3, <1>4, <1>5 DEF ArtInv, StampsOK, Untouched
<1>7. FoundOK'
  BY <1>1, <1>3 DEF ArtInv, FoundOK, Untouched
<1>8. ListedOK'
  <2>1. SUFFICES ASSUME ~x7, NEW n \in Names, HasSeen(n) PROVE SeenIsListed(n)'
    BY <1>1, <1>4 DEF ListedOK
  <2>2. SeenIsListed(n)
    BY <2>1 DEF ArtInv, ListedOK
  <2>3. Tells(entries, n)
    BY <1>1, <1>2, <1>4, <2>2 DEF SeenIsListed, Tells
  <2>4. QED
    BY <1>1, <1>3, <1>4, <2>3 DEF SeenIsListed, Tells, Untouched
<1>9. StoreOK'
  BY <1>1, <1>4 DEF ArtInv, StoreOK, Untouched
<1>10. OwnOK'
  BY <1>1, <1>3, <1>4 DEF ArtInv, OwnOK, OwnIsSeen, Untouched
<1>11. \A n \in Names : NamesStep(entries, n)
  BY <1>2 DEF ArtInv, EntriesOK, NamesStep, OwnOK, IsOwn
<1>12. EntriesOK'
  BY <1>1, <1>3, <1>4, <1>11 DEF ArtInv, EntriesOK, NamesStep, Untouched
<1>13. QED
  BY <1>6, <1>7, <1>8, <1>9, <1>10, <1>12 DEF ArtInv

(* The file is emptied, or written; where that fails the manifest is lost. *)
LEMMA ManifestKept ==
  ASSUME ArtInv, x4.pc \in {"truncate", "write"}, NEW pc \in {"write", "next"},
         x4' = [x4 EXCEPT !.pc = pc], Untouched, UNCHANGED x5,
         \/ pc = "write" /\ x3' = A!NoManifest("torn") /\ x7' = x7
         \/ pc = "next" /\ x3' = [state |-> "whole", entries |-> x4.entries] /\ x7' = x7
         \/ pc = "next" /\ x3' = x3 /\ x7'
  PROVE  ArtInv'
<1>1. /\ DOMAIN x4' = SessionFields /\ x4'.number = x4.number /\ x4'.step = x4.step
      /\ x4'.pc = pc /\ x4'.seen = x4.seen
      /\ x4'.todo = x4.todo /\ x4'.found = x4.found /\ x4'.entries = x4.entries
  BY DEF ArtInv, StampsOK, SessionFields
<1>2. /\ Recording /\ (Recording' => pc = "write")
      /\ \A n : ~Sending(n) /\ ~Sending(n)' /\ (IsFound(n)' <=> IsFound(n))
      /\ \A n : (HasSeen(n)' <=> HasSeen(n)) /\ (IsOwn(n)' <=> IsOwn(n)) /\ (IsThere(n)' <=> IsThere(n))
  BY <1>1 DEF Recording, Sending, IsFound, HasSeen, IsThere, IsOwn, Untouched
<1>3. \A n \in Names : x3'.entries[n] \in {x3.entries[n], x4.entries[n], A!NoEntry}
  BY DEF A!NoManifest, A!NoEntries
<1>4. A!NoEntry.stamp = 0
  BY DEF A!NoEntry
<1>5. StampsOK'
  <2>1. \A n \in Names : x3'.entries[n].stamp \in Nat /\ x3'.entries[n].stamp <= x6
    BY <1>2, <1>3, <1>4 DEF ArtInv, StampsOK
  <2>2. QED
    BY <1>1, <1>2, <2>1 DEF ArtInv, StampsOK, Untouched
<1>6. FoundOK'
  BY <1>1 DEF ArtInv, FoundOK, Untouched
<1>7. ListedOK'
  <2>1. SUFFICES ASSUME ~x7', NEW n \in Names, HasSeen(n) PROVE SeenIsListed(n)'
    BY <1>2 DEF ListedOK
  <2>2. ~x7 /\ x7' = x7
    BY <2>1
  <2>3. Tells(x4.entries, n)
    BY <1>2, <2>1, <2>2 DEF ArtInv, ListedOK, SeenIsListed
  <2>4. CASE pc = "write"
    BY <1>1, <1>2, <2>3, <2>4 DEF SeenIsListed, Tells, Untouched, Recording
  <2>5. CASE pc = "next"
    <3>1. x3'.state = "whole" /\ x3'.entries = x4.entries
      BY <2>1, <2>5
    <3>2. QED
      BY <1>1, <1>2, <2>3, <2>5, <3>1 DEF SeenIsListed, Tells, Untouched, Recording
  <2>6. QED
    BY <2>4, <2>5
<1>8. StoreOK'
  BY <1>1, <1>2 DEF ArtInv, StoreOK, Untouched
<1>9. OwnOK'
  BY <1>1, <1>2 DEF ArtInv, OwnOK, OwnIsSeen, Untouched
<1>10. EntriesOK'
  <2>1. \A n \in Names : ~(A!NoEntry.stamp = x1[n].stamp /\ IsThere(n))
    BY <1>4 DEF ArtInv, StampsOK
  <2>2. \A n \in Names : NamesStep(x3'.entries, n)
    BY <1>2, <1>3, <2>1 DEF ArtInv, EntriesOK, NamesStep
  <2>3. \A n \in Names : NamesStep(x4.entries, n)
    BY <1>2 DEF ArtInv, EntriesOK
  <2>4. QED
    BY <1>1, <1>2, <2>2, <2>3 DEF EntriesOK, NamesStep, Untouched
<1>11. QED
  BY <1>5, <1>6, <1>7, <1>8, <1>9, <1>10 DEF ArtInv

(* The manifest is torn while it is written, or this record is lost.       *)
LEMMA TruncateKept == ASSUME ArtInv, A!RecordTruncate PROVE ArtInv'
<1>1. x4.pc = "truncate" /\ Untouched /\ UNCHANGED x5
  BY DEF A!RecordTruncate, Untouched
<1>2. CASE x3' = A!NoManifest("torn") /\ x4' = [x4 EXCEPT !.pc = "write"] /\ x7' = x7
  BY <1>1, <1>2, ManifestKept
<1>3. CASE x4' = [x4 EXCEPT !.pc = "next"] /\ x7' /\ x3' = x3
  BY <1>1, <1>3, ManifestKept
<1>4. QED
  BY <1>2, <1>3 DEF A!RecordTruncate

(* The manifest has what was found, or this record is lost.                *)
LEMMA RecordWriteKept == ASSUME ArtInv, A!RecordWrite PROVE ArtInv'
<1>1. x4.pc = "write" /\ x4' = [x4 EXCEPT !.pc = "next"] /\ Untouched /\ UNCHANGED x5
  BY DEF A!RecordWrite, Untouched
<1>2. CASE x3' = [state |-> "whole", entries |-> x4.entries] /\ x7' = x7
  BY <1>1, <1>2, ManifestKept
<1>3. CASE x7' /\ x3' = x3
  BY <1>1, <1>3, ManifestKept
<1>4. QED
  BY <1>2, <1>3 DEF A!RecordWrite

(* Every step of a session keeps the invariant.                            *)
LEMMA ArtKept == ASSUME ArtInv, A!ArtNext PROVE ArtInv'
<1>1. CASE \/ \E step \in 1..Steps : A!Open(step)
           \/ \E n \in Names : A!Write(n) \/ A!Remove(n) \/ A!StrayWrite(n) \/ A!Announce(n) \/ A!Look(n)
  BY <1>1, OpenKept, WriteKept, RemoveKept, AnnounceKept, LookKept
<1>2. CASE \/ \E b \in BOOLEAN : A!Send(b) \/ A!SliceStarts(b) \/ A!BlockEnds(b)
           \/ A!Replayed \/ A!SyncEnds \/ A!RecordLoad \/ A!RecordTruncate \/ A!RecordWrite
           \/ A!NextStep \/ A!Kill
  BY <1>2, SendKept, SliceStartsKept, BlockEndsKept, ReplayedKept, SyncEndsKept, RecordLoadKept,
     TruncateKept, RecordWriteKept, NextStepKept, ArtKillKept
<1>3. QED
  BY <1>1, <1>2 DEF A!ArtNext

(* A directory nobody has looked at.                                       *)
LEMMA ArtStarts == ASSUME A!ArtInit PROVE ArtInv
<1>1. /\ DOMAIN x4 = SessionFields /\ x4.number = 0 /\ x4.pc = "over" /\ x4.found = {}
      /\ x4.seen = [n \in Names |-> 0]
  BY DEF A!ArtInit, A!Fresh, SessionFields
<1>2. \A n \in Names : /\ x1[n] = A!NoFile /\ x1[n].stamp = 0 /\ x1[n].session = 0
                       /\ x3.entries[n].stamp = 0
  BY DEF A!ArtInit, A!NoFile, A!NoManifest, A!NoEntries, A!NoEntry
<1>3. \A n \in Names : ~x1[n].live
  BY <1>2 DEF A!NoFile
<1>4. \A n \in Names : ~IsThere(n) /\ ~HasSeen(n)
  BY <1>2 DEF IsThere, HasSeen
<1>5. StampsOK
  BY <1>1, <1>2, <1>3, <1>4 DEF A!ArtInit, StampsOK, Recording
<1>6. FoundOK /\ ListedOK /\ StoreOK
  BY <1>1, <1>4 DEF FoundOK, ListedOK, StoreOK
<1>7. OwnOK
  BY <1>1 DEF OwnOK, Sending, IsFound
<1>8. EntriesOK
  BY <1>1, <1>4 DEF EntriesOK, NamesStep, Recording
<1>9. QED
  BY <1>5, <1>6, <1>7, <1>8 DEF ArtInv

LEMMA ArtHolds == FrontSpec => [](scenario = "artifacts" => ArtInv)
<1> DEFINE I == scenario = "artifacts" => ArtInv
<1>1. FrontInit => I
  <2>1. ASSUME FrontInit, scenario = "artifacts" PROVE A!ArtInit
    BY <2>1 DEF FrontInit
  <2>2. QED
    BY <2>1, ArtStarts
<1>2. I /\ [FrontNext]_<<scenario, vars, xs>> => I'
  <2>1. ASSUME ArtInv, scenario = "artifacts", FrontNext PROVE ArtInv'
    <3>1. A!ArtNext
      BY <2>1 DEF FrontNext
    <3>2. QED
      BY <2>1, <3>1, ArtKept
  <2>2. ASSUME [FrontNext]_<<scenario, vars, xs>> PROVE scenario' = scenario
    BY <2>2 DEF FrontNext
  <2>3. ASSUME ArtInv, UNCHANGED <<scenario, vars, xs>> PROVE ArtInv'
    BY <2>3 DEF ArtInv, StampsOK, FoundOK, ListedOK, StoreOK, OwnOK, EntriesOK, IsThere, HasSeen,
       Sending, IsFound, IsOwn, Recording, Tells, SeenIsListed, OwnIsSeen, NamesStep
  <2>4. QED
    BY <2>1, <2>2, <2>3
<1>3. QED
  BY <1>1, <1>2, PTL DEF FrontSpec

(* Between blocks the manifest lists what the session has seen as it is,   *)
(* the store has it unless its upload failed, and the entry of a file      *)
(* names the step of the session that wrote it, whoever else writes,       *)
(* wherever an earlier session was killed: ArtifactsAreCurrent.            *)
THEOREM ManifestsAreCurrent == FrontSpec => []ArtifactsAreCurrent
<1>1. (scenario = "artifacts" => ArtInv) => ArtifactsAreCurrent
  <2>1. SUFFICES ASSUME ArtInv PROVE A!ManifestIsCurrent /\ A!StoreIsCurrent /\ A!OwnStep
    BY DEF ArtifactsAreCurrent
  <2>2. A!ManifestIsCurrent
    <3>1. SUFFICES ASSUME x4.pc \in {"announce", "block", "next", "done"}, ~x7,
                          NEW n \in Names, x1[n] # A!NoFile, x4.seen[n] = x1[n].stamp
                   PROVE  /\ n \in A!Listed
                          /\ x3.state = "whole" /\ x3.entries[n].stamp = x1[n].stamp
                          /\ x2[n] < x1[n].stamp => x3.entries[n].label = x2[n]
      BY DEF A!ManifestIsCurrent, A!Between
    <3>2. x3.state = "whole" /\ Tells(x3.entries, n)
      BY <2>1, <3>1 DEF ArtInv, ListedOK, SeenIsListed, HasSeen, IsThere, Recording, Sending
    <3>3. x1[n].stamp > 0 /\ x1[n].stamp \in Nat
      BY <2>1, <3>1 DEF ArtInv, StampsOK, IsThere
    <3>4. x3.entries[n] # A!NoEntry
      BY <3>2, <3>3 DEF Tells, A!NoEntry
    <3>5. QED
      BY <3>2, <3>4 DEF Tells, A!Listed
  <2>3. A!StoreIsCurrent
    BY <2>1 DEF ArtInv, StoreOK, HasSeen, IsThere, Sending, A!StoreIsCurrent, A!Between
  <2>4. A!OwnStep
    BY <2>1 DEF ArtInv, EntriesOK, NamesStep, IsThere, A!OwnStep, A!Current
  <2>5. QED
    BY <2>2, <2>3, <2>4
<1>2. QED
  BY <1>1, ArtHolds, PTL

(* The types: what is listed has the stamp, the label, the session and the *)
(* step of something that was written.                                     *)
EntryType == [stamp : 0..MaxWrites, label : 0..MaxWrites, session : 0..MaxSessions, step : 0..Steps]
SessionTyped ==
  /\ x4.step \in 0..Steps /\ x4.number \in 0..MaxSessions
  /\ \A f \in x4.found : f.label \in 0..MaxWrites
  /\ x4.entries \in [Names -> EntryType]
ArtTyped ==
  /\ x6 \in 0..MaxWrites /\ \A n \in Names : x2[n] \in 0..MaxWrites
  /\ SessionTyped
  /\ x3.entries \in [Names -> EntryType]
  /\ x3.state # "whole" => x3.entries = A!NoEntries

LEMMA ArtNumbers == Steps \in Nat \ {0} /\ MaxSessions \in Nat \ {0} /\ MaxWrites \in Nat
BY FrontAssumption DEF A!ArtifactsAssumption

LEMMA NoEntriesTyped == A!NoEntries \in [Names -> EntryType]
<1>1. A!NoEntry \in EntryType
  BY ArtNumbers DEF A!NoEntry, EntryType
<1>2. QED
  BY <1>1 DEF A!NoEntries

(* A session that has just begun, or is over.                              *)
LEMMA FreshTyped ==
  ASSUME NEW number \in 0..MaxSessions, NEW step \in 1..Steps, UNCHANGED <<x2, x3, x6>>,
         DOMAIN x4' = SessionFields,
         x4'.step = step, x4'.number = number, x4'.found = {}, x4'.entries = A!NoEntries,
         ArtTyped
  PROVE  ArtTyped'
BY NoEntriesTyped, ArtNumbers DEF ArtTyped, SessionTyped

(* The author, blocks and others write, and labels are announced.          *)
LEMMA WritesTyped ==
  ASSUME ArtInv, ArtTyped, NEW n \in Names,
         A!Write(n) \/ A!Remove(n) \/ A!StrayWrite(n) \/ A!Announce(n)
  PROVE  ArtTyped'
<1>1. UNCHANGED <<x3, x4>> /\ DOMAIN x2 = Names
  BY DEF A!Write, A!Remove, A!StrayWrite, A!Announce, ArtInv, StampsOK
<1>2. x6' \in 0..MaxWrites
  BY ArtNumbers DEF A!Write, A!Remove, A!StrayWrite, A!Announce, A!Writes, ArtTyped
<1>3. \A m \in Names : x2'[m] \in 0..MaxWrites
  <2>1. CASE x2' = x2
    BY <2>1 DEF ArtTyped
  <2>2. CASE A!Announce(n)
    <3>1. x2' = [x2 EXCEPT ![n] = x6 + 1] /\ x6 + 1 \in 0..MaxWrites
      BY <2>2, ArtNumbers DEF A!Announce, ArtTyped
    <3>2. QED
      BY <1>1, <3>1 DEF ArtTyped
  <2>3. QED
    BY <2>1, <2>2 DEF A!Write, A!Remove, A!StrayWrite
<1>4. SessionTyped'
  BY <1>1 DEF ArtTyped, SessionTyped
<1>5. QED
  BY <1>1, <1>2, <1>3, <1>4 DEF ArtTyped

(* The session goes on with what it has found.                             *)
LEMMA GoesOnTyped ==
  ASSUME ArtTyped, UNCHANGED <<x2, x3, x6>>, SessionTyped' PROVE ArtTyped'
BY DEF ArtTyped

LEMMA PlaceTyped ==
  ASSUME ArtInv, ArtTyped,
         \/ \E n \in Names : A!Look(n)
         \/ \E b \in BOOLEAN : A!SliceStarts(b) \/ A!BlockEnds(b)
         \/ A!Replayed \/ A!SyncEnds
  PROVE  ArtTyped'
<1>1. DOMAIN x4 = SessionFields /\ UNCHANGED <<x2, x3, x6>>
  BY DEF ArtInv, StampsOK, A!Look, A!SliceStarts, A!BlockEnds, A!Replayed, A!SyncEnds
<1>2. x4'.step = x4.step /\ x4'.number = x4.number /\ x4'.found = x4.found /\ x4'.entries = x4.entries
  <2>1. ASSUME NEW n \in Names, A!Look(n)
        PROVE x4'.step = x4.step /\ x4'.number = x4.number /\ x4'.found = x4.found /\ x4'.entries = x4.entries
    BY <1>1, <2>1 DEF A!Look, SessionFields
  <2>2. CASE A!Listing = x4' \/ x4' = [x4 EXCEPT !.pc = "block"]
    BY <1>1, <2>2 DEF A!Listing, SessionFields
  <2>3. CASE A!Replayed \/ A!SyncEnds
    BY <1>1, <2>3 DEF A!Replayed, A!SyncEnds, SessionFields
  <2>4. QED
    BY <2>1, <2>2, <2>3 DEF A!SliceStarts, A!BlockEnds
<1>3. SessionTyped'
  BY <1>2 DEF ArtTyped, SessionTyped
<1>4. QED
  BY <1>1, <1>3, GoesOnTyped

LEMMA SendTyped == ASSUME ArtInv, ArtTyped, NEW arrives, A!Send(arrives) PROVE ArtTyped'
<1>1. DOMAIN x4 = SessionFields /\ UNCHANGED <<x2, x3, x6>> /\ x4.sending \in Names
  BY DEF ArtInv, StampsOK, A!Send
<1>2. /\ x4'.step = x4.step /\ x4'.number = x4.number /\ x4'.entries = x4.entries
      /\ x4'.found = x4.found \union {[name |-> x4.sending, label |-> x2[x4.sending]]}
  BY <1>1 DEF A!Send, SessionFields
<1>3. \A f \in x4'.found : f.label \in 0..MaxWrites
  BY <1>1, <1>2 DEF ArtTyped, SessionTyped
<1>4. SessionTyped'
  BY <1>2, <1>3 DEF ArtTyped, SessionTyped
<1>5. QED
  BY <1>1, <1>4, GoesOnTyped

LEMMA RecordLoadTyped == ASSUME ArtInv, ArtTyped, A!RecordLoad PROVE ArtTyped'
<1> DEFINE entries == A!Upsert(x3.entries)
<1>1. /\ DOMAIN x4 = SessionFields /\ UNCHANGED <<x2, x3, x6>>
      /\ x4' = [x4 EXCEPT !.entries = entries, !.pc = "truncate"]
  BY DEF ArtInv, StampsOK, A!RecordLoad, A!Base
<1>2. entries \in [Names -> EntryType]
  <2>1. ASSUME NEW n \in Names PROVE entries[n] \in EntryType
    <3>1. CASE IsFound(n)
      <4> DEFINE f == CHOOSE g \in x4.found : g.name = n
      <4>1. f \in x4.found /\ f.name = n
        BY <3>1 DEF IsFound
      <4>2. entries[n] = [stamp |-> x1[n].stamp, label |-> f.label, session |-> x4.number, step |-> x4.step]
        <5>1. entries[n] = A!EntryOf(f)
          BY <3>1 DEF A!Upsert, IsFound
        <5>2. QED
          BY <4>1, <5>1 DEF A!EntryOf
      <4>3. f.label \in 0..MaxWrites /\ x4.number \in 0..MaxSessions /\ x4.step \in 0..Steps
        BY <4>1 DEF ArtTyped, SessionTyped
      <4> HIDE DEF f, entries
      <4>4. x1[n].stamp \in 0..MaxWrites
        BY ArtNumbers DEF ArtInv, StampsOK, ArtTyped
      <4>5. QED
        BY <4>2, <4>3, <4>4 DEF EntryType
    <3>2. CASE ~IsFound(n)
      BY <3>2, UpsertOf DEF ArtTyped
    <3>3. QED
      BY <3>1, <3>2
  <2>2. QED
    BY <2>1 DEF A!Upsert
<1> HIDE DEF entries
<1>3. /\ x4'.step = x4.step /\ x4'.number = x4.number /\ x4'.found = x4.found /\ x4'.entries = entries
  BY <1>1 DEF SessionFields
<1>4. SessionTyped'
  BY <1>2, <1>3 DEF ArtTyped, SessionTyped
<1>5. QED
  BY <1>1, <1>4, GoesOnTyped

LEMMA ManifestTyped == ASSUME ArtInv, ArtTyped, A!RecordTruncate \/ A!RecordWrite PROVE ArtTyped'
<1>1. DOMAIN x4 = SessionFields /\ UNCHANGED <<x2, x6>> /\ \E pc : x4' = [x4 EXCEPT !.pc = pc]
  BY DEF ArtInv, StampsOK, A!RecordTruncate, A!RecordWrite
<1>2. x4'.step = x4.step /\ x4'.number = x4.number /\ x4'.found = x4.found /\ x4'.entries = x4.entries
  BY <1>1 DEF SessionFields
<1>3. SessionTyped'
  BY <1>2 DEF ArtTyped, SessionTyped
<1>4. /\ x3'.entries \in {x3.entries, x4.entries, A!NoEntries}
      /\ x3'.state # "whole" => x3'.entries = A!NoEntries
  BY DEF A!RecordTruncate, A!RecordWrite, A!NoManifest, ArtTyped
<1>5. QED
  BY <1>1, <1>3, <1>4, NoEntriesTyped DEF ArtTyped, SessionTyped

LEMMA NextStepTyped == ASSUME ArtInv, ArtTyped, A!NextStep PROVE ArtTyped'
<1>1. DOMAIN x4 = SessionFields /\ UNCHANGED <<x2, x3, x6>>
  BY DEF ArtInv, StampsOK, A!NextStep
<1>2. /\ x4'.number = x4.number /\ x4'.found = {} /\ x4'.entries = A!NoEntries
      /\ x4'.step = IF x4.step < Steps THEN x4.step + 1 ELSE x4.step
  BY <1>1 DEF A!NextStep, SessionFields
<1>3. x4'.step \in 0..Steps
  BY <1>2, ArtNumbers DEF ArtTyped, SessionTyped
<1>4. SessionTyped'
  BY <1>2, <1>3, NoEntriesTyped DEF ArtTyped, SessionTyped
<1>5. QED
  BY <1>1, <1>4, GoesOnTyped

LEMMA SessionsTyped == ASSUME ArtInv, ArtTyped, (\E step \in 1..Steps : A!Open(step)) \/ A!Kill PROVE ArtTyped'
<1>1. x4.number \in 0..MaxSessions /\ 1 \in 1..Steps
  BY ArtNumbers DEF ArtTyped, SessionTyped
<1>2. ASSUME NEW step \in 1..Steps, A!Open(step) PROVE ArtTyped'
  <2>1. UNCHANGED <<x2, x3, x6>> /\ x4.number + 1 \in 0..MaxSessions
    BY <1>1, <1>2, ArtNumbers DEF A!Open
  <2>2. /\ DOMAIN x4' = SessionFields /\ x4'.step = step /\ x4'.number = x4.number + 1
        /\ x4'.found = {} /\ x4'.entries = A!NoEntries
    <3>1. CASE step = 1
      BY <1>2, <3>1 DEF A!Open, A!Fresh, SessionFields
    <3>2. CASE step # 1
      BY <1>2, <3>2 DEF A!Open, A!Fresh, SessionFields
    <3>3. QED
      BY <3>1, <3>2
  <2>3. QED
    BY <2>1, <2>2, FreshTyped
<1>3. CASE A!Kill
  <2>1. /\ UNCHANGED <<x2, x3, x6>> /\ DOMAIN x4' = SessionFields /\ x4'.step = 1
        /\ x4'.number = x4.number /\ x4'.found = {} /\ x4'.entries = A!NoEntries
    BY <1>3 DEF A!Kill, A!Fresh, SessionFields
  <2>2. QED
    BY <1>1, <2>1, FreshTyped
<1>4. QED
  BY <1>2, <1>3

LEMMA ArtTypes == ASSUME ArtInv, ArtTyped, A!ArtNext PROVE ArtTyped'
BY WritesTyped, PlaceTyped, SendTyped, RecordLoadTyped, ManifestTyped, NextStepTyped, SessionsTyped
   DEF A!ArtNext

LEMMA ArtTypesStart == ASSUME A!ArtInit PROVE ArtTyped
<1>1. x4.step = 1 /\ x4.number = 0 /\ x4.found = {} /\ x4.entries = A!NoEntries
  BY DEF A!ArtInit, A!Fresh
<1>2. x3.entries = A!NoEntries /\ x6 = 0 /\ \A n \in Names : x2[n] = 0
  BY DEF A!ArtInit, A!NoManifest
<1>3. QED
  BY <1>1, <1>2, NoEntriesTyped, ArtNumbers DEF ArtTyped, SessionTyped

LEMMA ArtTypesHold == ASSUME ArtInv, ArtTyped PROVE A!ArtTypeOK
BY DEF A!ArtTypeOK, ArtTyped, SessionTyped, EntryType, ArtInv, StampsOK

LEMMA ArtKeepsTypes == FrontSpec => [](scenario = "artifacts" => A!ArtTypeOK)
<1> DEFINE I == scenario = "artifacts" => ArtInv
           K == scenario = "artifacts" => ArtTyped
<1>1. FrontInit => K
  <2>1. ASSUME FrontInit, scenario = "artifacts" PROVE A!ArtInit
    BY <2>1 DEF FrontInit
  <2>2. QED
    BY <2>1, ArtTypesStart
<1>2. I /\ K /\ [FrontNext]_<<scenario, vars, xs>> => K'
  <2>1. ASSUME ArtInv, ArtTyped, scenario = "artifacts", FrontNext PROVE ArtTyped'
    <3>1. A!ArtNext
      BY <2>1 DEF FrontNext
    <3>2. QED
      BY <2>1, <3>1, ArtTypes
  <2>2. ASSUME [FrontNext]_<<scenario, vars, xs>> PROVE scenario' = scenario
    BY <2>2 DEF FrontNext
  <2>3. ASSUME ArtTyped, UNCHANGED <<scenario, vars, xs>> PROVE ArtTyped'
    BY <2>3 DEF ArtTyped, SessionTyped
  <2>4. QED
    BY <2>1, <2>2, <2>3
<1>3. I /\ K => (scenario = "artifacts" => A!ArtTypeOK)
  BY ArtTypesHold
<1>4. QED
  BY <1>1, <1>2, <1>3, ArtHolds, PTL DEF FrontSpec

-----------------------------------------------------------------------------
(* What the MCP server tells of a run.                                     *)

StoreFields == {"status", "pause", "desc", "saved"}

(* A run that is paused has the descriptor of its last pause, unless that  *)
(* could not be saved.                                                     *)
RunsOK ==
  /\ DOMAIN x6 = Runs
  /\ \A r \in Runs : /\ DOMAIN x6[r] = StoreFields
                     /\ x6[r].status = "paused" /\ x6[r].saved => x6[r].desc = x6[r].pause

(* The server is at a line that it has read.                               *)
ServerOK ==
  /\ DOMAIN x4 = {"pc", "run", "code"} /\ x4.run \in Runs /\ x4.code \in M!Codes
  /\ x1 \in Seq(Messages) /\ x2 \in 0..Len(x1)
  /\ x4.pc \notin {"read", "done"} => x2 > 0

Untold == x4.run \notin x8.touched

(* What the child's exit code says is still so, unless another process     *)
(* came between.                                                           *)
ChildOK ==
  /\ DOMAIN x8 = {"count", "touched"}
  /\ x4.pc = "collect" /\ Untold =>
       /\ x4.code = M!Success => x6[x4.run].status = "complete"
       /\ x4.code = M!Paused => x6[x4.run].status = "paused"
  /\ x4.pc = "elicit" => x4.code = M!Paused
  /\ x4.pc \in {"elicit", "timeline paused"} /\ Untold => x6[x4.run].status = "paused"

(* A response that says what is stored.                                    *)
Truthful(t) ==
  /\ t.desc # 0 => t.status = "input_required"
  /\ t.alone =>
       /\ t.status = "completed" => t.store.status = "complete"
       /\ t.status = "input_required" =>
            t.store.status = "paused" /\ (t.store.saved => t.desc = t.store.pause)

AnswersOK ==
  /\ \E S : x5 \in Seq(S)
  /\ \A i \in DOMAIN x5 : Truthful(x5[i].what)

McpInv == RunsOK /\ ServerOK /\ ChildOK /\ AnswersOK

(* One more response is one more to be truthful.                           *)
LEMMA OneMoreAnswer ==
  ASSUME AnswersOK, NEW id, NEW what, Truthful(what), M!Answer(id, what)
  PROVE  AnswersOK'
<1>1. PICK S : x5 \in Seq(S)
  BY DEF AnswersOK
<1> DEFINE a == [id |-> id, what |-> what]
<1>2. x5' = Append(x5, a) /\ a.what = what
  BY DEF M!Answer
<1> HIDE DEF a
<1>3. x5 \in Seq(S \union {a}) /\ x5' \in Seq(S \union {a})
  BY <1>1, <1>2
<1>4. DOMAIN x5' = 1..(Len(x5) + 1) /\ DOMAIN x5 = 1..Len(x5) /\ Len(x5) \in Nat
  BY <1>1, <1>2, <1>3
<1>5. x5'[Len(x5) + 1] = a /\ \A i \in 1..Len(x5) : x5'[i] = x5[i]
  BY <1>2, <1>3
<1>6. \A i \in DOMAIN x5' : Truthful(x5'[i].what)
  BY <1>2, <1>4, <1>5 DEF AnswersOK
<1>7. \A t : Truthful(t) <=> Truthful(t)'
  BY DEF Truthful
<1>8. QED
  BY <1>3, <1>6, <1>7 DEF AnswersOK, Truthful

(* A plain text tells nothing of a run.                                    *)
LEMMA TextsAreTruthful == ASSUME NEW kind PROVE Truthful(M!Text(kind))
<1>1. M!Text(kind).desc = 0 /\ M!Text(kind).status = "none"
  BY DEF M!Text
<1>2. QED
  BY <1>1 DEF Truthful

(* What is told of the run at hand.                                        *)
LEMMA TalesAreTruthful ==
  ASSUME McpInv, NEW status, NEW desc,
         desc # 0 => status = "input_required",
         Untold /\ status = "completed" => x6[x4.run].status = "complete",
         Untold /\ status = "input_required" => x6[x4.run].status = "paused" /\ desc = x6[x4.run].desc
  PROVE  Truthful(M!Elicitation(status, desc))
<1> DEFINE t == M!Elicitation(status, desc)
<1>1. t.desc = desc /\ t.status = status /\ t.store = x6[x4.run]
  BY DEF M!Elicitation
<1>2. t.alone <=> Untold
  <2>1. PICK alone : t = [kind |-> "result", status |-> status, run |-> x4.run, desc |-> desc,
                          store |-> x6[x4.run], alone |-> alone]
                     /\ alone = (x4.run \notin x8.touched)
    BY Zenon DEF M!Elicitation
  <2>2. t.alone = alone
    BY <2>1
  <2>3. QED
    BY <2>1, <2>2, Zenon DEF Untold
<1> HIDE DEF t
<1>3. Truthful(t)
  BY <1>1, <1>2 DEF Truthful, McpInv, RunsOK, ServerOK
<1>4. QED
  BY <1>3 DEF t

(* The server listens again, with the run of the instance's choice.        *)
LEMMA ListensAgain == /\ M!Listening.pc = "read" /\ M!Listening.run \in Runs /\ M!Listening.code \in M!Codes
                      /\ DOMAIN M!Listening = {"pc", "run", "code"}
<1>1. Runs # {}
  BY FrontAssumption DEF M!McpAssumption
<1>2. QED
  BY <1>1 DEF M!Listening, M!Codes, M!Killed

(* A response to a tool, after which the server listens.                   *)
LEMMA SaysKept ==
  ASSUME McpInv, NEW what, Truthful(what), M!Says(what), UNCHANGED <<x1, x2, x6>>,
         DOMAIN x8' = {"count", "touched"}
  PROVE  McpInv'
<1>1. AnswersOK'
  BY OneMoreAnswer DEF M!Says, McpInv
<1>2. x4' = M!Listening
  BY DEF M!Says
<1>3. ServerOK'
  BY <1>2, ListensAgain DEF McpInv, ServerOK
<1>4. ChildOK'
  BY <1>2, ListensAgain DEF ChildOK
<1>5. RunsOK'
  BY DEF McpInv, RunsOK
<1>6. QED
  BY <1>1, <1>3, <1>4, <1>5 DEF McpInv

(* What the end of a child, or of another process, does to a run.          *)
LEMMA EndsOf ==
  ASSUME RunsOK, NEW r \in Runs, NEW code \in M!Codes, M!Ends(r, code)
  PROVE  /\ RunsOK'
         /\ \A q \in Runs \ {r} : x6'[q] = x6[q]
         /\ code = M!Success => x6'[r].status = "complete"
         /\ code = M!Paused => x6'[r].status = "paused"
<1> USE DEF M!Success, M!Failed, M!Usage, M!Invalid, M!Busy, M!TimedOut, M!Paused, M!Killed
<1>1. CASE code \in {M!Success, M!Failed, M!TimedOut}
  <2>1. PICK status \in {"complete", "failed"} :
          /\ x6' = [x6 EXCEPT ![r] = [@ EXCEPT !.status = status, !.desc = 0]]
          /\ code = M!Success => status = "complete"
    BY <1>1 DEF M!Ends
  <2>2. /\ DOMAIN x6' = Runs /\ \A q \in Runs \ {r} : x6'[q] = x6[q]
        /\ DOMAIN x6'[r] = StoreFields /\ x6'[r].status = status
    BY <2>1 DEF RunsOK, StoreFields
  <2>3. QED
    BY <1>1, <2>1, <2>2 DEF RunsOK
<1>2. CASE code = M!Paused
  <2>1. PICK saved \in BOOLEAN :
          x6' = [x6 EXCEPT ![r] = [status |-> "paused", pause |-> @.pause + 1,
                                   desc |-> IF saved THEN @.pause + 1 ELSE @.desc, saved |-> saved]]
    BY <1>2 DEF M!Ends
  <2>2. /\ DOMAIN x6' = Runs /\ \A q \in Runs \ {r} : x6'[q] = x6[q]
        /\ x6'[r] = [status |-> "paused", pause |-> x6[r].pause + 1,
                     desc |-> IF saved THEN x6[r].pause + 1 ELSE x6[r].desc, saved |-> saved]
    BY <2>1 DEF RunsOK
  <2>3. /\ DOMAIN x6'[r] = StoreFields /\ x6'[r].status = "paused" /\ x6'[r].pause = x6[r].pause + 1
        /\ x6'[r].desc = IF saved THEN x6[r].pause + 1 ELSE x6[r].desc
    BY <2>2 DEF StoreFields
  <2>4. x6'[r].saved => saved
    <3>1. x6'[r].saved = saved
      BY <2>2
    <3>2. QED
      BY <3>1, Zenon
  <2>5. QED
    BY <1>2, <2>2, <2>3, <2>4 DEF RunsOK
<1>3. CASE code = M!Killed
  <2>1. PICK status \in {x6[r].status, "in_progress"} : x6' = [x6 EXCEPT ![r].status = status]
    BY <1>3 DEF M!Ends
  <2>2. /\ DOMAIN x6' = Runs /\ \A q \in Runs \ {r} : x6'[q] = x6[q]
        /\ DOMAIN x6'[r] = StoreFields /\ x6'[r].status = status
        /\ x6'[r].pause = x6[r].pause /\ x6'[r].desc = x6[r].desc /\ x6'[r].saved = x6[r].saved
    BY <2>1 DEF RunsOK, StoreFields
  <2>3. QED
    BY <1>3, <2>1, <2>2 DEF RunsOK
<1>4. CASE code \in {M!Usage, M!Invalid, M!Busy}
  <2>1. x6' = x6
    BY <1>4 DEF M!Ends
  <2>2. QED
    BY <1>4, <2>1 DEF RunsOK
<1>5. QED
  BY <1>1, <1>2, <1>3, <1>4 DEF M!Codes

(* The client and other processes.                                         *)
LEMMA ClientKept == ASSUME McpInv, (\E m \in Messages : M!Send(m)) \/ M!Close PROVE McpInv'
<1>1. UNCHANGED <<x2, x4, x5, x6, x8>>
  BY DEF M!Send, M!Close
<1>2. x1' \in Seq(Messages) /\ x2 \in 0..Len(x1')
  <2>1. CASE M!Close
    BY <2>1 DEF M!Close, McpInv, ServerOK
  <2>2. ASSUME NEW m \in Messages, M!Send(m) PROVE x1' \in Seq(Messages) /\ Len(x1') = Len(x1) + 1
    BY <2>2 DEF M!Send, McpInv, ServerOK
  <2>3. QED
    BY <2>1, <2>2 DEF McpInv, ServerOK
<1>3. RunsOK' /\ ServerOK'
  BY <1>1, <1>2 DEF McpInv, RunsOK, ServerOK
<1>4. ChildOK' /\ AnswersOK'
  BY <1>1 DEF McpInv, ChildOK, Untold, AnswersOK, Truthful
<1>5. QED
  BY <1>3, <1>4 DEF McpInv

(* Another process ends a run, which is then touched.                      *)
LEMMA OtherKept == ASSUME McpInv, NEW r \in Runs, NEW code \in M!Codes, M!Other(r, code) PROVE McpInv'
<1>1. /\ UNCHANGED <<x1, x2, x4, x5>> /\ M!Ends(r, code)
      /\ x8' = [count |-> x8.count + 1, touched |-> x8.touched \union {r}]
  BY DEF M!Other
<1>2. RunsOK' /\ \A q \in Runs \ {r} : x6'[q] = x6[q]
  BY <1>1, EndsOf DEF McpInv
<1>3. DOMAIN x8' = {"count", "touched"} /\ x8'.touched = x8.touched \union {r}
  BY <1>1
<1>4. Untold' => Untold /\ x6'[x4.run] = x6[x4.run]
  BY <1>1, <1>2, <1>3 DEF Untold, McpInv, ServerOK
<1>5. ChildOK'
  BY <1>1, <1>3, <1>4 DEF McpInv, ChildOK
<1>6. ServerOK' /\ AnswersOK'
  BY <1>1 DEF McpInv, ServerOK, AnswersOK, Truthful
<1>7. QED
  BY <1>2, <1>5, <1>6 DEF McpInv

(* Another process writes a workbook, and no run.                          *)
LEMMA OtherAuthorsKept == ASSUME McpInv, M!OtherAuthors PROVE McpInv'
<1>1. /\ UNCHANGED <<x1, x2, x4, x5, x6>> /\ x8' = [x8 EXCEPT !.count = @ + 1]
  BY DEF M!OtherAuthors
<1>2. DOMAIN x8' = {"count", "touched"} /\ x8'.touched = x8.touched
  BY <1>1 DEF McpInv, ChildOK
<1>3. ChildOK'
  BY <1>1, <1>2 DEF McpInv, ChildOK, Untold
<1>4. RunsOK' /\ ServerOK' /\ AnswersOK'
  BY <1>1 DEF McpInv, RunsOK, ServerOK, AnswersOK, Truthful
<1>5. QED
  BY <1>3, <1>4 DEF McpInv

(* Where the server is at no child, nothing is claimed of one.             *)
LEMMA AtNoChild ==
  ASSUME x4'.pc \notin {"collect", "elicit", "timeline paused"}, DOMAIN x8' = {"count", "touched"}
  PROVE  ChildOK'
BY DEF ChildOK

(* Only the place of the server changes.                                   *)
LEMMA PlaceKept ==
  ASSUME McpInv, NEW pc, x4' = [x4 EXCEPT !.pc = pc], UNCHANGED <<x1, x2, x5, x6>>,
         x4.pc # "read" \/ pc \in {"read", "done"}, x4.pc # "done",
         pc \notin {"collect", "elicit", "timeline paused"}, DOMAIN x8' = {"count", "touched"}
  PROVE  McpInv'
<1>1. /\ DOMAIN x4' = {"pc", "run", "code"} /\ x4'.pc = pc /\ x4'.run = x4.run /\ x4'.code = x4.code
  BY DEF McpInv, ServerOK
<1>2. ServerOK'
  BY <1>1 DEF McpInv, ServerOK
<1>3. ChildOK'
  BY <1>1, AtNoChild
<1>4. RunsOK' /\ AnswersOK'
  BY DEF McpInv, RunsOK, AnswersOK, Truthful
<1>5. QED
  BY <1>2, <1>3, <1>4 DEF McpInv

(* A line of the input is taken.                                           *)
LEMMA ReadLineKept == ASSUME McpInv, M!ReadLine PROVE McpInv'
<1>1. /\ x4.pc = "read" /\ x2' = x2 + 1 /\ UNCHANGED <<x1, x6, x8>>
      /\ x2' \in 1..Len(x1)
  BY DEF M!ReadLine, McpInv, ServerOK
<1>2. /\ x5' = x5 \/ M!Answer(0, M!Text("error"))
      /\ x4' = x4 \/ \E pc \in {"done", "dispatch"} : x4' = [x4 EXCEPT !.pc = pc]
  BY DEF M!ReadLine
<1>3. AnswersOK'
  BY <1>2, OneMoreAnswer, TextsAreTruthful DEF McpInv, AnswersOK, Truthful
<1>4. /\ DOMAIN x4' = {"pc", "run", "code"} /\ x4'.pc \in {"read", "done", "dispatch"}
      /\ x4'.run = x4.run /\ x4'.code = x4.code
  BY <1>1, <1>2 DEF McpInv, ServerOK
<1>5. ServerOK' /\ RunsOK'
  BY <1>1, <1>4 DEF McpInv, ServerOK, RunsOK
<1>6. ChildOK'
  BY <1>1, <1>4, AtNoChild DEF McpInv, ChildOK
<1>7. QED
  BY <1>3, <1>5, <1>6 DEF McpInv

(* At the end of the input the server is done.                             *)
LEMMA EndOfInputKept == ASSUME McpInv, M!EndOfInput PROVE McpInv'
BY PlaceKept DEF M!EndOfInput, McpInv, ChildOK

(* A line is answered at once, or is a call of a tool.                     *)
LEMMA DispatchKept == ASSUME McpInv, M!Dispatch PROVE McpInv'
<1>1. x4.pc = "dispatch" /\ UNCHANGED <<x1, x2, x6, x8>> /\ DOMAIN x8 = {"count", "touched"}
  BY DEF M!Dispatch, McpInv, ChildOK
<1>2. PICK pc \in {"tool", "read"} : x4' = [x4 EXCEPT !.pc = pc]
  BY DEF M!Dispatch
<1>3. x5' = x5 \/ \E kind \in {"result", "error"} : M!Answer(x2, M!Text(kind))
  BY DEF M!Dispatch
<1>4. AnswersOK'
  BY <1>3, OneMoreAnswer, TextsAreTruthful DEF McpInv, AnswersOK, Truthful
<1>5. /\ DOMAIN x4' = {"pc", "run", "code"} /\ x4'.pc = pc
      /\ x4'.run = x4.run /\ x4'.code = x4.code
  BY <1>2 DEF McpInv, ServerOK
<1>6. ServerOK' /\ RunsOK'
  BY <1>1, <1>5 DEF McpInv, ServerOK, RunsOK
<1>7. ChildOK'
  BY <1>1, <1>5, AtNoChild
<1>8. QED
  BY <1>4, <1>6, <1>7 DEF McpInv

(* A call that is refused gets a plain text.                               *)
LEMMA RefusedKept ==
  ASSUME McpInv, NEW kind, M!Says(M!Text(kind)), UNCHANGED <<x1, x2, x6, x8>> PROVE McpInv'
BY SaysKept, TextsAreTruthful DEF McpInv, ChildOK

(* A tool is called on a run, or refused.                                  *)
LEMMA CallToolKept == ASSUME McpInv, M!CallTool PROVE McpInv'
<1>1. x4.pc = "tool" /\ UNCHANGED <<x1, x2, x6>> /\ DOMAIN x8 = {"count", "touched"}
  BY DEF M!CallTool, McpInv, ChildOK
<1>2. CASE M!Says(M!Text("tool error")) /\ x8' = x8
  BY <1>1, <1>2, RefusedKept
<1>3. CASE /\ M!Line.tool \in M!Tools /\ x4' = [x4 EXCEPT !.pc = M!Line.tool, !.run = M!Line.run]
           /\ x8' = [x8 EXCEPT !.touched = {}] /\ x5' = x5
  <2>1. M!Line \in Messages
    BY <1>1 DEF M!Line, McpInv, ServerOK
  <2>2. M!Line.run \in Runs
    BY <2>1, FrontAssumption DEF M!McpAssumption
  <2>3. PICK pc \in M!Tools, run \in Runs : x4' = [x4 EXCEPT !.pc = pc, !.run = run]
    BY <1>3, <2>2
  <2>4. /\ DOMAIN x4' = {"pc", "run", "code"} /\ x4'.pc = pc /\ x4'.run = run /\ x4'.code = x4.code
    BY <2>3 DEF McpInv, ServerOK
  <2>5. x4'.pc \notin {"collect", "elicit", "timeline paused"}
    BY <2>3, <2>4 DEF M!Tools
  <2>6. ServerOK' /\ RunsOK' /\ AnswersOK'
    BY <1>1, <1>3, <2>4 DEF McpInv, ServerOK, RunsOK, AnswersOK, Truthful
  <2>7. DOMAIN x8' = {"count", "touched"}
    BY <1>1, <1>3
  <2>8. QED
    BY <2>5, <2>6, <2>7, AtNoChild DEF McpInv
<1>4. QED
  BY <1>2, <1>3 DEF M!CallTool, M!Refused

(* Tools that start no run.                                                *)
LEMMA ToolsKept ==
  ASSUME McpInv, M!AuthorPath \/ M!AuthorWrite \/ M!Inspect \/ M!Validate \/ M!ListPending \/ M!BrokenPipe
  PROVE  McpInv'
<1>1. UNCHANGED <<x1, x2, x6, x8>>
  BY DEF M!AuthorPath, M!AuthorWrite, M!Inspect, M!Validate, M!ListPending, M!BrokenPipe
<1>2. CASE \E kind \in {"result", "tool error"} : M!Says(M!Text(kind))
  BY <1>1, <1>2, RefusedKept
<1>3. CASE x4.pc = "author_workbook" /\ x4' = [x4 EXCEPT !.pc = "write"] /\ x5' = x5
  BY <1>1, <1>3, PlaceKept DEF McpInv, ChildOK
<1>4. QED
  BY <1>2, <1>3 DEF M!AuthorPath, M!AuthorWrite, M!Inspect, M!Validate, M!ListPending, M!BrokenPipe,
     M!Refused

(* The child of a run or a resume ends.                                    *)
LEMMA ChildEndsKept ==
  ASSUME McpInv, NEW code \in M!Codes, M!RunEnds(code) \/ M!ResumeEnds(code) PROVE McpInv'
<1>1. /\ x4.pc \in {"run_workbook", "resume_workbook"} /\ M!Ends(x4.run, code)
      /\ x4' = [x4 EXCEPT !.pc = "collect", !.code = code] /\ UNCHANGED <<x1, x2, x5, x8>>
  BY DEF M!RunEnds, M!ResumeEnds
<1>2. x4.run \in Runs
  BY DEF McpInv, ServerOK
<1>3. /\ RunsOK'
      /\ code = M!Success => x6'[x4.run].status = "complete"
      /\ code = M!Paused => x6'[x4.run].status = "paused"
  BY <1>1, <1>2, EndsOf DEF McpInv
<1>4. /\ DOMAIN x4' = {"pc", "run", "code"} /\ x4'.pc = "collect" /\ x4'.run = x4.run /\ x4'.code = code
  BY <1>1 DEF McpInv, ServerOK
<1>5. ServerOK' /\ AnswersOK'
  BY <1>1, <1>4 DEF McpInv, ServerOK, AnswersOK, Truthful
<1>6. ChildOK'
  BY <1>1, <1>3, <1>4 DEF McpInv, ChildOK
<1>7. QED
  BY <1>3, <1>5, <1>6 DEF McpInv

(* The code of a child says completed or paused of those that are.         *)
LEMMA StatusOf ==
  ASSUME NEW code \in M!Codes
  PROVE  /\ M!Status(code) = "completed" => code = M!Success
         /\ M!Status(code) = "input_required" <=> code = M!Paused
BY DEF M!Codes, M!Status, M!Success, M!Failed, M!Usage, M!Invalid, M!Busy, M!TimedOut, M!Paused, M!Killed

(* The server looks for the descriptor of a run that is paused.            *)
LEMMA ToDescriptor ==
  ASSUME McpInv, NEW pc \in {"elicit", "timeline paused"}, x4' = [x4 EXCEPT !.pc = pc],
         UNCHANGED <<x1, x2, x5, x6, x8>>, x4.pc \notin {"read", "done"},
         pc = "elicit" => x4.code = M!Paused,
         Untold => x6[x4.run].status = "paused"
  PROVE  McpInv'
<1>1. /\ DOMAIN x4' = {"pc", "run", "code"} /\ x4'.pc = pc /\ x4'.run = x4.run /\ x4'.code = x4.code
  BY DEF McpInv, ServerOK
<1>2. ServerOK' /\ RunsOK' /\ AnswersOK'
  BY <1>1 DEF McpInv, ServerOK, RunsOK, AnswersOK, Truthful
<1>3. ChildOK'
  BY <1>1 DEF McpInv, ChildOK, Untold
<1>4. QED
  BY <1>2, <1>3 DEF McpInv

(* The child that ended is told of as the store has it.                    *)
LEMMA CollectKept == ASSUME McpInv, M!Collect PROVE McpInv'
<1>1. x4.pc = "collect" /\ UNCHANGED <<x1, x2, x6, x8>> /\ x4.code \in M!Codes
      /\ DOMAIN x8 = {"count", "touched"}
  BY DEF M!Collect, McpInv, ServerOK, ChildOK
<1>2. CASE x4.code = M!Paused
  <2>1. x4' = [x4 EXCEPT !.pc = "elicit"] /\ x5' = x5
    BY <1>2 DEF M!Collect
  <2>2. Untold => x6[x4.run].status = "paused"
    BY <1>1, <1>2 DEF McpInv, ChildOK
  <2>3. QED
    BY <1>1, <1>2, <2>1, <2>2, ToDescriptor
<1>3. CASE x4.code # M!Paused
  <2>1. M!Says(M!Elicitation(M!Status(x4.code), 0))
    BY <1>3 DEF M!Collect
  <2>2. M!Status(x4.code) # "input_required"
        /\ (Untold /\ M!Status(x4.code) = "completed" => x6[x4.run].status = "complete")
    BY <1>1, <1>3, StatusOf DEF McpInv, ChildOK
  <2>3. Truthful(M!Elicitation(M!Status(x4.code), 0))
    BY <2>2, TalesAreTruthful
  <2>4. QED
    BY <1>1, <2>1, <2>3, SaysKept
<1>4. QED
  BY <1>2, <1>3

(* The descriptor that is found is told.                                   *)
LEMMA DescriptorKept == ASSUME McpInv, M!Elicit \/ M!TimelinePaused PROVE McpInv'
<1>1. /\ x4.pc \in {"elicit", "timeline paused"} /\ UNCHANGED <<x1, x2, x6, x8>>
      /\ DOMAIN x8 = {"count", "touched"}
      /\ Untold => x6[x4.run].status = "paused"
  BY DEF M!Elicit, M!TimelinePaused, McpInv, ChildOK
<1>2. M!Says(M!Elicitation("input_required", x6[x4.run].desc))
  <2>1. CASE M!Elicit
    <3>1. x4.code = M!Paused /\ x4.code \in M!Codes
      BY <2>1 DEF M!Elicit, McpInv, ChildOK, ServerOK
    <3>2. M!Status(x4.code) = "input_required"
      BY <3>1, StatusOf
    <3>3. QED
      BY <2>1, <3>2 DEF M!Elicit
  <2>2. QED
    BY <2>1 DEF M!TimelinePaused
<1>3. Truthful(M!Elicitation("input_required", x6[x4.run].desc))
  BY <1>1, TalesAreTruthful
<1>4. QED
  BY <1>1, <1>2, <1>3, SaysKept

(* The timeline of a run is told as the store has it.                      *)
LEMMA TimelineKept == ASSUME McpInv, M!Timeline PROVE McpInv'
<1>1. /\ x4.pc = "get_run_events" /\ UNCHANGED <<x1, x2, x6, x8>>
      /\ DOMAIN x8 = {"count", "touched"}
  BY DEF M!Timeline, McpInv, ChildOK
<1>2. CASE M!Says(M!Text("tool error"))
  BY <1>1, <1>2, RefusedKept
<1>3. CASE M!Says(M!Elicitation(M!Label(x6[x4.run].status), 0))
  <2>1. /\ M!Label(x6[x4.run].status) # "input_required"
        /\ M!Label(x6[x4.run].status) = "completed" => x6[x4.run].status = "complete"
    BY DEF M!Label
  <2>2. Truthful(M!Elicitation(M!Label(x6[x4.run].status), 0))
    BY <2>1, TalesAreTruthful
  <2>3. QED
    BY <1>1, <1>3, <2>2, SaysKept
<1>4. CASE x6[x4.run].status = "paused" /\ x4' = [x4 EXCEPT !.pc = "timeline paused"] /\ x5' = x5
  BY <1>1, <1>4, ToDescriptor
<1>5. QED
  BY <1>2, <1>3, <1>4 DEF M!Timeline

(* Every step of the server and of the others keeps the invariant.         *)
LEMMA McpKept == ASSUME McpInv, M!McpNext PROVE McpInv'
<1>1. CASE (\E m \in Messages : M!Send(m)) \/ M!OtherAuthors \/ M!Close \/ M!ReadLine
           \/ M!EndOfInput \/ M!Dispatch \/ M!CallTool
  BY <1>1, ClientKept, OtherAuthorsKept, ReadLineKept, EndOfInputKept, DispatchKept, CallToolKept
<1>2. CASE M!BrokenPipe \/ M!AuthorPath \/ M!AuthorWrite \/ M!Inspect \/ M!Validate \/ M!ListPending
           \/ M!Collect \/ M!Elicit \/ M!Timeline \/ M!TimelinePaused
  BY <1>2, ToolsKept, CollectKept, DescriptorKept, TimelineKept
<1>3. CASE \E code \in M!Codes : M!RunEnds(code) \/ M!ResumeEnds(code) \/ (\E r \in Runs : M!Other(r, code))
  BY <1>3, ChildEndsKept, OtherKept
<1>4. QED
  BY <1>1, <1>2, <1>3 DEF M!McpNext

(* Lines are answered in order.                                            *)

(* The lines that the server is done with, and those that get an answer.   *)
Over == IF x4.pc \in {"read", "done"} THEN x2 ELSE x2 - 1
IsDue(i) ==
  M!IsRequest(x1[i]) /\ x1[i].method \notin M!Known \ (M!Simple \union {"tools/call"})

(* The server is at a request or a notification, and calls a tool for a    *)
(* request only.                                                           *)
OrderOK ==
  /\ x4.pc \notin {"read", "done"} => x1[x2].kind = "call"
  /\ x4.pc \notin {"read", "done", "dispatch"} => IsDue(x2)
  /\ \A i \in DOMAIN x5 : x5[i].id \in 0..Over
  /\ M!AnswersInOrder

(* The answers that are due, by the number of their line.                  *)
LEMMA DueIs == M!Due = {i \in 1..Over : IsDue(i)}
BY DEF M!Due, Over, IsDue

(* Nothing is answered, and nothing more is due.                           *)
LEMMA NoReply ==
  ASSUME McpInv, OrderOK, x5' = x5, Over \in Nat, Over' \in Nat, Over <= Over', M!Due' = M!Due,
         x4'.pc \notin {"read", "done"} => x1'[x2'].kind = "call",
         x4'.pc \notin {"read", "done", "dispatch"} => IsDue(x2)'
  PROVE  OrderOK'
<1>1. \A i \in DOMAIN x5' : x5'[i].id \in 0..Over'
  BY DEF OrderOK
<1>2. M!AnswersInOrder'
  BY DEF OrderOK, M!AnswersInOrder
<1>3. QED
  BY <1>1, <1>2 DEF OrderOK

(* A line is answered that is due, or null is.                             *)
LEMMA Reply ==
  ASSUME McpInv, OrderOK, NEW id \in Nat, NEW what, M!Answer(id, what),
         Over \in Nat, Over' \in Nat, Over <= Over',
         id = 0 \/ (id > Over /\ id <= Over'),
         M!Due' = IF id = 0 THEN M!Due ELSE M!Due \union {id}, 0 \notin M!Due,
         x4'.pc \notin {"read", "done"} => x1'[x2'].kind = "call",
         x4'.pc \notin {"read", "done", "dispatch"} => IsDue(x2)'
  PROVE  OrderOK'
<1>1. PICK S : x5 \in Seq(S)
  BY DEF McpInv, AnswersOK
<1> DEFINE a == [id |-> id, what |-> what]
<1>2. x5' = Append(x5, a) /\ a.id = id
  BY DEF M!Answer
<1> HIDE DEF a
<1>3. x5 \in Seq(S \union {a}) /\ x5' \in Seq(S \union {a})
  BY <1>1, <1>2
<1> DEFINE n == Len(x5)
<1>4. DOMAIN x5' = 1..(n + 1) /\ DOMAIN x5 = 1..n /\ n \in Nat
  BY <1>1, <1>2, <1>3
<1>5. x5'[n + 1] = a /\ \A i \in 1..n : x5'[i] = x5[i]
  BY <1>2, <1>3
<1> HIDE DEF n
<1>6. \A i \in DOMAIN x5 : x5[i].id \in 0..Over
  BY DEF OrderOK
<1>7. \A i \in DOMAIN x5' : x5'[i].id \in 0..Over'
  BY <1>2, <1>4, <1>5, <1>6
<1>8. {x5'[i].id : i \in DOMAIN x5'} = {x5[i].id : i \in DOMAIN x5} \union {id}
  BY <1>2, <1>4, <1>5
<1>9. {x5'[i].id : i \in DOMAIN x5'} \ {0} = M!Due'
  BY <1>8 DEF OrderOK, M!AnswersInOrder
<1>10. ASSUME NEW i \in DOMAIN x5', NEW j \in DOMAIN x5', i < j, x5'[i].id # 0, x5'[j].id # 0
       PROVE  x5'[i].id < x5'[j].id
  <2>1. CASE j \in 1..n
    BY <1>4, <1>5, <1>10, <2>1 DEF OrderOK, M!AnswersInOrder
  <2>2. CASE j = n + 1
    <3>1. x5'[j].id = id /\ id > Over
      BY <1>2, <1>5, <1>10, <2>2
    <3>2. i \in DOMAIN x5 /\ x5'[i] = x5[i]
      BY <1>4, <1>5, <1>10, <2>2
    <3>3. QED
      BY <1>6, <3>1, <3>2
  <2>3. QED
    BY <1>4, <1>10, <2>1, <2>2
<1>11. M!AnswersInOrder'
  BY <1>9, <1>10 DEF M!AnswersInOrder
<1>12. QED
  BY <1>7, <1>11 DEF OrderOK

(* The lines before the one at hand are numbered.                          *)
LEMMA OverIs == ASSUME ServerOK PROVE Over \in Nat /\ Over \in 0..Len(x1) /\ Len(x1) \in Nat /\ 0 \notin M!Due
<1>1. Over \in Nat /\ Over \in 0..Len(x1) /\ Len(x1) \in Nat
  BY DEF ServerOK, Over
<1>2. QED
  BY <1>1, DueIs

(* While a tool is called, and when its answer is sent.                    *)
LEMMA ToolOrdered ==
  ASSUME McpInv, OrderOK, McpInv', x4.pc \notin {"read", "done", "dispatch"}, UNCHANGED <<x1, x2>>,
         \/ x5' = x5 /\ x4'.pc \notin {"read", "done", "dispatch"}
         \/ \E what : M!Says(what)
  PROVE  OrderOK'
<1>1. Over \in Nat /\ Over' \in Nat /\ 0 \notin M!Due /\ x2 \in Nat
  BY OverIs DEF McpInv, ServerOK, Over
<1>2. \A i : IsDue(i)' <=> IsDue(i)
  BY DEF IsDue, M!IsRequest
<1>3. Over = x2 - 1 /\ IsDue(x2) /\ x1[x2].kind = "call"
  BY DEF Over, OrderOK
<1>4. M!Due' = {i \in 1..Over' : IsDue(i)} /\ M!Due = {i \in 1..Over : IsDue(i)}
  <2>1. M!Due' = {i \in 1..Over' : IsDue(i)'}
    BY DEF M!Due, Over, IsDue
  <2>2. QED
    BY <2>1, <1>2, DueIs
<1>5. CASE x5' = x5 /\ x4'.pc \notin {"read", "done", "dispatch"}
  <2>1. Over' = Over
    BY <1>3, <1>5 DEF Over
  <2>2. M!Due' = M!Due
    BY <1>4, <2>1
  <2>3. QED
    BY <1>1, <1>2, <1>3, <1>5, <2>1, <2>2, NoReply
<1>6. ASSUME NEW what, M!Says(what) PROVE OrderOK'
  <2>1. x4'.pc = "read" /\ M!Answer(x2, what)
    BY <1>6, ListensAgain DEF M!Says
  <2>2. Over' = x2
    BY <2>1 DEF Over
  <2>3. M!Due' = M!Due \union {x2} /\ x2 # 0
    <3>1. x2 \in 1..x2 /\ x2 # 0 /\ 1..x2 = (1..(x2 - 1)) \union {x2}
      BY <1>1, <1>3
    <3>2. QED
      BY <1>3, <1>4, <2>2, <3>1
  <2>4. QED
    BY <1>1, <1>3, <2>1, <2>2, <2>3, Reply
<1>7. QED
  BY <1>5, <1>6

(* What a tool answers goes to the line at hand.                           *)
LEMMA ToolsOrdered ==
  ASSUME McpInv, OrderOK, McpInv',
         \/ M!CallTool \/ M!BrokenPipe \/ M!AuthorPath \/ M!AuthorWrite \/ M!Inspect \/ M!Validate
         \/ M!ListPending \/ M!Collect \/ M!Elicit \/ M!Timeline \/ M!TimelinePaused
         \/ \E code \in M!Codes : M!RunEnds(code) \/ M!ResumeEnds(code)
  PROVE  OrderOK'
<1>1. x4.pc \notin {"read", "done", "dispatch"} /\ UNCHANGED <<x1, x2>>
  BY DEF M!CallTool, M!BrokenPipe, M!AuthorPath, M!AuthorWrite, M!Inspect, M!Validate,
     M!ListPending, M!Collect, M!Elicit, M!Timeline, M!TimelinePaused, M!RunEnds, M!ResumeEnds
<1>2. CASE M!CallTool
  <2>1. CASE \E what : M!Says(what)
    BY <1>1, <2>1, ToolOrdered
  <2>2. CASE M!Line.tool \in M!Tools /\ x4' = [x4 EXCEPT !.pc = M!Line.tool, !.run = M!Line.run] /\ x5' = x5
    <3>1. x4'.pc = M!Line.tool
      BY <2>2 DEF McpInv, ServerOK
    <3>2. x4'.pc \notin {"read", "done", "dispatch"}
      BY <2>2, <3>1 DEF M!Tools
    <3>3. QED
      BY <1>1, <2>2, <3>2, ToolOrdered
  <2>3. QED
    BY <1>2, <2>1, <2>2 DEF M!CallTool, M!Refused
<1>3. CASE M!Collect \/ M!Elicit \/ M!Timeline \/ M!TimelinePaused
  <2>1. CASE \E what : M!Says(what)
    BY <1>1, <2>1, ToolOrdered
  <2>2. CASE x5' = x5 /\ \E pc \in {"elicit", "timeline paused"} : x4' = [x4 EXCEPT !.pc = pc]
    BY <1>1, <2>2, ToolOrdered DEF McpInv, ServerOK
  <2>3. QED
    BY <1>3, <2>1, <2>2 DEF M!Collect, M!Elicit, M!Timeline, M!TimelinePaused
<1>4. CASE M!BrokenPipe \/ M!AuthorPath \/ M!AuthorWrite \/ M!Inspect \/ M!Validate \/ M!ListPending
  <2>1. CASE \E what : M!Says(what)
    BY <1>1, <2>1, ToolOrdered
  <2>2. CASE x5' = x5 /\ x4' = [x4 EXCEPT !.pc = "write"]
    BY <1>1, <2>2, ToolOrdered DEF McpInv, ServerOK
  <2>3. QED
    BY <1>4, <2>1, <2>2 DEF M!BrokenPipe, M!AuthorPath, M!AuthorWrite, M!Inspect, M!Validate,
       M!ListPending, M!Refused
<1>5. ASSUME NEW code \in M!Codes, M!RunEnds(code) \/ M!ResumeEnds(code) PROVE OrderOK'
  <2>1. x5' = x5 /\ x4' = [x4 EXCEPT !.pc = "collect", !.code = code]
    BY <1>5 DEF M!RunEnds, M!ResumeEnds
  <2>2. QED
    BY <1>1, <2>1, ToolOrdered DEF McpInv, ServerOK
<1>6. QED
  BY <1>2, <1>3, <1>4, <1>5

(* Lines that are sent are none that were read.                            *)
LEMMA OthersOrdered ==
  ASSUME McpInv, OrderOK, McpInv', UNCHANGED <<x2, x4, x5>>,
         x1' = x1 \/ \E m \in Messages : x1' = Append(x1, m)
  PROVE  OrderOK'
<1>1. Over \in Nat /\ Over' = Over /\ Over \in 0..Len(x1) /\ x1 \in Seq(Messages) /\ x2 \in 0..Len(x1)
      /\ Len(x1) \in Nat
  BY OverIs DEF McpInv, ServerOK, Over
<1>2. \A i \in 1..Len(x1) : x1'[i] = x1[i]
  BY <1>1
<1>3. \A i \in 1..Len(x1) : IsDue(i)' <=> IsDue(i)
  BY <1>2 DEF IsDue, M!IsRequest
<1>4. M!Due' = M!Due
  <2>1. M!Due' = {i \in 1..Over' : IsDue(i)'}
    BY DEF M!Due, Over, IsDue
  <2>2. QED
    BY <1>1, <1>3, <2>1, DueIs
<1>5. x4.pc \notin {"read", "done"} => x2 \in 1..Len(x1)
  BY <1>1 DEF McpInv, ServerOK
<1>6. QED
  BY <1>1, <1>2, <1>3, <1>4, <1>5, NoReply DEF OrderOK

(* The next line is read: a request waits for its answer, other lines have *)
(* none coming.                                                            *)
LEMMA ReadLineOrdered == ASSUME McpInv, OrderOK, McpInv', M!ReadLine PROVE OrderOK'
<1>1. x4.pc = "read" /\ x2' = x2 + 1 /\ x1' = x1 /\ x2 \in Nat /\ Over = x2
      /\ x1[x2 + 1] \in Messages /\ 0 \notin M!Due
  BY OverIs DEF M!ReadLine, McpInv, ServerOK, Over
<1> DEFINE m == x1[x2 + 1]
<1>2. m.kind \in {"blank", "response", "garbage", "oversized", "call"}
  BY <1>1, FrontAssumption DEF M!McpAssumption
<1>3. \A i : IsDue(i)' <=> IsDue(i)
  BY <1>1 DEF IsDue, M!IsRequest
<1>4. M!Due' = {i \in 1..Over' : IsDue(i)} /\ M!Due = {i \in 1..Over : IsDue(i)}
  <2>1. M!Due' = {i \in 1..Over' : IsDue(i)'}
    BY DEF M!Due, Over, IsDue
  <2>2. QED
    BY <2>1, <1>3, DueIs
<1>5. CASE m.kind = "call"
  <2>1. x5' = x5 /\ x4' = [x4 EXCEPT !.pc = "dispatch"]
    BY <1>5 DEF M!ReadLine
  <2>2. x4'.pc = "dispatch" /\ Over' = Over
    BY <1>1, <2>1 DEF McpInv, ServerOK, Over
  <2>3. M!Due' = M!Due
    BY <1>4, <2>2
  <2>4. QED
    BY <1>1, <1>5, <2>1, <2>2, <2>3, NoReply
<1>6. CASE m.kind # "call"
  <2>1. x5' = x5 \/ M!Answer(0, M!Text("error"))
    BY <1>2, <1>6 DEF M!ReadLine
  <2>2. x4'.pc \in {"read", "done"} /\ Over' = x2 + 1
    BY <1>1, <1>2, <1>6 DEF M!ReadLine, McpInv, ServerOK, Over
  <2>3. ~IsDue(x2 + 1)
    BY <1>6 DEF IsDue, M!IsRequest
  <2>4. M!Due' = M!Due
    <3>1. 1..(x2 + 1) = (1..x2) \union {x2 + 1}
      BY <1>1
    <3>2. QED
      BY <1>1, <1>4, <2>2, <2>3, <3>1
  <2>5. CASE x5' = x5
    BY <1>1, <2>2, <2>4, <2>5, NoReply
  <2>6. CASE M!Answer(0, M!Text("error"))
    BY <1>1, <2>2, <2>4, <2>6, Reply
  <2>7. QED
    BY <2>1, <2>5, <2>6
<1>7. QED
  BY <1>5, <1>6

(* At the end of the input every answer has been given.                    *)
LEMMA EndOfInputOrdered == ASSUME McpInv, OrderOK, McpInv', M!EndOfInput PROVE OrderOK'
<1>1. /\ x4.pc = "read" /\ x4'.pc = "done" /\ UNCHANGED <<x1, x2, x5>>
  BY DEF M!EndOfInput, McpInv, ServerOK
<1>2. Over' = Over /\ Over \in Nat
  BY <1>1, OverIs DEF Over, McpInv
<1>3. M!Due' = M!Due
  <2>1. M!Due' = {i \in 1..Over' : IsDue(i)'}
    BY DEF M!Due, Over, IsDue
  <2>2. \A i : IsDue(i)' <=> IsDue(i)
    BY <1>1 DEF IsDue, M!IsRequest
  <2>3. QED
    BY <1>2, <2>1, <2>2, DueIs
<1>4. QED
  BY <1>1, <1>2, <1>3, NoReply

(* A line that is no call is answered before the next is read.             *)
LEMMA DispatchOrdered == ASSUME McpInv, OrderOK, McpInv', M!Dispatch PROVE OrderOK'
<1>1. x4.pc = "dispatch" /\ UNCHANGED <<x1, x2>> /\ x2 \in Nat /\ x2 # 0 /\ Over = x2 - 1
      /\ Over \in Nat /\ 0 \notin M!Due /\ x1[x2].kind = "call"
  BY OverIs DEF M!Dispatch, McpInv, ServerOK, Over, OrderOK
<1>2. \A i : IsDue(i)' <=> IsDue(i)
  BY <1>1 DEF IsDue, M!IsRequest
<1>3. M!Due' = {i \in 1..Over' : IsDue(i)} /\ M!Due = {i \in 1..Over : IsDue(i)}
  <2>1. M!Due' = {i \in 1..Over' : IsDue(i)'}
    BY DEF M!Due, Over, IsDue
  <2>2. QED
    BY <2>1, <1>2, DueIs
<1>4. CASE M!Line.method = "tools/call" /\ M!Line.request
  <2>1. x5' = x5 /\ x4' = [x4 EXCEPT !.pc = "tool"]
    BY <1>4 DEF M!Dispatch
  <2>2. x4'.pc = "tool" /\ Over' = Over
    BY <1>1, <2>1 DEF McpInv, ServerOK, Over
  <2>3. IsDue(x2)
    BY <1>1, <1>4 DEF IsDue, M!IsRequest, M!Line
  <2>4. M!Due' = M!Due
    BY <1>3, <2>2
  <2>5. QED
    BY <1>1, <1>2, <2>1, <2>2, <2>3, <2>4, NoReply
<1>5. CASE ~(M!Line.method = "tools/call" /\ M!Line.request)
  <2>1. x4' = [x4 EXCEPT !.pc = "read"]
    BY <1>5 DEF M!Dispatch
  <2>2. x4'.pc = "read" /\ Over' = x2
    BY <1>1, <2>1 DEF McpInv, ServerOK, Over
  <2>3. 1..x2 = (1..(x2 - 1)) \union {x2}
    BY <1>1
  <2>4. CASE ~M!Line.request \/ M!Line.method \in M!Known \ M!Simple
    <3>1. x5' = x5
      BY <1>5, <2>4 DEF M!Dispatch
    <3>2. ~IsDue(x2)
      BY <1>5, <2>4 DEF IsDue, M!IsRequest, M!Line
    <3>3. M!Due' = M!Due
      BY <1>1, <1>3, <2>2, <2>3, <3>2
    <3>4. QED
      BY <1>1, <2>2, <3>1, <3>3, NoReply
  <2>5. CASE ~(~M!Line.request \/ M!Line.method \in M!Known \ M!Simple)
    <3>1. PICK what : M!Answer(x2, what)
      BY <1>5, <2>5 DEF M!Dispatch
    <3>2. IsDue(x2)
      BY <1>1, <2>5 DEF IsDue, M!IsRequest, M!Line
    <3>3. M!Due' = M!Due \union {x2}
      BY <1>1, <1>3, <2>2, <2>3, <3>2
    <3>4. QED
      BY <1>1, <2>2, <3>1, <3>3, Reply
  <2>6. QED
    BY <2>4, <2>5
<1>6. QED
  BY <1>4, <1>5

(* Every step keeps the answers in the order of the lines.                 *)
LEMMA OrderKept == ASSUME McpInv, OrderOK, McpInv', M!McpNext PROVE OrderOK'
<1>1. CASE \/ M!CallTool \/ M!BrokenPipe \/ M!AuthorPath \/ M!AuthorWrite \/ M!Inspect \/ M!Validate
           \/ M!ListPending \/ M!Collect \/ M!Elicit \/ M!Timeline \/ M!TimelinePaused
           \/ \E code \in M!Codes : M!RunEnds(code) \/ M!ResumeEnds(code)
  BY <1>1, ToolsOrdered
<1>2. CASE \/ \E m \in Messages : M!Send(m)
           \/ M!Close \/ M!OtherAuthors
           \/ \E code \in M!Codes, r \in Runs : M!Other(r, code)
  <2>1. UNCHANGED <<x2, x4, x5>> /\ (x1' = x1 \/ \E m \in Messages : x1' = Append(x1, m))
    BY <1>2 DEF M!Send, M!Close, M!OtherAuthors, M!Other
  <2>2. QED
    BY <2>1, OthersOrdered
<1>3. CASE M!ReadLine \/ M!EndOfInput \/ M!Dispatch
  BY <1>3, ReadLineOrdered, EndOfInputOrdered, DispatchOrdered
<1>4. QED
  BY <1>1, <1>2, <1>3 DEF M!McpNext

(* At first no run is stored and no line was read.                         *)
LEMMA McpStarts == ASSUME M!McpInit PROVE McpInv
<1>1. RunsOK
  BY DEF M!McpInit, M!NoRun, RunsOK, StoreFields
<1>2. ServerOK /\ ChildOK
  <2>1. x4 = M!Listening /\ x1 = << >> /\ x2 = 0 /\ x8 = [count |-> 0, touched |-> {}]
    BY DEF M!McpInit
  <2>2. QED
    BY <2>1, ListensAgain DEF ServerOK, ChildOK
<1>3. AnswersOK
  <2>1. x5 = << >>
    BY DEF M!McpInit
  <2>2. x5 \in Seq({0}) /\ DOMAIN x5 = {}
    BY <2>1
  <2>3. QED
    BY <2>2 DEF AnswersOK
<1>4. QED
  BY <1>1, <1>2, <1>3 DEF McpInv

(* The server has read nothing and owes nothing.                           *)
LEMMA OrderStarts == ASSUME M!McpInit PROVE OrderOK
<1>1. x4.pc = "read" /\ x2 = 0 /\ x5 = << >> /\ DOMAIN x5 = {}
  BY ListensAgain DEF M!McpInit
<1>2. Over = 0
  BY <1>1 DEF Over
<1>3. M!Due = {}
  BY <1>2, DueIs
<1>4. M!AnswersInOrder
  BY <1>1, <1>3 DEF M!AnswersInOrder
<1>5. QED
  BY <1>1, <1>4 DEF OrderOK

LEMMA McpHolds == FrontSpec => [](scenario = "mcp" => McpInv /\ OrderOK)
<1> DEFINE I == scenario = "mcp" => McpInv /\ OrderOK
<1>1. FrontInit => I
  <2>1. ASSUME FrontInit, scenario = "mcp" PROVE M!McpInit
    BY <2>1 DEF FrontInit
  <2>2. QED
    BY <2>1, McpStarts, OrderStarts
<1>2. I /\ [FrontNext]_<<scenario, vars, xs>> => I'
  <2>1. ASSUME McpInv, OrderOK, scenario = "mcp", FrontNext PROVE McpInv' /\ OrderOK'
    <3>1. M!McpNext
      BY <2>1 DEF FrontNext
    <3>2. QED
      BY <2>1, <3>1, McpKept, OrderKept
  <2>2. ASSUME [FrontNext]_<<scenario, vars, xs>> PROVE scenario' = scenario
    BY <2>2 DEF FrontNext
  <2>3. ASSUME McpInv, OrderOK, UNCHANGED <<scenario, vars, xs>> PROVE McpInv' /\ OrderOK'
    <3>1. McpInv'
      BY <2>3 DEF McpInv, RunsOK, ServerOK, ChildOK, Untold, AnswersOK, Truthful
    <3>2. QED
      BY <2>3, <3>1, OthersOrdered
  <2>4. QED
    BY <2>1, <2>2, <2>3
<1>3. QED
  BY <1>1, <1>2, PTL DEF FrontSpec

(* The MCP server answers each request once and in the order they came; a  *)
(* task that it reports as completed is stored as complete, and one that   *)
(* waits for input is paused and waits for what its last pause asks,       *)
(* unless another process touched the run meanwhile or that pause has no   *)
(* descriptor: AnswersMatch.                                               *)
THEOREM AnswersAreMatched == FrontSpec => []AnswersMatch
<1>1. (scenario = "mcp" => McpInv /\ OrderOK) => AnswersMatch
  BY DEF McpInv, AnswersOK, Truthful, M!TaskMatchesRun, OrderOK, AnswersMatch
<1>2. QED
  BY <1>1, McpHolds, PTL

(* The types.  A descriptor is of a pause that there was.                  *)
PausesOK == \A r \in Runs : x6[r].pause \in Nat /\ x6[r].desc \in 0..x6[r].pause
McpTyped == PausesOK /\ x8.touched \subseteq Runs

LEMMA EndsTyped ==
  ASSUME RunsOK, PausesOK, NEW r \in Runs, NEW code \in M!Codes, M!Ends(r, code)
  PROVE  PausesOK'
<1> USE DEF M!Success, M!Failed, M!Usage, M!Invalid, M!Busy, M!TimedOut, M!Paused, M!Killed
<1>1. /\ DOMAIN x6 = Runs /\ DOMAIN x6[r] = StoreFields
      /\ x6[r].pause \in Nat /\ x6[r].desc \in 0..x6[r].pause
  BY DEF RunsOK, PausesOK
<1>2. \A q \in Runs \ {r} : x6'[q] = x6[q]
  BY EndsOf DEF PausesOK
<1>3. x6'[r].pause \in Nat /\ x6'[r].desc \in 0..x6'[r].pause
  <2>1. CASE code \in {M!Success, M!Failed, M!TimedOut}
    <3>1. PICK status \in {"complete", "failed"} :
            x6' = [x6 EXCEPT ![r] = [@ EXCEPT !.status = status, !.desc = 0]]
      BY <2>1 DEF M!Ends
    <3>2. x6'[r].pause = x6[r].pause /\ x6'[r].desc = 0
      BY <1>1, <3>1 DEF StoreFields
    <3>3. QED
      BY <1>1, <3>2
  <2>2. CASE code = M!Paused
    <3>1. PICK saved \in BOOLEAN :
            x6' = [x6 EXCEPT ![r] = [status |-> "paused", pause |-> @.pause + 1,
                                     desc |-> IF saved THEN @.pause + 1 ELSE @.desc, saved |-> saved]]
      BY <2>2 DEF M!Ends
    <3>2. /\ x6'[r].pause = x6[r].pause + 1
          /\ x6'[r].desc = IF saved THEN x6[r].pause + 1 ELSE x6[r].desc
      BY <1>1, <3>1
    <3>3. QED
      BY <1>1, <3>2
  <2>3. CASE code = M!Killed
    <3>1. PICK status \in {x6[r].status, "in_progress"} : x6' = [x6 EXCEPT ![r].status = status]
      BY <2>3 DEF M!Ends
    <3>2. x6'[r].pause = x6[r].pause /\ x6'[r].desc = x6[r].desc
      BY <1>1, <3>1 DEF StoreFields
    <3>3. QED
      BY <1>1, <3>2
  <2>4. CASE code \in {M!Usage, M!Invalid, M!Busy}
    <3>1. x6' = x6
      BY <2>4 DEF M!Ends
    <3>2. QED
      BY <1>1, <3>1
  <2>5. QED
    BY <2>1, <2>2, <2>3, <2>4 DEF M!Codes
<1>4. QED
  BY <1>2, <1>3 DEF PausesOK

LEMMA McpTypes == ASSUME McpInv, McpTyped, M!McpNext PROVE McpTyped'
<1>1. RunsOK /\ x4.run \in Runs /\ DOMAIN x8 = {"count", "touched"}
  BY DEF McpInv, ServerOK, ChildOK
<1>2. CASE x6' = x6 /\ x8'.touched \in {x8.touched, {}}
  BY <1>2 DEF McpTyped, PausesOK
<1>3. ASSUME NEW m \in Messages, M!Send(m) PROVE x6' = x6 /\ x8' = x8
  BY <1>3 DEF M!Send
<1>4. CASE M!Close \/ M!ReadLine \/ M!EndOfInput \/ M!Dispatch \/ M!BrokenPipe \/ M!AuthorPath
           \/ M!AuthorWrite \/ M!Inspect \/ M!Validate \/ M!ListPending \/ M!Collect \/ M!Elicit
           \/ M!Timeline \/ M!TimelinePaused
  <2>1. x6' = x6 /\ x8' = x8
    BY <1>4 DEF M!Close, M!ReadLine, M!EndOfInput, M!Dispatch, M!BrokenPipe, M!AuthorPath, M!AuthorWrite,
       M!Inspect, M!Validate, M!ListPending, M!Collect, M!Elicit, M!Timeline, M!TimelinePaused
  <2>2. QED
    BY <1>2, <2>1
<1>5. CASE M!OtherAuthors
  <2>1. x6' = x6 /\ x8' = [x8 EXCEPT !.count = @ + 1]
    BY <1>5 DEF M!OtherAuthors
  <2>2. QED
    BY <1>1, <1>2, <2>1
<1>6. CASE M!CallTool
  <2>1. x6' = x6 /\ (x8' = x8 \/ x8' = [x8 EXCEPT !.touched = {}])
    BY <1>6 DEF M!CallTool
  <2>2. QED
    BY <1>1, <1>2, <2>1
<1>7. ASSUME NEW code \in M!Codes, M!RunEnds(code) \/ M!ResumeEnds(code) PROVE McpTyped'
  <2>1. M!Ends(x4.run, code) /\ x8' = x8
    BY <1>7 DEF M!RunEnds, M!ResumeEnds
  <2>2. QED
    BY <1>1, <2>1, EndsTyped DEF McpTyped
<1>8. ASSUME NEW code \in M!Codes, NEW r \in Runs, M!Other(r, code) PROVE McpTyped'
  <2>1. M!Ends(r, code) /\ x8' = [count |-> x8.count + 1, touched |-> x8.touched \union {r}]
    BY <1>8 DEF M!Other
  <2>2. x8'.touched \subseteq Runs
    BY <2>1 DEF McpTyped
  <2>3. QED
    BY <1>1, <2>1, <2>2, EndsTyped DEF McpTyped
<1>9. QED
  BY <1>2, <1>3, <1>4, <1>5, <1>6, <1>7, <1>8 DEF M!McpNext

LEMMA McpTypesStart == ASSUME M!McpInit PROVE McpTyped
BY DEF M!McpInit, M!NoRun, McpTyped, PausesOK

LEMMA McpTypesHold == ASSUME McpInv, McpTyped PROVE M!McpTypeOK
BY DEF M!McpTypeOK, McpInv, ServerOK, McpTyped, PausesOK

LEMMA McpKeepsTypes == FrontSpec => [](scenario = "mcp" => M!McpTypeOK)
<1> DEFINE I == scenario = "mcp" => McpInv /\ OrderOK
           K == scenario = "mcp" => McpTyped
<1>1. FrontInit => K
  <2>1. ASSUME FrontInit, scenario = "mcp" PROVE M!McpInit
    BY <2>1 DEF FrontInit
  <2>2. QED
    BY <2>1, McpTypesStart
<1>2. I /\ K /\ [FrontNext]_<<scenario, vars, xs>> => K'
  <2>1. ASSUME McpInv /\ OrderOK, McpTyped, scenario = "mcp", FrontNext PROVE McpTyped'
    <3>1. M!McpNext
      BY <2>1 DEF FrontNext
    <3>2. QED
      BY <2>1, <3>1, McpTypes
  <2>2. ASSUME [FrontNext]_<<scenario, vars, xs>> PROVE scenario' = scenario
    BY <2>2 DEF FrontNext
  <2>3. ASSUME McpTyped, UNCHANGED <<scenario, vars, xs>> PROVE McpTyped'
    BY <2>3 DEF McpTyped, PausesOK
  <2>4. QED
    BY <2>1, <2>2, <2>3
<1>3. I /\ K => (scenario = "mcp" => M!McpTypeOK)
  BY McpTypesHold
<1>4. QED
  BY <1>1, <1>2, <1>3, McpHolds, PTL DEF FrontSpec
=============================================================================
