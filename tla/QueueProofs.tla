----------------------------- MODULE QueueProofs -----------------------------
(***************************************************************************)
(* Proofs about the two parts of MCQueue, for any number of events,        *)
(* sessions, signals, ids and resumes: the callbacks of Delivery reach     *)
(* their receiver once and in order, and the signals of Signals are spent  *)
(* on one pause each.  Either part keeps its inductive invariant whatever  *)
(* the other is at.                                                        *)
(***************************************************************************)
EXTENDS MCQueue, FiniteSetTheorems, TLAPS

USE DEF DeliveryConstants

-----------------------------------------------------------------------------
(* Callbacks: the shape of the state.                                      *)

Names == {"step.complete", "checkpoint.failed", "step.finished", "step.skipped",
          "step.artifact_saved", "workbook.paused", "run.complete"}

Duty == [do : {"send"}, event : [name : Names, size : Nat]]
          \union [do : {"save"}, numbered : BOOLEAN] \union [do : {"exit"}]

Emitted ==
    [name : Names, fits : BOOLEAN, session : Nat, seq : Nat, recorded : BOOLEAN,
     fate : {"under way", "accepted", "lost"}, applied : Nat]

Shaped ==
    /\ transport \in [kind : {"http", "redis", "none"}, shared : BOOLEAN]
    /\ session \in [n : Nat, seq : Nat, duties : Seq(Duty),
                    sending : [event : Nat, attempt : {0} \union Attempts],
                    open : BOOLEAN, done : BOOLEAN]
    /\ saved \in Nat
    /\ events \in Seq(Emitted)
    /\ file \in [unfinished : BOOLEAN, garbled : Nat, kills : Nat]

(* The event under way is the last one, and of the session that is open.   *)
UnderWay ==
    /\ session.sending # Nothing =>
          /\ session.open
          /\ session.sending.event = Len(events) /\ Len(events) > 0
          /\ events[Len(events)].session = session.n
          /\ events[Len(events)].fate = "under way"
          /\ transport.kind # "http" =>
                session.sending.attempt \in {0, 1} /\ events[Len(events)].applied = 0
          /\ transport.kind = "none" => session.sending.attempt = 0
    /\ session.sending = Nothing => session.sending.attempt = 0

(* Sessions follow each other.                                             *)
InTurn ==
    /\ \A i \in DOMAIN events : events[i].session <= session.n
    /\ \A i, j \in DOMAIN events : i < j => events[i].session <= events[j].session

(* The counter of the session is ahead of its events, and of the file; the *)
(* file is ahead of whatever is on record.                                 *)
Numbered ==
    transport.kind = "http" =>
        /\ saved <= session.seq
        /\ \A i \in DOMAIN events :
              /\ events[i].session = session.n => events[i].seq <= session.seq
              /\ events[i].recorded => events[i].seq <= saved
        /\ \A i, j \in DOMAIN events :
              i < j /\ (events[i].recorded \/ events[i].session = events[j].session)
                  => events[i].seq < events[j].seq

(* The receiver knows the keys of what it has applied, and no other.       *)
Known ==
    /\ \A i \in DOMAIN events : events[i].applied <= 1
    /\ transport.kind = "http" =>
          /\ \A i \in DOMAIN events : events[i].applied = 1 => Key(events[i]) \in seen
          /\ \A k \in seen : \E j \in DOMAIN events : Key(events[j]) = k /\ events[j].applied = 1
    /\ \A i \in DOMAIN events :
          events[i].fate = "accepted" /\ events[i].applied = 0
              => \E j \in DOMAIN events : Twin(j, i) /\ events[j].applied = 1

(* A line is unfinished while its event is under way, or since a kill.     *)
Torn == IF file.unfinished /\ session.sending = Nothing THEN 1 ELSE 0
Lines ==
    /\ file.garbled + Torn <= file.kills
    /\ file.unfinished /\ session.sending # Nothing => session.sending.attempt = 0

(* The inductive invariant of the callbacks.                               *)
DInv == Shaped /\ UnderWay /\ InTurn /\ Numbered /\ Known /\ Lines

(* A session, as Shaped has it.                                            *)
SessionSet ==
    [n : Nat, seq : Nat, duties : Seq(Duty),
     sending : [event : Nat, attempt : {0} \union Attempts],
     open : BOOLEAN, done : BOOLEAN]

(* Short sequences.                                                        *)
LEMMA Tuples ==
    ASSUME NEW A, NEW a \in A, NEW b \in A, NEW c \in A, NEW d \in A, NEW e \in A
    PROVE  /\ << >> \in Seq(A) /\ <<a>> \in Seq(A) /\ <<a, b>> \in Seq(A)
           /\ <<a, b, c>> \in Seq(A) /\ <<a, b, c, d, e>> \in Seq(A)
           /\ <<a, b, c, d>> \in Seq(A)
OBVIOUS

(* What is appended lengthens a sequence by one, whatever it is.           *)
LEMMA Appended ==
    ASSUME NEW A, NEW u \in Seq(A), NEW x
    PROVE  Len(Append(u, x)) = Len(u) + 1
<1>1. u \in Seq(A \union {x}) /\ x \in A \union {x}
  OBVIOUS
<1>2. QED
  BY <1>1

(* Sequences joined.                                                       *)
LEMMA Joined ==
    ASSUME NEW A, NEW u \in Seq(A), NEW v \in Seq(A)
    PROVE  u \o v \in Seq(A)
OBVIOUS

(* What a session emits is made of duties.                                 *)
LEMMA GroupsAreDuties ==
    ASSUME DeliveryConstants
    PROVE  Groups \subseteq Seq(Duty)
<1>1. /\ \A n \in Names, k \in Nat : Send(Event(n, k)) \in Duty
      /\ \A b \in BOOLEAN : Save(b) \in Duty
      /\ Exit \in Duty
  BY DEF Send, Event, Save, Exit, Duty
<1>2. \A k \in Captures : Truncated(k) \in Nat
  BY DEF Truncated, Cap
<1>3. \A o, e \in Captures : Send(StepComplete(o, e)) \in Duty
  BY <1>1, <1>2 DEF StepComplete, Names
<1>4. \A e \in Captures : /\ Send(StepComplete(0, e)) \in Duty
                          /\ Send(CheckpointFailed(e)) \in Duty
  BY <1>1, <1>2 DEF StepComplete, CheckpointFailed, Names, Truncated, Cap
<1>5. /\ Send(StepFinished) \in Duty /\ Send(StepSkipped) \in Duty
      /\ Send(ArtifactSaved) \in Duty /\ Send(WorkbookPaused) \in Duty
      /\ Send(RunComplete) \in Duty
  BY <1>1 DEF StepFinished, StepSkipped, ArtifactSaved, WorkbookPaused, RunComplete, Names
<1>6. ASSUME NEW o \in Captures, NEW e \in Captures, NEW a \in BOOLEAN
      PROVE  RanBlock(o, e, a) \in Seq(Duty)
  <2>1. Send(ArtifactSaved) \in Duty /\ Send(StepComplete(o, e)) \in Duty /\ Save(TRUE) \in Duty
    BY <1>1, <1>3, <1>5
  <2> HIDE DEF Duty
  <2>2. QED
    <3>1. (IF a THEN <<Send(ArtifactSaved)>> ELSE << >>) \in Seq(Duty)
      BY <2>1, Tuples
    <3>2. <<Send(StepComplete(o, e)), Save(TRUE)>> \in Seq(Duty)
      BY <2>1, Tuples
    <3>3. QED
      BY <3>1, <3>2, Joined DEF RanBlock
<1>7. ASSUME NEW e \in Captures PROVE Bailed(e) \in Seq(Duty)
  <2>1. /\ Send(StepComplete(0, e)) \in Duty /\ Send(CheckpointFailed(e)) \in Duty
        /\ Send(StepFinished) \in Duty /\ Save(TRUE) \in Duty /\ Exit \in Duty
    BY <1>1, <1>4, <1>5
  <2>2. QED
    BY <2>1, Tuples DEF Bailed
<1>8. Skipped \in Seq(Duty) /\ Paused \in Seq(Duty) /\ Finished \in Seq(Duty)
  <2>1. Save(TRUE) \in Duty /\ Save(FALSE) \in Duty
    BY <1>1
  <2>2. QED
    BY <1>1, <1>5, <2>1, Tuples DEF Skipped, Paused, Finished
<1>9. QED
  BY <1>6, <1>7, <1>8 DEF Groups

(* The shape of the state, as the leaves of the proofs use it.             *)
LEMMA EventsAre ==
    ASSUME Shaped
    PROVE  /\ DOMAIN events = 1..Len(events) /\ Len(events) \in Nat
           /\ \A i \in DOMAIN events :
                 /\ events[i] \in Emitted
                 /\ events[i].session \in Nat /\ events[i].seq \in Nat
                 /\ events[i].applied \in Nat /\ events[i].recorded \in BOOLEAN
           /\ session \in SessionSet
           /\ session.n \in Nat /\ session.seq \in Nat /\ saved \in Nat
           /\ file.garbled \in Nat /\ file.kills \in Nat
           /\ file.unfinished \in BOOLEAN /\ session.open \in BOOLEAN
<1>1. events \in Seq(Emitted) /\ session \in SessionSet
  BY DEF Shaped, SessionSet
<1>2. DOMAIN events = 1..Len(events) /\ Len(events) \in Nat
  BY <1>1
<1>3. \A i \in DOMAIN events : events[i] \in Emitted
  BY <1>1
<1>4. QED
  BY <1>1, <1>2, <1>3 DEF Shaped, Emitted, SessionSet

(* The updates of a session.                                               *)
LEMMA Ending ==
    ASSUME NEW r \in SessionSet, NEW b \in BOOLEAN
    PROVE  /\ [r EXCEPT !.open = FALSE, !.duties = << >>, !.done = b] \in SessionSet
           /\ [r EXCEPT !.open = FALSE, !.duties = << >>, !.done = b].n = r.n
           /\ [r EXCEPT !.open = FALSE, !.duties = << >>, !.done = b].seq = r.seq
           /\ [r EXCEPT !.open = FALSE, !.duties = << >>, !.done = b].sending = r.sending
           /\ [r EXCEPT !.open = FALSE, !.duties = << >>, !.done = b].duties = << >>
<1>1. << >> \in Seq(Duty)
  OBVIOUS
<1>2. ASSUME NEW d \in Seq(Duty)
      PROVE  /\ [r EXCEPT !.open = FALSE, !.duties = d, !.done = b] \in SessionSet
             /\ [r EXCEPT !.open = FALSE, !.duties = d, !.done = b].n = r.n
             /\ [r EXCEPT !.open = FALSE, !.duties = d, !.done = b].seq = r.seq
             /\ [r EXCEPT !.open = FALSE, !.duties = d, !.done = b].sending = r.sending
             /\ [r EXCEPT !.open = FALSE, !.duties = d, !.done = b].duties = d
  BY DEF SessionSet
<1>3. QED
  BY <1>1, <1>2

(* A step that touches no event.                                           *)
LEMMA StartKeeps ==
    ASSUME DeliveryConstants, DInv, Start
    PROVE  DInv'
<1>0. Shaped
  BY DEF DInv
<1>a. NoSession \in SessionSet /\ NoSession.sending = Nothing
  <2>1. << >> \in Seq(Duty)
    OBVIOUS
  <2>2. QED
    BY <2>1 DEF NoSession, SessionSet, Nothing
<1>1. /\ session'.n = session.n + 1 /\ session'.seq = saved
      /\ session'.sending = Nothing /\ session.sending = Nothing
      /\ session' \in SessionSet
      /\ transport' = transport /\ events' = events /\ seen' = seen
      /\ saved' = saved /\ file' = file
  <2>1. PICK r \in SessionSet : r = NoSession
    BY <1>a
  <2>2. PICK k \in Nat : k = session.n + 1
    BY <1>0, EventsAre
  <2>3. /\ session'.n = session.n + 1 /\ session'.seq = saved
        /\ session'.sending = Nothing /\ session' \in SessionSet
    <3>1. session' = [r EXCEPT !.n = k, !.open = TRUE, !.seq = saved]
      BY <2>1, <2>2 DEF Start
    <3>2. /\ session'.n = k /\ session'.seq = saved
          /\ session'.sending = r.sending /\ session' \in SessionSet
      BY <1>0, <3>1, EventsAre DEF SessionSet
    <3>3. QED
      BY <1>a, <2>1, <2>2, <3>2
  <2>4. session.sending = Nothing
    BY DEF Start, DInv, UnderWay
  <2>5. QED
    BY <2>3, <2>4 DEF Start
<1>2. Shaped' /\ UnderWay'
  BY <1>0, <1>1 DEF Shaped, UnderWay, SessionSet, Nothing
<1>3. InTurn' /\ Numbered'
  BY <1>0, <1>1, EventsAre DEF DInv, InTurn, Numbered
<1>4. Known'
  BY <1>0, <1>1 DEF DInv, Known, Key, Twin, RunId
<1>5. Lines'
  BY <1>0, <1>1 DEF DInv, Lines, Torn
<1>6. QED
  BY <1>2, <1>3, <1>4, <1>5 DEF DInv

(* The session goes on, and what it has emitted, numbered and saved stays. *)
LEMMA QuietKeeps ==
    ASSUME DeliveryConstants, DInv,
           session' \in SessionSet,
           session'.n = session.n, session'.seq = session.seq,
           session'.sending = Nothing, session.sending = Nothing,
           UNCHANGED <<transport, saved, events, seen, file>>
    PROVE  DInv'
<1>1. Shaped' /\ UnderWay'
  BY DEF DInv, Shaped, UnderWay, SessionSet, Nothing
<1>2. InTurn' /\ Numbered'
  BY DEF DInv, InTurn, Numbered
<1>3. Known'
  BY DEF DInv, Known, Key, Twin, RunId
<1>4. Lines'
  BY DEF DInv, Lines, Torn
<1>5. QED
  BY <1>1, <1>2, <1>3, <1>4 DEF DInv

(* The duties of the next item are queued.                                 *)
LEMMA NextItemKeeps ==
    ASSUME DeliveryConstants, DInv, NextItem
    PROVE  DInv'
<1>1. PICK g \in Groups : session' = [session EXCEPT !.duties = g]
  BY DEF NextItem
<1>2. g \in Seq(Duty)
  BY GroupsAreDuties
<1>3. session \in SessionSet
  BY EventsAre DEF DInv
<1>4. /\ session' \in SessionSet
      /\ session'.n = session.n /\ session'.seq = session.seq
      /\ session'.sending = session.sending
  BY <1>1, <1>2, <1>3 DEF SessionSet
<1>5. QED
  BY <1>4, QuietKeeps DEF NextItem, Idle

(* The session ends of itself.                                             *)
LEMMA ExitKeeps ==
    ASSUME DeliveryConstants, DInv, ExitNow
    PROVE  DInv'
<1>1. session \in SessionSet
  BY EventsAre DEF DInv
<1> DEFINE over == events[Len(events)].name = "run.complete"
<1>2. /\ over \in BOOLEAN
      /\ session' = [session EXCEPT !.open = FALSE, !.duties = << >>, !.done = over]
  BY DEF ExitNow
<1> HIDE DEF over
<1>3. /\ session' \in SessionSet
      /\ session'.n = session.n /\ session'.seq = session.seq
      /\ session'.sending = session.sending
  BY <1>1, <1>2, Ending
<1>4. QED
  BY <1>3, QuietKeeps DEF ExitNow, Idle

(* The next event of a session.                                            *)
LEMMA EmitKeeps ==
    ASSUME DeliveryConstants, DInv, Emit
    PROVE  DInv'
<1>a. Shaped
  BY DEF DInv
<1>0. /\ Shaped /\ session.open /\ session.sending = Nothing
      /\ Len(events) \in Nat /\ DOMAIN events = 1..Len(events) /\ events \in Seq(Emitted)
      /\ UNCHANGED <<transport, saved, seen>> /\ Reserved \in Nat
      /\ session.n \in Nat /\ session.seq \in Nat /\ session \in SessionSet
  <2>1. session.open /\ session.sending = Nothing /\ UNCHANGED <<transport, saved, seen>>
    BY DEF Emit, Idle
  <2>2. session.n \in Nat /\ session.seq \in Nat /\ session \in SessionSet
    BY <1>a, EventsAre
  <2>3. Reserved \in Nat
    BY <2>2 DEF Reserved
  <2>4. QED
    BY <1>a, <2>1, <2>2, <2>3, EventsAre DEF Shaped
<1> DEFINE k == Len(events) + 1
           e == Head(session.duties).event
           new == [name |-> e.name, fits |-> FitsArgument(e), session |-> session.n,
                   seq |-> Reserved, recorded |-> FALSE, fate |-> "under way", applied |-> 0]
<1>1. e.name \in Names /\ Tail(session.duties) \in Seq(Duty)
  <2>1. session.duties \in Seq(Duty) /\ session.duties # << >>
    BY EventsAre DEF DInv, SessionSet, Emit
  <2>2. Head(session.duties) \in Duty /\ Tail(session.duties) \in Seq(Duty)
    BY <2>1
  <2>3. Head(session.duties).do = "send"
    BY DEF Emit
  <2>4. QED
    BY <2>2, <2>3 DEF Duty
<1>2. new \in Emitted
  <2>1. FitsArgument(e) \in BOOLEAN
    BY DEF FitsArgument
  <2>2. session.n \in Nat
    BY EventsAre, <1>0
  <2>3. QED
    BY <1>0, <1>1, <2>1, <2>2 DEF Emitted
<1>3. events' = Append(events, new)
  BY DEF Emit
<1>4. /\ new.session = session.n /\ new.seq = Reserved /\ new.recorded = FALSE
      /\ new.fate = "under way" /\ new.applied = 0
  OBVIOUS
<1> HIDE DEF new, e
<1>5. /\ events' \in Seq(Emitted) /\ Len(events') = k /\ DOMAIN events' = 1..k
      /\ events'[k] = new
      /\ \A i \in DOMAIN events : i # k /\ i \in DOMAIN events' /\ events'[i] = events[i]
      /\ \A i \in DOMAIN events' : i # k => i \in DOMAIN events /\ i < k
  BY <1>0, <1>2, <1>3
<1>6. /\ session' \in SessionSet /\ session'.n = session.n /\ session'.open
      /\ session'.seq = Reserved
      /\ session'.sending = [event |-> k, attempt |-> 0]
  <2>1. PICK r \in Nat, d \in Seq(Duty), x \in [event : Nat, attempt : {0} \union Attempts] :
          /\ r = Reserved /\ d = Tail(session.duties) /\ x = [event |-> k, attempt |-> 0]
    <3>1. [event |-> k, attempt |-> 0] \in [event : Nat, attempt : {0} \union Attempts]
      BY <1>0
    <3>2. QED
      BY <1>0, <1>1, <3>1
  <2>2. session' = [session EXCEPT !.seq = r, !.duties = d, !.sending = x]
    BY <2>1 DEF Emit
  <2>3. session' \in SessionSet /\ session'.n = session.n /\ session'.open
        /\ session'.seq = r /\ session'.sending = x
    BY <1>0, <2>2 DEF SessionSet
  <2>4. QED
    BY <2>1, <2>3
<1>7. /\ file' \in [unfinished : BOOLEAN, garbled : Nat, kills : Nat]
      /\ file'.unfinished /\ file'.kills = file.kills
      /\ file'.garbled = file.garbled + (IF file.unfinished THEN 1 ELSE 0)
  <2>1. PICK x \in Nat : x = file.garbled + (IF file.unfinished THEN 1 ELSE 0)
    BY <1>0, EventsAre
  <2>2. file' = [file EXCEPT !.unfinished = TRUE, !.garbled = x]
    BY <2>1 DEF Emit
  <2>3. QED
    BY <1>0, <2>1, <2>2 DEF Shaped
<1> HIDE DEF k
<1>8. Shaped'
  BY <1>0, <1>5, <1>6, <1>7 DEF Shaped, SessionSet
<1>9. k # 0 /\ k \in Nat /\ \A i \in DOMAIN events' : i <= k
  BY <1>0, <1>5 DEF k
<1>10. UnderWay'
  <2>1. /\ session'.sending.event = k /\ session'.sending.attempt = 0
        /\ events'[Len(events')].session = session'.n
        /\ events'[Len(events')].fate = "under way"
        /\ events'[Len(events')].applied = 0
        /\ Len(events') > 0
    <3>1. events'[Len(events')] = new
      BY <1>5
    <3>2. Len(events') > 0
      BY <1>5, <1>9
    <3>3. session'.sending.event = k /\ session'.sending.attempt = 0
      BY <1>6
    <3>4. session'.n = session.n
      BY <1>6
    <3>5. QED
      BY <1>4, <3>1, <3>2, <3>3, <3>4
  <2>2. QED
    BY <1>5, <1>6, <2>1 DEF UnderWay
<1>11. InTurn'
  <2>1. \A i \in DOMAIN events : events[i].session <= session.n
    BY DEF DInv, InTurn
  <2>2. events'[k].session = session.n /\ session'.n = session.n
    BY <1>4, <1>5, <1>6
  <2>3. \A i \in DOMAIN events' : events'[i].session <= session'.n
    BY <1>0, <1>5, <2>1, <2>2
  <2>4. ASSUME NEW i \in DOMAIN events', NEW j \in DOMAIN events', i < j
        PROVE  events'[i].session <= events'[j].session
    <3>1. i # k
      BY <1>5, <1>9, <2>4
    <3>2. CASE j = k
      BY <2>2, <2>3, <3>2
    <3>3. CASE j # k
      BY <1>5, <2>4, <3>1, <3>3 DEF DInv, InTurn
    <3>4. QED
      BY <3>2, <3>3
  <2>5. QED
    BY <2>3, <2>4 DEF InTurn
<1>12. Numbered'
  <2>1. SUFFICES ASSUME transport.kind = "http" PROVE Numbered'
    BY <1>0 DEF Numbered
  <2>2. Reserved = session.seq + 1
    BY <2>1 DEF Reserved
  <2>3. \A i \in DOMAIN events :
           /\ events[i].recorded \/ events[i].session = session.n => events[i].seq < Reserved
           /\ events[i].recorded => events[i].seq <= saved
    BY <1>0, <2>1, <2>2, EventsAre DEF DInv, Numbered
  <2>4. QED
    <3>1. saved' <= session'.seq /\ saved <= session.seq
      BY <1>0, <1>6, <2>1, <2>2, EventsAre DEF DInv, Numbered
    <3>2. /\ events'[k].seq = Reserved /\ events'[k].session = session.n
          /\ events'[k].recorded = FALSE
      BY <1>4, <1>5
    <3>3. ASSUME NEW i \in DOMAIN events'
          PROVE  /\ events'[i].session = session'.n => events'[i].seq <= session'.seq
                 /\ events'[i].recorded => events'[i].seq <= saved'
      <4>1. CASE i = k
        BY <1>0, <1>6, <3>2, <4>1
      <4>2. CASE i # k
        <5>1. i \in DOMAIN events /\ events'[i] = events[i] /\ events[i].seq \in Nat
          BY <1>0, <1>5, <4>2, EventsAre
        <5>2. QED
          BY <1>0, <1>6, <2>3, <5>1
      <4>3. QED
        BY <4>1, <4>2
    <3>4. ASSUME NEW i \in DOMAIN events', NEW j \in DOMAIN events', i < j,
                 events'[i].recorded \/ events'[i].session = events'[j].session
          PROVE  events'[i].seq < events'[j].seq
      <4>1. i # k
        BY <1>5, <1>9, <3>4
      <4>2. i \in DOMAIN events /\ events'[i] = events[i]
        BY <1>5, <4>1
      <4>3. CASE j = k
        BY <2>3, <3>2, <3>4, <4>2, <4>3
      <4>4. CASE j # k
        BY <1>5, <2>1, <3>4, <4>2, <4>4 DEF DInv, Numbered
      <4>5. QED
        BY <4>3, <4>4
    <3>5. QED
      BY <3>1, <3>3, <3>4 DEF Numbered
<1>13. Known'
  <2>1. \A i \in DOMAIN events : Key(events[i])' = Key(events[i])
    BY <1>0, <1>5 DEF Key, RunId
  <2>2. \A i, j \in DOMAIN events : Twin(i, j)' <=> Twin(i, j)
    BY <1>0, <1>5, <2>1 DEF Twin
  <2>3. \A i \in DOMAIN events' : events'[i].applied <= 1
    <3>1. \A i \in DOMAIN events : events[i].applied <= 1
      BY DEF DInv, Known
    <3>2. events'[k].applied = 0
      BY <1>4, <1>5
    <3>3. QED
      BY <1>5, <3>1, <3>2
  <2>4. transport.kind = "http" =>
          /\ \A i \in DOMAIN events' : events'[i].applied = 1 => Key(events[i])' \in seen
          /\ \A x \in seen : \E j \in DOMAIN events' :
                Key(events[j])' = x /\ events'[j].applied = 1
    <3>1. SUFFICES ASSUME transport.kind = "http"
                   PROVE  /\ \A i \in DOMAIN events' :
                                events'[i].applied = 1 => Key(events[i])' \in seen
                          /\ \A x \in seen : \E j \in DOMAIN events' :
                                Key(events[j])' = x /\ events'[j].applied = 1
      OBVIOUS
    <3>2. events'[k].applied = 0
      BY <1>4, <1>5
    <3>3. /\ \A i \in DOMAIN events : events[i].applied = 1 => Key(events[i]) \in seen
          /\ \A x \in seen : \E j \in DOMAIN events : Key(events[j]) = x /\ events[j].applied = 1
      BY <3>1 DEF DInv, Known
    <3>4. ASSUME NEW i \in DOMAIN events', events'[i].applied = 1
          PROVE  Key(events[i])' \in seen
      BY <1>5, <2>1, <3>2, <3>3, <3>4
    <3>5. ASSUME NEW x \in seen
          PROVE  \E j \in DOMAIN events' : Key(events[j])' = x /\ events'[j].applied = 1
      <4>1. PICK j \in DOMAIN events : Key(events[j]) = x /\ events[j].applied = 1
        BY <3>3
      <4>2. QED
        BY <1>5, <2>1, <4>1
    <3>6. QED
      BY <3>4, <3>5
  <2>5. ASSUME NEW i \in DOMAIN events', events'[i].fate = "accepted", events'[i].applied = 0
        PROVE  \E j \in DOMAIN events' : Twin(j, i)' /\ events'[j].applied = 1
    <3>1. i # k /\ i \in DOMAIN events /\ events'[i] = events[i]
      BY <1>4, <1>5, <2>5
    <3>2. PICK j \in DOMAIN events : Twin(j, i) /\ events[j].applied = 1
      BY <2>5, <3>1 DEF DInv, Known
    <3>3. QED
      BY <1>5, <2>2, <3>1, <3>2
  <2>6. QED
    BY <1>0, <2>3, <2>4, <2>5 DEF Known
<1>14. Lines'
  <2>2. session'.sending # Nothing /\ session'.sending.attempt = 0
    BY <1>6, <1>9 DEF Nothing
  <2>3. QED
    BY <1>0, <1>7, <2>2, EventsAre DEF DInv, Lines, Torn
<1>15. QED
  BY <1>8, <1>10, <1>11, <1>12, <1>13, <1>14 DEF DInv

(* A step of a send: the last event gets its fate, or is applied, and      *)
(* every other stays what it was.                                          *)
Marked ==
    /\ UNCHANGED <<transport, saved>>
    /\ session' \in SessionSet /\ session'.n = session.n /\ session'.seq = session.seq
    /\ events' \in Seq(Emitted) /\ Len(events') = Len(events)
    /\ \A i \in DOMAIN events : i # Len(events) => events'[i] = events[i]
    /\ \A i \in DOMAIN events :
          /\ events'[i].name = events[i].name /\ events'[i].session = events[i].session
          /\ events'[i].seq = events[i].seq /\ events'[i].recorded = events[i].recorded

(* Such a step changes no number and no key.                               *)
LEMMA MarkKeeps ==
    ASSUME DInv, Marked
    PROVE  /\ InTurn' /\ Numbered' /\ DOMAIN events' = DOMAIN events
           /\ \A i \in DOMAIN events : Key(events[i])' = Key(events[i])
           /\ \A i, j \in DOMAIN events : Twin(i, j)' <=> Twin(i, j)
<1>0. Shaped
  BY DEF DInv
<1>1. DOMAIN events' = DOMAIN events
  BY <1>0 DEF Marked, Shaped
<1>2. InTurn'
  BY <1>1 DEF DInv, InTurn, Marked
<1>3. Numbered'
  BY <1>1 DEF DInv, Numbered, Marked
<1>4. \A i \in DOMAIN events : Key(events[i])' = Key(events[i])
  BY DEF Marked, Key, RunId
<1>5. \A i, j \in DOMAIN events : Twin(i, j)' <=> Twin(i, j)
  BY <1>4 DEF Twin, Marked
<1>6. QED
  BY <1>1, <1>2, <1>3, <1>4, <1>5

(* Nothing is applied and nothing accepted: the receiver knows what it did.*)
LEMMA UnappliedKeeps ==
    ASSUME DInv, Marked, seen' = seen,
           \A i \in DOMAIN events :
              /\ events'[i].applied = events[i].applied
              /\ events'[i].fate = "accepted" => events[i].fate = "accepted"
    PROVE  Known'
<1>1. \A i \in DOMAIN events' : events'[i].applied <= 1
  BY MarkKeeps DEF DInv, Known
<1>2. transport'.kind = "http" =>
        /\ \A i \in DOMAIN events' : events'[i].applied = 1 => Key(events[i])' \in seen'
        /\ \A x \in seen' : \E j \in DOMAIN events' :
              Key(events[j])' = x /\ events'[j].applied = 1
  BY MarkKeeps DEF DInv, Known, Marked
<1>3. ASSUME NEW i \in DOMAIN events', events'[i].fate = "accepted", events'[i].applied = 0
      PROVE  \E j \in DOMAIN events' : Twin(j, i)' /\ events'[j].applied = 1
  <2>1. PICK j \in DOMAIN events : Twin(j, i) /\ events[j].applied = 1
    BY <1>3, MarkKeeps DEF DInv, Known
  <2>2. QED
    BY <2>1, <1>3, MarkKeeps
<1>4. QED
  BY <1>1, <1>2, <1>3 DEF Known

(* The receiver takes the event under way: it applies it if it does not    *)
(* know the key, and knows it from then on.                                *)
LEMMA TakenKeeps ==
    ASSUME DInv, Marked, Posting, seen' = seen \union {Key(Current)},
           \A i \in DOMAIN events :
              /\ events'[i].applied = Apply[i].applied
              /\ events'[i].fate = "accepted"
                    => events[i].fate = "accepted" \/ i = Len(events)
    PROVE  Known'
<1> DEFINE k == Len(events)
<1>a. Shaped /\ session.sending # Nothing
  BY DEF DInv, Posting, Nothing, Attempts
<1>0. /\ k \in DOMAIN events /\ Len(events) \in Nat /\ DOMAIN events = 1..k
      /\ session.sending.event = k /\ Current = events[k]
      /\ transport.kind # "http" => events[k].applied = 0
      /\ transport.kind \in {"http", "redis"}
      /\ \A i \in DOMAIN events : events[i].applied \in Nat /\ events[i].seq \in Nat
            /\ events[i].session \in Nat
  <2>1. /\ session.sending.event = k /\ k > 0
        /\ transport.kind # "http" => events[k].applied = 0
        /\ transport.kind # "none"
    <3>1. session.sending.attempt # 0
      BY DEF Posting, Attempts
    <3>2. QED
      BY <1>a, <3>1 DEF DInv, UnderWay
  <2>2. transport.kind \in {"http", "redis"}
    BY <1>a, <2>1 DEF Shaped
  <2>3. QED
    BY <1>a, <2>1, <2>2, EventsAre DEF Current
<1>1. ASSUME NEW i \in DOMAIN events
      PROVE  events'[i].applied = IF i = k /\ NewKey THEN events[i].applied + 1
                                                     ELSE events[i].applied
  <2>1. events \in Seq(Emitted)
    BY <1>a DEF Shaped
  <2>2. CASE NewKey
    <3>1. events'[i].applied = [events EXCEPT ![k].applied = @ + 1][i].applied
      BY <1>0, <2>2 DEF Apply
    <3>2. i # k => events'[i].applied = events[i].applied
      BY <3>1
    <3>3. i = k => events'[i].applied = [events[k] EXCEPT !.applied = @ + 1].applied
      BY <2>1, <3>1
    <3>4. events[k] \in Emitted
      BY <1>0, <2>1
    <3>5. [events[k] EXCEPT !.applied = @ + 1].applied = events[k].applied + 1
      BY <3>4 DEF Emitted
    <3>6. QED
      BY <2>2, <3>2, <3>3, <3>5
  <2>3. CASE ~NewKey
    BY <2>3 DEF Apply
  <2>4. QED
    BY <2>2, <2>3
<1> DEFINE fresh == NewKey
<1>2. /\ transport.kind = "http" => (fresh <=> Key(events[k]) \notin seen)
      /\ transport.kind = "redis" => fresh
  BY <1>0 DEF NewKey
<1>3. fresh => events[k].applied = 0
  BY <1>0, <1>2 DEF DInv, Known
<1> HIDE DEF fresh
<1>4. \A i \in DOMAIN events : events'[i].applied = IF i = k /\ fresh THEN 1 ELSE events[i].applied
  BY <1>1, <1>3 DEF fresh
<1> HIDE DEF k
<1>5. \A i \in DOMAIN events' : events'[i].applied <= 1
  BY <1>4, MarkKeeps DEF DInv, Known
<1>6. ASSUME transport'.kind = "http"
      PROVE  /\ \A i \in DOMAIN events' : events'[i].applied = 1 => Key(events[i])' \in seen'
             /\ \A x \in seen' : \E j \in DOMAIN events' :
                   Key(events[j])' = x /\ events'[j].applied = 1
  <2>1. transport.kind = "http"
    BY <1>6 DEF Marked
  <2>2. ASSUME NEW i \in DOMAIN events', events'[i].applied = 1
        PROVE  Key(events[i])' \in seen'
    <3>1. CASE i = k
      BY <1>0, <3>1, MarkKeeps
    <3>2. CASE i # k
      BY <1>4, <2>1, <2>2, <3>2, MarkKeeps DEF DInv, Known
    <3>3. QED
      BY <3>1, <3>2
  <2>3. ASSUME NEW x \in seen'
        PROVE  \E j \in DOMAIN events' : Key(events[j])' = x /\ events'[j].applied = 1
    <3>1. CASE x \in seen
      <4>1. PICK j \in DOMAIN events : Key(events[j]) = x /\ events[j].applied = 1
        BY <2>1, <3>1 DEF DInv, Known
      <4>2. events'[j].applied = 1
        BY <1>4, <4>1
      <4>3. QED
        BY <4>1, <4>2, MarkKeeps
    <3>2. CASE x \notin seen
      <4>1. x = Key(events[k])
        BY <1>0, <2>3, <3>2
      <4>2. events'[k].applied = 1
        BY <1>0, <1>2, <1>4, <2>1, <3>2, <4>1
      <4>3. QED
        BY <1>0, <4>1, <4>2, MarkKeeps
    <3>3. QED
      BY <3>1, <3>2
  <2>4. QED
    BY <2>2, <2>3
<1>7. ASSUME NEW i \in DOMAIN events', events'[i].fate = "accepted", events'[i].applied = 0
      PROVE  \E j \in DOMAIN events' : Twin(j, i)' /\ events'[j].applied = 1
  <2>0. i \in DOMAIN events
    BY <1>7, MarkKeeps
  <2>1. PICK j \in DOMAIN events : Twin(j, i) /\ events[j].applied = 1
    <3>1. CASE i # k
      <4>1. events[i].fate = "accepted" /\ events[i].applied = 0
        BY <1>4, <1>7, <2>0, <3>1 DEF k
      <4>2. QED
        BY <2>0, <4>1 DEF DInv, Known
    <3>2. CASE i = k
      <4>1. ~fresh /\ events[k].applied = 0
        BY <1>0, <1>4, <1>7, <3>2
      <4>2. transport.kind = "http" /\ Key(events[k]) \in seen
        BY <1>0, <1>2, <4>1
      <4>3. PICK j \in DOMAIN events : Key(events[j]) = Key(events[k]) /\ events[j].applied = 1
        BY <4>2 DEF DInv, Known
      <4>4. j # k /\ j < k
        BY <1>0, <4>1, <4>3
      <4>5. events[j].seq = events[k].seq
        BY <4>3 DEF Key
      <4>6. ~events[j].recorded /\ events[j].session # events[k].session
        BY <1>0, <4>2, <4>4, <4>5 DEF DInv, Numbered
      <4>7. events[j].session <= events[k].session
        BY <1>0, <4>4 DEF DInv, InTurn
      <4>8. Twin(j, k)
        BY <1>0, <4>3, <4>6, <4>7 DEF Twin
      <4>9. QED
        BY <3>2, <4>3, <4>8
    <3>3. QED
      BY <3>1, <3>2
  <2>2. events'[j].applied = 1
    BY <1>4, <2>1
  <2>3. QED
    BY <2>0, <2>1, <2>2, MarkKeeps
<1>8. QED
  BY <1>5, <1>6, <1>7 DEF Known

(* The events, with the one under way applied or not.                      *)
Variant(evs) ==
    /\ evs \in Seq(Emitted) /\ Len(evs) = Len(events)
    /\ \A i \in DOMAIN events : i # Len(events) => evs[i] = events[i]
    /\ \A i \in DOMAIN events :
          /\ evs[i].name = events[i].name /\ evs[i].session = events[i].session
          /\ evs[i].seq = events[i].seq /\ evs[i].recorded = events[i].recorded
          /\ evs[i].fate = events[i].fate

(* While an event is under way, it is the last one.                        *)
LEMMA Sending ==
    ASSUME DInv, session.sending # Nothing
    PROVE  /\ Shaped /\ session \in SessionSet /\ events \in Seq(Emitted)
           /\ session.sending.event = Len(events) /\ Len(events) \in DOMAIN events
           /\ DOMAIN events = 1..Len(events)
<1>1. Shaped
  BY DEF DInv
<1>2. session.sending.event = Len(events) /\ Len(events) > 0
  BY DEF DInv, UnderWay
<1>3. Len(events) \in Nat /\ DOMAIN events = 1..Len(events) /\ session \in SessionSet
  BY <1>1, EventsAre
<1>4. QED
  BY <1>1, <1>2, <1>3 DEF Shaped

(* An event that is applied is otherwise the one it was.                   *)
LEMMA Counted ==
    ASSUME NEW r \in Emitted, NEW a \in Nat
    PROVE  /\ [r EXCEPT !.applied = a] \in Emitted
           /\ [r EXCEPT !.applied = a].name = r.name
           /\ [r EXCEPT !.applied = a].session = r.session
           /\ [r EXCEPT !.applied = a].seq = r.seq
           /\ [r EXCEPT !.applied = a].recorded = r.recorded
           /\ [r EXCEPT !.applied = a].fate = r.fate
BY DEF Emitted

(* What a post may make of the events, applied or not.                     *)
LEMMA Variants ==
    ASSUME DInv, Posting
    PROVE  Variant(events) /\ Variant(Apply)
<1>0. Shaped /\ session.sending.event = Len(events) /\ Len(events) \in DOMAIN events
  <2>1. session.sending # Nothing
    BY DEF Posting, Nothing, Attempts
  <2>2. QED
    BY <2>1, Sending
<1>1. events \in Seq(Emitted)
  BY <1>0 DEF Shaped
<1> DEFINE k == Len(events)
           e == [events[k] EXCEPT !.applied = @ + 1]
           evs == [events EXCEPT ![k] = e]
<1>2. events[k] \in Emitted
  BY <1>0, <1>1
<1>3. /\ e \in Emitted /\ e.name = events[k].name /\ e.session = events[k].session
      /\ e.seq = events[k].seq /\ e.recorded = events[k].recorded /\ e.fate = events[k].fate
  <2>1. PICK r \in Emitted : r = events[k]
    BY <1>2
  <2>2. PICK a \in Nat : a = r.applied + 1
    <3>1. r.applied \in Nat
      BY DEF Emitted
    <3>2. QED
      BY <3>1
  <2>3. e = [r EXCEPT !.applied = a]
    BY <2>1, <2>2
  <2> HIDE DEF e
  <2>4. /\ e \in Emitted /\ e.name = r.name /\ e.session = r.session
        /\ e.seq = r.seq /\ e.recorded = r.recorded /\ e.fate = r.fate
    BY <2>3, Counted
  <2>5. QED
    BY <2>1, <2>4
<1>4. Apply = IF NewKey THEN evs ELSE events
  BY <1>0 DEF Apply
<1> HIDE DEF e
<1>5. evs \in Seq(Emitted) /\ Len(evs) = Len(events) /\ evs[k] = e
      /\ \A i \in DOMAIN events : i # k => evs[i] = events[i]
  BY <1>0, <1>1, <1>3
<1> HIDE DEF evs
<1>6. Variant(evs)
  BY <1>3, <1>5 DEF Variant
<1>7. Variant(events)
  BY <1>1 DEF Variant
<1>8. QED
  BY <1>4, <1>6, <1>7

(* The end of a send.                                                      *)
LEMMA OverKeeps ==
    ASSUME DInv, session.sending # Nothing, NEW evs, Variant(evs),
           NEW f \in {"accepted", "lost"}, Over(evs, f), UNCHANGED <<transport, saved>>
    PROVE  /\ Marked /\ UnderWay' /\ session'.sending = Nothing
           /\ \A i \in DOMAIN events :
                 /\ events'[i].applied = evs[i].applied
                 /\ events'[i].fate = IF i = Len(events) THEN f ELSE events[i].fate
<1> DEFINE k == Len(events)
           e == [evs[k] EXCEPT !.fate = f]
<1>0. /\ Shaped /\ session.sending.event = k /\ k \in DOMAIN events /\ k \in DOMAIN evs
      /\ session \in SessionSet /\ DOMAIN events = DOMAIN evs /\ evs \in Seq(Emitted)
      /\ Len(evs) = k
  <2>1. Len(evs) = k /\ evs \in Seq(Emitted)
    BY DEF Variant
  <2>2. QED
    BY <2>1, Sending
<1>1. /\ session' \in SessionSet /\ session'.n = session.n /\ session'.seq = session.seq
      /\ session'.sending = Nothing
  BY <1>0 DEF Over, SessionSet, Nothing
<1>2. events' = [evs EXCEPT ![k] = e]
  BY <1>0 DEF Over
<1>3. /\ e \in Emitted /\ e.name = evs[k].name /\ e.session = evs[k].session
      /\ e.seq = evs[k].seq /\ e.recorded = evs[k].recorded /\ e.fate = f
      /\ e.applied = evs[k].applied
  <2>1. evs[k] \in Emitted
    BY <1>0
  <2>2. QED
    BY <2>1 DEF Emitted
<1> HIDE DEF e
<1>4. /\ events' \in Seq(Emitted) /\ Len(events') = k /\ events'[k] = e
      /\ \A i \in DOMAIN events : i # k => events'[i] = evs[i]
  BY <1>0, <1>2, <1>3
<1>5. Marked
  BY <1>0, <1>1, <1>3, <1>4 DEF Marked, Variant
<1>6. UnderWay'
  BY <1>1 DEF UnderWay, Nothing
<1>7. QED
  BY <1>0, <1>1, <1>3, <1>4, <1>5, <1>6 DEF Variant

(* Another attempt, or the end of the send.                                *)
LEMMA RetryKeeps ==
    ASSUME DInv, Posting, NEW evs, Variant(evs), Retry(evs), UNCHANGED <<transport, saved>>
    PROVE  /\ Marked /\ UnderWay'
           /\ session'.sending # Nothing => session'.sending.attempt # 0
           /\ \A i \in DOMAIN events :
                 /\ events'[i].applied = evs[i].applied
                 /\ events'[i].fate = "accepted" => events[i].fate = "accepted"
<1>0. /\ Shaped /\ session.sending # Nothing /\ session \in SessionSet
      /\ events \in Seq(Emitted) /\ Len(events) \in DOMAIN events
  <2>1. session.sending # Nothing
    BY DEF Posting, Nothing, Attempts
  <2>2. QED
    BY <2>1, Sending
<1>1. CASE transport.kind = "http" /\ session.sending.attempt + 1 \in Attempts
  <2>1. events' = evs /\ session' = [session EXCEPT !.sending.attempt = @ + 1]
    BY <1>1 DEF Retry
  <2>2. PICK a \in Attempts : a = session.sending.attempt + 1
    BY <1>1
  <2>3. session' = [session EXCEPT !.sending = [session.sending EXCEPT !.attempt = a]]
    BY <2>1, <2>2
  <2>4. session.sending \in [event : Nat, attempt : {0} \union Attempts]
    BY <1>0 DEF SessionSet
  <2>5. PICK x \in [event : Nat, attempt : {0} \union Attempts] :
          x = [session.sending EXCEPT !.attempt = a]
    BY <2>4
  <2>6. x.attempt = a /\ x.event = session.sending.event
    BY <2>4, <2>5
  <2>7. session' = [session EXCEPT !.sending = x]
    BY <2>3, <2>5
  <2>8. /\ session' \in SessionSet /\ session'.n = session.n /\ session'.seq = session.seq
        /\ session'.sending = x /\ session'.open = session.open
    BY <1>0, <2>7 DEF SessionSet
  <2>9. Marked
    BY <2>1, <2>8 DEF Marked, Variant
  <2>10. a # 0
    BY <2>2 DEF Attempts
  <2>11. UnderWay'
    <3>1. /\ session'.open /\ session'.sending.event = Len(events') /\ Len(events') > 0
          /\ events'[Len(events')].session = session'.n
          /\ events'[Len(events')].fate = "under way"
      BY <1>0, <2>1, <2>6, <2>8 DEF DInv, UnderWay, Variant
    <3>2. transport'.kind = "http" /\ session'.sending # Nothing
      BY <1>1, <2>6, <2>8, <2>10 DEF Nothing
    <3>3. QED
      BY <3>1, <3>2 DEF UnderWay
  <2>12. QED
    BY <2>1, <2>6, <2>8, <2>9, <2>10, <2>11 DEF Variant
<1>2. CASE ~(transport.kind = "http" /\ session.sending.attempt + 1 \in Attempts)
  <2>1. Over(evs, "lost")
    BY <1>2 DEF Retry
  <2>2. QED
    BY <1>0, <2>1, OverKeeps
<1>3. QED
  BY <1>1, <1>2

(* While it is posted, its line is finished.                               *)
LEMMA PostingKeepsLines ==
    ASSUME DInv, Posting, file' = file
    PROVE  Lines'
<1>1. session.sending # Nothing /\ session.sending.attempt # 0
  BY DEF Posting, Nothing, Attempts
<1>2. file.unfinished = FALSE
  BY <1>1 DEF DInv, Lines, Shaped
<1>3. QED
  BY <1>1, <1>2, EventsAre DEF DInv, Lines, Torn

(* A send keeps the shape of the state.                                    *)
LEMMA ShapedAgain ==
    ASSUME Shaped, Marked, file' \in [unfinished : BOOLEAN, garbled : Nat, kills : Nat]
    PROVE  Shaped'
BY DEF Shaped, Marked, SessionSet

(* An attempt to post, whatever becomes of it.                             *)
LEMMA PostingKeeps ==
    ASSUME DInv, Accepted \/ Refused \/ Unanswered \/ AnswerLost
    PROVE  DInv'
<1>0. /\ Posting /\ session.sending # Nothing /\ Shaped
      /\ UNCHANGED <<transport, saved, file>>
      /\ file \in [unfinished : BOOLEAN, garbled : Nat, kills : Nat]
  BY DEF DInv, Posting, Accepted, Refused, Unanswered, AnswerLost, Nothing, Attempts, Shaped
<1>1. Lines'
  BY <1>0, PostingKeepsLines
<1>2. Marked /\ UnderWay' /\ Known'
  <2>1. CASE Accepted
    <3>1. /\ Marked /\ UnderWay'
          /\ \A i \in DOMAIN events :
                /\ events'[i].applied = Apply[i].applied
                /\ events'[i].fate = IF i = Len(events) THEN "accepted" ELSE events[i].fate
      BY <1>0, <2>1, Variants, OverKeeps DEF Accepted
    <3>2. QED
      BY <1>0, <2>1, <3>1, TakenKeeps DEF Accepted
  <2>2. CASE AnswerLost
    <3>1. /\ Marked /\ UnderWay'
          /\ \A i \in DOMAIN events :
                /\ events'[i].applied = Apply[i].applied
                /\ events'[i].fate = "accepted" => events[i].fate = "accepted"
      BY <1>0, <2>2, Variants, RetryKeeps DEF AnswerLost
    <3>2. QED
      BY <1>0, <2>2, <3>1, TakenKeeps DEF AnswerLost
  <2>3. CASE Refused
    <3>1. /\ Marked /\ UnderWay'
          /\ \A i \in DOMAIN events :
                /\ events'[i].applied = events[i].applied
                /\ events'[i].fate = IF i = Len(events) THEN "lost" ELSE events[i].fate
      BY <1>0, <2>3, Variants, OverKeeps DEF Refused
    <3>2. QED
      BY <1>0, <2>3, <3>1, UnappliedKeeps DEF Refused
  <2>4. CASE Unanswered
    <3>1. /\ Marked /\ UnderWay'
          /\ \A i \in DOMAIN events :
                /\ events'[i].applied = events[i].applied
                /\ events'[i].fate = "accepted" => events[i].fate = "accepted"
      BY <1>0, <2>4, Variants, RetryKeeps DEF Unanswered
    <3>2. QED
      BY <1>0, <2>4, <3>1, UnappliedKeeps DEF Unanswered
  <2>5. QED
    BY <2>1, <2>2, <2>3, <2>4
<1>3. Shaped'
  BY <1>0, <1>2, ShapedAgain
<1>4. QED
  BY <1>1, <1>2, <1>3, MarkKeeps DEF DInv

(* The end of the line of an event.                                        *)
LEMMA EndLineKeeps ==
    ASSUME DInv, EndLine
    PROVE  DInv'
<1>0. /\ session.sending # Nothing /\ session.sending.attempt = 0 /\ Shaped
      /\ UNCHANGED <<transport, saved, seen>> /\ file' = [file EXCEPT !.unfinished = FALSE]
      /\ session \in SessionSet /\ events \in Seq(Emitted) /\ Len(events) \in DOMAIN events
  BY Sending DEF EndLine
<1>1. /\ file' \in [unfinished : BOOLEAN, garbled : Nat, kills : Nat]
      /\ file'.unfinished = FALSE /\ file'.garbled = file.garbled /\ file'.kills = file.kills
  BY <1>0 DEF Shaped
<1>2. Lines'
  <2>1. file.garbled <= file.kills
    <3>1. file.garbled \in Nat /\ file.kills \in Nat /\ Torn = 0
      BY <1>0, EventsAre DEF Torn
    <3>2. QED
      BY <3>1 DEF DInv, Lines
  <2>2. QED
    BY <1>1, <2>1, <1>0, EventsAre DEF Lines, Torn
<1>3. Marked /\ UnderWay' /\ Known'
  <2>1. CASE transport.kind = "none"
    <3>1. Over(events, "lost")
      BY <2>1 DEF EndLine, Over
    <3>2. Variant(events)
      BY <1>0 DEF Variant
    <3>3. QED
      BY <1>0, <3>1, <3>2, OverKeeps, UnappliedKeeps
  <2>2. CASE transport.kind # "none"
    <3>1. events' = events /\ session' = [session EXCEPT !.sending.attempt = 1]
      BY <2>2 DEF EndLine
    <3>2. session.sending \in [event : Nat, attempt : {0} \union Attempts]
      BY <1>0 DEF SessionSet
    <3>3. PICK x \in [event : Nat, attempt : {0} \union Attempts] :
            x = [session.sending EXCEPT !.attempt = 1]
      <4>1. 1 \in {0} \union Attempts
        BY DEF Attempts
      <4>2. QED
        BY <3>2, <4>1
    <3>4. x.attempt = 1 /\ x.event = session.sending.event
      BY <3>2, <3>3
    <3>5. session' = [session EXCEPT !.sending = x]
      BY <3>1, <3>3
    <3>6. /\ session' \in SessionSet /\ session'.n = session.n /\ session'.seq = session.seq
          /\ session'.sending = x /\ session'.open = session.open
      BY <1>0, <3>5 DEF SessionSet
    <3>7. Marked
      BY <1>0, <3>1, <3>6 DEF Marked
    <3>8. UnderWay'
      <4>1. /\ session'.open /\ session'.sending.event = Len(events') /\ Len(events') > 0
            /\ events'[Len(events')].session = session'.n
            /\ events'[Len(events')].fate = "under way"
            /\ transport'.kind # "http" => events'[Len(events')].applied = 0
        BY <1>0, <3>1, <3>4, <3>6 DEF DInv, UnderWay
      <4>2. session'.sending.attempt = 1
        BY <3>4, <3>6
      <4>3. session'.sending # Nothing /\ transport'.kind # "none"
        BY <1>0, <2>2, <4>2 DEF Nothing
      <4>4. QED
        BY <4>1, <4>2, <4>3 DEF UnderWay
    <3>9. Known'
      BY <1>0, <3>1, <3>7, UnappliedKeeps
    <3>10. QED
      BY <3>7, <3>8, <3>9
  <2>3. QED
    BY <2>1, <2>2
<1>4. Shaped'
  BY <1>0, <1>1, <1>3, ShapedAgain
<1>5. QED
  BY <1>2, <1>3, <1>4, MarkKeeps DEF DInv

(* A kill, wherever the session is.                                        *)
LEMMA KillKeeps ==
    ASSUME DInv, Kill
    PROVE  DInv'
<1>a. << >> \in Seq(Duty) /\ Nothing \in [event : Nat, attempt : {0} \union Attempts]
  BY DEF Nothing
<1>0. /\ Shaped /\ session \in SessionSet /\ events \in Seq(Emitted)
      /\ UNCHANGED <<transport, saved, seen>>
      /\ session' = [session EXCEPT !.open = FALSE, !.duties = << >>, !.sending = Nothing]
  BY EventsAre DEF DInv, Shaped, Kill, SessionSet
<1>1. /\ session' \in SessionSet /\ session'.n = session.n /\ session'.seq = session.seq
      /\ session'.sending = Nothing
  <2>1. PICK d \in Seq(Duty), x \in [event : Nat, attempt : {0} \union Attempts] :
           d = << >> /\ x = Nothing
    BY <1>a
  <2>2. session' = [session EXCEPT !.open = FALSE, !.duties = d, !.sending = x]
    BY <1>0, <2>1
  <2>3. /\ session' \in SessionSet /\ session'.n = session.n /\ session'.seq = session.seq
        /\ session'.sending = x
    BY <1>0, <2>2 DEF SessionSet
  <2>4. QED
    BY <2>1, <2>3
<1>2. Marked /\ Known'
  <2>1. CASE session.sending = Nothing
    <3>1. events' = events
      BY <2>1 DEF Kill
    <3>2. Marked
      BY <1>0, <1>1, <3>1 DEF Marked
    <3>3. QED
      BY <1>0, <3>1, <3>2, UnappliedKeeps
  <2>2. CASE session.sending # Nothing
    <3> DEFINE k == Len(events)
               e == [events[k] EXCEPT !.fate = "lost"]
    <3>1. k \in DOMAIN events /\ events' = [events EXCEPT ![k] = e]
      BY <2>2, Sending DEF Kill
    <3>2. /\ e \in Emitted /\ e.name = events[k].name /\ e.session = events[k].session
          /\ e.seq = events[k].seq /\ e.recorded = events[k].recorded /\ e.fate = "lost"
          /\ e.applied = events[k].applied
      <4>1. events[k] \in Emitted
        BY <1>0, <3>1
      <4>2. QED
        BY <4>1 DEF Emitted
    <3> HIDE DEF e
    <3>3. /\ events' \in Seq(Emitted) /\ Len(events') = k /\ events'[k] = e
          /\ \A i \in DOMAIN events : i # k => events'[i] = events[i]
      BY <1>0, <3>1, <3>2
    <3>4. Marked
      BY <1>0, <1>1, <3>2, <3>3 DEF Marked
    <3>5. QED
      BY <1>0, <3>2, <3>3, <3>4, UnappliedKeeps
  <2>3. QED
    BY <2>1, <2>2
<1>3. UnderWay'
  BY <1>1 DEF UnderWay, Nothing
<1>4. /\ file' \in [unfinished : BOOLEAN, garbled : Nat, kills : Nat]
      /\ file'.unfinished = file.unfinished /\ file'.garbled = file.garbled
      /\ file'.kills = file.kills + 1
  BY <1>0 DEF Kill, Shaped
<1>5. Lines'
  BY <1>0, <1>1, <1>4, EventsAre DEF DInv, Lines, Torn
<1>6. QED
  BY <1>0, <1>2, <1>3, <1>4, <1>5, MarkKeeps, ShapedAgain DEF DInv

(* A save with the counter puts the events of the session on record.       *)
LEMMA SaveKeeps ==
    ASSUME DInv, SaveCheckpoint
    PROVE  DInv'
<1>0. /\ Shaped /\ session.sending = Nothing /\ session \in SessionSet
      /\ events \in Seq(Emitted) /\ session.duties # << >>
      /\ UNCHANGED <<transport, seen, file>>
      /\ session' = [session EXCEPT !.duties = Tail(@)]
  BY EventsAre DEF DInv, Shaped, SaveCheckpoint, Idle, SessionSet
<1>1. /\ session' \in SessionSet /\ session'.n = session.n /\ session'.seq = session.seq
      /\ session'.sending = Nothing
  <2>1. session.duties \in Seq(Duty)
    BY <1>0 DEF SessionSet
  <2>2. Tail(session.duties) \in Seq(Duty)
    BY <1>0, <2>1
  <2>3. QED
    BY <1>0, <2>2 DEF SessionSet
<1>b. UnderWay'
  BY <1>1 DEF UnderWay, Nothing
<1>2. CASE ~Head(session.duties).numbered
  <2>1. UNCHANGED <<saved, events>>
    BY <1>2 DEF SaveCheckpoint
  <2>2. Shaped' /\ UnderWay'
    BY <1>0, <1>1, <1>b, <2>1 DEF Shaped, SessionSet
  <2>3. InTurn' /\ Numbered'
    BY <1>0, <1>1, <2>1 DEF DInv, InTurn, Numbered
  <2>4. Known'
    BY <1>0, <1>1, <2>1 DEF DInv, Known, Key, Twin, RunId
  <2>5. Lines'
    BY <1>0, <1>1, <2>1 DEF DInv, Lines, Torn
  <2>6. QED
    BY <2>2, <2>3, <2>4, <2>5 DEF DInv
<1>3. CASE Head(session.duties).numbered
  <2> DEFINE Rec(i) == [events[i] EXCEPT !.recorded = @ \/ events[i].session = session.n]
  <2>1. /\ saved' = session.seq
        /\ events' = [i \in DOMAIN events |-> Rec(i)]
    BY <1>3 DEF SaveCheckpoint
  <2>2. ASSUME NEW i \in DOMAIN events
        PROVE  /\ Rec(i) \in Emitted /\ Rec(i).name = events[i].name
               /\ Rec(i).session = events[i].session /\ Rec(i).seq = events[i].seq
               /\ Rec(i).fate = events[i].fate /\ Rec(i).applied = events[i].applied
               /\ Rec(i).recorded <=> (events[i].recorded \/ events[i].session = session.n)
    <3>1. events[i] \in Emitted
      BY <1>0
    <3>2. PICK b \in BOOLEAN : b = (events[i].recorded \/ events[i].session = session.n)
      BY Zenon
    <3>3. Rec(i) = [events[i] EXCEPT !.recorded = b]
      BY <3>2, Zenon
    <3> HIDE DEF Rec
    <3>4. /\ Rec(i) \in Emitted /\ Rec(i).name = events[i].name
          /\ Rec(i).session = events[i].session /\ Rec(i).seq = events[i].seq
          /\ Rec(i).fate = events[i].fate /\ Rec(i).applied = events[i].applied
          /\ Rec(i).recorded = b
      BY <3>1, <3>3 DEF Emitted
    <3>5. QED
      BY <3>2, <3>4, Zenon
  <2> HIDE DEF Rec
  <2>3. DOMAIN events' = DOMAIN events /\ Len(events') = Len(events) /\ events' \in Seq(Emitted)
        /\ \A i \in DOMAIN events : events'[i] = Rec(i)
    BY <1>0, <2>1, <2>2
  <2>4. Shaped'
    BY <1>0, <1>1, <2>1, <2>3, EventsAre DEF Shaped, SessionSet
  <2>5. UnderWay'
    BY <1>b
  <2>6. InTurn'
    BY <1>1, <2>2, <2>3 DEF DInv, InTurn
  <2>7. Numbered'
    <3>1. SUFFICES ASSUME transport.kind = "http" PROVE Numbered'
      BY <1>0 DEF Numbered
    <3>2. /\ saved <= session.seq
          /\ \A i \in DOMAIN events :
                /\ events[i].session = session.n => events[i].seq <= session.seq
                /\ events[i].recorded => events[i].seq <= saved
          /\ \A i, j \in DOMAIN events :
                i < j /\ (events[i].recorded \/ events[i].session = events[j].session)
                    => events[i].seq < events[j].seq
      BY <3>1 DEF DInv, Numbered
    <3>3. ASSUME NEW i \in DOMAIN events', events'[i].recorded
          PROVE  events'[i].seq <= session.seq
      <4>1. i \in DOMAIN events /\ (events[i].recorded \/ events[i].session = session.n)
        BY <2>2, <2>3, <3>3
      <4>2. events[i].seq \in Nat /\ saved \in Nat /\ session.seq \in Nat
        BY <1>0, <4>1, EventsAre
      <4>3. events[i].seq <= session.seq
        BY <3>2, <4>1, <4>2
      <4>4. QED
        BY <2>2, <2>3, <4>1, <4>3
    <3>4. ASSUME NEW i \in DOMAIN events', NEW j \in DOMAIN events', i < j,
                 events'[i].recorded \/ events'[i].session = events'[j].session
          PROVE  events'[i].seq < events'[j].seq
      <4>1. events[i].session = session.n => events[j].session = session.n
        <5>1. events[i].session <= events[j].session /\ events[j].session <= session.n
          BY <2>3, <3>4 DEF DInv, InTurn
        <5>2. QED
          BY <1>0, <2>3, <5>1, EventsAre
      <4>2. events[i].recorded \/ events[i].session = events[j].session
        BY <2>2, <2>3, <3>4, <4>1
      <4>3. QED
        BY <2>2, <2>3, <3>2, <3>4, <4>2
    <3>5. ASSUME NEW i \in DOMAIN events', events'[i].session = session.n
          PROVE  events'[i].seq <= session.seq
      BY <2>2, <2>3, <3>2, <3>5
    <3>6. session.seq <= session.seq
      BY <1>0, EventsAre
    <3>7. QED
      BY <1>1, <2>1, <3>3, <3>4, <3>5, <3>6 DEF Numbered
  <2>8. Known'
    <3>1. \A i \in DOMAIN events : Key(events[i])' = Key(events[i])
      BY <1>0, <2>2, <2>3 DEF Key, RunId
    <3>2. \A i, j \in DOMAIN events : Twin(i, j) => Twin(i, j)'
      <4>1. SUFFICES ASSUME NEW i \in DOMAIN events, NEW j \in DOMAIN events, Twin(i, j)
                     PROVE  Twin(i, j)'
        OBVIOUS
      <4>2. events[i].session < events[j].session /\ events[j].session <= session.n
        BY <4>1 DEF Twin, DInv, InTurn
      <4>3. events[i].session # session.n
        BY <1>0, <4>2, EventsAre
      <4>4. QED
        BY <2>2, <2>3, <3>1, <4>1, <4>3 DEF Twin
    <3>3. \A i \in DOMAIN events' : events'[i].applied <= 1
      BY <2>2, <2>3 DEF DInv, Known
    <3>4. transport'.kind = "http" =>
            /\ \A i \in DOMAIN events' : events'[i].applied = 1 => Key(events[i])' \in seen'
            /\ \A x \in seen' : \E j \in DOMAIN events' :
                  Key(events[j])' = x /\ events'[j].applied = 1
      BY <1>0, <2>2, <2>3, <3>1 DEF DInv, Known
    <3>5. ASSUME NEW i \in DOMAIN events', events'[i].fate = "accepted", events'[i].applied = 0
          PROVE  \E j \in DOMAIN events' : Twin(j, i)' /\ events'[j].applied = 1
      <4>1. PICK j \in DOMAIN events : Twin(j, i) /\ events[j].applied = 1
        BY <2>2, <2>3, <3>5 DEF DInv, Known
      <4>2. QED
        BY <2>2, <2>3, <3>2, <4>1
    <3>6. QED
      BY <3>3, <3>4, <3>5 DEF Known
  <2>9. Lines'
    BY <1>0, <1>1 DEF DInv, Lines, Torn
  <2>10. QED
    BY <2>4, <2>5, <2>6, <2>7, <2>8, <2>9 DEF DInv
<1>4. QED
  BY <1>2, <1>3

(* Nothing has been emitted.                                               *)
LEMMA InitDInv == DeliveryInit => DInv
BY DEF DeliveryInit, DInv, Shaped, UnderWay, InTurn, Numbered, Known, Lines, Torn,
       NoSession, Nothing

(* Every step of the callbacks keeps the invariant.                        *)
LEMMA StepDInv ==
    ASSUME DeliveryConstants, DInv, [DeliveryNext]_deliveryVars
    PROVE  DInv'
<1>1. CASE UNCHANGED deliveryVars
  <2>1. Shaped' /\ UnderWay' /\ InTurn' /\ Numbered' /\ Lines'
    BY <1>1 DEF deliveryVars, DInv, Shaped, UnderWay, InTurn, Numbered, Lines, Torn
  <2>2. Known'
    BY <1>1 DEF deliveryVars, DInv, Known, Key, RunId, Twin
  <2>3. QED
    BY <2>1, <2>2 DEF DInv
<1>2. QED
  BY <1>1, StartKeeps, NextItemKeeps, EmitKeeps, EndLineKeeps, PostingKeeps, SaveKeeps,
     ExitKeeps, KillKeeps DEF DeliveryNext, Step

-----------------------------------------------------------------------------
(* Callbacks: the bounds of the model.                                     *)

(* The events that are still to be emitted of a queue of duties.           *)
Sends(d) == Cardinality({i \in DOMAIN d : d[i].do = "send"})

(* An empty queue emits nothing.                                           *)
LEMMA NoSends == Sends(<< >>) = 0
BY FS_EmptySet DEF Sends

(* The head of a queue is what its tail is short of.                       *)
LEMMA SendsOfTail ==
    ASSUME NEW d \in Seq(Duty), d # << >>
    PROVE  /\ Sends(d) \in Nat /\ Sends(Tail(d)) \in Nat
           /\ Sends(d) = Sends(Tail(d)) + (IF Head(d).do = "send" THEN 1 ELSE 0)
<1> DEFINE n == Len(d)
           A == {i \in 1..n : d[i].do = "send"}
           t == Tail(d)
           B == {i \in 1..(n - 1) : t[i].do = "send"}
           f == [i \in B |-> i + 1]
<1>1. /\ n \in Nat /\ n > 0 /\ DOMAIN d = 1..n /\ DOMAIN t = 1..(n - 1)
      /\ \A i \in 1..(n - 1) : t[i] = d[i + 1]
      /\ Head(d) = d[1]
  OBVIOUS
<1>2. Sends(d) = Cardinality(A) /\ Sends(t) = Cardinality(B)
  BY <1>1 DEF Sends
<1> HIDE DEF n, t
<1>3. IsFiniteSet(A) /\ IsFiniteSet(B)
  <2>1. IsFiniteSet(1..n) /\ IsFiniteSet(1..(n - 1))
    BY <1>1, FS_Interval
  <2>2. QED
    BY <2>1, FS_Subset
<1>4. f \in Bijection(B, A \ {1})
  <2>1. f \in [B -> A \ {1}]
    BY <1>1
  <2>2. f \in Injection(B, A \ {1})
    BY <1>1, <2>1 DEF Injection, IsInjective
  <2>3. \A x \in A \ {1} : \E i \in B : f[i] = x
    <3>1. SUFFICES ASSUME NEW x \in A \ {1} PROVE \E i \in B : f[i] = x
      OBVIOUS
    <3>2. x - 1 \in B
      BY <1>1
    <3>3. QED
      BY <3>2
  <2>4. QED
    BY <2>1, <2>2, <2>3 DEF Bijection, Surjection
<1>5. ExistsBijection(B, A \ {1})
  BY <1>4 DEF ExistsBijection
<1> HIDE DEF A, B, f
<1>6. Cardinality(A \ {1}) = Cardinality(B)
  BY <1>3, <1>5, FS_Bijection
<1>7. /\ Cardinality(A) \in Nat /\ Cardinality(B) \in Nat
      /\ Cardinality(A \ {1}) = IF 1 \in A THEN Cardinality(A) - 1 ELSE Cardinality(A)
  BY <1>3, FS_RemoveElement, FS_CardinalityType
<1>8. 1 \in A <=> Head(d).do = "send"
  BY <1>1 DEF A
<1>9. QED
  BY <1>2, <1>6, <1>7, <1>8 DEF t

(* The events still to be emitted are counted.                             *)
LEMMA SendsNat == ASSUME NEW d \in Seq(Duty) PROVE Sends(d) \in Nat
<1>1. CASE d = << >>
  BY <1>1, NoSends
<1>2. CASE d # << >>
  BY <1>2, SendsOfTail
<1>3. QED
  BY <1>1, <1>2

(* No more events than those begun, and those begun are within the bound.  *)
BInv ==
    /\ session.n <= MaxSessions
    /\ saved <= Len(events) /\ session.seq <= Len(events)
    /\ Len(events) + Sends(session.duties) <= MaxEvents

(* What a step leaves of the duties, when it emits nothing.                *)
Fewer ==
    /\ Len(events') = Len(events)
    /\ session'.n = session.n /\ session'.seq = session.seq
    /\ saved' \in {saved, session.seq}
    /\ \/ session'.duties \in {session.duties, << >>}
       \/ session.duties # << >> /\ session'.duties = Tail(session.duties)

(* A step that emits nothing stays within the bounds.                      *)
LEMMA FewerKeeps ==
    ASSUME DeliveryConstants, Shaped, BInv, Fewer
    PROVE  BInv'
<1>1. /\ Len(events) \in Nat /\ session.duties \in Seq(Duty) /\ saved \in Nat
      /\ session.seq \in Nat
  BY EventsAre DEF SessionSet
<1>2. Sends(session.duties) \in Nat /\ Sends(session'.duties) <= Sends(session.duties)
      /\ Sends(session'.duties) \in Nat
  <2>1. CASE session.duties = << >>
    BY <1>1, <2>1, NoSends, SendsNat DEF Fewer
  <2>2. CASE session.duties # << >>
    BY <1>1, <2>2, NoSends, SendsNat, SendsOfTail DEF Fewer
  <2>3. QED
    BY <2>1, <2>2
<1>3. QED
  BY <1>1, <1>2 DEF BInv, Fewer

(* A line, a post and a kill emit nothing.                                 *)
LEMMA PostingIsFewer ==
    ASSUME DInv, EndLine \/ Accepted \/ Refused \/ Unanswered \/ AnswerLost \/ Kill
    PROVE  Fewer
<1>0. Shaped /\ session \in SessionSet /\ events \in Seq(Emitted) /\ saved' = saved
  BY EventsAre DEF DInv, Shaped, EndLine, Accepted, Refused, Unanswered, AnswerLost, Kill
<1>1. CASE Kill
  BY <1>0, <1>1 DEF Kill, SessionSet, Fewer
<1>2. CASE EndLine
  BY <1>0, <1>2 DEF EndLine, SessionSet, Fewer
<1>3. ASSUME NEW evs, Len(evs) = Len(events), NEW f,
             Retry(evs) \/ Over(evs, f)
      PROVE  Fewer
  BY <1>0, <1>3 DEF Retry, Over, SessionSet, Fewer
<1>4. CASE Accepted \/ Refused \/ Unanswered \/ AnswerLost
  <2>1. Posting
    BY <1>4 DEF Accepted, Refused, Unanswered, AnswerLost
  <2>2. Len(Apply) = Len(events)
    BY <2>1, Variants DEF Variant
  <2>3. QED
    BY <1>3, <1>4, <2>2 DEF Accepted, Refused, Unanswered, AnswerLost
<1>5. QED
  BY <1>1, <1>2, <1>4

(* Every step of the callbacks stays within the bounds.                    *)
LEMMA StepBInv ==
    ASSUME DeliveryConstants, DInv, BInv, [DeliveryNext]_deliveryVars
    PROVE  BInv'
<1>0. /\ Shaped /\ session \in SessionSet /\ Len(events) \in Nat /\ session.duties \in Seq(Duty)
      /\ saved \in Nat /\ session.seq \in Nat /\ session.n \in Nat
      /\ Sends(session.duties) \in Nat
  BY EventsAre, SendsNat DEF DInv, SessionSet
<1>1. CASE UNCHANGED deliveryVars
  BY <1>1 DEF BInv, deliveryVars
<1>2. CASE Start
  <2>1. /\ session'.n = session.n + 1 /\ session.n < MaxSessions /\ session'.seq = saved
        /\ session'.duties = << >>
        /\ UNCHANGED <<saved, events>>
    BY <1>2 DEF Start, NoSession
  <2>2. QED
    BY <1>0, <2>1, NoSends DEF BInv
<1>3. CASE NextItem
  <2>1. PICK g \in Groups :
          /\ Len(events) + Sends(g) <= MaxEvents
          /\ session' = [session EXCEPT !.duties = g]
    BY <1>3 DEF NextItem, Sends
  <2>2. g \in Seq(Duty)
    BY GroupsAreDuties
  <2>3. session'.duties = g /\ session'.n = session.n /\ session'.seq = session.seq
    BY <1>0, <2>1, <2>2 DEF SessionSet
  <2>4. UNCHANGED <<saved, events>>
    BY <1>3 DEF NextItem
  <2>5. QED
    BY <2>1, <2>3, <2>4 DEF BInv
<1>4. CASE Emit
  <2>1. /\ session.duties # << >> /\ Head(session.duties).do = "send" /\ saved' = saved
    BY <1>4 DEF Emit
  <2>2. Len(events') = Len(events) + 1
    <3>1. events \in Seq(Emitted)
      BY <1>0 DEF Shaped
    <3>2. QED
      BY <1>4, <3>1, Appended DEF Emit
  <2>3. session'.n = session.n /\ session'.seq = Reserved /\ session'.duties = Tail(session.duties)
    BY <1>0, <1>4 DEF Emit, SessionSet
  <2>4. Sends(session.duties) = Sends(Tail(session.duties)) + 1
        /\ Sends(Tail(session.duties)) \in Nat
    BY <1>0, <2>1, SendsOfTail
  <2>5. Reserved <= session.seq + 1 /\ Reserved \in Nat
    BY <1>0 DEF Reserved
  <2>6. QED
    <3>1. session'.n <= MaxSessions
      BY <2>3 DEF BInv
    <3>2. saved' <= Len(events') /\ session'.seq <= Len(events')
      BY <1>0, <2>1, <2>2, <2>3, <2>5 DEF BInv
    <3>3. Len(events') + Sends(session'.duties) <= MaxEvents
      BY <1>0, <2>2, <2>3, <2>4 DEF BInv
    <3>4. QED
      BY <3>1, <3>2, <3>3 DEF BInv
<1>5. CASE SaveCheckpoint
  <2>1. /\ session.duties # << >> /\ session'.duties = Tail(session.duties)
        /\ session'.n = session.n /\ session'.seq = session.seq
        /\ saved' \in {saved, session.seq}
    BY <1>0, <1>5 DEF SaveCheckpoint, SessionSet
  <2>2. Len(events') = Len(events)
    <3>1. events \in Seq(Emitted)
      BY <1>0 DEF Shaped
    <3>2. CASE Head(session.duties).numbered
      <4>1. events' = [i \in DOMAIN events |-> events'[i]]
        BY <1>5, <3>2 DEF SaveCheckpoint
      <4>2. QED
        BY <3>1, <4>1
    <3>3. CASE ~Head(session.duties).numbered
      BY <1>5, <3>3 DEF SaveCheckpoint
    <3>4. QED
      BY <3>2, <3>3
  <2>3. QED
    BY <1>0, <2>1, <2>2, FewerKeeps DEF Fewer
<1>6. CASE ExitNow
  <2>1. /\ session'.duties = << >> /\ session'.n = session.n /\ session'.seq = session.seq
        /\ UNCHANGED <<saved, events>>
    BY <1>0, <1>6 DEF ExitNow, SessionSet
  <2>2. QED
    BY <1>0, <2>1, FewerKeeps DEF Fewer
<1>7. CASE EndLine \/ Accepted \/ Refused \/ Unanswered \/ AnswerLost \/ Kill
  BY <1>0, <1>7, FewerKeeps, PostingIsFewer
<1>8. QED
  BY <1>1, <1>2, <1>3, <1>4, <1>5, <1>6, <1>7 DEF DeliveryNext, Step

(* Nothing is begun.                                                       *)
LEMMA InitBInv == DeliveryConstants /\ DeliveryInit => BInv
<1>1. SUFFICES ASSUME DeliveryConstants, DeliveryInit PROVE BInv
  OBVIOUS
<1>2. session.duties = << >> /\ session.n = 0 /\ session.seq = 0 /\ saved = 0 /\ events = << >>
  BY <1>1 DEF DeliveryInit, NoSession
<1>3. QED
  BY <1>1, <1>2, NoSends DEF BInv

(* What the invariants say of the types.                                   *)
LEMMA BoundedDelivery == DeliveryConstants /\ DInv /\ BInv => DeliveryTypeOK
<1>1. SUFFICES ASSUME DeliveryConstants, DInv, BInv PROVE DeliveryTypeOK
  OBVIOUS
<1>2. /\ Shaped /\ session \in SessionSet /\ Len(events) \in Nat /\ session.duties \in Seq(Duty)
      /\ saved \in Nat /\ session.seq \in Nat /\ session.n \in Nat
      /\ Sends(session.duties) \in Nat
      /\ \A i \in DOMAIN events : events[i] \in Emitted
  BY <1>1, EventsAre, SendsNat DEF DInv, SessionSet
<1>3. session.sending.attempt \in {0} \union Attempts
  BY <1>2 DEF SessionSet
<1>4. Len(events) <= MaxEvents
  BY <1>1, <1>2 DEF BInv
<1>5. \A i \in DOMAIN events : events[i].fate \in {"under way", "accepted", "lost"}
  BY <1>2 DEF Emitted
<1>6. session.n \in 0..MaxSessions
  BY <1>1, <1>2 DEF BInv
<1>7. session.seq \in 0..MaxEvents /\ saved \in 0..MaxEvents
  BY <1>1, <1>2, <1>4 DEF BInv
<1>8. QED
  BY <1>3, <1>4, <1>5, <1>6, <1>7 DEF DeliveryTypeOK

-----------------------------------------------------------------------------
(* Signals.                                                                *)

(* Where a process holds its lock, and where it knows its id.              *)
UnderLock == {"check", "read", "bind"}
Located == {"scanned", "lock", "check", "read", "bind", "rerun"}

Process ==
    [pc : {"off", "scan"} \union Located, scan : SUBSET Ids, id : Ids \union {0},
     taken : Nat, how : {"", "id", "scan"}, pause : Nat]

Descriptor == [pause : 0..MaxPauses, expired : BOOLEAN, onTimeout : S!OnTimeout]

SShaped ==
    /\ signals \in Seq(S!Kinds) /\ Len(signals) <= MaxSignals
    /\ redis \in [Ids -> 0..Len(signals)]
    /\ desc \in [Ids -> Descriptor]
    /\ lock \in [Ids -> Resumes \union {Nobody}]
    /\ proc \in [Resumes -> Process]

(* A signal is under one key, and no key has one that answered a pause.    *)
OneKey ==
    /\ \A i, j \in Ids : redis[i] = redis[j] /\ redis[i] # 0 => i = j
    /\ \A a \in answers : a[1] \in 1..Len(signals) /\ \A i \in Ids : redis[i] # a[1]

(* A process that read a signal under the lock is the only one that did,   *)
(* and the signal is still under its key only until the DEL.               *)
Holder(p) ==
    /\ proc[p].taken <= Len(signals)
    /\ proc[p].pc \in Located => proc[p].id \in Ids
    /\ proc[p].pc \in UnderLock => lock[proc[p].id] = p
    /\ proc[p].how = "id" =>
          /\ proc[p].pc \in {"read", "bind"} /\ proc[p].taken # 0
          /\ \A i \in Ids : redis[i] = proc[p].taken => i = proc[p].id /\ proc[p].pc = "read"
          /\ \A a \in answers : a[1] # proc[p].taken

(* No two processes read the same signal under their locks.                *)
Apart(p, q) ==
    p # q /\ proc[p].how = "id" /\ proc[q].how = "id" => proc[p].taken # proc[q].taken

(* The inductive invariant of the signals.                                 *)
SInv ==
    /\ SShaped /\ OneKey
    /\ \A p \in Resumes : Holder(p)
    /\ \A p, q \in Resumes : Apart(p, q)
    /\ S!AnswersOnce /\ wasted = {}

(* No signal is written, and no process has begun.                         *)
LEMMA InitSInv == S!SignalsConstants /\ S!SignalsInit => SInv
<1>1. SUFFICES ASSUME S!SignalsConstants, S!SignalsInit PROVE SInv
  OBVIOUS
<1>2. S!Off \in Process /\ S!Pause(1) \in Descriptor /\ S!Off.how = "" /\ S!Off.taken = 0
      /\ S!Off.pc = "off"
  BY <1>1 DEF S!Off, Process, S!Pause, Descriptor, S!SignalsConstants, S!OnTimeout
<1>3. signals = << >> /\ redis = [i \in Ids |-> 0] /\ desc = [i \in Ids |-> S!Pause(1)]
      /\ lock = [i \in Ids |-> Nobody] /\ proc = [p \in Resumes |-> S!Off]
      /\ answers = {} /\ wasted = {}
  BY <1>1 DEF S!SignalsInit
<1>4. SShaped
  <2>1. signals \in Seq(S!Kinds) /\ Len(signals) = 0 /\ MaxSignals \in Nat
    BY <1>1, <1>3 DEF S!SignalsConstants
  <2>2. redis \in [Ids -> 0..Len(signals)]
    BY <1>3, <2>1
  <2>3. desc \in [Ids -> Descriptor] /\ lock \in [Ids -> Resumes \union {Nobody}]
    BY <1>2, <1>3
  <2>4. proc \in [Resumes -> Process]
    BY <1>2, <1>3
  <2>5. QED
    BY <2>1, <2>2, <2>3, <2>4 DEF SShaped
<1>5. OneKey /\ S!AnswersOnce
  BY <1>3 DEF OneKey, S!AnswersOnce
<1>6. ASSUME NEW p \in Resumes PROVE Holder(p)
  <2>1. proc[p].how = "" /\ proc[p].taken = 0 /\ proc[p].pc = "off" /\ Len(signals) = 0
    BY <1>2, <1>3
  <2>2. QED
    <3>1. proc[p].taken <= Len(signals)
      <4>1. 0 <= 0
        OBVIOUS
      <4>2. QED
        BY <2>1, <4>1, Zenon
    <3>2. proc[p].pc \notin Located /\ proc[p].pc \notin UnderLock /\ proc[p].how # "id"
      BY <2>1 DEF Located, UnderLock
    <3>3. QED
      BY <3>1, <3>2 DEF Holder
<1>7. \A p, q \in Resumes : Apart(p, q)
  BY <1>2, <1>3 DEF Apart
<1>8. QED
  BY <1>3, <1>4, <1>5, <1>6, <1>7 DEF SInv

(* A process that goes on without a signal that it read under the lock.    *)
LEMMA GoesOn ==
    ASSUME S!SignalsConstants, SInv, NEW p \in Resumes, NEW r \in Process,
           proc' = [proc EXCEPT ![p] = r],
           r.how # "id", r.taken <= Len(signals),
           r.pc \in Located => r.id \in Ids,
           r.pc \in UnderLock => lock'[r.id] = p,
           lock' \in [Ids -> Resumes \union {Nobody}],
           \A i \in Ids, q \in Resumes : q # p /\ lock[i] = q => lock'[i] = q,
           redis' \in [Ids -> Nat], \A i \in Ids : redis'[i] \in {redis[i], 0},
           desc' \in [Ids -> Descriptor],
           UNCHANGED <<signals, answers, wasted>>
    PROVE  SInv'
<1>0. /\ proc \in [Resumes -> Process] /\ Len(signals) \in Nat
      /\ redis \in [Ids -> 0..Len(signals)]
  BY DEF SInv, SShaped
<1>1. proc'[p] = r /\ \A q \in Resumes : q # p => proc'[q] = proc[q]
  BY <1>0
<1>2. SShaped'
  <2>1. proc' \in [Resumes -> Process]
    BY <1>0
  <2>2. redis' \in [Ids -> 0..Len(signals)]
    BY <1>0
  <2>3. QED
    BY <2>1, <2>2 DEF SInv, SShaped
<1>3. OneKey'
  BY <1>0 DEF SInv, OneKey
<1>4. ASSUME NEW q \in Resumes PROVE Holder(q)'
  <2>1. CASE q = p
    BY <1>1, <2>1 DEF Holder
  <2>2. CASE q # p
    <3>1. /\ proc'[q] = proc[q] /\ Holder(q) /\ signals' = signals /\ answers' = answers
          /\ UnderLock \subseteq Located
      BY <1>1, <2>2 DEF SInv, Located, UnderLock
    <3>2. proc[q].pc \in UnderLock => lock'[proc[q].id] = q
      BY <2>2, <3>1 DEF Holder
    <3>3. \A i \in Ids : redis'[i] = proc[q].taken /\ proc[q].taken # 0
                            => redis[i] = proc[q].taken
      BY <1>0
    <3>4. QED
      BY <3>1, <3>2, <3>3 DEF Holder
  <2>3. QED
    BY <2>1, <2>2
<1>5. ASSUME NEW q \in Resumes, NEW u \in Resumes PROVE Apart(q, u)'
  BY <1>1 DEF SInv, Apart
<1>6. S!AnswersOnce' /\ wasted' = {}
  BY DEF SInv, S!AnswersOnce
<1>7. QED
  BY <1>2, <1>3, <1>4, <1>5, <1>6 DEF SInv


(* The types of what a process's state is made of.                         *)
LEMMA ProcessIs ==
    ASSUME S!SignalsConstants, SInv, NEW p \in Resumes
    PROVE  /\ proc \in [Resumes -> Process] /\ proc[p] \in Process
           /\ Len(signals) \in Nat /\ redis \in [Ids -> 0..Len(signals)]
           /\ redis \in [Ids -> Nat]
           /\ desc \in [Ids -> Descriptor] /\ lock \in [Ids -> Resumes \union {Nobody}]
           /\ Nobody \notin Resumes /\ Ids \subseteq Nat \ {0}
           /\ proc[p].pc \in Located => proc[p].id \in Ids
           /\ proc[p].taken <= Len(signals)
<1>1. Len(signals) \in Nat /\ redis \in [Ids -> 0..Len(signals)]
  BY DEF SInv, SShaped
<1>2. redis \in [Ids -> Nat]
  BY <1>1
<1>3. QED
  BY <1>1, <1>2 DEF SInv, SShaped, Holder, S!SignalsConstants

(* A process that has no signal from under the lock wastes and answers     *)
(* nothing.                                                                *)
LEMMA NothingInHand ==
    ASSUME NEW p \in Resumes, proc[p].how # "id"
    PROVE  S!Waste(p) = {} /\ S!Answer(p) = {}
BY DEF S!Waste, S!Answer

(* Outside "read" and "bind" nobody has one.                               *)
LEMMA NotInHand ==
    ASSUME SInv, NEW p \in Resumes, proc[p].pc \notin {"read", "bind"}
    PROVE  proc[p].how # "id"
BY DEF SInv, Holder

(* The state that a process ends in, and the one in which it goes on to    *)
(* the rest of its workbook.                                               *)
LEMMA OffIs ==
    S!Off \in Process /\ S!Off.how = "" /\ S!Off.taken = 0 /\ S!Off.pc = "off"
    /\ S!Off.scan = {}
BY DEF S!Off, Process

(* Leaving without a lock.                                                 *)
LEMMA LeaveGoesOn ==
    ASSUME S!SignalsConstants, SInv, NEW p \in Resumes, S!Leave(p), S!Waste(p) = {},
           proc[p].pc \notin UnderLock,
           \A i \in Ids : redis'[i] \in {redis[i], 0}, redis' \in [Ids -> Nat],
           desc' \in [Ids -> Descriptor],
           UNCHANGED <<signals, lock, answers>>
    PROVE  SInv'
<1>1. PICK r \in Process : r = S!Off
  BY OffIs
<1>2. proc' = [proc EXCEPT ![p] = r] /\ wasted' = wasted
  BY <1>1 DEF S!Leave
<1>3. r.how # "id" /\ r.taken = 0 /\ r.pc = "off"
  BY <1>1, OffIs
<1>4. r.taken <= Len(signals)
  BY <1>3, ProcessIs
<1>5. r.pc \notin Located /\ r.pc \notin UnderLock
  BY <1>3 DEF Located, UnderLock
<1>6. lock' \in [Ids -> Resumes \union {Nobody}]
  BY ProcessIs
<1>7. QED
  BY <1>2, <1>3, <1>4, <1>5, <1>6, GoesOn

(* Leaving, and dropping the lock.                                         *)
LEMMA ExitGoesOn ==
    ASSUME S!SignalsConstants, SInv, NEW p \in Resumes, S!Exit(p), S!Waste(p) = {},
           proc[p].pc \in UnderLock, desc' \in [Ids -> Descriptor],
           UNCHANGED <<redis, signals, answers>>
    PROVE  SInv'
<1>1. PICK r \in Process : r = S!Off
  BY OffIs
<1>2. /\ proc' = [proc EXCEPT ![p] = r] /\ wasted' = wasted
      /\ lock' = [lock EXCEPT ![proc[p].id] = Nobody]
  BY <1>1 DEF S!Exit, S!Leave
<1>3. r.how # "id" /\ r.taken = 0 /\ r.pc = "off"
  BY <1>1, OffIs
<1>4. r.taken <= Len(signals)
  BY <1>3, ProcessIs
<1>5. r.pc \notin Located /\ r.pc \notin UnderLock
  BY <1>3 DEF Located, UnderLock
<1>6. lock' \in [Ids -> Resumes \union {Nobody}]
  BY <1>2, ProcessIs
<1>7. lock[proc[p].id] = p
  BY DEF SInv, Holder
<1>8. \A i \in Ids, q \in Resumes : q # p /\ lock[i] = q => lock'[i] = q
  BY <1>2, <1>7, ProcessIs
<1>9. redis' \in [Ids -> Nat] /\ \A i \in Ids : redis'[i] \in {redis[i], 0}
  BY ProcessIs
<1>10. QED
  BY <1>2, <1>3, <1>4, <1>5, <1>6, <1>8, <1>9, GoesOn

(* The state of a process after its pause.                                 *)
LEMMA AfterPause ==
    ASSUME S!SignalsConstants, SInv, NEW p \in Resumes, proc[p].pc \in Located
    PROVE  /\ S!Desc(p) \in Descriptor /\ S!Desc(p).pause \in 0..MaxPauses
           /\ \E r \in Process :
                /\ r.pc = "rerun" /\ r.taken = 0 /\ r.how = "" /\ r.id = proc[p].id
                /\ S!GoOn(p) = [proc EXCEPT ![p] = r]
<1>1. PICK s \in Process : s = proc[p]
  BY ProcessIs
<1>2. S!Desc(p) \in Descriptor
  BY ProcessIs DEF S!Desc
<1>3. PICK n \in 0..MaxPauses : n = S!Desc(p).pause
  BY <1>2 DEF Descriptor
<1>4. n \in Nat
  BY <1>3 DEF S!SignalsConstants
<1>5. [s EXCEPT !.pc = "rerun", !.taken = 0, !.how = "", !.pause = n] \in Process
  BY <1>4 DEF Process, Located
<1>6. DEFINE r == [s EXCEPT !.pc = "rerun", !.taken = 0, !.how = "", !.pause = n]
<1>7. r.pc = "rerun" /\ r.taken = 0 /\ r.how = "" /\ r.id = s.id
  BY DEF Process
<1>8. S!GoOn(p) = [proc EXCEPT ![p] = r]
  BY <1>1, <1>3 DEF S!GoOn
<1>9. QED
  BY <1>1, <1>2, <1>3, <1>5, <1>7, <1>8

(* The pause is over, by whatever nobody waits for.                        *)
LEMMA GoOnGoesOn ==
    ASSUME S!SignalsConstants, SInv, NEW p \in Resumes, proc[p].pc \in UnderLock,
           proc' = S!GoOn(p), S!Unlock(p), desc' \in [Ids -> Descriptor],
           UNCHANGED <<redis, signals, answers, wasted>>
    PROVE  SInv'
<1>1. proc[p].pc \in Located
  BY DEF Located, UnderLock
<1>2. PICK r \in Process :
          /\ r.pc = "rerun" /\ r.taken = 0 /\ r.how = "" /\ r.id = proc[p].id
          /\ S!GoOn(p) = [proc EXCEPT ![p] = r]
  BY <1>1, AfterPause
<1>3. lock' = [lock EXCEPT ![proc[p].id] = Nobody] /\ lock[proc[p].id] = p
  BY DEF S!Unlock, SInv, Holder
<1>4. lock' \in [Ids -> Resumes \union {Nobody}]
  BY <1>3, ProcessIs
<1>5. \A i \in Ids, q \in Resumes : q # p /\ lock[i] = q => lock'[i] = q
  BY <1>3, ProcessIs
<1>6. redis' \in [Ids -> Nat] /\ \A i \in Ids : redis'[i] \in {redis[i], 0}
  BY ProcessIs
<1>7. r.taken <= Len(signals) /\ r.id \in Ids
  <2>1. Len(signals) \in Nat /\ proc[p].id \in Ids
    BY <1>1, ProcessIs
  <2>2. r.taken = 0 /\ r.id = proc[p].id
    BY <1>2
  <2>3. QED
    BY <2>1, <2>2
<1>8. r.pc \notin UnderLock
  BY <1>2 DEF UnderLock
<1>9. QED
  BY <1>2, <1>4, <1>5, <1>6, <1>7, <1>8, GoesOn

(* A descriptor that is gone.                                              *)
LEMMA NoDescriptor ==
    ASSUME S!SignalsConstants, SInv, NEW i \in Ids, NEW n \in 0..MaxPauses
    PROVE  [desc EXCEPT ![i] = S!Pause(n)] \in [Ids -> Descriptor]
<1>1. S!Pause(n) \in Descriptor
  BY DEF S!Pause, Descriptor, S!OnTimeout
<1>2. QED
  BY <1>1 DEF SInv, SShaped

(* A process that begins, with an id or without one.                       *)
LEMMA BeginKeeps ==
    ASSUME S!SignalsConstants, SInv, NEW p \in Resumes,
           S!BeginWithId(p) \/ S!BeginScan(p)
    PROVE  SInv'
<1>0. PICK o \in Process : o = S!Off
  BY OffIs
<1>1. o.how = "" /\ o.taken = 0
  BY <1>0, OffIs
<1>2. /\ redis' \in [Ids -> Nat] /\ \A i \in Ids : redis'[i] \in {redis[i], 0}
      /\ lock' \in [Ids -> Resumes \union {Nobody}] /\ desc' \in [Ids -> Descriptor]
      /\ UNCHANGED <<signals, lock, answers, wasted>>
      /\ Len(signals) \in Nat /\ Ids \subseteq Nat \ {0}
  BY ProcessIs DEF S!BeginWithId, S!BeginScan, S!Goto
<1>3. CASE S!BeginWithId(p)
  <2>1. PICK i \in Ids : proc' = [proc EXCEPT ![p] = [o EXCEPT !.pc = "lock", !.id = i]]
    BY <1>0, <1>3 DEF S!BeginWithId, S!Goto
  <2>2. [o EXCEPT !.pc = "lock", !.id = i] \in Process
    BY <1>2 DEF Process, Located
  <2>3. PICK r \in Process : r = [o EXCEPT !.pc = "lock", !.id = i]
    BY <2>2
  <2>4. r.how # "id" /\ r.taken = 0 /\ r.id = i /\ r.pc \notin UnderLock
    BY <1>1, <2>3 DEF Process, UnderLock
  <2>5. r.taken <= Len(signals)
    BY <1>2, <2>4
  <2>6. QED
    BY <1>2, <2>1, <2>3, <2>4, <2>5, GoesOn
<1>4. CASE S!BeginScan(p)
  <2>1. PICK s \in SUBSET Ids : proc' = [proc EXCEPT ![p] = [o EXCEPT !.pc = "scan", !.scan = s]]
    BY <1>0, <1>4 DEF S!BeginScan, S!Goto
  <2>2. [o EXCEPT !.pc = "scan", !.scan = s] \in Process
    BY DEF Process, Located
  <2>3. PICK r \in Process : r = [o EXCEPT !.pc = "scan", !.scan = s]
    BY <2>2
  <2>4. r.how # "id" /\ r.taken = 0 /\ r.pc \notin UnderLock /\ r.pc \notin Located
    BY <1>1, <2>3 DEF Process, UnderLock, Located
  <2>5. r.taken <= Len(signals)
    BY <1>2, <2>4
  <2>6. QED
    BY <1>2, <2>1, <2>3, <2>4, <2>5, GoesOn
<1>5. QED
  BY <1>3, <1>4

(* The GET of a scan.                                                      *)
LEMMA ScanGetKeeps ==
    ASSUME S!SignalsConstants, SInv, NEW p \in Resumes, S!ScanGet(p)
    PROVE  SInv'
<1>0. PICK s \in Process : s = proc[p]
  BY ProcessIs
<1>1. s.pc = "scan" /\ s.how # "id" /\ S!Waste(p) = {}
  BY <1>0, NotInHand, NothingInHand DEF S!ScanGet
<1>2. /\ redis' \in [Ids -> Nat] /\ \A i \in Ids : redis'[i] \in {redis[i], 0}
      /\ lock' \in [Ids -> Resumes \union {Nobody}] /\ desc' \in [Ids -> Descriptor]
      /\ UNCHANGED <<redis, desc, signals, lock, answers>>
      /\ Len(signals) \in Nat /\ Ids \subseteq Nat \ {0}
      /\ redis \in [Ids -> 0..Len(signals)] /\ s.taken <= Len(signals)
  BY <1>0, ProcessIs DEF S!ScanGet
<1>3. CASE S!Leave(p)
  <2>1. proc[p].pc \notin UnderLock
    BY <1>0, <1>1 DEF UnderLock
  <2>2. QED
    BY <1>1, <1>2, <1>3, <2>1, LeaveGoesOn
<1>4. CASE \E i \in proc[p].scan :
               S!Goto(p, IF redis[i] = 0 THEN [proc[p] EXCEPT !.scan = @ \ {i}]
                         ELSE [proc[p] EXCEPT !.pc = "scanned", !.scan = {}, !.id = i,
                                              !.taken = redis[i], !.how = "scan"])
  <2>1. PICK i \in s.scan :
            S!Goto(p, IF redis[i] = 0 THEN [s EXCEPT !.scan = @ \ {i}]
                      ELSE [s EXCEPT !.pc = "scanned", !.scan = {}, !.id = i,
                                     !.taken = redis[i], !.how = "scan"])
    BY <1>0, <1>4
  <2>2. i \in Ids
    BY DEF Process
  <2>3. CASE redis[i] = 0
    <3>1. PICK u \in SUBSET Ids : u = s.scan \ {i}
      BY DEF Process
    <3>2. [s EXCEPT !.scan = u] \in Process
      BY DEF Process
    <3>3. PICK r \in Process : r = [s EXCEPT !.scan = u]
      BY <3>2
    <3>4. r.how = s.how /\ r.pc = s.pc /\ r.taken = s.taken
      BY <3>3 DEF Process
    <3>5. proc' = [proc EXCEPT ![p] = r] /\ wasted' = wasted
      BY <2>1, <2>3, <3>1, <3>3 DEF S!Goto
    <3>6. r.pc \notin Located /\ r.pc \notin UnderLock
      BY <1>1, <3>4 DEF Located, UnderLock
    <3>7. QED
      BY <1>1, <1>2, <3>4, <3>5, <3>6, GoesOn
  <2>4. CASE redis[i] # 0
    <3>1. PICK n \in Nat : n = redis[i] /\ n <= Len(signals)
      BY <1>2, <2>2
    <3>2. [s EXCEPT !.pc = "scanned", !.scan = {}, !.id = i, !.taken = n, !.how = "scan"]
          \in Process
      BY <2>2 DEF Process, Located
    <3>3. PICK r \in Process : r = [s EXCEPT !.pc = "scanned", !.scan = {}, !.id = i,
                                             !.taken = n, !.how = "scan"]
      BY <3>2
    <3>4. r.how = "scan" /\ r.pc = "scanned" /\ r.taken = n /\ r.id = i
      BY <3>3 DEF Process
    <3>5. proc' = [proc EXCEPT ![p] = r] /\ wasted' = wasted
      BY <2>1, <2>4, <3>1, <3>3 DEF S!Goto
    <3>6. r.pc \notin UnderLock
      BY <3>4 DEF UnderLock
    <3>7. QED
      BY <1>2, <2>2, <3>1, <3>4, <3>5, <3>6, GoesOn
  <2>5. QED
    BY <2>3, <2>4
<1>5. QED
  BY <1>3, <1>4 DEF S!ScanGet

(* A process that only moves to another place, and its signal with it.     *)
LEMMA MovesTo ==
    ASSUME S!SignalsConstants, SInv, NEW p \in Resumes, proc[p].pc \in Located,
           proc[p].how # "id", NEW pc \in Located,
           S!Goto(p, [proc[p] EXCEPT !.pc = pc]),
           pc \in UnderLock => lock'[proc[p].id] = p,
           lock' \in [Ids -> Resumes \union {Nobody}],
           \A i \in Ids, q \in Resumes : q # p /\ lock[i] = q => lock'[i] = q,
           redis' \in [Ids -> Nat], \A i \in Ids : redis'[i] \in {redis[i], 0},
           UNCHANGED <<signals, desc, answers>>
    PROVE  SInv'
<1>1. PICK s \in Process : s = proc[p]
  BY ProcessIs
<1>2. [s EXCEPT !.pc = pc] \in Process
  BY DEF Process
<1>3. PICK r \in Process : r = [s EXCEPT !.pc = pc]
  BY <1>2
<1>4. r.how = s.how /\ r.pc = pc /\ r.taken = s.taken /\ r.id = s.id
  BY <1>3 DEF Process
<1>5. proc' = [proc EXCEPT ![p] = r] /\ wasted' = wasted
  BY <1>1, <1>3 DEF S!Goto
<1>6. desc' \in [Ids -> Descriptor] /\ r.taken <= Len(signals) /\ r.id \in Ids
  BY <1>1, <1>4, ProcessIs
<1>7. QED
  BY <1>1, <1>4, <1>5, <1>6, GoesOn

(* The DEL of a scan.                                                      *)
LEMMA ScanDelKeeps ==
    ASSUME S!SignalsConstants, SInv, NEW p \in Resumes, S!ScanDel(p)
    PROVE  SInv'
<1>1. /\ proc[p].pc = "scanned" /\ proc[p].pc \in Located /\ proc[p].pc \notin UnderLock
      /\ proc[p].how # "id" /\ S!Waste(p) = {}
  BY NotInHand, NothingInHand DEF S!ScanDel, Located, UnderLock
<1>2. redis' \in [Ids -> Nat] /\ \A i \in Ids : redis'[i] \in {redis[i], 0}
  BY ProcessIs DEF S!ScanDel
<1>3. lock' \in [Ids -> Resumes \union {Nobody}] /\ desc' \in [Ids -> Descriptor]
      /\ UNCHANGED <<signals, desc, lock, answers>>
  BY ProcessIs DEF S!ScanDel
<1>4. CASE S!Leave(p)
  BY <1>1, <1>2, <1>3, <1>4, LeaveGoesOn
<1>5. CASE S!Goto(p, [proc[p] EXCEPT !.pc = "lock"])
  <2>1. "lock" \in Located /\ "lock" \notin UnderLock
    BY DEF Located, UnderLock
  <2>2. QED
    BY <1>1, <1>2, <1>3, <1>5, <2>1, MovesTo
<1>6. QED
  BY <1>4, <1>5 DEF S!ScanDel

(* Taking the lock.                                                        *)
LEMMA LockKeeps ==
    ASSUME S!SignalsConstants, SInv, NEW p \in Resumes, S!Lock(p)
    PROVE  SInv'
<1>1. /\ proc[p].pc = "lock" /\ proc[p].pc \in Located /\ proc[p].pc \notin UnderLock
      /\ proc[p].how # "id" /\ S!Waste(p) = {}
  BY NotInHand, NothingInHand DEF S!Lock, Located, UnderLock
<1>2. /\ redis' \in [Ids -> Nat] /\ \A i \in Ids : redis'[i] \in {redis[i], 0}
      /\ desc' \in [Ids -> Descriptor] /\ UNCHANGED <<redis, signals, desc, answers>>
      /\ Nobody \notin Resumes /\ proc[p].id \in Ids
      /\ lock \in [Ids -> Resumes \union {Nobody}]
  BY <1>1, ProcessIs DEF S!Lock
<1>3. CASE lock[proc[p].id] # Nobody
  <2>1. S!Leave(p) /\ UNCHANGED lock
    BY <1>3 DEF S!Lock
  <2>2. QED
    BY <1>1, <1>2, <2>1, LeaveGoesOn
<1>4. CASE lock[proc[p].id] = Nobody
  <2>1. /\ S!Goto(p, [proc[p] EXCEPT !.pc = "check"])
        /\ lock' = [lock EXCEPT ![proc[p].id] = p]
    BY <1>4 DEF S!Lock
  <2>2. lock' \in [Ids -> Resumes \union {Nobody}] /\ lock'[proc[p].id] = p
    BY <1>2, <2>1
  <2>3. \A i \in Ids, q \in Resumes : q # p /\ lock[i] = q => lock'[i] = q
    BY <1>2, <1>4, <2>1
  <2>4. "check" \in Located
    BY DEF Located
  <2>5. QED
    BY <1>1, <1>2, <2>1, <2>2, <2>3, <2>4, MovesTo
<1>5. QED
  BY <1>3, <1>4

(* The gates and the checkpoint send it away.                              *)
LEMMA RefusedKeeps ==
    ASSUME S!SignalsConstants, SInv, NEW p \in Resumes, S!Refused(p)
    PROVE  SInv'
<1>1. /\ proc[p].pc = "check" /\ proc[p].pc \in UnderLock /\ S!Waste(p) = {}
      /\ S!Exit(p) /\ UNCHANGED <<redis, signals, desc, answers>>
  BY NotInHand, NothingInHand DEF S!Refused, UnderLock
<1>2. desc' \in [Ids -> Descriptor]
  BY <1>1, ProcessIs
<1>3. QED
  BY <1>1, <1>2, ExitGoesOn

(* At the check under the lock nothing has been taken there.               *)
LEMMA AtTheCheck ==
    ASSUME S!SignalsConstants, SInv, NEW p \in Resumes, proc[p].pc = "check"
    PROVE  /\ proc[p].pc \in UnderLock /\ proc[p].pc \in Located /\ proc[p].id \in Ids
           /\ S!Waste(p) = {} /\ S!Answer(p) = {}
           /\ desc \in [Ids -> Descriptor]
           /\ [desc EXCEPT ![proc[p].id] = S!Pause(0)] \in [Ids -> Descriptor]
<1>1. /\ proc[p].pc \in UnderLock /\ proc[p].pc \in Located
      /\ proc[p].pc \notin {"read", "bind"}
  BY DEF UnderLock, Located
<1>2. proc[p].id \in Ids /\ desc \in [Ids -> Descriptor]
  BY <1>1, ProcessIs
<1>3. S!Waste(p) = {} /\ S!Answer(p) = {}
  BY <1>1, NotInHand, NothingInHand
<1>4. 0 \in 0..MaxPauses
  BY DEF S!SignalsConstants
<1>5. QED
  BY <1>1, <1>2, <1>3, <1>4, NoDescriptor

(* An expired wait is over, or is left alone.                              *)
LEMMA ExpiredKeeps ==
    ASSUME S!SignalsConstants, SInv, NEW p \in Resumes, S!Expired(p)
    PROVE  SInv'
<1>1. proc[p].pc = "check" /\ UNCHANGED <<redis, signals, answers>>
  BY DEF S!Expired, S!Waiting
<1>2. /\ proc[p].pc \in UnderLock /\ S!Waste(p) = {} /\ desc \in [Ids -> Descriptor]
      /\ [desc EXCEPT ![proc[p].id] = S!Pause(0)] \in [Ids -> Descriptor]
  BY <1>1, AtTheCheck
<1>3. CASE S!Exit(p) /\ desc' = [desc EXCEPT ![proc[p].id] = S!Pause(0)]
  BY <1>1, <1>2, <1>3, ExitGoesOn
<1>4. CASE S!Complete(p) /\ wasted' = wasted \union S!Waste(p)
  <2>1. proc' = S!GoOn(p) /\ S!Unlock(p) /\ desc' \in [Ids -> Descriptor] /\ wasted' = wasted
    BY <1>2, <1>4 DEF S!Complete
  <2>2. QED
    BY <1>1, <1>2, <2>1, GoOnGoesOn
<1>5. CASE S!Exit(p) /\ UNCHANGED desc
  BY <1>1, <1>2, <1>5, ExitGoesOn
<1>6. QED
  BY <1>3, <1>4, <1>5 DEF S!Expired

(* Values of the command leave the signals as they are.                    *)
LEMMA OwnValuesKeeps ==
    ASSUME S!SignalsConstants, SInv, NEW p \in Resumes, S!OwnValues(p)
    PROVE  SInv'
<1>1. proc[p].pc = "check" /\ UNCHANGED <<redis, signals, answers>>
  BY DEF S!OwnValues, S!Waiting
<1>2. /\ proc[p].pc \in UnderLock /\ S!Waste(p) = {}
      /\ [desc EXCEPT ![proc[p].id] = S!Pause(0)] \in [Ids -> Descriptor]
  BY <1>1, AtTheCheck
<1>3. proc' = S!GoOn(p) /\ S!Unlock(p) /\ desc' \in [Ids -> Descriptor] /\ wasted' = wasted
  BY <1>2 DEF S!OwnValues, S!Complete
<1>4. QED
  BY <1>1, <1>2, <1>3, GoOnGoesOn

(* A browser pause is resumed.                                             *)
LEMMA ReenterKeeps ==
    ASSUME S!SignalsConstants, SInv, NEW p \in Resumes, S!Reenter(p)
    PROVE  SInv'
<1>1. proc[p].pc = "check" /\ UNCHANGED <<redis, signals, desc>>
  BY DEF S!Reenter
<1>2. /\ proc[p].pc \in UnderLock /\ S!Waste(p) = {} /\ S!Answer(p) = {}
      /\ desc \in [Ids -> Descriptor]
  BY <1>1, AtTheCheck
<1>3. UNCHANGED <<answers, wasted>> /\ proc' = S!GoOn(p) /\ S!Unlock(p)
  BY <1>2 DEF S!Reenter
<1>4. QED
  BY <1>1, <1>2, <1>3, GoOnGoesOn

(* The rest of the workbook, which takes the lock for itself.              *)
LEMMA RerunKeeps ==
    ASSUME S!SignalsConstants, SInv, NEW p \in Resumes, S!Rerun(p)
    PROVE  SInv'
<1>1. /\ proc[p].pc = "rerun" /\ S!Leave(p) /\ UNCHANGED <<redis, signals, lock, answers>>
      /\ proc[p].pc \notin UnderLock /\ proc[p].pc \in Located /\ S!Waste(p) = {}
  BY NotInHand, NothingInHand DEF S!Rerun, UnderLock, Located
<1>2. redis' \in [Ids -> Nat] /\ \A i \in Ids : redis'[i] \in {redis[i], 0}
  BY <1>1, ProcessIs
<1>3. proc[p].id \in Ids /\ desc \in [Ids -> Descriptor] /\ proc[p] \in Process
  BY <1>1, ProcessIs
<1>4. MaxPauses \in Nat /\ 0 \in 0..MaxPauses
  BY DEF S!SignalsConstants
<1>5. desc' \in [Ids -> Descriptor]
  <2>1. CASE UNCHANGED desc
    BY <1>3, <2>1
  <2>2. CASE desc' = [desc EXCEPT ![proc[p].id] = S!Pause(0)]
    BY <1>3, <1>4, <2>2, NoDescriptor
  <2>3. CASE proc[p].pause < MaxPauses
             /\ desc' = [desc EXCEPT ![proc[p].id] = S!Pause(proc[p].pause + 1)]
    <3>1. proc[p].pause \in Nat
      BY <1>3 DEF Process
    <3>2. proc[p].pause + 1 \in 0..MaxPauses
      BY <1>4, <2>3, <3>1
    <3>3. QED
      BY <1>3, <2>3, <3>2, NoDescriptor
  <2>4. QED
    BY <2>1, <2>2, <2>3 DEF S!Rerun
<1>6. QED
  BY <1>1, <1>2, <1>5, LeaveGoesOn

(* A killed process: its locks go with it.                                 *)
LEMMA KilledKeeps ==
    ASSUME S!SignalsConstants, SInv, NEW p \in Resumes, S!Kill(p)
    PROVE  SInv'
<1>1. PICK r \in Process : r = S!Off
  BY OffIs
<1>2. /\ proc' = [proc EXCEPT ![p] = r] /\ wasted' = wasted
      /\ lock' = [i \in Ids |-> IF lock[i] = p THEN Nobody ELSE lock[i]]
      /\ UNCHANGED <<redis, signals, desc, answers>>
  BY <1>1 DEF S!Kill, S!Goto
<1>3. r.how # "id" /\ r.taken = 0 /\ r.pc \notin Located /\ r.pc \notin UnderLock
  BY <1>1, OffIs DEF Located, UnderLock
<1>4. /\ lock \in [Ids -> Resumes \union {Nobody}] /\ Len(signals) \in Nat
      /\ redis \in [Ids -> Nat] /\ desc \in [Ids -> Descriptor]
  BY ProcessIs
<1>5. lock' \in [Ids -> Resumes \union {Nobody}]
  BY <1>2, <1>4
<1>6. \A i \in Ids, q \in Resumes : q # p /\ lock[i] = q => lock'[i] = q
  BY <1>2
<1>7. r.taken <= Len(signals)
  BY <1>3, <1>4
<1>8. redis' \in [Ids -> Nat] /\ desc' \in [Ids -> Descriptor]
      /\ \A i \in Ids : redis'[i] \in {redis[i], 0}
  BY <1>2, <1>4
<1>9. QED
  BY <1>2, <1>3, <1>5, <1>6, <1>7, <1>8, GoesOn

(* The GET under the lock: what it reads is in nobody else's hand.         *)
LEMMA ReadGetKeeps ==
    ASSUME S!SignalsConstants, SInv, NEW p \in Resumes, S!ReadGet(p)
    PROVE  SInv'
<1>1. /\ proc[p].pc = "check" /\ proc[p].pc \notin {"read", "bind"}
      /\ UNCHANGED <<redis, signals, desc, lock, answers, wasted>>
  BY DEF S!ReadGet, S!Waiting, S!Read, S!Goto
<1>2. /\ proc[p].pc \in UnderLock /\ proc[p].pc \in Located /\ proc[p].id \in Ids
      /\ proc[p].how # "id" /\ lock[proc[p].id] = p
  BY <1>1, AtTheCheck, NotInHand DEF SInv, Holder
<1>3. /\ redis \in [Ids -> 0..Len(signals)] /\ redis \in [Ids -> Nat] /\ Len(signals) \in Nat
      /\ lock \in [Ids -> Resumes \union {Nobody}] /\ proc \in [Resumes -> Process]
  BY ProcessIs
<1>4. CASE proc[p].taken = 0 /\ redis[proc[p].id] # 0
  <2>1. PICK s \in Process : s = proc[p]
    BY <1>3
  <2>2. PICK n \in Nat : n = redis[s.id]
    BY <1>2, <1>3, <2>1
  <2>3. n # 0 /\ n \in 1..Len(signals)
    BY <1>2, <1>3, <1>4, <2>1, <2>2
  <2>4. [s EXCEPT !.pc = "read", !.taken = n, !.how = "id"] \in Process
    BY DEF Process, Located
  <2>5. PICK r \in Process : r = [s EXCEPT !.pc = "read", !.taken = n, !.how = "id"]
    BY <2>4
  <2>6. r.pc = "read" /\ r.taken = n /\ r.how = "id" /\ r.id = s.id
    BY <2>5 DEF Process
  <2>7. proc' = [proc EXCEPT ![p] = r]
    BY <1>4, <2>1, <2>2, <2>5 DEF S!ReadGet, S!Read, S!Goto
  <2>8. proc'[p] = r /\ \A q \in Resumes : q # p => proc'[q] = proc[q]
    BY <1>3, <2>7
  <2>9. SShaped'
    <3>1. proc' \in [Resumes -> Process]
      BY <1>3, <2>7
    <3>2. QED
      BY <1>1, <3>1 DEF SInv, SShaped
  <2>10. OneKey' /\ S!AnswersOnce' /\ wasted' = {}
    BY <1>1 DEF SInv, OneKey, S!AnswersOnce
  <2>11. \A i \in Ids : redis[i] = n => i = s.id
    BY <1>2, <2>1, <2>2, <2>3 DEF SInv, OneKey
  <2>12. \A a \in answers : a[1] # n
    BY <1>2, <2>1, <2>2 DEF SInv, OneKey
  <2>13. ASSUME NEW q \in Resumes PROVE Holder(q)'
    <3>1. CASE q = p
      <4>1. proc'[q] = r /\ r.taken # 0 /\ r.taken <= Len(signals) /\ r.id \in Ids
            /\ lock[r.id] = p
        BY <1>2, <2>1, <2>3, <2>6, <2>8, <3>1
      <4>2. QED
        BY <1>1, <2>6, <2>11, <2>12, <3>1, <4>1 DEF Holder, Located, UnderLock
    <3>2. CASE q # p
      BY <1>1, <2>8, <3>2 DEF SInv, Holder
    <3>3. QED
      BY <3>1, <3>2
  <2>14. ASSUME NEW q \in Resumes, q # p, proc[q].how = "id" PROVE proc[q].taken # n
    <3>1. SUFFICES ASSUME proc[q].taken = n PROVE FALSE
      OBVIOUS
    <3>2. s.id = proc[q].id /\ proc[q].pc = "read"
      BY <1>2, <2>1, <2>2, <2>14, <3>1 DEF SInv, Holder
    <3>3. lock[proc[q].id] = q
      BY <3>2 DEF SInv, Holder, UnderLock
    <3>4. QED
      BY <1>2, <2>1, <2>14, <3>2, <3>3
  <2>15. ASSUME NEW q \in Resumes, NEW u \in Resumes PROVE Apart(q, u)'
    <3>1. CASE q = p
      BY <2>6, <2>8, <2>14, <3>1 DEF Apart
    <3>2. CASE u = p
      BY <2>6, <2>8, <2>14, <3>2 DEF Apart
    <3>3. CASE q # p /\ u # p
      BY <2>8, <3>3 DEF SInv, Apart
    <3>4. QED
      BY <3>1, <3>2, <3>3
  <2>16. QED
    BY <2>9, <2>10, <2>13, <2>15 DEF SInv
<1>5. CASE ~(proc[p].taken = 0 /\ redis[proc[p].id] # 0)
  <2>1. S!Goto(p, [proc[p] EXCEPT !.pc = "bind"])
    BY <1>5 DEF S!ReadGet, S!Read
  <2>2. /\ "bind" \in Located /\ lock'[proc[p].id] = p
        /\ lock' \in [Ids -> Resumes \union {Nobody}]
        /\ \A i \in Ids, q \in Resumes : q # p /\ lock[i] = q => lock'[i] = q
        /\ redis' \in [Ids -> Nat] /\ \A i \in Ids : redis'[i] \in {redis[i], 0}
    BY <1>1, <1>2, <1>3 DEF Located
  <2>3. QED
    BY <1>1, <1>2, <2>1, <2>2, MovesTo
<1>6. QED
  BY <1>4, <1>5

(* The DEL under the lock: what was read is under no key any more.         *)
LEMMA ReadDelKeeps ==
    ASSUME S!SignalsConstants, SInv, NEW p \in Resumes, S!ReadDel(p)
    PROVE  SInv'
<1>1. proc[p].pc = "read" /\ UNCHANGED <<signals, desc, lock, answers, wasted>>
  BY DEF S!ReadDel, S!Goto
<1>2. /\ redis \in [Ids -> 0..Len(signals)] /\ Len(signals) \in Nat
      /\ proc \in [Resumes -> Process] /\ proc[p].id \in Ids
  BY <1>1, ProcessIs DEF Located
<1>3. PICK s \in Process : s = proc[p]
  BY <1>2
<1>4. [s EXCEPT !.pc = "bind"] \in Process
  BY DEF Process, Located
<1>5. PICK r \in Process : r = [s EXCEPT !.pc = "bind"]
  BY <1>4
<1>6. r.pc = "bind" /\ r.taken = s.taken /\ r.how = s.how /\ r.id = s.id
  BY <1>5 DEF Process
<1>7. proc' = [proc EXCEPT ![p] = r] /\ redis' = [redis EXCEPT ![s.id] = 0]
  BY <1>3, <1>5 DEF S!ReadDel, S!Goto
<1>8. proc'[p] = r /\ \A q \in Resumes : q # p => proc'[q] = proc[q]
  BY <1>2, <1>7
<1>9. \A i \in Ids : redis'[i] = (IF i = s.id THEN 0 ELSE redis[i])
  BY <1>2, <1>7
<1>10. SShaped'
  <2>1. proc' \in [Resumes -> Process]
    BY <1>2, <1>7
  <2>2. redis' \in [Ids -> 0..Len(signals)]
    <3>1. 0 \in 0..Len(signals)
      BY <1>2
    <3>2. redis' = [redis EXCEPT ![s.id] = 0]
      BY <1>7
    <3>3. QED
      BY <1>2, <3>1, <3>2
  <2>3. QED
    BY <1>1, <2>1, <2>2 DEF SInv, SShaped
<1>11. OneKey'
  <2>1. ASSUME NEW i \in Ids, NEW j \in Ids, redis'[i] = redis'[j], redis'[i] # 0
        PROVE  i = j
    BY <1>9, <2>1 DEF SInv, OneKey
  <2>2. ASSUME NEW a \in answers, NEW i \in Ids
        PROVE  a[1] \in 1..Len(signals) /\ redis'[i] # a[1]
    BY <1>9, <1>2 DEF SInv, OneKey
  <2>3. \A a \in answers : a[1] \in 1..Len(signals)
    BY DEF SInv, OneKey
  <2>4. QED
    BY <1>1, <2>1, <2>2, <2>3 DEF OneKey
<1>12. S!AnswersOnce' /\ wasted' = {}
  BY <1>1 DEF SInv, S!AnswersOnce
<1>13. ASSUME NEW q \in Resumes PROVE Holder(q)'
  <2>1. Holder(q) /\ Holder(p)
    BY DEF SInv
  <2>2. CASE q = p
    <3>1. /\ proc'[q] = r /\ r.taken <= Len(signals) /\ lock[r.id] = p /\ r.id \in Ids
          /\ r.pc = "bind"
      BY <1>1, <1>2, <1>3, <1>6, <1>8, <2>1, <2>2 DEF Holder, UnderLock
    <3>2. ASSUME r.how = "id"
          PROVE  /\ r.taken # 0 /\ \A i \in Ids : redis'[i] # r.taken
                 /\ \A a \in answers : a[1] # r.taken
      BY <1>3, <1>6, <1>9, <2>1, <3>2 DEF Holder
    <3>3. QED
      BY <1>1, <2>2, <3>1, <3>2 DEF Holder
  <2>3. CASE q # p
    <3>1. proc'[q] = proc[q]
      BY <1>8, <2>3
    <3>2. ASSUME NEW i \in Ids, proc[q].taken # 0, redis'[i] = proc[q].taken
          PROVE  redis[i] = proc[q].taken
      BY <1>9, <3>2
    <3>3. QED
      BY <1>1, <2>1, <3>1, <3>2 DEF Holder
  <2>4. QED
    BY <2>2, <2>3
<1>14. ASSUME NEW q \in Resumes, NEW u \in Resumes PROVE Apart(q, u)'
  BY <1>3, <1>6, <1>8 DEF SInv, Apart
<1>15. QED
  BY <1>10, <1>11, <1>12, <1>13, <1>14 DEF SInv

(* Values bound: the signal answers its pause, and no other before.        *)
LEMMA BindKeeps ==
    ASSUME S!SignalsConstants, SInv, NEW p \in Resumes, S!Bind(p)
    PROVE  SInv'
<1>1. proc[p].pc = "bind" /\ UNCHANGED <<redis, signals>>
      /\ proc[p].pc \in UnderLock /\ proc[p].pc \in Located
  BY DEF S!Bind, UnderLock, Located
<1>2. /\ redis \in [Ids -> 0..Len(signals)] /\ Len(signals) \in Nat
      /\ redis \in [Ids -> Nat] /\ lock \in [Ids -> Resumes \union {Nobody}]
      /\ proc \in [Resumes -> Process] /\ proc[p].id \in Ids /\ proc[p] \in Process
      /\ desc \in [Ids -> Descriptor] /\ proc[p].taken <= Len(signals)
      /\ Nobody \notin Resumes
  BY <1>1, ProcessIs
<1>3. CASE ~S!Satisfies(proc[p].taken)
  <2>1. S!Waste(p) = {}
    BY <1>3 DEF S!Waste
  <2>2. S!Exit(p) /\ UNCHANGED <<desc, answers>>
    BY <1>3 DEF S!Bind
  <2>3. QED
    BY <1>1, <1>2, <2>1, <2>2, ExitGoesOn
<1>4. CASE S!Satisfies(proc[p].taken)
  <2>1. S!Complete(p) /\ answers' = answers \union S!Answer(p) /\ UNCHANGED wasted
    BY <1>4 DEF S!Bind
  <2>2. proc' = S!GoOn(p) /\ S!Unlock(p) /\ desc' = [desc EXCEPT ![proc[p].id] = S!Pause(0)]
    BY <2>1 DEF S!Complete
  <2>3. desc' \in [Ids -> Descriptor]
    <3>1. 0 \in 0..MaxPauses
      BY DEF S!SignalsConstants
    <3>2. QED
      BY <1>2, <2>2, <3>1, NoDescriptor
  <2>4. CASE proc[p].how # "id"
    <3>1. UNCHANGED answers
      BY <2>1, <2>4, NothingInHand
    <3>2. QED
      BY <1>1, <2>1, <2>2, <2>3, <3>1, GoOnGoesOn
  <2>5. CASE proc[p].how = "id"
    <3>1. PICK r \in Process :
              /\ r.pc = "rerun" /\ r.taken = 0 /\ r.how = "" /\ r.id = proc[p].id
              /\ S!GoOn(p) = [proc EXCEPT ![p] = r]
      BY <1>1, AfterPause
    <3>2. proc'[p] = r /\ \A q \in Resumes : q # p => proc'[q] = proc[q]
      BY <1>2, <2>2, <3>1
    <3>3. lock' = [lock EXCEPT ![proc[p].id] = Nobody] /\ lock[proc[p].id] = p
      BY <1>1, <2>2 DEF S!Unlock, SInv, Holder
    <3>4. PICK n \in 1..Len(signals) : n = proc[p].taken
      <4>1. proc[p].taken \in Nat
        BY <1>2 DEF Process
      <4>2. QED
        BY <1>2, <2>5, <4>1 DEF SInv, Holder
    <3>5. PICK x : answers' = answers \union {x} /\ x[1] = n
      <4>1. S!Answer(p) = {<<n, proc[p].id, S!Desc(p).pause>>}
        BY <2>5, <3>4 DEF S!Answer
      <4>2. <<n, proc[p].id, S!Desc(p).pause>>[1] = n
        OBVIOUS
      <4>3. QED
        BY <2>1, <4>1, <4>2
    <3>6. /\ \A a \in answers : a[1] # n
          /\ \A i \in Ids : redis[i] # n
      BY <1>1, <2>5, <3>4 DEF SInv, Holder
    <3>7. SShaped'
      <4>1. proc' \in [Resumes -> Process]
        BY <1>2, <2>2, <3>1
      <4>2. lock' \in [Ids -> Resumes \union {Nobody}]
        BY <1>2, <3>3
      <4>3. QED
        BY <1>1, <2>3, <4>1, <4>2 DEF SInv, SShaped
    <3>8. OneKey'
      <4>1. \A a \in answers' : a[1] \in 1..Len(signals) /\ \A i \in Ids : redis[i] # a[1]
        BY <3>5, <3>6 DEF SInv, OneKey
      <4>2. QED
        BY <1>1, <4>1 DEF SInv, OneKey
    <3>9. S!AnswersOnce'
      <4>1. SUFFICES ASSUME NEW a \in answers', NEW b \in answers', a[1] = b[1] PROVE a = b
        BY DEF S!AnswersOnce
      <4>2. QED
        BY <3>5, <3>6, <4>1 DEF SInv, S!AnswersOnce
    <3>10. ASSUME NEW q \in Resumes PROVE Holder(q)'
      <4>1. CASE q = p
        <5>0. r.taken = 0 /\ r.id = proc[p].id
          BY <3>1
        <5>1. r.taken <= Len(signals) /\ r.id \in Ids
          BY <1>2, <5>0
        <5>2. proc'[q] = r /\ r.taken <= Len(signals)' /\ r.pc \notin UnderLock /\ r.how # "id"
          BY <1>1, <3>1, <3>2, <4>1, <5>1 DEF UnderLock
        <5>3. QED
          BY <5>1, <5>2 DEF Holder
      <4>2. CASE q # p
        <5>1. proc'[q] = proc[q] /\ Holder(q) /\ Apart(p, q)
          BY <3>2, <4>2 DEF SInv
        <5>2. proc[q].pc \in UnderLock => lock'[proc[q].id] = q
          <6>1. ASSUME proc[q].pc \in UnderLock PROVE lock'[proc[q].id] = q
            <7>1. proc[q].id \in Ids /\ lock[proc[q].id] = q
              BY <5>1, <6>1 DEF Holder, Located, UnderLock
            <7>2. QED
              BY <1>2, <3>3, <4>2, <7>1
          <6>2. QED
            BY <6>1
        <5>3. proc[q].how = "id" => \A a \in answers' : a[1] # proc[q].taken
          BY <2>5, <3>4, <3>5, <4>2, <5>1 DEF Holder, Apart
        <5>4. QED
          BY <1>1, <5>1, <5>2, <5>3 DEF Holder
      <4>3. QED
        BY <4>1, <4>2
    <3>11. ASSUME NEW q \in Resumes, NEW u \in Resumes PROVE Apart(q, u)'
      <4>1. r.how # "id"
        BY <3>1
      <4>2. QED
        BY <3>2, <4>1 DEF SInv, Apart
    <3>12. QED
      BY <2>1, <3>7, <3>8, <3>9, <3>10, <3>11 DEF SInv
  <2>6. QED
    BY <2>4, <2>5
<1>5. QED
  BY <1>3, <1>4

(* A signal is written, over the one that the key has.                     *)
LEMMA WriteKeeps ==
    ASSUME S!SignalsConstants, SInv, S!Write
    PROVE  SInv'
<1>1. PICK i \in Ids, k \in S!Kinds :
          signals' = Append(signals, k) /\ redis' = [redis EXCEPT ![i] = Len(signals) + 1]
  BY DEF S!Write
<1>2. /\ Len(signals) < MaxSignals /\ MaxSignals \in Nat
      /\ UNCHANGED <<desc, lock, proc, answers, wasted>>
  BY DEF S!Write, S!SignalsConstants
<1>3. /\ signals \in Seq(S!Kinds) /\ Len(signals) \in Nat /\ redis \in [Ids -> 0..Len(signals)]
      /\ proc \in [Resumes -> Process]
  BY DEF SInv, SShaped
<1>4. signals' \in Seq(S!Kinds) /\ Len(signals') = Len(signals) + 1
  BY <1>1, <1>3
<1>5. \A j \in Ids : redis'[j] = (IF j = i THEN Len(signals) + 1 ELSE redis[j])
  BY <1>1, <1>3
<1>6. SShaped'
  <2>1. redis' \in [Ids -> 0..Len(signals')]
    <3>1. redis \in [Ids -> 0..(Len(signals) + 1)] /\ Len(signals) + 1 \in 0..(Len(signals) + 1)
      BY <1>3
    <3>2. QED
      BY <1>1, <1>4, <3>1
  <2>2. Len(signals') <= MaxSignals
    BY <1>2, <1>3, <1>4
  <2>3. QED
    BY <1>2, <1>4, <2>1, <2>2 DEF SInv, SShaped
<1>7. OneKey'
  <2>1. ASSUME NEW j \in Ids PROVE redis[j] \in Nat /\ redis[j] <= Len(signals)
    BY <1>3
  <2>2. ASSUME NEW j \in Ids, NEW l \in Ids, redis'[j] = redis'[l], redis'[j] # 0
        PROVE  j = l
    BY <1>3, <1>5, <2>1, <2>2 DEF SInv, OneKey
  <2>3. ASSUME NEW a \in answers
        PROVE  a[1] \in 1..Len(signals') /\ \A j \in Ids : redis'[j] # a[1]
    BY <1>3, <1>4, <1>5 DEF SInv, OneKey
  <2>4. QED
    BY <1>2, <2>2, <2>3 DEF OneKey
<1>8. S!AnswersOnce' /\ wasted' = {}
  BY <1>2 DEF SInv, S!AnswersOnce
<1>9. ASSUME NEW q \in Resumes PROVE Holder(q)'
  <2>1. Holder(q) /\ proc[q].taken \in Nat /\ proc[q].taken <= Len(signals)
    BY <1>3 DEF SInv, Holder, Process
  <2>2. proc[q].taken <= Len(signals')
    BY <1>3, <1>4, <2>1
  <2>3. ASSUME NEW j \in Ids, redis'[j] = proc[q].taken PROVE redis[j] = proc[q].taken
    BY <1>3, <1>5, <2>1, <2>3
  <2>4. QED
    BY <1>2, <2>1, <2>2, <2>3 DEF Holder
<1>10. ASSUME NEW q \in Resumes, NEW u \in Resumes PROVE Apart(q, u)'
  BY <1>2 DEF SInv, Apart
<1>11. QED
  BY <1>6, <1>7, <1>8, <1>9, <1>10 DEF SInv

(* The time of a wait runs out.                                            *)
LEMMA ExpireKeeps ==
    ASSUME S!SignalsConstants, SInv, NEW i \in Ids, S!Expire(i)
    PROVE  SInv'
<1>1. PICK t \in S!OnTimeout :
          desc' = [desc EXCEPT ![i].expired = TRUE, ![i].onTimeout = t]
  BY DEF S!Expire
<1>2. UNCHANGED <<redis, signals, lock, proc, answers, wasted>>
  BY DEF S!Expire
<1>3. desc \in [Ids -> Descriptor]
  BY DEF SInv, SShaped
<1>4. desc' \in [Ids -> Descriptor]
  <2>1. PICK d \in Descriptor : d = desc[i]
    BY <1>3
  <2>2. [d EXCEPT !.expired = TRUE, !.onTimeout = t] \in Descriptor
    BY DEF Descriptor
  <2>3. desc' = [desc EXCEPT ![i] = [d EXCEPT !.expired = TRUE, !.onTimeout = t]]
    BY <1>1, <1>3, <2>1
  <2>4. QED
    BY <1>3, <2>2, <2>3
<1>5. SShaped' /\ OneKey' /\ S!AnswersOnce' /\ wasted' = {}
  BY <1>2, <1>4 DEF SInv, SShaped, OneKey, S!AnswersOnce
<1>6. ASSUME NEW q \in Resumes, NEW u \in Resumes PROVE Holder(q)' /\ Apart(q, u)'
  BY <1>2 DEF SInv, Holder, Apart
<1>7. QED
  BY <1>5, <1>6 DEF SInv

(* Every step of the signals, and those of the callbacks.                  *)
LEMMA StepSInv ==
    ASSUME S!SignalsConstants, SInv, [S!SignalsNext]_signalVars
    PROVE  SInv'
<1>1. CASE UNCHANGED signalVars
  <2>1. SShaped' /\ OneKey' /\ S!AnswersOnce' /\ wasted' = {}
    BY <1>1 DEF signalVars, SInv, SShaped, OneKey, S!AnswersOnce
  <2>2. ASSUME NEW q \in Resumes, NEW u \in Resumes PROVE Holder(q)' /\ Apart(q, u)'
    BY <1>1 DEF signalVars, SInv, Holder, Apart
  <2>3. QED
    BY <2>1, <2>2 DEF SInv
<1>2. CASE S!Write
  BY <1>2, WriteKeeps
<1>3. CASE \E i \in Ids : S!Expire(i)
  BY <1>3, ExpireKeeps
<1>4. ASSUME NEW p \in Resumes, S!BeginScan(p) \/ S!BeginWithId(p) \/ S!Kill(p)
      PROVE  SInv'
  BY <1>4, BeginKeeps, KilledKeeps
<1>5. ASSUME NEW p \in Resumes, S!Resume(p)
      PROVE  SInv'
  BY <1>5, ScanGetKeeps, ScanDelKeeps, LockKeeps, RefusedKeeps, ExpiredKeeps, OwnValuesKeeps,
     ReadGetKeeps, ReadDelKeeps, BindKeeps, ReenterKeeps, RerunKeeps DEF S!Resume
<1>6. QED
  BY <1>1, <1>2, <1>3, <1>4, <1>5 DEF S!SignalsNext

(* What the invariant says of the types.                                   *)
LEMMA BoundedSignals == S!SignalsConstants /\ SInv => S!SignalsTypeOK
<1>1. SUFFICES ASSUME S!SignalsConstants, SInv PROVE S!SignalsTypeOK
  OBVIOUS
<1>2. /\ signals \in Seq(S!Kinds) /\ Len(signals) <= MaxSignals /\ Len(signals) \in Nat
      /\ redis \in [Ids -> 0..Len(signals)] /\ MaxSignals \in Nat
      /\ desc \in [Ids -> Descriptor] /\ lock \in [Ids -> Resumes \union {Nobody}]
      /\ proc \in [Resumes -> Process]
  BY <1>1 DEF SInv, SShaped, S!SignalsConstants
<1>3. redis \in [Ids -> 0..MaxSignals]
  BY <1>2
<1>4. \A i \in Ids : desc[i].pause \in 0..MaxPauses
  BY <1>2 DEF Descriptor
<1>5. ASSUME NEW p \in Resumes PROVE proc[p].taken \in 0..Len(signals)
  <2>1. proc[p].taken \in Nat
    BY <1>2 DEF Process
  <2>2. proc[p].taken <= Len(signals)
    BY <1>1 DEF SInv, Holder
  <2>3. QED
    BY <1>2, <2>1, <2>2
<1>6. QED
  BY <1>2, <1>3, <1>4, <1>5 DEF S!SignalsTypeOK

-----------------------------------------------------------------------------
(* Both parts together.                                                    *)

(* The inductive invariant of both.                                        *)
QueueInv == DInv /\ BInv /\ SInv

(* Both parts begin in their initial states.                               *)
LEMMA InitQueueInv == MCInit => QueueInv
<1>1. SUFFICES ASSUME MCInit PROVE QueueInv
  OBVIOUS
<1>2. DeliveryConstants /\ S!SignalsConstants /\ DeliveryInit /\ S!SignalsInit
  BY <1>1, QueueAssumption DEF MCInit
<1>3. QED
  BY <1>2, InitDInv, InitBInv, InitSInv DEF QueueInv

(* A step of one part leaves the other where it is.                        *)
LEMMA StepQueueInv ==
    QueueInv /\ [MCNext]_<<scenario, deliveryVars, signalVars>> => QueueInv'
<1>1. SUFFICES ASSUME QueueInv, [MCNext]_<<scenario, deliveryVars, signalVars>>
               PROVE  QueueInv'
  OBVIOUS
<1>2. DeliveryConstants /\ S!SignalsConstants
  BY QueueAssumption
<1>3. [DeliveryNext]_deliveryVars /\ [S!SignalsNext]_signalVars
  BY <1>1 DEF MCNext
<1>4. DInv' /\ BInv'
  BY <1>1, <1>2, <1>3, StepDInv, StepBInv DEF QueueInv
<1>5. SInv'
  BY <1>1, <1>2, <1>3, StepSInv DEF QueueInv
<1>6. QED
  BY <1>4, <1>5 DEF QueueInv

(* The invariant of both parts holds in every state that is reached.       *)
LEMMA QueueInvariant == MCSpec => []QueueInv
<1>1. MCInit => QueueInv
  BY InitQueueInv
<1>2. QueueInv /\ [MCNext]_<<scenario, deliveryVars, signalVars>> => QueueInv'
  BY StepQueueInv
<1>3. QED
  BY <1>1, <1>2, PTL DEF MCSpec

(* What Numbered, Known and Lines say to a receiver.                       *)
LEMMA AsReceived == DInv => Received
<1>1. SUFFICES ASSUME DInv PROVE Received
  OBVIOUS
<1>2. RecordedAreOrdered
  <2>1. SUFFICES ASSUME transport.kind = "http", NEW i \in DOMAIN events, NEW j \in DOMAIN events,
                        i < j, SameRun(i, j), events[i].recorded
                 PROVE  events[i].seq < events[j].seq
    BY DEF RecordedAreOrdered
  <2>2. QED
    BY <1>1, <2>1 DEF DInv, Numbered
<1>3. AppliedOnce
  BY <1>1 DEF DInv, Known, AppliedOnce
<1>4. FileLosesKilled
  <2>1. file.garbled + Torn <= file.kills /\ file.garbled \in Nat /\ file.kills \in Nat
        /\ Torn \in {0, 1}
    BY <1>1 DEF DInv, Lines, Shaped, Torn
  <2>2. QED
    BY <2>1 DEF FileLosesKilled
<1>5. QED
  BY <1>2, <1>3, <1>4 DEF Received

(* Events that are on record when a later one is emitted are in the order  *)
(* of emission, across retries, kills and resumes; the receiver applies an *)
(* event once however often post_with_retry sends it; and a line of the    *)
(* events file is garbled only where a process was killed.                 *)
THEOREM CallbacksAreReceived == MCSpec => []Received
<1>1. QueueInv => Received
  BY AsReceived DEF QueueInv
<1>2. QED
  BY <1>1, QueueInvariant, PTL

(* A signal that a resume reads under the lock answers one pause, however  *)
(* the GET and the DEL of any number of resumes fall, and is not dropped   *)
(* when it could have answered.                                            *)
THEOREM SignalsAnswerOnce == MCSpec => []SpentOnItsPause
<1>1. QueueInv => SpentOnItsPause
  BY DEF QueueInv, SInv, SpentOnItsPause, S!WastesNoAnswer
<1>2. QED
  BY <1>1, QueueInvariant, PTL

(* The types, and the bounds: the groups of events that a session begins   *)
(* fit into what is left of the bound until they are emitted.              *)
THEOREM QueueTypes == MCSpec => []QueueTypeOK
<1>1. QueueInv => QueueTypeOK
  BY QueueAssumption, BoundedDelivery, BoundedSignals DEF QueueInv, QueueTypeOK
<1>2. QED
  BY <1>1, QueueInvariant, PTL
=============================================================================
