------------------------------ MODULE Delivery ------------------------------
(***************************************************************************)
(* The lifecycle events of one checkpoint id on their way out              *)
(* (src/src/callback.rs, and the emission order of src/src/lib.rs).        *)
(*                                                                         *)
(* A session emits events one at a time, each appended to the --events     *)
(* file and then posted by a curl child that is tried up to three times,   *)
(* or added to a Redis stream once.  The number of an HTTP event, and the  *)
(* idempotency key made of it, are reserved once per event; the counter is *)
(* written into the checkpoint by the saves that follow a block and seeds  *)
(* the session that resumes.  The receiver (external) drops an event whose *)
(* key it has seen.  A session may be killed at any point.                 *)
(***************************************************************************)
EXTENDS Integers, Sequences, FiniteSets

CONSTANTS
    Captures,      \* the sizes a captured stream may have, Cap at least once
    MaxEvents,     \* bound: events of all sessions
    MaxSessions    \* bound: sessions of the checkpoint id

DeliveryConstants ==
    Captures \subseteq Nat /\ MaxEvents \in Nat /\ MaxSessions \in Nat \ {0}

VARIABLES
    transport,  \* "http" | "redis" | "none", and whether the sessions share a run id
    session,    \* the process: its number, counter, event under way and duties
    saved,      \* callback_seq of the checkpoint file
    events,     \* every event emitted, in order, with what became of it
    seen,       \* the keys the receiver has seen
    file        \* the --events file: is its last line unfinished, lines garbled, kills

deliveryVars == <<transport, session, saved, events, seen, file>>

\* Sizes are in units of MAX_OUTPUT_BYTES (64 KiB).  The payload is one argument
\* of curl (-d), and execve refuses an argument of 128 KiB or more.
Cap == 1
ArgLimit == 2
Attempts == 1..3

-----------------------------------------------------------------------------
(* What an event carries.                                                  *)

\* A capture longer than the cap loses its head: the tail is what is sent.
Truncated(n) == IF n <= Cap THEN n ELSE Cap

\* An event: its name and the size of the captured output in its payload.
Event(name, size) == [name |-> name, size |-> size]
StepComplete(out, err) == Event("step.complete", Truncated(out) + Truncated(err))
CheckpointFailed(err) == Event("checkpoint.failed", Truncated(err))
StepFinished == Event("step.finished", 0)
StepSkipped == Event("step.skipped", 0)
ArtifactSaved == Event("step.artifact_saved", 0)
WorkbookPaused == Event("workbook.paused", 0)
RunComplete == Event("run.complete", 0)

\* The envelope is never empty, so a payload of two full captures is too long.
FitsArgument(e) == e.size < ArgLimit

-----------------------------------------------------------------------------
(* The order in which a session emits and saves: a queue of duties.        *)

Send(e) == [do |-> "send", event |-> e]
Save(numbered) == [do |-> "save", numbered |-> numbered]
Exit == [do |-> "exit"]

\* A block that ran: its artifacts, its step.complete, then the save that records the
\* counter.  A failure under --bail is reported, the open frames closed, and the
\* session ends.
RanBlock(out, err, artifact) ==
    (IF artifact THEN <<Send(ArtifactSaved)>> ELSE << >>)
        \o <<Send(StepComplete(out, err)), Save(TRUE)>>
Bailed(err) ==
    <<Send(StepComplete(0, err)), Send(CheckpointFailed(err)), Send(StepFinished), Save(TRUE), Exit>>

\* A block that was skipped: the save after it leaves the counter of the file alone.
Skipped == <<Send(StepSkipped), Save(FALSE)>>

\* A pause saves first and reports afterwards.
Paused == <<Save(TRUE), Send(WorkbookPaused), Send(StepFinished), Exit>>

\* The end of the run: the last save does not take the counter either.
Finished == <<Save(FALSE), Send(RunComplete), Exit>>

Groups ==
    {RanBlock(o, e, a) : o \in Captures, e \in Captures, a \in BOOLEAN}
        \union {Bailed(e) : e \in Captures} \union {Skipped, Paused, Finished}

-----------------------------------------------------------------------------

Nothing == [event |-> 0, attempt |-> 0]
NoSession == [n |-> 0, seq |-> 0, duties |-> << >>, sending |-> Nothing, open |-> FALSE, done |-> FALSE]

RunId(shared, n) == IF shared THEN 0 ELSE n

\* The key hashes the event's name, the run id and the number.
Key(e) == <<e.name, RunId(transport.shared, e.session), e.seq>>

DeliveryInit ==
    /\ transport \in [kind : {"http", "redis", "none"}, shared : BOOLEAN]
    /\ session = NoSession
    /\ saved = 0
    /\ events = << >>
    /\ seen = {}
    /\ file = [unfinished |-> FALSE, garbled |-> 0, kills |-> 0]

Start_FromZero ==
    /\ ~session.open /\ ~session.done
    /\ session.n < MaxSessions
    /\ session' = [NoSession EXCEPT !.n = session.n + 1, !.open = TRUE]
    /\ UNCHANGED <<transport, saved, events, seen, file>>

\* wb run, or a later resume: the counter starts from the checkpoint's.
Start ==
    /\ ~session.open /\ ~session.done
    /\ session.n < MaxSessions
    /\ session' = [NoSession EXCEPT !.n = session.n + 1, !.open = TRUE, !.seq = saved]
    /\ UNCHANGED <<transport, saved, events, seen, file>>

Idle == session.open /\ session.sending = Nothing

\* The walk reaches its next item (RunLoop models which).
NextItem ==
    /\ Idle /\ session.duties = << >>
    /\ \E g \in Groups :
          /\ Len(events) + Cardinality({i \in DOMAIN g : g[i].do = "send"}) <= MaxEvents
          /\ session' = [session EXCEPT !.duties = g]
    /\ UNCHANGED <<transport, saved, events, seen, file>>

\* The number is reserved by an HTTP send only.
Reserved == IF transport.kind = "http" THEN session.seq + 1 ELSE session.seq

\* The event is named, numbered and its line begun; without an endpoint that is all.
Emit ==
    /\ Idle /\ session.duties # << >> /\ Head(session.duties).do = "send"
    /\ LET e == Head(session.duties).event
       IN  events' = Append(events,
               [name |-> e.name, fits |-> FitsArgument(e), session |-> session.n, seq |-> Reserved,
                recorded |-> FALSE, fate |-> "under way", applied |-> 0])
    /\ file' = [file EXCEPT !.unfinished = TRUE, !.garbled = @ + (IF file.unfinished THEN 1 ELSE 0)]
    /\ session' = [session EXCEPT !.seq = Reserved, !.duties = Tail(@),
                                  !.sending = [event |-> Len(events) + 1, attempt |-> 0]]
    /\ UNCHANGED <<transport, saved, seen>>

\* The end of its line in the events file: the line is not one write.
EndLine ==
    /\ session.open /\ session.sending # Nothing /\ session.sending.attempt = 0
    /\ file' = [file EXCEPT !.unfinished = FALSE]
    /\ IF transport.kind = "none"
       THEN /\ session' = [session EXCEPT !.sending = Nothing]
            /\ events' = [events EXCEPT ![session.sending.event].fate = "lost"]
       ELSE /\ session' = [session EXCEPT !.sending.attempt = 1]
            /\ UNCHANGED events
    /\ UNCHANGED <<transport, saved, seen>>

Posting == session.open /\ session.sending.attempt \in Attempts
Current == events[session.sending.event]

\* The events with the one under way applied by the receiver, if its key is new.
NewKey == transport.kind = "redis" \/ Key(Current) \notin seen
Apply == IF NewKey THEN [events EXCEPT ![session.sending.event].applied = @ + 1] ELSE events

\* The send is over.
Over(evs, fate) ==
    /\ session' = [session EXCEPT !.sending = Nothing]
    /\ events' = [evs EXCEPT ![session.sending.event].fate = fate]

\* 2xx, or the stream took the entry.
Accepted ==
    /\ Posting
    /\ transport.kind = "http" => Current.fits
    /\ seen' = seen \union {Key(Current)}
    /\ Over(Apply, "accepted")
    /\ UNCHANGED <<transport, saved, file>>

\* 4xx.
Refused ==
    /\ Posting /\ transport.kind = "http" /\ Current.fits
    /\ Over(events, "lost")
    /\ UNCHANGED <<transport, saved, seen, file>>

\* Mutant: an attempt more than there are delays for.
Retry_OnceMore(evs) ==
    IF transport.kind = "http" /\ session.sending.attempt \in Attempts
    THEN /\ session' = [session EXCEPT !.sending.attempt = @ + 1]
         /\ events' = evs
    ELSE Over(evs, "lost")

\* 5xx, no connection, a 3xx, a lost answer, or no curl: the next attempt, if any.  A
\* Redis entry is tried once.
Retry(evs) ==
    IF transport.kind = "http" /\ session.sending.attempt + 1 \in Attempts
    THEN /\ session' = [session EXCEPT !.sending.attempt = @ + 1]
         /\ events' = evs
    ELSE Over(evs, "lost")

Unanswered ==
    /\ Posting
    /\ Retry(events)
    /\ UNCHANGED <<transport, saved, seen, file>>

\* The receiver took it and the answer was lost on the way (Redis too).
AnswerLost ==
    /\ Posting
    /\ transport.kind = "http" => Current.fits
    /\ seen' = seen \union {Key(Current)}
    /\ Retry(Apply)
    /\ UNCHANGED <<transport, saved, file>>

\* A save: with the counter, the session's events so far are on record.
SaveCheckpoint ==
    /\ Idle /\ session.duties # << >> /\ Head(session.duties).do = "save"
    /\ session' = [session EXCEPT !.duties = Tail(@)]
    /\ IF Head(session.duties).numbered
       THEN /\ saved' = session.seq
            /\ events' = [i \in DOMAIN events |->
                             [events[i] EXCEPT !.recorded = @ \/ events[i].session = session.n]]
       ELSE UNCHANGED <<saved, events>>
    /\ UNCHANGED <<transport, seen, file>>

\* The process ends; after run.complete nothing resumes.
ExitNow ==
    /\ Idle /\ session.duties # << >> /\ Head(session.duties).do = "exit"
    /\ session' = [session EXCEPT !.open = FALSE, !.duties = << >>,
                                  !.done = events[Len(events)].name = "run.complete"]
    /\ UNCHANGED <<transport, saved, events, seen, file>>

\* Killed: the event under way is left where it is.
Kill ==
    /\ session.open
    /\ session' = [session EXCEPT !.open = FALSE, !.duties = << >>, !.sending = Nothing]
    /\ events' = IF session.sending = Nothing THEN events
                 ELSE [events EXCEPT ![session.sending.event].fate = "lost"]
    /\ file' = [file EXCEPT !.kills = @ + 1]
    /\ UNCHANGED <<transport, saved, seen>>

Step == Emit \/ EndLine \/ Accepted \/ Refused \/ Unanswered \/ AnswerLost \/ SaveCheckpoint \/ ExitNow
DeliveryNext == Start \/ NextItem \/ Step \/ Kill

\* A live process goes on; curl gives up after five seconds.
DeliveryFairness == WF_deliveryVars(Step)

-----------------------------------------------------------------------------

DeliveryTypeOK ==
    /\ session.n \in 0..MaxSessions /\ session.seq \in 0..MaxEvents
    /\ session.sending.attempt \in {0} \union Attempts
    /\ saved \in 0..MaxEvents /\ Len(events) <= MaxEvents
    /\ \A i \in DOMAIN events : events[i].fate \in {"under way", "accepted", "lost"}

SameRun(i, j) == transport.shared \/ events[i].session = events[j].session

\* Of two events of one run, the later has the higher number as soon as the earlier is on
\* record: what a receiver sorts by is the order of emission, across retries, kills and
\* resumes.  (Numbers that are not on record are the run RunLoop_sequence.)
RecordedAreOrdered ==
    transport.kind = "http" =>
        \A i, j \in DOMAIN events :
            i < j /\ SameRun(i, j) /\ events[i].recorded => events[i].seq < events[j].seq

\* The receiver applies an event once however often it is posted, and one it answered 2xx
\* unless it takes it for an event of an earlier session whose number was never on record.
Twin(i, j) ==
    Key(events[i]) = Key(events[j]) /\ events[i].session < events[j].session /\ ~events[i].recorded
AppliedOnce ==
    \A i \in DOMAIN events :
        /\ events[i].applied <= 1
        /\ events[i].fate = "accepted" /\ events[i].applied = 0
               => \E j \in DOMAIN events : Twin(j, i) /\ events[j].applied = 1

\* The events file garbles a line, with the one behind it, only where a process was killed.
FileLosesKilled == file.garbled <= file.kills

\* A send ends: three attempts at most, each bounded.
SendEnds ==
    [](session.sending # Nothing => <>(session.sending = Nothing))
=============================================================================
