------------------------------- MODULE Sidecar -------------------------------
\* The browser sidecar: src/src/sidecar.rs, execute_browser_slice of
\* src/src/executor.rs, and what run_single of src/src/lib.rs does around it.
\*
\* wb keeps one sidecar process for all the slices of a session and talks to it
\* over two pipes, a line of JSON per message.  The sidecar drives a browser at a
\* vendor; that browser outlives both processes unless the sidecar closes it.  A
\* slice that pauses leaves the browser to a human: the sidecar is suspended, wb
\* exits, and a later session of wb reconnects with the state the sidecar sent.
\*
\* Commands and answers carry the number of the slice they are about, which the
\* protocol itself does not check.
EXTENDS Integers, Sequences, FiniteSets

CONSTANTS Slices,        \* number of browser slices in the workbook
          MaxSessions,   \* bound: starts of wb on it
          MaxEvents      \* bound: unread events in the pipe

SidecarAssumption ==
    Slices \in Nat \ {0} /\ MaxSessions \in Nat \ {0} /\ MaxEvents \in Nat \ {0}

VARIABLES
    wb,        \* the wb process, see Wb
    sidecar,   \* its sidecar process, see Process
    browser,   \* the browser at the vendor
    disk,      \* the checkpoint and the pending descriptor, see Disk
    restored   \* which slice's state was given to which, and disk.left then

vars == <<wb, sidecar, browser, disk, restored>>

Numbers == 1 .. Slices
Terminal == {"complete", "failed", "paused"}

\* `held` is Session.browser_sidecar, `restore` the slice whose state the next
\* live slice is given, `timedout` whether a slice of this sidecar went without an
\* answer, `code` the result of the current slice, `by` the slice whose answer
\* that is (0: wb's own), `then` what follows a drop of the sidecar.
Wb == [pc : {"off", "next", "hello", "write", "recv", "suspend", "pausing", "drop", "result"},
       slice : 1 .. Slices + 1, held : BOOLEAN, restore : 0 .. Slices, taken : BOOLEAN,
       timedout : BOOLEAN, code : {-1, 0, 1, 127}, by : 0 .. Slices,
       then : {"result", "pausing", "ok", "failed"},
       session : 0 .. MaxSessions, failed : BOOLEAN, bail : BOOLEAN, named : BOOLEAN,
       exit : {"none", "ok", "failed", "paused", "refused"}]

\* `left` is set when a slice is passed over or the operator navigates: from then
\* on the descriptor may be of another slice than the one that comes next.
Disk == [next : 1 .. Slices + 1, pending : 0 .. Slices, left : BOOLEAN]

Command == [type : {"hello", "slice", "suspend", "shutdown"}, of : 0 .. Slices]
Event == [type : {"ready", "note"} \cup Terminal, of : 0 .. Slices]
Process == [alive : BOOLEAN, running : 0 .. Slices, inbox : Seq(Command), outbox : Seq(Event)]

NoProcess == [alive |-> FALSE, running |-> 0, inbox |-> <<>>, outbox |-> <<>>]

Init ==
    /\ \E bail \in BOOLEAN, named \in BOOLEAN :
         wb = [pc |-> "off", slice |-> 1, held |-> FALSE, restore |-> 0, taken |-> FALSE,
               timedout |-> FALSE, code |-> 0, by |-> 0, then |-> "result", failed |-> FALSE,
               session |-> 0, bail |-> bail, named |-> named, exit |-> "none"]
    /\ sidecar = NoProcess /\ browser = "none"
    /\ disk = [next |-> 1, pending |-> 0, left |-> FALSE]
    /\ restored = {}

-----------------------------------------------------------------------------
\* A pipe to a process that is gone gives an error; the others queue.
Send(type, of) == [sidecar EXCEPT !.inbox = Append(@, [type |-> type, of |-> of])]

Result(code) == [wb EXCEPT !.pc = "result", !.code = code, !.by = 0]

\* Dropping a Sidecar: shutdown frame, then a bounded wait for the process.
Drop(w, then) ==
    /\ wb' = [w EXCEPT !.pc = "drop", !.then = then, !.held = FALSE]
    /\ sidecar' = IF sidecar.alive THEN Send("shutdown", 0) ELSE sidecar

Startable == wb.pc = "off" /\ wb.session < IF wb.named THEN MaxSessions ELSE 1

Started(slice, restore) ==
    [wb EXCEPT !.pc = "next", !.slice = slice, !.restore = restore, !.session = @ + 1,
               !.taken = FALSE, !.timedout = FALSE, !.failed = FALSE, !.exit = "none"]

\* wb run and wb resume: the finished slices are passed over, and the state in
\* the descriptor is kept for the first slice that runs.
Start ==
    /\ Startable
    /\ wb' = Started(disk.next, disk.pending)
    /\ UNCHANGED <<sidecar, browser, disk, restored>>

\* wb resume --rerun / --goto: starts at another slice, with a fresh browser page.
StartAt(n) ==
    /\ Startable /\ wb.exit = "paused"
    /\ wb' = Started(n, 0)
    /\ disk' = [disk EXCEPT !.next = n, !.left = TRUE]
    /\ UNCHANGED <<sidecar, browser, restored>>

Advance(d) == IF wb.named THEN [d EXCEPT !.next = wb.slice + 1] ELSE d

\* {when}, {no-run}, selection: the slice is recorded as skipped.
Skip ==
    /\ wb.pc = "next" /\ wb.slice \in Numbers
    /\ wb' = [wb EXCEPT !.slice = @ + 1]
    /\ disk' = [Advance(disk) EXCEPT !.left = TRUE]
    /\ UNCHANGED <<sidecar, browser, restored>>

Take == [wb EXCEPT !.restore = 0, !.taken = wb.restore # 0]

\* prepare_browser_spec refuses an artifact announcement, the vendors disagree, or
\* there is no binary to start: a failed slice without a sidecar.
Unprepared ==
    /\ wb.pc = "next" /\ wb.slice \in Numbers
    /\ \E code \in IF wb.held THEN {1} ELSE {1, 127} :
         wb' = [Take EXCEPT !.pc = "result", !.code = code, !.by = 0]
    /\ UNCHANGED <<sidecar, browser, disk, restored>>

Given == restored \cup IF wb.restore = 0 THEN {} 
    ELSE {[from |-> wb.restore, to |-> wb.slice, left |-> disk.left]}

\* The sidecar of an earlier slice is kept, whatever became of that slice.
Reuse ==
    /\ wb.pc = "next" /\ wb.slice \in Numbers /\ wb.held
    /\ wb' = [Take EXCEPT !.pc = "write"]
    /\ restored' = Given
    /\ UNCHANGED <<sidecar, browser, disk>>

Spawn ==
    /\ wb.pc = "next" /\ wb.slice \in Numbers /\ ~wb.held
    /\ wb' = [Take EXCEPT !.pc = "hello", !.timedout = FALSE]
    /\ restored' = Given
    /\ sidecar' = [NoProcess EXCEPT !.alive = TRUE, !.inbox = <<[type |-> "hello", of |-> 0]>>]
    /\ UNCHANGED <<browser, disk>>

\* handshake: anything but `ready` is read over.
HandshakeEvent ==
    /\ wb.pc = "hello" /\ sidecar.outbox # <<>>
    /\ sidecar' = [sidecar EXCEPT !.outbox = Tail(@)]
    /\ wb' = IF Head(sidecar.outbox).type = "ready"
               THEN [wb EXCEPT !.pc = "write", !.held = TRUE] ELSE wb
    /\ UNCHANGED <<browser, disk, restored>>

HandshakeFails ==
    /\ wb.pc = "hello" /\ sidecar.outbox = <<>>
    /\ Drop([wb EXCEPT !.code = 127, !.by = 0], "result")
    /\ UNCHANGED <<browser, disk, restored>>

\* run_slice.
WriteSlice ==
    /\ wb.pc = "write"
    /\ IF sidecar.alive
         THEN wb' = [wb EXCEPT !.pc = "recv"] /\ sidecar' = Send("slice", wb.slice)
         ELSE wb' = Result(1) /\ UNCHANGED sidecar
    /\ UNCHANGED <<browser, disk, restored>>

Outcome(type) == IF type = "failed" THEN 1 ELSE 0

\* MUTANT: any event ends the slice.
SliceEvent_AnyEvent ==
    LET event == Head(sidecar.outbox)
    IN /\ wb.pc = "recv" /\ sidecar.outbox # <<>>
       /\ sidecar' = [sidecar EXCEPT !.outbox = Tail(@)]
       /\ wb' = [wb EXCEPT !.pc = IF event.type = "paused" THEN "suspend" ELSE "result",
                           !.code = Outcome(event.type), !.by = event.of]
       /\ UNCHANGED <<browser, disk, restored>>

SliceEvent ==
    LET event == Head(sidecar.outbox)
    IN /\ wb.pc = "recv" /\ sidecar.outbox # <<>>
       /\ sidecar' = [sidecar EXCEPT !.outbox = Tail(@)]
       /\ wb' = CASE event.type = "paused" -> [wb EXCEPT !.pc = "suspend", !.code = 0, !.by = event.of]
                  [] event.type \in {"complete", "failed"} ->
                       [wb EXCEPT !.pc = "result", !.code = Outcome(event.type), !.by = event.of]
                  [] OTHER -> wb
       /\ UNCHANGED <<browser, disk, restored>>

\* Five minutes without an event, or the end of the pipe.
NoAnswer ==
    /\ wb.pc = "recv" /\ sidecar.outbox = <<>>
    /\ wb' = [Result(-1) EXCEPT !.timedout = TRUE]
    /\ UNCHANGED <<sidecar, browser, disk, restored>>

\* The slice paused: suspend_browser_sidecar takes the sidecar out of the session,
\* asks it to suspend and waits for it to exit.
Suspend ==
    /\ wb.pc = "suspend" /\ wb.held
    /\ wb' = [wb EXCEPT !.held = FALSE]
    /\ sidecar' = IF sidecar.alive THEN Send("suspend", 0) ELSE sidecar
    /\ UNCHANGED <<browser, disk, restored>>

Suspended ==
    /\ wb.pc = "suspend" /\ ~wb.held /\ ~sidecar.alive
    /\ wb' = [wb EXCEPT !.pc = "pausing"]
    /\ UNCHANGED <<sidecar, browser, disk, restored>>

\* It did not exit in time: the value is dropped like any other.
SuspendTimeout ==
    /\ wb.pc = "suspend" /\ ~wb.held /\ sidecar.alive
    /\ Drop(wb, "pausing")
    /\ UNCHANGED <<browser, disk, restored>>

\* pause_browser_slice: without --checkpoint, or with an action that points at no
\* step, the process ends without a trace of the pause.
PauseSlice ==
    /\ wb.pc = "pausing"
    /\ \/ /\ wb.named
          /\ wb' = [wb EXCEPT !.pc = "off", !.exit = "paused"]
          /\ disk' = [next |-> wb.slice, pending |-> wb.slice, left |-> FALSE]
       \/ /\ wb' = [wb EXCEPT !.pc = "off", !.exit = "refused"]
          /\ UNCHANGED disk
    /\ UNCHANGED <<sidecar, browser, restored>>

Exit == [wb EXCEPT !.pc = IF wb.then \in {"result", "pausing"} THEN wb.then ELSE "off",
                   !.exit = IF wb.then \in {"result", "pausing"} THEN "none" ELSE wb.then]

Dropped ==
    /\ wb.pc = "drop" /\ ~sidecar.alive
    /\ wb' = Exit
    /\ UNCHANGED <<sidecar, browser, disk, restored>>

\* The shutdown window is over: the process is killed, the browser stays.
DropKills ==
    /\ wb.pc = "drop" /\ sidecar.alive
    /\ wb' = Exit
    /\ sidecar' = [sidecar EXCEPT !.alive = FALSE, !.running = 0]
    /\ UNCHANGED <<browser, disk, restored>>

\* MUTANT: process::exit at once.
Leave_ExitOnly(w, status) ==
    wb' = [w EXCEPT !.pc = "off", !.held = FALSE, !.exit = status] /\ UNCHANGED sidecar

\* A session that holds no sidecar has nothing to drop.
Leave(w, status) ==
    IF w.held THEN Drop(w, status)
    ELSE wb' = [w EXCEPT !.pc = "off", !.exit = status] /\ UNCHANGED sidecar

\* The result of a slice: --bail ends the run before it is recorded; else it is
\* recorded, and the descriptor of a restored slice removed.
Bails == wb.bail /\ wb.code # 0

BailSlice ==
    /\ wb.pc = "result" /\ Bails
    /\ Leave([wb EXCEPT !.failed = TRUE], "failed")
    /\ UNCHANGED <<browser, disk, restored>>

\* MUTANT: the descriptor of the restored slice stays.
RecordSlice_KeepsDescriptor ==
    /\ wb.pc = "result" /\ ~Bails
    /\ wb' = [wb EXCEPT !.pc = "next", !.slice = @ + 1, !.failed = @ \/ wb.code # 0, !.taken = FALSE]
    /\ disk' = Advance(disk)
    /\ UNCHANGED <<sidecar, browser, restored>>

RecordSlice ==
    /\ wb.pc = "result" /\ ~Bails
    /\ wb' = [wb EXCEPT !.pc = "next", !.slice = @ + 1, !.failed = @ \/ wb.code # 0, !.taken = FALSE]
    /\ disk' = [Advance(disk) EXCEPT !.pending = IF wb.taken /\ wb.named THEN 0 ELSE @]
    /\ UNCHANGED <<sidecar, browser, restored>>

\* The end of the run: process::exit would skip the drop, so it comes first.
Finish ==
    /\ wb.pc = "next" /\ wb.slice \notin Numbers
    /\ Leave(wb, IF wb.failed THEN "failed" ELSE "ok")
    /\ UNCHANGED <<browser, disk, restored>>

Run == Skip \/ Unprepared \/ Reuse \/ Spawn \/ HandshakeEvent \/ HandshakeFails \/ WriteSlice
       \/ SliceEvent \/ NoAnswer \/ Suspend \/ Suspended \/ SuspendTimeout \/ PauseSlice
       \/ Dropped \/ DropKills \/ BailSlice \/ RecordSlice \/ Finish

-----------------------------------------------------------------------------
\* The sidecar process (external): it takes commands in order and answers every
\* slice once, in its own time; it may crash.

Emit(type, of) == Append(sidecar.outbox, [type |-> type, of |-> of])

Ready ==
    /\ sidecar.alive /\ sidecar.inbox # <<>> /\ Head(sidecar.inbox).type = "hello"
    /\ sidecar' = [sidecar EXCEPT !.inbox = Tail(@), !.outbox = Emit("ready", 0)]
    /\ UNCHANGED <<wb, browser, disk, restored>>

Work ==
    /\ sidecar.alive /\ sidecar.inbox # <<>> /\ Head(sidecar.inbox).type = "slice"
    /\ sidecar.running = 0
    /\ sidecar' = [sidecar EXCEPT !.inbox = Tail(@), !.running = Head(sidecar.inbox).of]
    /\ browser' = "open"
    /\ UNCHANGED <<wb, disk, restored>>

Note ==
    /\ sidecar.alive /\ sidecar.running # 0 /\ Len(sidecar.outbox) < MaxEvents
    /\ sidecar' = [sidecar EXCEPT !.outbox = Emit("note", sidecar.running)]
    /\ UNCHANGED <<wb, browser, disk, restored>>

Answer(type) ==
    /\ sidecar.alive /\ sidecar.running # 0
    /\ sidecar' = [sidecar EXCEPT !.outbox = Emit(type, sidecar.running), !.running = 0]
    /\ UNCHANGED <<wb, browser, disk, restored>>

\* suspend leaves the browser to whoever reconnects, shutdown closes it.
Stop ==
    /\ sidecar.alive /\ sidecar.inbox # <<>>
    /\ Head(sidecar.inbox).type \in {"suspend", "shutdown"}
    /\ sidecar' = [sidecar EXCEPT !.alive = FALSE, !.running = 0, !.inbox = <<>>]
    /\ browser' = IF Head(sidecar.inbox).type = "shutdown" /\ browser = "open" THEN "closed" ELSE browser
    /\ UNCHANGED <<wb, disk, restored>>

Crash ==
    /\ sidecar.alive
    /\ sidecar' = [sidecar EXCEPT !.alive = FALSE, !.running = 0, !.inbox = <<>>]
    /\ UNCHANGED <<wb, browser, disk, restored>>

Other == Ready \/ Work \/ Note \/ (\E type \in Terminal : Answer(type)) \/ Stop \/ Crash

Next == Start \/ (\E n \in Numbers : StartAt(n)) \/ Run \/ Other

\* wb goes on whenever it can, its clocks run.  Nothing is assumed of the sidecar.
Fairness == WF_vars(Run)

Spec == Init /\ [][Next]_vars /\ Fairness

-----------------------------------------------------------------------------
SidecarTypeOK ==
    /\ wb \in Wb /\ sidecar \in Process /\ disk \in Disk
    /\ browser \in {"none", "open", "closed"}
    /\ restored \subseteq [from : Numbers, to : Numbers, left : BOOLEAN]

\* The result of a slice is the answer to that slice: as long as every slice of
\* this sidecar was answered, no event of one is taken for another's, although
\* neither side numbers them.  (After a timeout the sidecar is kept, and a late
\* answer does become the result of the next slice.)
OwnAnswer == (wb.pc \in {"result", "suspend"} /\ ~wb.timedout) => wb.by \in {0, wb.slice}

\* However wb ends, and std::process::exit runs no destructor, it leaves no
\* sidecar process behind.
NoOrphan == wb.pc = "off" => ~sidecar.alive

\* The state of a paused slice is given to that slice, in whichever session it
\* runs again and however the sessions between ended, unless the operator
\* navigated or a slice was skipped since the pause.
RestoresPausedSlice == \A r \in restored : r.left \/ r.from = r.to

\* A browser that a paused run left to a human is still there.
PausedBrowserStays == wb.exit = "paused" => browser # "closed"

\* A run comes to its end whatever the sidecar does, unless it reports progress
\* for ever: the clocks are of silence.
RunsEnd == []<><<Note>>_vars \/ (wb.pc # "off" ~> wb.pc = "off")
=============================================================================
