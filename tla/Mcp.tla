-------------------------------- MODULE Mcp --------------------------------
(***************************************************************************)
(* wb mcp: a server on stdin and stdout that wraps the wb binary           *)
(* (src/src/mcp.rs).                                                       *)
(*                                                                         *)
(* One line is read, handled to the end and answered before the next is    *)
(* read.  Runs and resumes are child processes of wb; what becomes of them *)
(* is told by their exit code, and what a paused run waits for is read     *)
(* from the state files after the child has ended, which other wb          *)
(* processes share.                                                        *)
(***************************************************************************)
EXTENDS Integers, Sequences

CONSTANTS
    Messages,    \* what a client may send; a request has an id, here its place in the input
    Runs,        \* run ids, which are checkpoint ids
    MaxMessages, \* bound: lines sent
    MaxOthers,   \* bound: commands of others
    MaxPauses    \* bound: pauses of a run

\* A message that names no run has one too, which nobody looks at.
McpAssumption ==
    /\ Runs # {}
    /\ \A m \in Messages :
          m.run \in Runs /\ m.kind \in {"blank", "response", "garbage", "oversized", "call"}

VARIABLES
    input,   \* the lines sent, in order
    read,    \* how many of them the server has read
    closed,  \* the client has closed its end
    srv,     \* the server: what it is at
    out,     \* the responses
    store,   \* run -> its checkpoint and its descriptor
    book,    \* the workbook a client may author: absent, or who wrote it last
    others   \* history: commands of others so far, and the runs they touched since a tool was called

mcpVars == <<input, read, closed, srv, out, store, book, others>>

NoRun == [status |-> "none", pause |-> 0, desc |-> 0, saved |-> TRUE]
Listening == [pc |-> "read", run |-> CHOOSE r \in Runs : TRUE, code |-> -1]

Success == 0
Failed == 1
Usage == 2
Invalid == 3
Busy == 6
TimedOut == 7
Paused == 42
Killed == -1   \* the child has no exit code

McpInit ==
    /\ input = << >> /\ read = 0 /\ closed = FALSE /\ out = << >>
    /\ srv = Listening
    /\ store = [r \in Runs |-> NoRun]
    /\ book = "absent"
    /\ others = [count |-> 0, touched |-> {}]

-----------------------------------------------------------------------------
(* The client, and other wb processes.                                     *)

Send(m) ==
    /\ ~closed /\ Len(input) < MaxMessages
    /\ input' = Append(input, m)
    /\ UNCHANGED <<read, closed, srv, out, store, book, others>>

Close ==
    /\ ~closed /\ closed' = TRUE
    /\ UNCHANGED <<input, read, srv, out, store, book, others>>

\* What a run or a resume leaves behind, and its exit code.  A pause whose descriptor could
\* not be saved ends as a pause all the same.
Ends(r, code) ==
    CASE code = Success  -> store' = [store EXCEPT ![r] = [@ EXCEPT !.status = "complete", !.desc = 0]]
      [] code = Failed   -> store' = [store EXCEPT ![r] = [@ EXCEPT !.status = "failed", !.desc = 0]]
      [] code = TimedOut -> store' = [store EXCEPT ![r] = [@ EXCEPT !.status = "failed", !.desc = 0]]
      [] code = Paused   ->
            /\ store[r].pause < MaxPauses
            /\ \E saved \in BOOLEAN :
                  store' = [store EXCEPT ![r] = [status |-> "paused", pause |-> @.pause + 1,
                                                 desc |-> IF saved THEN @.pause + 1 ELSE @.desc,
                                                 saved |-> saved]]
      [] code = Killed   ->
            \E status \in {store[r].status, "in_progress"} : store' = [store EXCEPT ![r].status = status]
      [] OTHER -> UNCHANGED store

\* Another process resumes the run, or reaps or cancels its pause.
Other(r, code) ==
    /\ others.count < MaxOthers /\ store[r].status = "paused"
    /\ others' = [count |-> others.count + 1, touched |-> others.touched \union {r}]
    /\ Ends(r, code)
    /\ UNCHANGED <<input, read, closed, srv, out, book>>

OtherAuthors ==
    /\ others.count < MaxOthers /\ book = "absent"
    /\ others' = [others EXCEPT !.count = @ + 1] /\ book' = "theirs"
    /\ UNCHANGED <<input, read, closed, srv, out, store>>

-----------------------------------------------------------------------------
(* The loop.                                                               *)

\* A response: the number of the request, 0 for null, and what it says.
Answer(id, what) == out' = Append(out, [id |-> id, what |-> what])
Text(kind) == [kind |-> kind, status |-> "none", run |-> srv.run, desc |-> 0, store |-> NoRun,
               alone |-> FALSE]

Line == input[read]
\* Notifications carry no id.
IsRequest(m) == m.kind = "call" /\ m.request

Simple == {"initialize", "ping", "tools/list"}
Known == Simple \union {"tools/call", "notifications/initialized", "notifications/cancelled"}

\* One line: blank lines and responses are passed over, a line that does not parse and one
\* that is too long are answered with a null id, and the latter is the last.
ReadLine ==
    /\ srv.pc = "read" /\ read < Len(input)
    /\ read' = read + 1
    /\ LET m == input[read + 1] IN
       CASE m.kind \in {"blank", "response"} -> UNCHANGED <<out, srv>>
         [] m.kind = "garbage" -> Answer(0, Text("error")) /\ UNCHANGED srv
         [] m.kind = "oversized" -> Answer(0, Text("error")) /\ srv' = [srv EXCEPT !.pc = "done"]
         [] OTHER -> srv' = [srv EXCEPT !.pc = "dispatch"] /\ UNCHANGED out
    /\ UNCHANGED <<input, closed, store, book, others>>

EndOfInput ==
    /\ srv.pc = "read" /\ closed /\ read = Len(input)
    /\ srv' = [srv EXCEPT !.pc = "done"]
    /\ UNCHANGED <<input, read, closed, out, store, book, others>>

\* Without an id nothing is answered, and no tool is called.
Dispatch ==
    /\ srv.pc = "dispatch"
    /\ IF Line.method = "tools/call" /\ Line.request
       THEN srv' = [srv EXCEPT !.pc = "tool"] /\ UNCHANGED out
       ELSE /\ srv' = [srv EXCEPT !.pc = "read"]
            /\ IF ~Line.request \/ Line.method \in Known \ Simple THEN UNCHANGED out
               ELSE Answer(read, Text(IF Line.method \in Simple THEN "result" ELSE "error"))
    /\ UNCHANGED <<input, read, closed, store, book, others>>

-----------------------------------------------------------------------------
(* Tools.                                                                  *)

Tools == {"author_workbook", "run_workbook", "resume_workbook", "inspect_workbook",
          "validate_workbook", "list_pending", "get_run_events"}

Says(what) == Answer(read, what) /\ srv' = Listening
Refused == Says(Text("tool error"))

\* Arguments that are missing, and ids that cannot name a file, are refused by every tool; so
\* is a path to author that leads upward, out of the root, or to no workbook.
CallTool ==
    /\ srv.pc = "tool"
    /\ IF Line.bad \/ Line.tool \notin Tools
       THEN Refused /\ UNCHANGED others
       ELSE /\ srv' = [srv EXCEPT !.pc = Line.tool, !.run = Line.run]
            /\ others' = [others EXCEPT !.touched = {}]
            /\ UNCHANGED out
    /\ UNCHANGED <<input, read, closed, store, book>>

\* A path that is taken is refused unless it is to be overwritten; the write is a step of its
\* own, and replaces what is there by then.
AuthorPath ==
    /\ srv.pc = "author_workbook"
    /\ IF book # "absent" /\ ~Line.overwrite THEN Refused
       ELSE srv' = [srv EXCEPT !.pc = "write"] /\ UNCHANGED out
    /\ UNCHANGED <<input, read, closed, store, book, others>>

AuthorWrite ==
    /\ srv.pc = "write"
    /\ \/ book' = "ours" /\ Says(Text("result"))
       \/ Refused /\ UNCHANGED book
    /\ UNCHANGED <<input, read, closed, store, others>>

\* inspect, validate and pending are children that only read.  Only inspect refuses for what
\* its child ends with; each may fail to start one.
Inspect ==
    /\ srv.pc = "inspect_workbook" /\ (Refused \/ Says(Text("result")))
    /\ UNCHANGED <<input, read, closed, store, book, others>>
Validate ==
    /\ srv.pc = "validate_workbook" /\ (Refused \/ Says(Text("result")))
    /\ UNCHANGED <<input, read, closed, store, book, others>>
ListPending ==
    /\ srv.pc = "list_pending" /\ (Refused \/ Says(Text("result")))
    /\ UNCHANGED <<input, read, closed, store, book, others>>

\* The child of run_workbook runs a new workbook under the id, or the one that has it.
RunEnds(code) ==
    /\ srv.pc = "run_workbook"
    /\ Ends(srv.run, code)
    /\ srv' = [srv EXCEPT !.pc = "collect", !.code = code]
    /\ UNCHANGED <<input, read, closed, out, book, others>>

\* wb resume refuses a run that is not paused, and one that is busy.
ResumeEnds(code) ==
    /\ srv.pc = "resume_workbook"
    /\ store[srv.run].status # "paused" => code \in {Usage, Invalid, Busy}
    /\ Ends(srv.run, code)
    /\ srv' = [srv EXCEPT !.pc = "collect", !.code = code]
    /\ UNCHANGED <<input, read, closed, out, book, others>>

\* A signal goes to the child by its stdin; a child that is gone before it is written leaves
\* an error in place of its exit code.
BrokenPipe ==
    /\ srv.pc = "collect" /\ Line.tool = "resume_workbook" /\ Line.signal
    /\ srv.code \in {Usage, Invalid, Busy, Killed}
    /\ Says(Text("tool error"))
    /\ UNCHANGED <<input, read, closed, store, book, others>>

Status(code) ==
    CASE code = Success -> "completed" [] code = Paused -> "input_required"
      [] code = Failed -> "failed" [] code = TimedOut -> "timeout"
      [] code = Usage -> "usage_error" [] code = Invalid -> "invalid"
      [] code = Busy -> "busy" [] OTHER -> "error"

\* What the pause that is told of is: the descriptor found, of whichever pause; with it, as
\* history, the run as it is stored now, and whether no other process has touched it.
Elicitation(status, desc) ==
    [kind |-> "result", status |-> status, run |-> srv.run, desc |-> desc,
     store |-> store[srv.run], alone |-> srv.run \notin others.touched]

Collect_AnyPause ==
    /\ srv.pc = "collect"
    /\ IF store[srv.run].desc # 0 THEN srv' = [srv EXCEPT !.pc = "elicit"] /\ UNCHANGED out
       ELSE Says(Elicitation(Status(srv.code), 0))
    /\ UNCHANGED <<input, read, closed, store, book, others>>

\* run_result: after a pause the descriptor is loaded, in a step of its own.
Collect ==
    /\ srv.pc = "collect"
    /\ IF srv.code = Paused THEN srv' = [srv EXCEPT !.pc = "elicit"] /\ UNCHANGED out
       ELSE Says(Elicitation(Status(srv.code), 0))
    /\ UNCHANGED <<input, read, closed, store, book, others>>

Elicit ==
    /\ srv.pc = "elicit"
    /\ Says(Elicitation(Status(srv.code), store[srv.run].desc))
    /\ UNCHANGED <<input, read, closed, store, book, others>>

\* The end of the timeline of a run.
Label(status) ==
    CASE status = "complete" -> "completed" [] status = "failed" -> "failed"
      [] OTHER -> "working"

\* get_run_events: the checkpoint, and for one that is paused the descriptor after it.
Timeline ==
    /\ srv.pc = "get_run_events"
    /\ IF store[srv.run].status = "none" THEN Says(Text("tool error"))
       ELSE IF store[srv.run].status # "paused"
       THEN Says(Elicitation(Label(store[srv.run].status), 0))
       ELSE srv' = [srv EXCEPT !.pc = "timeline paused"] /\ UNCHANGED out
    /\ UNCHANGED <<input, read, closed, store, book, others>>

TimelinePaused ==
    /\ srv.pc = "timeline paused"
    /\ Says(Elicitation("input_required", store[srv.run].desc))
    /\ UNCHANGED <<input, read, closed, store, book, others>>

Codes == {Success, Failed, Usage, Invalid, Busy, TimedOut, Paused, Killed}

McpNext ==
    \/ \E m \in Messages : Send(m)
    \/ OtherAuthors \/ Close \/ ReadLine \/ EndOfInput \/ Dispatch \/ CallTool \/ BrokenPipe
    \/ AuthorPath \/ AuthorWrite \/ Inspect \/ Validate \/ ListPending
    \/ \E code \in Codes : RunEnds(code) \/ ResumeEnds(code) \/ (\E r \in Runs : Other(r, code))
    \/ Collect \/ Elicit \/ Timeline \/ TimelinePaused

-----------------------------------------------------------------------------

McpTypeOK ==
    /\ read \in 0..Len(input) /\ others.touched \subseteq Runs
    /\ \A r \in Runs : store[r].desc <= store[r].pause

\* The requests among the lines read, but for one at hand.
Due ==
    LET over == IF srv.pc \in {"read", "done"} THEN read ELSE read - 1
    IN  {i \in 1..over :
            IsRequest(input[i]) /\ input[i].method \notin Known \ (Simple \union {"tools/call"})}

\* Each of them is answered once, in the order they were sent, with whatever became of it,
\* and nothing else is.
AnswersInOrder ==
    /\ {out[i].id : i \in DOMAIN out} \ {0} = Due
    /\ \A i, j \in DOMAIN out :
          i < j /\ out[i].id # 0 /\ out[j].id # 0 => out[i].id < out[j].id

\* A task is reported as the run that is stored: a completed one is complete, one that waits
\* for input is paused, and what it waits for is told of no other, and is what its last pause
\* asks, unless another process touched the run meanwhile or the descriptor was not saved.
TaskMatchesRun ==
    \A i \in DOMAIN out :
        LET t == out[i].what IN
        /\ t.desc # 0 => t.status = "input_required"
        /\ t.alone =>
              /\ t.status = "completed" => t.store.status = "complete"
              /\ t.status = "input_required" =>
                    t.store.status = "paused" /\ (t.store.saved => t.desc = t.store.pause)
=============================================================================
