------------------------------- MODULE Session -------------------------------
\* The interpreters of one wb process: src/src/executor.rs, and
\* execute_block_with_policy of src/src/lib.rs.
\*
\* wb keeps one child per language.  It writes the code of a block to the
\* child's stdin and reads the child's two pipes, first stdout and then stderr,
\* each up to a line that says the block is done.  A shell reads the lines that
\* print this sentinel from the same stdin as the code; the other interpreters
\* run a harness that prints it.  What a block's code may do on its way is up to
\* the block: print, return any code, end the interpreter, print a line that
\* looks like a sentinel, read the lines meant for the shell, leave a process
\* behind that prints later, close its stderr.
\*
\* Every attempt at a block, and every internal clean-up snippet, is a request
\* with a number of its own; lines and sentinels carry the number of the request
\* whose code wrote them, which wb does not see.
EXTENDS Integers, Sequences, FiniteSets

CONSTANTS Shells,        \* languages whose child is a plain shell
          Harnessed,     \* languages whose child runs one of wb's harnesses
          Retries,       \* BlockPolicy.retries of every block
          Tamperers,     \* bound: <<language, request>> that may tamper with its child
          MaxRequests,   \* bound: requests of the session
          MaxLines       \* bound: unread lines of output in a pipe

SessionAssumption ==
    /\ Shells \cap Harnessed = {} /\ Shells \cup Harnessed # {}
    /\ Tamperers \subseteq (Shells \cup Harnessed) \X (1 .. MaxRequests)
    /\ Retries \in Nat /\ MaxRequests \in Nat /\ MaxLines \in Nat \ {0}

Langs == Shells \cup Harnessed
Requests == 1 .. MaxRequests
Streams == {"out", "err"}

\* Exit codes that matter: success, failure, and the code wb itself uses for a
\* child that is gone, which python's sys.exit(-1) also produces.
Codes(l) == IF l \in Shells THEN {0, 1} ELSE {0, 1, -1}

VARIABLES
    processes,  \* the languages that have an entry in Session.processes
    env,        \* does ctx.env hold WB_REPLAY?
    replaying,  \* are the blocks of the replay prefix still being executed?
    cleaning,   \* languages unset_env_in_sessions still has to visit
    request,    \* number of the current or the last request
    call,       \* what execute_block is doing: see Call
    child,      \* child[l]: the interpreter of l, see Child
    misled      \* live requests whose code ran with WB_REPLAY set

vars == <<processes, env, replaying, cleaning, request, call, child, misled>>

-----------------------------------------------------------------------------
\* What travels through stdin: a block's code, wb's own clean-up snippet, and
\* for a shell the three lines that save $? and print it on both streams.
Item == [of : Requests, what : {"live", "replay", "unset", "rc", "out", "err"}]

\* A line on a pipe.  For a sentinel, `code` is the exit code printed and `of`
\* the request whose exit code that is.
Line == [of : Requests, done : BOOLEAN, code : {0, 1, -1}]

\* `strays` are the requests that left a process behind, `lost` the streams whose
\* lines no longer reach wb.  `rc` is the shell variable __wb_rc (of = 0: not set yet), `last` is $?.
Child == [open : BOOLEAN, marked : BOOLEAN, run : 0 .. MaxRequests,
          stdin : Seq(Item),
          last : [of : 0 .. MaxRequests, code : {0, 1, -1}],
          rc : [of : 0 .. MaxRequests, code : {0, 1, -1}],
          out : Seq(Line), err : Seq(Line),
          strays : SUBSET Requests, lost : SUBSET Streams, tainted : BOOLEAN]

\* `heard` are the requests whose lines were collected, `code` the exit code so
\* far, `partial` the streams that timed out, `armed` whether a timeout is set.
Call == [pc : {"idle", "ensure", "send", "out", "err", "finish"}, lang : Langs,
         kind : {"live", "replay", "unset"}, attempt : Nat, armed : BOOLEAN,
         heard : SUBSET Requests, code : [of : 0 .. MaxRequests, code : {0, 1, -1, 127}],
         partial : SUBSET Streams, sent : BOOLEAN]

Unset == [of |-> 0, code |-> 0]

Fresh(marked) ==
    [open |-> TRUE, marked |-> marked, run |-> 0, stdin |-> <<>>,
     last |-> Unset, rc |-> Unset,
     out |-> <<>>, err |-> <<>>, strays |-> {}, lost |-> {}, tainted |-> FALSE]

NoCall == [pc |-> "idle", lang |-> CHOOSE l \in Langs : TRUE, kind |-> "live",
           attempt |-> 0, armed |-> FALSE, heard |-> {},
           code |-> [of |-> 0, code |-> 0], partial |-> {}, sent |-> TRUE]

Init ==
    /\ processes = {} /\ cleaning = {} /\ misled = {} /\ request = 0
    /\ replaying \in BOOLEAN
    /\ env = replaying
    /\ call = NoCall
    /\ child = [l \in Langs |-> Fresh(FALSE)]

-----------------------------------------------------------------------------
\* wb: the calls of execute_block.

Start(l, kind, armed) ==
    /\ call.pc = "idle" /\ request < MaxRequests
    /\ request' = request + 1
    /\ call' = [NoCall EXCEPT !.pc = "ensure", !.lang = l, !.kind = kind, !.attempt = 1,
                              !.armed = armed]
    /\ UNCHANGED <<processes, env, replaying, child, misled>>

\* A replayed block: the timeout is whatever the session was left with.
ReplayBlock(l) ==
    replaying /\ Start(l, "replay", call.armed) /\ UNCHANGED cleaning

\* A live block: execute_block_with_policy arms the timeout of the block, if any.
RunBlock(l, armed) ==
    ~replaying /\ cleaning = {} /\ Start(l, "live", armed) /\ UNCHANGED cleaning

\* MUTANT: the running shells are cleaned, the other interpreters are not.
EndReplay_ShellsOnly ==
    /\ call.pc = "idle" /\ replaying
    /\ replaying' = FALSE /\ env' = FALSE
    /\ cleaning' = processes \cap Shells
    /\ UNCHANGED <<processes, request, call, child, misled>>

\* The first live block takes WB_REPLAY out of the session's environment, and
\* out of every interpreter that is already running.
EndReplay ==
    /\ call.pc = "idle" /\ replaying
    /\ replaying' = FALSE /\ env' = FALSE
    /\ cleaning' = processes
    /\ UNCHANGED <<processes, request, call, child, misled>>

UnsetEnv(l) ==
    /\ l \in cleaning
    /\ Start(l, "unset", call.armed)
    /\ cleaning' = cleaning \ {l}

\* The child of the language exists, or is spawned with the environment as it is
\* now, or cannot be.
Ensure ==
    /\ call.pc = "ensure"
    /\ \/ /\ call.lang \in processes
          /\ call' = [call EXCEPT !.pc = "send"]
          /\ UNCHANGED <<processes, child>>
       \/ /\ call.lang \notin processes
          /\ processes' = processes \cup {call.lang}
          /\ child' = [child EXCEPT ![call.lang] = Fresh(env)]
          /\ call' = [call EXCEPT !.pc = "send"]
       \/ /\ call.lang \notin processes
          /\ call' = [call EXCEPT !.pc = "finish", !.code = [of |-> 0, code |-> 127]]
          /\ UNCHANGED <<processes, child>>
    /\ UNCHANGED <<env, replaying, cleaning, request, misled>>

Protocol(l, kind, r) ==
    LET item(what) == [of |-> r, what |-> what]
    IN IF l \in Shells THEN <<item(kind), item("rc"), item("out"), item("err")>>
                       ELSE <<item(kind)>>

\* A child that is gone cannot be written to, unless a process it left behind
\* still holds its stdin.
SendCode ==
    LET l == call.lang
    IN /\ call.pc = "send"
       /\ \/ /\ child[l].open \/ child[l].strays # {}
             /\ child' = [child EXCEPT ![l].stdin = @ \o Protocol(l, call.kind, request)]
             /\ call' = [call EXCEPT !.pc = "out"]
          \/ /\ ~child[l].open
             /\ call' = [call EXCEPT !.pc = "finish", !.code = [of |-> 0, code |-> 1], !.sent = FALSE]
             /\ UNCHANGED child
       /\ UNCHANGED <<processes, env, replaying, cleaning, request, misled>>

\* collect_until_sentinel on stream s; stdout is read to its end before stderr.
After(s) == IF s = "out" THEN "err" ELSE "finish"

\* The exit code is stdout's: it has one in every case.
Settled(s, c) == IF s = "out" THEN c ELSE call.code

Receive(s) ==
    LET l == call.lang
        line == Head(child[l][s])
    IN /\ call.pc = s /\ child[l][s] # <<>>
       /\ child' = [child EXCEPT ![l][s] = Tail(@)]
       /\ call' = IF line.done
                    THEN [call EXCEPT !.pc = After(s),
                                      !.code = Settled(s, [of |-> line.of, code |-> line.code])]
                    ELSE [call EXCEPT !.heard = @ \cup {line.of}]
       /\ UNCHANGED <<processes, env, replaying, cleaning, request, misled>>

\* MUTANT: stderr is read without a timeout once stdout had its sentinel.
GiveUp_StdoutOnly(s) ==
    /\ call.pc = s /\ child[call.lang][s] = <<>>
    /\ (call.armed /\ s = "out") \/ call.partial # {}
    /\ call' = [call EXCEPT !.pc = After(s), !.partial = @ \cup {s},
                            !.code = Settled(s, [of |-> 0, code |-> -1])]
    /\ UNCHANGED <<processes, env, replaying, cleaning, request, child, misled>>

\* No line for as long as the timeout: the budget starts anew with every line,
\* and stderr gets one of its own (a short one when stdout already timed out).
GiveUp(s) ==
    /\ call.pc = s /\ child[call.lang][s] = <<>>
    /\ call.armed \/ call.partial # {}
    /\ call' = [call EXCEPT !.pc = After(s), !.partial = @ \cup {s},
                            !.code = Settled(s, [of |-> 0, code |-> -1])]
    /\ UNCHANGED <<processes, env, replaying, cleaning, request, child, misled>>

\* The reader thread has ended: nobody holds the other end of the pipe, or what
\* came through it was not UTF-8.
Disconnect(s) ==
    LET c == child[call.lang]
    IN /\ call.pc = s /\ c[s] = <<>>
       /\ s \in c.lost \/ (~c.open /\ c.strays = {})
       /\ call' = [call EXCEPT !.pc = After(s), !.code = Settled(s, [of |-> 0, code |-> -1])]
       /\ UNCHANGED <<processes, env, replaying, cleaning, request, child, misled>>

\* MUTANT: only the exit code is looked at.
Unusable_CodeOnly(c) == ~c.sent \/ c.code.code = -1

\* A child that is dead, or that timed out and may still be running, is killed.
Unusable(c) == ~c.sent \/ c.code.code = -1 \/ c.partial # {}

Kept(c) == IF Unusable(c) THEN processes \ {c.lang} ELSE processes

\* MUTANT: one attempt too many.
Again_OneTooMany == call.kind = "live" /\ call.code.code # 0 /\ call.attempt <= 1 + Retries

Again == call.kind = "live" /\ call.code.code # 0 /\ call.attempt < 1 + Retries

\* End of execute_block, and the retry loop of execute_block_with_policy.
Finish ==
    /\ call.pc = "finish"
    /\ processes' = Kept(call)
    /\ child' = [child EXCEPT ![call.lang] = IF call.lang \in processes' THEN @ ELSE Fresh(FALSE)]
    /\ IF Again /\ request < MaxRequests
         THEN /\ request' = request + 1
              /\ call' = [NoCall EXCEPT !.pc = "ensure", !.lang = call.lang, !.armed = call.armed,
                                        !.attempt = call.attempt + 1]
         ELSE /\ call' = [NoCall EXCEPT !.armed = call.armed] /\ UNCHANGED request
    /\ UNCHANGED <<env, replaying, cleaning, misled>>

WB == \/ \E l \in Langs : ReplayBlock(l) \/ UnsetEnv(l)
      \/ \E l \in Langs, armed \in BOOLEAN : RunBlock(l, armed)
      \/ EndReplay \/ Ensure \/ SendCode \/ Finish
      \/ \E s \in Streams : Receive(s) \/ GiveUp(s) \/ Disconnect(s)

-----------------------------------------------------------------------------
\* The children.  Those of `processes` only: a killed child writes to nobody.

Alive(l) == l \in processes /\ child[l].open

Wrote(c, s, line) == IF s \in c.lost THEN c ELSE [c EXCEPT ![s] = Append(@, line)]

\* The line that reports rc; a shell that has no __wb_rc yet prints none that
\* parse_sentinel accepts.
Sentinel(rc, r) == [of |-> IF rc.of = 0 THEN r ELSE rc.of, done |-> rc.of # 0, code |-> rc.code]

Room(l, s) == Len(SelectSeq(child[l][s], LAMBDA line : ~line.done)) < MaxLines

Step(l, c) ==
    /\ child' = [child EXCEPT ![l] = c]
    /\ UNCHANGED <<processes, env, replaying, cleaning, request, call>>

\* Between blocks: the next line of stdin.
Take(l) ==
    LET c == child[l]
        item == Head(c.stdin)
        rest == [c EXCEPT !.stdin = Tail(@)]
    IN /\ Alive(l) /\ c.run = 0 /\ c.stdin # <<>>
       /\ CASE item.what \in Streams -> Step(l, Wrote(rest, item.what, Sentinel(c.rc, item.of)))
            [] item.what = "rc" -> Step(l, [rest EXCEPT !.rc = c.last, !.last = Unset])
            [] OTHER -> Step(l, [rest EXCEPT !.run = item.of])
       /\ misled' = IF item.what = "live" /\ c.marked THEN misled \cup {item.of} ELSE misled

\* The kind of the request whose code is running.
Running(l) == child[l].run
IsCleanup(l) == call.kind = "unset" /\ child[l].run = request

PrintLine(l, s) ==
    /\ Alive(l) /\ Running(l) # 0 /\ ~IsCleanup(l) /\ Room(l, s)
    /\ Step(l, Wrote(child[l], s, [of |-> Running(l), done |-> FALSE, code |-> 0]))
    /\ UNCHANGED misled

\* The code of the block ends: $? is set; a harness reports it on both streams.
Return(l, code) ==
    LET r == Running(l)
        ended == [child[l] EXCEPT !.run = 0, !.marked = @ /\ ~IsCleanup(l)]
        rc == [of |-> r, code |-> code]
    IN /\ Alive(l) /\ r # 0 /\ (IsCleanup(l) => code = 0)
       /\ Step(l, IF l \in Shells THEN [ended EXCEPT !.last = rc]
                  ELSE Wrote(Wrote(ended, "out", Sentinel(rc, r)), "err", Sentinel(rc, r)))
       /\ UNCHANGED misled

\* The interpreter ends: exit in a shell, a crash, a kill from outside.
Quit(l) ==
    /\ Alive(l) /\ Step(l, [child[l] EXCEPT !.open = FALSE, !.run = 0]) /\ UNCHANGED misled

\* What no careful block does.  Bound: once per interpreter.
Tampering(l) ==
    Alive(l) /\ <<l, Running(l)>> \in Tamperers /\ ~IsCleanup(l) /\ ~child[l].tainted

\* The block reads stdin, which a shell shares with wb's protocol, or leaves a quote
\* open: some lines of the protocol, or all of them, are its own.
Steal(l) ==
    /\ Tampering(l)
    /\ \E n \in 1 .. Len(child[l].stdin) :
         Step(l, [child[l] EXCEPT !.stdin = SubSeq(@, n + 1, Len(@)), !.tainted = TRUE])
    /\ UNCHANGED misled

\* The block prints a line of its own that parse_sentinel accepts.
Forge(l) ==
    /\ Tampering(l) /\ Room(l, "out")
    /\ Step(l, [child[l] EXCEPT !.out = Append(@, [of |-> Running(l), done |-> TRUE, code |-> 0]),
                                !.tainted = TRUE])
    /\ UNCHANGED misled

\* The block leaves a process behind, which prints whenever it likes.
LeaveStray(l) ==
    /\ Tampering(l)
    /\ Step(l, [child[l] EXCEPT !.strays = @ \cup {Running(l)}, !.tainted = TRUE])
    /\ UNCHANGED misled

StrayPrint(l, s) ==
    /\ l \in processes /\ Room(l, s)
    /\ \E r \in child[l].strays :
         Step(l, Wrote(child[l], s, [of |-> r, done |-> FALSE, code |-> 0]))
    /\ UNCHANGED misled

\* No line of this stream reaches wb any more: the block pointed it elsewhere, or
\* printed bytes that are no text, at which the reader thread ends.
LoseStream(l, s) ==
    /\ Tampering(l)
    /\ Step(l, [child[l] EXCEPT !.lost = @ \cup {s}, !.tainted = TRUE])
    /\ UNCHANGED misled

Chatter(l) == \E s \in Streams : PrintLine(l, s) \/ StrayPrint(l, s)

Children ==
    \E l \in Langs :
        \/ Take(l) \/ Quit(l) \/ Steal(l) \/ LeaveStray(l) \/ Forge(l) \/ Chatter(l)
        \/ \E s \in Streams : LoseStream(l, s)
        \/ \E code \in Codes(l) : Return(l, code)

Next == WB \/ Children

\* wb goes on whenever it can; the clock of a timeout runs.  Nothing is assumed
\* of the interpreters.
Fairness == WF_vars(Ensure) /\ WF_vars(SendCode) /\ WF_vars(Finish)
            /\ \A s \in Streams : WF_vars(Receive(s)) /\ WF_vars(GiveUp(s)) /\ WF_vars(Disconnect(s))

Spec == Init /\ [][Next]_vars /\ Fairness

-----------------------------------------------------------------------------
SessionTypeOK ==
    /\ processes \subseteq Langs /\ cleaning \subseteq Langs
    /\ env \in BOOLEAN /\ replaying \in BOOLEAN
    /\ request \in 0 .. MaxRequests /\ misled \subseteq Requests
    /\ call \in [pc : {"idle", "ensure", "send", "out", "err", "finish"}, lang : Langs,
                 kind : {"live", "replay", "unset"}, attempt : 0 .. 1 + Retries,
                 armed : BOOLEAN, heard : SUBSET Requests,
                 code : [of : 0 .. MaxRequests, code : {0, 1, -1, 127}],
                 partial : SUBSET Streams, sent : BOOLEAN]
    /\ child \in [Langs -> Child]

\* A block is credited with its own output and its own success.  Unless the
\* interpreter was tampered with by the blocks it ran (its stdin read, a
\* sentinel forged, a process left behind, stderr redirected), the lines in a
\* BlockResult were printed by that attempt of that block, and exit code 0 is
\* the code its own source returned.  Late output of an attempt that timed out
\* must not reach the retry or the next block.
OwnResult ==
    (call.pc = "finish" /\ ~child[call.lang].tainted) =>
        /\ call.heard \subseteq {request}
        /\ call.code.code = 0 => call.code.of = request

\* No live block executes under WB_REPLAY=1: neither in an interpreter that the
\* replay started nor in one that is started later, however the blocks of the
\* replay ended.
NeverMisled == misled = {}

\* A block with a timeout comes to an end whatever its code does, unless
\* something goes on printing for ever: the timeout is one of silence.
ArmedBlocksEnd ==
    \/ []<><<\E l \in Langs : Chatter(l)>>_vars
    \/ (call.pc # "idle" /\ call.armed) ~> (call.pc = "idle")
=============================================================================
