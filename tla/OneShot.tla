------------------------------- MODULE OneShot -------------------------------
\* Blocks that run in a process of their own: execute_block_oneshot, execute_http
\* and execute_sql of src/src/executor.rs.
\*
\* wb hands the program over in one of three ways: through stdin, as an argument,
\* or (go) in a file of a fixed name.  It writes all of stdin before it starts to
\* read, then reads the two output pipes on two threads.  A pipe holds Capacity
\* chunks; who writes to a full one waits.  No timeout applies to these blocks.
EXTENDS Integers, FiniteSets

CONSTANTS Capacity,      \* chunks a pipe holds
          MaxScript,     \* bound: chunks of a program passed through stdin
          MaxOutput,     \* bound: chunks a block prints on each stream
          MaxBlocks      \* bound: blocks

OneShotAssumption ==
    Capacity \in Nat \ {0} /\ MaxScript \in Nat \ {0} /\ MaxOutput \in Nat /\ MaxBlocks \in Nat

Ways == {"stdin", "arg", "file", "http", "sql"}
Outputs == {"stdout", "stderr"}

VARIABLES
    block,    \* the block being executed, see Block
    pipe,     \* pipe[s]: chunks in the pipe s
    program,  \* the program: chunks read, output still to come, see Program
    kept,     \* kept[s]: chunks of output collected
    blocks    \* blocks so far

oneShotVars == <<block, pipe, program, kept, blocks>>

\* `unsent` are the chunks of stdin still to be written, `fits` whether all of it
\* fits into the pipe.
Block == [pc : {"idle", "resolve", "feed", "read", "done"},
          way : Ways, unsent : 0 .. MaxScript, fits : BOOLEAN,
          open : SUBSET Outputs, code : {-1, 0, 1, 2, 127}]

\* `unread` are the chunks of the program it has not read, `left` what it has yet
\* to print.
Program == [alive : BOOLEAN, unread : 0 .. MaxScript, left : [Outputs -> 0 .. MaxOutput],
            printed : [Outputs -> 0 .. MaxOutput], code : {-1, 0, 1}]

Nothing == [s \in Outputs |-> 0]

NoProgram == [alive |-> FALSE, unread |-> 0, left |-> Nothing, printed |-> Nothing, code |-> 0]

Init ==
    /\ block = [pc |-> "idle", way |-> "arg", unsent |-> 0, fits |-> TRUE, open |-> {}, code |-> 0]
    /\ pipe = [s \in Outputs \cup {"stdin"} |-> 0]
    /\ program = NoProgram
    /\ kept = Nothing /\ blocks = 0

-----------------------------------------------------------------------------
\* wb.

\* resolve_runtime: the language decides how the program is handed over.
Begin(way, size) ==
    /\ block.pc \in {"idle", "done"} /\ blocks < MaxBlocks
    /\ block' = [pc |-> "resolve", way |-> way, unsent |-> IF way = "stdin" THEN size ELSE 0,
                 fits |-> way # "stdin" \/ size <= Capacity, open |-> {}, code |-> 0]
    /\ blocks' = blocks + 1 /\ kept' = Nothing
    /\ pipe' = [s \in DOMAIN pipe |-> 0]
    /\ program' = NoProgram

\* An http block that is no request, a sql block without a connection or a query:
\* no process is started.
Invalid ==
    /\ block.pc = "resolve" /\ block.way \in {"http", "sql"}
    /\ block' = [block EXCEPT !.pc = "done", !.code = 2]
    /\ UNCHANGED <<pipe, program, kept, blocks>>

\* The command cannot be started: 127 for a language, the http and sql runtimes
\* have codes of their own.
Unlaunched == [stdin |-> 127, arg |-> 127, file |-> 127, http |-> 1, sql |-> 2]

NotFound ==
    /\ block.pc = "resolve"
    /\ block' = [block EXCEPT !.pc = "done", !.code = Unlaunched[block.way]]
    /\ UNCHANGED <<pipe, program, kept, blocks>>

\* What the program will print is up to it.
Launch ==
    /\ block.pc = "resolve"
    /\ block' = [block EXCEPT !.pc = "feed", !.open = {}]
    /\ \E left \in [Outputs -> 0 .. MaxOutput], code \in {-1, 0, 1} :
         program' = [alive |-> TRUE, unread |-> block.unsent, left |-> left,
                     printed |-> Nothing, code |-> code]
    /\ UNCHANGED <<pipe, kept, blocks>>

\* stdin.write_all: blocks while the pipe is full, an error ends it early.
Feed ==
    /\ block.pc = "feed" /\ block.unsent > 0
    /\ \/ /\ program.alive /\ pipe["stdin"] < Capacity
          /\ pipe' = [pipe EXCEPT !["stdin"] = @ + 1]
          /\ block' = [block EXCEPT !.unsent = @ - 1]
       \/ /\ ~program.alive
          /\ block' = [block EXCEPT !.unsent = 0]
          /\ UNCHANGED pipe
    /\ UNCHANGED <<program, kept, blocks>>

\* stdin is closed and the two reader threads start.
StartReaders ==
    /\ block.pc = "feed" /\ block.unsent = 0
    /\ block' = [block EXCEPT !.pc = "read", !.open = Outputs]
    /\ UNCHANGED <<pipe, program, kept, blocks>>

Collect(s) ==
    /\ block.pc = "read" /\ s \in block.open /\ pipe[s] > 0
    /\ pipe' = [pipe EXCEPT ![s] = @ - 1]
    /\ kept' = [kept EXCEPT ![s] = @ + 1]
    /\ UNCHANGED <<block, program, blocks>>

\* MUTANT: the process is waited for, not the readers.
EndOfStream_AtExit(s) ==
    /\ block.pc = "read" /\ s \in block.open /\ ~program.alive
    /\ block' = [block EXCEPT !.open = @ \ {s}]
    /\ UNCHANGED <<pipe, program, kept, blocks>>

EndOfStream(s) ==
    /\ block.pc = "read" /\ s \in block.open /\ pipe[s] = 0 /\ ~program.alive
    /\ block' = [block EXCEPT !.open = @ \ {s}]
    /\ UNCHANGED <<pipe, program, kept, blocks>>

\* Both threads joined, then the process is waited for.  An http block goes by the
\* status of the answer, which is not curl's exit code; psql or sqlite3 killed by
\* a signal count as 1.
ExitCode(way, code) == CASE way \in {"http", "sql"} /\ code = -1 -> 1 [] OTHER -> code

Join ==
    /\ block.pc = "read" /\ block.open = {} /\ ~program.alive
    /\ block' = [block EXCEPT !.pc = "done", !.code = ExitCode(block.way, program.code)]
    /\ UNCHANGED <<pipe, program, kept, blocks>>

-----------------------------------------------------------------------------
\* The program (external).

\* An interpreter that runs what it reads reads on when it likes.
Read ==
    /\ program.alive /\ pipe["stdin"] > 0
    /\ pipe' = [pipe EXCEPT !["stdin"] = @ - 1]
    /\ program' = [program EXCEPT !.unread = @ - 1]
    /\ UNCHANGED <<block, kept, blocks>>

PrintChunk(s) ==
    /\ program.alive /\ program.left[s] > 0 /\ pipe[s] < Capacity
    /\ pipe' = [pipe EXCEPT ![s] = @ + 1]
    /\ program' = [program EXCEPT !.left[s] = @ - 1, !.printed[s] = @ + 1]
    /\ UNCHANGED <<block, kept, blocks>>

Stop ==
    /\ program.alive /\ program.left = Nothing /\ program.unread = 0
    /\ program' = [program EXCEPT !.alive = FALSE]
    /\ UNCHANGED <<block, pipe, kept, blocks>>

Next ==
    \/ \E way \in Ways, size \in 1 .. MaxScript : Begin(way, size)
    \/ Invalid \/ NotFound \/ Launch \/ Feed \/ StartReaders \/ Join
    \/ \E s \in Outputs : Collect(s) \/ EndOfStream(s) \/ PrintChunk(s)
    \/ Read \/ Stop

\* Both sides go on whenever they can: the program does not loop or sleep for ever.
Fairness ==
    /\ WF_oneShotVars(NotFound \/ Launch) /\ WF_oneShotVars(Feed \/ StartReaders)
    /\ WF_oneShotVars(Join)
    /\ \A s \in Outputs : WF_oneShotVars(Collect(s)) /\ WF_oneShotVars(EndOfStream(s))
                          /\ WF_oneShotVars(PrintChunk(s))
    /\ WF_oneShotVars(Read) /\ WF_oneShotVars(Stop)

Spec == Init /\ [][Next]_oneShotVars /\ Fairness

-----------------------------------------------------------------------------
OneShotTypeOK ==
    /\ block \in Block /\ program \in Program
    /\ pipe \in [Outputs \cup {"stdin"} -> 0 .. Capacity]
    /\ kept \in [Outputs -> 0 .. MaxOutput] /\ blocks \in 0 .. MaxBlocks

\* A one-shot block ends when its program does, however it spreads its output over
\* the two streams and however full the pipes get: wb and the program never wait
\* for each other.  A program handed over through stdin must fit into that pipe,
\* for wb writes all of it before it reads.
OneShotEnds ==
    (block.pc \notin {"idle", "done"} /\ block.fits) ~> (block.pc = "done")

\* The result of a block holds everything its program printed, on both streams.
AllOutput == block.pc = "done" => kept = program.printed
=============================================================================
