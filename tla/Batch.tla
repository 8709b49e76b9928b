------------------------------- MODULE Batch -------------------------------
(***************************************************************************)
(* The commands that run workbooks to the end and give one verdict: wb run *)
(* on a folder, wb test and wb verify (src/src/lib.rs, src/src/assertion.rs).*)
(*                                                                         *)
(* All three hand each file to run_single_collect, which has no checkpoint *)
(* and answers with a summary; what goes wrong before the first block is a *)
(* summary with one stand-in result.  wb test and wb verify then walk the  *)
(* workbook again and pair each expect fence with the result that carries  *)
(* the number of the block before it.                                      *)
(***************************************************************************)
EXTENDS Integers, SequencesExt, FiniteSets

CONSTANTS
    Jobs,    \* the commands: what is run, over which workbooks, with --bail or not
    Words    \* what a block may print

\* Workbooks are in order, sections are in order, and so are the lines of a fence.
Ordered(s) == s \in Seq(ToSet(s))
BatchAssumption ==
    \A j \in Jobs :
        /\ Ordered(j.files)
        /\ \A f \in DOMAIN j.files :
              /\ Ordered(j.files[f].sections)
              /\ \A k \in DOMAIN j.files[f].sections : Ordered(j.files[f].sections[k].lines)

VARIABLES
    job,      \* the command under way
    file,     \* the number of the workbook at hand
    pc,       \* "open", "prepare", "walk", "judge", "done"
    at,       \* the section at hand
    results,  \* the results of this workbook so far
    reports,  \* one report for each workbook that is over
    happened, \* history: what became of each section of each workbook
    exit      \* the exit code

batchVars == <<job, file, pc, at, results, reports, happened, exit>>

Success == 0
BlockFailed == 1
Usage == 2
Invalid == 3
Running == -1

-----------------------------------------------------------------------------
(* A workbook: what goes wrong before its blocks, and its sections.  A     *)
(* block that has a condition may have one on an output of an earlier one. *)

Book == job.files[file]
Sections == Book.sections

\* Code, browser and wait sections take a number each, from 0.
Numbered(s) == s.kind \in {"code", "browser", "wait"}
Number(sections, k) == Cardinality({j \in 1..(k-1) : Numbered(sections[j])})

\* The results of a session: 0 or another exit code, and the words on the two streams.
Outcomes == [exit : {0, 1}, out : SUBSET Words, err : SUBSET Words]

\* A result as the summary has it; `of` (history) is the section it is of, 0 for a stand-in.
Result(number, outcome, of) == [number |-> number, outcome |-> outcome, of |-> of]
StandIn(code, err) == <<Result(0, [exit |-> code, out |-> {}, err |-> err], 0)>>

BatchInit ==
    /\ job \in Jobs
    /\ file = 1 /\ at = 1 /\ results = << >> /\ reports = << >>
    /\ pc = IF job.files = << >> THEN "done" ELSE "open"
    /\ exit = IF job.files # << >> THEN Running
              ELSE IF job.command = "test" THEN Usage ELSE Success
    /\ happened = [f \in DOMAIN job.files |-> [k \in DOMAIN job.files[f].sections |-> "not reached"]]

-----------------------------------------------------------------------------
(* Before the first block.                                                 *)

Judged(r) == pc' = "judge" /\ results' = r /\ UNCHANGED at
Reported(r) == reports' = Append(reports, r)

\* What stops wb test and wb verify before run_single_collect, which a folder run meets too,
\* or never looks at: it passes no parameters.
OpenError(book) == IF book.before = "read" \/ book.before = "params" THEN "error" ELSE "none"

NoChecks == [error |-> FALSE, passed |-> 0, failed |-> 0, checks |-> << >>]

\* The file is read.  Includes that do not resolve end the whole command.
Open ==
    /\ pc = "open" /\ file <= Len(job.files)
    /\ IF Book.before = "includes"
       THEN pc' = "done" /\ exit' = Invalid /\ UNCHANGED <<at, results, reports, file>>
       ELSE IF job.command # "folder" /\ OpenError(Book) = "error"
       THEN /\ Reported([NoChecks EXCEPT !.error = TRUE])
            /\ file' = file + 1 /\ UNCHANGED <<pc, at, results, exit>>
       ELSE IF Book.before = "read"
       THEN Judged(StandIn(1, Words)) /\ UNCHANGED <<reports, file, exit>>
       ELSE pc' = "prepare" /\ UNCHANGED <<at, results, reports, file, exit>>
    /\ UNCHANGED <<job, happened>>

\* A sandbox takes the whole workbook and leaves one result.
Contained ==
    /\ pc = "prepare" /\ Book.before \in {"sandbox", "image"}
    /\ IF Book.before = "image" THEN Judged(StandIn(1, Words)) /\ UNCHANGED happened
       ELSE \E code \in {0, 1} :
              /\ Judged(StandIn(code, {}))
              /\ happened' = [happened EXCEPT ![file] =
                                 [k \in DOMAIN Sections |-> IF code = 0 THEN "passed inside" ELSE "failed inside"]]
    /\ UNCHANGED <<job, file, reports, exit>>

\* An env file that is missing or a setup command that fails leaves one too; a secrets
\* provider that fails goes unnoticed.
Prepare ==
    /\ pc = "prepare" /\ Book.before \notin {"sandbox", "image"}
    /\ IF Book.before \in {"env-file", "setup"} THEN Judged(StandIn(1, Words))
       ELSE pc' = "walk" /\ at' = 1 /\ results' = << >>
    /\ UNCHANGED <<job, file, reports, happened, exit>>

-----------------------------------------------------------------------------
(* run_single_collect, section by section.                                 *)

Walking == pc = "walk" /\ at <= Len(Sections)
Here == Sections[at]

Passed(what) ==
    /\ happened' = [happened EXCEPT ![file][at] = what]
    /\ UNCHANGED <<job, file, reports, exit>>

\* The result of the section at hand, and on to the next, or out of the loop.
Answer(outcome) == results' = Append(results, Result(Number(Sections, at), outcome, at))
NextSection == at' = at + 1 /\ UNCHANGED pc
Break == pc' = "judge" /\ UNCHANGED at

\* Texts, expects and the marks of includes.
Pass ==
    /\ Walking /\ ~Numbered(Here)
    /\ NextSection /\ UNCHANGED results
    /\ Passed("passed over")

\* {no-run}, or a condition that does not hold: outputs are not exported to the session, so
\* one on an output never does.
Unmet(s) == s.norun \/ s.when \in {"never", "output"}

Skip ==
    /\ Walking /\ Here.kind \in {"code", "browser"} /\ Unmet(Here)
    /\ NextSection /\ UNCHANGED results
    /\ Passed("skipped")

\* The last attempt decides; an output that does not parse fails the block unless failures
\* are tolerated.
Captured(s, outcome) ==
    IF s.garbled /\ ~s.tolerant THEN [outcome EXCEPT !.exit = 1] ELSE outcome

RunCode ==
    /\ Walking /\ Here.kind = "code" /\ ~Unmet(Here)
    /\ \E outcome \in Outcomes :
          /\ Answer(Captured(Here, outcome))
          /\ Passed(IF Captured(Here, outcome).exit = 0 THEN "ok" ELSE "failed")
    /\ NextSection

\* A result made up by the loop: exit code 1 and a reason on stderr.
Failure == [exit |-> 1, out |-> {}, err |-> Words]

\* A slice whose verbs do not make sense fails; one that pauses ends the workbook.
BadSlice ==
    /\ Walking /\ Here.kind = "browser" /\ ~Unmet(Here) /\ Here.garbled
    /\ Answer(Failure)
    /\ NextSection
    /\ Passed("failed")

RunSlice ==
    /\ Walking /\ Here.kind = "browser" /\ ~Unmet(Here) /\ ~Here.garbled
    /\ \E outcome \in Outcomes :
          Answer(outcome) /\ Passed(IF outcome.exit = 0 THEN "ok" ELSE "failed")
    /\ NextSection

PauseSlice_Dropped ==
    /\ Walking /\ Here.kind = "browser" /\ ~Unmet(Here) /\ ~Here.garbled
    /\ Break /\ UNCHANGED results
    /\ Passed("paused")

PauseSlice ==
    /\ Walking /\ Here.kind = "browser" /\ ~Unmet(Here) /\ ~Here.garbled
    /\ \E out \in SUBSET Words : Answer([Failure EXCEPT !.out = out])
    /\ Break
    /\ Passed("paused")

Wait ==
    /\ Walking /\ Here.kind = "wait"
    /\ Answer(Failure)
    /\ Break
    /\ Passed("paused")

AtEnd ==
    /\ pc = "walk" /\ at > Len(Sections)
    /\ pc' = "judge"
    /\ UNCHANGED <<job, file, at, results, reports, happened, exit>>

-----------------------------------------------------------------------------
(* Assertions.                                                             *)

\* An assertion: about the exit code or a stream, its operator and its value.
Evaluate(a, outcome) ==
    LET stream == IF a.about = "stdout" THEN outcome.out ELSE outcome.err
    IN  CASE a.op = "exit" -> outcome.exit = a.value
          [] a.op = "exit !=" -> outcome.exit # a.value
          [] a.op = "contains" -> a.value \in stream
          [] a.op = "not-contains" -> a.value \notin stream
          [] a.op = "equals" -> stream = {a.value}
          [] a.op = "empty" -> stream = {}
          [] OTHER -> stream # {}

\* The lines of a fence are as parse leaves them: first those that are no assertion.
Malformed(a) == a.op = "malformed"

\* One line of a report: the verdict, the fence, and the section whose result was judged.
NoBlock == -1
Unread == -2
Check(ok, fence, of) == [ok |-> ok, fence |-> fence, of |-> of]

\* --bail: nothing after the first that fails, unless for want of a block.
Fails(check) == ~check.ok /\ check.of # NoBlock
UpToFailure(checks) ==
    LET failed == {i \in DOMAIN checks : Fails(checks[i])}
    IN  IF ~job.bail \/ failed = {} THEN checks
        ELSE SubSeq(checks, 1, CHOOSE i \in failed : \A j \in failed : i <= j)

\* The result of the block before a fence.
At(number) == {r \in ToSet(results) : r.number = number}

\* A line that is no assertion fails, and so does an assertion without a result to judge.
Against(fence, a, rs) ==
    IF Malformed(a) THEN Check(FALSE, fence, Unread)
    ELSE IF rs = {} THEN Check(FALSE, fence, NoBlock)
    ELSE LET judged == CHOOSE r \in rs : TRUE
         IN  Check(Evaluate(a, judged.outcome), fence, judged.of)

Fence_AllBlocks(sections, k) ==
    LET number == Cardinality({j \in 1..(k-1) : Numbered(sections[j]) /\ ~sections[j].norun}) - 1
    IN  [i \in DOMAIN sections[k].lines |-> Against(k, sections[k].lines[i], At(number))]

Fence(sections, k) ==
    LET number == Number(sections, k) - 1
    IN  [i \in DOMAIN sections[k].lines |-> Against(k, sections[k].lines[i], At(number))]

\* walk_expects, fence by fence.
Walk(walk, k) ==
    LET checks == UpToFailure(Fence(Sections, k))
    IN  IF walk.over \/ Sections[k].kind # "expect" THEN walk
        ELSE [checks |-> walk.checks \o checks,
              over |-> job.bail /\ \E i \in DOMAIN checks : Fails(checks[i])]

WalkExpects ==
    LET after[k \in 0..Len(Sections)] ==
          IF k = 0 THEN [checks |-> << >>, over |-> FALSE] ELSE Walk(after[k-1], k)
    IN  after[Len(Sections)].checks

Failing(checks) == Cardinality({i \in DOMAIN checks : ~checks[i].ok})
FailedBlocks == Cardinality({i \in DOMAIN results : results[i].outcome.exit # 0})

\* The report of a workbook: wb test counts assertions, a folder run blocks, wb verify both.
\* A sandbox that ends well passes all its blocks.
Report ==
    LET checks == IF job.command = "folder" THEN << >> ELSE WalkExpects
        failed == (IF job.command # "folder" THEN Failing(checks) ELSE 0)
                      + (IF job.command # "test" THEN FailedBlocks ELSE 0)
    IN  [error |-> FALSE, passed |-> Len(checks) - Failing(checks), failed |-> failed, checks |-> checks]

\* On to the next workbook; --bail ends a folder run at the first that failed.
Judge ==
    /\ pc = "judge"
    /\ Reported(Report)
    /\ file' = IF job.command = "folder" /\ job.bail /\ Report.failed > 0
               THEN Len(job.files) + 1 ELSE file + 1
    /\ pc' = "open" /\ at' = 1 /\ results' = << >>
    /\ UNCHANGED <<job, happened, exit>>

\* The totals over all workbooks.
Wrong == \E i \in DOMAIN reports : reports[i].error \/ reports[i].failed > 0
NothingPassed == \A i \in DOMAIN reports : reports[i].passed = 0

Finish ==
    /\ pc = "open" /\ file > Len(job.files)
    /\ exit' = IF Wrong THEN BlockFailed
               ELSE IF job.command = "test" /\ NothingPassed THEN Usage ELSE Success
    /\ pc' = "done"
    /\ UNCHANGED <<job, file, at, results, reports, happened>>

BatchNext ==
    \/ Open \/ Contained \/ Prepare \/ Pass \/ Skip \/ RunCode \/ BadSlice \/ RunSlice \/ PauseSlice
    \/ Wait \/ AtEnd \/ Judge \/ Finish

-----------------------------------------------------------------------------

BatchTypeOK ==
    /\ file \in 1..(Len(job.files) + 1) /\ exit \in Running..Invalid
    /\ pc \in {"open", "prepare", "walk", "judge", "done"}
    /\ \A i \in DOMAIN results : results[i].outcome \in Outcomes

\* An exit of 0 says that nothing was left out and nothing failed: every block of every
\* workbook was passed over, skipped or ended well, no pause was taken for an end, and
\* every fence that was reached holds.  (wb test looks at its fences only.)
VerdictHonest ==
    exit = Success =>
        /\ Len(reports) = Len(job.files)
        /\ \A f \in DOMAIN happened : \A k \in DOMAIN happened[f] :
              job.command # "test" =>
                 happened[f][k] \in {"passed over", "skipped", "ok", "passed inside"}
        /\ \A f \in DOMAIN reports : \A i \in DOMAIN reports[f].checks : reports[f].checks[i].ok

\* The block an expect fence is about: the last one before it.
Before(sections, k) ==
    LET blocks == {j \in 1..(k-1) : Numbered(sections[j])}
    IN  IF blocks = {} THEN 0 ELSE CHOOSE j \in blocks : \A i \in blocks : i <= j

\* An assertion is judged against the result of the block before it, whatever was skipped,
\* failed or passed over on the way; it fails for want of one only when that block left no
\* result of its own.  (A stand-in is taken for the first block.)
ExpectsItsBlock ==
    \A f \in DOMAIN reports : \A i \in DOMAIN reports[f].checks :
        LET c == reports[f].checks[i]
            block == Before(job.files[f].sections, c.fence)
        IN  IF c.of = Unread THEN ~c.ok
            ELSE IF c.of = NoBlock
            THEN ~c.ok /\ (block = 0 \/ happened[f][block] \notin {"ok", "failed", "paused"})
            ELSE c.of \in {0, block}

\* "evaluated at run time against the result of the immediately preceding executable
\* block" (assertion.rs:3-4): no assertion holds of a block that never ran.  (Not so: a
\* file that is not run gets a stand-in result; no run checks it.)
HoldsOfABlock ==
    \A f \in DOMAIN reports : \A i \in DOMAIN reports[f].checks :
        reports[f].checks[i].ok =>
            happened[f][Before(job.files[f].sections, reports[f].checks[i].fence)]
                \in {"ok", "failed", "paused", "passed inside", "failed inside"}
=============================================================================
