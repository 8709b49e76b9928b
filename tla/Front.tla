------------------------------- MODULE Front -------------------------------
(* What surrounds the run of a workbook, one part in each behaviour: the   *)
(* gates, the steps it consists of, its blocks with their outputs, repairs *)
(* and cache, a folder of workbooks, its artifacts, its container, and the *)
(* MCP server that starts it.  The parts share no state; all but Gates     *)
(* take their variables from x1, ..., x8.                                  *)
EXTENDS Gates

CONSTANTS StepInputs, Workbook, BlockFlags, BatchJobs, SandboxJobs, Messages,
          Word, None, RepairMax, MaxRuns, Words, NoName, Names, Steps, MaxSessions, MaxWrites, Dirs, Cwd,
          DockerContents, NoContent, Runs, MaxMessages, MaxOthers, MaxPauses

VARIABLES scenario, x1, x2, x3, x4, x5, x6, x7, x8

T == INSTANCE Validate WITH Files <- {"r", "l", "k"}, Root <- "r", Inputs <- StepInputs,
       input <- x1, text <- x2, ckpt <- x3, wb <- x4, edits <- x5, passed <- x6
B == INSTANCE Blocks WITH Flags <- BlockFlags, source <- x1, artifact <- x2, stored <- x3,
       saved <- x4, run <- x5, ran <- x6, succeeded <- x7, skipped <- x8
J == INSTANCE Batch WITH Jobs <- BatchJobs,
       job <- x1, file <- x2, pc <- x3, at <- x4, results <- x5, reports <- x6,
       happened <- x7, exit <- x8
A == INSTANCE Artifacts WITH files <- x1, labels <- x2, manifest <- x3, ses <- x4,
       stored <- x5, clock <- x6, lost <- x7
C == INSTANCE Sandbox WITH Jobs <- SandboxJobs, Contents <- DockerContents,
       dockerfile <- x1, images <- x2, envFiles <- x3, proc <- x4, edits <- x5
M == INSTANCE Mcp WITH input <- x1, read <- x2, closed <- x3, srv <- x4, out <- x5,
       store <- x6, book <- x7, others <- x8

ASSUME FrontAssumption ==
    T!StepsAssumption /\ J!BatchAssumption /\ B!BlocksAssumption /\ A!ArtifactsAssumption
      /\ C!SandboxAssumption /\ M!McpAssumption

xs == <<x1, x2, x3, x4, x5, x6, x7, x8>>

FrontInit ==
    /\ Init
    /\ \/ scenario = "gates" /\ x1 = 0 /\ x2 = 0 /\ x3 = 0 /\ x4 = 0
                             /\ x5 = 0 /\ x6 = 0 /\ x7 = 0 /\ x8 = 0
       \/ scenario = "steps" /\ T!StepsInit /\ x7 = 0 /\ x8 = 0
       \/ scenario = "blocks" /\ B!Init
       \/ scenario = "batch" /\ J!BatchInit
       \/ scenario = "artifacts" /\ A!ArtInit /\ x8 = 0
       \/ scenario = "sandbox" /\ C!SandboxInit /\ x6 = 0 /\ x7 = 0 /\ x8 = 0
       \/ scenario = "mcp" /\ M!McpInit

FrontNext ==
    \/ scenario = "gates" /\ Next /\ UNCHANGED <<scenario, xs>>
    \/ scenario = "steps" /\ T!StepsNext /\ UNCHANGED <<scenario, vars, x7, x8>>
    \/ scenario = "blocks" /\ B!Next /\ UNCHANGED <<scenario, vars>>
    \/ scenario = "batch" /\ J!BatchNext /\ UNCHANGED <<scenario, vars>>
    \/ scenario = "artifacts" /\ A!ArtNext /\ UNCHANGED <<scenario, vars, x8>>
    \/ scenario = "sandbox" /\ C!SandboxNext /\ UNCHANGED <<scenario, vars, x6, x7, x8>>
    \/ scenario = "mcp" /\ M!McpNext /\ UNCHANGED <<scenario, vars>>

FrontSpec == FrontInit /\ [][FrontNext]_<<scenario, vars, xs>>

\* Every variable keeps its type, whichever part is at work.
FrontTypeOK ==
    /\ TypeOK
    /\ scenario = "steps" => T!StepsTypeOK
    /\ scenario = "blocks" => B!TypeOK
    /\ scenario = "batch" => J!BatchTypeOK
    /\ scenario = "artifacts" => A!ArtTypeOK
    /\ scenario = "sandbox" => C!SandboxTypeOK
    /\ scenario = "mcp" => M!McpTypeOK

\* Each is the property of that name of the part's module.
IncludesResolve == scenario = "steps" => T!IncludesResolve
ResumesAtItsStep == scenario = "steps" => T!ResumesAtItsStep
PreviewAgrees == scenario = "steps" => T!PreviewAgrees
SkipsOnlyWhatRan == scenario = "blocks" => B!SkipsOnlyWhatRan
InputNotDenied == scenario = "blocks" => B!InputNotDenied
EnvFollowsCapture == scenario = "blocks" => B!EnvFollowsCapture
VerdictHonest == scenario = "batch" => J!VerdictHonest
ExpectsItsBlock == scenario = "batch" => J!ExpectsItsBlock

\* What wb validate accepts is not refused by wb run, and what it accepts with --strict is in force.
AcceptedRuns == scenario = "steps" => T!AcceptedRuns /\ T!StrictIsInForce

\* The MCP server answers in order, and a task's state is that of its run.
AnswersMatch == scenario = "mcp" => M!AnswersInOrder /\ M!TaskMatchesRun

\* The manifest lists what is there, the store has what is listed, and both name the step that
\* wrote it.
ArtifactsAreCurrent ==
    scenario = "artifacts" => A!ManifestIsCurrent /\ A!StoreIsCurrent /\ A!OwnStep

\* A workbook runs in an image of what it requires, and leaves no environment file.
ContainerAsRequired == scenario = "sandbox" => C!RunsRequired /\ C!EnvFileGone
=============================================================================
