------------------------------ MODULE MCFront ------------------------------
(* The cases that the parts of Front are checked on.                       *)
EXTENDS Front, MCGates

CONSTANT w

\* The values of the constants that are sets of cases, from instances that do without them.
TCases == INSTANCE MCSteps WITH Files <- {"r", "l", "k"}, Root <- "r", Inputs <- {},
       input <- x1, text <- x2, ckpt <- x3, wb <- x4, edits <- x5, passed <- x6
BCases == INSTANCE MCBlocks WITH Workbook <- << >>, Flags <- {}, source <- x1, artifact <- x2, stored <- x3,
       saved <- x4, run <- x5, ran <- x6, succeeded <- x7, skipped <- x8
JCases == INSTANCE MCBatch WITH Jobs <- {}, Words <- {w}, job <- x1, file <- x2, pc <- x3, at <- x4,
       results <- x5, reports <- x6, happened <- x7, exit <- x8
CCases == INSTANCE MCSandbox WITH Jobs <- {}, Contents <- DockerContents,
       dockerfile <- x1, images <- x2, envFiles <- x3, proc <- x4, edits <- x5
MCases == INSTANCE MCMcp WITH Messages <- {}, input <- x1, read <- x2, closed <- x3, srv <- x4,
       out <- x5, store <- x6, book <- x7, others <- x8

StepCases == TCases!All
BlockCases == BCases!Pipeline
BlockStarts == BCases!Started
BatchCases == JCases!AllJobs
SandboxCases == CCases!AllJobs
Lines == MCases!Lines
SomeWords == {w}
=============================================================================
