SPECIFICATION FrontSpec
CONSTANTS
    Procs = {p, q}
    Root = r
    Fetched = f
    Paths = {r, f}
    Flags <- Started
    MaxEdits = 1
    MaxCmds = 3
    StepInputs <- StepCases
    Word = 1000000
    None = None
    Workbook <- BlockCases
    BlockFlags <- BlockStarts
    RepairMax = 1
    MaxRuns = 2
    BatchJobs <- BatchCases
    w = w
    Words <- SomeWords
    NoName = NoName
    Names = {a, b}
    Steps = 2
    MaxSessions = 2
    MaxWrites = 3
    SandboxJobs <- SandboxCases
    Dirs = {"a", "b"}
    Cwd = "b"
    DockerContents = {"v1", "v2"}
    NoContent = "Dockerfile"
    Messages <- Lines
    Runs = {1}
    MaxMessages = 3
    MaxOthers = 1
    MaxPauses = 2
INVARIANTS FrontTypeOK
    RunsWhatWasGated ResumeKeepsGates StoreIsLedger
    IncludesResolve ResumesAtItsStep PreviewAgrees
    SkipsOnlyWhatRan InputNotDenied 
    VerdictHonest ExpectsItsBlock
    ArtifactsAreCurrent 
     
CHECK_DEADLOCK FALSE
