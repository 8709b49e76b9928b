SPECIFICATION Spec
CONSTANTS
    Procs = {p, q}
    Dirs = {"a", "b"}
    Cwd = "b"
    Jobs <- AllJobs
    Contents = {"v1", "v2"}
    NoContent = "Dockerfile"
    MaxEdits = 1
INVARIANT RunsItsDockerfile
CHECK_DEADLOCK FALSE
