SPECIFICATION Spec
CONSTANTS
    Files <- Fs
    Root = "r"
    Inputs <- All
    MaxEdits = 1
    Word = 1000000
    None = None
INVARIANT SelectionIsNotInherited
CHECK_DEADLOCK FALSE
