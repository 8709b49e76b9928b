SPECIFICATION Spec
CONSTANTS
    Shells = {"bash"}
    Harnessed = {"python"}
    Retries = 1
    MaxRequests = 3
    MaxLines = 1
    Capacity = 1
    MaxScript = 2
    MaxOutput = 2
    MaxBlocks = 2
    Slices = 2
    MaxSessions = 3
    MaxEvents = 1
INVARIANTS TypeOK OwnResult NeverMisled  OwnAnswer BrowserLives 
PROPERTY ChildrenEnd
CHECK_DEADLOCK FALSE
