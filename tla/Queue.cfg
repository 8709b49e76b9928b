SPECIFICATION MCSpec
CONSTANTS
    Captures = {0, 2}
    MaxEvents = 3
    MaxSessions = 2
    Resumes = {p, q}
    Cron = p
    Nobody = Nobody
    Ids = {1, 2}
    BrowserIds = {2}
    MaxSignals = 2
    MaxPauses = 2
INVARIANTS QueueTypeOK  
 
CHECK_DEADLOCK FALSE
