SPECIFICATION Spec
CONSTANTS
  Workbook <- PauseFirst
  MaxSessions = 2
  Navigation = FALSE
  Kills = FALSE
  Absent = absent
INVARIANTS SequenceFresh
CHECK_DEADLOCK FALSE
