SPECIFICATION Spec
CONSTANTS
  Workbook <- Jumps
  MaxSessions = 4
  Navigation = TRUE
  Kills = FALSE
  Absent = absent
INVARIANTS FailedBlockReruns
CHECK_DEADLOCK FALSE
