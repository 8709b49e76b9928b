SPECIFICATION Spec
CONSTANTS
  Workbook <- EveryKind
  MaxSessions = 4
  Navigation = TRUE
  Kills = TRUE
  Absent = absent
INVARIANTS
  Accounted
  FailedBlockIsNext
  WaitsRespected
  InOrder
CHECK_DEADLOCK FALSE
