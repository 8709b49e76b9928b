SPECIFICATION FairSpec
CONSTANTS
  Procs = {u1, k1, k2}
  Runners = {u1}
  Reapers = {k1, k2}
  Cancellers = {u1}
  Killable = {u1}
  Idents = {i1}
  Waits = {w1}
  Slice = slice
  Blocks = 1
  Timeouts = {1}
  MaxNow = 2
  MaxPauses = 2
  MaxCommands = 3
  Absent = absent
  NoProc = noproc
INVARIANTS ReportedOnce
PROPERTIES ExpiredIsReaped
CHECK_DEADLOCK FALSE
