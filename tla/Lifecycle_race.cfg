SPECIFICATION Spec
CONSTANTS
  Procs = {u1, k1}
  Runners = {u1}
  Reapers = {k1}
  Cancellers = {}
  Killable = {}
  Idents = {i1}
  Waits = {w1}
  Slice = slice
  Blocks = 1
  Timeouts = {1}
  MaxNow = 1
  MaxPauses = 2
  MaxCommands = 3
  Absent = absent
  NoProc = noproc
PROPERTIES ReapsOnlyExpired
CHECK_DEADLOCK FALSE
