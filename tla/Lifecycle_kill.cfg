SPECIFICATION MCSpec
CONSTANTS
  Procs = {u1, u2, k}
  Runners = {u1, u2}
  Reapers = {k}
  Cancellers = {k}
  Killable = {u1, u2, k}
  Idents = {i1, i2}
  Waits = {w1}
  Slice = slice
  Blocks = 2
  Timeouts = {1}
  MaxNow = 1
  MaxPauses = 2
  MaxCommands = 3
  Absent = absent
  NoProc = noproc
SYMMETRY Symmetry
INVARIANTS IInv CalmPausesResume
PROPERTIES  CompleteIsFinal
CHECK_DEADLOCK FALSE
