SPECIFICATION Spec
CONSTANTS
  Procs = {p1, p2}
  Inodes = {f1, f2, f3, f4}
  Values = {v1, v2}
  None = none
  Blank = blank
  Absent = absent
  Failed = failed
SYMMETRY Symmetry
INVARIANTS FileInv
PROPERTIES IsRegister
