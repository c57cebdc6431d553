SPECIFICATION Spec
CONSTANTS
  a = a
  b = b
  Proc = {p1, p2}
  NoProc = NoProc
  NINODES = 4
  Name = {a, b}
  Request <- MCRequest
SYMMETRY MCSymmetry
INVARIANT LastPutFrees
CHECK_DEADLOCK FALSE
