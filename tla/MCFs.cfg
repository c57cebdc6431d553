SPECIFICATION Spec
CONSTANTS
  a = a
  b = b
  Proc = {p1, p2}
  NoProc = NoProc
  NINODES = 4
  Name = {a, b}
  Request <- MCRequest
SYMMETRY MCSymmetry
INVARIANTS RefsExact LinksExact InodeLive OnlyIputDeadlocks
CHECK_DEADLOCK FALSE
