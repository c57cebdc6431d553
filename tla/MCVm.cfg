SPECIFICATION Spec
CONSTANTS
  Proc = {p1, p2}
  NoProc = NoProc
  initproc = p1
  PGSIZE = 2
  NPTENTRIES = 2
  KERNBASE = 12
  UINT = 24
  End = 3
  Mid = 6
  PHYSTOP = 30
  Program <- MCProgram
  Sbrk = {1, 3, 21, 23}
INVARIANTS PagesOwnedOnce ArgsMapped ExecBalanced
CHECK_DEADLOCK FALSE
