SPECIFICATION Spec
CONSTANTS
  Proc = {p1, p2}
  Pipe = {i1}
  NFILE = 3
  NOFILE = 2
  PIPESIZE = 2
  UINT = 4
  Byte = 4
  Sizes = {1, 3}
  NoPipe = NoPipe
SYMMETRY Symmetry
INVARIANTS FilesSound InOrder SleepJustified
CHECK_DEADLOCK FALSE
