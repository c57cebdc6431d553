SPECIFICATION FairSpec
CONSTANTS
  p1 = p1
  p2 = p2
  p3 = p3
  b1 = b1
  b2 = b2
  b3 = b3
  v1 = v1
  v2 = v2
  NoValue = NoValue
  NoBlock = NoBlock
  Proc <- MCThreeProcs
  Block <- MCBlock
  Value <- MCOneValue
  MAXOPBLOCKS = 2
  LOGSIZE = 4
  NLOG = 4
  OpBlocks = 1
INVARIANTS LogFits SleepJustified
PROPERTY WokenUp
