SPECIFICATION Spec
CONSTANTS
  p1 = p1
  p2 = p2
  p3 = p3
  b1 = b1
  b2 = b2
  b3 = b3
  v1 = v1
  v2 = v2
  NoValue = NoValue
  NoBlock = NoBlock
  Proc <- MCTwoProcs
  Block <- MCBlock
  Value <- MCValue
  MAXOPBLOCKS = 3
  LOGSIZE = 6
  NLOG = 6
  OpBlocks = 2
SYMMETRY MCSymmetry
INVARIANT NoPinLeak
PROPERTIES WriteAhead ImplementsAtomicDisk
