SPECIFICATION Spec
CONSTANTS
  Proc = {p1, p2}
  BSIZE = 2
  NDIRECT = 1
  BPB = 12
  FSSIZE = 14
  nlog = 1
  NINODES = 3
  IPB = 8
  MAXOPBLOCKS = 7
  UINT = 13
  RootLen = 1
  Value <- MCValue
  Sizes = {3}
SYMMETRY MCSymmetry
INVARIANTS BlocksOwnedOnce ReadsBack TransactionFits
