SPECIFICATION Spec
CONSTANTS
  Proc = {p1, p2}
  Buf = {b1, b2, b3}
  Block = {k1, k2, k3, k4}
  Value = {x, y}
  MaxPin = 2
  NoProc = NoProc
  NoBuf = NoBuf
  NoBlock = NoBlock
SYMMETRY Symmetry
INVARIANTS ReadsLatest NoPanic SleepJustified
