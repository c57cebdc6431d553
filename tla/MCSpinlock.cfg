SPECIFICATION Spec
CONSTANTS
  c1 = c1
  c2 = c2
  CPU <- MCCPU
  Lock <- MCLock
  NoCPU = NoCPU
  NoLock = NoLock
  MaxLevel = 2
INVARIANTS
  MutualExclusion
  NoPanic
  Masked
  IntrRestored
PROPERTY
  ImplementsLock
