SPECIFICATION Spec
CONSTANTS
  c1 = c1
  c2 = c2
  CPU <- MCCPU
  NPROC = 4
  NoCPU = NoCPU
  NoProc = NoProc
  Ticks = Ticks
  NoChan = NoChan
  MaxPid = 4
  KillPids <- MCKillPids
SYMMETRY MCSymmetry
INVARIANTS
  OneCPU
  StackLive
  SchedOK
  ParentLive
  WaitSound
  NoLeak
