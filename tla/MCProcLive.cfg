SPECIFICATION FairSpec
CONSTANTS
  c1 = c1
  c2 = c2
  CPU <- MCOneCPU
  NPROC = 3
  NoCPU = NoCPU
  NoProc = NoProc
  Ticks = Ticks
  NoChan = NoChan
  MaxPid = 3
  KillPids <- MCKillPids
PROPERTIES
  OrphansReaped
  KilledExits
  RunnableRuns
