SPECIFICATION Spec
CONSTANTS
  c0 = c0
  c1 = c1
  NPROC = 3
  CPUs <- OneCpu
  CPU0 = c0
  NoCPU = NoCPU
  MaxPid = 3
  Prios <- OnlyZero
  Statuses <- OnlyZero
  KillPids <- AnyPid
  MemoryEnds = TRUE
  Calls <- BornKilledCalls
PROPERTY NewProcessNotKilled
