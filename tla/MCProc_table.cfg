SPECIFICATION Spec
CONSTANTS
  c0 = c0
  c1 = c1
  NPROC = 3
  CPUs <- TwoCpus
  CPU0 = c0
  NoCPU = NoCPU
  MaxPid = 3
  Prios <- LowHigh
  Statuses <- OnlyZero
  KillPids <- AnyPid
  MemoryEnds = TRUE
  Calls <- TableCalls
INVARIANTS
  TypeOK
  EmbryoOwned
  CpuExclusive
  ParentsAlive
  NoMissedWakeup
  StatusDelivered
