SPECIFICATION Spec
CONSTANTS
  c0 = c0
  c1 = c1
  NPROC = 4
  CPUs <- OneCpu
  CPU0 = c0
  NoCPU = NoCPU
  MaxPid = 4
  Prios <- OnlyZero
  Statuses <- OnlyZero
  KillPids <- AnyPid
  MemoryEnds = TRUE
  Calls <- WaitpidCalls
INVARIANT WaitpidSeesExit
