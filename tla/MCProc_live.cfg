SPECIFICATION FairSpec
CONSTANTS
  c0 = c0
  c1 = c1
  NPROC = 3
  CPUs <- TwoCpus
  CPU0 = c0
  NoCPU = NoCPU
  MaxPid = 4
  Prios <- OnlyZero
  Statuses <- OnlyZero
  KillPids <- Family
  MemoryEnds = FALSE
  Calls <- LiveCalls
PROPERTIES
  OrphansReaped
  EqualsTakeTurns
  KillTakesEffect
