SPECIFICATION FairSpec
CONSTANTS
  p1 = p1
  p2 = p2
  Procs <- TwoProcs
  NoProc = NoProc
  NBUF = 2
  NBLOCKS = 3
  Values <- Bits
  LOGSIZE = 1
  Changed = {1}
  MaxHold = 2
  ReadFails = FALSE
  MaxStray = 1
INVARIANTS
  RefcntCounts
  QueueMatches
  SleepersHaveReason
  CleanIsOnDisk
PROPERTIES
  PanicsOnlyWhenFull
  IsBlockStore
  DiskServes
