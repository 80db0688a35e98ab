SPECIFICATION FairSpec
CONSTANTS
  t1 = t1
  t2 = t2
  blk0 = blk0
  blk1 = blk1
  Threads <- TwoThreads
  Blocks <- TwoBlocks
  AfterLog = blk0
  Values <- Bits
  NotCached = NotCached
  NoBlock = NoBlock
  MAXOPBLOCKS = 2
  LOGSIZE = 4
  NLOG = 4
  OpBlocks = 2
INVARIANTS
  CleanIsOnDisk
  SpaceReserved
  OutstandingCounts
PROPERTIES
  CrashAtomic
  SleepersAreWoken
