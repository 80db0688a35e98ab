SPECIFICATION FairSpec
CONSTANTS
  p1 = p1
  p2 = p2
  Procs <- TwoProcs
  NoProc = NoProc
  Bytes <- Bits
  PIPESIZE = 2
  UINT = 4
  Written <- UpToThree
  MaxCount = 3
  Killable <- One
INVARIANTS
  FreedIsUnused
  SleepersHaveReason
PROPERTIES
  IsFifo
  SleepersWake
\* A process that fills a pipe it reads itself sleeps for ever.
CHECK_DEADLOCK FALSE
