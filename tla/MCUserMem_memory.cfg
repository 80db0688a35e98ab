SPECIFICATION Spec
CONSTANTS
  Procs <- ThreeSlots
  NFRAMES = 11
  TOP = 5
  MaxSize = 2
  MinSize = 1
  MaxStack = 2
VIEW UpToFrames
INVARIANTS
  FramesOwned
  StackCounted
PROPERTIES
  MemoryKept
  ForkAfterExecCopies
