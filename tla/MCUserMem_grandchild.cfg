SPECIFICATION Spec
CONSTANTS
  Procs <- ThreeSlots
  NFRAMES = 12
  TOP = 5
  MaxSize = 2
  MinSize = 1
  MaxStack = 2
PROPERTY ForkCopies
