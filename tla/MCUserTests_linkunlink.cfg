SPECIFICATION Spec
CONSTANTS
  NPROC = 3
  NInodes = 10
  NINODE = 6
  NFILE = 4
  NOFILE = 3
  NBLOCKS = 18
  BSIZE = 2
  NDIRECT = 2
  MAXFILE = 6
  WMAX = 2
  Image <- MCImage
  Longer <- MCLonger
  AnyCalls <- MCAnyCalls
  Tests = {"linkunlink"}
INVARIANT NoDeadlock
