\* The tests of one process, the tests of several processes, and free programs.
SPECIFICATION Spec
CONSTANTS
  NPROC = 3
  NInodes = 10
  NINODE = 6
  NFILE = 4
  NOFILE = 3
  NBLOCKS = 18
  BSIZE = 2
  NDIRECT = 2
  MAXFILE = 6
  WMAX = 2
  Image <- MCImage
  Longer <- MCLonger
  AnyCalls <- MCAnyCalls
  Tests = {"iputtest", "opentest", "writetest", "writetest1", "createtest", "dirtest", "exectest",
           "unlinkread", "linktest", "bigdir", "subdir", "bigwrite", "bigfile", "fourteen", "rmdot",
           "dirfile", "iref", "cat", "exitiputtest", "openiputtest", "sharedfd", "fourfiles",
           "createdelete", "concreate", "linkunlink", "stressfs", "init", "ls", "free"}
INVARIANTS
  Expected
  RefCounts
  FilesCounted
  NamesCounted
  BlocksOwned
  ChecksHold
  OnlyPutsDeadlock
