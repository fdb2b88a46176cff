SPECIFICATION Spec
CONSTANTS
  p1 = p1
  p2 = p2
  Procs = {p1, p2}
  NoProc = NoProc
  Inodes = {1, 2}
  NBLOCKS = 5
  BSIZE = 2
  NDIRECT = 1
  BPB = 1
  Values = {1, 2}
  NOFILE = 2
  NFILE = 2
  Pipes = {1}
  MAXOPBLOCKS = 8
  Wrote <- MCWrote
  Workloads <- MCWorkloads
INVARIANTS RefCounted BlocksOwned WriteFits SharedWrites
PROPERTY AreBytes
CHECK_DEADLOCK FALSE
