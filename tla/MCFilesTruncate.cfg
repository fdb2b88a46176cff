SPECIFICATION Spec
CONSTANTS
  p1 = p1
  p2 = p2
  Procs = {p1, p2}
  NoProc = NoProc
  Inodes = {1}
  NBLOCKS = 8
  BSIZE = 3
  NDIRECT = 3
  BPB = 1
  Values = {1, 2}
  NOFILE = 1
  NFILE = 1
  Pipes = {1}
  MAXOPBLOCKS = 6
  Wrote <- MCWrote
  Workloads <- TruncateWorkloads
INVARIANT TruncateFits
CHECK_DEADLOCK FALSE
