SPECIFICATION Spec
CONSTANTS
  Procs = {p1, p2, p3}
  NoProc = NoProc
  Blocks = {b1, b2, b3}
  NoBlock = NoBlock
  NBUF = 2
  REFMOD = 8
  Values = {0, 1}
SYMMETRY Symmetric
INVARIANTS RefCounted BufferKept ReadsLatest
CHECK_DEADLOCK FALSE
