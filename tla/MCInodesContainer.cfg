SPECIFICATION ContainerSpec
CONSTANTS
  p1 = p1
  p2 = p2
  Procs = {p1, p2}
  NoProc = NoProc
  NINUM = 3
  NINODE = 3
  Names = {"a", "b"}
  Calls <- ContainerCalls
INVARIANT PointersValid
CHECK_DEADLOCK FALSE
CONSTRAINT LostCallOnly
