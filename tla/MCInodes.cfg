SPECIFICATION Spec
CONSTANTS
  p1 = p1
  p2 = p2
  Procs = {p1, p2}
  NoProc = NoProc
  NINUM = 3
  NINODE = 3
  Names = {"a", "b"}
  Calls <- MCCalls
INVARIANTS RefCounted EntriesLive NoPanic IputWontBlock NoDeadlock
CHECK_DEADLOCK FALSE
CONSTRAINT LostCallOnly
