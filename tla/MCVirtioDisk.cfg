SPECIFICATION FairSpec
CONSTANTS
  p1 = p1
  p2 = p2
  p3 = p3
  Procs = {p1, p2, p3}
  NoProc = NoProc
  Values <- MCValues
  Calls <- MCCalls
  NUM = 7
  IDX = 14
INVARIANTS ChainsDisjoint
PROPERTIES IsBlockDevice Answered
