SPECIFICATION Spec
CONSTANTS
  Procs = {p1, p2, p3}
  Blocks = {b1, b2}
  NoBlock = NoBlock
  Values = {v0, v1}
  InitValue = v0
  Torn = Torn
  MAXOPBLOCKS = 1
  LOGSIZE = 2
  NLOG = 3
INVARIANT BudgetEnough
