SPECIFICATION SuspendSpec
CONSTANTS
  NCPU = 2
  NPROC = 2
  NCONTS = 2
  InitCont <- AllRoot
INVARIANTS NeverTwice
CHECK_DEADLOCK FALSE
