SPECIFICATION Spec
CONSTANTS
  NCPU = 2
  NPROC = 3
  NCONTS = 2
  InitCont <- AllRoot
INVARIANTS OneCPU
PROPERTIES PausedOnce SoleContainerRuns
CHECK_DEADLOCK FALSE
