SPECIFICATION Spec
CONSTANTS
  NCPU = 1
  NPROC = 2
  NCONTS = 2
  InitCont <- AllRoot
PROPERTIES RunnableRuns
CHECK_DEADLOCK FALSE
