SPECIFICATION Spec
CONSTANTS
  NPROC = 5
  NCPU = 2
  NCONTS = 3
  MaxProc = 3
  MaxVpid = 2
  Workloads <- KillWorkloads
PROPERTIES NobodyBornKilled
CHECK_DEADLOCK FALSE
