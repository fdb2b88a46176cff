SPECIFICATION Spec
CONSTANTS
  NPROC = 5
  NCPU = 2
  NCONTS = 2
  MaxProc = 2
  MaxVpid = 2
  Workloads <- StopWorkloads
PROPERTIES LimitAnyway
CHECK_DEADLOCK FALSE
