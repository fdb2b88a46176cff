SPECIFICATION Spec
CONSTANTS
  NPROC = 6
  NCPU = 2
  NCONTS = 3
  MaxProc = 3
  MaxVpid = 2
  Workloads <- MCWorkloads
INVARIANTS VpidsUnique
PROPERTIES ForkLimit KillContained
CHECK_DEADLOCK FALSE
