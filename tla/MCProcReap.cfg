SPECIFICATION FairSpec
CONSTANTS
  NPROC = 3
  MaxPid = 3
PROPERTIES ZombieReaped
CHECK_DEADLOCK FALSE
