SPECIFICATION Spec
CONSTANTS
  NPROC = 3
  MaxPid = 4
PROPERTIES KillsThePid
CHECK_DEADLOCK FALSE
