SPECIFICATION Spec
CONSTANTS
  NPROC = 4
  MaxPid = 5
INVARIANTS NoLostExit ParentAlive NoDeadlock
CONSTRAINT FewKills
CHECK_DEADLOCK FALSE
