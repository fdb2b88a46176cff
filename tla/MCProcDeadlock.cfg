SPECIFICATION Spec
CONSTANTS
  NPROC = 4
  MaxPid = 5
INVARIANT HarmlessRace
CONSTRAINT NoKills
CHECK_DEADLOCK FALSE
