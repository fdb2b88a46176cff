SPECIFICATION FairSpec
CONSTANTS
  NCPU = 2
  NPROC = 2
  NCONS = 2
  INPUT_BUF = 2
  UINT = 4
  Ordinary = {"x"}
  Workloads <- MCWorkloads
INVARIANTS InterruptsMatched SleepersShort
PROPERTIES IsTerminal Settles
CHECK_DEADLOCK FALSE
