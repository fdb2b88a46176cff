SPECIFICATION Spec
CONSTANTS
  Writers = {w1, w2}
  Readers = {r1}
  NoProc = NoProc
  PIPESIZE = 2
  WIDTH = 4
  MaxCount = 2
  Bytes = {0, 1}
INVARIANTS NoLostWakeup NoUseAfterFree
PROPERTIES IsFifo
CHECK_DEADLOCK FALSE
