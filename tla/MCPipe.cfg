SPECIFICATION PipeFairSpec
CONSTANTS
  Writer = {w1, w2}
  Reader = {r1}
  Byte = {a, b}
  PIPESIZE = 2
  UINT = 4
  Length = {0, 1, 3}
  Killable = {r1}
  Nobody = Nobody
CHECK_DEADLOCK FALSE
INVARIANTS NoLostWakeup NoUseAfterFree
PROPERTIES Fifo HangupReturns
