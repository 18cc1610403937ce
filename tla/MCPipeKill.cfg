CONSTANTS
  Writer = {w1, w2}
  Reader = {r1}
  Byte = {a}
  PIPESIZE = 2
  UINT = 4
  Length = {1, 3}
  Killable = {w1}
  Nobody = Nobody
SPECIFICATION PipeSpec
CHECK_DEADLOCK FALSE
INVARIANTS NoLostWakeup
