SPECIFICATION Spec
CONSTANTS
  Proc = {p, q, r1}
  Reader = {p, q}
  first = p
  CPU = {c, d}
  None = None
  NUM = 7
  U16 = 14
  Plain = {"a", "b"}
  INPUT_BUF_SIZE = 3
  UINT = 6
  MaxLen = 2
  Killable = {p}
  MaxSync = 3
  Slot = {1, 2}
  NFRAME = 15
  MMAP = 3
  TRAPFRAME = 8
  IMAGE = 2
  MAX_MMAPS = 1
  MaxPage = 4
  Delta = {1, 3}
  TICKS = 6
  MaxPause = 2
INVARIANTS ServedOnce NoLostWakeup 
PROPERTIES LineDiscipline ForkCopies RegistersPreserved PauseNotEarly
