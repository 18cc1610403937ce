SPECIFICATION Spec
CONSTANTS
  Slot = {1, 2}
  None = None
  NFRAME = 15
  MMAP = 3
  TRAPFRAME = 8
  IMAGE = 2
  MAX_MMAPS = 1
  MaxPage = 4
  Delta = {1, 3}
INVARIANT NoRemap
