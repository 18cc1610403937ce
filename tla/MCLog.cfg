SPECIFICATION FairSpec
CONSTANTS
  Proc = {p1, p2}
  Block = {b1, b2}
  Val = {v0, v1}
  Zero = v0
  None = None
  LOGBLOCKS = 6
  MAXOPBLOCKS = 3
  OPBLOCKS = 2
  MaxCrash = 2
INVARIANTS LogSpace NoPanic QuiescentDurable
PROPERTIES CrashAtomic NoLostWakeup
