CONSTANTS
  Proc = {p, q}
  None = None
  NINODES = 3
  Name = {"a", "d"}
  Block = {1, 2}
  Image <- Images
  Call <- Calls1
  MaxCall = 3
  MaxCrash = 1
SPECIFICATION Spec
SYMMETRY Symmetry
INVARIANTS  NoDeadlock CacheCoherent NotFreedInUse CrashConsistent
PROPERTIES OrphansReclaimed
CHECK_DEADLOCK FALSE
