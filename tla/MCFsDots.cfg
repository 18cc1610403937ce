CONSTANTS
  Proc = {p}
  None = None
  NINODES = 3
  Name = {"a", "d"}
  Block = {1, 2, 3}
  Image <- Images
  Call <- CallsDots
  MaxCall = 5
  MaxCrash = 0
SPECIFICATION Spec
INVARIANTS LockedHasType
CHECK_DEADLOCK FALSE
