CONSTANTS
  Proc = {p, q}
  None = None
  NINODES = 3
  Name = {"a", "d"}
  Block = {1, 2}
  Image <- Images
  Call <- Calls1
  MaxCall = 3
  MaxCrash = 0
SPECIFICATION Spec
SYMMETRY Symmetry
INVARIANTS FreedWhenUnused
CHECK_DEADLOCK FALSE
