SPECIFICATION SchedFairSpec
CONSTANTS
  NPROC = 3
  CPU = {c1, c2}
  NiceArg = {0, 40}
  Victim = 2
INVARIANTS BoundedBypass
PROPERTIES NoStarvation
