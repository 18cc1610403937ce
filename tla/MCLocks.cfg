SPECIFICATION MCSpec
CONSTANTS
  CPU = {c1, c2}
  Proc = {t1, t2}
  Lock = {tickslock}
  tickslock = tickslock
  NoCPU = NoCPU
  NBUF = 2
  Block = {x, y, z}
  Content = {Zero, one}
  Zero = Zero
  User = {p, q, r}
  None = None
  MaxPin = 1
SYMMETRY Symmetry
INVARIANTS MutualExclusion NoPanic Coherent NoLostWakeup
