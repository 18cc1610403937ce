SPECIFICATION FairSpec
CONSTANTS
  NPROC = 3
  CPU = {c1, c2}
  MaxPid = 3
  Status = {0}
  KillPid = {2}
INVARIANTS StackInUse ParentAlive NoMissedExit
PROPERTIES WaitReturnsExit OrphansReaped
