SPECIFICATION Spec
CONSTANTS
  Align = 16
  Page = 8
  MaxPages = 2
  Size = {0, 1, 33}
  MaxLive = 2
  Task = {p, q}
  init = p
  NOFILE = 2
  NFILE = 3
  PipePage = {1}
  BSIZE = 2
  NDIRECT = 2
  FSSIZE = 17
  BPB = 16
  nlog = 1
  NINODES = 4
  MAXOPBLOCKS = 6
  FileName = {"a", "n"}
  Writer = {101, 102}
  Handle = {1, 2}
  MaxCall = 3
  Length = {1, 5}
  ninodeblocks = 1
  MAXARGS = 3
  MaxPid = 6
  MaxJob = 4
  MaxFd = 7
  Cat = {"c"}
  Absent = {"m"}
  MaxLine = 2
  MAX_HISTORY = 2
  MaxRun = 3
INVARIANTS HeapSound FilesCounted  LogBudget 
PROPERTIES FilesAreSequences PromptReturns
CHECK_DEADLOCK FALSE
