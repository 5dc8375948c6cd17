SPECIFICATION Spec
CONSTANTS
  p1 = p1
  p2 = p2
  None = None
  Procs = {p1, p2}
  NINODES = 4
  NINODE = 3
  DIRSIZ = 2
  Workloads <- Passing
INVARIANTS CacheExact  SomeCallRuns QuietDisk SplitsPaths
CHECK_DEADLOCK FALSE
