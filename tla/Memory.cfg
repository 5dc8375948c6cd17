SPECIFICATION Spec
CONSTANTS
  Machines = {9, 11, 12, 13, 14, 15, 16, 17}
  NLOW = 8
  PGSIZE = 2
  NPTENTRIES = 2
  NUTAB = 3
  NPROC = 3
  Sizes = {1, 4}
  MaxCalls = 2
INVARIANTS  MemoryBelowSz ArgsMapped
CHECK_DEADLOCK FALSE
