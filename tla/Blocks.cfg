SPECIFICATION Spec
CONSTANTS
  BSIZE = 2
  NDIRECT = 1
  FSSIZE = 8
  LOGSIZE = 6
  Threads = {1, 2}
  Files = {1, 2}
  Sizes = {1, 3, 4}
  MaxCalls = 4
INVARIANTS ReadsBack EachBlockOnce 
CHECK_DEADLOCK FALSE
