SPECIFICATION FairSpec
CONSTANTS
  INPUT_BUF = 2
  W = 4
  COLS = 2
  ROWS = 2
  Readers = {"r1", "r2"}
  Writers = {"w1"}
  ReadSizes = {1, 2}
  Loads <- AllLoads
INVARIANT NoStuckKey
PROPERTIES InputIsLines CallsReturn
CHECK_DEADLOCK FALSE
