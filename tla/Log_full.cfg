SPECIFICATION Spec
CONSTANTS
  b1 = b1
  b2 = b2
  b3 = b3
  p1 = p1
  p2 = p2
  p3 = p3
  Blocks <- ThreeBlocks
  Vals = {0}
  Procs <- ThreeProcs
  MAXOPBLOCKS = 1
  LOGSIZE = 3
  Size = 3
INVARIANT ReservationSuffices
