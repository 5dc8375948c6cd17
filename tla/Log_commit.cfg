SPECIFICATION Spec
CONSTANTS
  b1 = b1
  b2 = b2
  b3 = b3
  p1 = p1
  p2 = p2
  p3 = p3
  Blocks <- TwoBlocks
  Vals = {0, 1}
  Procs <- ThreeProcs
  MAXOPBLOCKS = 2
  LOGSIZE = 6
  Size = 6
INVARIANTS QuietIsDurable NoLostWakeup
PROPERTY AtomicCommit
