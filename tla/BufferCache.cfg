SPECIFICATION FairSpec
CONSTANTS
  p1 = p1
  p2 = p2
  k1 = k1
  k2 = k2
  k3 = k3
  NoBlock = NoBlock
  Blocks <- ThreeBlocks
  Procs <- TwoProcs
  Vals = {0, 1}
  NBUF = 2
  FaultyProcs <- OneProc
INVARIANT OneBufferPerBlock
PROPERTIES CacheIsStore RequestServed
