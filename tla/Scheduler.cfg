SPECIFICATION HFairSpec
CONSTANTS
  c0 = c0
  c1 = c1
  NoCpu = NoCpu
  Cpus <- TwoCpus
  Cpu0 = c0
  NPROC = 3
  QUANTA = 1
  Builds <- AllBuilds
  MaxBypass = 3
INVARIANT BoundedBypass
PROPERTIES EveryoneRuns FifoByTick LevelsInOrder
