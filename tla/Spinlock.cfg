SPECIFICATION FairSpec
CONSTANTS
  c0 = c0
  c1 = c1
  tickslock = tickslock
  ptable = ptable
  NoCpu = NoCpu
  Cpus <- MCCpus
  Locks <- MCLocks
  Rank <- MCRank
INVARIANTS MutualExclusion NoInterruptWhileHolding InterruptsRestored
PROPERTY SpinEnds
