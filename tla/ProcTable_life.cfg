SPECIFICATION Spec
CONSTANTS
  c0 = c0
  c1 = c1
  NoCpu = NoCpu
  Cpus <- TwoCpus
  Cpu0 = c0
  NPROC = 3
  QUANTA = 1
  MaxPid = 3
  MaxSleep = 0
  UserCalls = {"fork", "exit", "wait", "kill"}
  KillPids = {2, 3}
  AllocMayFail = TRUE
  InitMayDie = TRUE
INVARIANTS RunningOnOneCpu NoStackFreedInUse NoMissedExit 
