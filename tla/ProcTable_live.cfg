SPECIFICATION FairSpec
CONSTANTS
  c0 = c0
  c1 = c1
  NoCpu = NoCpu
  Cpus <- OneCpu
  Cpu0 = c0
  NPROC = 2
  QUANTA = 2
  MaxPid = 2
  MaxSleep = 2
  UserCalls = {"fork", "exit", "wait", "kill", "sleep"}
  KillPids = {2}
  AllocMayFail = FALSE
  InitMayDie = FALSE
PROPERTIES SleepReturns KilledDies WaitReturns
