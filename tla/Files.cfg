SPECIFICATION FairSpec
CONSTANTS
  NPROC = 6
  NFILE = 5
  NOFILE = 4
  NPIPE = 2
  PIPESIZE = 2
  W = 4
  Byte = {"x", "y"}
  MAXARGS = 3
  Loads <- CmdLoads
  Kills <- CmdKills
  Start <- CmdStart
  NoText <- NoCmd
  Text <- CallsOf
  Program <- ProgramCalls
INVARIANTS  SleepersHaveReason ParsesAsWritten
PROPERTIES PipeIsQueue CommandsEnd
CHECK_DEADLOCK FALSE
