SPECIFICATION FairSpec
CONSTANTS
  MaxPid = 3
  ExitCodes = {0}
PROPERTIES
  WalkTerminates
  ReadyRuns
  SignalWakes
  ImplementsProcLife
