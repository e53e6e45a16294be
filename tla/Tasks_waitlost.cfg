SPECIFICATION WaitSpec
CONSTANTS
  MaxPid = 2
  ExitCodes = {0}
PROPERTY DeadChildEndsWait
