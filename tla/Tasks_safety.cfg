SPECIFICATION WaitSpec
CONSTANTS
  MaxPid = 3
  ExitCodes = {0, 3}
INVARIANTS
  TypeOK
  RingIsOneCycle
  LinksOK
  RunningClean
  ChildcountOK
  NohangSleepHasChild
PROPERTIES
  WaitReportsDeadChild
  NoDoubleReport
