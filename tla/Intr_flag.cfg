SPECIFICATION FairSpec
CONSTANTS
  MaxPid = 1
  MaxDepth = 6
INVARIANTS
  CallsAtomic
  ProgramsPreemptible
  AcknowledgedFirst
PROPERTY TicksAreTaken
