\* A panic halts the machine.
CHECK_DEADLOCK FALSE
SPECIFICATION Spec
CONSTANTS
  MaxPid = 2
  PAGE_SIZE = 1
  ENTRIES = 2
  KZERO = 8
  KTMPMEM = 10
  Segment <- HighSegment
  ElfLength = 1
  Breaks = {5, 6}
  KernelBreaks = {}
  Lengths = {1}
  WritePages = {5, 7}
  Generations = 2
INVARIANTS
  UserMemoryPrivate
  BreakEndsAccessible
PROPERTY Isolation
