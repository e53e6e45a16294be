\* A panic halts the machine.
CHECK_DEADLOCK FALSE
SPECIFICATION Spec
CONSTANTS
  MaxPid = 2
  PAGE_SIZE = 2
  ENTRIES = 3
  KZERO = 12
  KTMPMEM = 18
  Segment <- HalfPageSegment
  ElfLength = 1
  Breaks = {7, 9}
  KernelBreaks = {}
  Lengths = {}
  WritePages = {}
  Generations = 2
INVARIANT BreakEndsAccessible
