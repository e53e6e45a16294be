\* A panic halts the machine.
CHECK_DEADLOCK FALSE
SPECIFICATION FairSpec
CONSTANTS
  MaxPid = 2
  PAGE_SIZE = 1
  ENTRIES = 2
  KZERO = 6
  KTMPMEM = 10
  Segment <- PageSegment
  ElfLength = 1
  Breaks = {}
  KernelBreaks = {7, 8}
  Lengths = {}
  WritePages = {}
  Generations = 2
INVARIANT HeapIsShared
PROPERTY HeapFaultEnds
