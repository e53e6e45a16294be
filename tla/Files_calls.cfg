\* An overrun is not followed.
CHECK_DEADLOCK FALSE
SPECIFICATION Spec
CONSTANTS
  Files = {5, 6, 7}
  MaxPid = 1
  Stdio = 1
  FirstCap = 2
  MaxCap = 4
  Overread = 2
  Descr = {d1, d2, d3}
  MaxDups = 1
  MaxOpens = 2
  Opened = {6}
  Duplicates = {0, 2}
  Length <- MCLength
  Counts = {2, 7}
  Offsets <- MCOffsets
  SIZE = 8
SYMMETRY DescrSymmetry
INVARIANTS
  EveryLinkIsFound
  RefsCountHolders
  NothingAboveNext
  SlotsInTable
  PosInFile
  OverrunHasCause
