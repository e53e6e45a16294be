\* A panic halts the machine.
CHECK_DEADLOCK FALSE
SPECIFICATION Spec
CONSTANTS
  BITS_PER_ENTRY = 2
  FrameCount = 7
  PreallocMaxCount = 2
  BootInfos <- MCBootInfos
INVARIANTS
  TypeOK
  NoDoubleAlloc
  KernelKept
  NoFrameWasted
  InitrdKeptAfterMmap
  SpillIsOneWord
