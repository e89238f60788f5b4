CONSTANTS
  ByteSize = 2
  DevSize = 2
  Words = 2
  DiskSize = 9
  MaxSectors = 2
  MaxCalls = 2
  IrqSector = {1, 7}
SPECIFICATION FairSpec
INVARIANTS
  ReadIsExact
  WriteIsComplete
PROPERTIES
  OnlyAskedSectorChanges
  CallReturns
CHECK_DEADLOCK FALSE
