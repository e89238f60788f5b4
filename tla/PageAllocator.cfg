CONSTANTS
  NumPages = 8
  Memmap <- MCMemmap
  WordSize = 16
SPECIFICATION Spec
INVARIANTS
  PmmTypeOK
  Accounting
  FreeCountExact
  HintBelowFree
PROPERTIES
  NoDoubleAllocation
  OutOfMemoryIsReal
  ImplementsPool
