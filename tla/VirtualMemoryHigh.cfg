CONSTANTS
  NumPages = 10
  Memmap <- ThreeUsable
  WordSize = 16
  N = 2
  VPage <- HighPages
  Root = 1
  LoaderTable <- MCLoaderTable
  DirectSlot <- MCDirectSlot
  MaxHeld = 1
SPECIFICATION Spec
INVARIANTS
  VmTypeOK
  TlbCoherent
PROPERTIES
  FaultRepaired
  ImplementsAddressSpace
