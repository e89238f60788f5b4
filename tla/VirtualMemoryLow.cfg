CONSTANTS
  NumPages = 12
  Memmap <- FiveUsable
  WordSize = 16
  N = 2
  VPage <- LowPages
  Root = 1
  LoaderTable <- MCLoaderTable
  DirectSlot <- MCDirectSlot
  MaxHeld = 1
SPECIFICATION FairSpec
INVARIANTS
  PageTree
  ReachableNotFree
  NoMappingBeforePmm
PROPERTIES
  LeaksAreKnown
  AccessAnswered
