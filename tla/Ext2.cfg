CONSTANTS
  IPG = 6
  BPG = 8
  NDirect = 2
  K = 3
  MkfsInodes <- MCMkfsInodes
  MkfsBlocks <- MCMkfsBlocks
  MkfsDisks <- MCMkfsDisks
  FirstDataBlock = 1
  Tag = {101, 102}
  IrqReads = {2, 4}
  WordSize = 16
  MaxOps = 4
  MaxCrashes = 1
CONSTRAINT NotMixed
SPECIFICATION Spec
INVARIANTS
  TypeOK
  CountersFollowBitmaps
  BlocksExclusive
  ReadBack
PROPERTIES
  DanglingOnlyByDelete
  ListedStays
  LeaksAreKnown
