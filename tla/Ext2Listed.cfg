CONSTANTS
  IPG = 6
  BPG = 8
  NDirect = 2
  K = 3
  MkfsInodes <- MCMkfsInodes
  MkfsBlocks <- MCMkfsBlocks
  MkfsDisks <- MCMkfsDisks
  FirstDataBlock = 1
  Tag = {101, 102}
  IrqReads = {}
  WordSize = 16
  MaxOps = 4
  MaxCrashes = 1
SPECIFICATION Spec
INVARIANTS
  CreatedIsListed
