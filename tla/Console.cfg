CONSTANTS
  Width = 56
  Height = 44
  CharSize = 16
  Start <- MCStart
  CmdMax = 3
  Char <- MCChar
  Keys <- AllKeys
  SuperText <- MCSuperText
  GroupText <- MCGroupText
  Names <- MCNames
  File <- MCFile
  MaxKeys = 4
  MaxDepth = 3
SPECIFICATION FairSpec
INVARIANTS
  ConsoleTypeOK
  OneCommandAtATime
PROPERTIES
  OutputIsNotInput
  OffScreenOnlyMidMove
  EndsAcceptingInput
