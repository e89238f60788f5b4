CONSTANTS
  Width = 56
  Height = 44
  CharSize = 16
  Start <- MCStart
  CmdMax = 3
  Char <- MCChar
  Keys <- AllKeys
  SuperText <- MCSuperText
  GroupText <- MCGroupText
  Names <- MCNames
  File <- MCFileWithNewline
  MaxKeys = 3
  MaxDepth = 3
SPECIFICATION Spec
INVARIANTS
  OneCommandAtATime
