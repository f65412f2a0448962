CONSTANTS
  OldLength = 0
  ImageLength = 6
  WORD = 16
  Pieces <- MCPieces
  MaxRuns = 3
  MaxLines = 1
  FfsWaitLimit = 1
SPECIFICATION Spec
INVARIANT SkipExtendsFile
