CONSTANTS
  OldLength = 7
  ImageLength = 6
  WORD = 5
  Pieces <- MCPieces
  MaxRuns = 3
  MaxLines = 1
  FfsWaitLimit = 1
SPECIFICATION Spec
PROPERTY TruncatesToChunkEnd
