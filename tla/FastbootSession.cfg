CONSTANTS
  OldLength = 7
  ImageLength = 6
  WORD = 16
  Pieces <- MCPieces
  MaxRuns = 3
  MaxLines = 2
  FfsWaitLimit = 2
SPECIFICATION Spec
INVARIANTS
  TypeOK
  FlashedDataKept
  NoStaleTail
  FlashesWhatWasSent
  FastbootOffered
PROPERTY ClientFinishes
