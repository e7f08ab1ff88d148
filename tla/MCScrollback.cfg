SPECIFICATION Spec
CONSTANTS
  ChunkSize = 3
  ForcedSplit = 4
  MaxLines = 3
  ByteCaps = {2, 8}
  SealCap = 1
  CacheMax = 1
  CompSizes = {1, 2}
  Pieces <- MCPieces
  MaxAppends = 3
INVARIANTS
    TypeOK
    Numbered
    BooksExact
    NoSendOnClosed
PROPERTIES
    CompressorFinishes
    PromiseHolds
CHECK_DEADLOCK FALSE
