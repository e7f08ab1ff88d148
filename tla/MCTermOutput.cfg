SPECIFICATION Spec
CONSTANTS
  stdout = stdout
  stderr = stderr
  Streams <- MCStreams
  Opener = opener
  MaxChunks <- MCMaxChunks
  PendingCap = 1
  Window = 1
  BatchMax = 2
INVARIANTS
    TypeOK
    BatchingExact
    EndTruthful
PROPERTIES
    ChunksArrive
CHECK_DEADLOCK FALSE
