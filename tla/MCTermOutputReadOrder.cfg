SPECIFICATION Spec
CONSTANTS
  stdout = stdout
  stderr = stderr
  Streams <- MCStreams
  Opener = opener
  MaxChunks <- MCMaxChunks
  PendingCap = 1
  Window = 1
  BatchMax = 2
INVARIANT ReadOrder
CHECK_DEADLOCK FALSE
