SPECIFICATION Spec
CONSTANTS
  stdout = stdout
  stderr = stderr
  Streams <- MCStreams
  Opener = opener
  MaxChunks <- MCMaxChunks
  PendingCap = 1
  Window = 1
  BatchMax = 2
INVARIANT NoTrailing
CHECK_DEADLOCK FALSE
