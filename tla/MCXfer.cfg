SPECIFICATION XferSpec
CONSTANTS
    Uploads = {u1, u2}
    Closers = {k1, k2}
    Batches <- MCBatches
    NoUpload = NoUpload
INVARIANTS
    XferType
    OkMeansThere
PROPERTIES
    NothingKept
CHECK_DEADLOCK FALSE
