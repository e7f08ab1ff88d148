SPECIFICATION XferSpec
CONSTANTS
    Uploads = {u1, u2}
    Closers = {k1, k2}
    Batches <- MCBatches
    NoUpload = NoUpload
INVARIANT
    CloseReleases
CHECK_DEADLOCK FALSE
