SPECIFICATION Spec
CONSTANTS
    empty = empty
    one = one
    two = two
    huge = huge
    None = None
    Blobs <- MCBlobs
    Size <- MCSize
    MagicLen = 2
    HeaderLen = 2
    MaxBlobBytes = 3
    MaxBatch = 2
    MaxFrames = 2
INVARIANTS
    ChunksDoNotMatter
    ReceiptComplete
    RegisteredVerified
    WithinDeclared
