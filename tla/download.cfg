SPECIFICATION DSpec
CONSTANTS
    one = one
    two = two
    empty = empty
    huge = huge
    None = None
    Digests <- MCDigests
    Size <- MCSize
    Unrepresentable = {huge}
    Queries = {q}
    Packs = {k1, k2}
    Setups <- MCSetups
    MaxBatch = 3
    MaxBlobBytes = 3
    MagicLen = 1
    HeaderLen = 1
    Window = 2
INVARIANTS
    GuardExact
    LengthTellsWhole
PROPERTIES
    QueriesExact
    PacksEnd
