SPECIFICATION RSafeSpec
CONSTANTS
    task = task
    dir = dir
    file = file
    None = None
    Namespaces = {ns}
    Digests <- BareDigests
    Content <- BareContent
    Submissions <- TwoSubmissions
    Oversized = {}
    MaxDirectories = 1
    Publishers = {p1}
    Uploaders = {u1}
    Readers = {}
    Backend = "postgres"
    Retention = 0
    SweepAge = 1
INVARIANTS
    SweepLeavesNoDangling
PROPERTIES
    SweptRowsOld
    KeepsWriteOnce
