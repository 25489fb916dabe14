SPECIFICATION SafeSpec
CONSTANTS
    task = task
    dir = dir
    None = None
    Namespaces = {ns}
    Digests <- MCDigests
    Content <- MCContent
    Submissions <- TwoSubmissions
    Oversized = {}
    MaxDirectories = 1
    Publishers = {p1, p2}
    Uploaders = {u1, u2}
    Readers = {}
    Backend = "postgres"
INVARIANTS
    AnswersHold
    TypeOK
    AcknowledgedReadable
    CreatedOnce
    SkippedStored
PROPERTIES
    KeepsPromise
