SPECIFICATION Spec
CONSTANTS
    action = action
    meta = meta
    later = later
    root = root
    sub = sub
    file = file
    None = None
    Namespaces = {ns}
    Digests <- MCDigests
    Content <- MCContent
    Submissions <- MCSubmissions
    Oversized = {file}
    MaxDirectories = 2
    Publishers = {p1}
    Uploaders = {u1}
    Readers = {}
    Backend = "memory"
INVARIANTS
    ResultsComplete
    CheckedStaysChecked
PROPERTIES
    RejectionDeserved
    KeepsPromise
    PublishSettles
