SPECIFICATION RSafeSpec
CONSTANTS
    task = task
    dir = dir
    file = file
    None = None
    Namespaces = {ns}
    Digests <- FileDigests
    Content <- FileContent
    Submissions <- OneSubmission
    Oversized = {}
    MaxDirectories = 1
    Publishers = {p1}
    Uploaders = {u1}
    Readers = {}
    Backend = "postgres"
    Retention = 0
    SweepAge = 1
PROPERTIES
    AcceptedBlobsStored
