SPECIFICATION RSpec
CONSTANTS
    task = task
    dir = dir
    file = file
    None = None
    Namespaces = {ns}
    Digests <- BareDigests
    Content <- BareContent
    Submissions = {}
    Oversized = {}
    MaxDirectories = 1
    Publishers = {}
    Uploaders = {u1}
    Readers = {g1}
    Backend = "postgres"
    Retention = 0
    SweepAge = 0
PROPERTIES
    TransfersSettle
    SweepSettles
    StaleRowsGo
