SPECIFICATION ZSpec
CONSTANTS
    u1 = u1
    u2 = u2
    u3 = u3
    blob = blob
    nil = nil
    Uploads <- MCUploads
    Puts = {u1, u2, u3}
    Readers = {g}
    Digests = {blob, nil}
    Empty = {nil}
    MaxPolls = 2
    None = None
INVARIANTS
    ServesWholeUnlessExpired
PROPERTIES
    ImplementsPut
    AcceptedCopyArrives
    PutsEnd
