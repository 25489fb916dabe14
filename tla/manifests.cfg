SPECIFICATION Spec
CONSTANTS
    Workers = {w1, w2}
    Keys = {k}
    None = None
    SweepAge = 1
INVARIANTS
    NoLostUpdate
PROPERTIES
    SweptManifestsOld
    EveryWorkerMerges
