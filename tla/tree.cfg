SPECIFICATION Spec
CONSTANTS
    Nodes = {x, y, z}
    Files = {f}
    None = None
    MaxEntries = 2
    Limits = {2, 3}
    Roots = {x, f}
INVARIANTS
    VerdictRight
PROPERTIES
    WalkEnds
