SPECIFICATION Spec
CONSTANTS
    Process = {p1, p2, p3}
    None = None
    StaleMs = 2
    MaxCrashes = 1
    Env <- HolderDies
INVARIANTS
    MutualExclusion
