SPECIFICATION FairSpec
CONSTANTS
    Process = {p1, p2, p3}
    None = None
    StaleMs = 2
    MaxCrashes = 1
    Env <- AllFaults
INVARIANTS
    TypeOK
    OvertakenIsReported
PROPERTIES
    LockIsRecovered
