SPECIFICATION RenderSpec
CONSTANTS
    Post <- TwoPosts
    Workers = 2
    Key = {k1, k2}
    Export = {e1}
    MaxAttempts = 2
    MaxClaims = 3
    MaxRequests = 2
    RetentionKeep = 0
    LeaseTime = 2
    BeatTime = 1
    GraceTime = 2
    RecheckTime = 1
    AdmissionTime = 2
    Env <- AllFaults
SYMMETRY Symmetry
CONSTRAINT Bound
INVARIANTS
    RenderTypeOK
    OneRequestPerKey
    OnTimeKeepsLease
    RenderIsCharged
PROPERTIES
    EndedIsFinal
CHECK_DEADLOCK FALSE
