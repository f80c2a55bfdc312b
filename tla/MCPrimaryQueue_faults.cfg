CONSTANTS
    None = None
    Job = {j1, j2}
    Token = {t1, t2, t3, t4}
    MaxAttempts = 2
    MaxActiveJobs = 1
    LeaseMs = 2
    ReservationMs = 1
    CreatedAt <- TwoStamps
    Env <- AllFaults
SPECIFICATION Spec
SYMMETRY JobAndTokenSymmetry
INVARIANTS
    TypeOK
    OnlyLatestClaimHolds
    StartedAtMostMaxAttempts
    CompletedShowsLatestAttempt
    CapacityBound
