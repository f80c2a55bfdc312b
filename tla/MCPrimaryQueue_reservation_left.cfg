CONSTANTS
    None = None
    Job = {j1}
    Token = {t1}
    MaxAttempts = 1
    MaxActiveJobs = 1
    LeaseMs = 1
    ReservationMs = 1
    CreatedAt <- OneStamp
    Env <- OnlyUnlink
SPECIFICATION Spec
SYMMETRY Symmetry
PROPERTY PublishedIsAuthoritative
