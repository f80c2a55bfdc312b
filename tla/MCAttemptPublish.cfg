SPECIFICATION PublishSpec
CONSTANTS
    Job = {j1}
    Token = {t1, t2, t3}
    None = None
    Published = Published
    MaxAttempts = 3
    MaxActiveJobs = 1
    LeaseMs = 1
    ReservationMs = 1
    CreatedAt <- OneStamp
    Env <- PublishFaults
SYMMETRY Symmetry
INVARIANTS
    PublishTypeOK
    ServedTogether
PROPERTIES
    BytesKept
    Republishable
    PublishesAtOnce
