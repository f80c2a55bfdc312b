SPECIFICATION ServiceSpec
CONSTANTS
    Job = {j1}
    Token = {t1, t2, t3, t4}
    None = None
    MaxAttempts = 2
    MaxActiveJobs = 1
    LeaseMs = 9
    ReservationMs = 2
    CreatedAt <- OneStamp
    Env <- QueueFaults
    Concurrency = 2
    HeartbeatMs = 2
    CheckMs = 1
    KillMs = 2
    Mishap <- ContainerDeath
SYMMETRY Symmetry
INVARIANTS
    ServiceTypeOK
    OneChildPerJob
PROPERTIES
    PurgeSparesLiveChild
    SettledIsFinal
    PurgeWaitsForLease
CHECK_DEADLOCK FALSE
