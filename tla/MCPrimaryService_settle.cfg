SPECIFICATION FairServiceSpec
CONSTANTS
    Job = {j1}
    Token = {t1, t2, t3}
    None = None
    MaxAttempts = 2
    MaxActiveJobs = 1
    LeaseMs = 4
    ReservationMs = 1
    CreatedAt <- OneStamp
    Env <- QueueFaults
    Concurrency = 2
    HeartbeatMs = 1
    CheckMs = 1
    KillMs = 2
    Mishap <- AllMishaps
PROPERTIES
    JobsSettle
    ImplementsQueue
CHECK_DEADLOCK FALSE
