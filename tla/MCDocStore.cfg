SPECIFICATION Spec
CONSTANTS
    Key = {k1, k2, k3}
    Body = {b1}
    None = None
    Ahead = 2
    MaxRevision = 3
    MaxPowerLosses = 1
    ReceiptsKeep = 2
    ArchiveKeep = 1
    Env <- AllFaults
SYMMETRY Symmetry
CONSTRAINT Clock
INVARIANTS
    DocTypeOK
    AckedInLineage
    RetryFindsItsRevision
PROPERTIES
    ImplementsRegister
CHECK_DEADLOCK FALSE
