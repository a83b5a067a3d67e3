SPECIFICATION Spec
CONSTANTS
    i1 = i1
    i2 = i2
    d1 = d1
    d2 = d2
    None = None
    Instance <- TwoInstances
    Delivery <- OneDelivery
    MaxAttempts = 2
    BatchSize = 1
    PoolSize = 1
    FailureThreshold = 2
    UseLock = TRUE
    LiveLockExpires = FALSE
    MaxFaults = 3
SYMMETRY Symmetry
INVARIANTS
    OneExecutor
    OpenHasBudget
CHECK_DEADLOCK FALSE
