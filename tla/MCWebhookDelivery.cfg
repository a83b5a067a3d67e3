SPECIFICATION FairSpec
CONSTANTS
    i1 = i1
    i2 = i2
    d1 = d1
    d2 = d2
    None = None
    Instance <- OneInstance
    Delivery <- TwoDeliveries
    MaxAttempts = 2
    BatchSize = 1
    PoolSize = 1
    FailureThreshold = 1
    UseLock = FALSE
    LiveLockExpires = FALSE
    MaxFaults = 2
PROPERTIES
    KeepsPromise
    DeliveryResolves
CHECK_DEADLOCK FALSE
