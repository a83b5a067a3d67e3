SPECIFICATION Spec
CONSTANTS
    i1 = i1
    i2 = i2
    r1 = r1
    r2 = r2
    None = None
    Instance <- OneInstance
    Client <- NoClient
    Request <- TwoRequests
    UseRedis = FALSE
    LiveLockExpires = FALSE
    MaxCrashes = 0
PROPERTIES
    UnscheduleNeverWhileRunning
CHECK_DEADLOCK FALSE
