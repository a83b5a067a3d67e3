SPECIFICATION Spec
CONSTANTS
    i1 = i1
    i2 = i2
    r1 = r1
    r2 = r2
    None = None
    Instance <- OneInstance
    Client <- OneInstance
    Request <- TwoRequests
    UseRedis = FALSE
    LiveLockExpires = FALSE
    MaxCrashes = 0
INVARIANTS
    OneRunPerCampaign
CHECK_DEADLOCK FALSE
