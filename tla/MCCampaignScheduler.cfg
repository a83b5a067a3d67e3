SPECIFICATION FairSpec
CONSTANTS
    i1 = i1
    i2 = i2
    r1 = r1
    r2 = r2
    None = None
    Instance <- TwoInstances
    Client <- TwoInstances
    Request <- OneRequest
    UseRedis = TRUE
    LiveLockExpires = FALSE
    MaxCrashes = 1
INVARIANTS
    OneSchedulerRun
    FinishedMeansIdle
    RunsApart
PROPERTIES
    DueCampaignLeavesQueue
CHECK_DEADLOCK FALSE
