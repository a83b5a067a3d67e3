SPECIFICATION FairSpec
CONSTANTS
    i1 = i1
    i2 = i2
    None = None
    Instance <- TwoInstances
    History <- AllHistories
    Target <- Targets
    WabaConfigured = TRUE
    Spread = 1
    MaxCrashes = 1
    MaxRollbacks = 1
PROPERTIES
    StartsComplete
    SplitKeepsRecords
    Boots
CHECK_DEADLOCK FALSE
