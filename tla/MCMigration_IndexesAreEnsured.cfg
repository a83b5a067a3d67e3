SPECIFICATION FairSpec
CONSTANTS
    i1 = i1
    i2 = i2
    None = None
    Instance <- TwoInstances
    History <- AllHistories
    Target <- Targets
    WabaConfigured = TRUE
    Spread = 1
    MaxCrashes = 1
    MaxRollbacks = 1
INVARIANTS
    IndexesAreEnsured
CHECK_DEADLOCK FALSE
