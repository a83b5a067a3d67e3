SPECIFICATION FairMeterSpec
CONSTANTS
    q1 = q1
    q2 = q2
    free = free
    pro = pro
    None = None
    Request <- TwoRequests
    Plan <- Plans
    Default = free
    Info <- OneWindow
    EnvDefault <- Env
    Initially <- Start
    Kinds <- Members
    Weight <- Heavier
    Window = 2
    MaxTime = 2
    MaxArrivals = 2
    MaxChanges = 1
    MaxOutages = 1
INVARIANTS
    WithinBudget
    HerdIsHeld
PROPERTIES
    RequestEnds
CHECK_DEADLOCK FALSE
