SPECIFICATION MeterSpec
CONSTANTS
    q1 = q1
    q2 = q2
    free = free
    pro = pro
    None = None
    Request <- TwoRequests
    Plan <- Plans
    Default = free
    Info <- OneWindow
    EnvDefault <- Env
    Initially <- Start
    Kinds <- Everybody
    Weight <- Heavier
    Window = 2
    MaxTime = 0
    MaxArrivals = 2
    MaxChanges = 1
    MaxOutages = 0
INVARIANTS
    ReloadAfterInvalidation
CHECK_DEADLOCK FALSE
