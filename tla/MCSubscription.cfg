SPECIFICATION FairSpec
CONSTANTS
    w1 = w1
    w2 = w2
    Worker <- TwoWorkers
    Row <- TwoRows
    NoRow <- NoKey
    MaxPeriods = 1
    MaxRequests = 1
    MaxFaults = 1
INVARIANTS
    ActiveIsPaid
    NoFreePeriod
PROPERTIES
    PendingIsLeftForGood
    PaymentIsHonoured
CHECK_DEADLOCK FALSE
