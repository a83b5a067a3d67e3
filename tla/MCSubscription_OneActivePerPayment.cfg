SPECIFICATION Spec
CONSTANTS
    w1 = w1
    w2 = w2
    Worker <- TwoWorkers
    Row <- TwoRows
    NoRow <- NoKey
    MaxPeriods = 2
    MaxRequests = 2
    MaxFaults = 0
INVARIANTS
    OneActivePerPayment
CHECK_DEADLOCK FALSE
