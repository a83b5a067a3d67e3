SPECIFICATION Spec
CONSTANTS
    s1 = s1
    s2 = s2
    s3 = s3
    c1 = c1
    c2 = c2
    c3 = c3
    c4 = c4
    c5 = c5
    Sender = Sender
    None = None
    Status <- ThreeStatuses
    Channel <- FiveChannels
    MaxSlow = 2
    MaxFailures = 1
INVARIANTS
    SavedIsAnnounced
CHECK_DEADLOCK FALSE
