SPECIFICATION FairSpec
CONSTANTS
    Message <- MCMessage
    NoSenderData <- MCNoSenderData
    None = None
INVARIANTS
    AtMostOneSend
    RunIsAccounted
    NeverRunsDry
    QuietWhenNotSending
PROPERTIES
    RunReturns
CHECK_DEADLOCK FALSE
