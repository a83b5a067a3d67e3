SPECIFICATION Spec
CONSTANTS
    Message <- MCMessage
    NoSenderData <- MCNoSenderData
    None = None
INVARIANTS
    AtMostOneSend
CHECK_DEADLOCK FALSE
