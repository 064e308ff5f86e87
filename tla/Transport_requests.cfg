SPECIFICATION Spec
CONSTANTS
    Callers = {p}
    p = p
    Closer = closer
    QueueFrames = 1
    Attempts = 2
    MaxRequests = 1
INVARIANTS TypeOK NoVainWait OwnReply
PROPERTIES RequestReturns
CHECK_DEADLOCK FALSE
