\* A Reconnect message taken before the reader task has ended.
CONSTANTS
    p1 = p1
    p2 = p2
    b1 = b1
    u1 = u1
    q1 = q1
    Commands = {p1}
    Pipelined = {p1}
    NoResponses = {}
    Quits = {}
    NoCommand = NoCommand
    MaxAttempts = 2
    MaxInFlight = 5
    Backpressure = "Drain"
    HasPolicy = TRUE
    MaxReconnects = 0
    FailFast = TRUE
    Timeouts = FALSE
    MaxFaults = 1
    MaxConnects = 1

SPECIFICATION FairSpec
PROPERTY InFlightRequeued
\* The client may be idle: nothing sent, or nobody calls any more.
CHECK_DEADLOCK FALSE
