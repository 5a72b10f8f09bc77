\* QUIT, bare UNSUBSCRIBE, callers that time out, backpressure errors, a
\* policy of one attempt, and a second connect() after the first one ended.
CONSTANTS
    p1 = p1
    p2 = p2
    b1 = b1
    u1 = u1
    q1 = q1
    Commands = {p1, u1, q1}
    Pipelined = {p1, u1}
    NoResponses = {u1}
    Quits = {q1}
    NoCommand = NoCommand
    MaxAttempts = 2
    MaxInFlight = 0
    Backpressure = "Error"
    HasPolicy = TRUE
    MaxReconnects = 1
    FailFast = FALSE
    Timeouts = TRUE
    MaxFaults = 2
    MaxConnects = 2

SPECIFICATION Spec
PROPERTY TimedOutNeverPushed
PROPERTY KeepsPromise
\* The client may be idle: nothing sent, or nobody calls any more.
CHECK_DEADLOCK FALSE
