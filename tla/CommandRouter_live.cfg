\* Liveness with QUIT, Sleep backpressure and up to two faults.
CONSTANTS
    p1 = p1
    p2 = p2
    b1 = b1
    u1 = u1
    q1 = q1
    Commands = {p1, q1}
    Pipelined = {p1}
    NoResponses = {}
    Quits = {q1}
    NoCommand = NoCommand
    MaxAttempts = 2
    MaxInFlight = 0
    Backpressure = "Sleep"
    HasPolicy = TRUE
    MaxReconnects = 0
    FailFast = TRUE
    Timeouts = FALSE
    MaxFaults = 2
    MaxConnects = 1

SPECIFICATION FairSpec
PROPERTY RouterLoopsEnd
PROPERTY AnsweredOrStranded
PROPERTY QuitEndsTask
\* The client may be idle: nothing sent, or nobody calls any more.
CHECK_DEADLOCK FALSE
