\* A SUBSCRIBE to two channels, two commands behind it, and one broken connection.
SPECIFICATION Spec
CONSTANTS
    a = a
    b = b
    Nodes = {a, b}
    Plans <- ShiftPlans
    MaxAttempts = 3
    MaxBreaks = 1
    MaxErrors = 0
\* Nobody has to call.
CHECK_DEADLOCK FALSE
INVARIANT
    RepliesMatched
