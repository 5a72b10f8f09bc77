\* Two blocking commands and a pipelined one, two connect() calls with quit(), two
\* reads on two replicas; connections break, writes fail and replicas go away.
CONSTANTS
    Pops = {"p1", "p2"}
    Plains = {"c1"}
    BlockingTries = 2
    BlockingDrops = 1
    BlockingUnblocks = 1
    ConnectCalls = {"t1", "t2"}
    QuitCalls = {"q1"}
    SendCalls = {"s1"}
    WaitCalls = {"w1"}
    LifecycleFails = 1
    LifecycleDrops = 2
    ReplicaNodes = {"r1", "r2"}
    Reads = {"c1", "c2"}
    ReplicaTries = 2
    ErrorCount = 1
    ReplicaDelays = 1
    ReplicaFailures = 2
    ReplicaSyncs = 2

SPECIFICATION MCSpec
INVARIANT BlockedFlagHolds
INVARIANT OneCommandLoop
 
PROPERTY QuitIsHeard
PROPERTY WaiterHears
PROPERTY ReadsAnswered
\* Nobody has to call, and a client may stay idle.
CHECK_DEADLOCK FALSE
