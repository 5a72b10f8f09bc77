\* Deployments of three sentinels, of two and of one, a shard of two servers, eight sequences of
\* calls on two nodes; failovers, silent servers and broken connections.
CONSTANTS
    Deployments <- MCDeployments
    RedisNodes = {"n1", "n2"}
    DiscoveryFaults = 1
    Failovers = 1
    Outages = 2
    ShardServers = {"s1", "s2"}
    Writes = 2
    Silences = 1
    Promotions = 1
    UnresponsiveQuits = 1
    a = a
    b = b
    Nodes = {a, b}
    Plans <- MCPlans
    MaxAttempts = 3
    MaxBreaks = 2
    MaxErrors = 1

SPECIFICATION MCSpec
INVARIANT WriterReady
INVARIANT AnswersExact
INVARIANT InStep
PROPERTY ConnectsAgain
PROPERTY StuckIsInterrupted
PROPERTY Answered
\* Nobody has to call, and a client may stay idle.
CHECK_DEADLOCK FALSE
