\* Two nodes, two slots, transactions of up to two commands and two faults: a centralized
\* server and a cluster, with and without WATCH; MULTI or a command may be refused.
SPECIFICATION Spec
CONSTANTS
    Nodes = {a, b}
    Slots = {s, t}
    None = None
    Configs <- AllConfigs
    Rejects = {"MULTI", "CMD"}
    MaxCommands = 2
    MaxAttempts = 1
    MaxReconnects = 1
    MaxFaults = 2
\* A transaction ends.
CHECK_DEADLOCK FALSE
INVARIANT ExecutesWhole
INVARIANT AnswerExact
INVARIANT WatchHonoured
INVARIANT ConnectionRestored
PROPERTY Ends
