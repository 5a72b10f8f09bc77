\* A transaction of one command in a cluster whose slot moves.
SPECIFICATION Spec
CONSTANTS
    Nodes = {a, b}
    Slots = {s}
    None = None
    Configs <- ClusterConfigs
    Rejects = {}
    MaxCommands = 1
    MaxAttempts = 1
    MaxReconnects = 1
    MaxFaults = 1
\* A transaction ends.
CHECK_DEADLOCK FALSE
PROPERTY RedirectsFollowed
