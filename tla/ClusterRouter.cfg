\* Two commands in one slot that may migrate once between two nodes; one connection breaks.
SPECIFICATION FairSpec
CONSTANTS
  Nodes = {a, b}
  Commands = {c1, c2}
  None = None
  Asking = Asking
  MaxAttempts = 3
  MaxReconnects = 1
  MaxFaults = 1
  MaxMigrations = 1
INVARIANTS OnePlace  PipelinedFollowed
 
\* All commands may be answered.
CHECK_DEADLOCK FALSE
