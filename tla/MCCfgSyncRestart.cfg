SPECIFICATION FairSpec
CONSTANTS
  Client = {c1, c2}
  n_hosts = 2
  max_attempts = 3
  MaxFaults = 1
  MaxMoves = 0
PROPERTIES RestartedNodeReturns
CHECK_DEADLOCK FALSE
