SPECIFICATION FairSpec
CONSTANTS
  Client = {c1, c2, c3}
  n_hosts = 3
  max_attempts = 2
  MaxFaults = 3
  MaxMoves = 1
CHECK_DEADLOCK FALSE
INVARIANTS OneGenesisForAll PanicNeedsMove
PROPERTIES ClientsServed
