SPECIFICATION FairSpec
CONSTANTS
  g = g
  a1 = a1
  a2 = a2
  a3 = a3
  b2 = b2
  Block <- MCBlock
  Genesis = g
  Parent <- MCParent
  Height <- MCHeight
  Txs <- MCTxs
  Receiver = {r1}
  Capacity = 2
  MaxAttempts = 2
  MaxFailures = 2
  MaxRestarts = 1
CHECK_DEADLOCK FALSE
INVARIANTS StatsCoverFeed SeenIsPublished
PROPERTIES BatchReachesItsTip StreamSpec Progress
