SPECIFICATION FairSpec
CONSTANTS
  g = g
  a1 = a1
  a2 = a2
  b1 = b1
  Block <- MCBlock
  Genesis = g
  Parent <- MCParent
  Validator = {v1}
  Executor = {e1, e2}
  ChannelRate = 1
  Headroom = 0
  BlobRate = 1
  ExpectedBlocks = 2
  PUBLISH_RETRIES = 2
  Capacity = 2
CHECK_DEADLOCK FALSE
INVARIANTS FlowsFollowChain CaptureIsExact FinishedIsEnough
PROPERTIES Delivered
