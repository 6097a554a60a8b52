SPECIFICATION FairSpec
CONSTANTS
  Workload = {tx, da, chaos}
  Expectations = 2
CHECK_DEADLOCK FALSE
INVARIANTS HonestVerdict CleanupOnce NoDetachedWorkload
PROPERTIES EverythingEnds
