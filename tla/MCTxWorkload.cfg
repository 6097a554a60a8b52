SPECIFICATION Spec
CONSTANTS
  g = g
  a1 = a1
  a2 = a2
  b1 = b1
  Block <- MCBlock
  Genesis = g
  Parent <- MCParent
  Accounts = 3
  Validator = {v1}
  Executor = {e1}
  Rates = {1, 2}
  Limits = {0, 1, 2}
  RunSlots = 2
  SlotCoeff = 90
  Capacity = 2
CHECK_DEADLOCK FALSE
INVARIANTS OnlyTrackedSubmitted CountsWhatItRead ShortfallIsReal SatisfiedIsIncluded
