SPECIFICATION FairChaosSpec
CONSTANTS
  MaxValidators = 2
  MaxExecutors = 1
  min_delay = 1
  max_delay = 2
  target_cooldown = 2
  RestartLimit = 2
  Duration = 8
  Height = {4, 6, 8, 70}
  Hint = {0, 7, 100}
  LagAllowance = {2, 6}
CHECK_DEADLOCK FALSE
INVARIANTS RestartsApart OkMeansLive InStepPasses
PROPERTIES Judged
