SPECIFICATION FairSpec
CONSTANTS
  STACK_BRINGUP_MAX_ATTEMPTS = 3
CHECK_DEADLOCK FALSE
INVARIANTS ServerRemoved StackFate TeardownOrder
PROPERTIES DeployEnds
