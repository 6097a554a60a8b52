SPECIFICATION FairSpec
CONSTANTS
  Validators = 2
  Executors = 2
CHECK_DEADLOCK FALSE
INVARIANTS ForwardsOwned ClusterFate
PROPERTIES CleanExits DeployEnds
