SPECIFICATION FairSpec
CONSTANTS
  Validators = 2
  Executors = 1
  Task = {t1}
  MaxCrashes = 1
CHECK_DEADLOCK FALSE
INVARIANTS NodesReclaimed DirsKept ReadyMeansReady
PROPERTIES DeployEnds
