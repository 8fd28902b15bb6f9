SPECIFICATION FairSpec
CONSTANTS
  g1 = g1
  r1 = r1
  NoRun = NoRun
  RunID <- MCTwoRuns
  Backend = "grafana-cloud"
  Faults <- MCCloudFaults
  Configs <- MCAllConfigs
  Timeout = 2
  MaxReplays = 1
  MaxCrashes = 1
INVARIANTS
  NoRunLeftBehind
PROPERTIES
  FailureIsFinal
  AttachedStepEnds
  StopReachesRun
CHECK_DEADLOCK FALSE
