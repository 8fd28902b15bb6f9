SPECIFICATION FairSpec
CONSTANTS
  g1 = g1
  r1 = r1
  r2 = r2
  r3 = r3
  NoRun = NoRun
  RunID <- MCTwoRuns
  Backend = "k6-operator"
  Faults <- MCStopFaults
  Configs <- MCAllConfigs
  Limit = 1
  MaxMeasurements = 3
  MaxCrashes = 1
INVARIANTS
  TypeOK
  SuccessMeansPassed
PROPERTIES
  ImplementsContract
  TerminateReachesRun
CHECK_DEADLOCK FALSE
