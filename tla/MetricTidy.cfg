SPECIFICATION FairSpec
CONSTANTS
  g1 = g1
  r1 = r1
  r2 = r2
  r3 = r3
  NoRun = NoRun
  RunID <- MCThreeRuns
  Backend = "k6-operator"
  Faults <- MCTidyFaults
  Configs <- MCTriggerOnly
  Limit = 2
  MaxMeasurements = 4
  MaxCrashes = 0
INVARIANTS
  OneLoadAtATime
  NoRunLeftBehind
  NoCRForgotten
PROPERTIES
  EndedRunIsReported
CHECK_DEADLOCK FALSE
