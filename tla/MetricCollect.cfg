SPECIFICATION Spec
CONSTANTS
  g1 = g1
  r1 = r1
  r2 = r2
  r3 = r3
  NoRun = NoRun
  RunID <- MCThreeRuns
  Backend = "k6-operator"
  Faults <- MCNoFaults
  Configs <- MCTriggerOnly
  Limit = 1
  MaxMeasurements = 2
  MaxCrashes = 0
PROPERTIES
  CollectionSparesRunInFlight
CHECK_DEADLOCK FALSE
