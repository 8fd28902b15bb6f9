SPECIFICATION Spec
CONSTANTS
  g1 = g1
  r1 = r1
  NoRun = NoRun
  RunID <- MCTwoRuns
  Backend = "k6-operator"
  Faults <- MCNoFaults
  Configs <- MCTriggerOnly
  Timeout = 2
  MaxReplays = 1
  MaxCrashes = 0
PROPERTIES
  ReplayKeepsSuccess
CHECK_DEADLOCK FALSE
