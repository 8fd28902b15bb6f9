SPECIFICATION Spec
CONSTANTS
  g1 = g1
  r1 = r1
  NoRun = NoRun
  RunID <- MCTwoRuns
  Backend = "grafana-cloud"
  Faults <- MCPollFault
  Configs <- MCTriggerOnly
  Timeout = 2
  MaxReplays = 0
  MaxCrashes = 0
INVARIANTS
  NoOrphanedRuns
CHECK_DEADLOCK FALSE
