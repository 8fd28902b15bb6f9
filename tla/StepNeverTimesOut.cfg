SPECIFICATION FairSpec
CONSTANTS
  g1 = g1
  r1 = r1
  NoRun = NoRun
  RunID <- MCTwoRuns
  Backend = "grafana-cloud"
  Faults <- MCPollFault
  Configs <- MCPollOnlyOnly
  Timeout = 1
  MaxReplays = 0
  MaxCrashes = 0
PROPERTIES
  TimeoutEndsStep
CHECK_DEADLOCK FALSE
