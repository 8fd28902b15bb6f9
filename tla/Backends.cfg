SPECIFICATION MCSpec
CONSTANTS
  Pods = 2
  Summaries <- MCSummaries
  TailLines = 4
  MaxBefore = 2
  MaxAfter = 1
  Configs <- MCConfigs
  Rollouts <- MCRollouts
  Hashes = {"h1", "h2"}
  Strangers <- MCStrangers
  MaxLabel = 2
  MaxRollout = 4
  MaxParallelism = 7
  IDs = {0, 1, 4}
  MaxInt32 = 3
  CloudFaults <- MCAllCloudFaults
INVARIANTS
  SummaryFound
  CutSummaryReported
  AggregateOfRequests
  ZeroMeansNoData
  AcceptedIsServed
  BuiltIsAdmitted
  RunnersAsConfigured
  MetricsOfTheRun
PROPERTIES
  DeletesOwnResource
  CollectedOnlyWithParent
  CascadeReachesResource
  CloudImplementsProvider
CHECK_DEADLOCK FALSE
