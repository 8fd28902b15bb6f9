SPECIFICATION Spec
CONSTANTS
  g1 = g1
  r1 = r1
  NoRun = NoRun
  RunID <- MCTwoRuns
  Backend = "k6-operator"
  Faults <- MCAllFaults
  Configs <- MCAllConfigs
  Timeout = 1
  MaxReplays = 1
  MaxCrashes = 1
INVARIANTS
  TypeOK
  OneRunPerStep
  SuccessMeansPassed
  CleanupSparesRunInFlight
  CleanupNotRepeated
PROPERTIES
  AttachmentStable
  ImplementsContract
CHECK_DEADLOCK FALSE
