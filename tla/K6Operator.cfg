SPECIFICATION Spec
CONSTANTS
  Parallelism = 2
  ExitCodes <- MCExitCodes
  Faults <- MCAllFaults
INVARIANTS
  TypeOK
  PassedMeansAllPassed
  MetricsAreFinal
PROPERTIES
  VerdictKept
  ImplementsProvider
  AnswersLikeProvider
CHECK_DEADLOCK FALSE
