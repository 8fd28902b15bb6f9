SPECIFICATION Spec
CONSTANTS
  Parallelism = 2
  ExitCodes <- MCExitCodes
  Faults <- MCAllFaults
INVARIANTS
  PassedMeansEveryRunnerPassed
CHECK_DEADLOCK FALSE
