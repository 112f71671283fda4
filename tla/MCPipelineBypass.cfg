SPECIFICATION Spec
CONSTANTS
  WorkerMode = FALSE
  MaxRuns = 2
  MaxCrashes = 1
INVARIANTS
  GateHolds
\* The incident settles and the process may stop for good.
CHECK_DEADLOCK FALSE
