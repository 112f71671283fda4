SPECIFICATION Spec
CONSTANTS
  WorkerMode = FALSE
  MaxRuns = 3
  MaxCrashes = 2
INVARIANTS
  RatchetHolds
  ExecutesOncePerRun
PROPERTIES
  ProgressIsDurable
\* The incident settles and the process may stop for good.
CHECK_DEADLOCK FALSE
