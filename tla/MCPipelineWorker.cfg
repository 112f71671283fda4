SPECIFICATION FairSpec
CONSTANTS
  WorkerMode = TRUE
  MaxRuns = 0
  MaxCrashes = 2
INVARIANTS
  GateHolds
  TakeoverHonoured
PROPERTIES
  EscalationDrivesGate
  Settles
  ImplementsLifecycle
\* The incident settles and the process may stop for good.
CHECK_DEADLOCK FALSE
