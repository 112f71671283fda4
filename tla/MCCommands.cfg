SPECIFICATION MCSpec
CONSTANTS
  Requests = {r1, r2, r3, r4}
  CliUsers = {}
  Timeout = timeout
  Locks = {l1, l2, l3}
  NoLock = nolock
  StoreMayFail = FALSE
  MaxStarts = 1
  QueryLimit = 3
  MaxReadings = 3
  ObservedServices = {1, 2}
  MaxHistory = 4
  MaxFacts = 2
  MaxDepth = 10
  RearmIntervals = 3
  RearmSeconds = 2
  MaxEvaluations = 5
  MaxWindows = 3
  MaxSeen = 2
  MaxPolls = 4
  MaxQueue = 2
  Correlated = {1, 2, 3}
  MaxEvents = 3
  MaxPhases = 4
  Traced = {1, 2, 3}
  MaxSpans = 2
  MaxChain = 2
  Specified = {1, 2}
  MaxRecommended = 2
  MaxKeys = 5
SYMMETRY LockSymmetry
INVARIANTS
  HandlerExclusive
  ActsAsDecided
  AssembledAnswers
  MeasureAnswers
  CorrelateAnswers
  OperatorAnswers
PROPERTIES
  ImplementsLifecycle
\* The incident is decided, a call is answered, and the process may stop for good.
CHECK_DEADLOCK FALSE
