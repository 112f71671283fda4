SPECIFICATION FairSpec
CONSTANTS
  Requests = {r1, r2}
  CliUsers = {u1}
  Timeout = timeout
  Locks = {l1, l2, l3}
  NoLock = nolock
  StoreMayFail = TRUE
  MaxStarts = 2
INVARIANTS
  ResolvedMeansActed
PROPERTIES
  TimeoutDecides
  RequestsAnswered
\* The incident is decided and nothing more need happen.
CHECK_DEADLOCK FALSE
