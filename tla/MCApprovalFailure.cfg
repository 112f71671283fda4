SPECIFICATION Spec
CONSTANTS
  Requests = {r1}
  CliUsers = {}
  Timeout = timeout
  Locks = {l1, l2}
  NoLock = nolock
  StoreMayFail = FALSE
  MaxStarts = 1
INVARIANTS
  FailureEscalates
\* The incident is decided and nothing more need happen.
CHECK_DEADLOCK FALSE
