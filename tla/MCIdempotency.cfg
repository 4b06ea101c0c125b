\* Three requests with one key; one of them may fail.
CONSTANTS
  q1 = q1
  q2 = q2
  q3 = q3
  Requests = {q1, q2, q3}
  NoRequest = NoRequest
  LockTTL = 2
  MaxTime = 5
  MaxFailures = 1
SPECIFICATION KeySpec
SYMMETRY Symmetry
INVARIANTS KeyTypeOK NoDuplicateInFlight RetryReplayed
\* The requests are bounded: once they are answered nothing is left to do.
CHECK_DEADLOCK FALSE
