\* Two requests with one key, and no failures.
CONSTANTS
  q1 = q1
  q2 = q2
  q3 = q3
  Requests = {q1, q2}
  NoRequest = NoRequest
  LockTTL = 1
  MaxTime = 0
  MaxFailures = 0
SPECIFICATION KeySpec
PROPERTY NoRunOnceCached
\* The requests are bounded: once they are answered nothing is left to do.
CHECK_DEADLOCK FALSE
