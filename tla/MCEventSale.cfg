\* An event with three seats, two bulk reservations in chunks of two.
CONSTANTS
  s1 = s1
  s2 = s2
  s3 = s3
  b1 = b1
  b2 = b2
  o1 = o1
  o2 = o2
  q1 = q1
  q2 = q2
  l1 = l1
  Seats = {s1, s2, s3}
  Bulks = {b1, b2}
  Others = {o1, o2}
  Readers = {q1, q2}
  Listers = {l1}
  Wanted <- MCWanted
  ChunkSize = 2
  NoRow = NoRow
  Empty = Empty
  Scenarios <- MCScenarios
SPECIFICATION FairSpec
INVARIANTS BulkAllOrNothing SeatsAllOrNone CacheTruthful
PROPERTY StaleEntriesExpire
\* The requests are bounded: once they are answered nothing is left to do.
CHECK_DEADLOCK FALSE
