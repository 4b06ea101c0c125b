\* Two bookings of one seat in two partitions, each with its worker; a poll
\* looks at one entry only.  One call may fail, or the process may die once.
CONSTANTS
  e1 = e1
  s1 = s1
  b1 = b1
  b2 = b2
  Events = {e1}
  Seats = {s1}
  EventOf <- MCEventOf
  Bookings = {b1, b2}
  NoSeat = NoSeat
  NoBooking = NoBooking
  Partitions = {0, 1}
  Workers = {0, 1}
  PartitionOf <- MCPartitionOf
  Limit = 1
  ScanMultiplier = 1
  ScanMax = 1
  Visibility = 1
  Second = 2
  ReservationTimeout = 1
  PurchaseExtension = 1
  MaxTime = 2
  MaxFailures = 1
SPECIFICATION FairSpec
INVARIANT TypeOK
PROPERTIES OverdueReleased DeadlineKept DueEntriesClaimed
