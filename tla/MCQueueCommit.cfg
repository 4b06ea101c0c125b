\* Generations end in good order.
CONSTANTS
  j1 = j1
  j2 = j2
  j3 = j3
  j4 = j4
  seat = seat
  booking = booking
  m1 = m1
  m2 = m2
  Jobs = {j1, j2, j3, j4}
  Targets = {seat, booking}
  Bookings = {booking}
  TargetOf <- MCTargetOf
  NoJob = NoJob
  Partitions = {0, 1, 2}
  PartitionOf <- MCPartitionOf
  Members = {m1}
  Readers = {m1}
  NoMember = NoMember
  MaxRetries = 0
  Arrivals = {{j1, j2}}
  MaxFaults <- MCTwoRebalances
SPECIFICATION Spec
INVARIANT NoCommandSkipped
\* The jobs are bounded: once they are processed nothing is left to do.
CHECK_DEADLOCK FALSE
