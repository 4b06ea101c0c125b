\* One of the two members never asks for its generation.
CONSTANTS
  j1 = j1
  j2 = j2
  j3 = j3
  j4 = j4
  seat = seat
  booking = booking
  m1 = m1
  m2 = m2
  Jobs = {j1, j2, j3, j4}
  Targets = {seat, booking}
  Bookings = {booking}
  TargetOf <- MCTargetOf
  NoJob = NoJob
  Partitions = {0, 1, 2}
  PartitionOf <- MCPartitionOf
  Members = {m1, m2}
  Readers = {m1}
  NoMember = NoMember
  MaxRetries = 0
  Arrivals = {{j3, j4}}
  MaxFaults <- MCNoFaults
SPECIFICATION FairSpec
PROPERTY JobsSettle
\* The jobs are bounded: once they are processed nothing is left to do.
CHECK_DEADLOCK FALSE
