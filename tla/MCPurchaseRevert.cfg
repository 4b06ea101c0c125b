\* Two attempts on one booking, and a Stripe whose replies always arrive.
CONSTANTS
  e1 = e1
  s1 = s1
  b1 = b1
  b2 = b2
  a1 = a1
  a2 = a2
  a3 = a3
  Events = {e1}
  Seats = {s1}
  EventOf <- MCEventOf
  Bookings = {b1}
  NoSeat = NoSeat
  NoBooking = NoBooking
  Attempts = {a1, a2}
  ReservationTimeout = 1
  PurchaseExtension = 1
  MaxTime = 0
  StripeMayTimeOut = FALSE
SPECIFICATION Spec
SYMMETRY Symmetry
PROPERTY RevertsOnlyUnpaid
\* The attempts are bounded: once they are used up nothing is left to do.
CHECK_DEADLOCK FALSE
