\* Two seats of one event, two bookings, two connections.
CONSTANTS
  e1 = e1
  s1 = s1
  s2 = s2
  b1 = b1
  b2 = b2
  t1 = t1
  t2 = t2
  Events = {e1}
  Seats = {s1, s2}
  EventOf <- MCEventOf
  Bookings = {b1, b2}
  NoSeat = NoSeat
  Txns = {t1, t2}
  NoTx = NoTx
  NoBooking = NoBooking
  ReservationTimeout = 1
  PurchaseExtension = 2
  MaxTime = 2
SPECIFICATION Spec
SYMMETRY Symmetry
INVARIANTS TypeOK SeatsMatchBookings AvailableSeatsExact DeadlinesAgree
           NoWaitCycle Inv
PROPERTIES ImplementsStore ImplementsInventory
