\* One seat, two bookings of it one after the other, three attempts to buy.
CONSTANTS
  e1 = e1
  s1 = s1
  b1 = b1
  b2 = b2
  a1 = a1
  a2 = a2
  a3 = a3
  Events = {e1}
  Seats = {s1}
  EventOf <- MCEventOf
  Bookings = {b1, b2}
  NoSeat = NoSeat
  NoBooking = NoBooking
  Attempts = {a1, a2, a3}
  ReservationTimeout = 1
  PurchaseExtension = 1
  MaxTime = 2
  StripeMayTimeOut = TRUE
SPECIFICATION Spec
SYMMETRY Symmetry
INVARIANTS TypeOK ChargedOnlyAfterSale PurchasedHasIntent
           ExtensionCoversPurchase OkMeansPaid SoldIsTended
\* The attempts are bounded: once they are used up nothing is left to do.
CHECK_DEADLOCK FALSE
