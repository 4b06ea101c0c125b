---------------------------- MODULE BookingStore -----------------------------
(***************************************************************************)
(* The booking repository with every method as one atomic step: what       *)
(* internal/repository/booking_repository.go promises to the services that *)
(* call it.  BookingTransactions implements it lock by lock; PurchaseFlow  *)
(* and ExpiryRelease use it.                                               *)
(*                                                                         *)
(* A call reads the clock up to three times: when the service computes a   *)
(* deadline (asked), when the transaction begins (begun, which is SQL's    *)
(* CURRENT_TIMESTAMP) and when the method looks at the rows it has locked  *)
(* (clock).                                                                *)
(***************************************************************************)
EXTENDS BookingRows

CONSTANTS ReservationTimeout,  \* how long ReserveSeat holds a seat
          PurchaseExtension    \* how long PurchaseBooking extends the hold

ASSUME StoreAssumption ==
  /\ ReservationTimeout \in Nat \ {0}
  /\ PurchaseExtension \in Nat \ {0}

VARIABLE now   \* the wall clock

storeVars == <<rows, now>>

\* CreateReservation, for an identifier uuid.New() has not given out before.
Reserve(b, s, asked, clock) ==
  /\ status[b] = "none"
  /\ availableSeats[EventOf[s]] > 0
  /\ SeatAdmits("create", s, clock)
  /\ InsertReservation(b, s, asked + ReservationTimeout)

\* CompletePurchase.
Purchase(b, begun, clock) ==
  /\ Admits("purchase", b, begun, clock)
  /\ WritePurchase(b)

\* RevertFailedPurchase, which looks at no clock.
Revert(b) ==
  /\ Admits("revert", b, now, now)
  /\ WriteRevert(b)

\* ExtendReservation.
Extend(b, asked, begun, clock) ==
  /\ Admits("extend", b, begun, clock)
  /\ SeatAdmits("extend", seatID[b], clock)
  /\ WriteExtension(b, asked + PurchaseExtension)

\* ReleaseExpiredReservation.
Expire(b, begun, clock) ==
  /\ Admits("expire", b, begun, clock)
  /\ WriteRelease(b, "expired")

\* CancelReservation, which looks at no clock either.
Cancel(b) ==
  /\ Admits("cancel", b, now, now)
  /\ WriteRelease(b, "cancelled")

\* A method, SetPaymentIntentID included, succeeds with booking b.  Between
\* the time its transaction begins and the time it looks at the rows it may
\* wait for locks, and it commits at some later time.
StoreStep(b) ==
  \/ \E s \in Seats, asked, clock \in 0 .. now : Reserve(b, s, asked, clock)
  \/ \E begun \in 0 .. now : \E clock \in begun .. now :
       \/ Purchase(b, begun, clock)
       \/ Expire(b, begun, clock)
       \/ \E asked \in 0 .. now : Extend(b, asked, begun, clock)
  \/ Revert(b)
  \/ Cancel(b)
  \/ WritePaymentIntent(b)

TimePasses ==
  /\ now' \in Nat /\ now' > now
  /\ UNCHANGED rows

StoreInit == InitRows /\ now = 0

StoreNext ==
  \/ \E b \in Bookings : StoreStep(b) /\ UNCHANGED now
  \/ TimePasses

StoreSpec == StoreInit /\ [][StoreNext]_storeVars

------------------------------------------------------------------------------
(* Correctness properties.                                                 *)

\* A reservation keeps the deadline it was promised: while it is reserved
\* its expires_at never moves back, whichever of ExtendReservation and
\* CreateReservation set it, and ReleaseExpiredReservation, even one that
\* began before the extension, takes the seat away only once that deadline
\* has passed.
DeadlineKept ==
  [][\A b \in Bookings : status[b] = "reserved" =>
       /\ expiresAt'[b] >= expiresAt[b]
       /\ status'[b] = "expired" => now >= expiresAt[b]]_rows
==============================================================================
