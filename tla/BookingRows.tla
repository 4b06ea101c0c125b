----------------------------- MODULE BookingRows -----------------------------
(***************************************************************************)
(* The rows of the tables events, seats and bookings that a booking reads  *)
(* and writes (internal/database/migrations.sql), and what each            *)
(* transaction of the booking repository writes to them when it commits    *)
(* (internal/repository/booking_repository.go).  When a transaction may    *)
(* write is the business of the modules that extend this one.              *)
(*                                                                         *)
(* A definition marked "Faulty" is used by no specification: it is the     *)
(* mistake that a property is shown to catch when it replaces the          *)
(* definition after it.                                                    *)
(***************************************************************************)
EXTENDS Integers, FiniteSets

CONSTANTS Events,     \* rows of table events
          Seats,      \* rows of table seats
          EventOf,    \* seats.event_id
          Bookings,   \* the identifiers uuid.New() may give to bookings
          NoSeat,     \* bookings.seat_id of an identifier not in use yet
          NoBooking   \* the booking of who has none

ASSUME RowsAssumption ==
  /\ IsFiniteSet(Seats)
  /\ EventOf \in [Seats -> Events]
  /\ NoSeat \notin Seats
  /\ NoBooking \notin Bookings

VARIABLES availableSeats,   \* events.available_seats
          seatStatus,       \* seats.status
          reservedUntil,    \* seats.reserved_until
          status,           \* bookings.status, "none" before the INSERT
          seatID,           \* bookings.seat_id
          expiresAt,        \* bookings.expires_at
          paymentIntentID   \* bookings.payment_intent_id: "null" or "set"

rows == <<availableSeats, seatStatus, reservedUntil,
          status, seatID, expiresAt, paymentIntentID>>

\* SQL NULL in a timestamp column.
Null == -1

SeatStatus == {"available", "reserved", "sold"}

BookingStatus == {"reserved", "purchased", "cancelled", "expired"}

RowsTypeOK ==
  /\ availableSeats \in [Events -> Int]
  /\ seatStatus \in [Seats -> SeatStatus]
  /\ reservedUntil \in [Seats -> Int]
  /\ status \in [Bookings -> BookingStatus \cup {"none"}]
  /\ seatID \in [Bookings -> Seats \cup {NoSeat}]
  /\ expiresAt \in [Bookings -> Int]
  /\ paymentIntentID \in [Bookings -> {"null", "set"}]

SeatsOf(e) == {s \in Seats : EventOf[s] = e}

FreeSeats(e) == {s \in SeatsOf(e) : seatStatus[s] = "available"}

\* Events after CreateEvent: every seat is for sale and no booking exists.
InitRows ==
  /\ availableSeats = [e \in Events |-> Cardinality(SeatsOf(e))]
  /\ seatStatus = [s \in Seats |-> "available"]
  /\ reservedUntil = [s \in Seats |-> Null]
  /\ status = [b \in Bookings |-> "none"]
  /\ seatID = [b \in Bookings |-> NoSeat]
  /\ expiresAt = [b \in Bookings |-> Null]
  /\ paymentIntentID = [b \in Bookings |-> "null"]

\* A booking that entitles its owner to its seat.
Live(b) == status[b] \in {"reserved", "purchased"}

------------------------------------------------------------------------------
(* What each transaction asks of the rows it has locked.                   *)

\* Faulty: a purchase does not ask whether the booking is still reserved.
AdmitsAnyPurchase(o, b, begun, clock) ==
  \/ o = "purchase"
  \/ o \in {"extend", "expire", "cancel"} /\ status[b] = "reserved"
  \/ o = "revert" /\ status[b] = "purchased"

\* Faulty: an expiry does not look at the deadline again under the lock.
AdmitsEarlyExpiry(o, b, begun, clock) ==
  \/ o # "revert" /\ status[b] = "reserved"
  \/ o = "revert" /\ status[b] = "purchased"

\* Does method o go on with booking b, read under its lock at time clock by
\* a transaction that began at time begun?  The Go code compares with
\* time.Now(), the WHERE clause of the UPDATE that follows with
\* CURRENT_TIMESTAMP, which is the time the transaction began.
Admits(o, b, begun, clock) ==
  \/ /\ o \in {"purchase", "extend"}
     /\ status[b] = "reserved"
     /\ clock <= expiresAt[b]
     /\ expiresAt[b] > begun
  \/ /\ o = "expire"
     /\ status[b] = "reserved"
     /\ clock >= expiresAt[b]
     /\ expiresAt[b] <= begun
  \/ o = "cancel" /\ status[b] = "reserved"
  \/ o = "revert" /\ status[b] = "purchased"

\* Faulty: reserveSeatTx looks at the deadline of the seat only.
SeatAdmitsTaken(o, s, clock) ==
  reservedUntil[s] # Null /\ o = "create" => clock >= reservedUntil[s]

\* The checks of reserveSeatTx and ExtendReservation on the seat they have
\* locked; the other methods update the seat without looking at it.
SeatAdmits(o, s, clock) ==
  /\ o = "create" => /\ seatStatus[s] = "available"
                     /\ reservedUntil[s] # Null => clock >= reservedUntil[s]
  /\ o = "extend" => /\ seatStatus[s] = "reserved"
                     /\ reservedUntil[s] # Null => clock <= reservedUntil[s]

------------------------------------------------------------------------------
(* The writes of each transaction, at its COMMIT.                          *)

\* CreateReservation: the event gives one seat away, the seat is held until
\* the deadline and the new booking row carries the same deadline.
InsertReservation(b, s, until) ==
  /\ availableSeats' = [availableSeats EXCEPT ![EventOf[s]] = @ - 1]
  /\ seatStatus' = [seatStatus EXCEPT ![s] = "reserved"]
  /\ reservedUntil' = [reservedUntil EXCEPT ![s] = until]
  /\ status' = [status EXCEPT ![b] = "reserved"]
  /\ seatID' = [seatID EXCEPT ![b] = s]
  /\ expiresAt' = [expiresAt EXCEPT ![b] = until]
  /\ UNCHANGED paymentIntentID

\* CompletePurchase: the booking is purchased and its seat sold.
WritePurchase(b) ==
  /\ status' = [status EXCEPT ![b] = "purchased"]
  /\ seatStatus' = [seatStatus EXCEPT ![seatID[b]] = "sold"]
  /\ reservedUntil' = [reservedUntil EXCEPT ![seatID[b]] = Null]
  /\ UNCHANGED <<availableSeats, seatID, expiresAt, paymentIntentID>>

\* RevertFailedPurchase: the booking is cancelled and forgets its payment
\* intent; the seat is freed only if it is still sold, but the counter goes
\* up whether or not it was.
WriteRevert(b) ==
  /\ status' = [status EXCEPT ![b] = "cancelled"]
  /\ paymentIntentID' = [paymentIntentID EXCEPT ![b] = "null"]
  /\ IF seatStatus[seatID[b]] = "sold"
     THEN /\ seatStatus' = [seatStatus EXCEPT ![seatID[b]] = "available"]
          /\ reservedUntil' = [reservedUntil EXCEPT ![seatID[b]] = Null]
     ELSE UNCHANGED <<seatStatus, reservedUntil>>
  /\ availableSeats' = [availableSeats EXCEPT ![EventOf[seatID[b]]] = @ + 1]
  /\ UNCHANGED <<seatID, expiresAt>>

\* Faulty: the seat keeps its old deadline.
WriteExtensionBookingOnly(b, until) ==
  /\ expiresAt' = [expiresAt EXCEPT ![b] = IF until > @ THEN until ELSE @]
  /\ UNCHANGED <<availableSeats, seatStatus, reservedUntil, status, seatID,
                 paymentIntentID>>

\* ExtendReservation: booking and seat get the later of the two deadlines.
WriteExtension(b, until) ==
  LET newExpiresAt == IF until > expiresAt[b] THEN until ELSE expiresAt[b]
  IN  /\ expiresAt' = [expiresAt EXCEPT ![b] = newExpiresAt]
      /\ reservedUntil' = [reservedUntil EXCEPT ![seatID[b]] = newExpiresAt]
      /\ UNCHANGED <<availableSeats, seatStatus, status, seatID,
                     paymentIntentID>>

\* Faulty: the counter is forgotten.
WriteReleaseUncounted(b, final) ==
  /\ status' = [status EXCEPT ![b] = final]
  /\ seatStatus' = [seatStatus EXCEPT ![seatID[b]] = "available"]
  /\ reservedUntil' = [reservedUntil EXCEPT ![seatID[b]] = Null]
  /\ UNCHANGED <<availableSeats, seatID, expiresAt, paymentIntentID>>

\* Faulty: the seat gets the booking's final status.
WriteReleaseMislabelled(b, final) ==
  /\ status' = [status EXCEPT ![b] = final]
  /\ seatStatus' = [seatStatus EXCEPT ![seatID[b]] = final]
  /\ reservedUntil' = [reservedUntil EXCEPT ![seatID[b]] = Null]
  /\ availableSeats' = [availableSeats EXCEPT ![EventOf[seatID[b]]] = @ + 1]
  /\ UNCHANGED <<seatID, expiresAt, paymentIntentID>>

\* releaseReservation, for an expiry or a cancellation: the seat is freed
\* whatever its status and the event's counter goes up.
WriteRelease(b, final) ==
  /\ status' = [status EXCEPT ![b] = final]
  /\ seatStatus' = [seatStatus EXCEPT ![seatID[b]] = "available"]
  /\ reservedUntil' = [reservedUntil EXCEPT ![seatID[b]] = Null]
  /\ availableSeats' = [availableSeats EXCEPT ![EventOf[seatID[b]]] = @ + 1]
  /\ UNCHANGED <<seatID, expiresAt, paymentIntentID>>

\* SetPaymentIntentID: one statement that commits by itself; an intent that
\* is already stored is never replaced.
WritePaymentIntent(b) ==
  /\ Live(b)
  /\ paymentIntentID[b] = "null"
  /\ paymentIntentID' = [paymentIntentID EXCEPT ![b] = "set"]
  /\ UNCHANGED <<availableSeats, seatStatus, reservedUntil, status, seatID,
                 expiresAt>>

------------------------------------------------------------------------------
(* What the rows of a correct store say, whatever the interleaving.        *)

\* The double-booking property of README.md ("prevent double-booking"): a
\* seat belongs to at most one live booking, and the seat's own status says
\* exactly what that booking says, so that no transaction can sell, free or
\* hold a seat that some other booking is entitled to.
SeatsMatchBookings ==
  /\ \A b \in Bookings : Live(b) =>
       /\ seatID[b] \in Seats
       /\ seatStatus[seatID[b]] =
            IF status[b] = "purchased" THEN "sold" ELSE "reserved"
  /\ \A b, c \in Bookings :
       (Live(b) /\ Live(c) /\ seatID[b] = seatID[c]) => b = c
  /\ \A s \in Seats : seatStatus[s] # "available" =>
       \E b \in Bookings : Live(b) /\ seatID[b] = s

\* events.available_seats is a counter kept beside the seats: increments and
\* decrements by concurrent transactions never let it drift from the number
\* of seats that are really available, so an event is never oversold and
\* never refuses a reservation while it has a free seat.
AvailableSeatsExact ==
  \A e \in Events : availableSeats[e] = Cardinality(FreeSeats(e))

\* The deadline is stored twice, in the seat and in the booking, and
\* ExtendReservation moves both: the two copies never differ, so a seat is
\* never offered again before the booking that holds it is due.
DeadlinesAgree ==
  \A b \in Bookings :
    status[b] = "reserved" => reservedUntil[seatID[b]] = expiresAt[b]

\* A seat that is available carries no deadline: every release erases it, so
\* the reserved_until that reserveSeatTx looks at never refuses a free seat.
FreeSeatsUndated ==
  \A s \in Seats : seatStatus[s] = "available" => reservedUntil[s] = Null

------------------------------------------------------------------------------
(* What the rows stand for.                                                *)

\* The booking that holds seat s in the abstract inventory.
HolderOf(s) ==
  IF \E b \in Bookings : Live(b) /\ seatID[b] = s
  THEN CHOOSE b \in Bookings : Live(b) /\ seatID[b] = s
  ELSE NoBooking

Inventory == INSTANCE SeatInventory WITH
  Free   <- NoBooking,
  holder <- [s \in Seats |-> HolderOf(s)],
  sold   <- {s \in Seats : seatStatus[s] = "sold"},
  used   <- {b \in Bookings : status[b] # "none"}

\* Whoever runs them, the transactions implement the inventory in which a
\* seat has one holder at a time: taken only when free, sold only to its
\* holder, and given up before it is taken again.
ImplementsInventory == Inventory!Spec
==============================================================================
