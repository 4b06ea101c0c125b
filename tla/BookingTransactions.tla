------------------------ MODULE BookingTransactions -------------------------
(***************************************************************************)
(* The transactions of internal/repository/booking_repository.go, run      *)
(* concurrently against PostgreSQL at READ COMMITTED, one row lock per     *)
(* step.  What a transaction writes becomes visible when it commits; until *)
(* then the rows it has locked are closed to the other writers.            *)
(*                                                                         *)
(* Two clocks meet in the code: time.Now() is the current time, and SQL's  *)
(* CURRENT_TIMESTAMP is the time at which the transaction began.  Locks    *)
(* and clocks put together, each transaction is a single step of           *)
(* BookingStore, at its COMMIT.                                            *)
(***************************************************************************)
EXTENDS BookingStore

CONSTANTS Txns,                \* database connections that run transactions
          NoTx,                \* the owner of a row lock nobody holds
          MaxTime              \* bound: the clock stops here

ASSUME TransactionsAssumption ==
  /\ NoTx \notin Txns
  /\ MaxTime \in Nat

VARIABLES pc,           \* pc[t]: the statement connection t executes next
          op,           \* op[t]: the repository method it runs
          bk,           \* bk[t]: the booking it works on
          seat,         \* seat[t]: that booking's seat, once it is known
          until,        \* until[t]: the deadline the caller passed in
          start,        \* start[t]: CURRENT_TIMESTAMP of the transaction
          bookingLock,  \* bookingLock[b]: who has locked row b of bookings
          seatLock,     \* seatLock[s]: who has locked row s of seats
          eventLock     \* eventLock[e]: who has locked row e of events

local == <<pc, op, bk, seat, until, start>>
locks == <<bookingLock, seatLock, eventLock>>
vars  == <<rows, now, local, locks>>

Op == {"create", "purchase", "revert", "extend", "expire", "cancel"}

PC == {"idle", "lockBooking", "lockSeat", "lockEvent", "commit"}

\* Every variable holds a value of its type.
TypeOK ==
  /\ RowsTypeOK
  /\ now \in Nat
  /\ pc \in [Txns -> PC]
  /\ op \in [Txns -> Op \cup {"none"}]
  /\ bk \in [Txns -> Bookings \cup {NoBooking}]
  /\ seat \in [Txns -> Seats \cup {NoSeat}]
  /\ until \in [Txns -> Int]
  /\ start \in [Txns -> Int]
  /\ bookingLock \in [Bookings -> Txns \cup {NoTx}]
  /\ seatLock \in [Seats -> Txns \cup {NoTx}]
  /\ eventLock \in [Events -> Txns \cup {NoTx}]

Init ==
  /\ InitRows
  /\ now = 0
  /\ pc = [t \in Txns |-> "idle"]
  /\ op = [t \in Txns |-> "none"]
  /\ bk = [t \in Txns |-> NoBooking]
  /\ seat = [t \in Txns |-> NoSeat]
  /\ until = [t \in Txns |-> Null]
  /\ start = [t \in Txns |-> Null]
  /\ bookingLock = [b \in Bookings |-> NoTx]
  /\ seatLock = [s \in Seats |-> NoTx]
  /\ eventLock = [e \in Events |-> NoTx]

------------------------------------------------------------------------------
(* BEGIN of each repository method.                                        *)

Begin(t, o, b, s, u, firstLock) ==
  /\ pc[t] = "idle"
  /\ pc' = [pc EXCEPT ![t] = firstLock]
  /\ op' = [op EXCEPT ![t] = o]
  /\ bk' = [bk EXCEPT ![t] = b]
  /\ seat' = [seat EXCEPT ![t] = s]
  /\ until' = [until EXCEPT ![t] = u]
  /\ start' = [start EXCEPT ![t] = now]
  /\ UNCHANGED <<rows, now, locks>>

\* The identifier is one uuid.New() has not given out before.
CreateReservation(t, b, s) ==
  /\ status[b] = "none"
  /\ \A u \in Txns : bk[u] # b
  /\ Begin(t, "create", b, s, now + ReservationTimeout, "lockEvent")

CompletePurchase(t, b) ==
  /\ status[b] # "none"
  /\ Begin(t, "purchase", b, NoSeat, Null, "lockBooking")

RevertFailedPurchase(t, b) ==
  /\ status[b] # "none"
  /\ Begin(t, "revert", b, NoSeat, Null, "lockBooking")

ExtendReservation(t, b) ==
  /\ status[b] # "none"
  /\ Begin(t, "extend", b, NoSeat, now + PurchaseExtension, "lockBooking")

ReleaseExpiredReservation(t, b) ==
  /\ status[b] # "none"
  /\ Begin(t, "expire", b, NoSeat, Null, "lockBooking")

CancelReservation(t, b) ==
  /\ status[b] # "none"
  /\ Begin(t, "cancel", b, NoSeat, Null, "lockBooking")

------------------------------------------------------------------------------
(* The statements inside a transaction.                                    *)

\* The end of a transaction, with or without its writes: every lock it
\* holds is dropped and the connection is at rest.
Finish(t) ==
  /\ pc' = [pc EXCEPT ![t] = "idle"]
  /\ op' = [op EXCEPT ![t] = "none"]
  /\ bk' = [bk EXCEPT ![t] = NoBooking]
  /\ seat' = [seat EXCEPT ![t] = NoSeat]
  /\ until' = [until EXCEPT ![t] = Null]
  /\ start' = [start EXCEPT ![t] = Null]
  /\ bookingLock' =
       [b \in Bookings |-> IF bookingLock[b] = t THEN NoTx ELSE bookingLock[b]]
  /\ seatLock' =
       [s \in Seats |-> IF seatLock[s] = t THEN NoTx ELSE seatLock[s]]
  /\ eventLock' =
       [e \in Events |-> IF eventLock[e] = t THEN NoTx ELSE eventLock[e]]
  /\ UNCHANGED now

\* Faulty: SELECT without FOR UPDATE.
NoRowLock(b, t) == bookingLock

\* SELECT ... FOR UPDATE of row b of bookings.
ForUpdate(b, t) == [bookingLock EXCEPT ![b] = t]

\* findBookingForUpdateTx, then the checks on the booking.  A method that
\* does not go on leaves no trace, and neither does CompletePurchase when it
\* finds the booking purchased already and commits.
LockBooking(t) ==
  /\ pc[t] = "lockBooking"
  /\ bookingLock[bk[t]] = NoTx
  /\ UNCHANGED rows
  /\ \/ /\ Admits(op[t], bk[t], start[t], now)
        /\ pc' = [pc EXCEPT ![t] = "lockSeat"]
        /\ seat' = [seat EXCEPT ![t] = seatID[bk[t]]]
        /\ bookingLock' = ForUpdate(bk[t], t)
        /\ UNCHANGED <<now, op, bk, until, start, seatLock, eventLock>>
     \/ /\ ~Admits(op[t], bk[t], start[t], now)
        /\ Finish(t)

\* Faulty: reserveSeatTx waits for the seat.
NowaitExtendOnly(o) == o = "extend"

\* The methods that lock the seat with FOR UPDATE NOWAIT.
Nowait(o) == o \in {"create", "extend"}

\* The UPDATE of RevertFailedPurchase touches, and so locks, a sold seat only.
SeatRowMatches(o, s) == o = "revert" => seatStatus[s] = "sold"

\* The methods that move events.available_seats once they have the seat.
AfterSeat(o) ==
  IF o \in {"revert", "expire", "cancel"} THEN "lockEvent" ELSE "commit"

\* The seat is locked and admitted, or the method gives up: the check fails,
\* or it will not wait and the row is locked (ErrSeatAlreadyBooked).
LockSeat(t) ==
  /\ pc[t] = "lockSeat"
  /\ UNCHANGED rows
  /\ \/ /\ SeatRowMatches(op[t], seat[t]) => seatLock[seat[t]] = NoTx
        /\ SeatAdmits(op[t], seat[t], now)
        /\ pc' = [pc EXCEPT ![t] = AfterSeat(op[t])]
        /\ seatLock' = [seatLock EXCEPT ![seat[t]] =
                          IF SeatRowMatches(op[t], seat[t]) THEN t ELSE @]
        /\ UNCHANGED <<now, op, bk, seat, until, start,
                       bookingLock, eventLock>>
     \/ /\ seatLock[seat[t]] = NoTx
        /\ ~SeatAdmits(op[t], seat[t], now)
        /\ Finish(t)
     \/ /\ seatLock[seat[t]] # NoTx
        /\ Nowait(op[t])
        /\ Finish(t)

\* The UPDATE of events.  CreateReservation's WHERE clause asks for a seat
\* and matches nothing, without waiting, when the committed row has none.
LockEvent(t) ==
  LET e == EventOf[seat[t]]
      sellsOut == op[t] = "create" /\ availableSeats[e] <= 0
  IN  /\ pc[t] = "lockEvent"
      /\ UNCHANGED rows
      /\ \/ /\ sellsOut
            /\ Finish(t)
         \/ /\ ~sellsOut
            /\ eventLock[e] = NoTx
            /\ eventLock' = [eventLock EXCEPT ![e] = t]
            /\ pc' = [pc EXCEPT ![t] =
                        IF op[t] = "create" THEN "lockSeat" ELSE "commit"]
            /\ UNCHANGED <<now, op, bk, seat, until, start,
                           bookingLock, seatLock>>

\* tx.Commit(): the writes of the method appear and its locks go.
Commit(t) ==
  /\ pc[t] = "commit"
  /\ Finish(t)
  /\ \/ op[t] = "create" /\ InsertReservation(bk[t], seat[t], until[t])
     \/ op[t] = "purchase" /\ WritePurchase(bk[t])
     \/ op[t] = "revert" /\ WriteRevert(bk[t])
     \/ op[t] = "extend" /\ WriteExtension(bk[t], until[t])
     \/ op[t] = "expire" /\ WriteRelease(bk[t], "expired")
     \/ op[t] = "cancel" /\ WriteRelease(bk[t], "cancelled")

\* The deferred tx.Rollback(): a statement or the COMMIT fails, or the
\* server process dies and PostgreSQL drops its connection.
Rollback(t) ==
  /\ pc[t] # "idle"
  /\ Finish(t)
  /\ UNCHANGED rows

\* One statement outside any transaction; it waits for the booking's lock.
SetPaymentIntentID(b) ==
  /\ bookingLock[b] = NoTx
  /\ WritePaymentIntent(b)
  /\ UNCHANGED <<now, local, locks>>

Tick ==
  /\ now < MaxTime
  /\ now' = now + 1
  /\ UNCHANGED <<rows, local, locks>>

Step(t) == LockBooking(t) \/ LockSeat(t) \/ LockEvent(t) \/ Commit(t)

Next ==
  \/ \E t \in Txns :
       \/ \E b \in Bookings :
            \/ \E s \in Seats : CreateReservation(t, b, s)
            \/ CompletePurchase(t, b)
            \/ RevertFailedPurchase(t, b)
            \/ ExtendReservation(t, b)
            \/ ReleaseExpiredReservation(t, b)
            \/ CancelReservation(t, b)
       \/ Step(t)
       \/ Rollback(t)
  \/ \E b \in Bookings : SetPaymentIntentID(b)
  \/ Tick

Spec == Init /\ [][Next]_vars

------------------------------------------------------------------------------
(* Correctness properties.                                                 *)

\* Transaction t is blocked on a row that transaction u has locked.
WaitsFor(t, u) ==
  \/ pc[t] = "lockBooking" /\ bookingLock[bk[t]] = u
  \/ /\ pc[t] = "lockSeat"
     /\ ~Nowait(op[t])
     /\ SeatRowMatches(op[t], seat[t])
     /\ seatLock[seat[t]] = u
  \/ /\ pc[t] = "lockEvent"
     /\ op[t] = "create" => availableSeats[EventOf[seat[t]]] > 0
     /\ eventLock[EventOf[seat[t]]] = u

\* CreateReservation locks the event before the seat, RevertFailedPurchase
\* and releaseReservation the seat before the event.  Because the former
\* takes the seat with NOWAIT, transactions never wait for each other in a
\* circle, and no request is killed by PostgreSQL's deadlock detector.
NoWaitCycle ==
  \A S \in SUBSET Txns :
    S # {} => \E t \in S : \A u \in S : ~WaitsFor(t, u)

\* The row locks make every repository method atomic: although a method
\* reads, waits and writes row by row, looks at two clocks and may die in
\* between, what it leaves in the tables is one step of the store, admitted
\* by the rows as they are when it commits.
ImplementsStore == StoreSpec

------------------------------------------------------------------------------
(* The invariant that explains the others: what a transaction has locked,  *)
(* and what therefore stays true of the rows until it commits.             *)

\* A connection at rest works on no booking, one at work runs a method, and
\* only CreateReservation works on a booking that is not in the table.
LocalStateOK(t) ==
  /\ pc[t] = "idle" <=> op[t] = "none"
  /\ pc[t] = "idle" <=> bk[t] = NoBooking
  /\ pc[t] = "lockBooking" => op[t] # "create"
  /\ op[t] = "create" => /\ seat[t] \in Seats
                         /\ status[bk[t]] = "none"
                         /\ \A u \in Txns : bk[u] = bk[t] => u = t
  /\ pc[t] # "idle" /\ op[t] # "create" => status[bk[t]] # "none"
  /\ pc[t] # "idle" => start[t] \in 0 .. now
  /\ op[t] = "create" => until[t] = start[t] + ReservationTimeout
  /\ op[t] = "extend" => until[t] = start[t] + PurchaseExtension

\* Past its first lock a method other than CreateReservation owns its
\* booking, which is still as it found it; from then on it has the seat too.
LocksTaken(t) ==
  /\ (pc[t] \in {"lockSeat", "lockEvent", "commit"} /\ op[t] # "create") =>
       /\ bookingLock[bk[t]] = t
       /\ seat[t] = seatID[bk[t]]
       /\ Admits(op[t], bk[t], start[t], start[t])
  /\ (pc[t] = "commit" \/ (pc[t] = "lockEvent" /\ op[t] # "create")) =>
       seatLock[seat[t]] = t
  /\ (pc[t] = "lockEvent" /\ op[t] # "create") =>
       op[t] \in {"revert", "expire", "cancel"}
  /\ (pc[t] = "commit" /\ op[t] = "create") =>
       seatStatus[seat[t]] = "available"

\* A lock is owned by a transaction that has reached it, and an owner of an
\* event's lock never waits.
LocksOwned ==
  /\ \A b \in Bookings, t \in Txns : bookingLock[b] = t =>
       /\ bk[t] = b
       /\ op[t] # "create"
       /\ pc[t] \in {"lockSeat", "lockEvent", "commit"}
  /\ \A s \in Seats, t \in Txns : seatLock[s] = t =>
       /\ seat[t] = s
       /\ \/ pc[t] = "commit"
          \/ pc[t] = "lockEvent" /\ op[t] # "create"
  /\ \A e \in Events, t \in Txns : eventLock[e] = t =>
       /\ pc[t] \in {"lockSeat", "commit"}
       /\ pc[t] = "lockSeat" => op[t] = "create"

\* The inductive invariant of the booking transactions.
Inv ==
  /\ TypeOK
  /\ SeatsMatchBookings
  /\ AvailableSeatsExact
  /\ DeadlinesAgree
  /\ FreeSeatsUndated
  /\ \A t \in Txns : LocalStateOK(t) /\ LocksTaken(t)
  /\ LocksOwned
==============================================================================
