--------------------- MODULE BookingTransactionsProofs ----------------------
(***************************************************************************)
(* What holds of the booking transactions for any number of events, seats, *)
(* bookings and connections, proved from the inductive invariant Inv.      *)
(***************************************************************************)
EXTENDS BookingTransactions, BookingStoreProofs

USE RowsAssumption, StoreAssumption, TransactionsAssumption

\* The status a method has found its booking in and relies on until COMMIT.
Expected(o) == IF o = "revert" THEN "purchased" ELSE "reserved"

\* A booking that is admitted is live, and as the method expects it.
LEMMA AdmittedStatus ==
  ASSUME NEW o, NEW b, NEW x, NEW y, Admits(o, b, x, y)
  PROVE  Live(b) /\ status[b] = Expected(o)
BY DEF Admits, Live, Expected

\* The first state satisfies the invariant.
LEMMA InitInv == Init => Inv
<1> SUFFICES ASSUME Init PROVE Inv
  OBVIOUS
<1>1. RowsInv
  BY InitRowsInv DEF Init
<1>2. TypeOK
  BY <1>1 DEF RowsInv, Init, TypeOK, Null, PC
<1>5. \A t \in Txns : LocalStateOK(t) /\ LocksTaken(t)
  BY DEF Init, LocalStateOK, LocksTaken
<1>6. LocksOwned
  BY DEF Init, LocksOwned
<1> QED
  BY <1>1, <1>2, <1>5, <1>6 DEF RowsInv, Inv

------------------------------------------------------------------------------
(* Steps that leave the rows alone.                                        *)

\* BEGIN: the connection takes no lock yet.
LEMMA BeginKeepsInv ==
  ASSUME Inv, NEW t \in Txns, NEW o \in Op, NEW b \in Bookings,
         NEW s \in Seats \cup {NoSeat}, NEW u \in Int,
         NEW l \in {"lockBooking", "lockEvent"},
         Begin(t, o, b, s, u, l),
         o = "create" => u = now + ReservationTimeout,
         o = "extend" => u = now + PurchaseExtension,
         IF o = "create"
         THEN /\ l = "lockEvent"
              /\ s \in Seats
              /\ status[b] = "none"
              /\ \A v \in Txns : bk[v] # b
         ELSE l = "lockBooking" /\ status[b] # "none"
  PROVE  Inv'
<1> USE DEF Inv
<1>1. TypeOK'
  BY DEF Begin, TypeOK, RowsTypeOK, rows, locks, PC
<1>2. (SeatsMatchBookings /\ AvailableSeatsExact /\ DeadlinesAgree /\ FreeSeatsUndated)'
  BY RowsStutter DEF RowsInv, Begin, TypeOK
<1>3. ASSUME NEW v \in Txns PROVE LocalStateOK(v)'
  <2>1. CASE v = t
    BY <2>1 DEF Begin, TypeOK, LocalStateOK, rows, Op, PC
  <2>2. CASE v # t
    <3>1. /\ pc'[v] = pc[v] /\ op'[v] = op[v] /\ bk'[v] = bk[v]
          /\ seat'[v] = seat[v] /\ until'[v] = until[v] /\ start'[v] = start[v]
          /\ UNCHANGED <<now, status>>
      BY <2>2 DEF Begin, TypeOK, rows
    <3>2. \A w \in Txns : bk'[w] = IF w = t THEN b ELSE bk[w]
      BY DEF Begin, TypeOK
    <3>3. LocalStateOK(v)
      OBVIOUS
    <3>4. op[v] = "create" => \A w \in Txns : bk'[w] = bk'[v] => w = v
      BY <2>2, <3>2, <3>3 DEF LocalStateOK
    <3> QED
      BY <3>1, <3>3, <3>4 DEF LocalStateOK
  <2> QED
    BY <2>1, <2>2
<1>4. ASSUME NEW v \in Txns PROVE LocksTaken(v)'
  BY DEF Begin, TypeOK, LocksTaken, LocalStateOK, rows, locks, Op, PC, Admits
<1>5. LocksOwned'
  BY DEF Begin, TypeOK, LocksOwned, LocalStateOK, locks, PC
<1> QED
  BY <1>1, <1>2, <1>3, <1>4, <1>5

\* A transaction that ends without writing.
LEMMA FinishKeepsInv ==
  ASSUME Inv, NEW t \in Txns, Finish(t), UNCHANGED rows
  PROVE  Inv'
<1> USE DEF Inv
<1>1. TypeOK'
  BY DEF Finish, TypeOK, RowsTypeOK, rows, PC, Null
<1>2. (SeatsMatchBookings /\ AvailableSeatsExact /\ DeadlinesAgree /\ FreeSeatsUndated)'
  BY RowsStutter DEF RowsInv, TypeOK
<1>3. ASSUME NEW v \in Txns PROVE LocalStateOK(v)'
  BY DEF Finish, TypeOK, LocalStateOK, rows, Op, PC
<1>4. ASSUME NEW v \in Txns PROVE LocksTaken(v)'
  <2>1. CASE v = t
    BY <2>1 DEF Finish, TypeOK, LocksTaken
  <2>2. CASE v # t
    <3>1. LocksTaken(v) /\ LocalStateOK(v)
      OBVIOUS
    <3>2. /\ pc'[v] = pc[v] /\ op'[v] = op[v] /\ bk'[v] = bk[v]
          /\ seat'[v] = seat[v] /\ start'[v] = start[v] /\ now' = now
      BY <2>2 DEF Finish, TypeOK
    <3>3. \A b \in Bookings : bookingLock[b] = v => bookingLock'[b] = v
      BY <2>2 DEF Finish, TypeOK
    <3>4. \A s \in Seats : seatLock[s] = v => seatLock'[s] = v
      BY <2>2 DEF Finish, TypeOK
    <3> QED
      BY <3>1, <3>2, <3>3, <3>4
         DEF LocksTaken, rows, TypeOK, RowsTypeOK, LocalStateOK, SeatsMatchBookings, Live, Admits
  <2> QED
    BY <2>1, <2>2
<1>5. LocksOwned'
  BY DEF Finish, TypeOK, LocksOwned
<1> QED
  BY <1>1, <1>2, <1>3, <1>4, <1>5

\* SELECT ... FROM bookings ... FOR UPDATE.
LEMMA LockBookingKeepsInv ==
  ASSUME Inv, NEW t \in Txns, LockBooking(t)
  PROVE  Inv'
<1> USE DEF Inv
<1>1. CASE Finish(t)
  BY <1>1, FinishKeepsInv DEF LockBooking
<1>2. CASE ~Finish(t)
  <2>1. /\ Admits(op[t], bk[t], start[t], now)
        /\ pc' = [pc EXCEPT ![t] = "lockSeat"]
        /\ seat' = [seat EXCEPT ![t] = seatID[bk[t]]]
        /\ bookingLock' = [bookingLock EXCEPT ![bk[t]] = t]
        /\ UNCHANGED <<rows, now, op, bk, until, start, seatLock, eventLock>>
    BY <1>2 DEF LockBooking, ForUpdate
  <2>2. /\ pc[t] = "lockBooking" /\ bookingLock[bk[t]] = NoTx
        /\ op[t] \in Op /\ op[t] # "create" /\ bk[t] \in Bookings
        /\ seatID[bk[t]] \in Seats /\ start[t] \in 0 .. now
        /\ Admits(op[t], bk[t], start[t], start[t])
    <3>1. /\ pc[t] = "lockBooking" /\ bookingLock[bk[t]] = NoTx
          /\ op[t] \in Op /\ op[t] # "create" /\ bk[t] \in Bookings
          /\ start[t] \in 0 .. now /\ now \in Nat
      BY <2>1 DEF LockBooking, TypeOK, LocalStateOK
    <3>2. seatID[bk[t]] \in Seats
      BY <2>1, <3>1, AdmittedStatus DEF SeatsMatchBookings
    <3>3. expiresAt[bk[t]] \in Int
      BY <3>1 DEF TypeOK, RowsTypeOK
    <3>4. Admits(op[t], bk[t], start[t], start[t])
      BY <2>1, <3>1, <3>3 DEF Admits
    <3> QED
      BY <3>1, <3>2, <3>4
  <2>3. TypeOK'
    BY <2>1, <2>2 DEF TypeOK, RowsTypeOK, rows, PC
  <2>4. (SeatsMatchBookings /\ AvailableSeatsExact /\ DeadlinesAgree /\ FreeSeatsUndated)'
    BY <2>1, RowsStutter DEF RowsInv, TypeOK
  <2>5. ASSUME NEW v \in Txns PROVE LocalStateOK(v)'
    BY <2>1, <2>2 DEF TypeOK, LocalStateOK, rows, Op, PC
  <2>6. ASSUME NEW v \in Txns PROVE LocksTaken(v)'
    <3>1. CASE v = t
      BY <2>1, <2>2, <3>1 DEF TypeOK, LocksTaken, rows, Op, PC, Admits
    <3>2. CASE v # t
      BY <2>1, <2>2, <3>2 DEF TypeOK, LocksTaken, rows, Admits
    <3> QED
      BY <3>1, <3>2
  <2>7. LocksOwned'
    BY <2>1, <2>2 DEF TypeOK, LocksOwned, PC
  <2> QED
    BY <2>3, <2>4, <2>5, <2>6, <2>7
<1> QED
  BY <1>1, <1>2

\* The lock on the seat, waited for or not.
LEMMA LockSeatKeepsInv ==
  ASSUME Inv, NEW t \in Txns, LockSeat(t)
  PROVE  Inv'
<1> USE DEF Inv
<1>1. CASE Finish(t)
  BY <1>1, FinishKeepsInv DEF LockSeat
<1>2. CASE ~Finish(t)
  <2>1. /\ SeatRowMatches(op[t], seat[t]) => seatLock[seat[t]] = NoTx
        /\ SeatAdmits(op[t], seat[t], now)
        /\ pc' = [pc EXCEPT ![t] = AfterSeat(op[t])]
        /\ seatLock' = [seatLock EXCEPT ![seat[t]] =
                          IF SeatRowMatches(op[t], seat[t]) THEN t ELSE @]
        /\ UNCHANGED <<rows, now, op, bk, seat, until, start,
                       bookingLock, eventLock>>
        /\ pc[t] = "lockSeat"
    BY <1>2 DEF LockSeat
  <2>2. op[t] \in Op /\ bk[t] \in Bookings /\ seat[t] \in Seats
    BY <2>1 DEF TypeOK, LocalStateOK, LocksTaken, SeatsMatchBookings, Live,
                Admits
  <2>3. /\ SeatRowMatches(op[t], seat[t])
        /\ seatLock[seat[t]] = NoTx
        /\ seatLock' = [seatLock EXCEPT ![seat[t]] = t]
    <3>1. op[t] = "revert" =>
            Live(bk[t]) /\ status[bk[t]] = "purchased" /\ seat[t] = seatID[bk[t]]
      BY <2>1 DEF LocksTaken, Admits, Live
    <3>2. SeatRowMatches(op[t], seat[t])
      BY <2>2, <3>1 DEF SeatRowMatches, SeatsMatchBookings
    <3> QED
      BY <2>1, <3>2
  <2>4. TypeOK'
    BY <2>1, <2>2, <2>3 DEF TypeOK, RowsTypeOK, rows, PC, AfterSeat
  <2>5. (SeatsMatchBookings /\ AvailableSeatsExact /\ DeadlinesAgree /\ FreeSeatsUndated)'
    BY <2>1, RowsStutter DEF RowsInv, TypeOK
  <2>6. ASSUME NEW v \in Txns PROVE LocalStateOK(v)'
    BY <2>1, <2>2 DEF TypeOK, LocalStateOK, rows, AfterSeat
  <2>7. ASSUME NEW v \in Txns PROVE LocksTaken(v)'
    <3>1. CASE v = t
      BY <2>1, <2>2, <2>3, <3>1
      DEF TypeOK, LocksTaken, rows, Op, AfterSeat, SeatAdmits, Admits
    <3>2. CASE v # t
      BY <2>1, <2>2, <2>3, <3>2 DEF TypeOK, LocksTaken, rows, Admits
    <3> QED
      BY <3>1, <3>2
  <2>8. LocksOwned'
    BY <2>1, <2>2, <2>3 DEF TypeOK, LocksOwned, PC, AfterSeat, LocksTaken
  <2> QED
    BY <2>4, <2>5, <2>6, <2>7, <2>8
<1> QED
  BY <1>1, <1>2

\* The UPDATE of the event's row.
LEMMA LockEventKeepsInv ==
  ASSUME Inv, NEW t \in Txns, LockEvent(t)
  PROVE  Inv'
<1> USE DEF Inv
<1>1. CASE Finish(t)
  BY <1>1, FinishKeepsInv DEF LockEvent
<1>2. CASE ~Finish(t)
  <2>1. /\ pc[t] = "lockEvent"
        /\ eventLock[EventOf[seat[t]]] = NoTx
        /\ eventLock' = [eventLock EXCEPT ![EventOf[seat[t]]] = t]
        /\ pc' = [pc EXCEPT ![t] =
                    IF op[t] = "create" THEN "lockSeat" ELSE "commit"]
        /\ UNCHANGED <<rows, now, op, bk, seat, until, start,
                       bookingLock, seatLock>>
    BY <1>2 DEF LockEvent
  <2>2. op[t] \in Op /\ seat[t] \in Seats /\ EventOf[seat[t]] \in Events
    BY <2>1 DEF TypeOK, LocalStateOK, LocksTaken, SeatsMatchBookings, Live,
                Admits
  <2>3. TypeOK'
    BY <2>1, <2>2 DEF TypeOK, RowsTypeOK, rows, PC
  <2>4. (SeatsMatchBookings /\ AvailableSeatsExact /\ DeadlinesAgree /\ FreeSeatsUndated)'
    BY <2>1, RowsStutter DEF RowsInv, TypeOK
  <2>5. ASSUME NEW v \in Txns PROVE LocalStateOK(v)'
    BY <2>1 DEF TypeOK, LocalStateOK, rows
  <2>6. ASSUME NEW v \in Txns PROVE LocksTaken(v)'
    BY <2>1, <2>2 DEF TypeOK, LocksTaken, rows, Admits
  <2>7. LocksOwned'
    BY <2>1, <2>2 DEF TypeOK, LocksOwned
  <2> QED
    BY <2>3, <2>4, <2>5, <2>6, <2>7
<1> QED
  BY <1>1, <1>2

\* The clock, and the statement that stores a payment intent.
LEMMA TickKeepsInv == Inv /\ Tick => Inv'
<1> SUFFICES ASSUME Inv, Tick PROVE Inv'
  OBVIOUS
<1> USE DEF Inv
<1>1. TypeOK'
  BY DEF Tick, TypeOK, RowsTypeOK, rows, local, locks
<1>2. (SeatsMatchBookings /\ AvailableSeatsExact /\ DeadlinesAgree /\ FreeSeatsUndated)'
  BY RowsStutter DEF RowsInv, TypeOK, Tick
<1>3. ASSUME NEW v \in Txns PROVE (LocalStateOK(v) /\ LocksTaken(v))'
  BY DEF Tick, TypeOK, RowsTypeOK, LocalStateOK, LocksTaken, Admits,
         rows, local, locks
<1>4. LocksOwned'
  BY DEF Tick, LocksOwned, local, locks
<1> QED
  BY <1>1, <1>2, <1>3, <1>4

\* SetPaymentIntentID writes a column that no other method decides on.
LEMMA SetPaymentIntentIDKeepsInv ==
  ASSUME Inv, NEW b \in Bookings, SetPaymentIntentID(b)
  PROVE  Inv'
<1> USE DEF Inv
<1>1. TypeOK'
  BY DEF SetPaymentIntentID, WritePaymentIntent, TypeOK, RowsTypeOK, local, locks
<1>2. (SeatsMatchBookings /\ AvailableSeatsExact /\ DeadlinesAgree /\ FreeSeatsUndated)'
  BY DEF SetPaymentIntentID, WritePaymentIntent, SeatsMatchBookings,
         AvailableSeatsExact, DeadlinesAgree, FreeSeatsUndated, Live, FreeSeats, SeatsOf
<1>3. ASSUME NEW v \in Txns PROVE (LocalStateOK(v) /\ LocksTaken(v))'
  BY DEF SetPaymentIntentID, WritePaymentIntent, LocalStateOK, LocksTaken,
         Admits, local, locks
<1>4. LocksOwned'
  BY DEF SetPaymentIntentID, LocksOwned, local, locks
<1> QED
  BY <1>1, <1>2, <1>3, <1>4

------------------------------------------------------------------------------
(* COMMIT.                                                                 *)

\* What the invariant says of a transaction about to commit: it has the seat
\* to itself and, unless it creates it, the booking.
LEMMA AboutToCommit ==
  ASSUME Inv, NEW t \in Txns, pc[t] = "commit"
  PROVE  /\ op[t] \in Op /\ bk[t] \in Bookings /\ seat[t] \in Seats
         /\ seatLock[seat[t]] = t
         /\ op[t] = "create" =>
              status[bk[t]] = "none" /\ seatStatus[seat[t]] = "available"
         /\ op[t] # "create" =>
              /\ seat[t] = seatID[bk[t]]
              /\ bookingLock[bk[t]] = t
              /\ Live(bk[t])
              /\ status[bk[t]] = Expected(op[t])
              /\ seatStatus[seat[t]] =
                   IF op[t] = "revert" THEN "sold" ELSE "reserved"
<1> USE DEF Inv
<1>1. op[t] \in Op /\ bk[t] \in Bookings
  BY DEF TypeOK, LocalStateOK
<1>2. LocksTaken(t) /\ LocalStateOK(t)
  OBVIOUS
<1>3. CASE op[t] = "create"
  BY <1>1, <1>2, <1>3 DEF LocksTaken, LocalStateOK
<1>4. CASE op[t] # "create"
  <2>1. /\ seat[t] = seatID[bk[t]] /\ bookingLock[bk[t]] = t
        /\ Admits(op[t], bk[t], start[t], start[t]) /\ seatLock[seat[t]] = t
    BY <1>2, <1>4 DEF LocksTaken
  <2>2. Live(bk[t]) /\ status[bk[t]] = Expected(op[t])
    BY <2>1, AdmittedStatus
  <2>3. /\ seatID[bk[t]] \in Seats
        /\ seatStatus[seatID[bk[t]]] =
             IF status[bk[t]] = "purchased" THEN "sold" ELSE "reserved"
    BY <1>1, <2>2 DEF SeatsMatchBookings
  <2> QED
    BY <1>1, <1>4, <2>1, <2>2, <2>3 DEF Expected
<1> QED
  BY <1>3, <1>4

\* A committing transaction touches no row that another one relies on.
LEMMA CommitKeepsLocks ==
  ASSUME Inv, NEW t \in Txns, Commit(t)
  PROVE  /\ TypeOK'
         /\ \A v \in Txns : (LocalStateOK(v) /\ LocksTaken(v))'
         /\ LocksOwned'
<1> USE DEF Inv
<1>0. pc[t] = "commit" /\ Finish(t)
  BY DEF Commit
<1>1. /\ op[t] \in Op /\ bk[t] \in Bookings /\ seat[t] \in Seats
      /\ seatLock[seat[t]] = t
      /\ op[t] # "create" => seat[t] = seatID[bk[t]] /\ bookingLock[bk[t]] = t
      /\ op[t] # "create" => seatStatus[seat[t]] = IF op[t] = "revert" THEN "sold" ELSE "reserved"
  BY <1>0, AboutToCommit
<1>2. TypeOK'
  <2>1. RowsTypeOK'
    <3> USE <1>1 DEF TypeOK, RowsTypeOK, SeatStatus, BookingStatus, Null
    <3>1. CASE op[t] = "create"
      BY <3>1 DEF Commit, InsertReservation
    <3>2. CASE op[t] = "purchase"
      BY <3>2 DEF Commit, WritePurchase
    <3>3. CASE op[t] = "revert"
      BY <3>3 DEF Commit, WriteRevert
    <3>4. CASE op[t] = "extend"
      BY <3>4 DEF Commit, WriteExtension
    <3>5. CASE op[t] \in {"expire", "cancel"}
      BY <3>5 DEF Commit, WriteRelease
    <3> QED
      BY <3>1, <3>2, <3>3, <3>4, <3>5 DEF Op
  <2> QED
    BY <1>0, <2>1 DEF Finish, TypeOK, PC, Null
<1>3. \* the rows another booking or seat has are as they were
      /\ \A b \in Bookings \ {bk[t]} :
           /\ status'[b] = status[b] /\ seatID'[b] = seatID[b]
           /\ expiresAt'[b] = expiresAt[b]
      /\ \A s \in Seats \ {seat[t]} : seatStatus'[s] = seatStatus[s]
      /\ status'[bk[t]] # "none"
  <2> USE <1>1 DEF TypeOK, RowsTypeOK
  <2>1. CASE op[t] = "create"
    BY <2>1 DEF Commit, InsertReservation
  <2>2. CASE op[t] = "purchase"
    BY <2>2 DEF Commit, WritePurchase
  <2>3. CASE op[t] = "revert"
    BY <2>3 DEF Commit, WriteRevert
  <2>4. CASE op[t] = "extend"
    BY <2>4, AboutToCommit, <1>0 DEF Commit, WriteExtension, Expected
  <2>5. CASE op[t] \in {"expire", "cancel"}
    BY <2>5 DEF Commit, WriteRelease
  <2> QED
    BY <2>1, <2>2, <2>3, <2>4, <2>5 DEF Op
<1>4. ASSUME NEW v \in Txns PROVE LocalStateOK(v)'
  <2>1. CASE v = t
    BY <1>0, <2>1 DEF Finish, TypeOK, LocalStateOK, Op
  <2>2. CASE v # t
    <3>1. /\ pc'[v] = pc[v] /\ op'[v] = op[v] /\ bk'[v] = bk[v]
          /\ seat'[v] = seat[v] /\ until'[v] = until[v] /\ start'[v] = start[v]
          /\ UNCHANGED now
      BY <1>0, <2>2 DEF Finish, TypeOK
    <3>2. op[v] = "create" => bk[v] \in Bookings \ {bk[t]}
      BY <1>1, <2>2 DEF LocalStateOK, TypeOK
    <3>3. pc[v] # "idle" /\ op[v] # "create" => status'[bk[v]] # "none"
      BY <1>3 DEF LocalStateOK, TypeOK
    <3>4. op[v] = "create" => \A u \in Txns : bk'[u] = bk'[v] => u = v
      BY <1>0, <3>1, <3>2 DEF LocalStateOK, Finish, TypeOK
    <3> QED
      BY <1>3, <3>1, <3>2, <3>3, <3>4 DEF LocalStateOK
  <2> QED
    BY <2>1, <2>2
<1>5. ASSUME NEW v \in Txns PROVE LocksTaken(v)'
  <2>1. CASE v = t
    BY <1>0, <2>1 DEF Finish, TypeOK, LocksTaken
  <2>2. CASE v # t
    <3>1. /\ pc'[v] = pc[v] /\ op'[v] = op[v] /\ bk'[v] = bk[v]
          /\ seat'[v] = seat[v] /\ start'[v] = start[v] /\ now' = now
          /\ \A b \in Bookings : bookingLock[b] = v => bookingLock'[b] = v
          /\ \A s \in Seats : seatLock[s] = v => seatLock'[s] = v
      BY <1>0, <2>2 DEF Finish, TypeOK
    <3>2. LocksTaken(v) /\ LocalStateOK(v)
      OBVIOUS
    <3>3. (pc[v] \in {"lockSeat", "lockEvent", "commit"} /\ op[v] # "create")
            => bk[v] \in Bookings \ {bk[t]} /\ seat[v] \in Seats
      BY <1>1, <2>2, <3>2 DEF LocksTaken, LocalStateOK, TypeOK,
           SeatsMatchBookings, Live, Admits
    <3>4. (pc[v] = "commit" /\ op[v] = "create") =>
            seat[v] \in Seats \ {seat[t]}
      BY <1>1, <2>2, <3>2 DEF LocksTaken, LocalStateOK
    <3>5. (pc[v] = "lockSeat" \/ pc[v] = "commit") /\ op[v] = "create" => seat[v] \in Seats
      BY <3>2 DEF LocalStateOK
    <3> QED
      BY <1>3, <3>1, <3>2, <3>3, <3>4, <3>5 DEF LocksTaken, Admits, TypeOK, PC, Op
  <2> QED
    BY <2>1, <2>2
<1>6. LocksOwned'
  BY <1>0 DEF Finish, TypeOK, LocksOwned
<1> QED
  BY <1>2, <1>4, <1>5, <1>6

\* A COMMIT is one step of the store: whatever the transaction has read of
\* the rows still holds, because it has them locked, and the clocks it has
\* read lie between its beginning and now.
LEMMA CommitIsStoreStep ==
  ASSUME Inv, NEW t \in Txns, Commit(t)
  PROVE  bk[t] \in Bookings /\ StoreStep(bk[t]) /\ UNCHANGED now
<1> USE DEF Inv
<1> DEFINE b == bk[t]
           s == seat[t]
           at == start[t]
<1>0. pc[t] = "commit" /\ UNCHANGED now
  BY DEF Commit, Finish
<1>1. /\ op[t] \in Op /\ b \in Bookings /\ s \in Seats
      /\ op[t] = "create" => status[b] = "none" /\ seatStatus[s] = "available"
      /\ op[t] # "create" => s = seatID[b] /\ Live(b)
  BY <1>0, AboutToCommit
<1>2. /\ at \in 0 .. now /\ at \in at .. now
      /\ op[t] = "create" => until[t] = at + ReservationTimeout
      /\ op[t] = "extend" => until[t] = at + PurchaseExtension
  BY <1>0 DEF LocalStateOK, TypeOK
<1>3. op[t] # "create" => Admits(op[t], b, at, at)
  BY <1>0 DEF LocksTaken
<1>4. CASE op[t] = "create"
  <2>1. availableSeats[EventOf[s]] > 0
    <3>1. s \in FreeSeats(EventOf[s]) /\ EventOf[s] \in Events
      BY <1>1, <1>4 DEF FreeSeats, SeatsOf
    <3>2. IsFiniteSet(FreeSeats(EventOf[s]))
      BY FS_Subset DEF FreeSeats, SeatsOf
    <3>3. Cardinality(FreeSeats(EventOf[s])) \in Nat /\ Cardinality(FreeSeats(EventOf[s])) # 0
      BY <3>1, <3>2, FS_CardinalityType, FS_EmptySet
    <3> QED
      BY <3>1, <3>3 DEF AvailableSeatsExact
  <2>2. SeatAdmits("create", s, at)
    BY <1>1, <1>4 DEF SeatAdmits, FreeSeatsUndated
  <2>3. InsertReservation(b, s, at + ReservationTimeout)
    BY <1>2, <1>4 DEF Commit
  <2>4. Reserve(b, s, at, at)
    BY <1>1, <1>4, <2>1, <2>2, <2>3 DEF Reserve
  <2> QED
    BY <1>0, <1>1, <1>2, <2>4 DEF StoreStep
<1>5. CASE op[t] = "extend"
  <2>1. SeatAdmits("extend", seatID[b], at)
    <3>1. status[b] = "reserved" /\ at <= expiresAt[b]
      BY <1>3, <1>5 DEF Admits
    <3>2. seatStatus[seatID[b]] = "reserved" /\ reservedUntil[seatID[b]] = expiresAt[b]
      BY <1>1, <1>5, <3>1 DEF SeatsMatchBookings, DeadlinesAgree
    <3> QED
      BY <3>1, <3>2 DEF SeatAdmits
  <2>2. WriteExtension(b, at + PurchaseExtension)
    BY <1>2, <1>5 DEF Commit
  <2>3. Extend(b, at, at, at)
    BY <1>3, <1>5, <2>1, <2>2 DEF Extend
  <2> QED
    BY <1>0, <1>1, <1>2, <2>3 DEF StoreStep
<1>6. CASE op[t] = "purchase"
  <2>1. Purchase(b, at, at)
    BY <1>3, <1>6 DEF Commit, Purchase
  <2> QED
    BY <1>0, <1>1, <1>2, <2>1 DEF StoreStep
<1>7. CASE op[t] = "expire"
  <2>1. Expire(b, at, at)
    BY <1>3, <1>7 DEF Commit, Expire
  <2> QED
    BY <1>0, <1>1, <1>2, <2>1 DEF StoreStep
<1>8. CASE op[t] = "revert"
  <2>1. Revert(b)
    BY <1>3, <1>8 DEF Commit, Revert, Admits
  <2> QED
    BY <1>0, <1>1, <2>1 DEF StoreStep
<1>9. CASE op[t] = "cancel"
  <2>1. Cancel(b)
    BY <1>3, <1>9 DEF Commit, Cancel, Admits
  <2> QED
    BY <1>0, <1>1, <2>1 DEF StoreStep
<1> QED
  BY <1>1, <1>4, <1>5, <1>6, <1>7, <1>8, <1>9 DEF Op

\* A COMMIT leaves the rows consistent.
LEMMA CommitKeepsRows ==
  ASSUME Inv, NEW t \in Txns, Commit(t)
  PROVE  RowsInv'
<1>1. RowsInv /\ now \in Nat
  BY DEF Inv, TypeOK, RowsInv
<1>2. RowStep
  BY <1>1, CommitIsStoreStep, StoreStepWrites
<1> QED
  BY <1>1, <1>2, RowStepKeepsRows

------------------------------------------------------------------------------
(* The invariant and what follows from it.                                 *)

\* Every step of every method, of the clock and of a failing connection
\* keeps the invariant.
LEMMA NextKeepsInv == Inv /\ [Next]_vars => Inv'
<1> SUFFICES ASSUME Inv, [Next]_vars PROVE Inv'
  OBVIOUS
<1>1. ASSUME NEW t \in Txns, NEW b \in Bookings, NEW s \in Seats,
             CreateReservation(t, b, s)
      PROVE  Inv'
  <2>1. now + ReservationTimeout \in Int
    BY DEF Inv, TypeOK
  <2> QED
    BY <1>1, <2>1, BeginKeepsInv DEF CreateReservation, Op
<1>2. ASSUME NEW t \in Txns, NEW b \in Bookings,
             \/ CompletePurchase(t, b) \/ RevertFailedPurchase(t, b)
             \/ ReleaseExpiredReservation(t, b) \/ CancelReservation(t, b)
      PROVE  Inv'
  <2>1. Null \in Int
    BY DEF Null
  <2> QED
    BY <1>2, <2>1, BeginKeepsInv
    DEF CompletePurchase, RevertFailedPurchase, ReleaseExpiredReservation,
        CancelReservation, Op
<1>3. ASSUME NEW t \in Txns, NEW b \in Bookings, ExtendReservation(t, b)
      PROVE  Inv'
  <2>1. now + PurchaseExtension \in Int
    BY DEF Inv, TypeOK
  <2> QED
    BY <1>3, <2>1, BeginKeepsInv DEF ExtendReservation, Op
<1>4. ASSUME NEW t \in Txns, LockBooking(t) \/ LockSeat(t) \/ LockEvent(t)
      PROVE  Inv'
  BY <1>4, LockBookingKeepsInv, LockSeatKeepsInv, LockEventKeepsInv
<1>5. ASSUME NEW t \in Txns, Commit(t) PROVE Inv'
  BY <1>5, CommitKeepsLocks, CommitKeepsRows DEF Inv, RowsInv
<1>6. ASSUME NEW t \in Txns, Rollback(t) PROVE Inv'
  BY <1>6, FinishKeepsInv DEF Rollback
<1>7. ASSUME NEW b \in Bookings, SetPaymentIntentID(b) PROVE Inv'
  BY <1>7, SetPaymentIntentIDKeepsInv
<1>8. CASE Tick
  BY <1>8, TickKeepsInv
<1>9. CASE UNCHANGED vars
  BY <1>9
  DEF vars, rows, local, locks, Inv, TypeOK, RowsTypeOK, SeatsMatchBookings,
      AvailableSeatsExact, FreeSeats, SeatsOf, DeadlinesAgree, FreeSeatsUndated, Live,
      LocalStateOK, LocksTaken, LocksOwned, Admits
<1> QED
  BY <1>1, <1>2, <1>3, <1>4, <1>5, <1>6, <1>7, <1>8, <1>9 DEF Next, Step

\* The inductive invariant holds in every reachable state.
THEOREM InvHolds == Spec => []Inv
<1>1. Init => Inv
  BY InitInv
<1>2. Inv /\ [Next]_vars => Inv'
  BY NextKeepsInv
<1> QED
  BY <1>1, <1>2, PTL DEF Spec

\* Type correctness of the booking transactions.
THEOREM TypeCorrect == Spec => []TypeOK
<1>1. Inv => TypeOK
  BY DEF Inv
<1> QED
  BY <1>1, InvHolds, PTL

\* No double booking: however CreateReservation, CompletePurchase,
\* ExtendReservation, the releases and the reverts interleave, a seat has at
\* most one live booking and its status is that booking's.
THEOREM NoDoubleBooking == Spec => []SeatsMatchBookings
<1>1. Inv => SeatsMatchBookings
  BY DEF Inv
<1> QED
  BY <1>1, InvHolds, PTL

\* events.available_seats always counts the seats that are available.
THEOREM CounterNeverDrifts == Spec => []AvailableSeatsExact
<1>1. Inv => AvailableSeatsExact
  BY DEF Inv
<1> QED
  BY <1>1, InvHolds, PTL

\* The deadline of a reservation is the same in bookings and in seats.
THEOREM DeadlinesNeverDiffer == Spec => []DeadlinesAgree
<1>1. Inv => DeadlinesAgree
  BY DEF Inv
<1> QED
  BY <1>1, InvHolds, PTL

\* The row locks of the repository's methods never form a circle of waiting
\* transactions: an owner of an event's lock waits for nothing, an owner of
\* a seat's lock can wait for an event only, and an owner of a booking's
\* lock for a seat or an event.
THEOREM NoDeadlock == Spec => []NoWaitCycle
<1>1. Inv => NoWaitCycle
  <2> SUFFICES ASSUME Inv, NEW S \in SUBSET Txns, S # {}
               PROVE  \E t \in S : \A u \in S : ~WaitsFor(t, u)
    BY DEF NoWaitCycle
  <2> USE DEF Inv
  <2>1. ASSUME NEW t \in S, pc[t] = "lockEvent"
        PROVE  \E v \in S : \A u \in S : ~WaitsFor(v, u)
    <3>1. CASE \A u \in S : ~WaitsFor(t, u)
      BY <3>1
    <3>2. CASE \E u \in S : WaitsFor(t, u)
      <4>1. PICK u \in S : WaitsFor(t, u)
        BY <3>2
      <4>2. seat[t] \in Seats /\ EventOf[seat[t]] \in Events
        BY <2>1 DEF LocalStateOK, LocksTaken, SeatsMatchBookings, Live,
                    Admits, TypeOK
      <4>3. eventLock[EventOf[seat[t]]] = u
        BY <2>1, <4>1 DEF WaitsFor
      <4>4. /\ pc[u] \in {"lockSeat", "commit"}
            /\ pc[u] = "lockSeat" => op[u] = "create"
        BY <4>2, <4>3 DEF LocksOwned
      <4>5. \A v \in S : ~WaitsFor(u, v)
        BY <4>4 DEF WaitsFor, Nowait
      <4> QED
        BY <4>5
    <3> QED
      BY <3>1, <3>2
  <2>2. ASSUME NEW t \in S, pc[t] = "lockSeat"
        PROVE  \E v \in S : \A u \in S : ~WaitsFor(v, u)
    <3>1. CASE \A u \in S : ~WaitsFor(t, u)
      BY <3>1
    <3>2. CASE \E u \in S : WaitsFor(t, u)
      <4>1. PICK u \in S : WaitsFor(t, u)
        BY <3>2
      <4>2. seat[t] \in Seats
        BY <2>2 DEF LocalStateOK, LocksTaken, SeatsMatchBookings, Live,
                    Admits, TypeOK
      <4>3. seatLock[seat[t]] = u
        BY <2>2, <4>1 DEF WaitsFor
      <4>4. pc[u] \in {"lockEvent", "commit"}
        BY <4>2, <4>3 DEF LocksOwned
      <4>5. pc[u] = "commit" => \A v \in S : ~WaitsFor(u, v)
        BY DEF WaitsFor
      <4> QED
        BY <2>1, <4>4, <4>5
    <3> QED
      BY <3>1, <3>2
  <2>3. ASSUME NEW t \in S, pc[t] = "lockBooking"
        PROVE  \E v \in S : \A u \in S : ~WaitsFor(v, u)
    <3>1. CASE \A u \in S : ~WaitsFor(t, u)
      BY <3>1
    <3>2. CASE \E u \in S : WaitsFor(t, u)
      <4>1. PICK u \in S : WaitsFor(t, u)
        BY <3>2
      <4>2. bk[t] \in Bookings
        BY <2>3 DEF LocalStateOK, TypeOK
      <4>3. bookingLock[bk[t]] = u
        BY <2>3, <4>1 DEF WaitsFor
      <4>4. pc[u] \in {"lockSeat", "lockEvent", "commit"}
        BY <4>2, <4>3 DEF LocksOwned
      <4>5. pc[u] = "commit" => \A v \in S : ~WaitsFor(u, v)
        BY DEF WaitsFor
      <4> QED
        BY <2>1, <2>2, <4>4, <4>5
    <3> QED
      BY <3>1, <3>2
  <2>4. PICK t \in S : TRUE
    OBVIOUS
  <2>5. pc[t] \in {"idle", "commit"} => \A u \in S : ~WaitsFor(t, u)
    BY DEF WaitsFor
  <2>6. pc[t] \in PC
    BY DEF TypeOK
  <2> QED
    BY <2>1, <2>2, <2>3, <2>5, <2>6 DEF PC
<1> QED
  BY <1>1, InvHolds, PTL

\* Only a COMMIT, the statement of SetPaymentIntentID and the clock change
\* what the store shows.
LEMMA OnlyCommitWrites ==
  ASSUME [Next]_vars
  PROVE  \/ UNCHANGED storeVars
         \/ \E t \in Txns : Commit(t)
         \/ \E b \in Bookings : SetPaymentIntentID(b)
         \/ Tick
<1>1. ASSUME NEW t \in Txns, NEW b \in Bookings,
             \/ \E s \in Seats : CreateReservation(t, b, s)
             \/ CompletePurchase(t, b)
             \/ RevertFailedPurchase(t, b)
             \/ ExtendReservation(t, b)
             \/ ReleaseExpiredReservation(t, b)
             \/ CancelReservation(t, b)
      PROVE  UNCHANGED storeVars
  BY <1>1 DEF storeVars, Begin, CreateReservation, CompletePurchase,
              RevertFailedPurchase, ExtendReservation, ReleaseExpiredReservation,
              CancelReservation
<1>2. ASSUME NEW t \in Txns, LockBooking(t) \/ LockSeat(t) \/ LockEvent(t) \/ Rollback(t)
      PROVE  UNCHANGED storeVars
  <2>1. UNCHANGED now
    BY <1>2 DEF LockBooking, LockSeat, LockEvent, Rollback, Finish
  <2>2. UNCHANGED rows
    BY <1>2 DEF LockBooking, LockSeat, LockEvent, Rollback
  <2> QED
    BY <2>1, <2>2 DEF storeVars
<1>3. CASE UNCHANGED vars
  BY <1>3 DEF vars, storeVars
<1> QED
  BY <1>1, <1>2, <1>3 DEF Next, Step

------------------------------------------------------------------------------
(* The transactions implement the store, and with it all it keeps.         *)

\* Every repository method is atomic: the transactions, interleaved lock by
\* lock with waits, NOWAIT refusals, rollbacks and two clocks, implement the
\* store in which a method is a single step.
THEOREM MethodsAreAtomic == Spec => ImplementsStore
<1>1. Init => StoreInit
  BY DEF Init, StoreInit
<1>2. Inv /\ [Next]_vars => [StoreNext]_storeVars
  <2> SUFFICES ASSUME Inv, [Next]_vars PROVE [StoreNext]_storeVars
    OBVIOUS
  <2>1. ASSUME NEW t \in Txns, Commit(t) PROVE StoreNext
    BY <2>1, CommitIsStoreStep DEF StoreNext
  <2>2. ASSUME NEW b \in Bookings, SetPaymentIntentID(b) PROVE StoreNext
    BY <2>2 DEF SetPaymentIntentID, StoreStep, StoreNext
  <2>3. CASE Tick
    BY <2>3 DEF Tick, Inv, TypeOK, TimePasses, StoreNext
  <2> QED
    BY <2>1, <2>2, <2>3, OnlyCommitWrites
<1> QED
  BY <1>1, <1>2, InvHolds, PTL DEF Spec, StoreSpec, ImplementsStore

\* A reservation keeps its deadline: ExtendReservation only moves it forward
\* and ReleaseExpiredReservation waits until it has passed, however long
\* either has waited for a lock.
THEOREM ReservationKeepsDeadline == Spec => DeadlineKept
  BY MethodsAreAtomic, StoreKeepsDeadlines DEF ImplementsStore

\* The booking transactions implement the abstract inventory: every step of
\* theirs is a step of it or leaves it unchanged.
THEOREM RefinesInventory == Spec => ImplementsInventory
  BY MethodsAreAtomic, StoreImplementsInventory DEF ImplementsStore
==============================================================================
