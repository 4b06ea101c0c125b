------------------------ MODULE ExpiryReleaseProofs -------------------------
(***************************************************************************)
(* The release of overdue reservations, for any number of bookings and     *)
(* workers, any clock and any number of failures.                          *)
(***************************************************************************)
EXTENDS ExpiryRelease, BookingStoreProofs

\* Scores are whole seconds.
LEMMA UnixType == \A t \in Int : Unix(t) \in Int
BY ExpiryAssumption DEF Unix

\* The booking service writes rows and asks for one call to the queue.
LEMMA ServiceType ==
  ASSUME TypeOK, NEW b \in Bookings,
         \/ \E s \in Seats : ReserveSeat(b, s)
         \/ ExtendReservation(b) \/ CompletePurchase(b) \/ CancelBooking(b)
  PROVE  TypeOK'
<1>1. now + ReservationTimeout \in Int /\ now + PurchaseExtension \in Int /\ Null \in Int
  BY StoreAssumption DEF TypeOK, Null
<1>2. \/ \E s \in Seats : InsertReservation(b, s, now + ReservationTimeout)
      \/ WriteExtension(b, now + PurchaseExtension)
      \/ WritePurchase(b)
      \/ WriteRelease(b, "cancelled")
  BY DEF ReserveSeat, ExtendReservation, CompletePurchase, CancelBooking,
         Reserve, Extend, Purchase, Cancel
<1>5. RowsTypeOK'
  BY <1>1, <1>2, WritesType DEF TypeOK
<1>3. calls' \subseteq
        [call : {"Add", "Remove", "RemoveInflight"}, id : Bookings, at : Int]
  <2>1. \E c \in {"Add", "Remove"}, t \in Int : Call(c, b, t)
    <3>1. expiresAt'[b] \in Int
      BY <1>5 DEF RowsTypeOK
    <3> QED BY <1>1, <3>1 DEF ReserveSeat, ExtendReservation, CompletePurchase, CancelBooking
  <2> QED BY <2>1 DEF Call, TypeOK
<1>4. UNCHANGED <<now, pending, inflight, batch, ack, settle, found, failures>>
  BY DEF ReserveSeat, ExtendReservation, CompletePurchase, CancelBooking, queue, workers
<1> QED BY <1>3, <1>4, <1>5 DEF TypeOK

\* A call to the queue moves a score, is split in two, or is lost.
LEMMA CallType ==
  ASSUME TypeOK, NEW c \in calls,
         Add(c) \/ RemovePending(c) \/ RemoveInflight(c) \/ QueueCallLost(c)
  PROVE  TypeOK'
<1>1. /\ c \in [call : {"Add", "Remove", "RemoveInflight"}, id : Bookings, at : Int]
      /\ Null \in Int /\ Unix(c.at) \in Int
  BY UnixType DEF TypeOK, Null
<1>2. RowsTypeOK'
  BY DEF TypeOK, Add, RemovePending, RemoveInflight, QueueCallLost, rows, RowsTypeOK
<1>3. /\ pending' \in [Bookings -> Int] /\ inflight' \in [Bookings -> Int]
      /\ failures' \in 0 .. MaxFailures
  BY <1>1, ExpiryAssumption
     DEF TypeOK, Add, RemovePending, RemoveInflight, QueueCallLost, Fail, queue
<1>4. calls' \subseteq
        [call : {"Add", "Remove", "RemoveInflight"}, id : Bookings, at : Int]
  <2>1. [c EXCEPT !.call = "RemoveInflight"] \in
          [call : {"Add", "Remove", "RemoveInflight"}, id : Bookings, at : Int]
    BY <1>1
  <2> QED BY <2>1 DEF TypeOK, Add, RemovePending, RemoveInflight, QueueCallLost
<1>5. UNCHANGED <<now, batch, ack, settle, found>>
  BY DEF Add, RemovePending, RemoveInflight, QueueCallLost, workers
<1> QED BY <1>2, <1>3, <1>4, <1>5 DEF TypeOK

\* A poll moves scores of bookings and claims bookings.
LEMMA PollType ==
  ASSUME TypeOK, NEW w \in Workers, PollDue(w)
  PROVE  TypeOK'
<1>1. Null \in Int /\ Unix(now) \in Int /\ Unix(now + Visibility) \in Int
  <2>1. now \in Int /\ now + Visibility \in Int
    BY ExpiryAssumption DEF TypeOK
  <2> QED BY <2>1, UnixType DEF Null
<1>2. PICK scanned \in Lowest(inflight, Due(inflight, Unix(now - Visibility)), ScanLimit) :
        LET stale    == {b \in scanned : BelongsToPartition(b, w)}
            requeued == [b \in Bookings |->
                           IF b \in stale THEN Unix(now) ELSE pending[b]]
        IN  \E candidates \in Lowest(requeued, Due(requeued, Unix(now)), ScanLimit) :
            \E claimed \in
                 Lowest(requeued,
                        {b \in candidates : BelongsToPartition(b, w)}, Limit) :
              /\ pending' = [b \in Bookings |->
                               IF b \in claimed THEN Null ELSE requeued[b]]
              /\ inflight' = [b \in Bookings |->
                                IF b \in claimed THEN Unix(now + Visibility)
                                ELSE IF b \in stale THEN Null
                                ELSE inflight[b]]
              /\ batch' = [batch EXCEPT ![w] = claimed]
  BY DEF PollDue
<1> DEFINE stale == {b \in scanned : BelongsToPartition(b, w)}
           requeued == [b \in Bookings |->
                          IF b \in stale THEN Unix(now) ELSE pending[b]]
<1>3. requeued \in [Bookings -> Int]
  BY <1>1 DEF TypeOK
<1> HIDE DEF requeued
<1>4. PICK candidates \in Lowest(requeued, Due(requeued, Unix(now)), ScanLimit) :
        \E claimed \in
          Lowest(requeued, {b \in candidates : BelongsToPartition(b, w)}, Limit) :
            /\ pending' = [b \in Bookings |->
                             IF b \in claimed THEN Null ELSE requeued[b]]
            /\ inflight' = [b \in Bookings |->
                              IF b \in claimed THEN Unix(now + Visibility)
                              ELSE IF b \in stale THEN Null
                              ELSE inflight[b]]
            /\ batch' = [batch EXCEPT ![w] = claimed]
  BY <1>2 DEF requeued
<1>9. PICK claimed \in
          Lowest(requeued, {b \in candidates : BelongsToPartition(b, w)}, Limit) :
        /\ pending' = [b \in Bookings |->
                         IF b \in claimed THEN Null ELSE requeued[b]]
        /\ inflight' = [b \in Bookings |->
                          IF b \in claimed THEN Unix(now + Visibility)
                          ELSE IF b \in stale THEN Null
                          ELSE inflight[b]]
        /\ batch' = [batch EXCEPT ![w] = claimed]
  BY <1>4
<1>5. claimed \subseteq Bookings
  <2>1. candidates \subseteq Due(requeued, Unix(now))
    BY DEF Lowest
  <2>2. claimed \subseteq candidates
    BY DEF Lowest
  <2> QED BY <2>1, <2>2 DEF Due
<1>6. /\ pending' \in [Bookings -> Int] /\ inflight' \in [Bookings -> Int]
      /\ batch' \in [Workers -> SUBSET Bookings]
  BY <1>1, <1>3, <1>9, <1>5 DEF TypeOK
<1>7. UNCHANGED <<rows, now, calls, ack, settle, found, failures>>
  BY DEF PollDue
<1>8. RowsTypeOK'
  BY <1>7 DEF TypeOK, RowsTypeOK, rows
<1> QED BY <1>6, <1>7, <1>8 DEF TypeOK

\* A worker releases what it has claimed and removes its entries.
LEMMA WorkerType ==
  ASSUME TypeOK, NEW w \in Workers,
         \/ WorkerRelease(w) \/ WorkerReleaseFails(w) \/ WorkerRemovePending(w)
         \/ WorkerRemoveInflight(w) \/ WorkerRemoveFails(w)
  PROVE  TypeOK'
<1> USE DEF WorkerRelease, WorkerReleaseFails, WorkerRemovePending,
            WorkerRemoveInflight, WorkerRemoveFails
<1>1. RowsTypeOK'
  <2>1. \/ UNCHANGED rows
        \/ \E b \in Bookings : WriteRelease(b, "expired")
    BY DEF TypeOK
  <2>2. CASE UNCHANGED rows
    BY <2>2 DEF TypeOK, RowsTypeOK, rows
  <2>3. CASE \E b \in Bookings : WriteRelease(b, "expired")
    BY <2>3, WritesType DEF TypeOK
  <2> QED BY <2>1, <2>2, <2>3
<1>2. pending' \in [Bookings -> Int] /\ inflight' \in [Bookings -> Int]
  BY DEF TypeOK, queue, Null
<1>3. /\ batch' \in [Workers -> SUBSET Bookings]
      /\ ack' \in [Workers -> Bookings \cup {NoBooking}]
      /\ settle' \in [Workers -> Bookings \cup {NoBooking}]
  BY DEF TypeOK
<1>4. failures' \in 0 .. MaxFailures
  BY ExpiryAssumption DEF TypeOK, Fail
<1>5. UNCHANGED <<now, calls, found>>
  OBVIOUS
<1> QED BY <1>1, <1>2, <1>3, <1>4, <1>5 DEF TypeOK

\* The cleanup job, the clock and a crash.
LEMMA RestType ==
  ASSUME TypeOK,
         \/ FindExpiredReservations \/ CleanupRelease \/ CleanupFails \/ Crash \/ Tick
         \/ UNCHANGED vars
  PROVE  TypeOK'
<1> USE DEF FindExpiredReservations, CleanupRelease, CleanupFails, Crash, Tick, vars
<1>1. RowsTypeOK'
  <2>1. \/ UNCHANGED rows
        \/ \E b \in Bookings : WriteRelease(b, "expired")
    BY DEF TypeOK
  <2>2. CASE UNCHANGED rows
    BY <2>2 DEF TypeOK, RowsTypeOK, rows
  <2>3. CASE \E b \in Bookings : WriteRelease(b, "expired")
    BY <2>3, WritesType DEF TypeOK
  <2> QED BY <2>1, <2>2, <2>3
<1>2. now' \in 0 .. MaxTime /\ failures' \in 0 .. MaxFailures
  BY ExpiryAssumption DEF TypeOK, Fail
<1>3. /\ batch' \in [Workers -> SUBSET Bookings]
      /\ ack' \in [Workers -> Bookings \cup {NoBooking}]
      /\ settle' \in [Workers -> Bookings \cup {NoBooking}]
  BY DEF TypeOK, workers
<1>4. found' \subseteq Bookings
  BY DEF TypeOK
<1>5. UNCHANGED <<pending, inflight, calls>>
  BY DEF queue
<1> QED BY <1>1, <1>2, <1>3, <1>4, <1>5 DEF TypeOK

\* Every variable of the release keeps its type, whatever is late or lost.
THEOREM ReleaseTypeCorrect == Spec => []TypeOK
<1>1. Init => TypeOK
  <2> SUFFICES ASSUME Init PROVE TypeOK
    OBVIOUS
  <2>1. RowsTypeOK
    BY InitRowsInv DEF Init, RowsInv
  <2> QED BY <2>1, ExpiryAssumption DEF Init, TypeOK, Null
<1>2. TypeOK /\ [Next]_vars => TypeOK'
  <2> SUFFICES ASSUME TypeOK, [Next]_vars PROVE TypeOK'
    OBVIOUS
  <2> QED BY ServiceType, CallType, PollType, WorkerType, RestType DEF Next, Work
<1> QED BY <1>1, <1>2, PTL DEF Spec

------------------------------------------------------------------------------
(* The rows that releases share with the requests.                         *)

\* What a worker and the cleanup job write, having looked at the row again, is
\* a step of the store, and so is what each request beside them writes.
LEMMA StepsOfStore ==
  ASSUME TypeOK, [Next]_vars
  PROVE  [StoreNext]_storeVars
<1>1. now \in Nat /\ now \in 0 .. now /\ now \in now .. now
  BY ExpiryAssumption DEF TypeOK
<1>2. ASSUME NEW b \in Bookings, StoreStep(b), UNCHANGED now PROVE StoreNext
  BY <1>2 DEF StoreNext
<1>3. ASSUME NEW b \in Bookings, UNCHANGED now,
             \/ \E s \in Seats : Reserve(b, s, now, now)
             \/ Extend(b, now, now, now)
             \/ Purchase(b, now, now)
             \/ Expire(b, now, now)
             \/ Cancel(b)
      PROVE  StoreNext
  BY <1>1, <1>2, <1>3 DEF StoreStep
<1>4. ASSUME NEW b \in Bookings,
             \/ \E s \in Seats : ReserveSeat(b, s)
             \/ ExtendReservation(b) \/ CompletePurchase(b) \/ CancelBooking(b)
      PROVE  StoreNext
  BY <1>3, <1>4 DEF ReserveSeat, ExtendReservation, CompletePurchase, CancelBooking
<1>5. ASSUME NEW b \in Bookings, UNCHANGED now,
             IF Admits("expire", b, now, now)
             THEN WriteRelease(b, "expired")
             ELSE UNCHANGED rows
      PROVE  [StoreNext]_storeVars
  <2>1. Expire(b, now, now) \/ UNCHANGED rows
    BY <1>5 DEF Expire
  <2> QED BY <1>3, <1>5, <2>1 DEF storeVars
<1>6. ASSUME NEW w \in Workers, WorkerRelease(w) PROVE [StoreNext]_storeVars
  BY <1>5, <1>6 DEF WorkerRelease, TypeOK
<1>7. CASE CleanupRelease
  BY <1>5, <1>7 DEF CleanupRelease, TypeOK
<1>8. CASE Tick
  BY <1>1, <1>8 DEF Tick, TimePasses, StoreNext
<1> QED
  BY <1>4, <1>6, <1>7, <1>8
     DEF Next, vars, storeVars, Work, Add, RemovePending, RemoveInflight, QueueCallLost,
         PollDue, WorkerReleaseFails, WorkerRemovePending, WorkerRemoveInflight,
         WorkerRemoveFails, FindExpiredReservations, CleanupFails, Crash

\* Both jobs use the rows as the store lets them: neither a claim made early,
\* nor an entry that an extension has left behind, nor a second claim, nor a
\* row that the cleanup job read a while ago makes one of them write what the
\* repository's method does not admit under the row's lock.
THEOREM ReleasesUseStore == Spec => StoreSpec
<1>1. Init => StoreInit
  BY DEF Init, StoreInit
<1>2. TypeOK /\ [Next]_vars => [StoreNext]_storeVars
  BY StepsOfStore
<1> QED BY <1>1, <1>2, ReleaseTypeCorrect, PTL DEF Spec, StoreSpec

\* "Prevent double-booking": workers and the cleanup job that both release
\* what is overdue free no seat that was sold, and none that was reserved
\* again in between.
THEOREM ReleasesFreeNoTakenSeat == Spec => []SeatsMatchBookings
BY ReleasesUseStore, StoreKeepsRows, PTL

\* A booking that several of them find overdue goes back to available_seats
\* once.
THEOREM ReleasesKeepCount == Spec => []AvailableSeatsExact
BY ReleasesUseStore, StoreKeepsRows, PTL

\* The extensions that leave entries with an old score in the queue leave
\* booking and seat with the same deadline.
THEOREM ReleasesKeepDeadlines == Spec => []DeadlinesAgree
BY ReleasesUseStore, StoreKeepsRows, PTL

\* Only a release under the row's lock expires a booking, and it looks at the
\* deadline again: whatever the queue says, no reservation expires before the
\* deadline it was promised, and nothing brings that deadline forward.
THEOREM NoEarlyRelease == Spec => DeadlineKept
BY ReleasesUseStore, StoreKeepsDeadlines

\* Releases that are claimed twice, late or lost implement the abstract
\* inventory: a seat is given up by its holder, once, before it is taken again.
THEOREM ReleasesImplementInventory == Spec => ImplementsInventory
BY ReleasesUseStore, StoreImplementsInventory
==============================================================================
