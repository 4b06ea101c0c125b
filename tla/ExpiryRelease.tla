---------------------------- MODULE ExpiryRelease ---------------------------
(***************************************************************************)
(* How overdue reservations are released: the two Redis sorted sets of     *)
(* internal/queue/expiry_queue.go, the batch release workers that claim    *)
(* due entries from them, one worker per partition of the booking IDs, and *)
(* the cleanup job that looks for overdue reservations in the database.    *)
(* The booking service changes the rows first and tells the queue          *)
(* afterwards, in a separate call that may be late or lost.                *)
(***************************************************************************)
EXTENDS BookingStore, FiniteSetsExt

CONSTANTS Partitions,          \* partition indices, 0 .. partition count - 1
          Workers,             \* the partitions this process owns
          PartitionOf,         \* expiry_partition_index: a hash of the ID
          Limit,               \* ExpiryPollBatchSize
          ScanMultiplier,      \* ExpiryClaimScanMultiplier
          ScanMax,             \* ExpiryClaimScanMax
          Visibility,          \* ExpiryClaimVisibilityTimeout
          Second,              \* clock ticks per second
          MaxTime,             \* bound: the clock stops here
          MaxFailures          \* bound: calls that fail, crashes

ASSUME ExpiryAssumption ==
  /\ Workers \subseteq Partitions
  /\ PartitionOf \in [Bookings -> Partitions]
  /\ {Limit, ScanMultiplier, ScanMax, Visibility, Second} \subseteq Nat \ {0}
  /\ {MaxTime, MaxFailures} \subseteq Nat

VARIABLES pending,   \* pending[b]: score in reservation:expiry, or Null
          inflight,  \* inflight[b]: score in reservation:expiry:inflight
          calls,     \* the booking service's calls to the queue, under way
          batch,     \* batch[w]: claimed by worker w and not yet looked at
          ack,       \* ack[w]: what worker w removes from pending next
          settle,    \* settle[w]: what it removes from inflight next
          found,     \* what the cleanup job found and has not looked at
          failures   \* how many calls have failed so far

queue == <<pending, inflight>>
workers == <<batch, ack, settle>>
vars == <<rows, now, queue, calls, workers, found, failures>>

\* Time.Unix(): scores are whole seconds.
Unix(t) == t \div Second

\* Every variable holds a value of its type.
TypeOK ==
  /\ RowsTypeOK
  /\ now \in 0..MaxTime
  /\ pending \in [Bookings -> Int]
  /\ inflight \in [Bookings -> Int]
  /\ calls \subseteq
       [call : {"Add", "Remove", "RemoveInflight"}, id : Bookings, at : Int]
  /\ batch \in [Workers -> SUBSET Bookings]
  /\ ack \in [Workers -> Bookings \cup {NoBooking}]
  /\ settle \in [Workers -> Bookings \cup {NoBooking}]
  /\ found \subseteq Bookings
  /\ failures \in 0..MaxFailures

Init ==
  /\ InitRows
  /\ now = 0
  /\ pending = [b \in Bookings |-> Null]
  /\ inflight = [b \in Bookings |-> Null]
  /\ calls = {}
  /\ batch = [w \in Workers |-> {}]
  /\ ack = [w \in Workers |-> NoBooking]
  /\ settle = [w \in Workers |-> NoBooking]
  /\ found = {}
  /\ failures = 0

Fail ==
  /\ failures < MaxFailures
  /\ failures' = failures + 1

------------------------------------------------------------------------------
(* The booking service: a transaction, then a call to the queue.           *)

Call(c, b, t) == calls' = calls \cup {[call |-> c, id |-> b, at |-> t]}

ReserveSeat(b, s) ==
  /\ Reserve(b, s, now, now)
  /\ Call("Add", b, now + ReservationTimeout)
  /\ UNCHANGED <<now, queue, workers, found, failures>>

\* PurchaseBooking extends the reservation and puts it in the queue again.
ExtendReservation(b) ==
  /\ Extend(b, now, now, now)
  /\ Call("Add", b, expiresAt'[b])
  /\ UNCHANGED <<now, queue, workers, found, failures>>

CompletePurchase(b) ==
  /\ Purchase(b, now, now)
  /\ Call("Remove", b, Null)
  /\ UNCHANGED <<now, queue, workers, found, failures>>

CancelBooking(b) ==
  /\ Cancel(b)
  /\ Call("Remove", b, Null)
  /\ UNCHANGED <<now, queue, workers, found, failures>>

\* One ZADD, which leaves a claim of the same booking in flight.
Add(c) ==
  /\ c.call = "Add"
  /\ pending' = [pending EXCEPT ![c.id] = Unix(c.at)]
  /\ calls' = calls \ {c}
  /\ UNCHANGED <<rows, now, inflight, workers, found, failures>>

\* Two ZREMs in a pipeline: other clients' commands may come in between.
RemovePending(c) ==
  /\ c.call = "Remove"
  /\ pending' = [pending EXCEPT ![c.id] = Null]
  /\ calls' = (calls \ {c}) \cup {[c EXCEPT !.call = "RemoveInflight"]}
  /\ UNCHANGED <<rows, now, inflight, workers, found, failures>>

RemoveInflight(c) ==
  /\ c.call = "RemoveInflight"
  /\ inflight' = [inflight EXCEPT ![c.id] = Null]
  /\ calls' = calls \ {c}
  /\ UNCHANGED <<rows, now, pending, workers, found, failures>>

\* The call fails and is only logged, or the process dies before it.
QueueCallLost(c) ==
  /\ Fail
  /\ calls' = calls \ {c}
  /\ UNCHANGED <<rows, now, queue, workers, found>>

------------------------------------------------------------------------------
(* The batch release workers.                                              *)

\* How many entries one poll looks at.
ScanLimit == Max({Limit, Min({Limit * ScanMultiplier, ScanMax})})

\* Faulty: partitions are counted from one.
BelongsToNextPartition(b, w) == PartitionOf[b] + 1 = w

BelongsToPartition(b, w) == PartitionOf[b] = w

\* ZRANGEBYSCORE key -inf t, as a set.
Due(score, t) == {b \in Bookings : score[b] # Null /\ score[b] <= t}

\* The possible first n members of S in the order of their scores.
Lowest(score, S, n) ==
  {T \in SUBSET S :
     /\ Cardinality(T) = Min({n, Cardinality(S)})
     /\ \A x \in T, y \in S \ T : score[x] <= score[y]}

\* claimExpiryScript: stale claims of the partition go back to pending, then
\* the due entries of the partition, among the first ones, are claimed.
PollDue(w) ==
  /\ batch[w] = {} /\ ack[w] = NoBooking /\ settle[w] = NoBooking
  /\ \E scanned \in Lowest(inflight, Due(inflight, Unix(now - Visibility)),
                           ScanLimit) :
       LET stale    == {b \in scanned : BelongsToPartition(b, w)}
           requeued == [b \in Bookings |->
                          IF b \in stale THEN Unix(now) ELSE pending[b]]
       IN  \E candidates \in Lowest(requeued, Due(requeued, Unix(now)),
                                    ScanLimit) :
           \E claimed \in
                Lowest(requeued,
                       {b \in candidates : BelongsToPartition(b, w)}, Limit) :
             /\ pending' = [b \in Bookings |->
                              IF b \in claimed THEN Null ELSE requeued[b]]
             /\ inflight' = [b \in Bookings |->
                               IF b \in claimed THEN Unix(now + Visibility)
                               ELSE IF b \in stale THEN Null
                               ELSE inflight[b]]
             /\ batch' = [batch EXCEPT ![w] = claimed]
  /\ UNCHANGED <<rows, now, calls, ack, settle, found, failures>>

\* ReleaseExpiredBookingByID: a booking that is not reserved, or not overdue
\* yet, is left alone, and that is no error: its entry is removed as well.
WorkerRelease(w) ==
  /\ ack[w] = NoBooking /\ settle[w] = NoBooking
  /\ \E b \in batch[w] :
       /\ IF Admits("expire", b, now, now)
          THEN WriteRelease(b, "expired")
          ELSE UNCHANGED rows
       /\ batch' = [batch EXCEPT ![w] = @ \ {b}]
       /\ ack' = [ack EXCEPT ![w] = b]
  /\ UNCHANGED <<now, queue, calls, settle, found, failures>>

\* The release fails; the claim stays in flight until it is stale.
WorkerReleaseFails(w) ==
  /\ Fail
  /\ ack[w] = NoBooking /\ settle[w] = NoBooking
  /\ \E b \in batch[w] : batch' = [batch EXCEPT ![w] = @ \ {b}]
  /\ UNCHANGED <<rows, now, queue, calls, ack, settle, found>>

\* The worker's own Remove, which it waits for.
WorkerRemovePending(w) ==
  /\ ack[w] # NoBooking
  /\ pending' = [pending EXCEPT ![ack[w]] = Null]
  /\ ack' = [ack EXCEPT ![w] = NoBooking]
  /\ settle' = [settle EXCEPT ![w] = ack[w]]
  /\ UNCHANGED <<rows, now, inflight, calls, batch, found, failures>>

WorkerRemoveInflight(w) ==
  /\ settle[w] # NoBooking
  /\ inflight' = [inflight EXCEPT ![settle[w]] = Null]
  /\ settle' = [settle EXCEPT ![w] = NoBooking]
  /\ UNCHANGED <<rows, now, pending, calls, batch, ack, found, failures>>

\* The Remove fails, in part or as a whole, and is only logged.
WorkerRemoveFails(w) ==
  /\ Fail
  /\ ack[w] # NoBooking \/ settle[w] # NoBooking
  /\ ack' = [ack EXCEPT ![w] = NoBooking]
  /\ settle' = [settle EXCEPT ![w] = NoBooking]
  /\ UNCHANGED <<rows, now, queue, calls, batch, found>>

\* The process dies and forgets what it claimed, and the cleanup's findings.
Crash ==
  /\ Fail
  /\ batch' = [w \in Workers |-> {}]
  /\ ack' = [w \in Workers |-> NoBooking]
  /\ settle' = [w \in Workers |-> NoBooking]
  /\ found' = {}
  /\ UNCHANGED <<rows, now, queue, calls>>

------------------------------------------------------------------------------
(* The cleanup job.                                                        *)

\* FindExpiredReservations: expires_at < CURRENT_TIMESTAMP.
Overdue(b) == status[b] = "reserved" /\ expiresAt[b] < now

\* Faulty: the comparison is the wrong way round.
FindUnexpiredReservations ==
  /\ found = {}
  /\ found' = {b \in Bookings : status[b] = "reserved" /\ expiresAt[b] > now}
  /\ UNCHANGED <<rows, now, queue, calls, workers, failures>>

FindExpiredReservations ==
  /\ found = {}
  /\ found' = {b \in Bookings : Overdue(b)}
  /\ UNCHANGED <<rows, now, queue, calls, workers, failures>>

\* ReleaseExpiredBooking; it does not touch the queue.
CleanupRelease ==
  /\ \E b \in found :
       /\ IF Admits("expire", b, now, now)
          THEN WriteRelease(b, "expired")
          ELSE UNCHANGED rows
       /\ found' = found \ {b}
  /\ UNCHANGED <<now, queue, calls, workers, failures>>

CleanupFails ==
  /\ Fail
  /\ \E b \in found : found' = found \ {b}
  /\ UNCHANGED <<rows, now, queue, calls, workers>>

Tick ==
  /\ now < MaxTime
  /\ now' = now + 1
  /\ UNCHANGED <<rows, queue, calls, workers, found, failures>>

Work(w) ==
  \/ PollDue(w)
  \/ WorkerRelease(w)
  \/ WorkerRemovePending(w)
  \/ WorkerRemoveInflight(w)

Next ==
  \/ \E b \in Bookings :
       \/ \E s \in Seats : ReserveSeat(b, s)
       \/ ExtendReservation(b)
       \/ CompletePurchase(b)
       \/ CancelBooking(b)
  \/ \E c \in calls :
       Add(c) \/ RemovePending(c) \/ RemoveInflight(c) \/ QueueCallLost(c)
  \/ \E w \in Workers :
       Work(w) \/ WorkerReleaseFails(w) \/ WorkerRemoveFails(w)
  \/ FindExpiredReservations
  \/ CleanupRelease
  \/ CleanupFails
  \/ Crash
  \/ Tick

Spec == Init /\ [][Next]_vars

\* Both jobs run on timers for as long as the process lives.
FairSpec ==
  /\ Spec
  /\ \A w \in Workers : WF_vars(Work(w))
  /\ WF_vars(FindExpiredReservations)
  /\ WF_vars(CleanupRelease)

------------------------------------------------------------------------------
(* Correctness properties.                                                 *)

\* An overdue reservation is always released in the end, although the queue
\* may never have heard of it, may have lost it in a crash, or may have been
\* told to forget it by a worker that found it not yet due: the cleanup job
\* finds it in the database.
OverdueReleased ==
  \A b \in Bookings : Overdue(b) ~> status[b] # "reserved"

\* The workers' partitions cover the hash of every booking ID, so every due
\* entry is claimed by somebody in the end, although the entries of another
\* partition may fill a poll's scan and hide it for a while.
DueEntriesClaimed ==
  \A b \in Bookings :
    (pending[b] # Null /\ pending[b] <= Unix(now))
      ~> (pending[b] = Null \/ pending[b] > Unix(now))
==============================================================================
