----------------------------- MODULE EventSale ------------------------------
(***************************************************************************)
(* One event from its creation on: CreateEvent, the cached event row and   *)
(* the list of seats (event_service.go, event_repository.go,               *)
(* seat_repository.go), read from a replica that lags behind the primary   *)
(* database, and bulk reservations of its seats (BulkReserve of            *)
(* booking_service.go), among other changes of them.  A transaction on the *)
(* rows of the event is one step, as BookingTransactions shows.            *)
(***************************************************************************)
EXTENDS Naturals, Sequences, FiniteSets

CONSTANTS Seats,      \* the seats that CreateEvent generates
          Bulks,      \* bulk reservations
          Wanted,     \* Wanted[b]: the seat numbers that b asks for
          ChunkSize,  \* bulkChunkSize
          Others,     \* all other changes of the event's seats
          Readers,    \* requests for the event
          Listers,    \* requests for its seats
          NoRow,      \* the event before it is created
          Empty,      \* the cache without the event
          Scenarios   \* bounds: who takes part and what fails, for each behaviour

ASSUME SaleAssumption ==
  /\ IsFiniteSet(Seats) /\ Seats # {}
  /\ Wanted \in [Bulks -> Seq(Seats)]
  /\ ChunkSize \in Nat \ {0}
  /\ NoRow \notin Nat /\ Empty \notin Nat
  /\ Bulks \cap ({"none", "free", "sold", "reserved"} \cup Others) = {}
  /\ (Bulks \cup Others) \cap (Readers \cup Listers) = {}
  /\ Readers \cap Listers = {}
  /\ Scenarios \subseteq
       [actors : SUBSET (Bulks \cup Others \cup Readers \cup Listers),
        created : BOOLEAN, failures : Nat, crashes : Nat]

VARIABLES db,        \* committed states: the replica shows the first, the
                     \* primary the last
          creation,  \* where CreateEvent is
          cache,     \* the cached event row
          missed,    \* a commit since the row was cached was not invalidated
          events,    \* booking events published and not yet consumed
          pc,        \* pc[a]: what actor a does next
          chunk,     \* chunk[b]: what the goroutines of BulkReserve do next
          success,   \* success[b]: the seats b has reserved
          failed,    \* failed[b]: a reservation of b has failed
          leaked,    \* leaked[b]: the seats that b holds without knowing it, or
                     \* failed to give back
          row,       \* row[q]: the event row reader q holds
          listing,   \* listing[l]: how many seats lister l has counted
          left       \* how many calls may still fail and processes die

catalogue == <<db, creation>>
caching == <<cache, missed, events>>
bulk == <<chunk, success, failed, leaked>>
reading == <<row, listing>>
vars == <<catalogue, caching, pc, bulk, reading, left>>

Actors == Bulks \cup Others \cup Readers \cup Listers
Total == Cardinality(Seats)

\* A seat is not there, free, sold, or reserved by a bulk reservation or else.
SeatState == {"none", "free", "sold", "reserved"} \cup Bulks

Primary == db[Len(db)]
Replica == Head(db)

\* chunkSeats: chunk k of the seats that b asks for.
ChunkSeats(b, k) ==
  SubSeq(Wanted[b], (k - 1) * ChunkSize + 1,
         IF k * ChunkSize < Len(Wanted[b]) THEN k * ChunkSize ELSE Len(Wanted[b]))

Chunks(b) == 1 .. (Len(Wanted[b]) + ChunkSize - 1) \div ChunkSize

Goroutine == [next : Nat, step : {"reserve", "invalidate", "publish", "ended"}]

\* Every variable holds a value of its type.
TypeOK ==
  /\ db \in Seq([available : Nat \cup {NoRow}, seat : [Seats -> SeatState]])
  /\ creation \in {"new", "row", "seats", "done", "failed"}
  /\ cache \in [row : Nat, raced : BOOLEAN, lifetime : BOOLEAN] \cup {Empty}
  /\ missed \in BOOLEAN
  /\ events \in Nat
  /\ pc \in [Actors -> {"start", "run", "rollback", "invalidate", "publish",
                        "find", "store", "all", "filter", "ok", "error", "died"}]
  /\ DOMAIN chunk = Bulks
  /\ \A b \in Bulks : chunk[b] \in [Chunks(b) -> Goroutine]
  /\ success \in [Bulks -> SUBSET Seats]
  /\ failed \in [Bulks -> BOOLEAN]
  /\ leaked \in [Bulks -> SUBSET Seats]
  /\ row \in [Readers -> Nat \cup {NoRow}]
  /\ listing \in [Listers -> 0 .. Total]
  /\ left \in [{"failures", "crashes"} -> Nat]

NoEvent == [available |-> NoRow, seat |-> [s \in Seats |-> "none"]]
WholeEvent == [available |-> Total, seat |-> [s \in Seats |-> "free"]]

Init ==
  \E sc \in Scenarios :
    /\ db = IF sc.created THEN <<WholeEvent>> ELSE <<NoEvent>>
    /\ creation = IF sc.created THEN "done" ELSE "new"
    /\ cache = Empty
    /\ missed = FALSE
    /\ events = 0
    /\ pc = [a \in Actors |-> IF a \in sc.actors THEN "start" ELSE "died"]
    /\ chunk = [b \in Bulks |-> [k \in Chunks(b) |-> [next |-> 1, step |-> "reserve"]]]
    /\ success = [b \in Bulks |-> {}]
    /\ failed = [b \in Bulks |-> FALSE]
    /\ leaked = [b \in Bulks |-> {}]
    /\ row = [q \in Readers |-> NoRow]
    /\ listing = [l \in Listers |-> 0]
    /\ left = [failures |-> sc.failures, crashes |-> sc.crashes]

Goto(a, step) == pc' = [pc EXCEPT ![a] = step]

\* Something bounded happens.
Spend(f) == left[f] > 0 /\ left' = [left EXCEPT ![f] = @ - 1]

------------------------------------------------------------------------------
(* The database.                                                           *)

Commit(rows) == db' = Append(db, rows)

\* The answer to a COMMIT is lost: it has taken effect, but the caller takes it
\* for an error and invalidates nothing.
AnswerLost ==
  /\ Spend("failures")
  /\ missed' = (missed \/ cache # Empty)
  /\ UNCHANGED <<cache, events>>

\* The replica applies the next transaction (external).
Replicate ==
  /\ Len(db) > 1
  /\ db' = Tail(db)
  /\ UNCHANGED <<creation, caching, pc, bulk, reading, left>>

\* A seat changes hands; available_seats counts the free ones.
WithSeat(s, state) ==
  LET seat == [Primary.seat EXCEPT ![s] = state]
      gain == IF state = "free" THEN 1 ELSE 0
      loss == IF Primary.seat[s] = "free" THEN 1 ELSE 0
  IN  [available |-> Primary.available + gain - loss, seat |-> seat]

Reservable(s) ==
  Primary.available # NoRow /\ Primary.available > 0 /\ Primary.seat[s] = "free"

------------------------------------------------------------------------------
(* CreateEvent: the row and the seats are two transactions.  After an      *)
(* error, or an answer that is lost, it goes no further.                   *)

CreateEventRow ==
  /\ creation = "new"
  /\ \/ creation' = "row" /\ UNCHANGED left
     \/ Spend("failures") /\ creation' = "failed"
  /\ Commit([Primary EXCEPT !.available = Total])
  /\ UNCHANGED <<caching, pc, bulk, reading>>

\* Faulty: the seats are inserted without a transaction.
CreateBulkSeatsPartly ==
  /\ creation = "row"
  /\ \/ creation' = "seats" /\ Commit(WholeEvent) /\ UNCHANGED left
     \/ /\ Spend("failures")
        /\ creation' = "failed"
        /\ \E part \in SUBSET Seats :
             Commit([Primary EXCEPT !.seat =
                       [s \in Seats |-> IF s \in part THEN "free" ELSE "none"]])
  /\ UNCHANGED <<caching, pc, bulk, reading>>

\* CreateBulkSeats: all of them or, when an INSERT fails, none.
CreateBulkSeats ==
  /\ creation = "row"
  /\ \/ creation' = "seats" /\ Commit(WholeEvent) /\ UNCHANGED left
     \/ Spend("failures") /\ creation' = "failed" /\ (UNCHANGED db \/ Commit(WholeEvent))
  /\ UNCHANGED <<caching, pc, bulk, reading>>

------------------------------------------------------------------------------
(* The cache.                                                              *)

\* invalidateEventCache; an error of Redis is ignored.
Invalidate ==
  \/ cache' = Empty /\ missed' = FALSE /\ UNCHANGED left
  \/ Spend("failures") /\ missed' = (missed \/ cache # Empty) /\ UNCHANGED cache

FinishCreation ==
  /\ creation = "seats"
  /\ creation' = "done"
  /\ Invalidate
  /\ UNCHANGED <<db, events, pc, bulk, reading>>

\* The entry's hour is over.
Expire ==
  /\ cache # Empty
  /\ cache.lifetime
  /\ cache' = Empty
  /\ missed' = FALSE
  /\ UNCHANGED <<catalogue, events, pc, bulk, reading, left>>

\* GetEventByID: a hit changes nothing; a miss, or an error, goes to the
\* database,
GetEventByID(q) ==
  /\ pc[q] = "start"
  /\ IF cache = Empty THEN UNCHANGED left ELSE Spend("failures")
  /\ Goto(q, "find")
  /\ UNCHANGED <<catalogue, caching, bulk, reading>>

\* to the replica,
FindByID(q) ==
  /\ pc[q] = "find"
  /\ row' = [row EXCEPT ![q] = Replica.available]
  /\ Goto(q, IF Replica.available = NoRow THEN "start" ELSE "store")
  /\ UNCHANGED <<catalogue, caching, bulk, listing, left>>

\* Faulty: the entry is stored for ever.
CacheEntryForever(n) ==
  [row |-> n, raced |-> n # Primary.available, lifetime |-> FALSE]

\* What is stored has a lifetime; it may be out of date already.
CacheEntry(n) ==
  [row |-> n, raced |-> n # Primary.available, lifetime |-> TRUE]

\* and what was found is stored; an error of Redis is ignored.
CacheEvent(q) ==
  /\ pc[q] = "store"
  /\ \/ cache' = CacheEntry(row[q]) /\ missed' = FALSE /\ UNCHANGED left
     \/ Spend("failures") /\ UNCHANGED <<cache, missed>>
  /\ row' = [row EXCEPT ![q] = NoRow]
  /\ Goto(q, "start")
  /\ UNCHANGED <<catalogue, events, bulk, listing>>

\* The consumer of booking events invalidates the entry once more.
ConsumeBookingEvent ==
  /\ events > 0
  /\ events' = events - 1
  /\ Invalidate
  /\ UNCHANGED <<catalogue, pc, bulk, reading>>

\* An event is published after a change; it may be lost.
Publish ==
  \/ events' = events + 1 /\ UNCHANGED left
  \/ Spend("failures") /\ UNCHANGED events

------------------------------------------------------------------------------
(* GetEventSeats: the event, all seats, and those the filter asks for, each*)
(* read from the replica: the route does not authenticate, so the marks for*)
(* reading one's own writes are never looked up.                           *)

GetEventSeats(l) ==
  /\ pc[l] = "start"
  /\ Goto(l, IF Replica.available = NoRow THEN "error" ELSE "all")
  /\ UNCHANGED <<catalogue, caching, bulk, reading, left>>

\* calculateSeatsSummary of FindByEventID without a status.
CountSeats(l) ==
  /\ pc[l] = "all"
  /\ listing' = [listing EXCEPT ![l] =
                   Cardinality({s \in Seats : Replica.seat[s] # "none"})]
  /\ Goto(l, "filter")
  /\ UNCHANGED <<catalogue, caching, bulk, row, left>>

\* The seats of one status are a list of their own, which may be of a later
\* state than the summary; or there is no filter.
ListSeats(l) ==
  /\ pc[l] = "filter"
  /\ Goto(l, "ok")
  /\ UNCHANGED <<catalogue, caching, bulk, reading, left>>

------------------------------------------------------------------------------
(* Other changes: a reservation, a purchase, a cancellation or an expiry,  *)
(* and the revert of a purchase, which frees a seat that is sold.          *)

ChangeSeat(o, s) ==
  /\ pc[o] = "start"
  /\ \/ Reservable(s) /\ Commit(WithSeat(s, "reserved"))
     \/ Primary.seat[s] \in {"reserved"} \cup Bulks /\ Commit(WithSeat(s, "sold"))
     \/ Primary.seat[s] \in {"reserved", "sold"} \cup Bulks /\ Commit(WithSeat(s, "free"))
  /\ \/ Goto(o, "invalidate") /\ UNCHANGED <<caching, left>>
     \/ Goto(o, "error") /\ AnswerLost
  /\ UNCHANGED <<creation, bulk, reading>>

InvalidateChange(o) ==
  /\ pc[o] = "invalidate" /\ o \in Others
  /\ Invalidate
  /\ Goto(o, "publish")
  /\ UNCHANGED <<catalogue, events, bulk, reading>>

PublishChange(o) ==
  /\ pc[o] = "publish"
  /\ Publish
  /\ Goto(o, "ok")
  /\ UNCHANGED <<catalogue, cache, missed, bulk, reading>>

------------------------------------------------------------------------------
(* BulkReserve.                                                            *)

BulkReserve(b) ==
  /\ pc[b] = "start"
  /\ Goto(b, IF Wanted[b] = <<>> THEN "error" ELSE "run")
  /\ UNCHANGED <<catalogue, caching, bulk, reading, left>>

Running(b) == pc[b] \notin {"start", "died"}

\* The goroutine of chunk k of b goes on to step, and its seat to the n-th.
Proceed(b, k, n, step) == chunk' = [chunk EXCEPT ![b][k] = [next |-> n, step |-> step]]

\* ReserveSeat of the next seat: reserved, or the chunk ends with an error,
\* which does not tell whether the seat is reserved all the same.
ReserveNext(b, k) ==
  LET g == chunk[b][k]
      s == ChunkSeats(b, k)[g.next]
  IN  /\ Running(b) /\ g.step = "reserve"
      /\ \/ /\ Reservable(s)
            /\ Commit(WithSeat(s, b))
            /\ Proceed(b, k, g.next, "invalidate")
            /\ UNCHANGED <<caching, failed, leaked, left>>
         \/ /\ Proceed(b, k, g.next, "ended")
            /\ failed' = [failed EXCEPT ![b] = TRUE]
            /\ \/ /\ IF Reservable(s) THEN Spend("failures") ELSE UNCHANGED left
                  /\ UNCHANGED <<db, caching, leaked>>
               \/ /\ Reservable(s)
                  /\ Commit(WithSeat(s, b)) /\ AnswerLost
                  /\ leaked' = [leaked EXCEPT ![b] = @ \cup {s}]
      /\ UNCHANGED <<creation, pc, success, reading>>

InvalidateNext(b, k) ==
  LET g == chunk[b][k]
  IN  /\ Running(b) /\ g.step = "invalidate"
      /\ Invalidate
      /\ Proceed(b, k, g.next, "publish")
      /\ UNCHANGED <<catalogue, events, pc, success, failed, leaked, reading>>

\* The outcome of the reservation goes to the channel.
PublishNext(b, k) ==
  LET g == chunk[b][k]
  IN  /\ Running(b) /\ g.step = "publish"
      /\ Publish
      /\ success' = [success EXCEPT ![b] = @ \cup {ChunkSeats(b, k)[g.next]}]
      /\ IF g.next < Len(ChunkSeats(b, k))
         THEN Proceed(b, k, g.next + 1, "reserve")
         ELSE Proceed(b, k, g.next, "ended")
      /\ UNCHANGED <<catalogue, cache, missed, pc, failed, leaked, reading>>

\* Faulty: the outcomes are read up to the first error.
OutcomesReadToError(b) ==
  failed[b] \/ \A k \in Chunks(b) : chunk[b][k].step = "ended"

\* The channel of outcomes is closed when all goroutines have ended.
OutcomesRead(b) == \A k \in Chunks(b) : chunk[b][k].step = "ended"

Collect(b) ==
  /\ pc[b] = "run" /\ OutcomesRead(b)
  /\ Goto(b, IF failed[b] THEN "rollback" ELSE "ok")
  /\ UNCHANGED <<catalogue, caching, bulk, reading, left>>

\* Faulty: a seat given back is not invalidated.
AfterCancelQuiet == "rollback"

AfterCancel == "invalidate"

\* CancelReservation of one of the seats.  That it is not reserved any more,
\* or an error, is ignored, even if the seat is free after it; no event is
\* published.
CancelNext(b, s) ==
  /\ pc[b] = "rollback" /\ s \in success[b]
  /\ success' = [success EXCEPT ![b] = @ \ {s}]
  /\ \/ /\ Primary.seat[s] = b
        /\ Commit(WithSeat(s, "free"))
        /\ Goto(b, AfterCancel)
        /\ UNCHANGED <<caching, leaked, left>>
     \/ /\ Primary.seat[s] # b
        /\ UNCHANGED <<db, caching, pc, leaked, left>>
     \/ /\ Primary.seat[s] = b
        /\ Spend("failures")
        /\ leaked' = [leaked EXCEPT ![b] = @ \cup {s}]
        /\ UNCHANGED <<db, pc, caching>>
     \/ /\ Primary.seat[s] = b
        /\ Commit(WithSeat(s, "free")) /\ AnswerLost
        /\ UNCHANGED <<pc, leaked>>
  /\ UNCHANGED <<creation, chunk, failed, reading>>

InvalidateCancelled(b) ==
  /\ pc[b] = "invalidate" /\ b \in Bulks
  /\ Invalidate
  /\ Goto(b, "rollback")
  /\ UNCHANGED <<catalogue, events, bulk, reading>>

FailBulk(b) ==
  /\ pc[b] = "rollback" /\ success[b] = {}
  /\ Goto(b, "error")
  /\ UNCHANGED <<catalogue, caching, bulk, reading, left>>

\* Has a committed something that it has yet to invalidate?
OwesInvalidation(a) ==
  \/ pc[a] = "invalidate"
  \/ /\ a \in Bulks /\ Running(a)
     /\ \E k \in Chunks(a) : chunk[a][k].step = "invalidate"

\* The process dies, wherever it is; what it has committed stays.
Dies(a) ==
  /\ Spend("crashes")
  /\ pc[a] \in {"run", "rollback", "invalidate", "publish"}
  /\ Goto(a, "died")
  /\ missed' = (missed \/ (OwesInvalidation(a) /\ cache # Empty))
  /\ UNCHANGED <<catalogue, cache, events, bulk, reading>>

------------------------------------------------------------------------------
Next ==
  \/ CreateEventRow \/ CreateBulkSeats \/ FinishCreation
  \/ Replicate \/ Expire \/ ConsumeBookingEvent
  \/ \E q \in Readers : GetEventByID(q) \/ FindByID(q) \/ CacheEvent(q)
  \/ \E l \in Listers : GetEventSeats(l) \/ CountSeats(l) \/ ListSeats(l)
  \/ \E o \in Others :
       \/ \E s \in Seats : ChangeSeat(o, s)
       \/ InvalidateChange(o)
       \/ PublishChange(o)
  \/ \E b \in Bulks :
       \/ BulkReserve(b)
       \/ \E k \in Chunks(b) : ReserveNext(b, k) \/ InvalidateNext(b, k) \/ PublishNext(b, k)
       \/ Collect(b)
       \/ \E s \in Seats : CancelNext(b, s)
       \/ InvalidateCancelled(b)
       \/ FailBulk(b)
  \/ \E a \in Bulks \cup Others : Dies(a)

Spec == Init /\ [][Next]_vars

\* Redis forgets an entry when its lifetime is over.
FairSpec == Spec /\ WF_vars(Expire)

------------------------------------------------------------------------------
(* Correctness properties.                                                 *)

\* "If any reservation fails, all successful reservations are rolled back":
\* a bulk reservation that is answered with an error holds no seat, even
\* when its chunks fail at different times or ask for a seat twice, but for
\* those whose cancellation failed, which is ignored, and those whose
\* reservation was committed without its answer, of which it never learns; and
\* one that is answered with success has reserved every seat it asked for.
BulkAllOrNothing ==
  \A b \in Bulks :
    /\ pc[b] = "error" => \A s \in Seats \ leaked[b] : Primary.seat[s] # b
    /\ pc[b] = "ok" => success[b] = {Wanted[b][n] : n \in 1 .. Len(Wanted[b])}

\* An event offers the seats it has: wherever it is read, its available_seats
\* counts the free seats, or it has none at all because its creation is not
\* finished or has failed; and no list of its seats is ever a part of them.
SeatsAllOrNone ==
  /\ \A n \in 1 .. Len(db) :
       LET there == {s \in Seats : db[n].seat[s] # "none"}
       IN  \/ /\ there = Seats
              /\ db[n].available = Cardinality({s \in Seats : db[n].seat[s] = "free"})
           \/ there = {} /\ db[n].available \in {NoRow, Total}
  /\ \A l \in Listers : listing[l] \in {0, Total}

Stale == cache # Empty /\ cache.row # Primary.available

\* An entry that was up to date when it was stored is out of date only
\* between a commit and the invalidation that follows it, whoever commits;
\* unless that invalidation failed, or its process died first, or it was left
\* out because the answer to the commit was lost.
CacheTruthful ==
  (Stale /\ ~cache.raced /\ ~missed) =>
    \E a \in Bulks \cup Others : OwesInvalidation(a)

\* A row that a reader stores after the invalidation, or reads from a replica
\* that is behind, is served no longer than its lifetime.
StaleEntriesExpire == Stale ~> ~Stale
==============================================================================
