--------------------------- MODULE EventSaleProofs --------------------------
(***************************************************************************)
(* The sale of an event, for any number of seats, requests and failures:   *)
(* its seats appear all together, a bulk reservation is all or nothing,    *)
(* and the cached row is true but for what is owed to it.                  *)
(***************************************************************************)
EXTENDS EventSale, Integers, FiniteSetTheorems, SequenceTheorems, TLAPS

------------------------------------------------------------------------------
(* The chunks of a bulk reservation.                                       *)

\* Integer division by a positive number.
LEMMA Division ==
  ASSUME NEW x \in Nat, NEW c \in Nat \ {0}
  PROVE  /\ x \div c \in Nat
         /\ (x \div c) * c <= x
         /\ x < (x \div c) * c + c
         /\ \A k \in Nat : k * c <= x => k <= x \div c
<1> DEFINE q == x \div c
<1>1. q \in Nat /\ q * c <= x /\ x < q * c + c
  BY Z3
<1>2. ASSUME NEW k \in Nat, k * c <= x PROVE k <= q
  <2> HIDE DEF q
  <2> SUFFICES ASSUME k > q PROVE FALSE
    BY <1>1
  <2>1. k >= q + 1
    BY <1>1
  <2>2. k * c >= (q + 1) * c
    BY <2>1, <1>1
  <2>3. (q + 1) * c = q * c + c
    BY <1>1
  <2> QED BY <1>1, <1>2, <2>2, <2>3
<1> QED BY <1>1, <1>2

\* A chunk is a part of the seats that are asked for, and is not empty.
LEMMA ChunkIsPart ==
  ASSUME NEW b \in Bulks, NEW k \in Chunks(b)
  PROVE  /\ ChunkSeats(b, k) \in Seq(Seats)
         /\ Len(ChunkSeats(b, k)) \in Nat \ {0}
         /\ k \in Nat
         /\ \A m \in 1 .. Len(ChunkSeats(b, k)) :
              /\ (k - 1) * ChunkSize + m \in 1 .. Len(Wanted[b])
              /\ ChunkSeats(b, k)[m] = Wanted[b][(k - 1) * ChunkSize + m]
         /\ \A m \in Nat :
              (m > 0 /\ m <= ChunkSize /\ (k - 1) * ChunkSize + m <= Len(Wanted[b]))
                => m <= Len(ChunkSeats(b, k))
<1> DEFINE L == Len(Wanted[b])
           c == ChunkSize
           lo == (k - 1) * c + 1
           hi == IF k * c < L THEN k * c ELSE L
<1>1. L \in Nat /\ c \in Nat \ {0} /\ Wanted[b] \in Seq(Seats)
  BY SaleAssumption
<1>2. k \in Nat /\ k >= 1 /\ k <= (L + c - 1) \div c
  <2>1. L + c - 1 \in Nat
    BY <1>1
  <2>2. (L + c - 1) \div c \in Nat
    BY <1>1, <2>1, Division
  <2> QED BY <2>2 DEF Chunks
<1>3. (k - 1) * c \in Nat /\ k * c \in Nat /\ (k - 1) * c = k * c - c
  <2> HIDE DEF c
  <2>1. \A m, n \in Nat : m * n \in Nat
    OBVIOUS
  <2>2. k - 1 \in Nat
    BY <1>2
  <2>3. (k - 1) * c = k * c - c
    BY <1>1, <1>2
  <2> QED BY <1>1, <1>2, <2>1, <2>2, <2>3
<1>4. k * c <= L + c - 1
  <2> DEFINE q == (L + c - 1) \div c
  <2>1. L + c - 1 \in Nat
    BY <1>1
  <2>2. q \in Nat /\ q * c <= L + c - 1
    BY <1>1, <2>1, Division
  <2>3. k <= q
    BY <1>2
  <2> HIDE DEF q, c, L
  <2>4. k * c <= q * c
    BY <1>1, <1>2, <2>2, <2>3
  <2>5. q * c \in Int /\ k * c \in Int
    BY <1>1, <1>2, <2>2
  <2> QED BY <1>1, <2>1, <2>2, <2>4, <2>5
<1>5. lo \in Nat /\ hi \in Nat /\ 1 <= lo /\ lo <= hi /\ hi <= L
  <2> DEFINE p == k * c
  <2>1. p \in Nat /\ lo = p - c + 1 /\ lo >= 1 /\ p <= L + c - 1
    BY <1>3, <1>4
  <2>2. hi = IF p < L THEN p ELSE L
    OBVIOUS
  <2> HIDE DEF p, lo, hi, L, c
  <2> QED BY <1>1, <2>1, <2>2
<1>6. ChunkSeats(b, k) = SubSeq(Wanted[b], lo, hi)
  BY DEF ChunkSeats
<1>7. \A i \in lo .. hi : Wanted[b][i] \in Seats
  <2> HIDE DEF lo, hi
  <2>1. \A i \in lo .. hi : i \in 1 .. L
    BY <1>1, <1>5
  <2> QED BY <1>1, <2>1
<1>8. /\ ChunkSeats(b, k) \in Seq(Seats)
      /\ Len(ChunkSeats(b, k)) = hi - lo + 1
      /\ \A i \in 1 .. hi - lo + 1 : ChunkSeats(b, k)[i] = Wanted[b][lo + i - 1]
  <2> HIDE DEF lo, hi
  <2>1. lo \in Int /\ hi \in Int
    BY <1>5
  <2>2. /\ SubSeq(Wanted[b], lo, hi) \in Seq(Seats)
        /\ Len(SubSeq(Wanted[b], lo, hi)) = IF lo <= hi THEN hi - lo + 1 ELSE 0
        /\ \A i \in 1 .. hi - lo + 1 : SubSeq(Wanted[b], lo, hi)[i] = Wanted[b][lo + i - 1]
    BY <1>7, <2>1, SubSeqProperties
  <2> QED BY <1>5, <1>6, <2>2
<1> DEFINE S == ChunkSeats(b, k)
           o == (k - 1) * c
<1>9. /\ o \in Nat /\ lo = o + 1
      /\ hi = IF o + c < L THEN o + c ELSE L
  <2> DEFINE p == k * c
  <2>1. p \in Nat /\ o = p - c /\ o \in Nat
    BY <1>3
  <2>2. hi = (IF p < L THEN p ELSE L) /\ p = o + c
    <3> HIDE DEF o
    <3>1. p = o + c
      <4> HIDE DEF p
      <4> QED BY <1>1, <2>1
    <3> QED BY <3>1
  <2> HIDE DEF p
  <2> QED BY <2>1, <2>2
<1> HIDE DEF lo, hi, L, c, S, o
<1>10. \A m \in 1 .. Len(S) : o + m \in 1 .. L /\ S[m] = Wanted[b][o + m]
  <2> SUFFICES ASSUME NEW m \in 1 .. Len(S) PROVE o + m \in 1 .. L /\ S[m] = Wanted[b][o + m]
    OBVIOUS
  <2>1. m \in 1 .. hi - lo + 1
    BY <1>8 DEF S
  <2>2. lo + m - 1 = o + m /\ o + m \in 1 .. L
    BY <1>1, <1>5, <1>9, <2>1
  <2> QED BY <1>8, <2>1, <2>2 DEF S
<1>11. \A m \in Nat : m > 0 /\ m <= c /\ o + m <= L => m <= Len(S)
  BY <1>1, <1>5, <1>8, <1>9 DEF S
<1>12. Len(S) \in Nat \ {0}
  BY <1>5, <1>8 DEF S
<1>13. S \in Seq(Seats)
  BY <1>8 DEF S
<1> QED BY <1>2, <1>10, <1>11, <1>12, <1>13 DEF S, o, L, c

\* Every seat that is asked for is in a chunk.
LEMMA ChunksCover ==
  ASSUME NEW b \in Bulks, NEW n \in 1 .. Len(Wanted[b])
  PROVE  \E k \in Chunks(b) :
           \E m \in 1 .. Len(ChunkSeats(b, k)) : ChunkSeats(b, k)[m] = Wanted[b][n]
<1> DEFINE L == Len(Wanted[b])
           c == ChunkSize
           q == (n - 1) \div c
           m == n - q * c
<1>1. L \in Nat /\ c \in Nat \ {0} /\ n \in Nat /\ n >= 1 /\ n <= L
  BY SaleAssumption
<1>2. q \in Nat /\ q * c <= n - 1 /\ n - 1 < q * c + c
  <2>1. n - 1 \in Nat
    BY <1>1
  <2> HIDE DEF c
  <2> QED BY <1>1, <2>1, Division
<1>3. q * c \in Nat
  <2> HIDE DEF q, c
  <2>1. \A i, j \in Nat : i * j \in Nat
    OBVIOUS
  <2> QED BY <1>1, <1>2, <2>1
<1>4. m \in Nat /\ m > 0 /\ m <= c /\ q * c + m = n
  <2> DEFINE p == q * c
  <2>1. p \in Nat /\ p <= n - 1 /\ n - 1 < p + c /\ m = n - p
    BY <1>2, <1>3
  <2> HIDE DEF p, q, c, m
  <2>2. m \in Nat /\ m > 0 /\ m <= c /\ p + m = n
    BY <1>1, <2>1
  <2> QED BY <2>2 DEF p
<1>5. q + 1 \in Chunks(b)
  <2>1. L + c - 1 \in Nat
    BY <1>1
  <2>2. (q + 1) * c <= L + c - 1
    <3> DEFINE p == q * c
    <3> HIDE DEF q, c, L
    <3>1. (q + 1) * c = p + c
      BY <1>1, <1>2
    <3> HIDE DEF p
    <3>2. p \in Nat /\ p <= n - 1
      BY <1>2, <1>3 DEF p
    <3> QED BY <1>1, <3>1, <3>2
  <2>3. q + 1 <= (L + c - 1) \div c /\ (L + c - 1) \div c \in Nat
    <3> HIDE DEF q, c, L
    <3>1. q + 1 \in Nat
      BY <1>2
    <3> QED BY <1>1, <2>1, <2>2, <3>1, Division
  <2> HIDE DEF q
  <2> QED BY <1>2, <2>3 DEF Chunks
<1> DEFINE k == q + 1
<1>6. (k - 1) * ChunkSize + m = n
  <2>1. k - 1 = q
    <3> HIDE DEF q
    <3> QED BY <1>2
  <2> HIDE DEF k, m, q
  <2> QED BY <1>4, <2>1
<1> HIDE DEF k, m, q
<1>7. k \in Chunks(b)
  BY <1>5 DEF k
<1>8. m \in 1 .. Len(ChunkSeats(b, k))
  <2>1. Len(ChunkSeats(b, k)) \in Nat /\ m <= Len(ChunkSeats(b, k))
    BY <1>1, <1>4, <1>6, <1>7, ChunkIsPart
  <2> QED BY <1>4, <2>1
<1>9. ChunkSeats(b, k)[m] = Wanted[b][(k - 1) * ChunkSize + m]
  BY <1>7, <1>8, ChunkIsPart
<1> QED BY <1>6, <1>7, <1>8, <1>9
------------------------------------------------------------------------------
(* The rows of the event.                                                  *)

DbState == [available : Nat \cup {NoRow}, seat : [Seats -> SeatState]]

There(d) == {s \in Seats : d.seat[s] # "none"}
FreeIn(d) == {s \in Seats : d.seat[s] = "free"}

\* All seats are there and the free ones are counted, or none is.
StateOK(d) ==
  \/ There(d) = Seats /\ d.available = Cardinality(FreeIn(d))
  \/ There(d) = {} /\ d.available \in {NoRow, Total}

RowOnly == [available |-> Total, seat |-> [s \in Seats |-> "none"]]

\* What the steps of the creation rely on: nothing can be sold before the
\* seats are there.
RowsOK ==
  /\ db \in Seq(DbState) /\ Len(db) > 0
  /\ \A n \in 1 .. Len(db) : StateOK(db[n])
  /\ creation \in {"new", "row", "seats", "done", "failed"}
  /\ creation = "new" => \A n \in 1 .. Len(db) : db[n] = NoEvent
  /\ creation = "row" => Primary = RowOnly

\* The seats and the free ones can be counted.
LEMMA SeatsAreFinite ==
  /\ Total \in Nat
  /\ \A S \in SUBSET Seats : IsFiniteSet(S) /\ Cardinality(S) \in Nat
<1> QED BY SaleAssumption, FS_Subset, FS_CardinalityType DEF Total

\* The three states in which nothing has been sold.
LEMMA FreshStates ==
  /\ {NoEvent, RowOnly, WholeEvent} \subseteq DbState
  /\ StateOK(NoEvent) /\ StateOK(RowOnly) /\ StateOK(WholeEvent)
<1>1. {NoEvent, RowOnly, WholeEvent} \subseteq DbState
  BY SeatsAreFinite DEF NoEvent, RowOnly, WholeEvent, DbState, SeatState
<1>2. There(NoEvent) = {} /\ There(RowOnly) = {} /\ There(WholeEvent) = Seats
  BY DEF There, NoEvent, RowOnly, WholeEvent
<1>3. FreeIn(WholeEvent) = Seats
  BY DEF FreeIn, WholeEvent
<1> QED BY <1>1, <1>2, <1>3 DEF StateOK, NoEvent, RowOnly, WholeEvent, Total

\* A seat that changes hands is counted.
LEMMA WithSeatOK ==
  ASSUME Primary \in DbState, StateOK(Primary), NEW s \in Seats,
         Primary.seat[s] # "none", NEW st \in SeatState, st # "none"
  PROVE  /\ WithSeat(s, st) \in DbState /\ StateOK(WithSeat(s, st))
         /\ WithSeat(s, st).seat = [Primary.seat EXCEPT ![s] = st]
<1> DEFINE P == Primary
           W == WithSeat(s, st)
           gain == IF st = "free" THEN 1 ELSE 0
           loss == IF P.seat[s] = "free" THEN 1 ELSE 0
           n == Cardinality(FreeIn(P))
<1>1. P.seat \in [Seats -> SeatState]
  BY DEF DbState
<1>2. W.seat = [P.seat EXCEPT ![s] = st] /\ W.available = P.available + gain - loss
      /\ W = [available |-> P.available + gain - loss, seat |-> [P.seat EXCEPT ![s] = st]]
  BY DEF WithSeat
<1>3. There(P) = Seats /\ P.available = n
  <2>1. s \in There(P)
    BY DEF There
  <2> QED BY <2>1 DEF StateOK
<1>4. n \in Nat /\ IsFiniteSet(FreeIn(P))
  BY SeatsAreFinite DEF FreeIn
<1>5. There(W) = Seats
  BY <1>1, <1>2, <1>3 DEF There
<1>6. Cardinality(FreeIn(W)) = n + gain - loss
  <2>1. CASE st = "free" /\ P.seat[s] # "free"
    <3>1. FreeIn(W) = FreeIn(P) \cup {s} /\ s \notin FreeIn(P)
      BY <1>1, <1>2, <2>1 DEF FreeIn
    <3>2. Cardinality(FreeIn(P) \cup {s}) = n + 1
      BY <1>4, <3>1, FS_AddElement
    <3>3. gain = 1 /\ loss = 0
      BY <2>1
    <3> HIDE DEF n, W, P, gain, loss
    <3> QED BY <1>4, <3>1, <3>2, <3>3
  <2>2. CASE st # "free" /\ P.seat[s] = "free"
    <3>1. FreeIn(W) = FreeIn(P) \ {s} /\ s \in FreeIn(P)
      BY <1>1, <1>2, <2>2 DEF FreeIn
    <3>2. Cardinality(FreeIn(P) \ {s}) = n - 1
      BY <1>4, <3>1, FS_RemoveElement
    <3> QED BY <1>4, <2>2, <3>1, <3>2
  <2>3. CASE st = "free" <=> P.seat[s] = "free"
    <3>1. FreeIn(W) = FreeIn(P)
      BY <1>1, <1>2, <2>3 DEF FreeIn
    <3> QED BY <1>4, <2>3, <3>1
  <2> QED BY <2>1, <2>2, <2>3
<1>7. W.available = Cardinality(FreeIn(W)) /\ W.available \in Nat
  <2>1. Cardinality(FreeIn(W)) \in Nat
    BY SeatsAreFinite DEF FreeIn
  <2>2. W.available = Cardinality(FreeIn(W))
    BY <1>2, <1>3, <1>6
  <2> QED BY <2>1, <2>2
<1>8. W \in DbState
  <2>1. [P.seat EXCEPT ![s] = st] \in [Seats -> SeatState]
    BY <1>1
  <2>2. P.available + gain - loss \in Nat
    BY <1>2, <1>7
  <2> QED BY <1>2, <2>1, <2>2 DEF DbState
<1> QED BY <1>2, <1>5, <1>7, <1>8 DEF StateOK

\* The states of the primary and of the replica are among the committed ones.
LEMMA EndsOfDb ==
  ASSUME RowsOK
  PROVE  /\ Len(db) \in Nat /\ 1 \in 1 .. Len(db) /\ Len(db) \in 1 .. Len(db)
         /\ Primary \in DbState /\ StateOK(Primary)
         /\ Replica = db[1] /\ Replica \in DbState /\ StateOK(Replica)
<1>1. Len(db) \in Nat /\ 1 \in 1 .. Len(db) /\ Len(db) \in 1 .. Len(db)
  BY DEF RowsOK
<1>2. Replica = db[1]
  BY DEF RowsOK, Replica
<1>3. db[1] \in DbState /\ db[Len(db)] \in DbState
  <2>1. \A n \in 1 .. Len(db) : db[n] \in DbState
    BY DEF RowsOK
  <2> QED BY <1>1, <2>1
<1> QED BY <1>1, <1>2, <1>3 DEF RowsOK, Primary

\* A commit adds one state at the end.
LEMMA CommitRows ==
  ASSUME RowsOK, NEW d \in DbState, Commit(d)
  PROVE  /\ db' \in Seq(DbState) /\ Len(db') = Len(db) + 1 /\ Primary' = d
         /\ \A n \in 1 .. Len(db) : db'[n] = db[n]
         /\ StateOK(d) => \A n \in 1 .. Len(db') : StateOK(db'[n])
<1>1. db \in Seq(DbState) /\ db' = Append(db, d)
  BY DEF RowsOK, Commit
<1>2. /\ db' \in Seq(DbState) /\ Len(db') = Len(db) + 1 /\ db'[Len(db) + 1] = d
      /\ \A n \in 1 .. Len(db) : db'[n] = db[n]
  BY <1>1
<1>3. Primary' = d
  BY <1>2 DEF Primary
<1>4. ASSUME StateOK(d), NEW n \in 1 .. Len(db') PROVE StateOK(db'[n])
  <2>1. n \in 1 .. Len(db) \/ n = Len(db) + 1
    BY <1>1, <1>2
  <2> QED BY <1>2, <1>4, <2>1 DEF RowsOK
<1> QED BY <1>2, <1>3, <1>4

\* The goroutines of a bulk reservation never leave their chunks.
ChunksOK ==
  /\ DOMAIN chunk = Bulks
  /\ \A b \in Bulks :
       /\ chunk[b] \in [Chunks(b) -> Goroutine]
       /\ \A k \in Chunks(b) : chunk[b][k].next \in 1 .. Len(ChunkSeats(b, k))

\* The seat that a goroutine is about to reserve, or has reserved last.
SeatAt(b, k) == ChunkSeats(b, k)[chunk[b][k].next]

\* It is one of the seats that are asked for.
LEMMA SeatAtIsSeat ==
  ASSUME ChunksOK, NEW b \in Bulks, NEW k \in Chunks(b)
  PROVE  SeatAt(b, k) \in Seats
<1>1. chunk[b][k].next \in 1 .. Len(ChunkSeats(b, k))
  BY DEF ChunksOK
<1>2. ChunkSeats(b, k) \in Seq(Seats)
  BY ChunkIsPart
<1> QED BY <1>1, <1>2 DEF SeatAt

\* A goroutine that goes on leaves the others alone.
LEMMA ProceedOne ==
  ASSUME ChunksOK, NEW b \in Bulks, NEW k \in Chunks(b),
         NEW n \in 1 .. Len(ChunkSeats(b, k)),
         NEW st \in {"reserve", "invalidate", "publish", "ended"},
         Proceed(b, k, n, st)
  PROVE  /\ ChunksOK'
         /\ chunk'[b][k] = [next |-> n, step |-> st]
         /\ \A i \in Chunks(b) \ {k} : chunk'[b][i] = chunk[b][i]
         /\ \A c \in Bulks \ {b} : chunk'[c] = chunk[c]
<1>1. n \in Nat
  OBVIOUS
<1>2. [next |-> n, step |-> st] \in Goroutine
  BY <1>1 DEF Goroutine
<1>3. /\ chunk'[b] = [chunk[b] EXCEPT ![k] = [next |-> n, step |-> st]]
      /\ \A c \in Bulks \ {b} : chunk'[c] = chunk[c]
      /\ DOMAIN chunk' = Bulks
  BY DEF Proceed, ChunksOK
<1>4. /\ chunk'[b][k] = [next |-> n, step |-> st]
      /\ \A i \in Chunks(b) \ {k} : chunk'[b][i] = chunk[b][i]
      /\ chunk'[b] \in [Chunks(b) -> Goroutine]
  BY <1>2, <1>3 DEF ChunksOK
<1>5. ChunksOK'
  <2> SUFFICES ASSUME NEW c \in Bulks
               PROVE  /\ chunk'[c] \in [Chunks(c) -> Goroutine]
                      /\ \A i \in Chunks(c) :
                           chunk'[c][i].next \in 1 .. Len(ChunkSeats(c, i))
    BY <1>3 DEF ChunksOK
  <2>1. CASE c = b
    <3>1. ASSUME NEW i \in Chunks(b)
          PROVE  chunk'[b][i].next \in 1 .. Len(ChunkSeats(b, i))
      <4>1. CASE i = k
        BY <1>4, <4>1
      <4>2. CASE i # k
        BY <1>4, <4>2 DEF ChunksOK
      <4> QED BY <4>1, <4>2
    <3> QED BY <1>4, <2>1, <3>1
  <2>2. CASE c # b
    BY <1>3, <2>2 DEF ChunksOK
  <2> QED BY <2>1, <2>2
<1> QED BY <1>3, <1>4, <1>5

\* A step of Next leaves the chunks alone, or one goroutine goes on.
LEMMA ChunkSteps ==
  ASSUME ChunksOK, Next
  PROVE  \/ UNCHANGED chunk
         \/ \E b \in Bulks : \E k \in Chunks(b) :
              \E n \in 1 .. Len(ChunkSeats(b, k)),
                 st \in {"reserve", "invalidate", "publish", "ended"} :
                   Proceed(b, k, n, st)
<1>1. ASSUME NEW b \in Bulks, NEW k \in Chunks(b),
             ReserveNext(b, k) \/ InvalidateNext(b, k) \/ PublishNext(b, k)
      PROVE  \E n \in 1 .. Len(ChunkSeats(b, k)),
                st \in {"reserve", "invalidate", "publish", "ended"} :
                  Proceed(b, k, n, st)
  <2>1. chunk[b][k].next \in 1 .. Len(ChunkSeats(b, k))
    BY DEF ChunksOK
  <2>2. Len(ChunkSeats(b, k)) \in Nat
    BY ChunkIsPart
  <2>3. CASE ReserveNext(b, k) \/ InvalidateNext(b, k)
    BY <2>1, <2>3 DEF ReserveNext, InvalidateNext
  <2>4. CASE PublishNext(b, k)
    <3>1. CASE chunk[b][k].next < Len(ChunkSeats(b, k))
      <4>1. chunk[b][k].next + 1 \in 1 .. Len(ChunkSeats(b, k))
        BY <2>1, <2>2, <3>1
      <4> QED BY <2>4, <3>1, <4>1 DEF PublishNext
    <3>2. CASE ~(chunk[b][k].next < Len(ChunkSeats(b, k)))
      BY <2>1, <2>4, <3>2 DEF PublishNext
    <3> QED BY <3>1, <3>2
  <2> QED BY <1>1, <2>3, <2>4
<1>2. CASE \/ CreateEventRow \/ CreateBulkSeats \/ FinishCreation
           \/ Replicate \/ Expire \/ ConsumeBookingEvent
           \/ \E q \in Readers : GetEventByID(q) \/ FindByID(q) \/ CacheEvent(q)
           \/ \E l \in Listers : GetEventSeats(l) \/ CountSeats(l) \/ ListSeats(l)
           \/ \E o \in Others :
                \/ \E s \in Seats : ChangeSeat(o, s)
                \/ InvalidateChange(o) \/ PublishChange(o)
           \/ \E b \in Bulks :
                \/ BulkReserve(b) \/ Collect(b)
                \/ \E s \in Seats : CancelNext(b, s)
                \/ InvalidateCancelled(b) \/ FailBulk(b)
           \/ \E a \in Bulks \cup Others : Dies(a)
  BY <1>2 DEF CreateEventRow, CreateBulkSeats, FinishCreation, Replicate, Expire,
     ConsumeBookingEvent, GetEventByID, FindByID, CacheEvent, GetEventSeats,
     CountSeats, ListSeats, ChangeSeat, InvalidateChange, PublishChange,
     BulkReserve, Collect, CancelNext, InvalidateCancelled, FailBulk, Dies, bulk
<1> QED BY <1>1, <1>2 DEF Next

\* The chunks keep their type.
LEMMA ChunksHold == Spec => []ChunksOK
<1>1. Init => ChunksOK
  <2> SUFFICES ASSUME Init, NEW b \in Bulks
               PROVE  /\ DOMAIN chunk = Bulks
                      /\ chunk[b] \in [Chunks(b) -> Goroutine]
                      /\ \A k \in Chunks(b) :
                           chunk[b][k].next \in 1 .. Len(ChunkSeats(b, k))
    BY DEF Init, ChunksOK
  <2>1. chunk = [c \in Bulks |-> [k \in Chunks(c) |-> [next |-> 1, step |-> "reserve"]]]
    BY DEF Init
  <2>2. ASSUME NEW k \in Chunks(b) PROVE 1 \in 1 .. Len(ChunkSeats(b, k))
    BY ChunkIsPart
  <2> QED BY <2>1, <2>2 DEF Goroutine
<1>2. ChunksOK /\ [Next]_vars => ChunksOK'
  <2> SUFFICES ASSUME ChunksOK, [Next]_vars PROVE ChunksOK'
    OBVIOUS
  <2>1. CASE UNCHANGED chunk
    BY <2>1 DEF ChunksOK
  <2>2. CASE \E b \in Bulks : \E k \in Chunks(b) :
              \E n \in 1 .. Len(ChunkSeats(b, k)),
                 st \in {"reserve", "invalidate", "publish", "ended"} :
                   Proceed(b, k, n, st)
    BY <2>2, ProceedOne
  <2> QED BY <2>1, <2>2, ChunkSteps DEF vars, bulk
<1> QED BY <1>1, <1>2, PTL DEF Spec

\* How the database and the creation of the event move together.
LEMMA RowsSteps ==
  ASSUME RowsOK, ChunksOK, Next
  PROVE  \/ UNCHANGED <<db, creation>>
         \/ Len(db) > 1 /\ db' = Tail(db) /\ UNCHANGED creation
         \/ creation = "new" /\ creation' \in {"row", "failed"} /\ Commit(RowOnly)
         \/ creation = "row" /\ creation' \in {"seats", "failed"} /\ Commit(WholeEvent)
         \/ creation = "row" /\ creation' = "failed" /\ UNCHANGED db
         \/ creation = "seats" /\ creation' = "done" /\ UNCHANGED db
         \/ /\ UNCHANGED creation
            /\ \E s \in Seats, st \in SeatState \ {"none"} :
                 Primary.seat[s] # "none" /\ Commit(WithSeat(s, st))
<1>1. CASE CreateEventRow
  <2>1. Primary = NoEvent /\ creation = "new"
    BY <1>1, EndsOfDb DEF RowsOK, CreateEventRow, Primary
  <2>2. [Primary EXCEPT !.available = Total] = RowOnly
    BY <2>1 DEF NoEvent, RowOnly
  <2> QED BY <1>1, <2>1, <2>2 DEF CreateEventRow
<1>2. CASE CreateBulkSeats \/ FinishCreation \/ Replicate
  BY <1>2 DEF CreateBulkSeats, FinishCreation, Replicate
<1>3. ASSUME NEW o \in Others, NEW s \in Seats, ChangeSeat(o, s)
      PROVE  /\ UNCHANGED creation
             /\ \E st \in SeatState \ {"none"} :
                  Primary.seat[s] # "none" /\ Commit(WithSeat(s, st))
  BY <1>3, SaleAssumption DEF ChangeSeat, Reservable, SeatState
<1>4. ASSUME NEW b \in Bulks, NEW k \in Chunks(b), ReserveNext(b, k)
      PROVE  \/ UNCHANGED <<db, creation>>
             \/ /\ UNCHANGED creation
                /\ \E s \in Seats, st \in SeatState \ {"none"} :
                     Primary.seat[s] # "none" /\ Commit(WithSeat(s, st))
  <2>1. \/ UNCHANGED <<db, creation>>
        \/ /\ UNCHANGED creation
           /\ Reservable(SeatAt(b, k)) /\ Commit(WithSeat(SeatAt(b, k), b))
    BY <1>4 DEF ReserveNext, SeatAt
  <2>2. b \in SeatState \ {"none"} /\ SeatAt(b, k) \in Seats
    BY SaleAssumption, SeatAtIsSeat DEF SeatState
  <2> QED BY <2>1, <2>2 DEF Reservable
<1>5. ASSUME NEW b \in Bulks, NEW s \in Seats, CancelNext(b, s)
      PROVE  \/ UNCHANGED <<db, creation>>
             \/ /\ UNCHANGED creation
                /\ \E st \in SeatState \ {"none"} :
                     Primary.seat[s] # "none" /\ Commit(WithSeat(s, st))
  BY <1>5, SaleAssumption DEF CancelNext, SeatState
<1>6. CASE \/ Expire \/ ConsumeBookingEvent
           \/ \E q \in Readers : GetEventByID(q) \/ FindByID(q) \/ CacheEvent(q)
           \/ \E l \in Listers : GetEventSeats(l) \/ CountSeats(l) \/ ListSeats(l)
           \/ \E o \in Others : InvalidateChange(o) \/ PublishChange(o)
           \/ \E b \in Bulks :
                \/ BulkReserve(b) \/ Collect(b) \/ InvalidateCancelled(b) \/ FailBulk(b)
                \/ \E k \in Chunks(b) : InvalidateNext(b, k) \/ PublishNext(b, k)
           \/ \E a \in Bulks \cup Others : Dies(a)
  BY <1>6 DEF Expire, ConsumeBookingEvent, GetEventByID, FindByID, CacheEvent,
     GetEventSeats, CountSeats, ListSeats, InvalidateChange, PublishChange,
     BulkReserve, Collect, InvalidateCancelled, FailBulk, InvalidateNext,
     PublishNext, Dies, catalogue
<1> QED BY <1>1, <1>2, <1>3, <1>4, <1>5, <1>6 DEF Next

\* Every committed state is in order, and so is the next one.
LEMMA RowsHold == Spec => []RowsOK
<1>1. Init => RowsOK
  <2> SUFFICES ASSUME Init PROVE RowsOK
    OBVIOUS
  <2>1. \/ db = <<WholeEvent>> /\ creation = "done"
        \/ db = <<NoEvent>> /\ creation = "new"
    BY DEF Init
  <2>2. ASSUME NEW d \in DbState, StateOK(d), db = <<d>>
        PROVE  /\ db \in Seq(DbState) /\ Len(db) > 0 /\ Primary = d
               /\ \A n \in 1 .. Len(db) : db[n] = d /\ StateOK(db[n])
    <3>1. Len(db) = 1 /\ db[1] = d /\ db \in Seq(DbState)
      BY <2>2
    <3> QED BY <2>2, <3>1 DEF Primary
  <2>3. CASE db = <<WholeEvent>> /\ creation = "done"
    <3>1. WholeEvent \in DbState /\ StateOK(WholeEvent)
      BY FreshStates
    <3> QED BY <2>2, <2>3, <3>1 DEF RowsOK
  <2>4. CASE db = <<NoEvent>> /\ creation = "new"
    <3>1. NoEvent \in DbState /\ StateOK(NoEvent)
      BY FreshStates
    <3> QED BY <2>2, <2>4, <3>1 DEF RowsOK
  <2> QED BY <2>1, <2>3, <2>4
<1>2. RowsOK /\ ChunksOK /\ [Next]_vars => RowsOK'
  <2> SUFFICES ASSUME RowsOK, ChunksOK, [Next]_vars PROVE RowsOK'
    OBVIOUS
  <2>1. CASE UNCHANGED <<db, creation>>
    BY <2>1 DEF RowsOK, Primary
  <2>2. CASE Len(db) > 1 /\ db' = Tail(db) /\ UNCHANGED creation
    <3>1. /\ db' \in Seq(DbState) /\ Len(db') = Len(db) - 1
          /\ \A n \in 1 .. Len(db') : db'[n] = db[n + 1]
          /\ Len(db) \in Nat
      BY <2>2 DEF RowsOK
    <3>2. \A n \in 1 .. Len(db') : n + 1 \in 1 .. Len(db)
      BY <2>2, <3>1
    <3>3. Primary' = Primary
      BY <2>2, <3>1 DEF Primary
    <3>4. Len(db') > 0
      BY <2>2, <3>1
    <3> QED BY <2>2, <3>1, <3>2, <3>3, <3>4 DEF RowsOK
  <2>3. CASE creation = "new" /\ creation' \in {"row", "failed"} /\ Commit(RowOnly)
    <3>1. Len(db) \in Nat
      BY EndsOfDb
    <3> QED BY <2>3, <3>1, FreshStates, CommitRows DEF RowsOK
  <2>4. CASE creation = "row" /\ creation' \in {"seats", "failed"} /\ Commit(WholeEvent)
    <3>1. Len(db) \in Nat
      BY EndsOfDb
    <3> QED BY <2>4, <3>1, FreshStates, CommitRows DEF RowsOK
  <2>5. CASE \/ creation = "row" /\ creation' = "failed" /\ UNCHANGED db
             \/ creation = "seats" /\ creation' = "done" /\ UNCHANGED db
    BY <2>5 DEF RowsOK, Primary
  <2>6. CASE /\ UNCHANGED creation
             /\ \E s \in Seats, st \in SeatState \ {"none"} :
                  Primary.seat[s] # "none" /\ Commit(WithSeat(s, st))
    <3>1. PICK s \in Seats, st \in SeatState \ {"none"} :
            Primary.seat[s] # "none" /\ Commit(WithSeat(s, st))
      BY <2>6
    <3>2. WithSeat(s, st) \in DbState /\ StateOK(WithSeat(s, st))
      BY <3>1, EndsOfDb, WithSeatOK
    <3>3. PICK d \in DbState : d = WithSeat(s, st)
      BY <3>2
    <3>4. /\ db' \in Seq(DbState) /\ Len(db') = Len(db) + 1
          /\ \A n \in 1 .. Len(db') : StateOK(db'[n])
      BY <3>1, <3>2, <3>3, CommitRows
    <3>5. creation \in {"seats", "done", "failed"}
      <4>1. Primary # NoEvent /\ Primary # RowOnly
        BY <3>1 DEF NoEvent, RowOnly
      <4>2. creation # "new"
        BY <4>1, EndsOfDb DEF RowsOK, Primary
      <4> QED BY <4>1, <4>2 DEF RowsOK
    <3>6. Len(db') > 0
      BY <3>4, EndsOfDb
    <3> QED BY <2>6, <3>4, <3>5, <3>6 DEF RowsOK
  <2> QED BY <2>1, <2>2, <2>3, <2>4, <2>5, <2>6, RowsSteps DEF vars, catalogue
<1> QED BY ChunksHold, <1>1, <1>2, PTL DEF Spec

\* The seats of an event appear and are counted all together, in every state
\* that a reader can see, and so does every list of them.
THEOREM SeatsAppearTogether == Spec => []SeatsAllOrNone
<1> DEFINE Counted == listing \in [Listers -> {0, Total}]
<1>1. Init => Counted
  BY DEF Init
<1>2. RowsOK /\ Counted /\ [Next]_vars => Counted'
  <2> SUFFICES ASSUME RowsOK, Counted, [Next]_vars PROVE Counted'
    OBVIOUS
  <2>1. CASE UNCHANGED listing
    BY <2>1
  <2>2. ASSUME NEW l \in Listers, CountSeats(l) PROVE Counted'
    <3>1. Cardinality(There(Replica)) \in {0, Total}
      <4>1. There(Replica) \in {{}, Seats}
        BY EndsOfDb DEF StateOK
      <4> QED BY <4>1, FS_EmptySet DEF Total
    <3> QED BY <2>2, <3>1 DEF CountSeats, There
  <2>3. \/ UNCHANGED listing
        \/ \E l \in Listers : CountSeats(l)
    <3>1. CASE \/ UNCHANGED vars
               \/ CreateEventRow \/ CreateBulkSeats \/ FinishCreation
               \/ Replicate \/ Expire \/ ConsumeBookingEvent
      BY <3>1 DEF vars, reading, CreateEventRow, CreateBulkSeats, FinishCreation, Replicate,
         Expire, ConsumeBookingEvent
    <3>2. CASE \/ \E q \in Readers : GetEventByID(q) \/ FindByID(q) \/ CacheEvent(q)
               \/ \E l \in Listers : GetEventSeats(l) \/ CountSeats(l) \/ ListSeats(l)
      BY <3>2 DEF reading, GetEventByID, FindByID, CacheEvent, GetEventSeats, ListSeats
    <3>3. CASE \/ \E o \in Others : \/ \E s \in Seats : ChangeSeat(o, s)
                                    \/ InvalidateChange(o) \/ PublishChange(o)
               \/ \E a \in Bulks \cup Others : Dies(a)
      BY <3>3 DEF reading, ChangeSeat, InvalidateChange, PublishChange, Dies
    <3>4. CASE \E b \in Bulks : \/ BulkReserve(b) \/ Collect(b) \/ FailBulk(b)
                                \/ InvalidateCancelled(b)
                                \/ \E s \in Seats : CancelNext(b, s)
      BY <3>4 DEF reading, BulkReserve, Collect, FailBulk, InvalidateCancelled, CancelNext
    <3>5. CASE \E b \in Bulks : \E k \in Chunks(b) :
                 ReserveNext(b, k) \/ InvalidateNext(b, k) \/ PublishNext(b, k)
      BY <3>5 DEF reading, ReserveNext, InvalidateNext, PublishNext
    <3> QED BY <3>1, <3>2, <3>3, <3>4, <3>5 DEF Next
  <2> QED BY <2>1, <2>2, <2>3
<1>3. RowsOK /\ Counted => SeatsAllOrNone
  BY DEF RowsOK, SeatsAllOrNone, StateOK, There, FreeIn
<1> QED BY RowsHold, <1>1, <1>2, <1>3, PTL DEF Spec

------------------------------------------------------------------------------
(* Types.                                                                  *)

\* What an actor may do next.
Steps == {"start", "run", "rollback", "invalidate", "publish", "find", "store",
          "all", "filter", "ok", "error", "died"}

Entry == [row : Nat, raced : BOOLEAN, lifetime : BOOLEAN]

\* The variables but those of the rows and of the chunks; what a reader is
\* about to store is a row that it has found.
OthersOK ==
  /\ cache \in Entry \cup {Empty}
  /\ missed \in BOOLEAN
  /\ events \in Nat
  /\ pc \in [Actors -> Steps]
  /\ success \in [Bulks -> SUBSET Seats]
  /\ failed \in [Bulks -> BOOLEAN]
  /\ leaked \in [Bulks -> SUBSET Seats]
  /\ row \in [Readers -> Nat \cup {NoRow}]
  /\ listing \in [Listers -> 0 .. Total]
  /\ left \in [{"failures", "crashes"} -> Nat]
  /\ \A q \in Readers : pc[q] = "store" => row[q] \in Nat

\* An actor that goes to a step is there, and the others stay where they are.
LEMMA GotoOne ==
  ASSUME pc \in [Actors -> Steps], NEW a \in Actors, NEW st \in Steps, Goto(a, st)
  PROVE  /\ pc' \in [Actors -> Steps] /\ pc'[a] = st
         /\ \A c \in Actors \ {a} : pc'[c] = pc[c]
<1> QED BY DEF Goto

\* What may fail is counted down.
LEMMA SpendType ==
  ASSUME left \in [{"failures", "crashes"} -> Nat], NEW f \in {"failures", "crashes"},
         Spend(f) \/ UNCHANGED left
  PROVE  left' \in [{"failures", "crashes"} -> Nat]
<1>1. CASE UNCHANGED left
  BY <1>1
<1>2. CASE Spend(f)
  <2>1. left[f] - 1 \in Nat
    BY <1>2 DEF Spend
  <2> QED BY <1>2, <2>1 DEF Spend
<1> QED BY <1>1, <1>2

\* An invalidation keeps the types.
LEMMA InvalidateType ==
  ASSUME OthersOK, Invalidate
  PROVE  /\ cache' \in Entry \cup {Empty} /\ missed' \in BOOLEAN
         /\ left' \in [{"failures", "crashes"} -> Nat]
<1>1. left' \in [{"failures", "crashes"} -> Nat]
  BY SpendType DEF OthersOK, Invalidate
<1>2. CASE cache' = Empty /\ missed' = FALSE
  BY <1>1, <1>2
<1>3. CASE missed' = (missed \/ cache # Empty) /\ UNCHANGED cache
  BY <1>1, <1>3 DEF OthersOK
<1> QED BY <1>2, <1>3 DEF Invalidate

\* A publication keeps the types.
LEMMA PublishType ==
  ASSUME OthersOK, Publish
  PROVE  events' \in Nat /\ left' \in [{"failures", "crashes"} -> Nat]
<1>1. left' \in [{"failures", "crashes"} -> Nat]
  BY SpendType DEF OthersOK, Publish
<1>2. events' \in Nat
  BY DEF OthersOK, Publish
<1> QED BY <1>1, <1>2

\* So does a commit whose answer is lost.
LEMMA AnswerLostType ==
  ASSUME OthersOK, AnswerLost
  PROVE  /\ UNCHANGED <<cache, events>> /\ missed' \in BOOLEAN
         /\ left' \in [{"failures", "crashes"} -> Nat]
<1>1. left' \in [{"failures", "crashes"} -> Nat]
  BY SpendType DEF OthersOK, AnswerLost
<1>2. missed' \in BOOLEAN
  BY DEF OthersOK, AnswerLost
<1> QED BY <1>1, <1>2 DEF AnswerLost

\* It is remembered, if there is an entry that it leaves out of date.
LEMMA AnswerLostMissed ==
  ASSUME OthersOK, AnswerLost
  PROVE  UNCHANGED cache /\ (missed' \/ (cache = Empty /\ missed' = missed))
<1> QED BY DEF OthersOK, AnswerLost

\* Where the actors are: no change of a seat makes a reader store.
LEMMA NotStoring ==
  ASSUME OthersOK, NEW a \in Bulks \cup Others \cup Listers, NEW st \in Steps,
         Goto(a, st), UNCHANGED row
  PROVE  /\ pc' \in [Actors -> Steps] /\ row' \in [Readers -> Nat \cup {NoRow}]
         /\ \A q \in Readers : pc'[q] = pc[q]
         /\ \A q \in Readers : pc'[q] = "store" => row'[q] \in Nat
<1>1. a \in Actors /\ \A q \in Readers : q \in Actors \ {a}
  BY SaleAssumption DEF Actors
<1>2. /\ pc' \in [Actors -> Steps] /\ \A q \in Readers : pc'[q] = pc[q]
  BY <1>1, GotoOne DEF OthersOK
<1> QED BY <1>2 DEF OthersOK

\* The types are kept by every step.
LEMMA OthersStep ==
  ASSUME RowsOK, ChunksOK, OthersOK, [Next]_vars
  PROVE  OthersOK'
<1> USE DEF catalogue, caching, bulk, reading, vars
<1>1. CASE UNCHANGED <<caching, pc, success, failed, leaked, reading>>
           /\ left' \in [{"failures", "crashes"} -> Nat]
  BY <1>1 DEF OthersOK
<1>2. CASE UNCHANGED vars \/ Replicate
  BY <1>1, <1>2 DEF OthersOK, Replicate
<1>3. CASE CreateEventRow \/ CreateBulkSeats
  <2>1. left' \in [{"failures", "crashes"} -> Nat]
    BY <1>3, SpendType DEF CreateEventRow, CreateBulkSeats, OthersOK
  <2> QED BY <1>1, <1>3, <2>1 DEF CreateEventRow, CreateBulkSeats
<1>4. CASE Invalidate /\ UNCHANGED <<events, pc, success, failed, leaked, reading>>
  BY <1>4, InvalidateType DEF OthersOK
<1>5. CASE FinishCreation
  BY <1>4, <1>5 DEF FinishCreation
<1>6. CASE Expire
  BY <1>6 DEF Expire, OthersOK
<1>7. CASE ConsumeBookingEvent
  <2>1. events' \in Nat
    BY <1>7 DEF ConsumeBookingEvent, OthersOK
  <2> QED BY <1>7, <2>1, InvalidateType DEF ConsumeBookingEvent, OthersOK
<1>8. ASSUME NEW q \in Readers, GetEventByID(q) \/ FindByID(q) \/ CacheEvent(q)
      PROVE  OthersOK'
  <2>1. q \in Actors
    BY DEF Actors
  <2>2. CASE GetEventByID(q)
    <3>1. left' \in [{"failures", "crashes"} -> Nat]
      BY <2>2, SpendType DEF GetEventByID, OthersOK
    <3>2. pc' \in [Actors -> Steps] /\ pc'[q] = "find" /\ \A c \in Actors \ {q} : pc'[c] = pc[c]
      BY <2>1, <2>2, GotoOne DEF GetEventByID, OthersOK, Steps
    <3>3. \A p \in Readers : pc'[p] = "store" => row[p] \in Nat
      BY <3>2 DEF OthersOK, Actors
    <3> QED BY <2>2, <3>1, <3>2, <3>3 DEF GetEventByID, OthersOK
  <2>3. CASE FindByID(q)
    <3>1. Replica.available \in Nat \cup {NoRow}
      BY EndsOfDb DEF DbState
    <3>2. /\ pc' \in [Actors -> Steps] /\ \A c \in Actors \ {q} : pc'[c] = pc[c]
          /\ pc'[q] = "store" => Replica.available # NoRow
      BY <2>1, <2>3 DEF FindByID, OthersOK, Steps, Goto
    <3>3. row' = [row EXCEPT ![q] = Replica.available]
      BY <2>3 DEF FindByID
    <3>4. row' \in [Readers -> Nat \cup {NoRow}]
      BY <3>1, <3>3 DEF OthersOK
    <3>5. \A p \in Readers : pc'[p] = "store" => row'[p] \in Nat
      BY <3>1, <3>2, <3>3 DEF OthersOK, Actors
    <3> QED BY <2>3, <3>2, <3>4, <3>5 DEF FindByID, OthersOK
  <2>4. CASE CacheEvent(q)
    <3>1. left' \in [{"failures", "crashes"} -> Nat]
      BY <2>4, SpendType DEF CacheEvent, OthersOK
    <3>2. pc' \in [Actors -> Steps] /\ pc'[q] = "start" /\ \A c \in Actors \ {q} : pc'[c] = pc[c]
      BY <2>1, <2>4, GotoOne DEF CacheEvent, OthersOK, Steps
    <3>3. row' = [row EXCEPT ![q] = NoRow]
      BY <2>4 DEF CacheEvent
    <3>4. row' \in [Readers -> Nat \cup {NoRow}]
      BY <3>3 DEF OthersOK
    <3>5. \A p \in Readers : pc'[p] = "store" => row'[p] \in Nat
      BY <3>2, <3>3 DEF OthersOK, Actors
    <3>6. cache' \in Entry \cup {Empty} /\ missed' \in BOOLEAN
      <4>1. row[q] \in Nat
        BY <2>4 DEF CacheEvent, OthersOK
      <4>2. CacheEntry(row[q]) \in Entry
        BY <4>1 DEF CacheEntry, Entry
      <4> QED BY <2>4, <4>2 DEF CacheEvent, OthersOK
    <3> QED BY <2>4, <3>1, <3>2, <3>4, <3>5, <3>6 DEF CacheEvent, OthersOK
  <2> QED BY <1>8, <2>2, <2>3, <2>4
<1>9. ASSUME NEW l \in Listers, GetEventSeats(l) \/ CountSeats(l) \/ ListSeats(l)
      PROVE  OthersOK'
  <2>1. \E st \in Steps : Goto(l, st)
    BY <1>9 DEF GetEventSeats, CountSeats, ListSeats, Steps
  <2>2. UNCHANGED row
    BY <1>9 DEF GetEventSeats, CountSeats, ListSeats
  <2>3. /\ pc' \in [Actors -> Steps] /\ row' \in [Readers -> Nat \cup {NoRow}]
        /\ \A q \in Readers : pc'[q] = "store" => row'[q] \in Nat
    BY <2>1, <2>2, NotStoring
  <2>4. listing' \in [Listers -> 0 .. Total]
    <3>1. Cardinality(There(Replica)) \in 0 .. Total
      <4>1. There(Replica) \in {{}, Seats}
        BY EndsOfDb DEF StateOK
      <4> QED BY <4>1, FS_EmptySet, SeatsAreFinite DEF Total
    <3>2. CASE CountSeats(l)
      BY <3>1, <3>2 DEF CountSeats, There, OthersOK
    <3>3. CASE GetEventSeats(l) \/ ListSeats(l)
      BY <3>3 DEF GetEventSeats, ListSeats, OthersOK
    <3> QED BY <1>9, <3>2, <3>3
  <2> QED BY <1>9, <2>3, <2>4 DEF GetEventSeats, CountSeats, ListSeats, OthersOK
<1>10. ASSUME NEW o \in Others,
              \/ \E s \in Seats : ChangeSeat(o, s)
              \/ InvalidateChange(o) \/ PublishChange(o)
       PROVE  OthersOK'
  <2>1. \E st \in Steps : Goto(o, st)
    BY <1>10 DEF ChangeSeat, InvalidateChange, PublishChange, Steps
  <2>2. UNCHANGED row
    BY <1>10 DEF ChangeSeat, InvalidateChange, PublishChange
  <2>3. /\ pc' \in [Actors -> Steps] /\ row' \in [Readers -> Nat \cup {NoRow}]
        /\ \A q \in Readers : pc'[q] = "store" => row'[q] \in Nat
    BY <2>1, <2>2, NotStoring
  <2>4. CASE \E s \in Seats : ChangeSeat(o, s)
    <3>1. UNCHANGED <<creation, bulk, reading>> /\ (UNCHANGED <<caching, left>> \/ AnswerLost)
      BY <2>4 DEF ChangeSeat
    <3>2. CASE UNCHANGED <<caching, left>>
      BY <2>3, <3>1, <3>2 DEF OthersOK
    <3>3. CASE AnswerLost
      BY <2>3, <3>1, <3>3, AnswerLostType DEF OthersOK
    <3> QED BY <3>1, <3>2, <3>3
  <2>5. CASE InvalidateChange(o)
    BY <2>3, <2>5, InvalidateType DEF InvalidateChange, OthersOK
  <2>6. CASE PublishChange(o)
    BY <2>3, <2>6, PublishType DEF PublishChange, OthersOK
  <2> QED BY <1>10, <2>4, <2>5, <2>6
<1>11. ASSUME NEW b \in Bulks,
              \/ BulkReserve(b) \/ Collect(b) \/ InvalidateCancelled(b) \/ FailBulk(b)
              \/ \E s \in Seats : CancelNext(b, s)
       PROVE  OthersOK'
  <2>1. \/ UNCHANGED pc
        \/ \E st \in Steps : Goto(b, st)
    BY <1>11 DEF BulkReserve, Collect, InvalidateCancelled, FailBulk, CancelNext,
       AfterCancel, Steps
  <2>2. UNCHANGED row
    BY <1>11 DEF BulkReserve, Collect, InvalidateCancelled, FailBulk, CancelNext
  <2>3. /\ pc' \in [Actors -> Steps] /\ row' \in [Readers -> Nat \cup {NoRow}]
        /\ \A q \in Readers : pc'[q] = "store" => row'[q] \in Nat
    BY <2>1, <2>2, NotStoring DEF OthersOK
  <2>4. CASE BulkReserve(b) \/ Collect(b) \/ FailBulk(b)
    BY <2>3, <2>4 DEF BulkReserve, Collect, FailBulk, OthersOK
  <2>5. CASE InvalidateCancelled(b)
    BY <2>3, <2>5, InvalidateType DEF InvalidateCancelled, OthersOK
  <2>6. ASSUME NEW s \in Seats, CancelNext(b, s) PROVE OthersOK'
    <3>1. /\ UNCHANGED <<failed, reading>>
          /\ UNCHANGED left \/ Spend("failures")
          /\ UNCHANGED caching \/ AnswerLost
      BY <2>6 DEF CancelNext, AnswerLost
    <3>2. success' \in [Bulks -> SUBSET Seats] /\ leaked' \in [Bulks -> SUBSET Seats]
      BY <2>6 DEF CancelNext, OthersOK
    <3>3. left' \in [{"failures", "crashes"} -> Nat]
      BY <3>1, SpendType DEF OthersOK
    <3>4. cache' \in Entry \cup {Empty} /\ missed' \in BOOLEAN /\ events' \in Nat
      BY <3>1, AnswerLostType DEF OthersOK
    <3> QED BY <2>3, <3>1, <3>2, <3>3, <3>4 DEF OthersOK
  <2> QED BY <1>11, <2>4, <2>5, <2>6
<1>12. ASSUME NEW b \in Bulks, NEW k \in Chunks(b),
              ReserveNext(b, k) \/ InvalidateNext(b, k) \/ PublishNext(b, k)
       PROVE  OthersOK'
  <2>1. CASE ReserveNext(b, k)
    <3>1. /\ UNCHANGED <<pc, success, reading>>
          /\ UNCHANGED left \/ Spend("failures")
          /\ UNCHANGED caching \/ AnswerLost
          /\ UNCHANGED leaked \/ leaked' = [leaked EXCEPT ![b] = @ \cup {SeatAt(b, k)}]
      BY <2>1 DEF ReserveNext, AnswerLost, SeatAt
    <3>2. failed' \in [Bulks -> BOOLEAN]
      BY <2>1 DEF ReserveNext, OthersOK
    <3>3. leaked' \in [Bulks -> SUBSET Seats]
      BY <3>1, SeatAtIsSeat DEF OthersOK
    <3>4. left' \in [{"failures", "crashes"} -> Nat]
      BY <3>1, SpendType DEF OthersOK
    <3>5. cache' \in Entry \cup {Empty} /\ missed' \in BOOLEAN /\ events' \in Nat
      BY <3>1, AnswerLostType DEF OthersOK
    <3> QED BY <3>1, <3>2, <3>3, <3>4, <3>5 DEF OthersOK
  <2>2. CASE InvalidateNext(b, k)
    BY <1>4, <2>2 DEF InvalidateNext
  <2>3. CASE PublishNext(b, k)
    <3>1. success' \in [Bulks -> SUBSET Seats]
      <4>1. success' = [success EXCEPT ![b] = @ \cup {SeatAt(b, k)}]
        BY <2>3 DEF PublishNext, SeatAt
      <4> QED BY <4>1, SeatAtIsSeat DEF OthersOK
    <3> QED BY <2>3, <3>1, PublishType DEF PublishNext, OthersOK
  <2> QED BY <1>12, <2>1, <2>2, <2>3
<1>13. ASSUME NEW a \in Bulks \cup Others, Dies(a) PROVE OthersOK'
  <2>1. left' \in [{"failures", "crashes"} -> Nat]
    BY <1>13, SpendType DEF Dies, OthersOK
  <2>2. UNCHANGED row
    BY <1>13 DEF Dies
  <2>3. /\ pc' \in [Actors -> Steps] /\ row' \in [Readers -> Nat \cup {NoRow}]
        /\ \A q \in Readers : pc'[q] = "store" => row'[q] \in Nat
    BY <1>13, <2>2, NotStoring DEF Dies, Steps
  <2>4. missed' \in BOOLEAN
    BY <1>13 DEF Dies, OthersOK
  <2> QED BY <1>13, <2>1, <2>3, <2>4 DEF Dies, OthersOK
<1> QED BY <1>2, <1>3, <1>5, <1>6, <1>7, <1>8, <1>9, <1>10, <1>11, <1>12, <1>13 DEF Next

\* The first state has its types.
LEMMA InitOthers == Init => OthersOK
<1> SUFFICES ASSUME Init PROVE OthersOK
  OBVIOUS
<1>1. \A q \in Readers : q \in Actors /\ pc[q] # "store"
  BY DEF Init, Actors
<1>2. left \in [{"failures", "crashes"} -> Nat]
  <2>1. PICK sc \in Scenarios : left = [failures |-> sc.failures, crashes |-> sc.crashes]
    BY DEF Init
  <2>2. sc.failures \in Nat /\ sc.crashes \in Nat
    BY SaleAssumption
  <2> QED BY <2>1, <2>2
<1>3. 0 \in 0 .. Total
  BY SeatsAreFinite
<1>4. pc \in [Actors -> Steps]
  BY DEF Init, Steps
<1>5. cache = Empty /\ missed = FALSE /\ events = 0 /\ row \in [Readers -> Nat \cup {NoRow}]
  BY DEF Init
<1>6. /\ success \in [Bulks -> SUBSET Seats] /\ leaked \in [Bulks -> SUBSET Seats]
      /\ failed \in [Bulks -> BOOLEAN]
  BY DEF Init
<1>7. listing \in [Listers -> 0 .. Total]
  BY <1>3 DEF Init
<1> QED BY <1>1, <1>2, <1>4, <1>5, <1>6, <1>7 DEF OthersOK

\* The types hold in every state.
LEMMA OthersHold == Spec => []OthersOK
<1> QED BY RowsHold, ChunksHold, OthersStep, InitOthers, PTL DEF Spec

\* Every variable keeps its type.
THEOREM SaleTypeCorrect == Spec => []TypeOK
<1>1. RowsOK /\ ChunksOK /\ OthersOK => TypeOK
  BY DEF RowsOK, ChunksOK, OthersOK, TypeOK, DbState, Steps, Entry
<1> QED BY RowsHold, ChunksHold, OthersHold, <1>1, PTL

------------------------------------------------------------------------------
(* The cached row.                                                         *)

\* A row that is cached or about to be was found, so the event is there.
CacheOK ==
  /\ CacheTruthful
  /\ creation = "new" => cache = Empty /\ \A q \in Readers : pc[q] # "store"

\* The available seats change when the event is created, or by an actor that
\* owes the invalidation from then on, or by one that leaves it out.
LEMMA AvailabilityMoves ==
  ASSUME RowsOK, ChunksOK, OthersOK, Next
  PROVE  \/ Primary'.available = Primary.available
         \/ creation = "new" /\ UNCHANGED cache
         \/ AnswerLost
         \/ UNCHANGED cache /\ \E a \in Bulks \cup Others : OwesInvalidation(a)'
<1>1. CASE UNCHANGED db
  BY <1>1 DEF Primary
<1>2. CASE CreateEventRow
  BY <1>2 DEF CreateEventRow, caching
<1>3. CASE CreateBulkSeats
  <2>1. CASE UNCHANGED db
    BY <1>1, <2>1
  <2>2. CASE Commit(WholeEvent)
    <3>1. Primary = RowOnly
      BY <1>3 DEF CreateBulkSeats, RowsOK
    <3>2. WholeEvent \in DbState
      BY FreshStates
    <3>3. Primary' = WholeEvent
      BY <2>2, <3>2, CommitRows
    <3> QED BY <3>1, <3>3 DEF WholeEvent, RowOnly
  <2> QED BY <1>3, <2>1, <2>2 DEF CreateBulkSeats
<1>4. CASE Replicate
  <2>1. /\ db' = Tail(db) /\ Len(db) > 1 /\ db \in Seq(DbState)
    BY <1>4 DEF Replicate, RowsOK
  <2>2. Len(db') = Len(db) - 1 /\ \A n \in 1 .. Len(db') : db'[n] = db[n + 1]
    BY <2>1
  <2>3. Primary' = Primary
    BY <2>1, <2>2 DEF Primary
  <2> QED BY <2>3
<1>5. ASSUME NEW o \in Others, NEW s \in Seats, ChangeSeat(o, s)
      PROVE  AnswerLost \/ (UNCHANGED cache /\ OwesInvalidation(o)')
  <2>1. AnswerLost \/ (Goto(o, "invalidate") /\ UNCHANGED cache)
    BY <1>5 DEF ChangeSeat, caching
  <2>2. Goto(o, "invalidate") => pc'[o] = "invalidate"
    BY DEF Goto, OthersOK, Actors
  <2> QED BY <2>1, <2>2 DEF OwesInvalidation
<1>6. ASSUME NEW b \in Bulks, NEW k \in Chunks(b), ReserveNext(b, k)
      PROVE  UNCHANGED db \/ AnswerLost \/ (UNCHANGED cache /\ OwesInvalidation(b)')
  <2>1. \/ UNCHANGED db
        \/ AnswerLost
        \/ Proceed(b, k, chunk[b][k].next, "invalidate") /\ UNCHANGED cache
    BY <1>6 DEF ReserveNext, caching
  <2>2. CASE Proceed(b, k, chunk[b][k].next, "invalidate") /\ UNCHANGED cache
    <3>1. chunk'[b][k].step = "invalidate"
      <4>1. chunk[b][k].next \in 1 .. Len(ChunkSeats(b, k))
        BY DEF ChunksOK
      <4>2. PICK n \in 1 .. Len(ChunkSeats(b, k)) : n = chunk[b][k].next
        BY <4>1
      <4>3. Proceed(b, k, n, "invalidate")
        BY <2>2, <4>2
      <4>4. chunk'[b][k] = [next |-> n, step |-> "invalidate"]
        BY <4>3, ProceedOne
      <4> QED BY <4>4
    <3>2. Running(b)'
      BY <1>6 DEF ReserveNext, Running
    <3> QED BY <2>2, <3>1, <3>2 DEF OwesInvalidation
  <2> QED BY <2>1, <2>2
<1>7. ASSUME NEW b \in Bulks, NEW s \in Seats, CancelNext(b, s)
      PROVE  UNCHANGED db \/ AnswerLost \/ (UNCHANGED cache /\ OwesInvalidation(b)')
  <2>1. \/ UNCHANGED db
        \/ AnswerLost
        \/ Goto(b, AfterCancel) /\ UNCHANGED cache
    BY <1>7 DEF CancelNext, caching
  <2>2. Goto(b, AfterCancel) => pc'[b] = "invalidate"
    BY DEF Goto, AfterCancel, OthersOK, Actors
  <2> QED BY <2>1, <2>2 DEF OwesInvalidation
<1>8. CASE \/ Expire \/ FinishCreation \/ ConsumeBookingEvent
           \/ \E q \in Readers : GetEventByID(q) \/ FindByID(q) \/ CacheEvent(q)
           \/ \E l \in Listers : GetEventSeats(l) \/ CountSeats(l) \/ ListSeats(l)
           \/ \E o \in Others : InvalidateChange(o) \/ PublishChange(o)
           \/ \E b \in Bulks :
                \/ BulkReserve(b) \/ Collect(b) \/ InvalidateCancelled(b) \/ FailBulk(b)
                \/ \E k \in Chunks(b) : InvalidateNext(b, k) \/ PublishNext(b, k)
           \/ \E a \in Bulks \cup Others : Dies(a)
  <2>1. UNCHANGED db
    BY <1>8 DEF Expire, FinishCreation, ConsumeBookingEvent, GetEventByID, FindByID,
       CacheEvent, GetEventSeats, CountSeats, ListSeats, InvalidateChange,
       PublishChange, BulkReserve, Collect, InvalidateCancelled, FailBulk,
       InvalidateNext, PublishNext, Dies, catalogue
  <2> QED BY <1>1, <2>1
<1> QED BY <1>1, <1>2, <1>3, <1>4, <1>5, <1>6, <1>7, <1>8 DEF Next

\* What a step does to the entry: nothing; it is gone; it was to be gone, and
\* that is remembered; or a reader stores another, that says whether it is
\* out of date.
LEMMA CacheSteps ==
  ASSUME OthersOK, Next
  PROVE  \/ UNCHANGED <<cache, missed>>
         \/ cache' = Empty
         \/ UNCHANGED cache /\ missed'
         \/ /\ UNCHANGED db
            /\ \E q \in Readers : pc[q] = "store" /\ cache' = CacheEntry(row[q])
<1>1. CASE \E q \in Readers : CacheEvent(q)
  BY <1>1 DEF CacheEvent, catalogue
<1>2. CASE Invalidate
  BY <1>2 DEF Invalidate
<1>3. CASE \/ FinishCreation \/ ConsumeBookingEvent
           \/ \E o \in Others : InvalidateChange(o)
           \/ \E b \in Bulks : \E k \in Chunks(b) : InvalidateNext(b, k)
           \/ \E b \in Bulks : InvalidateCancelled(b)
  BY <1>2, <1>3 DEF FinishCreation, ConsumeBookingEvent, InvalidateChange,
     InvalidateNext, InvalidateCancelled
<1>4. CASE \E a \in Bulks \cup Others : Dies(a)
  <2>1. PICK a \in Bulks \cup Others : Dies(a)
    BY <1>4
  <2>2. /\ UNCHANGED cache
        /\ missed' = (missed \/ (OwesInvalidation(a) /\ cache # Empty))
    BY <2>1 DEF Dies
  <2>3. CASE OwesInvalidation(a) /\ cache # Empty
    BY <2>2, <2>3
  <2>4. CASE ~(OwesInvalidation(a) /\ cache # Empty)
    <3>1. missed' = missed
      BY <2>2, <2>4 DEF OthersOK
    <3> QED BY <2>2, <3>1
  <2> QED BY <2>3, <2>4
<1>5. CASE AnswerLost
  BY <1>5, AnswerLostMissed
<1>6. CASE \/ CreateEventRow \/ CreateBulkSeats \/ Replicate \/ Expire
           \/ \E q \in Readers : GetEventByID(q) \/ FindByID(q)
           \/ \E l \in Listers : GetEventSeats(l) \/ CountSeats(l) \/ ListSeats(l)
           \/ \E o \in Others : (\E s \in Seats : ChangeSeat(o, s)) \/ PublishChange(o)
           \/ \E b \in Bulks :
                \/ BulkReserve(b) \/ Collect(b) \/ FailBulk(b)
                \/ \E s \in Seats : CancelNext(b, s)
                \/ \E k \in Chunks(b) : ReserveNext(b, k) \/ PublishNext(b, k)
  <2>1. CASE CreateEventRow \/ CreateBulkSeats \/ Replicate \/ Expire
    BY <2>1 DEF CreateEventRow, CreateBulkSeats, Replicate, Expire, caching
  <2>2. CASE \E q \in Readers : GetEventByID(q) \/ FindByID(q)
    BY <2>2 DEF GetEventByID, FindByID, caching
  <2>3. CASE \E l \in Listers : GetEventSeats(l) \/ CountSeats(l) \/ ListSeats(l)
    BY <2>3 DEF GetEventSeats, CountSeats, ListSeats, caching
  <2>4. CASE \E o \in Others : (\E s \in Seats : ChangeSeat(o, s)) \/ PublishChange(o)
    BY <1>5, <2>4 DEF ChangeSeat, PublishChange, caching
  <2>5. CASE \E b \in Bulks : \/ BulkReserve(b) \/ Collect(b) \/ FailBulk(b)
                              \/ \E s \in Seats : CancelNext(b, s)
    BY <1>5, <2>5 DEF BulkReserve, Collect, FailBulk, CancelNext, caching
  <2>6. CASE \E b \in Bulks : \E k \in Chunks(b) : ReserveNext(b, k) \/ PublishNext(b, k)
    BY <1>5, <2>6 DEF ReserveNext, PublishNext, caching
  <2> QED BY <1>6, <2>1, <2>2, <2>3, <2>4, <2>5, <2>6
<1> QED BY <1>1, <1>3, <1>4, <1>6 DEF Next

\* Who owes an invalidation owes it until it is tried, or its process dies.
LEMMA OwedUntilTried ==
  ASSUME ChunksOK, OthersOK, Next, NEW a \in Bulks \cup Others, OwesInvalidation(a)
  PROVE  OwesInvalidation(a)' \/ cache' = Empty \/ missed'
<1> DEFINE Tried == cache' = Empty \/ missed'
<1>1. ASSUME Invalidate PROVE Tried
  BY <1>1 DEF Invalidate
<1>2. CASE \/ FinishCreation \/ ConsumeBookingEvent
           \/ \E o \in Others : InvalidateChange(o)
           \/ \E b \in Bulks : \E k \in Chunks(b) : InvalidateNext(b, k)
           \/ \E b \in Bulks : InvalidateCancelled(b)
  BY <1>1, <1>2 DEF FinishCreation, ConsumeBookingEvent, InvalidateChange,
     InvalidateNext, InvalidateCancelled
<1>3. CASE UNCHANGED <<pc, chunk>>
  BY <1>3 DEF OwesInvalidation, Running
<1>4. ASSUME UNCHANGED chunk, NEW c \in Actors, NEW st \in Steps \ {"start", "died"},
             Goto(c, st), pc[c] # "invalidate", pc[c] # "died"
      PROVE  OwesInvalidation(a)'
  <2>1. CASE a = c
    BY <1>4, <2>1, GotoOne DEF OwesInvalidation, Running, OthersOK
  <2>2. CASE a # c
    <3>1. a \in Actors /\ pc'[a] = pc[a]
      BY <1>4, <2>2, GotoOne DEF OthersOK, Actors
    <3> QED BY <1>4, <3>1 DEF OwesInvalidation, Running
  <2> QED BY <2>1, <2>2
<1>5. ASSUME NEW q \in Readers, GetEventByID(q) \/ FindByID(q) \/ CacheEvent(q)
      PROVE  OwesInvalidation(a)'
  <2>1. \E st \in Steps : Goto(q, st)
    BY <1>5 DEF GetEventByID, FindByID, CacheEvent, Steps
  <2>2. a # q /\ a \in Actors /\ q \in Actors
    BY SaleAssumption DEF Actors
  <2>3. pc'[a] = pc[a]
    BY <2>1, <2>2, GotoOne DEF OthersOK
  <2>4. UNCHANGED chunk
    BY <1>5 DEF GetEventByID, FindByID, CacheEvent, bulk
  <2> QED BY <2>3, <2>4 DEF OwesInvalidation, Running
<1>6. ASSUME NEW l \in Listers, GetEventSeats(l) \/ CountSeats(l) \/ ListSeats(l)
      PROVE  OwesInvalidation(a)'
  <2>1. \E st \in Steps : Goto(l, st)
    BY <1>6 DEF GetEventSeats, CountSeats, ListSeats, Steps
  <2>2. a # l /\ a \in Actors /\ l \in Actors
    BY SaleAssumption DEF Actors
  <2>3. pc'[a] = pc[a]
    BY <2>1, <2>2, GotoOne DEF OthersOK
  <2>4. UNCHANGED chunk
    BY <1>6 DEF GetEventSeats, CountSeats, ListSeats, bulk
  <2> QED BY <2>3, <2>4 DEF OwesInvalidation, Running
<1>7. ASSUME NEW o \in Others, PublishChange(o) \/ \E s \in Seats : ChangeSeat(o, s)
      PROVE  OwesInvalidation(a)'
  BY <1>4, <1>7 DEF PublishChange, ChangeSeat, bulk, Steps, Actors
<1>8. ASSUME NEW b \in Bulks, BulkReserve(b) \/ Collect(b) \/ FailBulk(b)
      PROVE  OwesInvalidation(a)'
  BY <1>4, <1>8 DEF BulkReserve, Collect, FailBulk, bulk, Steps, Actors
<1>9. ASSUME NEW b \in Bulks, NEW s \in Seats, CancelNext(b, s)
      PROVE  OwesInvalidation(a)'
  <2>1. UNCHANGED pc \/ Goto(b, "invalidate")
    BY <1>9 DEF CancelNext, AfterCancel
  <2>2. UNCHANGED chunk /\ pc[b] = "rollback"
    BY <1>9 DEF CancelNext
  <2>3. b \in Actors /\ "invalidate" \in Steps \ {"start", "died"}
    BY DEF Steps, Actors
  <2>4. CASE UNCHANGED pc
    BY <2>2, <2>4 DEF OwesInvalidation, Running
  <2>5. CASE Goto(b, "invalidate")
    BY <1>4, <2>2, <2>3, <2>5
  <2> QED BY <2>1, <2>4, <2>5
<1>10. ASSUME NEW b \in Bulks, NEW k \in Chunks(b), ReserveNext(b, k) \/ PublishNext(b, k)
       PROVE  OwesInvalidation(a)'
  <2>1. UNCHANGED pc /\ chunk[b][k].step # "invalidate"
    BY <1>10 DEF ReserveNext, PublishNext
  <2>2. /\ \A i \in Chunks(b) \ {k} : chunk'[b][i] = chunk[b][i]
        /\ \A c \in Bulks \ {b} : chunk'[c] = chunk[c]
    <3>1. chunk[b][k].next \in 1 .. Len(ChunkSeats(b, k)) /\ Len(ChunkSeats(b, k)) \in Nat
      BY ChunkIsPart DEF ChunksOK
    <3>2. \E n \in 1 .. Len(ChunkSeats(b, k)),
             st \in {"reserve", "invalidate", "publish", "ended"} : Proceed(b, k, n, st)
      <4>1. CASE ReserveNext(b, k)
        BY <3>1, <4>1 DEF ReserveNext
      <4>2. CASE PublishNext(b, k)
        <5>1. CASE chunk[b][k].next < Len(ChunkSeats(b, k))
          <6>1. chunk[b][k].next + 1 \in 1 .. Len(ChunkSeats(b, k))
            BY <3>1, <5>1
          <6> QED BY <4>2, <5>1, <6>1 DEF PublishNext
        <5>2. CASE ~(chunk[b][k].next < Len(ChunkSeats(b, k)))
          BY <3>1, <4>2, <5>2 DEF PublishNext
        <5> QED BY <5>1, <5>2
      <4> QED BY <1>10, <4>1, <4>2
    <3>3. PICK n \in 1 .. Len(ChunkSeats(b, k)),
              st \in {"reserve", "invalidate", "publish", "ended"} : Proceed(b, k, n, st)
      BY <3>2
    <3>4. /\ DOMAIN chunk = Bulks /\ DOMAIN chunk[b] = Chunks(b)
          /\ chunk' = [chunk EXCEPT ![b][k] = [next |-> n, step |-> st]]
      BY <3>3 DEF Proceed, ChunksOK
    <3>5. /\ chunk'[b] = [chunk[b] EXCEPT ![k] = [next |-> n, step |-> st]]
          /\ \A c \in Bulks \ {b} : chunk'[c] = chunk[c]
      BY ONLY b \in Bulks, <3>4
    <3> QED BY ONLY <3>4, <3>5
  <2>3. CASE pc[a] = "invalidate"
    BY <2>1, <2>3 DEF OwesInvalidation
  <2>4. CASE a \in Bulks /\ Running(a) /\ \E i \in Chunks(a) : chunk[a][i].step = "invalidate"
    <3>1. PICK i \in Chunks(a) : chunk[a][i].step = "invalidate"
      BY <2>4
    <3>2. chunk'[a][i] = chunk[a][i]
      BY <2>1, <2>2, <2>4, <3>1
    <3> QED BY <2>1, <2>4, <3>1, <3>2 DEF OwesInvalidation, Running
  <2> QED BY <2>3, <2>4 DEF OwesInvalidation
<1>11. ASSUME NEW c \in Bulks \cup Others, Dies(c)
       PROVE  OwesInvalidation(a)' \/ Tried
  <2>1. CASE c = a
    BY <1>11, <2>1 DEF Dies
  <2>2. CASE c # a
    <3>1. a \in Actors /\ c \in Actors /\ "died" \in Steps /\ Goto(c, "died") /\ UNCHANGED chunk
      BY <1>11 DEF Actors, Steps, Dies, bulk
    <3>2. pc'[a] = pc[a]
      BY <2>2, <3>1, GotoOne DEF OthersOK
    <3> QED BY <3>1, <3>2 DEF OwesInvalidation, Running
  <2> QED BY <2>1, <2>2
<1>12. CASE CreateEventRow \/ CreateBulkSeats \/ Replicate \/ Expire
  BY <1>3, <1>12 DEF CreateEventRow, CreateBulkSeats, Replicate, Expire, bulk
<1> QED BY <1>2, <1>5, <1>6, <1>7, <1>8, <1>9, <1>10, <1>11, <1>12 DEF Next

\* While the event is new, nobody finds it.
LEMMA NewEventUnseen ==
  ASSUME RowsOK, OthersOK, CacheOK, Next, creation' = "new"
  PROVE  cache' = Empty /\ \A q \in Readers : pc'[q] # "store"
<1>1. creation = "new"
  <2>1. CASE CreateEventRow \/ CreateBulkSeats \/ FinishCreation
    BY <2>1 DEF CreateEventRow, CreateBulkSeats, FinishCreation
  <2>2. CASE Replicate \/ Expire \/ ConsumeBookingEvent
    BY <2>2 DEF Replicate, Expire, ConsumeBookingEvent, catalogue
  <2>3. CASE \E q \in Readers : GetEventByID(q) \/ FindByID(q) \/ CacheEvent(q)
    BY <2>3 DEF GetEventByID, FindByID, CacheEvent, catalogue
  <2>4. CASE \E l \in Listers : GetEventSeats(l) \/ CountSeats(l) \/ ListSeats(l)
    BY <2>4 DEF GetEventSeats, CountSeats, ListSeats, catalogue
  <2>5. CASE \E o \in Others :
               (\E s \in Seats : ChangeSeat(o, s)) \/ InvalidateChange(o) \/ PublishChange(o)
    BY <2>5 DEF ChangeSeat, InvalidateChange, PublishChange, catalogue
  <2>6. CASE \E b \in Bulks : \/ BulkReserve(b) \/ Collect(b) \/ FailBulk(b)
                              \/ InvalidateCancelled(b)
                              \/ \E s \in Seats : CancelNext(b, s)
    BY <2>6 DEF BulkReserve, Collect, FailBulk, InvalidateCancelled, CancelNext, catalogue
  <2>7. CASE \E b \in Bulks : \E k \in Chunks(b) :
               ReserveNext(b, k) \/ InvalidateNext(b, k) \/ PublishNext(b, k)
    BY <2>7 DEF ReserveNext, InvalidateNext, PublishNext, catalogue
  <2>8. CASE \E c \in Bulks \cup Others : Dies(c)
    BY <2>8 DEF Dies, catalogue
  <2> QED BY <2>1, <2>2, <2>3, <2>4, <2>5, <2>6, <2>7, <2>8 DEF Next
<1>2. cache = Empty /\ \A q \in Readers : pc[q] # "store"
  BY <1>1 DEF CacheOK
<1>3. Replica.available = NoRow
  <2>1. Replica = NoEvent
    BY <1>1, EndsOfDb DEF RowsOK
  <2> QED BY <2>1 DEF NoEvent
<1>4. cache' = Empty
  BY <1>2, CacheSteps
<1> SUFFICES \A q \in Readers : pc'[q] # "store"
  BY <1>4
<1>5. CASE UNCHANGED pc
  BY <1>2, <1>5
<1>6. ASSUME NEW a \in Actors, NEW st \in Steps \ {"store"}, Goto(a, st)
      PROVE  \A q \in Readers : pc'[q] # "store"
  <2> SUFFICES ASSUME NEW q \in Readers PROVE pc'[q] # "store"
    OBVIOUS
  <2>1. q \in Actors
    BY DEF Actors
  <2> QED BY <1>2, <1>6, <2>1, GotoOne DEF OthersOK
<1>7. ASSUME NEW q \in Readers, GetEventByID(q) \/ FindByID(q) \/ CacheEvent(q)
      PROVE  \A p \in Readers : pc'[p] # "store"
  <2>1. \E st \in Steps \ {"store"} : Goto(q, st)
    BY <1>3, <1>7 DEF GetEventByID, FindByID, CacheEvent, Steps
  <2> QED BY <1>6, <2>1 DEF Actors
<1>8. ASSUME NEW l \in Listers, GetEventSeats(l) \/ CountSeats(l) \/ ListSeats(l)
      PROVE  \A q \in Readers : pc'[q] # "store"
  <2>1. \E st \in Steps \ {"store"} : Goto(l, st)
    BY <1>8 DEF GetEventSeats, CountSeats, ListSeats, Steps
  <2> QED BY <1>6, <2>1 DEF Actors
<1>9. ASSUME NEW o \in Others,
             (\E s \in Seats : ChangeSeat(o, s)) \/ InvalidateChange(o) \/ PublishChange(o)
      PROVE  \A q \in Readers : pc'[q] # "store"
  <2>1. \E st \in Steps \ {"store"} : Goto(o, st)
    BY <1>9 DEF ChangeSeat, InvalidateChange, PublishChange, Steps
  <2> QED BY <1>6, <2>1 DEF Actors
<1>10. ASSUME NEW b \in Bulks,
              \/ BulkReserve(b) \/ Collect(b) \/ InvalidateCancelled(b) \/ FailBulk(b)
              \/ \E s \in Seats : CancelNext(b, s)
       PROVE  \A q \in Readers : pc'[q] # "store"
  <2>1. UNCHANGED pc \/ \E st \in Steps \ {"store"} : Goto(b, st)
    BY <1>10 DEF BulkReserve, Collect, InvalidateCancelled, FailBulk, CancelNext,
       AfterCancel, Steps
  <2> QED BY <1>5, <1>6, <2>1 DEF Actors
<1>11. ASSUME NEW a \in Bulks \cup Others, Dies(a)
       PROVE  \A q \in Readers : pc'[q] # "store"
  <2>1. \E st \in Steps \ {"store"} : Goto(a, st)
    BY <1>11 DEF Dies, Steps
  <2> QED BY <1>6, <2>1 DEF Actors
<1>12. CASE \/ CreateEventRow \/ CreateBulkSeats \/ FinishCreation
            \/ Replicate \/ Expire \/ ConsumeBookingEvent
            \/ \E b \in Bulks : \E k \in Chunks(b) :
                 ReserveNext(b, k) \/ InvalidateNext(b, k) \/ PublishNext(b, k)
  <2>1. UNCHANGED pc
    BY <1>12 DEF CreateEventRow, CreateBulkSeats, FinishCreation, Replicate, Expire,
       ConsumeBookingEvent, ReserveNext, InvalidateNext, PublishNext
  <2> QED BY <1>5, <2>1
<1> QED BY <1>7, <1>8, <1>9, <1>10, <1>11, <1>12 DEF Next

\* An entry that was up to date when it was stored is out of date only between
\* a commit and the invalidation that follows it.
THEOREM CacheIsTruthful == Spec => []CacheTruthful
<1>1. Init => CacheOK
  BY DEF Init, CacheOK, CacheTruthful, Stale, Actors
<1>2. RowsOK /\ ChunksOK /\ OthersOK /\ CacheOK /\ [Next]_vars => CacheOK'
  <2> SUFFICES ASSUME RowsOK, ChunksOK, OthersOK, CacheOK, [Next]_vars PROVE CacheOK'
    OBVIOUS
  <2>1. CASE UNCHANGED vars
    BY <2>1 DEF vars, catalogue, caching, bulk, reading, CacheOK, CacheTruthful, Stale,
       OwesInvalidation, Running, Primary
  <2>2. CASE Next
    <3>1. ASSUME Stale', ~cache'.raced, ~missed'
          PROVE  \E a \in Bulks \cup Others : OwesInvalidation(a)'
      <4> USE <2>2
      <4>1. cache' # Empty /\ cache'.row # Primary'.available
        BY <3>1 DEF Stale
      <4>2. UNCHANGED <<cache, missed>>
        <5>1. ASSUME UNCHANGED db, NEW q \in Readers, cache' = CacheEntry(row[q])
              PROVE  FALSE
          <6>1. cache'.row = row[q] /\ cache'.raced = (row[q] # Primary.available)
            BY <5>1 DEF CacheEntry
          <6>2. Primary' = Primary
            BY <5>1 DEF Primary
          <6> QED BY <3>1, <4>1, <6>1, <6>2
        <5> QED BY <3>1, <4>1, <5>1, CacheSteps
      <4>3. CASE Primary'.available = Primary.available
        <5>1. Stale /\ ~cache.raced /\ ~missed
          BY <3>1, <4>1, <4>2, <4>3 DEF Stale
        <5>2. PICK a \in Bulks \cup Others : OwesInvalidation(a)
          BY <5>1 DEF CacheOK, CacheTruthful
        <5>3. OwesInvalidation(a)'
          BY <3>1, <4>1, <5>2, OwedUntilTried
        <5> QED BY <5>3
      <4>4. CASE creation = "new"
        BY <4>1, <4>2, <4>4 DEF CacheOK
      <4>5. ~AnswerLost
        BY <3>1, <4>1, AnswerLostMissed
      <4> QED BY <4>3, <4>4, <4>5, AvailabilityMoves
    <3>2. CacheTruthful'
      BY <3>1 DEF CacheTruthful
    <3> QED BY <2>2, <3>2, NewEventUnseen DEF CacheOK
  <2> QED BY <2>1, <2>2
<1>3. CacheOK => CacheTruthful
  BY DEF CacheOK
<1> QED BY RowsHold, ChunksHold, OthersHold, <1>1, <1>2, <1>3, PTL DEF Spec

------------------------------------------------------------------------------
(* Bulk reservations.                                                      *)

\* The seats that b asks for.
Asked(b) == {Wanted[b][n] : n \in 1 .. Len(Wanted[b])}

\* The seats that goroutines of b have reserved and not yet reported.
Held(b) ==
  {s \in Seats : \E k \in Chunks(b) :
     chunk[b][k].step \in {"invalidate", "publish"} /\ SeatAt(b, k) = s}

AllEnded(b) == \A k \in Chunks(b) : chunk[b][k].step = "ended"

\* What a goroutine has left behind it is reported as a success: the seats
\* before its next one, and all of its chunk when it has ended and none failed.
Reported(b) ==
  \A k \in Chunks(b) : \A m \in 1 .. Len(ChunkSeats(b, k)) :
    (m < chunk[b][k].next \/ (chunk[b][k].step = "ended" /\ ~failed[b]))
      => ChunkSeats(b, k)[m] \in success[b]

\* A bulk reservation knows of every seat that it holds, and gives back only
\* after its last goroutine has ended.
BulkOK(b) ==
  /\ pc[b] \in {"start", "run", "rollback", "invalidate", "ok", "error", "died"}
  /\ success[b] \subseteq Asked(b)
  /\ \A s \in Seats : Primary.seat[s] = b => s \in success[b] \cup leaked[b] \cup Held(b)
  /\ pc[b] \in {"rollback", "invalidate", "ok", "error"} => AllEnded(b)
  /\ pc[b] \in {"start", "error"} => success[b] = {}
  /\ pc[b] = "start" => \A k \in Chunks(b) : chunk[b][k].step = "reserve"
  /\ pc[b] = "ok" => ~failed[b]
  /\ pc[b] \in {"start", "run", "ok"} => Reported(b)

\* Nothing is asked for in no chunks.
LEMMA NothingAsked ==
  ASSUME NEW b \in Bulks, Wanted[b] = <<>>
  PROVE  Chunks(b) = {}
<1>1. ChunkSize \in Nat \ {0} /\ Len(Wanted[b]) = 0
  BY SaleAssumption
<1> DEFINE q == (ChunkSize - 1) \div ChunkSize
<1>2. q \in Nat /\ q * ChunkSize <= ChunkSize - 1
  BY <1>1, Division
<1>3. q = 0
  <2> HIDE DEF q
  <2> SUFFICES ASSUME q # 0 PROVE FALSE
    OBVIOUS
  <2>1. q >= 1
    BY <1>2
  <2>2. q * ChunkSize >= 1 * ChunkSize
    BY <1>1, <1>2, <2>1
  <2>3. q * ChunkSize \in Int
    BY <1>1, <1>2
  <2> QED BY <1>1, <1>2, <2>2, <2>3
<1>4. Len(Wanted[b]) + ChunkSize - 1 = ChunkSize - 1
  BY <1>1
<1>5. Chunks(b) = 1 .. q
  BY <1>4 DEF Chunks
<1> HIDE DEF q
<1> QED BY <1>3, <1>5

\* What is left when every goroutine has ended without a failure.
LEMMA AllReported ==
  ASSUME NEW b \in Bulks, AllEnded(b), ~failed[b], Reported(b)
  PROVE  Asked(b) \subseteq success[b]
<1> SUFFICES ASSUME NEW n \in 1 .. Len(Wanted[b]) PROVE Wanted[b][n] \in success[b]
  BY DEF Asked
<1>1. PICK k \in Chunks(b) :
        \E m \in 1 .. Len(ChunkSeats(b, k)) : ChunkSeats(b, k)[m] = Wanted[b][n]
  BY ChunksCover
<1>2. PICK m \in 1 .. Len(ChunkSeats(b, k)) : ChunkSeats(b, k)[m] = Wanted[b][n]
  BY <1>1
<1> QED BY <1>1, <1>2 DEF AllEnded, Reported

\* A bulk reservation comes to hold a seat only through one of its goroutines,
\* which knows of it unless the answer is lost.
LEMMA HeldThroughChunks ==
  ASSUME RowsOK, ChunksOK, OthersOK, Next, NEW b \in Bulks, NEW s \in Seats,
         Primary'.seat[s] = b
  PROVE  Primary.seat[s] = b \/ s \in Held(b)' \/ s \in leaked'[b]
<1>1. CASE UNCHANGED db
  BY <1>1 DEF Primary
<1>2. b # "none" /\ b # "free" /\ b # "sold" /\ b # "reserved"
  BY SaleAssumption
<1>3. ASSUME NEW d \in DbState, Commit(d) PROVE Primary' = d
  BY <1>3, CommitRows
<1>4. CASE CreateEventRow
  <2>1. Primary = NoEvent
    BY <1>4, EndsOfDb DEF CreateEventRow, RowsOK, Primary
  <2>2. [Primary EXCEPT !.available = Total] = RowOnly
    BY <2>1 DEF NoEvent, RowOnly
  <2>3. Primary' = RowOnly
    BY <1>3, <1>4, <2>2, FreshStates DEF CreateEventRow
  <2> QED BY <1>2, <2>3 DEF RowOnly
<1>5. CASE CreateBulkSeats
  <2>1. CASE Commit(WholeEvent)
    <3>1. Primary' = WholeEvent
      BY <1>3, <2>1, FreshStates
    <3> QED BY <1>2, <3>1 DEF WholeEvent
  <2> QED BY <1>1, <1>5, <2>1 DEF CreateBulkSeats
<1>6. CASE Replicate
  <2>1. db' = Tail(db) /\ Len(db) > 1 /\ db \in Seq(DbState)
    BY <1>6 DEF Replicate, RowsOK
  <2>2. Len(db') = Len(db) - 1 /\ \A n \in 1 .. Len(db') : db'[n] = db[n + 1]
    BY <2>1
  <2>3. Primary' = Primary
    BY <2>1, <2>2 DEF Primary
  <2> QED BY <2>3
<1>7. ASSUME NEW t \in Seats, NEW st \in SeatState \ {"none"},
             Primary.seat[t] # "none", Commit(WithSeat(t, st))
      PROVE  (t = s /\ st = b) \/ Primary.seat[s] = b
  <2>1. /\ WithSeat(t, st) \in DbState
        /\ WithSeat(t, st).seat = [Primary.seat EXCEPT ![t] = st]
    BY <1>7, EndsOfDb, WithSeatOK
  <2>2. Primary'.seat = [Primary.seat EXCEPT ![t] = st]
    BY <1>3, <1>7, <2>1
  <2>3. Primary.seat \in [Seats -> SeatState]
    BY EndsOfDb DEF DbState
  <2> QED BY <2>2, <2>3
<1>8. ASSUME NEW o \in Others, NEW t \in Seats, ChangeSeat(o, t)
      PROVE  Primary.seat[s] = b
  <2>1. \E st \in {"reserved", "sold", "free"} :
          Primary.seat[t] # "none" /\ Commit(WithSeat(t, st))
    BY <1>8, SaleAssumption DEF ChangeSeat, Reservable
  <2>2. {"reserved", "sold", "free"} \subseteq SeatState \ {"none"}
    BY DEF SeatState
  <2> QED BY <1>2, <1>7, <2>1, <2>2
<1>9. ASSUME NEW c \in Bulks, NEW t \in Seats, CancelNext(c, t)
      PROVE  Primary.seat[s] = b
  <2>1. CASE UNCHANGED db
    BY <1>1, <2>1 DEF Primary
  <2>2. CASE Primary.seat[t] = c /\ Commit(WithSeat(t, "free"))
    <3>1. Primary.seat[t] # "none" /\ "free" \in SeatState \ {"none"}
      BY <2>2, SaleAssumption DEF SeatState
    <3> QED BY <1>2, <1>7, <2>2, <3>1
  <2> QED BY <1>9, <2>1, <2>2 DEF CancelNext
<1>10. ASSUME NEW c \in Bulks, NEW k \in Chunks(c), ReserveNext(c, k)
       PROVE  Primary.seat[s] = b \/ s \in Held(b)' \/ s \in leaked'[b]
  <2>1. CASE UNCHANGED db
    BY <2>1 DEF Primary
  <2>2. CASE /\ Reservable(SeatAt(c, k)) /\ Commit(WithSeat(SeatAt(c, k), c))
             /\ \/ Proceed(c, k, chunk[c][k].next, "invalidate")
                \/ leaked' = [leaked EXCEPT ![c] = @ \cup {SeatAt(c, k)}]
    <3>1. /\ SeatAt(c, k) \in Seats /\ c \in SeatState \ {"none"}
          /\ Primary.seat[SeatAt(c, k)] # "none"
      BY <2>2, SaleAssumption, SeatAtIsSeat DEF SeatState, Reservable
    <3>2. (SeatAt(c, k) = s /\ c = b) \/ Primary.seat[s] = b
      BY <1>7, <2>2, <3>1
    <3>3. ASSUME SeatAt(c, k) = s, c = b, Proceed(c, k, chunk[c][k].next, "invalidate")
          PROVE  s \in Held(b)'
      <4>1. PICK n \in 1 .. Len(ChunkSeats(c, k)) : n = chunk[c][k].next
        BY DEF ChunksOK
      <4>2. Proceed(c, k, n, "invalidate")
        BY <3>3, <4>1
      <4>3. chunk'[c][k] = [next |-> n, step |-> "invalidate"]
        BY <4>2, ProceedOne
      <4>4. SeatAt(c, k)' = s
        BY <3>3, <4>1, <4>3 DEF SeatAt
      <4> QED BY <3>3, <4>3, <4>4 DEF Held
    <3>4. ASSUME SeatAt(c, k) = s, c = b, leaked' = [leaked EXCEPT ![c] = @ \cup {SeatAt(c, k)}]
          PROVE  s \in leaked'[b]
      BY <3>4 DEF OthersOK
    <3> QED BY <2>2, <3>2, <3>3, <3>4
  <2> QED BY <1>10, <2>1, <2>2 DEF ReserveNext, SeatAt
<1>11. CASE \/ Expire \/ FinishCreation \/ ConsumeBookingEvent
            \/ \E q \in Readers : GetEventByID(q) \/ FindByID(q) \/ CacheEvent(q)
            \/ \E l \in Listers : GetEventSeats(l) \/ CountSeats(l) \/ ListSeats(l)
            \/ \E o \in Others : InvalidateChange(o) \/ PublishChange(o)
            \/ \E c \in Bulks :
                 \/ BulkReserve(c) \/ Collect(c) \/ InvalidateCancelled(c) \/ FailBulk(c)
                 \/ \E k \in Chunks(c) : InvalidateNext(c, k) \/ PublishNext(c, k)
            \/ \E a \in Bulks \cup Others : Dies(a)
  <2>1. UNCHANGED db
    BY <1>11 DEF Expire, FinishCreation, ConsumeBookingEvent, GetEventByID, FindByID,
       CacheEvent, GetEventSeats, CountSeats, ListSeats, InvalidateChange,
       PublishChange, BulkReserve, Collect, InvalidateCancelled, FailBulk,
       InvalidateNext, PublishNext, Dies, catalogue
  <2> QED BY <1>1, <2>1
<1> QED BY <1>4, <1>5, <1>6, <1>8, <1>9, <1>10, <1>11 DEF Next

\* What a step may change of a bulk reservation.
Kept(b) ==
  /\ pc'[b] = pc[b] /\ chunk'[b] = chunk[b] /\ success'[b] = success[b]
  /\ failed'[b] = failed[b] /\ leaked'[b] = leaked[b]

GoroutineStep(b) ==
  \E k \in Chunks(b) : ReserveNext(b, k) \/ InvalidateNext(b, k) \/ PublishNext(b, k)

CallerStep(b) ==
  \/ BulkReserve(b) \/ Collect(b) \/ InvalidateCancelled(b) \/ FailBulk(b) \/ Dies(b)
  \/ \E s \in Seats : CancelNext(b, s)

\* No step but its own touches a bulk reservation.
LEMMA OwnSteps ==
  ASSUME ChunksOK, OthersOK, Next, NEW b \in Bulks
  PROVE  Kept(b) \/ GoroutineStep(b) \/ CallerStep(b)
<1> SUFFICES ASSUME ~GoroutineStep(b), ~CallerStep(b) PROVE Kept(b)
  OBVIOUS
<1>1. b \in Actors
  BY DEF Actors
<1>2. ASSUME NEW a \in Actors \ {b}, NEW st \in Steps, Goto(a, st) PROVE pc'[b] = pc[b]
  BY <1>1, <1>2, GotoOne DEF OthersOK
<1>3. ASSUME NEW a \in Actors \ {b}, \E st \in Steps : Goto(a, st), UNCHANGED bulk
      PROVE  Kept(b)
  BY <1>2, <1>3 DEF Kept, bulk
<1>4. CASE UNCHANGED <<pc, bulk>>
  BY <1>4 DEF Kept, bulk
<1>5. CASE CreateEventRow \/ CreateBulkSeats \/ FinishCreation \/ Replicate \/ Expire
           \/ ConsumeBookingEvent
  BY <1>4, <1>5 DEF CreateEventRow, CreateBulkSeats, FinishCreation, Replicate, Expire,
     ConsumeBookingEvent
<1>6. ASSUME NEW q \in Readers, GetEventByID(q) \/ FindByID(q) \/ CacheEvent(q)
      PROVE  Kept(b)
  <2>1. (\E st \in Steps : Goto(q, st)) /\ UNCHANGED bulk
    BY <1>6 DEF GetEventByID, FindByID, CacheEvent, Steps
  <2> QED BY <1>3, <2>1, SaleAssumption DEF Actors
<1>7. ASSUME NEW l \in Listers, GetEventSeats(l) \/ CountSeats(l) \/ ListSeats(l)
      PROVE  Kept(b)
  <2>1. (\E st \in Steps : Goto(l, st)) /\ UNCHANGED bulk
    BY <1>7 DEF GetEventSeats, CountSeats, ListSeats, Steps
  <2> QED BY <1>3, <2>1, SaleAssumption DEF Actors
<1>8. ASSUME NEW o \in Others,
             (\E s \in Seats : ChangeSeat(o, s)) \/ InvalidateChange(o) \/ PublishChange(o)
      PROVE  Kept(b)
  <2>1. (\E st \in Steps : Goto(o, st)) /\ UNCHANGED bulk
    BY <1>8 DEF ChangeSeat, InvalidateChange, PublishChange, Steps
  <2> QED BY <1>3, <2>1, SaleAssumption DEF Actors
<1>9. ASSUME NEW a \in (Bulks \cup Others) \ {b}, Dies(a) PROVE Kept(b)
  <2>1. (\E st \in Steps : Goto(a, st)) /\ UNCHANGED bulk
    BY <1>9 DEF Dies, Steps
  <2> QED BY <1>3, <2>1 DEF Actors
<1>10. ASSUME NEW c \in Bulks \ {b},
              BulkReserve(c) \/ Collect(c) \/ InvalidateCancelled(c) \/ FailBulk(c)
       PROVE  Kept(b)
  <2>1. (\E st \in Steps : Goto(c, st)) /\ UNCHANGED bulk
    BY <1>10 DEF BulkReserve, Collect, InvalidateCancelled, FailBulk, Steps
  <2> QED BY <1>3, <2>1 DEF Actors
<1>11. ASSUME NEW c \in Bulks \ {b}, NEW s \in Seats, CancelNext(c, s) PROVE Kept(b)
  <2>1. UNCHANGED pc \/ \E st \in Steps : Goto(c, st)
    BY <1>11 DEF CancelNext, AfterCancel, Steps
  <2>2. pc'[b] = pc[b]
    BY <1>2, <2>1 DEF Actors
  <2>3. success'[b] = success[b] /\ leaked'[b] = leaked[b] /\ UNCHANGED <<chunk, failed>>
    BY <1>11 DEF CancelNext, OthersOK
  <2> QED BY <2>2, <2>3 DEF Kept
<1>12. ASSUME NEW c \in Bulks \ {b}, NEW k \in Chunks(c),
              ReserveNext(c, k) \/ InvalidateNext(c, k) \/ PublishNext(c, k)
       PROVE  Kept(b)
  <2>1. chunk'[b] = chunk[b] /\ UNCHANGED pc
    BY <1>12 DEF ReserveNext, InvalidateNext, PublishNext, Proceed, ChunksOK
  <2>2. success'[b] = success[b] /\ failed'[b] = failed[b] /\ leaked'[b] = leaked[b]
    BY <1>12 DEF ReserveNext, InvalidateNext, PublishNext, OthersOK
  <2> QED BY <2>1, <2>2 DEF Kept
<1> QED BY <1>5, <1>6, <1>7, <1>8, <1>9, <1>10, <1>11, <1>12 DEF Next, GoroutineStep, CallerStep

\* The goroutines of a bulk reservation lose none of the seats they reserve.
LEMMA GoroutinesKeep ==
  ASSUME RowsOK, ChunksOK, OthersOK, Next, NEW b \in Bulks, BulkOK(b), GoroutineStep(b)
  PROVE  BulkOK(b)'
<1>1. PICK k \in Chunks(b) : ReserveNext(b, k) \/ InvalidateNext(b, k) \/ PublishNext(b, k)
  BY DEF GoroutineStep
<1>2. PICK n \in 1 .. Len(ChunkSeats(b, k)) : n = chunk[b][k].next
  BY <1>1 DEF ChunksOK
<1>3. Len(ChunkSeats(b, k)) \in Nat /\ \A i \in Chunks(b) : Len(ChunkSeats(b, i)) \in Nat
  BY ChunkIsPart
<1>4. /\ SeatAt(b, k) = ChunkSeats(b, k)[n] /\ SeatAt(b, k) \in Seats /\ SeatAt(b, k) \in Asked(b)
  <2>1. /\ (k - 1) * ChunkSize + n \in 1 .. Len(Wanted[b])
        /\ ChunkSeats(b, k)[n] = Wanted[b][(k - 1) * ChunkSize + n]
    BY ChunkIsPart
  <2>2. ChunkSeats(b, k)[n] \in Asked(b)
    BY <2>1 DEF Asked
  <2> QED BY <1>2, <2>2, SeatAtIsSeat DEF SeatAt
<1>5. /\ pc' = pc /\ leaked[b] \subseteq leaked'[b]
      /\ chunk[b][k].step # "ended" /\ pc[b] = "run"
  <2>1. pc' = pc /\ chunk[b][k].step # "ended" /\ Running(b)
    BY <1>1 DEF ReserveNext, InvalidateNext, PublishNext
  <2>2. leaked[b] \subseteq leaked'[b]
    BY <1>1 DEF ReserveNext, InvalidateNext, PublishNext, OthersOK
  <2> QED BY <2>1, <2>2 DEF BulkOK, AllEnded, Running
<1>6. ASSUME NEW m \in 1 .. Len(ChunkSeats(b, k)),
             NEW st \in {"reserve", "invalidate", "publish", "ended"},
             Proceed(b, k, m, st)
      PROVE  /\ chunk'[b][k] = [next |-> m, step |-> st]
             /\ \A i \in Chunks(b) \ {k} :
                  chunk'[b][i] = chunk[b][i] /\ SeatAt(b, i)' = SeatAt(b, i)
             /\ SeatAt(b, k)' = ChunkSeats(b, k)[m]
             /\ Held(b) \ {SeatAt(b, k)} \subseteq Held(b)'
  <2>1. /\ chunk'[b][k] = [next |-> m, step |-> st]
        /\ \A i \in Chunks(b) \ {k} : chunk'[b][i] = chunk[b][i]
    BY <1>6, ProceedOne
  <2>2. \A i \in Chunks(b) \ {k} : SeatAt(b, i)' = SeatAt(b, i)
    BY <2>1 DEF SeatAt
  <2> QED BY <2>1, <2>2 DEF SeatAt, Held
<1>7. ASSUME NEW st \in {"reserve", "invalidate", "publish", "ended"}, Proceed(b, k, n, st)
       PROVE  /\ \A i \in Chunks(b) : chunk'[b][i].next = chunk[b][i].next
              /\ \A i \in Chunks(b) \ {k} : chunk'[b][i].step = chunk[b][i].step
              /\ chunk'[b][k].step = st /\ SeatAt(b, k)' = SeatAt(b, k)
  <2>1. /\ chunk'[b][k] = [next |-> n, step |-> st]
        /\ \A i \in Chunks(b) \ {k} : chunk'[b][i] = chunk[b][i]
        /\ SeatAt(b, k)' = ChunkSeats(b, k)[n]
    BY <1>6, <1>7
  <2>2. \A i \in Chunks(b) : chunk'[b][i].next = chunk[b][i].next
    <3> SUFFICES ASSUME NEW i \in Chunks(b) PROVE chunk'[b][i].next = chunk[b][i].next
      OBVIOUS
    <3>1. CASE i = k
      BY <1>2, <2>1, <3>1
    <3>2. CASE i # k
      BY <2>1, <3>2
    <3> QED BY <3>1, <3>2
  <2> QED BY <1>4, <2>1, <2>2
<1>8. CASE ReserveNext(b, k)
  <2>1. chunk[b][k].step = "reserve" /\ success' = success
    BY <1>8 DEF ReserveNext
  <2>2. PICK st \in {"invalidate", "ended"} :
          Proceed(b, k, n, st) /\ (IF st = "ended" THEN failed'[b] ELSE failed' = failed)
    <3>1. failed \in [Bulks -> BOOLEAN]
      BY DEF OthersOK
    <3>2. \/ Proceed(b, k, n, "invalidate") /\ failed' = failed
          \/ Proceed(b, k, n, "ended") /\ failed' = [failed EXCEPT ![b] = TRUE]
      BY <1>2, <1>8 DEF ReserveNext
    <3> QED BY <3>1, <3>2
  <2>3. Held(b) \subseteq Held(b)'
    <3>1. \A s \in Held(b) : \E i \in Chunks(b) \ {k} :
            chunk[b][i].step \in {"invalidate", "publish"} /\ SeatAt(b, i) = s
      BY <2>1 DEF Held
    <3>2. \A i \in Chunks(b) \ {k} : chunk'[b][i] = chunk[b][i] /\ SeatAt(b, i)' = SeatAt(b, i)
      BY <1>6, <2>2
    <3> QED BY <3>1, <3>2 DEF Held
  <2>4. Reported(b)'
    <3>1. ASSUME NEW i \in Chunks(b), NEW m \in 1 .. Len(ChunkSeats(b, i)),
                 m < chunk'[b][i].next \/ (chunk'[b][i].step = "ended" /\ ~failed'[b])
          PROVE  ChunkSeats(b, i)[m] \in success[b]
      <4>1. chunk'[b][i].next = chunk[b][i].next
        BY <1>7, <2>2
      <4>2. (chunk'[b][i].step = "ended" /\ ~failed'[b])
              => (chunk[b][i].step = "ended" /\ ~failed[b])
        BY <1>7, <2>1, <2>2
      <4>3. Reported(b)
        BY <1>5 DEF BulkOK
      <4> QED BY <3>1, <4>1, <4>2, <4>3 DEF Reported
    <3> QED BY <2>1, <3>1 DEF Reported
  <2>5. \A s \in Seats : Primary'.seat[s] = b => s \in success[b] \cup leaked'[b] \cup Held(b)'
    BY <1>5, <2>3, HeldThroughChunks DEF BulkOK
  <2> QED BY <1>5, <2>1, <2>4, <2>5 DEF BulkOK
<1>9. CASE InvalidateNext(b, k)
  <2>1. /\ chunk[b][k].step = "invalidate" /\ success' = success /\ failed' = failed
        /\ Proceed(b, k, n, "publish")
    BY <1>2, <1>9 DEF InvalidateNext
  <2>2. Held(b) \subseteq Held(b)'
    <3>1. SeatAt(b, k) \in Held(b)'
      BY <1>4, <1>7, <2>1 DEF Held
    <3> QED BY <1>6, <2>1, <3>1
  <2>3. Reported(b)'
    <3>1. ASSUME NEW i \in Chunks(b), NEW m \in 1 .. Len(ChunkSeats(b, i)),
                 m < chunk'[b][i].next \/ (chunk'[b][i].step = "ended" /\ ~failed[b])
          PROVE  ChunkSeats(b, i)[m] \in success[b]
      <4>1. chunk'[b][i].next = chunk[b][i].next
        BY <1>7, <2>1
      <4>2. chunk'[b][i].step = "ended" => chunk[b][i].step = "ended"
        BY <1>7, <2>1
      <4>3. Reported(b)
        BY <1>5 DEF BulkOK
      <4> QED BY <3>1, <4>1, <4>2, <4>3 DEF Reported
    <3> QED BY <2>1, <3>1 DEF Reported
  <2>4. \A s \in Seats : Primary'.seat[s] = b => s \in success[b] \cup leaked'[b] \cup Held(b)'
    BY <1>5, <2>2, HeldThroughChunks DEF BulkOK
  <2> QED BY <1>5, <2>1, <2>3, <2>4 DEF BulkOK
<1>10. CASE PublishNext(b, k)
  <2>1. /\ chunk[b][k].step = "publish" /\ failed' = failed
        /\ success'[b] = success[b] \cup {SeatAt(b, k)}
    BY <1>10 DEF PublishNext, SeatAt, OthersOK
  <2>2. \/ n < Len(ChunkSeats(b, k)) /\ Proceed(b, k, n + 1, "reserve")
        \/ n = Len(ChunkSeats(b, k)) /\ Proceed(b, k, n, "ended")
    BY <1>2, <1>3, <1>10 DEF PublishNext
  <2>3. PICK m \in 1 .. Len(ChunkSeats(b, k)), st \in {"reserve", "ended"} :
          /\ Proceed(b, k, m, st)
          /\ m <= n + 1 /\ (st = "ended" => n = Len(ChunkSeats(b, k)))
    <3>1. CASE n < Len(ChunkSeats(b, k)) /\ Proceed(b, k, n + 1, "reserve")
      <4>1. n + 1 \in 1 .. Len(ChunkSeats(b, k))
        BY <1>3, <3>1
      <4> QED BY <3>1, <4>1
    <3>2. CASE n = Len(ChunkSeats(b, k)) /\ Proceed(b, k, n, "ended")
      BY <1>3, <3>2
    <3> QED BY <2>2, <3>1, <3>2
  <2>4. Held(b) \subseteq Held(b)' \cup {SeatAt(b, k)}
    BY <1>6, <2>3
  <2>5. Reported(b)'
    <3>1. ASSUME NEW i \in Chunks(b), NEW j \in 1 .. Len(ChunkSeats(b, i)),
                 j < chunk'[b][i].next \/ (chunk'[b][i].step = "ended" /\ ~failed[b])
          PROVE  ChunkSeats(b, i)[j] \in success'[b]
      <4>1. Reported(b)
        BY <1>5 DEF BulkOK
      <4>2. CASE i # k
        <5>1. chunk'[b][i] = chunk[b][i]
          BY <1>6, <2>3, <4>2
        <5> QED BY <2>1, <3>1, <4>1, <5>1 DEF Reported
      <4>3. CASE i = k
        <5>1. chunk'[b][k] = [next |-> m, step |-> st]
          BY <1>6, <2>3
        <5>2. j < n \/ j = n
          BY <1>3, <2>3, <3>1, <4>3, <5>1
        <5>3. CASE j < n
          BY <1>2, <2>1, <4>1, <4>3, <5>3 DEF Reported
        <5>4. CASE j = n
          BY <1>4, <2>1, <4>3, <5>4
        <5> QED BY <5>2, <5>3, <5>4
      <4> QED BY <4>2, <4>3
    <3> QED BY <2>1, <3>1 DEF Reported
  <2>6. \A s \in Seats : Primary'.seat[s] = b => s \in success'[b] \cup leaked'[b] \cup Held(b)'
    BY <1>5, <2>1, <2>4, HeldThroughChunks DEF BulkOK
  <2>7. success'[b] \subseteq Asked(b)
    BY <1>4, <2>1 DEF BulkOK
  <2> QED BY <1>5, <2>1, <2>5, <2>6, <2>7 DEF BulkOK, Asked
<1> QED BY <1>1, <1>8, <1>9, <1>10

\* What the goroutines hold depends on the chunks alone.
LEMMA ChunksAlone ==
  ASSUME NEW b \in Bulks, chunk'[b] = chunk[b]
  PROVE  Held(b)' = Held(b) /\ (AllEnded(b)' <=> AllEnded(b))
<1> QED BY DEF Held, AllEnded, SeatAt

\* Neither does the request lose one, until it has given it back.
LEMMA CallerKeeps ==
  ASSUME RowsOK, ChunksOK, OthersOK, Next, NEW b \in Bulks, BulkOK(b), CallerStep(b)
  PROVE  BulkOK(b)'
<1>1. /\ chunk' = chunk /\ failed' = failed
      /\ Held(b)' = Held(b) /\ (AllEnded(b)' <=> AllEnded(b))
  <2>1. chunk' = chunk /\ failed' = failed
    BY DEF CallerStep, BulkReserve, Collect, InvalidateCancelled, FailBulk, Dies, CancelNext, bulk
  <2> QED BY <2>1, ChunksAlone
<1>2. success' = success => (Reported(b)' <=> Reported(b))
  BY <1>1 DEF Reported
<1>3. \A s \in Seats :
        Primary'.seat[s] = b => s \in success[b] \cup leaked[b] \cup leaked'[b] \cup Held(b)
  BY <1>1, HeldThroughChunks DEF BulkOK
<1>4. ASSUME success' = success, leaked' = leaked, NEW st \in Steps, Goto(b, st),
             st \in {"run", "rollback", "ok", "error", "died"},
             st \in {"rollback", "ok", "error"} => AllEnded(b),
             st = "error" => success[b] = {},
             st = "ok" => ~failed[b],
             st \in {"run", "ok"} => Reported(b)
      PROVE  BulkOK(b)'
  <2>1. pc'[b] = st
    BY <1>4, GotoOne DEF OthersOK, Actors
  <2>2. \A s \in Seats : Primary'.seat[s] = b => s \in success'[b] \cup leaked'[b] \cup Held(b)'
    BY <1>1, <1>3, <1>4
  <2>3. success'[b] \subseteq Asked(b)'
    BY <1>4 DEF BulkOK, Asked
  <2> QED BY <1>1, <1>2, <1>4, <2>1, <2>2, <2>3 DEF BulkOK
<1>5. CASE BulkReserve(b)
  <2>1. /\ pc[b] = "start" /\ success' = success /\ leaked' = leaked
        /\ Goto(b, IF Wanted[b] = <<>> THEN "error" ELSE "run")
    BY <1>5 DEF BulkReserve, bulk
  <2>2. success[b] = {} /\ Reported(b)
    BY <2>1 DEF BulkOK
  <2>3. CASE Wanted[b] = <<>>
    <3>1. AllEnded(b)
      BY <2>3, NothingAsked DEF AllEnded
    <3> QED BY <1>4, <2>1, <2>2, <2>3, <3>1 DEF Steps
  <2>4. CASE Wanted[b] # <<>>
    BY <1>4, <2>1, <2>2, <2>4 DEF Steps
  <2> QED BY <2>3, <2>4
<1>6. CASE Collect(b)
  <2>1. /\ pc[b] = "run" /\ success' = success /\ leaked' = leaked /\ AllEnded(b)
        /\ Goto(b, IF failed[b] THEN "rollback" ELSE "ok")
    BY <1>6 DEF Collect, bulk, OutcomesRead, AllEnded
  <2>2. Reported(b)
    BY <2>1 DEF BulkOK
  <2>3. CASE failed[b]
    BY <1>4, <2>1, <2>3 DEF Steps
  <2>4. CASE ~failed[b]
    BY <1>4, <2>1, <2>2, <2>4 DEF Steps
  <2> QED BY <2>3, <2>4
<1>7. CASE InvalidateCancelled(b)
  <2>1. /\ pc[b] = "invalidate" /\ success' = success /\ leaked' = leaked
        /\ Goto(b, "rollback")
    BY <1>7 DEF InvalidateCancelled, bulk
  <2>2. AllEnded(b)
    BY <2>1 DEF BulkOK
  <2> QED BY <1>4, <2>1, <2>2 DEF Steps
<1>8. CASE FailBulk(b)
  <2>1. /\ pc[b] = "rollback" /\ success' = success /\ leaked' = leaked
        /\ Goto(b, "error") /\ success[b] = {}
    BY <1>8 DEF FailBulk, bulk
  <2>2. AllEnded(b)
    BY <2>1 DEF BulkOK
  <2> QED BY <1>4, <2>1, <2>2 DEF Steps
<1>9. CASE Dies(b)
  <2>1. success' = success /\ leaked' = leaked /\ Goto(b, "died")
    BY <1>9 DEF Dies, bulk
  <2> QED BY <1>4, <2>1 DEF Steps
<1>10. ASSUME NEW s \in Seats, CancelNext(b, s) PROVE BulkOK(b)'
  <2>1. /\ pc[b] = "rollback" /\ AllEnded(b)
        /\ success'[b] = success[b] \ {s}
    BY <1>10 DEF CancelNext, BulkOK, OthersOK
  <2>2. pc'[b] \in {"rollback", "invalidate"}
    <3>1. UNCHANGED pc \/ Goto(b, "invalidate")
      BY <1>10 DEF CancelNext, AfterCancel
    <3> QED BY <2>1, <3>1 DEF Goto, OthersOK, Actors
  <2>3. leaked[b] \subseteq leaked'[b] /\ (Primary'.seat[s] = b => s \in leaked'[b])
    <3>1. CASE /\ Primary.seat[s] = b /\ Commit(WithSeat(s, "free"))
               /\ UNCHANGED leaked
      <4>1. Primary.seat[s] # "none" /\ "free" \in SeatState
        BY <3>1, SaleAssumption DEF SeatState
      <4>2. /\ WithSeat(s, "free") \in DbState
            /\ WithSeat(s, "free").seat = [Primary.seat EXCEPT ![s] = "free"]
        BY <4>1, EndsOfDb, WithSeatOK
      <4>3. Primary' = WithSeat(s, "free")
        BY <3>1, <4>2, CommitRows
      <4>4. Primary.seat \in [Seats -> SeatState]
        BY EndsOfDb DEF DbState
      <4>5. Primary'.seat[s] = "free"
        BY <4>2, <4>3, <4>4
      <4> QED BY <3>1, <4>5, SaleAssumption
    <3>2. CASE Primary.seat[s] # b /\ UNCHANGED <<db, leaked>>
      BY <3>2 DEF Primary
    <3>3. CASE leaked' = [leaked EXCEPT ![b] = @ \cup {s}]
      BY <3>3 DEF OthersOK
    <3> QED BY <1>10, <3>1, <3>2, <3>3 DEF CancelNext
  <2>4. \A t \in Seats : Primary'.seat[t] = b => t \in success'[b] \cup leaked'[b] \cup Held(b)'
    BY <1>1, <1>3, <2>1, <2>3
  <2>5. success'[b] \subseteq Asked(b)'
    BY <2>1 DEF BulkOK, Asked
  <2> QED BY <1>1, <2>1, <2>2, <2>4, <2>5 DEF BulkOK
<1> QED BY <1>5, <1>6, <1>7, <1>8, <1>9, <1>10 DEF CallerStep

\* A bulk reservation that is answered with an error holds no seat but those
\* whose cancellation failed, or whose reservation was committed without its
\* answer; and one that is answered with success has them all.
THEOREM BulksAreAllOrNothing == Spec => []BulkAllOrNothing
<1> DEFINE Inv == \A b \in Bulks : BulkOK(b)
<1>1. Init => Inv
  <2> SUFFICES ASSUME Init, NEW b \in Bulks PROVE BulkOK(b)
    OBVIOUS
  <2>1. pc[b] \in {"start", "died"} /\ success[b] = {} /\ failed[b] = FALSE
    BY DEF Init, Actors
  <2>2. \A k \in Chunks(b) : chunk[b][k].next = 1 /\ chunk[b][k].step = "reserve"
    BY DEF Init
  <2>3. \A s \in Seats : Primary.seat[s] # b
    <3>1. Primary = WholeEvent \/ Primary = NoEvent
      BY DEF Init, Primary
    <3> QED BY <3>1, SaleAssumption DEF WholeEvent, NoEvent
  <2>4. Reported(b)
    <3>1. \A k \in Chunks(b) : \A m \in 1 .. Len(ChunkSeats(b, k)) : ~(m < 1)
      BY ChunkIsPart
    <3> QED BY <2>2, <3>1 DEF Reported
  <2> QED BY <2>1, <2>2, <2>3, <2>4 DEF BulkOK
<1>2. RowsOK /\ ChunksOK /\ OthersOK /\ Inv /\ [Next]_vars => Inv'
  <2> SUFFICES ASSUME RowsOK, ChunksOK, OthersOK, Inv, [Next]_vars, NEW b \in Bulks
               PROVE  BulkOK(b)'
    OBVIOUS
  <2>1. BulkOK(b)
    OBVIOUS
  <2>2. ASSUME Kept(b), \A s \in Seats : Primary'.seat[s] = b
                                   => \/ Primary.seat[s] = b
                                      \/ s \in Held(b)' \cup leaked'[b]
        PROVE  BulkOK(b)'
    <3>1. Held(b)' = Held(b) /\ (AllEnded(b)' <=> AllEnded(b))
      BY <2>2, ChunksAlone DEF Kept
    <3>2. Reported(b)' <=> Reported(b)
      BY <2>2 DEF Kept, Reported
    <3>3. success'[b] \subseteq Asked(b)'
      BY <2>1, <2>2 DEF Kept, BulkOK, Asked
    <3> QED BY <2>1, <2>2, <3>1, <3>2, <3>3 DEF BulkOK, Kept
  <2>3. CASE UNCHANGED vars
    BY <2>2, <2>3 DEF vars, catalogue, bulk, Kept, Primary
  <2>4. CASE Next
    BY <2>1, <2>2, <2>4, OwnSteps, HeldThroughChunks, GoroutinesKeep, CallerKeeps
  <2> QED BY <2>3, <2>4
<1>3. Inv => BulkAllOrNothing
  <2> SUFFICES ASSUME Inv, NEW b \in Bulks
               PROVE  /\ pc[b] = "error" => \A s \in Seats \ leaked[b] : Primary.seat[s] # b
                      /\ pc[b] = "ok" => success[b] = Asked(b)
    BY DEF BulkAllOrNothing, Asked
  <2>1. BulkOK(b)
    OBVIOUS
  <2>2. ASSUME pc[b] = "error", NEW s \in Seats \ leaked[b], Primary.seat[s] = b
        PROVE  FALSE
    <3>1. Held(b) = {} /\ success[b] = {}
      BY <2>1, <2>2 DEF BulkOK, AllEnded, Held
    <3> QED BY <2>1, <2>2, <3>1 DEF BulkOK
  <2>3. pc[b] = "ok" => success[b] = Asked(b)
    BY <2>1, AllReported DEF BulkOK
  <2> QED BY <2>2, <2>3
<1> QED BY RowsHold, ChunksHold, OthersHold, <1>1, <1>2, <1>3, PTL DEF Spec
==============================================================================
