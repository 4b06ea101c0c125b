------------------------ MODULE BookingStoreProofs --------------------------
(***************************************************************************)
(* What the store keeps of the rows, whoever calls it and in whatever      *)
(* order, for any number of events, seats and bookings, any deadlines and  *)
(* any clock.  The modules that implement or use the store take their      *)
(* results about the rows from here.                                       *)
(***************************************************************************)
EXTENDS BookingStore, FiniteSetTheorems, TLAPS

\* The inductive invariant of the rows.
RowsInv ==
  /\ RowsTypeOK
  /\ SeatsMatchBookings
  /\ AvailableSeatsExact
  /\ DeadlinesAgree
  /\ FreeSeatsUndated

\* What a step may write, and what it has found in the rows it writes.
RowStep ==
  \/ UNCHANGED rows
  \/ \E b \in Bookings :
       \/ WritePaymentIntent(b)
       \/ \E s \in Seats, until \in Int :
            /\ status[b] = "none" /\ seatStatus[s] = "available"
            /\ InsertReservation(b, s, until)
       \/ status[b] = "reserved" /\ WritePurchase(b)
       \/ status[b] = "purchased" /\ WriteRevert(b)
       \/ status[b] = "reserved" /\ \E until \in Int : WriteExtension(b, until)
       \/ status[b] = "reserved" /\ \E f \in {"cancelled", "expired"} : WriteRelease(b, f)

------------------------------------------------------------------------------
(* What the writes leave of the rows.                                       *)

\* A step that leaves the rows alone leaves their invariant alone.
LEMMA RowsStutter == RowsInv /\ UNCHANGED rows => RowsInv'
BY DEF RowsInv, RowsTypeOK, SeatsMatchBookings, AvailableSeatsExact,
       DeadlinesAgree, FreeSeatsUndated, Live, FreeSeats, SeatsOf, rows

\* The empty tables are consistent.
LEMMA InitRowsInv == InitRows => RowsInv
<1>. SUFFICES ASSUME InitRows PROVE RowsInv
  OBVIOUS
<1>1. \A e \in Events : Cardinality(SeatsOf(e)) \in Int
  <2>. SUFFICES ASSUME NEW e \in Events PROVE Cardinality(SeatsOf(e)) \in Int
    OBVIOUS
  <2>1. IsFiniteSet(SeatsOf(e))
    BY RowsAssumption, FS_Subset DEF SeatsOf
  <2>. QED
    BY <2>1, FS_CardinalityType
<1>2. RowsTypeOK
  BY <1>1 DEF InitRows, RowsTypeOK, SeatStatus, Null
<1>3. \A e \in Events : FreeSeats(e) = SeatsOf(e)
  BY DEF InitRows, FreeSeats, SeatsOf
<1>. QED
  BY <1>2, <1>3 DEF InitRows, RowsInv, SeatsMatchBookings, AvailableSeatsExact,
     DeadlinesAgree, FreeSeatsUndated, Live

\* Rows of the right types stay so.
LEMMA WritesType ==
  ASSUME RowsTypeOK, NEW b \in Bookings,
         \/ UNCHANGED rows
         \/ \E s \in Seats, until \in Int : InsertReservation(b, s, until)
         \/ WritePurchase(b)
         \/ WriteRevert(b)
         \/ \E until \in Int : WriteExtension(b, until)
         \/ WriteRelease(b, "cancelled")
         \/ WriteRelease(b, "expired")
         \/ WritePaymentIntent(b)
  PROVE  RowsTypeOK'
<1>. USE DEF RowsTypeOK
<1>a. ASSUME NEW x PROVE [availableSeats EXCEPT ![x] = @ + 1] \in [Events -> Int]
  <2>1. CASE x \in Events
    <3>1. availableSeats[x] + 1 \in Int
      BY <2>1
    <3>. QED
      BY <3>1
  <2>2. CASE x \notin Events
    <3>1. [availableSeats EXCEPT ![x] = @ + 1] = availableSeats
      BY <2>2
    <3>. QED
      BY <3>1
  <2>. QED
    BY <2>1, <2>2
<1>b. ASSUME NEW x, NEW v \in SeatStatus
      PROVE [seatStatus EXCEPT ![x] = v] \in [Seats -> SeatStatus]
  OBVIOUS
<1>c. ASSUME NEW x, NEW v \in Int PROVE [reservedUntil EXCEPT ![x] = v] \in [Seats -> Int]
  OBVIOUS
<1>d. ASSUME NEW v \in BookingStatus
      PROVE  [status EXCEPT ![b] = v] \in [Bookings -> BookingStatus \cup {"none"}]
  OBVIOUS
<1>e. ASSUME NEW v \in {"null", "set"}
      PROVE  [paymentIntentID EXCEPT ![b] = v] \in [Bookings -> {"null", "set"}]
  OBVIOUS
<1>f. Null \in Int /\ {"available", "reserved", "sold"} \subseteq SeatStatus
  BY DEF Null, SeatStatus
<1>g. {"reserved", "purchased", "cancelled", "expired"} \subseteq BookingStatus
  BY DEF BookingStatus
<1>1. CASE UNCHANGED rows
  BY <1>1 DEF rows
<1>2. ASSUME NEW s \in Seats, NEW until \in Int, InsertReservation(b, s, until)
      PROVE  RowsTypeOK'
  <2>1. EventOf[s] \in Events /\ availableSeats[EventOf[s]] \in Int
    BY RowsAssumption
  <2>2. availableSeats' \in [Events -> Int]
    BY <1>2, <2>1 DEF InsertReservation
  <2>3. seatStatus' \in [Seats -> SeatStatus] /\ reservedUntil' \in [Seats -> Int]
    BY <1>2, <1>b, <1>c, <1>f DEF InsertReservation
  <2>4. status' \in [Bookings -> BookingStatus \cup {"none"}]
    BY <1>2, <1>d, <1>g DEF InsertReservation
  <2>5. /\ seatID' \in [Bookings -> Seats \cup {NoSeat}]
        /\ expiresAt' \in [Bookings -> Int]
        /\ UNCHANGED paymentIntentID
    BY <1>2 DEF InsertReservation
  <2>. QED
    BY <2>2, <2>3, <2>4, <2>5
<1>3. CASE WritePurchase(b)
  BY <1>3, <1>b, <1>c, <1>d, <1>f, <1>g DEF WritePurchase
<1>4. CASE WriteRevert(b)
  <2>1. availableSeats' \in [Events -> Int]
    BY <1>4, <1>a DEF WriteRevert
  <2>2. seatStatus' \in [Seats -> SeatStatus] /\ reservedUntil' \in [Seats -> Int]
    BY <1>4, <1>b, <1>c, <1>f DEF WriteRevert
  <2>3. /\ status' \in [Bookings -> BookingStatus \cup {"none"}]
        /\ paymentIntentID' \in [Bookings -> {"null", "set"}]
    BY <1>4, <1>d, <1>e, <1>g DEF WriteRevert
  <2>. QED
    BY <1>4, <2>1, <2>2, <2>3 DEF WriteRevert
<1>5. ASSUME NEW until \in Int, WriteExtension(b, until) PROVE RowsTypeOK'
  <2>1. PICK n \in Int : /\ expiresAt' = [expiresAt EXCEPT ![b] = n]
                        /\ reservedUntil' = [reservedUntil EXCEPT ![seatID[b]] = n]
    <3>1. expiresAt[b] \in Int
      OBVIOUS
    <3>2. CASE until > expiresAt[b]
      BY <1>5, <3>2 DEF WriteExtension
    <3>3. CASE ~(until > expiresAt[b])
      BY <1>5, <3>1, <3>3 DEF WriteExtension
    <3>. QED
      BY <3>2, <3>3
  <2>2. expiresAt' \in [Bookings -> Int] /\ reservedUntil' \in [Seats -> Int]
    BY <2>1, <1>c
  <2>. QED
    BY <1>5, <2>2 DEF WriteExtension
<1>6. ASSUME NEW f \in {"cancelled", "expired"}, WriteRelease(b, f) PROVE RowsTypeOK'
  <2>1. availableSeats' \in [Events -> Int]
    BY <1>6, <1>a DEF WriteRelease
  <2>2. seatStatus' \in [Seats -> SeatStatus] /\ reservedUntil' \in [Seats -> Int]
    BY <1>6, <1>b, <1>c, <1>f DEF WriteRelease
  <2>3. status' \in [Bookings -> BookingStatus \cup {"none"}]
    BY <1>6, <1>d, <1>g DEF WriteRelease
  <2>. QED
    BY <1>6, <2>1, <2>2, <2>3 DEF WriteRelease
<1>7. CASE WritePaymentIntent(b)
  BY <1>7, <1>e DEF WritePaymentIntent
<1>. QED
  BY <1>1, <1>2, <1>3, <1>4, <1>5, <1>6, <1>7

\* The counter follows the seats when a single one changes.
LEMMA CounterFollowsSeat ==
  ASSUME RowsTypeOK, AvailableSeatsExact, NEW s \in Seats,
         \A r \in Seats \ {s} : seatStatus'[r] = seatStatus[r],
         \/ /\ seatStatus[s] = "available" /\ seatStatus'[s] # "available"
            /\ availableSeats' = [availableSeats EXCEPT ![EventOf[s]] = @ - 1]
         \/ /\ seatStatus[s] # "available" /\ seatStatus'[s] = "available"
            /\ availableSeats' = [availableSeats EXCEPT ![EventOf[s]] = @ + 1]
         \/ /\ seatStatus[s] # "available" /\ seatStatus'[s] # "available"
            /\ UNCHANGED availableSeats
  PROVE  AvailableSeatsExact'
<1>. SUFFICES ASSUME NEW e \in Events
              PROVE  availableSeats'[e] = Cardinality(FreeSeats(e)')
  BY DEF AvailableSeatsExact
<1>1. IsFiniteSet(FreeSeats(e)) /\ availableSeats[e] = Cardinality(FreeSeats(e))
  BY RowsAssumption, FS_Subset DEF FreeSeats, SeatsOf, AvailableSeatsExact
<1>2. CASE EventOf[s] = e /\ seatStatus[s] = "available"
  <2>1. FreeSeats(e)' = FreeSeats(e) \ {s} /\ s \in FreeSeats(e)
    BY <1>2 DEF FreeSeats, SeatsOf
  <2>2. Cardinality(FreeSeats(e)') = Cardinality(FreeSeats(e)) - 1
    BY <1>1, <2>1, FS_RemoveElement
  <2>. QED
    BY <1>1, <1>2, <2>2 DEF RowsTypeOK
<1>3. CASE EventOf[s] = e /\ seatStatus[s] # "available" /\ seatStatus'[s] = "available"
  <2>1. FreeSeats(e)' = FreeSeats(e) \cup {s} /\ s \notin FreeSeats(e)
    BY <1>3 DEF FreeSeats, SeatsOf
  <2>2. Cardinality(FreeSeats(e)') = Cardinality(FreeSeats(e)) + 1
    BY <1>1, <2>1, FS_AddElement
  <2>. QED
    BY <1>1, <1>3, <2>2 DEF RowsTypeOK
<1>4. CASE EventOf[s] # e \/ (seatStatus[s] # "available" /\ seatStatus'[s] # "available")
  <2>1. FreeSeats(e)' = FreeSeats(e) /\ availableSeats'[e] = availableSeats[e]
    BY <1>4 DEF FreeSeats, SeatsOf, RowsTypeOK
  <2>. QED
    BY <1>1, <2>1
<1>. QED
  BY <1>2, <1>3, <1>4

\* A reservation of a seat that is free, for a booking that is new, gives no
\* seat a second owner and takes one off the counter.
LEMMA InsertKeepsRows ==
  ASSUME RowsInv, NEW b \in Bookings, NEW s \in Seats, NEW until \in Int,
         status[b] = "none", seatStatus[s] = "available",
         InsertReservation(b, s, until)
  PROVE  SeatsMatchBookings' /\ AvailableSeatsExact' /\ DeadlinesAgree'
<1>. USE DEF RowsInv
<1>1. SeatsMatchBookings'
  BY DEF InsertReservation, SeatsMatchBookings, Live, RowsTypeOK
<1>2. DeadlinesAgree'
  BY DEF InsertReservation, SeatsMatchBookings, DeadlinesAgree, Live, RowsTypeOK
<1>3. AvailableSeatsExact'
  BY CounterFollowsSeat DEF InsertReservation, RowsTypeOK
<1>. QED
  BY <1>1, <1>2, <1>3

\* A purchase sells the seat that the booking holds.
LEMMA PurchaseKeepsRows ==
  ASSUME RowsInv, NEW b \in Bookings, status[b] = "reserved", WritePurchase(b)
  PROVE  SeatsMatchBookings' /\ AvailableSeatsExact' /\ DeadlinesAgree'
<1>. USE DEF RowsInv
<1>1. seatID[b] \in Seats /\ seatStatus[seatID[b]] = "reserved"
  BY DEF SeatsMatchBookings, Live
<1>2. SeatsMatchBookings'
  BY <1>1 DEF WritePurchase, SeatsMatchBookings, Live, RowsTypeOK
<1>3. DeadlinesAgree'
  BY <1>1 DEF WritePurchase, SeatsMatchBookings, DeadlinesAgree, Live, RowsTypeOK
<1>4. AvailableSeatsExact'
  BY <1>1, CounterFollowsSeat DEF WritePurchase, RowsTypeOK
<1>. QED
  BY <1>2, <1>3, <1>4

\* A purchase that is reverted has a seat that is sold, so the seat is freed
\* whenever the counter goes up.
LEMMA RevertKeepsRows ==
  ASSUME RowsInv, NEW b \in Bookings, status[b] = "purchased", WriteRevert(b)
  PROVE  SeatsMatchBookings' /\ AvailableSeatsExact' /\ DeadlinesAgree'
<1>. USE DEF RowsInv
<1>1. seatID[b] \in Seats /\ seatStatus[seatID[b]] = "sold"
  BY DEF SeatsMatchBookings, Live
<1>2. SeatsMatchBookings'
  BY <1>1 DEF WriteRevert, SeatsMatchBookings, Live, RowsTypeOK
<1>3. DeadlinesAgree'
  BY <1>1 DEF WriteRevert, SeatsMatchBookings, DeadlinesAgree, Live, RowsTypeOK
<1>4. /\ \A r \in Seats \ {seatID[b]} : seatStatus'[r] = seatStatus[r]
      /\ seatStatus[seatID[b]] # "available" /\ seatStatus'[seatID[b]] = "available"
      /\ availableSeats' = [availableSeats EXCEPT ![EventOf[seatID[b]]] = @ + 1]
  BY <1>1 DEF WriteRevert, RowsTypeOK
<1>5. AvailableSeatsExact'
  BY <1>1, <1>4, CounterFollowsSeat
<1>. QED
  BY <1>2, <1>3, <1>5

\* An extension moves the booking's deadline and its seat's together.
LEMMA ExtensionKeepsRows ==
  ASSUME RowsInv, NEW b \in Bookings, NEW until \in Int, status[b] = "reserved",
         WriteExtension(b, until)
  PROVE  SeatsMatchBookings' /\ AvailableSeatsExact' /\ DeadlinesAgree'
<1>. USE DEF RowsInv
<1>1. SeatsMatchBookings'
  BY DEF WriteExtension, SeatsMatchBookings, Live
<1>2. DeadlinesAgree'
  BY DEF WriteExtension, SeatsMatchBookings, DeadlinesAgree, Live, RowsTypeOK
<1>3. AvailableSeatsExact'
  BY DEF WriteExtension, AvailableSeatsExact, FreeSeats, SeatsOf
<1>. QED
  BY <1>1, <1>2, <1>3

\* A release frees the seat that the booking holds.
LEMMA ReleaseKeepsRows ==
  ASSUME RowsInv, NEW b \in Bookings, NEW f \in {"cancelled", "expired"},
         status[b] = "reserved", WriteRelease(b, f)
  PROVE  SeatsMatchBookings' /\ AvailableSeatsExact' /\ DeadlinesAgree'
<1>. USE DEF RowsInv
<1>1. seatID[b] \in Seats /\ seatStatus[seatID[b]] = "reserved"
  BY DEF SeatsMatchBookings, Live
<1>2. SeatsMatchBookings'
  BY <1>1 DEF WriteRelease, SeatsMatchBookings, Live, RowsTypeOK
<1>3. DeadlinesAgree'
  BY <1>1 DEF WriteRelease, SeatsMatchBookings, DeadlinesAgree, Live, RowsTypeOK
<1>4. AvailableSeatsExact'
  BY <1>1, CounterFollowsSeat DEF WriteRelease, RowsTypeOK
<1>. QED
  BY <1>2, <1>3, <1>4

\* Whoever frees a seat erases its deadline, and only a seat that is taken is
\* given one.
LEMMA RowStepKeepsUndated ==
  ASSUME RowsInv, RowStep
  PROVE  FreeSeatsUndated'
<1>. USE DEF RowsInv
<1>0. FreeSeatsUndated /\ RowsTypeOK
  OBVIOUS
<1>1. ASSUME UNCHANGED <<seatStatus, reservedUntil>> PROVE FreeSeatsUndated'
  BY <1>0, <1>1 DEF FreeSeatsUndated
<1>2. ASSUME NEW s \in Seats, \A r \in Seats \ {s} : /\ seatStatus'[r] = seatStatus[r]
                                                  /\ reservedUntil'[r] = reservedUntil[r],
             seatStatus'[s] # "available" \/ reservedUntil'[s] = Null
      PROVE  FreeSeatsUndated'
  BY <1>0, <1>2 DEF FreeSeatsUndated
<1>3. ASSUME NEW b \in Bookings, NEW s \in Seats, NEW until \in Int,
             InsertReservation(b, s, until)
      PROVE  FreeSeatsUndated'
  BY <1>0, <1>2, <1>3 DEF InsertReservation, RowsTypeOK
<1>4. ASSUME NEW b \in Bookings, Live(b)
      PROVE  /\ seatID[b] \in Seats
             /\ seatStatus[seatID[b]] = IF status[b] = "purchased" THEN "sold" ELSE "reserved"
  BY <1>4 DEF SeatsMatchBookings
<1>5. ASSUME NEW b \in Bookings, status[b] = "reserved", WritePurchase(b)
      PROVE  FreeSeatsUndated'
  BY <1>0, <1>2, <1>4, <1>5 DEF WritePurchase, RowsTypeOK, Live
<1>6. ASSUME NEW b \in Bookings, status[b] = "purchased", WriteRevert(b)
      PROVE  FreeSeatsUndated'
  BY <1>0, <1>2, <1>4, <1>6 DEF WriteRevert, RowsTypeOK, Live
<1>7. ASSUME NEW b \in Bookings, NEW until \in Int, status[b] = "reserved",
             WriteExtension(b, until)
      PROVE  FreeSeatsUndated'
  <2>1. seatID[b] \in Seats /\ seatStatus'[seatID[b]] # "available" /\ seatStatus' = seatStatus
    BY <1>4, <1>7 DEF WriteExtension, Live
  <2>2. \A r \in Seats \ {seatID[b]} : reservedUntil'[r] = reservedUntil[r]
    BY <1>0, <1>7 DEF WriteExtension, RowsTypeOK
  <2>. QED
    BY <1>2, <2>1, <2>2
<1>8. ASSUME NEW b \in Bookings, NEW f, status[b] = "reserved", WriteRelease(b, f)
      PROVE  FreeSeatsUndated'
  BY <1>0, <1>2, <1>4, <1>8 DEF WriteRelease, RowsTypeOK, Live
<1>9. CASE UNCHANGED rows \/ \E b \in Bookings : WritePaymentIntent(b)
  BY <1>1, <1>9 DEF rows, WritePaymentIntent
<1>. QED
  BY <1>3, <1>5, <1>6, <1>7, <1>8, <1>9 DEF RowStep

\* Whatever a step writes, the rows stay consistent.
LEMMA RowStepKeepsRows ==
  ASSUME RowsInv, RowStep
  PROVE  RowsInv'
<1>1. RowsTypeOK'
  <2>1. RowsTypeOK
    BY DEF RowsInv
  <2>2. CASE UNCHANGED rows
    BY <2>1, <2>2 DEF rows, RowsTypeOK
  <2>3. ASSUME NEW b \in Bookings,
               \/ WritePaymentIntent(b)
               \/ \E s \in Seats, until \in Int : InsertReservation(b, s, until)
               \/ WritePurchase(b) \/ WriteRevert(b)
               \/ \E until \in Int : WriteExtension(b, until)
               \/ \E f \in {"cancelled", "expired"} : WriteRelease(b, f)
        PROVE  RowsTypeOK'
    BY <2>1, <2>3, WritesType
  <2>. QED
    BY <2>2, <2>3 DEF RowStep
<1>2. ASSUME UNCHANGED rows PROVE RowsInv'
  BY <1>2, RowsStutter
<1>3. ASSUME NEW b \in Bookings, WritePaymentIntent(b)
      PROVE  SeatsMatchBookings' /\ AvailableSeatsExact' /\ DeadlinesAgree'
  BY <1>3 DEF WritePaymentIntent, RowsInv, SeatsMatchBookings,
              AvailableSeatsExact, DeadlinesAgree, Live, FreeSeats, SeatsOf
<1>4. FreeSeatsUndated'
  BY RowStepKeepsUndated
<1>. QED
  BY <1>1, <1>2, <1>3, <1>4, InsertKeepsRows, PurchaseKeepsRows, RevertKeepsRows,
     ExtensionKeepsRows, ReleaseKeepsRows DEF RowStep, RowsInv

------------------------------------------------------------------------------
(* The inventory.                                                          *)

\* The holder of a seat is its only live booking; a seat without one is free.
LEMMA HolderIsLiveBooking ==
  ASSUME SeatsMatchBookings, NEW s \in Seats
  PROVE  /\ \A b \in Bookings : Live(b) /\ seatID[b] = s => HolderOf(s) = b
         /\ (\A b \in Bookings : ~(Live(b) /\ seatID[b] = s)) => HolderOf(s) = NoBooking
BY DEF SeatsMatchBookings, HolderOf

\* The step concerns one booking and its seat and leaves all others alone.
Concerns(b, s) ==
  /\ \A c \in Bookings \ {b} : status'[c] = status[c] /\ seatID'[c] = seatID[c]
  /\ \A r \in Seats \ {s} : seatStatus'[r] = seatStatus[r]
  /\ seatID'[b] = s
  /\ status[b] = "none" \/ seatID[b] = s
  /\ status'[b] # "none"

\* In the inventory only the holder of that seat may change: it is the booking
\* as long as the booking is live.
LEMMA OthersKeepSeats ==
  ASSUME RowsInv, RowsInv', NEW b \in Bookings, NEW s \in Seats, Concerns(b, s),
         Live(b) \/ (status[b] = "none" /\ seatStatus[s] = "available")
  PROVE  /\ \A r \in Seats \ {s} : HolderOf(r)' = HolderOf(r)
         /\ HolderOf(s) = IF Live(b) THEN b ELSE NoBooking
         /\ HolderOf(s)' = IF Live(b)' THEN b ELSE NoBooking
<1>. USE DEF RowsInv
<1>1. \A r \in Seats :
        /\ \A c \in Bookings : Live(c) /\ seatID[c] = r => HolderOf(r) = c
        /\ (\A c \in Bookings : ~(Live(c) /\ seatID[c] = r)) => HolderOf(r) = NoBooking
  BY HolderIsLiveBooking
<1>2. \A r \in Seats :
        /\ \A c \in Bookings : Live(c)' /\ seatID'[c] = r => HolderOf(r)' = c
        /\ (\A c \in Bookings : ~(Live(c)' /\ seatID'[c] = r)) => HolderOf(r)' = NoBooking
  BY DEF SeatsMatchBookings, HolderOf
<1>3. ASSUME NEW r \in Seats \ {s} PROVE HolderOf(r)' = HolderOf(r)
  <2>1. \A c \in Bookings : (Live(c) /\ seatID[c] = r) <=> (Live(c)' /\ seatID'[c] = r)
    BY DEF Live, Concerns
  <2>2. CASE \E c \in Bookings : Live(c) /\ seatID[c] = r
    BY <1>1, <1>2, <2>1, <2>2
  <2>3. CASE \A c \in Bookings : ~(Live(c) /\ seatID[c] = r)
    BY <1>1, <1>2, <2>1, <2>3
  <2>. QED
    BY <2>2, <2>3
<1>4. \A c \in Bookings \ {b} : ~(Live(c) /\ seatID[c] = s)
  BY DEF SeatsMatchBookings, Live, Concerns
<1>5. HolderOf(s) = IF Live(b) THEN b ELSE NoBooking
  <2>1. CASE Live(b)
    BY <1>1, <2>1 DEF Concerns, Live
  <2>2. CASE ~Live(b)
    BY <1>1, <1>4, <2>2
  <2>. QED
    BY <2>1, <2>2
<1>6. HolderOf(s)' = IF Live(b)' THEN b ELSE NoBooking
  <2>1. \A c \in Bookings \ {b} : ~(Live(c)' /\ seatID'[c] = s)
    BY <1>4 DEF Concerns, Live
  <2>2. CASE Live(b)'
    BY <1>2, <2>2 DEF Concerns
  <2>3. CASE ~Live(b)'
    BY <1>2, <2>1, <2>3
  <2>. QED
    BY <2>2, <2>3
<1>. QED
  BY <1>3, <1>5, <1>6

\* A step takes a free seat, sells one to its holder, gives one up, or changes
\* nothing that the inventory shows.
LEMMA RowStepImplements ==
  ASSUME RowsInv, RowsInv', RowStep
  PROVE  [Inventory!Next]_(Inventory!inventoryVars)
<1>. USE DEF RowsInv
<1>. DEFINE holder == [r \in Seats |-> HolderOf(r)]
            sold == {r \in Seats : seatStatus[r] = "sold"}
            used == {c \in Bookings : status[c] # "none"}
<1>0. \A b \in Bookings : b # NoBooking
  BY RowsAssumption
<1>1. ASSUME UNCHANGED <<status, seatID, seatStatus>>
      PROVE  [Inventory!Next]_(Inventory!inventoryVars)
  BY <1>1 DEF Inventory!inventoryVars, HolderOf, Live
<1>2. ASSUME NEW b \in Bookings, NEW s \in Seats, NEW until \in Int,
             status[b] = "none", seatStatus[s] = "available",
             InsertReservation(b, s, until)
      PROVE  [Inventory!Next]_(Inventory!inventoryVars)
  <2>1. /\ Concerns(b, s) /\ ~Live(b) /\ Live(b)'
        /\ status'[b] = "reserved" /\ seatStatus'[s] = "reserved"
    BY <1>2 DEF InsertReservation, RowsTypeOK, Concerns, Live
  <2>2. holder[s] = NoBooking /\ holder' = [holder EXCEPT ![s] = b]
    BY <1>2, <2>1, OthersKeepSeats
  <2>3. sold' = sold
    BY <1>2, <2>1 DEF Concerns
  <2>4. used' = used \cup {b} /\ b \notin used
    BY <1>2, <2>1 DEF Concerns
  <2>5. Inventory!Hold(s, b)
    BY <2>2, <2>3, <2>4 DEF Inventory!Hold
  <2>. QED
    BY <2>5 DEF Inventory!Next
<1>3. ASSUME NEW b \in Bookings, status[b] = "reserved", WritePurchase(b)
      PROVE  [Inventory!Next]_(Inventory!inventoryVars)
  <2>0. PICK s \in Seats : s = seatID[b] /\ seatStatus[s] = "reserved"
    BY <1>3 DEF SeatsMatchBookings, Live
  <2>1. Concerns(b, s) /\ Live(b) /\ Live(b)' /\ seatStatus'[s] = "sold"
    BY <1>3, <2>0 DEF WritePurchase, RowsTypeOK, Concerns, Live
  <2>2. holder[s] # NoBooking /\ holder' = holder
    BY <1>0, <2>1, OthersKeepSeats
  <2>3. sold' = sold \cup {s} /\ s \notin sold
    BY <2>0, <2>1 DEF Concerns
  <2>4. used' = used
    BY <1>3, <2>1 DEF Concerns
  <2>5. Inventory!Sell(s)
    BY <2>2, <2>3, <2>4 DEF Inventory!Sell
  <2>. QED
    BY <2>5 DEF Inventory!Next
<1>4. ASSUME NEW b \in Bookings, Live(b), NEW s \in Seats, Concerns(b, s),
             ~Live(b)', seatStatus'[s] = "available"
      PROVE  [Inventory!Next]_(Inventory!inventoryVars)
  <2>1. holder[s] # NoBooking /\ holder' = [holder EXCEPT ![s] = NoBooking]
    BY <1>0, <1>4, OthersKeepSeats
  <2>2. sold' = sold \ {s}
    BY <1>4 DEF Concerns
  <2>3. used' = used
    BY <1>4 DEF Concerns, Live
  <2>4. Inventory!GiveUp(s)
    BY <2>1, <2>2, <2>3 DEF Inventory!GiveUp
  <2>. QED
    BY <2>4 DEF Inventory!Next
<1>5. ASSUME NEW b \in Bookings,
             \/ status[b] = "purchased" /\ WriteRevert(b)
             \/ /\ status[b] = "reserved"
                /\ \E f \in {"cancelled", "expired"} : WriteRelease(b, f)
      PROVE  [Inventory!Next]_(Inventory!inventoryVars)
  <2>0. PICK s \in Seats :
          s = seatID[b] /\ (status[b] = "purchased" => seatStatus[s] = "sold")
    BY <1>5 DEF SeatsMatchBookings, Live
  <2>1. Concerns(b, s) /\ Live(b) /\ ~Live(b)' /\ seatStatus'[s] = "available"
    BY <1>5, <2>0 DEF WriteRevert, WriteRelease, RowsTypeOK, Concerns, Live
  <2>. QED
    BY <1>4, <2>1
<1>6. ASSUME NEW b \in Bookings,
             WritePaymentIntent(b) \/ \E until \in Int : WriteExtension(b, until)
      PROVE  [Inventory!Next]_(Inventory!inventoryVars)
  BY <1>1, <1>6 DEF WritePaymentIntent, WriteExtension
<1>7. ASSUME UNCHANGED rows PROVE [Inventory!Next]_(Inventory!inventoryVars)
  BY <1>1, <1>7 DEF rows
<1>. QED
  BY <1>2, <1>3, <1>5, <1>6, <1>7 DEF RowStep

------------------------------------------------------------------------------
(* The store.                                                              *)

\* The clock is a number, and the rows are consistent.
StoreInv == now \in Nat /\ RowsInv

\* Each method asks of the rows what the write that follows relies on.
LEMMA StoreStepWrites ==
  ASSUME now \in Nat, NEW b \in Bookings, StoreStep(b)
  PROVE  RowStep
<1>1. ASSUME NEW s \in Seats, NEW asked \in 0 .. now, NEW clock \in 0 .. now,
             Reserve(b, s, asked, clock)
      PROVE  RowStep
  <2>1. asked + ReservationTimeout \in Int
    BY StoreAssumption
  <2>2. status[b] = "none" /\ seatStatus[s] = "available"
    BY <1>1 DEF Reserve, SeatAdmits
  <2>. QED
    BY <1>1, <2>1, <2>2 DEF Reserve, RowStep
<1>2. ASSUME NEW begun, NEW clock, Purchase(b, begun, clock) \/ Expire(b, begun, clock)
      PROVE  RowStep
  BY <1>2 DEF Purchase, Expire, Admits, RowStep
<1>3. ASSUME NEW asked \in 0 .. now, NEW begun, NEW clock, Extend(b, asked, begun, clock)
      PROVE  RowStep
  <2>1. asked + PurchaseExtension \in Int
    BY StoreAssumption
  <2>2. status[b] = "reserved" /\ WriteExtension(b, asked + PurchaseExtension)
    BY <1>3 DEF Extend, Admits
  <2>. QED
    BY <2>1, <2>2 DEF RowStep
<1>4. ASSUME Revert(b) \/ Cancel(b) \/ WritePaymentIntent(b) PROVE RowStep
  BY <1>4 DEF Revert, Cancel, Admits, RowStep
<1>. QED
  BY <1>1, <1>2, <1>3, <1>4 DEF StoreStep

\* So does every step of the store.
LEMMA StoreNextWrites ==
  ASSUME now \in Nat, [StoreNext]_storeVars
  PROVE  RowStep /\ now' \in Nat
<1>1. CASE UNCHANGED storeVars
  BY <1>1 DEF storeVars, RowStep
<1>2. CASE TimePasses
  BY <1>2 DEF TimePasses, RowStep
<1>3. ASSUME NEW b \in Bookings, StoreStep(b), UNCHANGED now PROVE RowStep /\ now' \in Nat
  BY <1>3, StoreStepWrites
<1>. QED
  BY <1>1, <1>2, <1>3 DEF StoreNext

\* The invariant of the store is inductive by itself.
LEMMA StoreInvHolds == StoreSpec => []StoreInv
<1>1. StoreInit => StoreInv
  BY InitRowsInv DEF StoreInit, StoreInv
<1>2. StoreInv /\ [StoreNext]_storeVars => StoreInv'
  BY StoreNextWrites, RowStepKeepsRows DEF StoreInv
<1>. QED
  BY <1>1, <1>2, PTL DEF StoreSpec

\* "Prevent double-booking": whoever calls the repository's methods, and in
\* whatever order, no seat has two live bookings and its status is that of
\* its booking; available_seats counts the free seats; the two copies of a
\* deadline agree; and a free seat has none.
THEOREM StoreKeepsRows ==
  StoreSpec => [](/\ SeatsMatchBookings
                  /\ AvailableSeatsExact
                  /\ DeadlinesAgree
                  /\ FreeSeatsUndated)
<1>1. StoreInv => /\ SeatsMatchBookings
                  /\ AvailableSeatsExact
                  /\ DeadlinesAgree
                  /\ FreeSeatsUndated
  BY DEF StoreInv, RowsInv
<1>. QED
  BY <1>1, StoreInvHolds, PTL

\* ExtendReservation only moves a deadline forward, and only an expiry that
\* has found it passed, by both clocks, takes the seat away.
THEOREM StoreKeepsDeadlines == StoreSpec => DeadlineKept
<1>. DEFINE Kept == \A b \in Bookings : status[b] = "reserved" =>
                      /\ expiresAt'[b] >= expiresAt[b]
                      /\ status'[b] = "expired" => now >= expiresAt[b]
<1>1. StoreInv /\ [StoreNext]_storeVars => [Kept]_rows
  <2>. SUFFICES ASSUME StoreInv, [StoreNext]_storeVars PROVE Kept \/ UNCHANGED rows
    OBVIOUS
  <2>1. RowsTypeOK /\ now \in Nat
    BY DEF StoreInv, RowsInv
  <2>2. CASE UNCHANGED storeVars \/ TimePasses
    BY <2>2 DEF storeVars, TimePasses
  <2>3. ASSUME NEW b \in Bookings, StoreStep(b) PROVE Kept
    <3>1. ASSUME NEW s \in Seats, NEW asked, NEW clock, Reserve(b, s, asked, clock)
          PROVE  Kept
      BY <2>1, <3>1 DEF Reserve, InsertReservation, RowsTypeOK
    <3>2. ASSUME NEW begun, NEW clock, Purchase(b, begun, clock) PROVE Kept
      BY <2>1, <3>2 DEF Purchase, WritePurchase, RowsTypeOK
    <3>3. ASSUME NEW begun \in 0 .. now, NEW clock \in begun .. now, Expire(b, begun, clock)
          PROVE  Kept
      <4>1. expiresAt[b] <= now
        BY <2>1, <3>3 DEF Expire, Admits, RowsTypeOK
      <4>. QED
        BY <2>1, <3>3, <4>1 DEF Expire, WriteRelease, RowsTypeOK
    <3>4. ASSUME NEW asked \in 0 .. now, NEW begun, NEW clock, Extend(b, asked, begun, clock)
          PROVE  Kept
      <4>1. asked + PurchaseExtension \in Int
        BY StoreAssumption
      <4>. QED
        BY <2>1, <3>4, <4>1 DEF Extend, WriteExtension, RowsTypeOK
    <3>5. CASE Revert(b)
      BY <2>1, <3>5 DEF Revert, Admits, WriteRevert, RowsTypeOK
    <3>6. CASE Cancel(b)
      BY <2>1, <3>6 DEF Cancel, WriteRelease, RowsTypeOK
    <3>7. CASE WritePaymentIntent(b)
      BY <2>1, <3>7 DEF WritePaymentIntent, RowsTypeOK
    <3>. QED
      BY <2>3, <3>1, <3>2, <3>3, <3>4, <3>5, <3>6, <3>7 DEF StoreStep
  <2>. QED
    BY <2>2, <2>3 DEF StoreNext
<1>. QED
  BY <1>1, StoreInvHolds, PTL DEF StoreSpec, DeadlineKept

\* The store, and so whatever implements it, implements the inventory in which
\* a seat has one holder at a time: every method takes a free seat for a new
\* booking, sells one to its holder, gives one up, or shows nothing.
THEOREM StoreImplementsInventory == StoreSpec => ImplementsInventory
<1>1. StoreInit => Inventory!Init
  BY DEF StoreInit, InitRows, Inventory!Init, HolderOf, Live
<1>2. StoreInv /\ StoreInv' /\ [StoreNext]_storeVars
        => [Inventory!Next]_(Inventory!inventoryVars)
  BY StoreNextWrites, RowStepImplements DEF StoreInv
<1>. QED
  BY <1>1, <1>2, StoreInvHolds, PTL
     DEF StoreSpec, ImplementsInventory, Inventory!Spec
==============================================================================
