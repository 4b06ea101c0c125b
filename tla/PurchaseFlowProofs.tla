------------------------- MODULE PurchaseFlowProofs -------------------------
(***************************************************************************)
(* The safety properties of PurchaseBooking for any number of bookings and *)
(* attempts, any deadlines, and whether or not Stripe loses its replies;   *)
(* and what all of it leaves of the rows, an inventory of seats.           *)
(***************************************************************************)
EXTENDS PurchaseFlow, BookingStoreProofs

\* Attempt a is past the sale.
PastSale(a) ==
  \/ pc[a] \in {"get", "confirm", "revert"}
  \/ finish[a] /\ pc[a] \in {"prepare", "store"}

\* What attempt a has established about its booking so far, and which stays
\* true whatever others do to the booking meanwhile.
AttemptOK(a) ==
  /\ pc[a] = "idle" => answer[a] = "none"
  /\ pc[a] # "idle" => bk[a] \in Bookings /\ status[bk[a]] # "none"
  /\ pc[a] \in {"idle", "find", "release", "extend", "complete", "reread"} => ~finish[a]
  /\ pc[a] = "store" => intent[bk[a]] # "none"
  /\ pc[a] = "complete" /\ status[bk[a]] = "reserved" => paymentIntentID[bk[a]] = "set"
  /\ PastSale(a) => status[bk[a]] \in {"purchased", "cancelled"}
  /\ pc[a] \in {"prepare", "store", "complete"} =>
       /\ status[bk[a]] = "reserved" => granted[a] <= expiresAt[bk[a]]
       /\ status[bk[a]] = "expired" => granted[a] <= now
  /\ answer[a] = "ok" => intent[bk[a]] = "succeeded"

\* An attempt that sold b, or found it sold, and has not finished with it; or
\* that was abandoned.  One that only finishes another's payment does not
\* count: when it fails it leaves the booking as it is.
InHand(a, b) ==
  /\ bk[a] = b
  /\ (~finish[a] /\ pc[a] \in {"get", "confirm", "revert"}) \/ Abandoned(a, b)

BookingOK(b) ==
  /\ paymentIntentID[b] = "set" => intent[b] # "none"
  /\ status[b] = "purchased" => paymentIntentID[b] = "set"
  /\ intent[b] = "succeeded" => status[b] \in {"purchased", "cancelled"}
  /\ status[b] = "purchased" /\ intent[b] # "succeeded" =>
       \E a \in Attempts : InHand(a, b)

Inv ==
  /\ TypeOK
  /\ \A a \in Attempts : AttemptOK(a)
  /\ \A b \in Bookings : BookingOK(b)

------------------------------------------------------------------------------
(* What the writes of the repository leave of a booking.                   *)

\* No step takes a booking back: a sale is only ever reverted, a deadline of a
\* reserved booking only moved later, and Stripe's intents only move forward.
Progress(b) ==
  /\ status[b] # "none" => status'[b] # "none"
  /\ status[b] \in {"purchased", "cancelled"} => status'[b] \in {"purchased", "cancelled"}
  /\ (status[b] # "none" /\ status'[b] = "reserved") =>
       /\ status[b] = "reserved"
       /\ expiresAt[b] <= expiresAt'[b]
       /\ paymentIntentID[b] = "set" => paymentIntentID'[b] = "set"
  /\ status'[b] = "expired" =>
       status[b] = "expired" \/ (status[b] = "reserved" /\ expiresAt[b] <= now)
  /\ intent[b] # "none" => intent'[b] # "none"
  /\ intent[b] = "succeeded" => intent'[b] = "succeeded"

\* Each write is progress of the booking it is for, and leaves others alone.
LEMMA InsertProgress ==
  ASSUME RowsTypeOK, NEW b \in Bookings, NEW s \in Seats, NEW until \in Int,
         status[b] = "none", InsertReservation(b, s, until), UNCHANGED intent
  PROVE  \A c \in Bookings : Progress(c)
BY DEF RowsTypeOK, InsertReservation, Progress

\* PurchaseBooking sells a booking only from reserved, once its intent is stored.
LEMMA PurchaseProgress ==
  ASSUME RowsTypeOK, NEW b \in Bookings, status[b] = "reserved",
         WritePurchase(b), UNCHANGED intent
  PROVE  \A c \in Bookings : Progress(c)
BY DEF RowsTypeOK, WritePurchase, Progress

\* RevertFailedPurchase cancels a sale and touches no other booking.
LEMMA RevertProgress ==
  ASSUME RowsTypeOK, NEW b \in Bookings, status[b] = "purchased",
         WriteRevert(b), UNCHANGED intent
  PROVE  \A c \in Bookings : Progress(c)
BY DEF RowsTypeOK, WriteRevert, Progress

\* ExtendReservation moves a deadline later, never earlier.
LEMMA ExtensionProgress ==
  ASSUME RowsTypeOK, NEW b \in Bookings, NEW until \in Int, status[b] = "reserved",
         WriteExtension(b, until), UNCHANGED intent
  PROVE  \A c \in Bookings : Progress(c)
BY DEF RowsTypeOK, WriteExtension, Progress

\* A release ends a reservation; as an expiry only when it is due.
LEMMA ReleaseProgress ==
  ASSUME RowsTypeOK, NEW b \in Bookings, NEW f \in {"cancelled", "expired"},
         status[b] = "reserved", f = "expired" => expiresAt[b] <= now,
         WriteRelease(b, f), UNCHANGED intent
  PROVE  \A c \in Bookings : Progress(c)
BY DEF RowsTypeOK, WriteRelease, Progress

\* SetPaymentIntentID writes the column and leaves the status alone.
LEMMA StoreProgress ==
  ASSUME RowsTypeOK, NEW b \in Bookings, WritePaymentIntent(b), UNCHANGED intent
  PROVE  \A c \in Bookings : Progress(c)
BY DEF RowsTypeOK, WritePaymentIntent, Progress

\* Stripe's intents move forward while the rows stay as they are.
LEMMA IntentProgress ==
  ASSUME RowsTypeOK, UNCHANGED rows,
         \A c \in Bookings : /\ intent[c] # "none" => intent'[c] # "none"
                             /\ intent[c] = "succeeded" => intent'[c] = "succeeded"
  PROVE  \A c \in Bookings : Progress(c)
BY DEF RowsTypeOK, Progress, rows

------------------------------------------------------------------------------
(* What a step has to show.                                                *)

\* An attempt that does not move keeps what it has established.
LEMMA OthersKeepAttempts ==
  ASSUME TypeOK, NEW a \in Attempts, AttemptOK(a),
         \A b \in Bookings : Progress(b),
         now \in Nat, now' \in Nat, now <= now',
         pc'[a] = pc[a], bk'[a] = bk[a], finish'[a] = finish[a],
         granted'[a] = granted[a], answer'[a] = answer[a], TypeOK'
  PROVE  AttemptOK(a)'
<1>1. CASE pc[a] = "idle"
  BY <1>1 DEF AttemptOK, PastSale
<1>2. CASE pc[a] # "idle"
  <2>1. bk[a] \in Bookings /\ status[bk[a]] # "none" /\ Progress(bk[a])
    BY <1>2 DEF AttemptOK
  <2>2. pc[a] \in {"prepare", "store", "complete"} =>
          /\ status'[bk[a]] = "reserved" => granted[a] <= expiresAt'[bk[a]]
          /\ status'[bk[a]] = "expired" => granted[a] <= now'
    BY <2>1 DEF AttemptOK, Progress, TypeOK, RowsTypeOK
  <2>3. PastSale(a) => status'[bk[a]] \in {"purchased", "cancelled"}
    BY <2>1 DEF AttemptOK, Progress
  <2>4. /\ status'[bk[a]] # "none"
        /\ pc[a] = "store" => intent'[bk[a]] # "none"
        /\ answer[a] = "ok" => intent'[bk[a]] = "succeeded"
        /\ (pc[a] = "complete" /\ status'[bk[a]] = "reserved") => paymentIntentID'[bk[a]] = "set"
    BY <2>1 DEF AttemptOK, Progress
  <2>. QED
    BY <1>2, <2>1, <2>2, <2>3, <2>4 DEF AttemptOK, PastSale
<1>. QED
  BY <1>1, <1>2

\* A step that leaves the attempts alone.
LEMMA StepOfOthers ==
  ASSUME Inv, TypeOK', UNCHANGED attempt, now <= now',
         \A b \in Bookings : Progress(b),
         \A b \in Bookings : BookingOK(b)'
  PROVE  Inv'
<1>1. now \in Nat /\ now' \in Nat
  BY DEF Inv, TypeOK
<1>2. ASSUME NEW a \in Attempts PROVE AttemptOK(a)'
  BY <1>1, OthersKeepAttempts DEF Inv, attempt
<1>. QED
  BY <1>2 DEF Inv

\* A step of attempt a.
Only(a) ==
  \A c \in Attempts \ {a} :
    /\ pc'[c] = pc[c] /\ bk'[c] = bk[c] /\ finish'[c] = finish[c]
    /\ granted'[c] = granted[c] /\ answer'[c] = answer[c]

\* A step of attempt a, which must establish what a claims in its new place.
LEMMA StepOfAttempt ==
  ASSUME Inv, TypeOK', NEW a \in Attempts, Only(a), UNCHANGED now,
         \A b \in Bookings : Progress(b),
         AttemptOK(a)',
         \A b \in Bookings : BookingOK(b)'
  PROVE  Inv'
<1>1. now \in Nat /\ now' \in Nat /\ now <= now'
  BY DEF Inv, TypeOK
<1>2. ASSUME NEW c \in Attempts, c # a PROVE AttemptOK(c)'
  BY <1>1, <1>2, OthersKeepAttempts DEF Inv, Only
<1>. QED
  BY <1>2 DEF Inv

\* Bookings stay in order while nothing changes but the state of attempt a,
\* which does not let go of a booking that is sold and not paid for.
LEMMA BookingsUntouched ==
  ASSUME Inv, NEW a \in Attempts, Only(a), UNCHANGED <<rows, intent>>,
         \A b \in Bookings :
           (InHand(a, b) /\ status[b] = "purchased" /\ intent[b] # "succeeded") =>
              InHand(a, b)'
  PROVE  \A b \in Bookings : BookingOK(b)'
<1>. SUFFICES ASSUME NEW b \in Bookings PROVE BookingOK(b)'
  OBVIOUS
<1>1. BookingOK(b)
  BY DEF Inv
<1>2. ASSUME NEW c \in Attempts, InHand(c, b), c # a PROVE InHand(c, b)'
  BY <1>2 DEF InHand, Abandoned, Only
<1>3. (status[b] = "purchased" /\ intent[b] # "succeeded") =>
         \E c \in Attempts : InHand(c, b)'
  BY <1>1, <1>2 DEF BookingOK
<1>. QED
  BY <1>1, <1>3 DEF BookingOK, rows

------------------------------------------------------------------------------
(* The initial states, and the steps of others.                            *)

\* No attempt has started and no booking is sold.
LEMMA InvInit == Init => Inv
<1>. SUFFICES ASSUME Init PROVE Inv
  OBVIOUS
<1>2. RowsTypeOK
  BY InitRowsInv DEF Init, RowsInv
<1>3. TypeOK
  BY <1>2 DEF Init, TypeOK, PC, Null
<1>4. ASSUME NEW a \in Attempts PROVE AttemptOK(a)
  BY DEF Init, AttemptOK, PastSale
<1>5. ASSUME NEW b \in Bookings PROVE BookingOK(b)
  BY DEF Init, InitRows, BookingOK
<1>. QED
  BY <1>3, <1>4, <1>5 DEF Inv

\* Another step than one of an attempt keeps the invariant when it makes
\* progress and sells nothing.
LEMMA OtherTypes ==
  ASSUME TypeOK, RowsTypeOK', now' \in Nat, UNCHANGED <<intent, attempt>>
  PROVE  TypeOK'
BY DEF TypeOK, attempt

\* A reservation makes a new booking, which no attempt has in its hands.
LEMMA ReserveKeepsInv ==
  ASSUME Inv, NEW b \in Bookings, NEW s \in Seats, ReserveSeat(b, s)
  PROVE  Inv'
<1>1. TypeOK /\ RowsTypeOK
  BY DEF Inv, TypeOK
<1>2. now + ReservationTimeout \in Int
  BY <1>1, StoreAssumption DEF TypeOK
<1>3. /\ status[b] = "none" /\ InsertReservation(b, s, now + ReservationTimeout)
      /\ UNCHANGED <<now, intent, attempt>>
  BY DEF ReserveSeat, Reserve
<1>4. TypeOK'
  BY <1>1, <1>2, <1>3, WritesType, OtherTypes DEF TypeOK
<1>5. \A c \in Bookings : Progress(c)
  BY <1>1, <1>2, <1>3, InsertProgress
<1>6. ASSUME NEW c \in Bookings PROVE BookingOK(c)'
  <2>1. BookingOK(c)
    BY DEF Inv
  <2>2. UNCHANGED paymentIntentID /\ (c # b => status'[c] = status[c])
    BY <1>1, <1>3 DEF InsertReservation, RowsTypeOK
  <2>3. c = b => status'[c] = "reserved"
    BY <1>1, <1>3 DEF InsertReservation, RowsTypeOK
  <2>4. UNCHANGED <<intent, attempt>>
    BY <1>3
  <2>. QED
    BY <1>3, <2>1, <2>2, <2>3, <2>4 DEF BookingOK, InHand, Abandoned, attempt
<1>. QED
  BY <1>1, <1>3, <1>4, <1>5, <1>6, StepOfOthers DEF TypeOK

\* A cancellation or an expiry takes back what is reserved, never what is sold.
LEMMA ReleaseKeepsInv ==
  ASSUME Inv, NEW b \in Bookings, CancelBooking(b) \/ ReleaseExpiredBooking(b)
  PROVE  Inv'
<1>1. TypeOK /\ RowsTypeOK
  BY DEF Inv, TypeOK
<1>2. UNCHANGED <<now, intent, attempt>>
  BY DEF CancelBooking, ReleaseExpiredBooking
<1>3. PICK f \in {"cancelled", "expired"} :
        /\ status[b] = "reserved" /\ WriteRelease(b, f)
        /\ f = "expired" => expiresAt[b] <= now
  BY DEF CancelBooking, ReleaseExpiredBooking, Cancel, Expire, Admits
<1>4. TypeOK'
  BY <1>1, <1>2, <1>3, WritesType, OtherTypes DEF TypeOK
<1>5. \A c \in Bookings : Progress(c)
  BY <1>1, <1>2, <1>3, ReleaseProgress
<1>6. ASSUME NEW c \in Bookings PROVE BookingOK(c)'
  <2>1. BookingOK(c)
    BY DEF Inv
  <2>2. UNCHANGED paymentIntentID /\ (c # b => status'[c] = status[c])
    BY <1>1, <1>3 DEF WriteRelease, RowsTypeOK
  <2>3. c = b => status'[c] = f
    BY <1>1, <1>3 DEF WriteRelease, RowsTypeOK
  <2>. QED
    BY <1>2, <1>3, <2>1, <2>2, <2>3 DEF BookingOK, InHand, Abandoned, attempt
<1>. QED
  BY <1>1, <1>2, <1>4, <1>5, <1>6, StepOfOthers DEF TypeOK

\* Time passes and nothing is written.
LEMMA TickKeepsInv ==
  ASSUME Inv, Tick
  PROVE  Inv'
<1>1. TypeOK /\ RowsTypeOK
  BY DEF Inv, TypeOK
<1>2. now <= now' /\ now' \in Nat /\ UNCHANGED <<rows, intent, attempt>>
  BY <1>1 DEF Tick, TypeOK
<1>3. TypeOK'
  BY <1>1, <1>2, OtherTypes DEF RowsTypeOK, rows
<1>4. \A c \in Bookings : Progress(c)
  BY <1>1, <1>2, IntentProgress
<1>5. ASSUME NEW c \in Bookings PROVE BookingOK(c)'
  BY <1>2 DEF Inv, BookingOK, InHand, Abandoned, attempt, rows
<1>. QED
  BY <1>2, <1>3, <1>4, <1>5, StepOfOthers

------------------------------------------------------------------------------
(* The steps of an attempt: what they have in common.                      *)

\* Attempt a makes call p next, and has answered r.
Moved(a, p, r) ==
  /\ pc' \in [Attempts -> PC]
  /\ since' \in [Attempts -> Nat]
  /\ answer' \in [Attempts -> {"none", "ok", "error", "critical"}]
  /\ pc'[a] = p /\ answer'[a] = r
  /\ \A c \in Attempts \ {a} : pc'[c] = pc[c] /\ answer'[c] = answer[c]

\* An attempt moves when it goes on to its next call, ...
LEMMA GoesOn ==
  ASSUME TypeOK, NEW a \in Attempts, NEW p \in PC, Goto(a, p), UNCHANGED answer
  PROVE  Moved(a, p, answer[a])
<1>1. pc \in [Attempts -> PC] /\ since \in [Attempts -> Nat] /\ now \in Nat
  BY DEF TypeOK
<1>2. answer \in [Attempts -> {"none", "ok", "error", "critical"}]
  BY DEF TypeOK
<1>. QED
  BY <1>1, <1>2 DEF Goto, Moved

\* ... and when it returns.
LEMMA Returns ==
  ASSUME TypeOK, NEW a \in Attempts, NEW r \in {"none", "ok", "error", "critical"},
         Return(a, r)
  PROVE  Moved(a, "done", r)
<1>1. pc \in [Attempts -> PC] /\ since \in [Attempts -> Nat] /\ "done" \in PC
  BY DEF TypeOK, PC
<1>2. answer \in [Attempts -> {"none", "ok", "error", "critical"}]
  BY DEF TypeOK
<1>. QED
  BY <1>1, <1>2 DEF Return, Moved

\* The types of the variables that a step may change beside pc.
LEMMA AttemptTypes ==
  ASSUME TypeOK, RowsTypeOK', NEW a \in Attempts, NEW p, NEW r, Moved(a, p, r),
         UNCHANGED now,
         intent' \in [Bookings -> {"none", "requires_confirmation", "succeeded"}],
         bk' \in [Attempts -> Bookings \cup {NoBooking}],
         known' \in [Attempts -> BOOLEAN],
         finish' \in [Attempts -> BOOLEAN],
         granted' \in [Attempts -> Int]
  PROVE  TypeOK'
BY DEF TypeOK, Moved

\* An attempt that has returned has nothing more to keep than its answer.
LEMMA ReturnOK ==
  ASSUME NEW a \in Attempts, AttemptOK(a), pc[a] # "idle", pc'[a] = "done",
         bk'[a] = bk[a], \A b \in Bookings : Progress(b),
         answer'[a] = "ok" => intent'[bk[a]] = "succeeded"
  PROVE  AttemptOK(a)'
<1>1. bk[a] \in Bookings /\ status[bk[a]] # "none"
  BY DEF AttemptOK
<1>2. status'[bk[a]] # "none"
  BY <1>1 DEF Progress
<1>. QED
  BY <1>1, <1>2 DEF AttemptOK, PastSale

\* Hands that other attempts have on a booking stay there.
LEMMA OthersHands ==
  ASSUME NEW a \in Attempts, Only(a), NEW b, NEW c \in Attempts \ {a}, InHand(c, b)
  PROVE  InHand(c, b)'
BY DEF InHand, Abandoned, Only

\* A booking that was sold and not paid for is in the hands of someone else
\* than an attempt that has not come so far.
LEMMA StillInHand ==
  ASSUME Inv, NEW a \in Attempts, Only(a), pc[a] \notin {"get", "confirm", "revert", "done"},
         NEW b \in Bookings, status[b] = "purchased", intent[b] # "succeeded"
  PROVE  \E c \in Attempts : InHand(c, b)'
<1>1. PICK c \in Attempts : InHand(c, b)
  BY DEF Inv, BookingOK
<1>2. c # a
  BY <1>1 DEF InHand, Abandoned
<1>. QED
  BY <1>1, <1>2, OthersHands

\* A step that only moves attempt a on.
LEMMA MoveKeepsInv ==
  ASSUME Inv, NEW a \in Attempts, NEW p, NEW r, Moved(a, p, r),
         UNCHANGED <<rows, now, intent, bk, granted>>,
         known' \in [Attempts -> BOOLEAN],
         finish' \in [Attempts -> BOOLEAN],
         \A c \in Attempts \ {a} : finish'[c] = finish[c],
         AttemptOK(a)',
         \A b \in Bookings :
           (InHand(a, b) /\ status[b] = "purchased" /\ intent[b] # "succeeded") =>
              InHand(a, b)'
  PROVE  Inv'
<1>1. TypeOK /\ RowsTypeOK
  BY DEF Inv, TypeOK
<1>2. RowsTypeOK'
  BY <1>1 DEF RowsTypeOK, rows
<1>3. TypeOK'
  BY <1>1, <1>2, AttemptTypes DEF TypeOK
<1>4. Only(a)
  BY DEF Only, Moved
<1>5. \A b \in Bookings : Progress(b)
  BY <1>1, IntentProgress
<1>6. \A b \in Bookings : BookingOK(b)'
  BY <1>4, BookingsUntouched
<1>. QED
  BY <1>3, <1>4, <1>5, <1>6, StepOfAttempt

------------------------------------------------------------------------------
(* One lemma per step.                                                     *)

\* The first step of an attempt.
LEMMA PurchaseBookingKeepsInv ==
  ASSUME Inv, NEW a \in Attempts, NEW b \in Bookings, PurchaseBooking(a, b)
  PROVE  Inv'
<1>1. TypeOK /\ RowsTypeOK /\ AttemptOK(a)
  BY DEF Inv, TypeOK
<1>2. /\ pc[a] = "idle" /\ status[b] # "none" /\ bk' = [bk EXCEPT ![a] = b]
      /\ UNCHANGED <<rows, now, intent, known, finish, granted>>
  BY DEF PurchaseBooking
<1>3. Moved(a, "find", answer[a])
  BY <1>1, GoesOn DEF PurchaseBooking, PC
<1>4. RowsTypeOK'
  BY <1>1, <1>2 DEF RowsTypeOK, rows
<1>5. bk' \in [Attempts -> Bookings \cup {NoBooking}] /\ bk'[a] = b
  BY <1>1, <1>2 DEF TypeOK
<1>6. TypeOK'
  BY <1>1, <1>2, <1>3, <1>4, <1>5, AttemptTypes DEF TypeOK
<1>7. Only(a)
  BY <1>1, <1>2, <1>3 DEF Only, Moved, TypeOK
<1>8. \A c \in Bookings : Progress(c)
  BY <1>1, <1>2, IntentProgress
<1>9. AttemptOK(a)'
  BY <1>1, <1>2, <1>3, <1>5 DEF AttemptOK, PastSale, Moved, rows
<1>10. \A c \in Bookings : BookingOK(c)'
  BY <1>2, <1>7, BookingsUntouched DEF InHand, Abandoned
<1>. QED
  BY <1>2, <1>6, <1>7, <1>8, <1>9, <1>10, StepOfAttempt

\* The attempt reads the booking.
LEMMA FindByIDKeepsInv ==
  ASSUME Inv, NEW a \in Attempts, FindByID(a)
  PROVE  Inv'
<1>1. TypeOK /\ AttemptOK(a)
  BY DEF Inv
<1>2. pc[a] = "find" /\ UNCHANGED <<rows, now, intent, bk, known, finish, granted>>
  BY DEF FindByID
<1>3. PICK p \in {"done", "release", "extend"}, r \in {"error", answer[a]} : Moved(a, p, r)
  BY <1>1, GoesOn, Returns DEF FindByID, PC
<1>4. AttemptOK(a)'
  BY <1>1, <1>2, <1>3 DEF AttemptOK, PastSale, Moved, rows
<1>. QED
  BY <1>1, <1>2, <1>3, <1>4, MoveKeepsInv DEF TypeOK, InHand, Abandoned

\* It releases what it finds overdue, ...
LEMMA ReleaseOverdueKeepsInv ==
  ASSUME Inv, NEW a \in Attempts, ReleaseOverdue(a)
  PROVE  Inv'
<1>1. TypeOK /\ RowsTypeOK /\ AttemptOK(a)
  BY DEF Inv, TypeOK
<1>2. pc[a] = "release" /\ UNCHANGED <<now, intent, bk, known, finish, granted>>
  BY DEF ReleaseOverdue
<1>3. bk[a] \in Bookings
  BY <1>1, <1>2 DEF AttemptOK
<1>4. Moved(a, "done", "error")
  BY <1>1, Returns DEF ReleaseOverdue
<1>5. \/ UNCHANGED rows
      \/ /\ status[bk[a]] = "reserved" /\ expiresAt[bk[a]] <= now
         /\ WriteRelease(bk[a], "expired")
  BY DEF ReleaseOverdue, Admits
<1>6. RowsTypeOK'
  BY <1>1, <1>3, <1>5, WritesType
<1>7. TypeOK'
  BY <1>1, <1>2, <1>4, <1>6, AttemptTypes DEF TypeOK
<1>8. Only(a)
  BY <1>2, <1>4 DEF Only, Moved
<1>9. \A c \in Bookings : Progress(c)
  BY <1>1, <1>2, <1>3, <1>5, ReleaseProgress, IntentProgress
<1>10. AttemptOK(a)'
  BY <1>1, <1>2, <1>4, <1>9, ReturnOK DEF Moved
<1>11. ASSUME NEW c \in Bookings PROVE BookingOK(c)'
  <2>1. BookingOK(c)
    BY DEF Inv
  <2>2. paymentIntentID' = paymentIntentID
    BY <1>5 DEF WriteRelease, rows
  <2>3. status'[c] = status[c] \/ (status[c] = "reserved" /\ status'[c] = "expired")
    BY <1>1, <1>3, <1>5 DEF WriteRelease, RowsTypeOK, rows
  <2>4. status[c] = "purchased" /\ intent[c] # "succeeded" =>
          \E d \in Attempts : InHand(d, c)'
    BY <1>2, <1>8, StillInHand
  <2>. QED
    BY <1>2, <2>1, <2>2, <2>3, <2>4 DEF BookingOK
<1>. QED
  BY <1>2, <1>7, <1>8, <1>9, <1>10, <1>11, StepOfAttempt

\* ... or extends the reservation for the time of the payment.
LEMMA ExtendReservationKeepsInv ==
  ASSUME Inv, NEW a \in Attempts, ExtendReservation(a)
  PROVE  Inv'
<1>1. TypeOK /\ RowsTypeOK /\ AttemptOK(a)
  BY DEF Inv, TypeOK
<1>2. pc[a] = "extend" /\ UNCHANGED <<now, intent, bk, finish>>
  BY DEF ExtendReservation
<1>3. CASE UNCHANGED <<rows, granted, known>> /\ Return(a, "error")
  <2>1. Moved(a, "done", "error")
    BY <1>1, <1>3, Returns
  <2>2. AttemptOK(a)'
    BY <1>1, <1>2, <1>3, <2>1 DEF AttemptOK, PastSale, Moved, rows
  <2>. QED
    BY <1>1, <1>2, <1>3, <2>1, <2>2, MoveKeepsInv DEF TypeOK, InHand, Abandoned
<1>4. ASSUME /\ status[bk[a]] = "reserved"
             /\ WriteExtension(bk[a], now + PurchaseExtension)
             /\ granted' = [granted EXCEPT ![a] = expiresAt'[bk[a]]]
             /\ known' = [known EXCEPT ![a] = paymentIntentID[bk[a]] = "set"]
             /\ Goto(a, AfterExtend(a)) /\ UNCHANGED answer
      PROVE  Inv'
  <2>0. bk[a] \in Bookings /\ ~finish[a]
    BY <1>1, <1>2 DEF AttemptOK
  <2>1. PICK p \in {"complete", "prepare"} :
          /\ p = "complete" => paymentIntentID[bk[a]] = "set"
          /\ Goto(a, p)
    BY <1>4 DEF AfterExtend
  <2>2. Moved(a, p, answer[a])
    BY <1>1, <1>4, <2>1, GoesOn DEF PC
  <2>3. now + PurchaseExtension \in Int
    BY <1>1, StoreAssumption DEF TypeOK
  <2>4. RowsTypeOK'
    BY <1>1, <1>4, <2>0, <2>3, WritesType
  <2>5. expiresAt'[bk[a]] \in Int
    BY <2>0, <2>4 DEF RowsTypeOK
  <2>6. granted' \in [Attempts -> Int] /\ granted'[a] = expiresAt'[bk[a]]
    BY <1>1, <1>4, <2>5 DEF TypeOK
  <2>7. known' \in [Attempts -> BOOLEAN]
    BY <1>1, <1>4 DEF TypeOK
  <2>8. TypeOK'
    BY <1>1, <1>2, <2>2, <2>4, <2>6, <2>7, AttemptTypes DEF TypeOK
  <2>9. Only(a)
    BY <1>1, <1>2, <1>4, <2>2 DEF Only, Moved, TypeOK
  <2>10. \A c \in Bookings : Progress(c)
    BY <1>1, <1>2, <1>4, <2>0, <2>3, ExtensionProgress
  <2>11. UNCHANGED <<status, paymentIntentID>>
    BY <1>4 DEF WriteExtension
  <2>12. AttemptOK(a)'
    BY <1>1, <1>2, <1>4, <2>0, <2>1, <2>2, <2>5, <2>6, <2>11 DEF AttemptOK, PastSale, Moved
  <2>13. ASSUME NEW c \in Bookings PROVE BookingOK(c)'
    <3>1. BookingOK(c)
      BY DEF Inv
    <3>2. status[c] = "purchased" /\ intent[c] # "succeeded" =>
            \E d \in Attempts : InHand(d, c)'
      BY <1>2, <2>9, StillInHand
    <3>. QED
      BY <1>2, <2>11, <3>1, <3>2 DEF BookingOK
  <2>. QED
    BY <1>2, <2>8, <2>9, <2>10, <2>12, <2>13, StepOfAttempt
<1>. QED
  BY <1>3, <1>4 DEF ExtendReservation, Extend, Admits

\* Stripe makes an intent, or hands out the one stored.
LEMMA PreparePaymentIntentKeepsInv ==
  ASSUME Inv, NEW a \in Attempts, PreparePaymentIntent(a)
  PROVE  Inv'
<1>1. TypeOK /\ RowsTypeOK /\ AttemptOK(a)
  BY DEF Inv, TypeOK
<1>2. pc[a] = "prepare" /\ UNCHANGED <<rows, now, bk, known, finish, granted, answer>>
  BY DEF PreparePaymentIntent
<1>3. Moved(a, "store", answer[a])
  BY <1>1, GoesOn DEF PreparePaymentIntent, PC
<1>4. bk[a] \in Bookings
  BY <1>1, <1>2 DEF AttemptOK
<1>5. /\ intent' \in [Bookings -> {"none", "requires_confirmation", "succeeded"}]
      /\ intent'[bk[a]] # "none"
      /\ \A c \in Bookings : /\ intent[c] # "none" => intent'[c] = intent[c]
                             /\ intent'[c] = "succeeded" => intent[c] = "succeeded"
  BY <1>1, <1>4 DEF PreparePaymentIntent, TypeOK
<1>6. RowsTypeOK'
  BY <1>1, <1>2 DEF RowsTypeOK, rows
<1>7. TypeOK'
  BY <1>1, <1>2, <1>3, <1>5, <1>6, AttemptTypes DEF TypeOK
<1>8. Only(a)
  BY <1>2, <1>3 DEF Only, Moved
<1>9. \A c \in Bookings : Progress(c)
  BY <1>1, <1>2, <1>5, IntentProgress
<1>10. AttemptOK(a)'
  BY <1>1, <1>2, <1>3, <1>4, <1>5 DEF AttemptOK, PastSale, Moved, rows
<1>11. ASSUME NEW c \in Bookings PROVE BookingOK(c)'
  <2>1. BookingOK(c)
    BY DEF Inv
  <2>2. status[c] = "purchased" /\ intent[c] # "succeeded" =>
          \E d \in Attempts : InHand(d, c)'
    BY <1>2, <1>8, StillInHand
  <2>. QED
    BY <1>2, <1>5, <2>1, <2>2 DEF BookingOK, rows
<1>. QED
  BY <1>2, <1>7, <1>8, <1>9, <1>10, <1>11, StepOfAttempt

\* The intent is stored with the booking before it is sold.
LEMMA SetPaymentIntentIDKeepsInv ==
  ASSUME Inv, NEW a \in Attempts, SetPaymentIntentID(a)
  PROVE  Inv'
<1>1. TypeOK /\ RowsTypeOK /\ AttemptOK(a)
  BY DEF Inv, TypeOK
<1>2. pc[a] = "store" /\ UNCHANGED <<now, intent, bk, finish, granted>>
  BY DEF SetPaymentIntentID
<1>3. bk[a] \in Bookings /\ intent[bk[a]] # "none"
  BY <1>1, <1>2 DEF AttemptOK
<1>4. UNCHANGED rows \/ WritePaymentIntent(bk[a])
  BY DEF SetPaymentIntentID
<1>5. RowsTypeOK'
  BY <1>1, <1>3, <1>4, WritesType
<1>6. /\ UNCHANGED <<status, expiresAt>>
      /\ \A c \in Bookings : c # bk[a] => paymentIntentID'[c] = paymentIntentID[c]
  BY <1>1, <1>4 DEF WritePaymentIntent, rows, RowsTypeOK
<1>7. \A c \in Bookings : Progress(c)
  BY <1>1, <1>2, <1>3, <1>4, StoreProgress, IntentProgress
<1>8. PICK p \in {"get", "complete", "done"}, r \in {"error", answer[a]} :
        /\ Moved(a, p, r)
        /\ p = "get" => finish[a]
        /\ p = "complete" => ~finish[a]
        /\ p # "done" => paymentIntentID'[bk[a]] = "set"
  <2>1. CASE /\ paymentIntentID'[bk[a]] = "set"
             /\ Goto(a, AfterStore(a)) /\ UNCHANGED answer
    BY <1>1, <2>1, GoesOn DEF AfterStore, PC
  <2>2. CASE Return(a, "error")
    BY <1>1, <2>2, Returns
  <2>. QED
    BY <2>1, <2>2 DEF SetPaymentIntentID
<1>9. known' \in [Attempts -> BOOLEAN]
  BY <1>1 DEF SetPaymentIntentID, TypeOK
<1>10. TypeOK'
  BY <1>1, <1>2, <1>5, <1>8, <1>9, AttemptTypes DEF TypeOK
<1>11. Only(a)
  BY <1>2, <1>8 DEF Only, Moved
<1>12. AttemptOK(a)'
  <2>1. CASE p = "done"
    BY <1>1, <1>2, <1>7, <1>8, <2>1, ReturnOK DEF Moved, AttemptOK
  <2>2. CASE p # "done"
    BY <1>1, <1>2, <1>3, <1>6, <1>8, <2>2 DEF AttemptOK, PastSale, Moved
  <2>. QED
    BY <2>1, <2>2
<1>13. ASSUME NEW c \in Bookings PROVE BookingOK(c)'
  <2>1. BookingOK(c)
    BY DEF Inv
  <2>2. status[c] = "purchased" /\ intent[c] # "succeeded" =>
          \E d \in Attempts : InHand(d, c)'
    BY <1>2, <1>11, StillInHand
  <2>3. paymentIntentID[c] = "set" => paymentIntentID'[c] = "set"
    BY <1>1, <1>3, <1>4 DEF WritePaymentIntent, rows, RowsTypeOK
  <2>. QED
    BY <1>2, <1>3, <1>6, <2>1, <2>2, <2>3 DEF BookingOK
<1>. QED
  BY <1>2, <1>7, <1>10, <1>11, <1>12, <1>13, StepOfAttempt

\* The sale, from here on in the hands of the attempt.
LEMMA CompletePurchaseKeepsInv ==
  ASSUME Inv, NEW a \in Attempts, CompletePurchase(a)
  PROVE  Inv'
<1>1. TypeOK /\ RowsTypeOK /\ AttemptOK(a)
  BY DEF Inv, TypeOK
<1>2. pc[a] = "complete" /\ UNCHANGED <<now, intent, bk, finish, granted>>
  BY DEF CompletePurchase
<1>3. bk[a] \in Bookings /\ ~finish[a]
  BY <1>1, <1>2 DEF AttemptOK
<1>4. known' \in [Attempts -> BOOLEAN]
  BY <1>1 DEF CompletePurchase, TypeOK
<1>5. CASE status[bk[a]] = "purchased" /\ Goto(a, "get") /\ UNCHANGED <<rows, answer>>
  <2>1. Moved(a, "get", answer[a])
    BY <1>1, <1>5, GoesOn DEF PC
  <2>2. AttemptOK(a)'
    BY <1>1, <1>2, <1>5, <2>1 DEF AttemptOK, PastSale, Moved, rows
  <2>. QED
    BY <1>1, <1>2, <1>4, <1>5, <2>1, <2>2, MoveKeepsInv DEF TypeOK, InHand, Abandoned
<1>6. CASE /\ status[bk[a]] = "reserved" /\ WritePurchase(bk[a])
           /\ Goto(a, "get") /\ UNCHANGED answer
  <2>1. Moved(a, "get", answer[a])
    BY <1>1, <1>6, GoesOn DEF PC
  <2>2. RowsTypeOK'
    BY <1>1, <1>3, <1>6, WritesType
  <2>3. TypeOK'
    BY <1>1, <1>2, <1>4, <2>1, <2>2, AttemptTypes DEF TypeOK
  <2>4. Only(a)
    BY <1>2, <2>1 DEF Only, Moved
  <2>5. \A c \in Bookings : Progress(c)
    BY <1>1, <1>2, <1>3, <1>6, PurchaseProgress
  <2>6. /\ UNCHANGED paymentIntentID /\ status'[bk[a]] = "purchased"
        /\ \A c \in Bookings : c # bk[a] => status'[c] = status[c]
    BY <1>1, <1>3, <1>6 DEF WritePurchase, RowsTypeOK
  <2>7. AttemptOK(a)'
    BY <1>1, <1>2, <1>3, <2>1, <2>6 DEF AttemptOK, PastSale, Moved
  <2>8. ASSUME NEW c \in Bookings PROVE BookingOK(c)'
    <3>1. BookingOK(c)
      BY DEF Inv
    <3>2. CASE c = bk[a]
      <4>1. paymentIntentID[c] = "set"
        BY <1>1, <1>2, <1>6, <3>2 DEF AttemptOK
      <4>2. InHand(a, c)'
        BY <1>2, <1>3, <2>1, <3>2 DEF InHand, Moved
      <4>. QED
        BY <1>2, <2>6, <3>1, <3>2, <4>1, <4>2 DEF BookingOK
    <3>3. CASE c # bk[a]
      <4>1. status[c] = "purchased" /\ intent[c] # "succeeded" =>
              \E d \in Attempts : InHand(d, c)'
        BY <1>2, <2>4, StillInHand
      <4>. QED
        BY <1>2, <2>6, <3>1, <3>3, <4>1 DEF BookingOK
    <3>. QED
      BY <3>2, <3>3
  <2>. QED
    BY <1>2, <2>3, <2>4, <2>5, <2>7, <2>8, StepOfAttempt
<1>7. CASE UNCHANGED rows /\ (Return(a, "error") \/ (Goto(a, "reread") /\ UNCHANGED answer))
  <2>1. PICK p \in {"done", "reread"}, r \in {"error", answer[a]} : Moved(a, p, r)
    BY <1>1, <1>7, GoesOn, Returns DEF PC
  <2>2. AttemptOK(a)'
    BY <1>1, <1>2, <1>7, <2>1 DEF AttemptOK, PastSale, Moved, rows
  <2>. QED
    BY <1>1, <1>2, <1>4, <1>7, <2>1, <2>2, MoveKeepsInv DEF TypeOK, InHand, Abandoned
<1>. QED
  BY <1>5, <1>6, <1>7 DEF CompletePurchase, Purchase, Admits

\* The booking is read again after the sale.
LEMMA RereadKeepsInv ==
  ASSUME Inv, NEW a \in Attempts, Reread(a)
  PROVE  Inv'
<1>1. TypeOK /\ AttemptOK(a)
  BY DEF Inv
<1>2. pc[a] = "reread" /\ UNCHANGED <<rows, now, intent, bk, granted>>
  BY DEF Reread
<1>3. bk[a] \in Bookings /\ ~finish[a] /\ finish \in [Attempts -> BOOLEAN]
  BY <1>1, <1>2 DEF AttemptOK, TypeOK
<1>4. known' \in [Attempts -> BOOLEAN]
  BY <1>1 DEF Reread, TypeOK
<1>5. CASE /\ status[bk[a]] = "purchased" /\ finish' = [finish EXCEPT ![a] = TRUE]
           /\ Goto(a, IF paymentIntentID[bk[a]] = "set" THEN "get" ELSE "prepare")
           /\ UNCHANGED answer
  <2>1. PICK p \in {"get", "prepare"} : Moved(a, p, answer[a])
    BY <1>1, <1>5, GoesOn DEF PC
  <2>2. /\ finish' \in [Attempts -> BOOLEAN] /\ finish'[a]
        /\ \A c \in Attempts \ {a} : finish'[c] = finish[c]
    BY <1>3, <1>5
  <2>3. AttemptOK(a)'
    BY <1>1, <1>2, <1>5, <2>1, <2>2 DEF AttemptOK, PastSale, Moved, rows
  <2>. QED
    BY <1>2, <1>4, <2>1, <2>2, <2>3, MoveKeepsInv DEF InHand, Abandoned
<1>6. CASE Return(a, "error") /\ UNCHANGED finish
  <2>1. Moved(a, "done", "error")
    BY <1>1, <1>6, Returns
  <2>2. AttemptOK(a)'
    BY <1>1, <1>2, <1>6, <2>1 DEF AttemptOK, PastSale, Moved, rows
  <2>. QED
    BY <1>2, <1>3, <1>4, <1>6, <2>1, <2>2, MoveKeepsInv DEF InHand, Abandoned
<1>. QED
  BY <1>5, <1>6 DEF Reread

\* What follows a failed payment.
LEMMA PaymentFailedMoves ==
  ASSUME TypeOK, NEW a \in Attempts, PaymentFailed(a)
  PROVE  \/ finish[a] /\ Moved(a, "done", "error")
         \/ ~finish[a] /\ Moved(a, "revert", answer[a])
BY GoesOn, Returns DEF PaymentFailed, PC

\* The attempt asks Stripe for the state of the intent.
LEMMA GetPaymentIntentKeepsInv ==
  ASSUME Inv, NEW a \in Attempts, GetPaymentIntent(a)
  PROVE  Inv'
<1>1. TypeOK /\ AttemptOK(a)
  BY DEF Inv
<1>2. pc[a] = "get" /\ UNCHANGED <<rows, now, intent, bk, known, finish, granted>>
  BY DEF GetPaymentIntent
<1>3. PICK p \in {"done", "confirm", "revert"}, r \in {"ok", "error", answer[a]} :
        /\ Moved(a, p, r)
        /\ p = "done" /\ r = "ok" => intent[bk[a]] = "succeeded"
        /\ p = "done" => finish[a] \/ intent[bk[a]] = "succeeded"
        /\ p # "done" => r = answer[a]
  <2>1. CASE intent[bk[a]] = "succeeded" /\ Return(a, "ok")
    BY <1>1, <2>1, Returns
  <2>2. CASE Goto(a, "confirm") /\ UNCHANGED answer
    BY <1>1, <2>2, GoesOn DEF PC
  <2>3. CASE PaymentFailed(a)
    BY <1>1, <2>3, PaymentFailedMoves
  <2>. QED
    BY <2>1, <2>2, <2>3 DEF GetPaymentIntent
<1>4. AttemptOK(a)'
  BY <1>1, <1>2, <1>3 DEF AttemptOK, PastSale, Moved, rows
<1>5. ASSUME NEW b \in Bookings, InHand(a, b), intent[b] # "succeeded" PROVE InHand(a, b)'
  BY <1>2, <1>3, <1>5 DEF InHand, Abandoned, Moved
<1>. QED
  BY <1>1, <1>2, <1>3, <1>4, <1>5, MoveKeepsInv DEF TypeOK

\* The charge, which only a booking past its sale gets.
LEMMA ConfirmBookingPaymentKeepsInv ==
  ASSUME Inv, NEW a \in Attempts, ConfirmBookingPayment(a)
  PROVE  Inv'
<1>1. TypeOK /\ RowsTypeOK /\ AttemptOK(a)
  BY DEF Inv, TypeOK
<1>2. pc[a] = "confirm" /\ UNCHANGED <<rows, now, bk, known, finish, granted>>
  BY DEF ConfirmBookingPayment
<1>3. bk[a] \in Bookings /\ status[bk[a]] \in {"purchased", "cancelled"}
  BY <1>1, <1>2 DEF AttemptOK, PastSale
<1>4. PICK charged \in BOOLEAN, reply \in {"succeeded", "requires_action", "error"} :
        /\ Confirm(bk[a], charged, reply)
        /\ IF PaymentAccepted(reply) THEN Return(a, "ok") ELSE PaymentFailed(a)
  BY DEF ConfirmBookingPayment
<1>5. /\ intent' \in [Bookings -> {"none", "requires_confirmation", "succeeded"}]
      /\ \A c \in Bookings : c # bk[a] => intent'[c] = intent[c]
      /\ intent'[bk[a]] = "succeeded" \/ intent'[bk[a]] = intent[bk[a]]
      /\ charged => intent'[bk[a]] = "succeeded"
  BY <1>1, <1>3, <1>4 DEF Confirm, TypeOK
<1>6. reply = "succeeded" => charged
  BY <1>4 DEF Confirm
<1>7. PICK p \in {"done", "revert"}, r \in {"ok", "error", answer[a]} :
        /\ Moved(a, p, r)
        /\ p = "done" /\ r = "ok" => intent'[bk[a]] = "succeeded"
        /\ p = "done" => finish[a] \/ intent'[bk[a]] = "succeeded"
        /\ p # "done" => r = answer[a]
  <2>1. CASE reply = "succeeded" /\ Return(a, "ok")
    BY <1>1, <1>5, <1>6, <2>1, Returns
  <2>2. CASE PaymentFailed(a)
    BY <1>1, <2>2, PaymentFailedMoves
  <2>. QED
    BY <1>4, <2>1, <2>2 DEF PaymentAccepted
<1>8. RowsTypeOK'
  BY <1>1, <1>2 DEF RowsTypeOK, rows
<1>9. TypeOK'
  BY <1>1, <1>2, <1>5, <1>7, <1>8, AttemptTypes DEF TypeOK
<1>10. Only(a)
  BY <1>2, <1>7 DEF Only, Moved
<1>11. \A c \in Bookings : Progress(c)
  BY <1>1, <1>2, <1>5, IntentProgress
<1>12. AttemptOK(a)'
  BY <1>1, <1>2, <1>3, <1>5, <1>7 DEF AttemptOK, PastSale, Moved, rows
<1>13. ASSUME NEW c \in Bookings PROVE BookingOK(c)'
  <2>1. BookingOK(c)
    BY DEF Inv
  <2>2. ASSUME status[c] = "purchased", intent'[c] # "succeeded"
        PROVE  \E d \in Attempts : InHand(d, c)'
    <3>1. intent[c] # "succeeded"
      BY <1>3, <1>5, <2>2
    <3>2. PICK d \in Attempts : InHand(d, c)
      BY <2>1, <2>2, <3>1 DEF BookingOK
    <3>3. CASE d = a
      BY <1>2, <1>7, <2>2, <3>2, <3>3 DEF InHand, Abandoned, Moved
    <3>4. CASE d # a
      BY <1>10, <3>2, <3>4, OthersHands
    <3>. QED
      BY <3>3, <3>4
  <2>3. /\ intent[c] # "none" => intent'[c] # "none"
        /\ intent'[c] = "succeeded" => intent[c] = "succeeded" \/ c = bk[a]
    BY <1>5
  <2>. QED
    BY <1>2, <1>3, <2>1, <2>2, <2>3 DEF BookingOK, rows
<1>. QED
  BY <1>2, <1>9, <1>10, <1>11, <1>12, <1>13, StepOfAttempt

\* The revert, which fails or takes the sale back.
LEMMA RevertFailedPurchaseKeepsInv ==
  ASSUME Inv, NEW a \in Attempts, RevertFailedPurchase(a)
  PROVE  Inv'
<1>1. TypeOK /\ RowsTypeOK /\ AttemptOK(a)
  BY DEF Inv, TypeOK
<1>2. pc[a] = "revert" /\ UNCHANGED <<now, intent, bk, known, finish, granted>>
  BY DEF RevertFailedPurchase
<1>3. bk[a] \in Bookings
  BY <1>1, <1>2 DEF AttemptOK
<1>4. Moved(a, "done", "error")
  BY <1>1, Returns DEF RevertFailedPurchase
<1>5. \/ status[bk[a]] = "purchased" /\ WriteRevert(bk[a])
      \/ status[bk[a]] # "purchased" /\ UNCHANGED rows
  BY DEF RevertFailedPurchase, Admits
<1>6. RowsTypeOK'
  BY <1>1, <1>3, <1>5, WritesType
<1>7. TypeOK'
  BY <1>1, <1>2, <1>4, <1>6, AttemptTypes DEF TypeOK
<1>8. Only(a)
  BY <1>2, <1>4 DEF Only, Moved
<1>9. \A c \in Bookings : Progress(c)
  BY <1>1, <1>2, <1>3, <1>5, RevertProgress, IntentProgress
<1>10. AttemptOK(a)'
  BY <1>1, <1>2, <1>4, <1>9, ReturnOK DEF Moved
<1>11. ASSUME NEW c \in Bookings PROVE BookingOK(c)'
  <2>1. BookingOK(c)
    BY DEF Inv
  <2>2. CASE c = bk[a]
    <3>1. status'[c] # "purchased" /\ (paymentIntentID'[c] = "set" => paymentIntentID[c] = "set")
      BY <1>1, <1>3, <1>5, <2>2 DEF WriteRevert, RowsTypeOK, rows
    <3>2. intent[c] = "succeeded" => status'[c] \in {"purchased", "cancelled"}
      BY <1>9, <2>1 DEF BookingOK, Progress
    <3>. QED
      BY <1>2, <2>1, <3>1, <3>2 DEF BookingOK
  <2>3. CASE c # bk[a]
    <3>1. status'[c] = status[c] /\ paymentIntentID'[c] = paymentIntentID[c]
      BY <1>1, <1>5, <2>3 DEF WriteRevert, RowsTypeOK, rows
    <3>2. \A d \in Attempts : InHand(d, c) => InHand(d, c)'
      BY <1>8, <2>3, OthersHands DEF InHand
    <3>. QED
      BY <1>2, <2>1, <3>1, <3>2 DEF BookingOK
  <2>. QED
    BY <2>2, <2>3
<1>. QED
  BY <1>2, <1>7, <1>8, <1>9, <1>10, <1>11, StepOfAttempt

\* An attempt that fails on a call or dies leaves a booking it has sold
\* abandoned: only a revert can fail without one of these names for it.
LEMMA FailureKeepsInv ==
  ASSUME Inv, NEW a \in Attempts, CallFails(a) \/ Crash(a)
  PROVE  Inv'
<1>1. TypeOK /\ AttemptOK(a)
  BY DEF Inv
<1>2. /\ pc[a] \notin {"idle", "done"}
      /\ UNCHANGED <<rows, now, intent, bk, known, finish, granted>>
  BY DEF CallFails, Crash
<1>3. PICK r \in {"error", "critical", "none"} :
        /\ Moved(a, "done", r)
        /\ r = "error" => pc[a] \notin {"get", "confirm", "revert"}
  BY <1>1, Returns DEF CallFails, Crash
<1>4. AttemptOK(a)'
  BY <1>1, <1>2, <1>3 DEF AttemptOK, PastSale, Moved, rows
<1>5. ASSUME NEW b \in Bookings, InHand(a, b) PROVE InHand(a, b)'
  BY <1>2, <1>3, <1>5 DEF InHand, Abandoned, Moved
<1>. QED
  BY <1>1, <1>2, <1>3, <1>4, <1>5, MoveKeepsInv DEF TypeOK

\* Every step of the system keeps the invariant.
LEMMA NextKeepsInv ==
  ASSUME Inv, [Next]_vars
  PROVE  Inv'
<1>1. CASE UNCHANGED vars
  BY <1>1 DEF vars, attempt, rows, Inv, TypeOK, RowsTypeOK, AttemptOK, PastSale,
              BookingOK, InHand, Abandoned
<1>. QED
  BY <1>1, ReserveKeepsInv, ReleaseKeepsInv, TickKeepsInv, PurchaseBookingKeepsInv,
     FindByIDKeepsInv, ReleaseOverdueKeepsInv, ExtendReservationKeepsInv,
     PreparePaymentIntentKeepsInv, SetPaymentIntentIDKeepsInv,
     CompletePurchaseKeepsInv, RereadKeepsInv, GetPaymentIntentKeepsInv,
     ConfirmBookingPaymentKeepsInv, RevertFailedPurchaseKeepsInv, FailureKeepsInv
     DEF Next

\* The invariant of which the theorems below are parts.
LEMMA InvHolds == Spec => []Inv
BY InvInit, NextKeepsInv, PTL DEF Spec

------------------------------------------------------------------------------
(* The properties.                                                         *)

\* Every variable of PurchaseFlow keeps its type.
THEOREM TypeCorrect == Spec => []TypeOK
<1>1. Inv => TypeOK
  BY DEF Inv
<1>. QED
  BY <1>1, InvHolds, PTL

\* PurchaseBooking never charges for a seat that was not sold first: an
\* attempt confirms an intent only when it is past the sale.
THEOREM NeverChargedBeforeSale == Spec => []ChargedOnlyAfterSale
<1>1. Inv => ChargedOnlyAfterSale
  BY DEF Inv, BookingOK, ChargedOnlyAfterSale
<1>. QED
  BY <1>1, InvHolds, PTL

\* ensurePaymentIntent and SetPaymentIntentID leave no booking sold without a
\* stored intent, whatever other attempts erase in between.
THEOREM IntentStoredBeforeSale == Spec => []PurchasedHasIntent
<1>1. Inv => PurchasedHasIntent
  BY DEF Inv, BookingOK, PurchasedHasIntent
<1>. QED
  BY <1>1, InvHolds, PTL

\* An expiry never overtakes a purchase within the deadline that
\* ExtendReservation has granted it.
THEOREM ExtensionProtectsPurchase == Spec => []ExtensionCoversPurchase
<1>1. Inv => ExtensionCoversPurchase
  <2>. SUFFICES ASSUME Inv, NEW a \in Attempts, pc[a] \in {"prepare", "store", "complete"},
                       now < granted[a], status[bk[a]] = "expired"
                PROVE  FALSE
    BY DEF ExtensionCoversPurchase
  <2>1. granted[a] <= now
    BY DEF Inv, AttemptOK
  <2>2. granted[a] \in Int /\ now \in Nat
    BY DEF Inv, TypeOK
  <2>. QED
    BY <2>1, <2>2
<1>. QED
  BY <1>1, InvHolds, PTL

\* processPayment returns no success for a payment that Stripe does not have.
THEOREM SuccessMeansPaid == Spec => []OkMeansPaid
<1>1. Inv => OkMeansPaid
  BY DEF Inv, AttemptOK, OkMeansPaid
<1>. QED
  BY <1>1, InvHolds, PTL

\* A booking that PurchaseBooking sold and that is not paid for is still in
\* the hands of an attempt, or one was abandoned over it.
THEOREM NoSaleForgotten == Spec => []SoldIsTended
<1>1. Inv => SoldIsTended
  BY DEF Inv, BookingOK, InHand, SoldIsTended, Tends
<1>. QED
  BY <1>1, InvHolds, PTL

------------------------------------------------------------------------------
(* The rows that purchases share with everybody else.                      *)

\* What an attempt writes, at the deadline it has waited to, is a step of the
\* store, and so is what each request beside it writes.
LEMMA StepsOfStore ==
  ASSUME Inv, [Next]_vars
  PROVE  [StoreNext]_storeVars
<1>1. now \in Nat /\ now \in 0 .. now /\ now \in now .. now
  BY DEF Inv, TypeOK
<1>2. \A a \in Attempts :
        /\ pc[a] # "idle" => bk[a] \in Bookings
        /\ \A begun \in since[a] .. now : begun \in 0 .. now /\ now \in begun .. now
  BY DEF Inv, AttemptOK, TypeOK
<1>3. CASE UNCHANGED storeVars
  BY <1>3
<1>4. ASSUME NEW b \in Bookings, StoreStep(b), UNCHANGED now PROVE StoreNext
  BY <1>4 DEF StoreNext
<1>5. ASSUME NEW b \in Bookings, NEW begun \in 0 .. now, now \in begun .. now, UNCHANGED now,
             \/ Purchase(b, begun, now)
             \/ Expire(b, begun, now)
             \/ Extend(b, now, begun, now)
      PROVE  StoreNext
  BY <1>1, <1>4, <1>5 DEF StoreStep
<1>6. ASSUME NEW b \in Bookings, NEW s \in Seats, ReserveSeat(b, s) PROVE StoreNext
  BY <1>1, <1>4, <1>6 DEF ReserveSeat, StoreStep
<1>7. ASSUME NEW b \in Bookings, CancelBooking(b) PROVE StoreNext
  BY <1>4, <1>7 DEF CancelBooking, StoreStep
<1>8. ASSUME NEW b \in Bookings, ReleaseExpiredBooking(b) PROVE StoreNext
  BY <1>1, <1>5, <1>8 DEF ReleaseExpiredBooking
<1>9. ASSUME NEW a \in Attempts, ReleaseOverdue(a) PROVE [StoreNext]_storeVars
  <2>1. PICK begun \in since[a] .. now :
          IF Admits("expire", bk[a], begun, now)
          THEN WriteRelease(bk[a], "expired")
          ELSE UNCHANGED rows
    BY <1>9 DEF ReleaseOverdue
  <2>2. UNCHANGED now /\ pc[a] = "release"
    BY <1>9 DEF ReleaseOverdue
  <2>3. UNCHANGED rows \/ Expire(bk[a], begun, now)
    BY <2>1 DEF Expire
  <2>. QED
    BY <1>2, <1>5, <2>2, <2>3 DEF storeVars
<1>10. ASSUME NEW a \in Attempts, ExtendReservation(a) PROVE [StoreNext]_storeVars
  <2>1. PICK begun \in since[a] .. now : UNCHANGED rows \/ Extend(bk[a], now, begun, now)
    BY <1>10 DEF ExtendReservation
  <2>2. UNCHANGED now /\ pc[a] = "extend"
    BY <1>10 DEF ExtendReservation
  <2>. QED
    BY <1>2, <1>5, <2>1, <2>2 DEF storeVars
<1>11. ASSUME NEW a \in Attempts, CompletePurchase(a) PROVE [StoreNext]_storeVars
  <2>1. PICK begun \in since[a] .. now : UNCHANGED rows \/ Purchase(bk[a], begun, now)
    BY <1>11 DEF CompletePurchase
  <2>2. UNCHANGED now /\ pc[a] = "complete"
    BY <1>11 DEF CompletePurchase
  <2>. QED
    BY <1>2, <1>5, <2>1, <2>2 DEF storeVars
<1>12. ASSUME NEW a \in Attempts, SetPaymentIntentID(a) PROVE [StoreNext]_storeVars
  <2>1. UNCHANGED rows \/ WritePaymentIntent(bk[a])
    BY <1>12 DEF SetPaymentIntentID
  <2>2. UNCHANGED now /\ pc[a] = "store"
    BY <1>12 DEF SetPaymentIntentID
  <2>. QED
    BY <1>2, <1>4, <2>1, <2>2 DEF StoreStep, storeVars
<1>13. ASSUME NEW a \in Attempts, RevertFailedPurchase(a) PROVE [StoreNext]_storeVars
  <2>1. UNCHANGED rows \/ Revert(bk[a])
    BY <1>13 DEF RevertFailedPurchase, Revert
  <2>2. UNCHANGED now /\ pc[a] = "revert"
    BY <1>13 DEF RevertFailedPurchase
  <2>. QED
    BY <1>2, <1>4, <2>1, <2>2 DEF StoreStep, storeVars
<1>14. CASE Tick
  BY <1>1, <1>14 DEF Tick, TimePasses, StoreNext
<1>. QED
  BY <1>3, <1>6, <1>7, <1>8, <1>9, <1>10, <1>11, <1>12, <1>13, <1>14
     DEF Next, vars, storeVars, PurchaseBooking, FindByID, PreparePaymentIntent, Reread,
         GetPaymentIntent, ConfirmBookingPayment, CallFails, Crash

\* PurchaseBooking, with everything that happens beside it, uses the rows as
\* the store lets it: attempts that race, retry, finish each other's payment,
\* revert and die never write but by one of the repository's methods, with a
\* booking that the method admits.
THEOREM PurchasesUseStore == Spec => StoreSpec
<1>1. Init => StoreInit
  BY DEF Init, StoreInit
<1>2. Inv /\ [Next]_vars => [StoreNext]_storeVars
  BY StepsOfStore
<1>. QED
  BY <1>1, <1>2, InvHolds, PTL DEF Spec, StoreSpec

\* "Prevent double-booking": attempts that race, retry, finish each other's
\* payment, revert and die never give a seat to two live bookings, and the
\* seat's status says what its booking's does.
THEOREM PurchasesShareNoSeat == Spec => []SeatsMatchBookings
BY PurchasesUseStore, StoreKeepsRows, PTL

\* Sales that are reverted go back to available_seats once, releases that come
\* late not at all.
THEOREM PurchasesKeepCount == Spec => []AvailableSeatsExact
BY PurchasesUseStore, StoreKeepsRows, PTL

\* The extension that a purchase begins with leaves booking and seat with the
\* same deadline.
THEOREM PurchasesKeepDeadlines == Spec => []DeadlinesAgree
BY PurchasesUseStore, StoreKeepsRows, PTL

\* An attempt never brings a deadline forward, and the overdue booking that it
\* releases on its way is overdue still under the row's lock.
THEOREM PurchasesKeepPromise == Spec => DeadlineKept
BY PurchasesUseStore, StoreKeepsDeadlines

\* PurchaseBooking, with everything that happens beside it, implements the
\* abstract inventory: a seat is sold only to its holder, and a sale that is
\* reverted is given up before the seat is taken again.
THEOREM PurchasesImplementInventory == Spec => ImplementsInventory
BY PurchasesUseStore, StoreImplementsInventory
==============================================================================
