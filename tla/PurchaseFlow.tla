---------------------------- MODULE PurchaseFlow ----------------------------
(***************************************************************************)
(* PurchaseBooking of internal/services/booking_service.go: the sequence   *)
(* of repository transactions and Stripe calls that sells a reserved seat, *)
(* run by several workers at once.  Two attempts may work on the same      *)
(* booking (purchase jobs are keyed by job, and a job is redelivered after *)
(* a crash), and every call to the database or to Stripe may fail.  Each   *)
(* repository method is one step here, a step of BookingStore, which       *)
(* BookingTransactions implements.                                         *)
(***************************************************************************)
EXTENDS BookingStore

CONSTANTS Attempts,            \* bound: the calls of PurchaseBooking
          MaxTime,             \* bound: the clock stops here
          StripeMayTimeOut     \* may a successful Confirm be reported failed?

ASSUME PurchaseAssumption ==
  /\ MaxTime \in Nat
  /\ StripeMayTimeOut \in BOOLEAN

VARIABLES intent,   \* intent[b]: Stripe's PaymentIntent for booking b
          pc,       \* pc[a]: the call attempt a makes next
          bk,       \* bk[a]: the booking it purchases
          since,    \* since[a]: when it got there
          known,    \* known[a]: its copy of the booking has an intent ID
          finish,   \* finish[a]: it runs finishPurchasedBookingPayment
          granted,  \* granted[a]: the deadline ExtendReservation returned
          answer    \* answer[a]: what PurchaseBooking returned

attempt == <<pc, bk, since, known, finish, granted, answer>>
vars == <<rows, now, intent, attempt>>

PC == {"idle", "find", "release", "extend", "prepare", "store", "complete",
       "reread", "get", "confirm", "revert", "done"}

\* Every variable holds a value of its type.
TypeOK ==
  /\ RowsTypeOK
  /\ now \in Nat
  /\ intent \in [Bookings -> {"none", "requires_confirmation", "succeeded"}]
  /\ pc \in [Attempts -> PC]
  /\ bk \in [Attempts -> Bookings \cup {NoBooking}]
  /\ since \in [Attempts -> Nat]
  /\ known \in [Attempts -> BOOLEAN]
  /\ finish \in [Attempts -> BOOLEAN]
  /\ granted \in [Attempts -> Int]
  /\ answer \in [Attempts -> {"none", "ok", "error", "critical"}]

Init ==
  /\ InitRows
  /\ now = 0
  /\ intent = [b \in Bookings |-> "none"]
  /\ pc = [a \in Attempts |-> "idle"]
  /\ bk = [a \in Attempts |-> NoBooking]
  /\ since = [a \in Attempts |-> 0]
  /\ known = [a \in Attempts |-> FALSE]
  /\ finish = [a \in Attempts |-> FALSE]
  /\ granted = [a \in Attempts |-> Null]
  /\ answer = [a \in Attempts |-> "none"]

\* Attempt a goes on to call p, or returns r.
Goto(a, p) ==
  /\ pc' = [pc EXCEPT ![a] = p]
  /\ since' = [since EXCEPT ![a] = now]

Return(a, r) ==
  /\ pc' = [pc EXCEPT ![a] = "done"]
  /\ since' = [since EXCEPT ![a] = 0]
  /\ answer' = [answer EXCEPT ![a] = r]

------------------------------------------------------------------------------
(* Everything else that happens to bookings: reservations, cancellations   *)
(* and expiries, each one repository transaction.                          *)

ReserveSeat(b, s) ==
  /\ Reserve(b, s, now, now)
  /\ UNCHANGED <<now, intent, attempt>>

CancelBooking(b) ==
  /\ Cancel(b)
  /\ UNCHANGED <<now, intent, attempt>>

ReleaseExpiredBooking(b) ==
  /\ Expire(b, now, now)
  /\ UNCHANGED <<now, intent, attempt>>

Tick ==
  /\ now < MaxTime
  /\ now' = now + 1
  /\ UNCHANGED <<rows, intent, attempt>>

------------------------------------------------------------------------------
(* The steps of PurchaseBooking.                                           *)

\* The call arrives, from the HTTP handler or from a purchase worker.
PurchaseBooking(a, b) ==
  /\ pc[a] = "idle"
  /\ status[b] # "none"
  /\ Goto(a, "find")
  /\ bk' = [bk EXCEPT ![a] = b]
  /\ UNCHANGED <<rows, now, intent, known, finish, granted, answer>>

\* FindByID and the checks on what it read: a booking that is not reserved
\* is refused, one that is overdue is released first.
FindByID(a) ==
  /\ pc[a] = "find"
  /\ \/ /\ status[bk[a]] # "reserved"
        /\ Return(a, "error")
     \/ /\ status[bk[a]] = "reserved"
        /\ Goto(a, IF now > expiresAt[bk[a]] THEN "release" ELSE "extend")
        /\ UNCHANGED answer
  /\ UNCHANGED <<rows, now, intent, bk, known, finish, granted>>

\* ReleaseExpiredBooking, whose outcome is ignored, then ErrBookingExpired.
ReleaseOverdue(a) ==
  /\ pc[a] = "release"
  /\ \E begun \in since[a]..now :
       IF Admits("expire", bk[a], begun, now)
       THEN WriteRelease(bk[a], "expired")
       ELSE UNCHANGED rows
  /\ Return(a, "error")
  /\ UNCHANGED <<now, intent, bk, known, finish, granted>>

\* Faulty: the purchase is completed whether or not an intent is stored.
AfterExtendUnprepared(a) == "complete"

\* ensurePaymentIntent has nothing to do for a booking with an intent.
AfterExtend(a) ==
  IF paymentIntentID[bk[a]] = "set" THEN "complete" ELSE "prepare"

\* The transaction began at some time since the attempt came here.  The copy
\* of the booking it returns says whether an intent is stored already.
ExtendReservation(a) ==
  /\ pc[a] = "extend"
  /\ \E begun \in since[a]..now :
       \/ /\ Extend(bk[a], now, begun, now)
          /\ granted' = [granted EXCEPT ![a] = expiresAt'[bk[a]]]
          /\ known' = [known EXCEPT ![a] = paymentIntentID[bk[a]] = "set"]
          /\ Goto(a, AfterExtend(a))
          /\ UNCHANGED answer
       \/ /\ \/ ~Admits("extend", bk[a], begun, now)
             \/ ~SeatAdmits("extend", seatID[bk[a]], now)
          /\ Return(a, "error")
          /\ UNCHANGED <<rows, granted, known>>
  /\ UNCHANGED <<now, intent, bk, finish>>

\* Stripe creates the intent, or returns the one it has for the booking's
\* idempotency key (external).
PreparePaymentIntent(a) ==
  /\ pc[a] = "prepare"
  /\ intent' = [intent EXCEPT ![bk[a]] =
                  IF @ = "none" THEN "requires_confirmation" ELSE @]
  /\ Goto(a, "store")
  /\ UNCHANGED <<rows, now, bk, known, finish, granted, answer>>

\* Faulty: the card is charged before the seat is sold.
AfterStoreChargeFirst(a) == "get"

\* PurchaseBooking sells the seat next, finishPurchasedBookingPayment pays.
AfterStore(a) == IF finish[a] THEN "get" ELSE "complete"

\* An intent that is stored already is as good as one stored now; with
\* neither the booking is gone and ErrBookingNotReserved is returned.
SetPaymentIntentID(a) ==
  /\ pc[a] = "store"
  /\ IF Live(bk[a]) /\ paymentIntentID[bk[a]] = "null"
     THEN WritePaymentIntent(bk[a])
     ELSE UNCHANGED rows
  /\ \/ /\ paymentIntentID'[bk[a]] = "set"
        /\ known' = [known EXCEPT ![a] = TRUE]
        /\ Goto(a, AfterStore(a))
        /\ UNCHANGED answer
     \/ /\ paymentIntentID'[bk[a]] = "null"
        /\ Return(a, "error")
        /\ UNCHANGED known
  /\ UNCHANGED <<now, intent, bk, finish, granted>>

\* CompletePurchase sells the seat before it is paid.  A booking somebody
\* else has purchased is returned as it is.
CompletePurchase(a) ==
  /\ pc[a] = "complete"
  /\ \E begun \in since[a]..now :
       \/ /\ status[bk[a]] = "purchased"
          /\ known' = [known EXCEPT ![a] = paymentIntentID[bk[a]] = "set"]
          /\ Goto(a, "get")
          /\ UNCHANGED <<rows, answer>>
       \/ /\ Purchase(bk[a], begun, now)
          /\ known' = [known EXCEPT ![a] = paymentIntentID[bk[a]] = "set"]
          /\ Goto(a, "get")
          /\ UNCHANGED answer
       \/ /\ status[bk[a]] # "purchased"
          /\ ~Admits("purchase", bk[a], begun, now)
          /\ IF status[bk[a]] = "reserved" /\ now > expiresAt[bk[a]]
             THEN Return(a, "error")
             ELSE Goto(a, "reread") /\ UNCHANGED answer
          /\ UNCHANGED <<rows, known>>
  /\ UNCHANGED <<now, intent, bk, finish, granted>>

\* After ErrBookingNotReserved the booking is read again; if another attempt
\* has purchased it meanwhile, this one goes on to finish the payment.
Reread(a) ==
  /\ pc[a] = "reread"
  /\ \/ /\ status[bk[a]] = "purchased"
        /\ finish' = [finish EXCEPT ![a] = TRUE]
        /\ known' = [known EXCEPT ![a] = paymentIntentID[bk[a]] = "set"]
        /\ Goto(a, IF paymentIntentID[bk[a]] = "set" THEN "get" ELSE "prepare")
        /\ UNCHANGED answer
     \/ /\ status[bk[a]] # "purchased"
        /\ Return(a, "error")
        /\ UNCHANGED <<known, finish>>
  /\ UNCHANGED <<rows, now, intent, bk, granted>>

\* Faulty: a failed payment is an error and no more.
PaymentFailedUnreverted(a) == Return(a, "error")

\* What follows a failed payment: PurchaseBooking reverts the purchase,
\* finishPurchasedBookingPayment only returns the error.
PaymentFailed(a) ==
  IF finish[a] THEN Return(a, "error")
  ELSE Goto(a, "revert") /\ UNCHANGED answer

\* ProcessPayment: a booking without an intent fails at once; otherwise the
\* intent's status is read, and one that has succeeded needs no confirmation.
GetPaymentIntent(a) ==
  /\ pc[a] = "get"
  /\ \/ known[a] /\ intent[bk[a]] = "succeeded" /\ Return(a, "ok")
     \/ /\ known[a]
        /\ intent[bk[a]] # "succeeded"
        /\ Goto(a, "confirm")
        /\ UNCHANGED answer
     \/ PaymentFailed(a)
  /\ UNCHANGED <<rows, now, intent, bk, known, finish, granted>>

\* Stripe's answer to Confirm (external): it charges the card; it declines,
\* or leaves the intent waiting for the customer; it refuses an intent that
\* has been confirmed already; or it charges and the reply is lost.
Confirm(b, charged, reply) ==
  /\ \/ charged /\ reply = "succeeded"
     \/ ~charged /\ reply = "error"
     \/ ~charged /\ reply = "requires_action" /\ intent[b] # "succeeded"
     \/ StripeMayTimeOut /\ charged /\ reply = "error"
  /\ charged => intent[b] # "succeeded"
  /\ intent' = [intent EXCEPT ![b] = IF charged THEN "succeeded" ELSE @]

\* Faulty: a reply without an error is a payment, whatever its status.
PaymentAcceptedPending(reply) == reply # "error"

\* Is a reply of Confirm taken for a payment?
PaymentAccepted(reply) == reply = "succeeded"

ConfirmBookingPayment(a) ==
  /\ pc[a] = "confirm"
  /\ \E charged \in BOOLEAN, reply \in {"succeeded", "requires_action", "error"} :
       /\ Confirm(bk[a], charged, reply)
       /\ IF PaymentAccepted(reply) THEN Return(a, "ok") ELSE PaymentFailed(a)
  /\ UNCHANGED <<rows, now, bk, known, finish, granted>>

\* RevertFailedPurchase; when the booking is not purchased any more the
\* failure is only logged.
RevertFailedPurchase(a) ==
  /\ pc[a] = "revert"
  /\ IF Admits("revert", bk[a], now, now)
     THEN WriteRevert(bk[a])
     ELSE UNCHANGED rows
  /\ Return(a, "error")
  /\ UNCHANGED <<now, intent, bk, known, finish, granted>>

\* A database or Stripe call fails without effect and its error is returned.
\* (Errors of the payment itself go through PaymentFailed.)  When it is the
\* revert that fails, it is logged as critical.
CallFails(a) ==
  /\ pc[a] \in {"find", "release", "extend", "prepare", "store", "complete",
                "reread", "revert"}
  /\ Return(a, IF pc[a] = "revert" THEN "critical" ELSE "error")
  /\ UNCHANGED <<rows, now, intent, bk, known, finish, granted>>

\* The process dies and the attempt with it, whatever it has committed so
\* far; a COMMIT whose acknowledgement is lost ends an attempt the same way.
Crash(a) ==
  /\ pc[a] \notin {"idle", "done"}
  /\ Return(a, "none")
  /\ UNCHANGED <<rows, now, intent, bk, known, finish, granted>>

Next ==
  \/ \E b \in Bookings :
       \/ \E s \in Seats : ReserveSeat(b, s)
       \/ CancelBooking(b)
       \/ ReleaseExpiredBooking(b)
       \/ \E a \in Attempts : PurchaseBooking(a, b)
  \/ \E a \in Attempts :
       \/ FindByID(a)
       \/ ReleaseOverdue(a)
       \/ ExtendReservation(a)
       \/ PreparePaymentIntent(a)
       \/ SetPaymentIntentID(a)
       \/ CompletePurchase(a)
       \/ Reread(a)
       \/ GetPaymentIntent(a)
       \/ ConfirmBookingPayment(a)
       \/ RevertFailedPurchase(a)
       \/ CallFails(a)
       \/ Crash(a)
  \/ Tick

Spec == Init /\ [][Next]_vars

------------------------------------------------------------------------------
(* Correctness properties.                                                 *)

\* Nobody is charged for a seat that was never theirs: the card is charged
\* only after CompletePurchase has sold the seat, so a charged booking is
\* purchased, or was until a revert cancelled it; it is never still reserved
\* (and free to expire or be cancelled) and never expired.
ChargedOnlyAfterSale ==
  \A b \in Bookings :
    intent[b] = "succeeded" => status[b] \in {"purchased", "cancelled"}

\* A purchased booking always has its PaymentIntent stored ("persists the
\* Stripe PaymentIntent ID before charging"), whatever other attempts on the
\* same booking store or erase, so a purchase never fails for want of one.
PurchasedHasIntent ==
  \A b \in Bookings : status[b] = "purchased" =>
    paymentIntentID[b] = "set" /\ intent[b] # "none"

\* The extension covers the purchase: from ExtendReservation to
\* CompletePurchase, and until the deadline it returned, no expiry takes the
\* booking away, not even one decided before the extension.
ExtensionCoversPurchase ==
  \A a \in Attempts :
    (pc[a] \in {"prepare", "store", "complete"} /\ now < granted[a]) =>
      status[bk[a]] # "expired"

\* A purchase that is answered with success has been paid.
OkMeansPaid ==
  \A a \in Attempts : answer[a] = "ok" => intent[bk[a]] = "succeeded"

\* The comment on RevertFailedPurchase: it undoes a purchase "when payment
\* fails afterward", so a booking that has been paid is never reverted.
RevertsOnlyUnpaid ==
  [][\A b \in Bookings :
       (status[b] = "purchased" /\ status'[b] = "cancelled") =>
         intent[b] # "succeeded"]_vars

\* An attempt on b that may still pay for it or revert it, ...
Tends(a, b) ==
  /\ bk[a] = b
  /\ pc[a] \in {"get", "confirm", "revert"} \/ (finish[a] /\ pc[a] \in {"prepare", "store"})

\* ... or that could not: it died, or its revert failed.
Abandoned(a, b) ==
  /\ bk[a] = b /\ pc[a] = "done"
  /\ answer[a] \in {"none", "critical"}

\* No seat is sold for nothing behind everybody's back: a purchased booking
\* that has not been paid is being paid or reverted by an attempt, or an
\* attempt died over it or logged that its revert failed.  (Retries do not
\* reach such a booking any more: they are refused as not reserved.)
SoldIsTended ==
  \A b \in Bookings :
    (status[b] = "purchased" /\ intent[b] # "succeeded") =>
      \E a \in Attempts : Tends(a, b) \/ Abandoned(a, b)
==============================================================================
