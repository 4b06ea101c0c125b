-------------------------- MODULE MiddlewareProofs --------------------------
(***************************************************************************)
(* The two middlewares that count requests in Redis before a handler runs, *)
(* for any clients, processes, requests, limits, lifetimes and failures.   *)
(*                                                                         *)
(* Admission control: refusals spend no admission, a client that stays     *)
(* quiet for a window is not refused by its own counters, and two windows  *)
(* that meet admit less than twice the limit.                              *)
(*                                                                         *)
(* Idempotency: no duplicate of an operation runs while the original may   *)
(* be in flight, and a retry of a success is given the cached response.    *)
(***************************************************************************)
EXTENDS Admission, Idempotency, TLAPS

------------------------------------------------------------------------------
(* Admission control.                                                      *)

\* The types of what the two properties are about.
CountersTypeOK ==
  /\ simple \in [Clients -> Key(SimpleLimit + 1, SimpleWindow)]
  /\ event \in Key(EventLimit, Window)
  /\ client \in [Clients -> Key(ClientLimit, Window)]
  /\ admitted \in Nat
  /\ admittedOf \in [Clients -> Nat]
  /\ idle \in [Clients -> Nat]
  /\ lostReplies \in Nat

\* A key that exists has a lifetime, and one that was touched n ticks ago has
\* lost at least n ticks of it.
Fresh(key, n, window) == key = NoKey \/ (key.ttl >= 1 /\ n + key.ttl <= window)

\* The keys of a client were last touched when it last asked, that of the
\* event when somebody did.
LifetimesOK ==
  /\ \A k \in Clients :
       /\ Fresh(simple[k], idle[k], SimpleWindow)
       /\ Fresh(client[k], idle[k], Window)
  /\ event = NoKey \/ \E k \in Clients : Fresh(event, idle[k], Window)

Inv == CountersTypeOK /\ CountsAdmitted /\ LifetimesOK

------------------------------------------------------------------------------
(* The operators on keys.                                                  *)

\* The constants, as the provers need them.
LEMMA Constants ==
  /\ SimpleLimit \in Nat \ {0} /\ SimpleWindow \in Nat \ {0}
  /\ EventLimit \in Nat \ {0} /\ ClientLimit \in Nat \ {0}
  /\ Window \in Nat \ {0} /\ Burst \in Nat \ {0}
BY AdmissionAssumption

\* INCR and EXPIRE count one more and leave a lifetime.
LEMMA IncrFacts ==
  ASSUME NEW l \in Nat, NEW w \in Nat \ {0}, NEW key \in Key(l, w)
  PROVE  /\ IncrWithTTL(key, w).count = key.count + 1
         /\ IncrWithTTL(key, w).ttl \in 1 .. w
         /\ key.count + 1 <= l => IncrWithTTL(key, w) \in Key(l, w)
         /\ Undo(IncrWithTTL(key, w), w) \in Key(l, w)
         /\ Undo(IncrWithTTL(key, w), w).count = key.count
         /\ Undo(IncrWithTTL(key, w), w).ttl = w
BY DEF IncrWithTTL, Undo, Key

\* fixedWindowRateLimitScript does so too, up to the bound of the model.
LEMMA FixedWindowFacts ==
  ASSUME NEW key \in Key(SimpleLimit + 1, SimpleWindow)
  PROVE  /\ FixedWindow(key) \in Key(SimpleLimit + 1, SimpleWindow)
         /\ FixedWindow(key).ttl \in 1 .. SimpleWindow
<1>. DEFINE k == IncrWithTTL(key, SimpleWindow)
<1>1. k.count = key.count + 1 /\ k.ttl \in 1 .. SimpleWindow
  BY Constants, IncrFacts
<1>2. k = [count |-> k.count, ttl |-> k.ttl]
  BY DEF IncrWithTTL
<1>3. key.count \in Nat
  BY Constants DEF Key
<1>4. FixedWindow(key) = IF k.count > SimpleLimit
                         THEN [count |-> SimpleLimit + 1, ttl |-> SimpleWindow] ELSE k
  BY DEF FixedWindow
<1>. HIDE DEF k
<1>. QED
  BY <1>1, <1>2, <1>3, <1>4, Constants DEF Key

\* Time takes a tick of a key's life, or all of the key.
LEMMA AgedFacts ==
  ASSUME NEW l \in Nat, NEW w \in Nat \ {0}, NEW key \in Key(l, w)
  PROVE  /\ Aged(key) \in Key(l, w)
         /\ Aged(key) = NoKey \/ Aged(key).count = key.count
         /\ Aged(key) = NoKey \/ key.ttl = 0 \/ Aged(key).ttl = key.ttl - 1
         /\ key.ttl >= 1 => Aged(key) = NoKey \/ Aged(key).ttl >= 1
         /\ key = NoKey => Aged(key) = NoKey
<1>1. CASE key.ttl = 0
  BY <1>1 DEF Aged, NoKey, Key
<1>2. CASE key.ttl = 1
  BY <1>2 DEF Aged, NoKey, Key
<1>3. CASE key.ttl > 1
  <2>1. Aged(key) = [key EXCEPT !.ttl = @ - 1]
    BY <1>3 DEF Aged
  <2>. QED
    BY <1>3, <2>1 DEF NoKey, Key
<1>. QED
  BY <1>1, <1>2, <1>3 DEF Key

\* Who has not asked is quiet for a tick more, or as long as it matters.
LEMMA MinFacts ==
  ASSUME NEW m \in Nat, NEW n \in Nat
  PROVE  Min({m, n}) \in {m, n} /\ Min({m, n}) <= n /\ Min({m, n}) <= m
<1>1. \E x \in {m, n} : \A y \in {m, n} : x <= y
  <2>1. CASE m <= n
    BY <2>1
  <2>2. CASE n <= m
    BY <2>2
  <2>. QED
    BY <2>1, <2>2
<1>. QED
  BY <1>1 DEF Min

\* What eventAdmissionScript does to its keys: both are counted or neither,
\* and a key that is touched is given a lifetime.
LEMMA EventAdmissionFacts ==
  ASSUME CountersTypeOK, NEW k \in Clients, EventAdmission(k),
         NEW n, n = IF OverLimits(k) = "none" THEN 1 ELSE 0
  PROVE  /\ event' \in Key(EventLimit, Window)
         /\ client' \in [Clients -> Key(ClientLimit, Window)]
         /\ event'.count = event.count + n /\ event'.ttl >= 1
         /\ client'[k].count = client[k].count + n
         /\ client'[k] = client[k] \/ client'[k].ttl >= 1
         /\ \A j \in Clients \ {k} : client'[j] = client[j]
<1>. DEFINE over == OverLimits(k)
<1>1. event \in Key(EventLimit, Window) /\ client[k] \in Key(ClientLimit, Window)
  BY DEF CountersTypeOK
<1>2. event.count \in Nat /\ client[k].count \in Nat
  BY <1>1, Constants DEF Key
<1>3. over \in {"event", "client", "none"}
  BY DEF OverLimits
<1>4. over = "none" => event.count + 1 <= EventLimit /\ client[k].count + 1 <= ClientLimit
  <2>1. CASE event.count + 1 > EventLimit
    BY <2>1 DEF OverLimits
  <2>2. CASE event.count + 1 <= EventLimit /\ client[k].count + 1 > ClientLimit
    BY <1>2, <2>2, Constants DEF OverLimits
  <2>3. CASE event.count + 1 <= EventLimit /\ client[k].count + 1 <= ClientLimit
    BY <2>3
  <2>. QED
    BY <1>2, <2>1, <2>2, <2>3, Constants
<1>5. event' = IF over = "none" THEN IncrWithTTL(event, Window)
               ELSE Undo(IncrWithTTL(event, Window), Window)
  BY DEF EventAdmission
<1>6. /\ client' = [client EXCEPT ![k] = client'[k]]
      /\ over = "event" => client'[k] = client[k]
      /\ over = "client" => client'[k] = Undo(IncrWithTTL(client[k], Window), Window)
      /\ over = "none" => client'[k] = IncrWithTTL(client[k], Window)
  <2>1. client \in [Clients -> Key(ClientLimit, Window)]
    BY DEF CountersTypeOK
  <2>2. PICK new : client' = [client EXCEPT ![k] = new]
    BY DEF EventAdmission
  <2>3. client'[k] = CASE over = "event" -> client[k]
                       [] over = "client" -> Undo(IncrWithTTL(client[k], Window), Window)
                       [] over = "none" -> IncrWithTTL(client[k], Window)
    BY <2>1 DEF EventAdmission
  <2>4. client' = [client EXCEPT ![k] = client'[k]]
    BY <2>1, <2>2
  <2>5. CASE over = "event"
    BY <2>3, <2>4, <2>5
  <2>6. CASE over = "client"
    BY <2>3, <2>4, <2>6
  <2>7. CASE over = "none"
    BY <2>3, <2>4, <2>7
  <2>. QED
    BY <1>3, <2>5, <2>6, <2>7
<1>. HIDE DEF over
<1>7. event' \in Key(EventLimit, Window) /\ event'.count = event.count + n /\ event'.ttl >= 1
  BY <1>1, <1>2, <1>4, <1>5, IncrFacts, Constants DEF over
<1>8. /\ client'[k] \in Key(ClientLimit, Window) /\ client'[k].count = client[k].count + n
      /\ client'[k] = client[k] \/ client'[k].ttl >= 1
  BY <1>1, <1>2, <1>3, <1>4, <1>6, IncrFacts, Constants DEF over
<1>. QED
  BY <1>6, <1>7, <1>8 DEF CountersTypeOK

------------------------------------------------------------------------------
(* The steps.                                                              *)

\* Before anybody asks there are no keys and no admissions.
LEMMA InvInit == Init => Inv
BY Constants, AdmissionAssumption
   DEF Init, Inv, CountersTypeOK, CountsAdmitted, LifetimesOK, Fresh, NoKey, Key

\* A request shortens nobody's quiet time but that of its client, whose keys
\* live no longer than their windows.
LEMMA AskedKeepsLifetimes ==
  ASSUME Inv, CountersTypeOK', NEW k \in Clients, Asked(k),
         simple'[k] = simple[k] \/ simple'[k].ttl >= 1,
         client'[k] = client[k] \/ client'[k].ttl >= 1,
         event' = event \/ event'.ttl >= 1,
         \A j \in Clients \ {k} : simple'[j] = simple[j] /\ client'[j] = client[j]
  PROVE  LifetimesOK'
<1>1. idle'[k] = 0 /\ \A j \in Clients \ {k} : idle'[j] = idle[j]
  BY DEF Asked, Inv, CountersTypeOK
<1>2. /\ simple'[k].ttl \in 0 .. SimpleWindow
      /\ client'[k].ttl \in 0 .. Window
      /\ event'.ttl \in 0 .. Window
  BY DEF CountersTypeOK, Key
<1>3. Fresh(simple'[k], 0, SimpleWindow) /\ Fresh(client'[k], 0, Window)
  BY <1>2, Constants DEF Inv, LifetimesOK, Fresh
<1>4. event' = NoKey \/ Fresh(event', 0, Window)
  BY <1>2, Constants DEF Inv, LifetimesOK, Fresh
<1>5. ASSUME NEW j \in Clients
      PROVE  Fresh(simple'[j], idle'[j], SimpleWindow) /\ Fresh(client'[j], idle'[j], Window)
  <2>1. CASE j = k
    BY <1>1, <1>3, <2>1
  <2>2. CASE j # k
    BY <1>1, <2>2 DEF Inv, LifetimesOK
  <2>. QED
    BY <2>1, <2>2
<1>. QED
  BY <1>1, <1>4, <1>5 DEF LifetimesOK

\* A request ends its client's quiet time.
LEMMA AskedType ==
  ASSUME CountersTypeOK, NEW k \in Clients, Asked(k)
  PROVE  idle' \in [Clients -> Nat]
BY DEF CountersTypeOK, Asked

\* The simple limit, in Redis or not.
LEMMA SimpleKeepsInv ==
  ASSUME Inv, NEW k \in Clients, Asked(k),
         UNCHANGED <<event, client, admitted, admittedOf>>,
         lostReplies' \in Nat, lostReplies <= lostReplies',
         UNCHANGED simple \/ simple' = [simple EXCEPT ![k] = FixedWindow(@)]
  PROVE  Inv'
<1>1. CountersTypeOK /\ simple[k] \in Key(SimpleLimit + 1, SimpleWindow)
  BY DEF Inv, CountersTypeOK
<1>2. simple' \in [Clients -> Key(SimpleLimit + 1, SimpleWindow)]
  BY <1>1, FixedWindowFacts DEF CountersTypeOK
<1>3. simple'[k] = simple[k] \/ simple'[k].ttl >= 1
  BY <1>1, FixedWindowFacts, Constants DEF CountersTypeOK
<1>4. \A j \in Clients \ {k} : simple'[j] = simple[j]
  BY <1>1 DEF CountersTypeOK
<1>5. CountersTypeOK'
  BY <1>1, <1>2, AskedType DEF CountersTypeOK
<1>6. LifetimesOK'
  BY <1>3, <1>4, <1>5, AskedKeepsLifetimes
<1>7. CountsAdmitted'
  <2>1. event.count \in Nat /\ \A j \in Clients : client[j].count \in Nat
    BY <1>1, Constants DEF CountersTypeOK, Key
  <2>. QED
    BY <1>1, <2>1 DEF Inv, CountsAdmitted, CountersTypeOK
<1>. QED
  BY <1>5, <1>6, <1>7 DEF Inv

\* The event's limits, in Redis: answered, or not.
LEMMA EventKeepsInv ==
  ASSUME Inv, NEW k \in Clients, Asked(k), EventAdmission(k), UNCHANGED simple,
         \/ /\ UNCHANGED lostReplies
            /\ IF OverLimits(k) = "none"
               THEN /\ admitted' = admitted + 1
                    /\ admittedOf' = [admittedOf EXCEPT ![k] = @ + 1]
               ELSE UNCHANGED <<admitted, admittedOf>>
         \/ lostReplies' = lostReplies + 1 /\ UNCHANGED <<admitted, admittedOf>>
  PROVE  Inv'
<1>1. CountersTypeOK
  BY DEF Inv
<1>. DEFINE n == IF OverLimits(k) = "none" THEN 1 ELSE 0
<1>2. /\ event' \in Key(EventLimit, Window)
      /\ client' \in [Clients -> Key(ClientLimit, Window)]
      /\ event'.count = event.count + n /\ event'.ttl >= 1
      /\ client'[k].count = client[k].count + n
      /\ client'[k] = client[k] \/ client'[k].ttl >= 1
      /\ \A j \in Clients \ {k} : client'[j] = client[j]
  BY <1>1, EventAdmissionFacts
<1>3. n \in {0, 1}
  OBVIOUS
<1>4. \/ /\ lostReplies' = lostReplies /\ admitted' = admitted + n
         /\ admittedOf' = [admittedOf EXCEPT ![k] = @ + n]
      \/ lostReplies' = lostReplies + 1 /\ UNCHANGED <<admitted, admittedOf>>
  BY <1>1 DEF CountersTypeOK
<1>. HIDE DEF n
<1>5. CountersTypeOK'
  <2>1. admitted' \in Nat /\ lostReplies' \in Nat
    BY <1>1, <1>3, <1>4 DEF CountersTypeOK
  <2>2. admittedOf' \in [Clients -> Nat]
    BY <1>1, <1>3, <1>4 DEF CountersTypeOK
  <2>. QED
    BY <1>1, <1>2, <2>1, <2>2, AskedType DEF CountersTypeOK
<1>6. LifetimesOK'
  BY <1>2, <1>5, AskedKeepsLifetimes
<1>7. event.count \in Nat /\ \A j \in Clients : client[j].count \in Nat
  BY <1>1, Constants DEF CountersTypeOK, Key
<1>8. admitted' <= event'.count /\ event'.count <= admitted' + lostReplies'
  BY <1>1, <1>2, <1>3, <1>4, <1>7 DEF Inv, CountsAdmitted, CountersTypeOK
<1>9. ASSUME NEW j \in Clients
      PROVE  /\ admittedOf'[j] <= client'[j].count
             /\ client'[j].count <= admittedOf'[j] + lostReplies'
  <2>1. admittedOf[j] <= client[j].count /\ client[j].count <= admittedOf[j] + lostReplies
    BY DEF Inv, CountsAdmitted
  <2>2. admittedOf[j] \in Nat /\ lostReplies \in Nat
    BY <1>1 DEF CountersTypeOK
  <2>3. CASE j = k
    <3>1. \/ lostReplies' = lostReplies /\ admittedOf'[j] = admittedOf[j] + n
          \/ lostReplies' = lostReplies + 1 /\ admittedOf'[j] = admittedOf[j]
      BY <1>1, <1>4, <2>3 DEF CountersTypeOK
    <3>. QED
      BY <1>2, <1>3, <1>7, <2>1, <2>2, <2>3, <3>1
  <2>4. CASE j # k
    <3>1. admittedOf'[j] = admittedOf[j] /\ lostReplies' \in {lostReplies, lostReplies + 1}
      BY <1>1, <1>4, <2>4 DEF CountersTypeOK
    <3>. QED
      BY <1>2, <1>7, <2>1, <2>2, <2>4, <3>1
  <2>. QED
    BY <2>3, <2>4
<1>. QED
  BY <1>5, <1>6, <1>8, <1>9 DEF Inv, CountsAdmitted

\* Time passes for all keys and all clients together.
LEMMA TickKeepsInv ==
  ASSUME Inv, Tick
  PROVE  Inv'
<1>1. CountersTypeOK
  BY DEF Inv
<1>. DEFINE far == SimpleWindow + Window
<1>2. idle' = [k \in Clients |-> Min({far, idle[k] + 1})] /\ far \in Nat
  BY Constants DEF Tick
<1>. HIDE DEF far
<1>3. \A k \in Clients : idle'[k] \in Nat /\ idle'[k] <= idle[k] + 1
  BY <1>1, <1>2, MinFacts DEF CountersTypeOK
<1>4. /\ simple' = [k \in Clients |-> Aged(simple[k])] /\ event' = Aged(event)
      /\ client' = [k \in Clients |-> Aged(client[k])]
      /\ admitted' = IF event' = NoKey THEN 0 ELSE admitted
      /\ admittedOf' = [k \in Clients |-> IF client'[k] = NoKey THEN 0 ELSE admittedOf[k]]
      /\ lostReplies' = lostReplies
  BY DEF Tick
<1>5. CountersTypeOK'
  <2>1. /\ event' \in Key(EventLimit, Window)
        /\ client' \in [Clients -> Key(ClientLimit, Window)]
        /\ simple' \in [Clients -> Key(SimpleLimit + 1, SimpleWindow)]
    BY <1>1, <1>4, AgedFacts, Constants DEF CountersTypeOK
  <2>. QED
    BY <1>1, <1>2, <1>3, <1>4, <2>1 DEF CountersTypeOK
<1>6. ASSUME NEW l \in Nat, NEW w \in Nat \ {0}, NEW key \in Key(l, w),
             NEW m \in Nat, NEW n \in Nat, n <= m + 1, Fresh(key, m, w)
      PROVE  Fresh(Aged(key), n, w)
  BY <1>6, AgedFacts DEF Fresh, Key
<1>7. LifetimesOK'
  <2>1. ASSUME NEW k \in Clients
        PROVE  /\ Fresh(simple'[k], idle'[k], SimpleWindow)
               /\ Fresh(client'[k], idle'[k], Window)
    <3>1. Fresh(simple[k], idle[k], SimpleWindow) /\ Fresh(client[k], idle[k], Window)
      BY DEF Inv, LifetimesOK
    <3>2. /\ simple[k] \in Key(SimpleLimit + 1, SimpleWindow)
          /\ client[k] \in Key(ClientLimit, Window) /\ idle[k] \in Nat
      BY <1>1 DEF CountersTypeOK
    <3>. QED
      BY <1>3, <1>4, <1>6, <3>1, <3>2, Constants
  <2>2. CASE event = NoKey
    <3>1. event' = NoKey
      BY <1>1, <1>4, <2>2, AgedFacts, Constants DEF CountersTypeOK
    <3>. QED
      BY <2>1, <3>1 DEF LifetimesOK
  <2>3. ASSUME NEW k \in Clients, Fresh(event, idle[k], Window)
        PROVE  Fresh(event', idle'[k], Window)
    BY <1>1, <1>3, <1>4, <1>6, <2>3, Constants DEF CountersTypeOK
  <2>. QED
    BY <2>1, <2>2, <2>3 DEF Inv, LifetimesOK
<1>8. CountsAdmitted'
  <2>1. event.count \in Nat /\ \A j \in Clients : client[j].count \in Nat
    BY <1>1, Constants DEF CountersTypeOK, Key
  <2>2. event' = NoKey \/ event'.count = event.count
    BY <1>1, <1>4, AgedFacts, Constants DEF CountersTypeOK
  <2>3. \A j \in Clients : client'[j] = NoKey \/ client'[j].count = client[j].count
    BY <1>1, <1>4, AgedFacts, Constants DEF CountersTypeOK
  <2>4. NoKey.count = 0
    BY DEF NoKey
  <2>5. admitted' <= event'.count /\ event'.count <= admitted' + lostReplies'
    BY <1>1, <1>4, <2>1, <2>2, <2>4 DEF Inv, CountsAdmitted, CountersTypeOK
  <2>6. ASSUME NEW j \in Clients
        PROVE  /\ admittedOf'[j] <= client'[j].count
               /\ client'[j].count <= admittedOf'[j] + lostReplies'
    <3>1. admittedOf[j] <= client[j].count /\ client[j].count <= admittedOf[j] + lostReplies
      BY DEF Inv, CountsAdmitted
    <3>2. admittedOf'[j] = IF client'[j] = NoKey THEN 0 ELSE admittedOf[j]
      BY <1>4
    <3>. QED
      BY <1>1, <1>4, <2>1, <2>3, <2>4, <3>1, <3>2 DEF CountersTypeOK
  <2>. QED
    BY <2>5, <2>6 DEF CountsAdmitted
<1>. QED
  BY <1>5, <1>7, <1>8 DEF Inv

\* A step that touches no counter.
LEMMA Untouched ==
  ASSUME Inv, UNCHANGED <<counters, history>>
  PROVE  Inv'
BY DEF Inv, CountersTypeOK, CountsAdmitted, LifetimesOK, counters, history

\* Redis counts, or it does not answer: then a process admits by itself and
\* the counters stay, or count a script whose answer was lost.
LEMMA NextKeepsInv ==
  ASSUME Inv, [Next]_vars
  PROVE  Inv'
<1>1. lostReplies \in Nat
  BY DEF Inv, CountersTypeOK
<1>2. ASSUME NEW k \in Clients, SimpleRateLimit(k) PROVE Inv'
  <2>1. lostReplies' = lostReplies
    BY <1>2 DEF SimpleRateLimit
  <2>2. lostReplies' \in Nat /\ lostReplies <= lostReplies'
    BY <1>1, <2>1
  <2>. QED
    BY <1>2, <2>2, SimpleKeepsInv DEF SimpleRateLimit
<1>3. ASSUME NEW k \in Clients, NEW p \in Processes, SimpleRateLimitLocally(k, p)
      PROVE  Inv'
  <2>1. lostReplies' \in Nat /\ lostReplies <= lostReplies'
    BY <1>1, <1>3 DEF SimpleRateLimitLocally, LostReply
  <2>. QED
    BY <1>3, <2>1, SimpleKeepsInv DEF SimpleRateLimitLocally
<1>4. ASSUME NEW k \in Clients, EventAdmissionControl(k) PROVE Inv'
  BY <1>4, EventKeepsInv DEF EventAdmissionControl, Admit, Refuse
<1>5. ASSUME NEW k \in Clients, NEW p \in Processes, AllowLocalEvent(k, p) PROVE Inv'
  <2>1. Asked(k) /\ UNCHANGED <<simple, admitted, admittedOf>>
    BY <1>5, AdmissionAssumption DEF AllowLocalEvent, Admit, Refuse, Redis
  <2>2. CASE UNCHANGED <<event, client, lostReplies>>
    <3>1. lostReplies' \in Nat /\ lostReplies <= lostReplies'
      BY <1>1, <2>2
    <3>. QED
      BY <2>1, <2>2, <3>1, SimpleKeepsInv
  <2>3. CASE LostReply /\ EventAdmission(k)
    BY <2>1, <2>3, EventKeepsInv DEF LostReply
  <2>. QED
    BY <1>5, <2>2, <2>3 DEF AllowLocalEvent
<1>6. CASE ToggleRedis
  BY <1>6, Untouched DEF ToggleRedis
<1>7. CASE Tick
  BY <1>7, TickKeepsInv
<1>8. CASE UNCHANGED vars
  BY <1>8, Untouched DEF vars
<1>. QED
  BY <1>2, <1>3, <1>4, <1>5, <1>6, <1>7, <1>8 DEF Next

\* eventAdmissionScript gives back what a refusal took, so whatever clients do
\* the counters of an event and of its clients are the admissions, and lost
\* replies.
THEOREM RefusalsSpendNothing == Spec => []CountsAdmitted
<1>1. Inv => CountsAdmitted
  BY DEF Inv
<1>. QED
  BY <1>1, InvInit, NextKeepsInv, PTL DEF Spec

\* Every branch of the scripts leaves its key a lifetime of at most a window,
\* so a client that stays quiet for that long is a client like any other.
THEOREM QuietClientsAreForgotten == Spec => []QuietWindowFrees
<1>1. Inv => QuietWindowFrees
  <2>. SUFFICES ASSUME Inv PROVE QuietWindowFrees
    OBVIOUS
  <2>1. ASSUME NEW n \in Nat, NEW w \in Nat, NEW l \in Nat, NEW key \in Key(l, w),
               Fresh(key, n, w), n >= w
        PROVE  key = NoKey
    BY <2>1 DEF Fresh, Key
  <2>2. CountersTypeOK
    BY DEF Inv
  <2>3. ASSUME NEW k \in Clients
        PROVE  /\ idle[k] >= SimpleWindow => simple[k] = NoKey
               /\ idle[k] >= Window => client[k] = NoKey
    <3>1. Fresh(simple[k], idle[k], SimpleWindow) /\ Fresh(client[k], idle[k], Window)
      BY DEF Inv, LifetimesOK
    <3>2. /\ simple[k] \in Key(SimpleLimit + 1, SimpleWindow)
          /\ client[k] \in Key(ClientLimit, Window) /\ idle[k] \in Nat
      BY <2>2 DEF CountersTypeOK
    <3>. QED
      BY <2>1, <3>1, <3>2, Constants
  <2>4. ASSUME \A k \in Clients : idle[k] >= Window PROVE event = NoKey
    <3>1. ASSUME NEW k \in Clients, Fresh(event, idle[k], Window) PROVE event = NoKey
      BY <2>1, <2>2, <2>4, <3>1, Constants DEF CountersTypeOK
    <3>. QED
      BY <3>1 DEF Inv, LifetimesOK
  <2>. QED
    BY <2>3, <2>4 DEF QuietWindowFrees
<1>. QED
  BY <1>1, InvInit, NextKeepsInv, PTL DEF Spec

------------------------------------------------------------------------------
(* Bursts.                                                                 *)

\* The types of the buckets and of what was admitted.
BurstTypeOK ==
  /\ bucket \in [Processes -> 0 .. Capacity]
  /\ recent \in [Sources -> [1 .. Window -> Nat]]

\* What Redis has admitted in a stretch of Window ticks is counted in the
\* event's key, but for what earlier keys had counted: less than the limit,
\* since their first request was longer ago.  In the ticks that the key has
\* lived since it was last given its lifetime, that holds of this key too.
WindowsOK ==
  /\ \A n \in 2 .. Window : recent[Redis][n - 1] <= recent[Redis][n]
  /\ recent[Redis][Window] < EventLimit + event.count
  /\ event.count >= 1 =>
       \A n \in 1 .. Window - event.ttl : recent[Redis][n] < event.count

\* In n ticks a process has admitted no more than what is missing in the
\* bucket and what was refilled.
BucketOK(p) ==
  \A n \in 1 .. Window :
    Window * recent[p][n] + bucket[p] <= Capacity + (n - 1) * EventLimit

BurstOK == BurstTypeOK /\ WindowsOK /\ \A p \in Processes : BucketOK(p)

\* Multiplication, as far as the tokens need it.
LEMMA Products ==
  ASSUME NEW w \in Nat, NEW x \in Nat
  PROVE  w * x \in Nat /\ w * (x + 1) = w * x + w /\ w * 0 = 0
OBVIOUS

\* A full bucket and its refill, in tokens.
LEMMA BucketHolds ==
  ASSUME NEW w \in Nat \ {0}, NEW l \in Nat \ {0}, NEW x \in Nat,
         w * x <= l * w + (w - 1) * l
  PROVE  x < 2 * l
<1>. SUFFICES ASSUME x >= 2 * l PROVE FALSE
  OBVIOUS
<1>1. PICK d \in Nat : x = 2 * l + d
  <2>1. x - 2 * l \in Nat /\ x = 2 * l + (x - 2 * l)
    OBVIOUS
  <2>. QED
    BY <2>1
<1>2. w * x = 2 * (w * l) + w * d
  BY <1>1
<1>3. l * w + (w - 1) * l = 2 * (w * l) - l
  OBVIOUS
<1>4. w * d \in Nat /\ w * l \in Nat
  OBVIOUS
<1>. QED
  BY <1>2, <1>3, <1>4

\* What the script makes of the event's key: it counts one more and has the
\* lifetime it had, or a new one; or it counts as many and has a new one.
LEMMA EventKeyFacts ==
  ASSUME CountersTypeOK, NEW k \in Clients, EventAdmission(k)
  PROVE  /\ OverLimits(k) = "none" =>
              /\ event'.count = event.count + 1
              /\ event'.ttl = Window \/ (event.count # 0 /\ event'.ttl = event.ttl)
         /\ OverLimits(k) # "none" => event'.count = event.count /\ event'.ttl = Window
<1>. DEFINE over == OverLimits(k)
<1>1. event.count \in Nat
  BY Constants DEF CountersTypeOK, Key
<1>2. event' = IF over = "none" THEN IncrWithTTL(event, Window)
               ELSE Undo(IncrWithTTL(event, Window), Window)
  BY DEF EventAdmission
<1>. HIDE DEF over
<1>. QED
  BY <1>1, <1>2 DEF IncrWithTTL, Undo, over

\* A request that the script has seen: admitted, refused, or not answered.
LEMMA ScriptKeepsWindows ==
  ASSUME Inv, BurstOK, BurstTypeOK', NEW k \in Clients, EventAdmission(k),
         \/ recent'[Redis] = recent[Redis]
         \/ /\ OverLimits(k) = "none"
            /\ recent'[Redis] = [n \in 1 .. Window |-> recent[Redis][n] + 1]
  PROVE  WindowsOK'
<1>. DEFINE R == recent[Redis]
<1>0. /\ Redis \in Sources /\ R \in [1 .. Window -> Nat] /\ recent'[Redis] \in [1 .. Window -> Nat]
      /\ Window \in Nat \ {0} /\ EventLimit \in Nat \ {0}
  BY Constants DEF Sources, BurstOK, BurstTypeOK
<1>1. event.count \in Nat /\ event.ttl \in Nat
  BY Constants DEF Inv, CountersTypeOK, Key
<1>2. PICK a \in {0, 1} : /\ event'.count = event.count + a
                          /\ event'.ttl = Window \/ (event.count # 0 /\ event'.ttl = event.ttl)
                          /\ \A n \in 1 .. Window : recent'[Redis][n] <= R[n] + a
  <2>1. /\ OverLimits(k) = "none" =>
             /\ event'.count = event.count + 1
             /\ event'.ttl = Window \/ (event.count # 0 /\ event'.ttl = event.ttl)
        /\ OverLimits(k) # "none" => event'.count = event.count /\ event'.ttl = Window
    BY EventKeyFacts DEF Inv
  <2>2. \A n \in 1 .. Window : R[n] \in Nat
    BY <1>0
  <2>3. CASE OverLimits(k) = "none"
    <3>1. CASE recent'[Redis] = R
      <4>1. \A n \in 1 .. Window : recent'[Redis][n] <= R[n] + 1
        BY ONLY <2>2, <3>1
      <4>. QED
        BY ONLY <2>1, <2>3, <4>1
    <3>2. CASE recent'[Redis] = [n \in 1 .. Window |-> R[n] + 1]
      <4>1. \A n \in 1 .. Window : recent'[Redis][n] <= R[n] + 1
        BY ONLY <2>2, <3>2
      <4>. QED
        BY ONLY <2>1, <2>3, <4>1
    <3>. QED
      BY <3>1, <3>2
  <2>4. CASE OverLimits(k) # "none"
    <3>1. recent'[Redis] = R
      BY <2>4
    <3>2. \A n \in 1 .. Window : recent'[Redis][n] <= R[n] + 0
      BY ONLY <2>2, <3>1
    <3>3. event'.count = event.count + 0
      BY ONLY <1>1, <2>1, <2>4
    <3>. QED
      BY ONLY <2>1, <2>4, <3>2, <3>3
  <2>. QED
    BY ONLY <2>3, <2>4
<1>3. \A n \in 2 .. Window : recent'[Redis][n - 1] <= recent'[Redis][n]
  <2>1. \A n \in 2 .. Window : R[n - 1] <= R[n] /\ n - 1 \in 1 .. Window /\ n \in 1 .. Window
    BY <1>0 DEF BurstOK, WindowsOK
  <2>2. CASE recent'[Redis] = R
    BY <2>1, <2>2
  <2>3. CASE recent'[Redis] = [n \in 1 .. Window |-> R[n] + 1]
    <3>1. \A n \in 1 .. Window : recent'[Redis][n] = R[n] + 1 /\ R[n] \in Nat
      BY <1>0, <2>3
    <3>. HIDE DEF R
    <3>. QED
      BY <2>1, <3>1
  <2>. QED
    BY <2>2, <2>3
<1>4. recent'[Redis][Window] < EventLimit + event'.count
  <2>1. R[Window] < EventLimit + event.count
    BY DEF BurstOK, WindowsOK
  <2>2. Window \in 1 .. Window /\ R[Window] \in Nat /\ recent'[Redis][Window] \in Nat
    BY ONLY <1>0
  <2>3. recent'[Redis][Window] <= R[Window] + a
    BY ONLY <1>2, <2>2
  <2>4. /\ event'.count = event.count + a
        /\ event.count \in Nat /\ EventLimit \in Nat /\ a \in {0, 1}
    BY ONLY <1>0, <1>1, <1>2
  <2>. HIDE DEF R
  <2>. QED
    BY ONLY <2>1, <2>2, <2>3, <2>4
<1>5. \A n \in 1 .. Window - event'.ttl : recent'[Redis][n] < event'.count
  <2>1. CASE event'.ttl = Window
    BY <1>0, <2>1
  <2>2. CASE event.count # 0 /\ event'.ttl = event.ttl
    <3>1. \A n \in 1 .. Window - event'.ttl : n \in 1 .. Window /\ R[n] < event.count
      <4>1. event.count >= 1 => \A n \in 1 .. Window - event.ttl : R[n] < event.count
        BY DEF BurstOK, WindowsOK
      <4>2. event.count >= 1 /\ \A n \in 1 .. Window - event.ttl : n \in 1 .. Window
        BY ONLY <1>0, <1>1, <2>2
      <4>. HIDE DEF R
      <4>. QED
        BY ONLY <2>2, <4>1, <4>2
    <3>2. \A n \in 1 .. Window : /\ recent'[Redis][n] <= R[n] + a
                                  /\ R[n] \in Nat /\ recent'[Redis][n] \in Nat
      BY ONLY <1>0, <1>2
    <3>. QED
      BY ONLY <1>1, <1>2, <3>1, <3>2, SMTT(30)
  <2>. QED
    BY <1>2, <2>1, <2>2
<1>. QED
  BY <1>3, <1>4, <1>5 DEF WindowsOK

\* Time passes: when the key expires, the stretch that begins has less than
\* the limit.
LEMMA TickKeepsWindows ==
  ASSUME Inv, BurstOK, Tick
  PROVE  WindowsOK'
<1>. DEFINE R == recent[Redis]
<1>0. /\ Redis \in Sources /\ R \in [1 .. Window -> Nat]
      /\ Window \in Nat \ {0} /\ EventLimit \in Nat \ {0}
  BY Constants DEF Sources, BurstOK, BurstTypeOK
<1>1. /\ event.count \in Nat /\ event.ttl \in Nat /\ event.count <= EventLimit
      /\ event = NoKey \/ event.ttl >= 1
  BY Constants DEF Inv, CountersTypeOK, Key, LifetimesOK, Fresh
<1>2. recent'[Redis] = [n \in 1 .. Window |-> IF n = 1 THEN 0 ELSE R[n - 1]]
  BY <1>0 DEF Tick
<1>3. \A n \in 2 .. Window : n - 1 \in 1 .. Window /\ n \in 1 .. Window /\ R[n - 1] <= R[n]
  BY <1>0 DEF BurstOK, WindowsOK
<1>4. /\ recent'[Redis][1] = 0
      /\ \A n \in 2 .. Window : recent'[Redis][n] = R[n - 1]
  BY <1>0, <1>2
<1>5. \A n \in 2 .. Window : recent'[Redis][n - 1] <= recent'[Redis][n]
  <2>1. ASSUME NEW n \in 2 .. Window PROVE recent'[Redis][n - 1] <= recent'[Redis][n]
    <3>1. CASE n = 2
      <4>1. n - 1 = 1 /\ n - 1 \in 1 .. Window
        BY <1>3, <3>1
      <4>2. recent'[Redis][n] = R[n - 1] /\ R[n - 1] \in Nat
        BY <1>0, <1>4, <4>1
      <4>. QED
        BY ONLY <1>4, <4>1, <4>2
    <3>2. CASE n # 2
      <4>1. n - 1 \in 2 .. Window
        BY <1>0, <3>2
      <4>. QED
        BY <1>3, <1>4, <4>1
    <3>. QED
      BY <3>1, <3>2
  <2>. QED
    BY <2>1
<1>6. recent'[Redis][Window] <= R[Window]
  BY <1>0, <1>3, <1>4
<1>7. event' = Aged(event)
  BY DEF Tick
<1>8. CASE event = NoKey
  <2>1. event' = NoKey /\ NoKey.count = 0
    BY <1>7, <1>8 DEF Aged, NoKey
  <2>2. recent'[Redis][Window] \in Nat
    BY <1>0, <1>2, <1>3
  <2>3. recent'[Redis][Window] < EventLimit + event'.count
    BY <1>0, <1>6, <1>8, <2>1, <2>2 DEF BurstOK, WindowsOK
  <2>. QED
    BY <1>5, <2>1, <2>3 DEF WindowsOK
<1>9. CASE event.ttl = 1
  <2>1. event' = NoKey /\ NoKey.count = 0
    BY <1>7, <1>9 DEF Aged, NoKey
  <2>2. recent'[Redis][Window] < EventLimit
    <3>1. CASE Window = 1
      BY <1>0, <1>4, <3>1
    <3>2. CASE Window # 1 /\ event.count = 0
      BY <1>0, <1>1, <1>3, <1>4, <3>2 DEF BurstOK, WindowsOK
    <3>3. CASE Window # 1 /\ event.count # 0
      <4>1. Window - 1 \in 1 .. Window - event.ttl /\ Window \in 2 .. Window
        BY <1>0, <1>9, <3>3
      <4>2. R[Window - 1] < event.count
        BY <1>1, <3>3, <4>1 DEF BurstOK, WindowsOK
      <4>. QED
        BY <1>0, <1>1, <1>3, <1>4, <4>1, <4>2
    <3>. QED
      BY <3>1, <3>2, <3>3
  <2>. QED
    BY <1>0, <1>5, <2>1, <2>2 DEF WindowsOK
<1>10. CASE event # NoKey /\ event.ttl > 1
  <2>1. event'.count = event.count /\ event'.ttl = event.ttl - 1
    <3>1. event' = [event EXCEPT !.ttl = @ - 1]
      BY <1>7, <1>10 DEF Aged
    <3>. QED
      BY <3>1, Constants DEF Inv, CountersTypeOK, Key
  <2>2. recent'[Redis][Window] < EventLimit + event'.count
    <3>1. R[Window] < EventLimit + event.count
      BY DEF BurstOK, WindowsOK
    <3>2. Window \in 1 .. Window /\ R[Window] \in Nat /\ recent'[Redis][Window] \in Nat
      BY <1>0, <1>2, <1>3
    <3>. QED
      BY ONLY <1>0, <1>1, <1>6, <2>1, <3>1, <3>2
  <2>3. ASSUME event.count >= 1, NEW n \in 1 .. Window - event'.ttl
        PROVE  recent'[Redis][n] < event.count
    <3>1. CASE n = 1
      BY <1>1, <1>4, <2>3, <3>1
    <3>2. CASE n # 1
      <4>1. n \in 2 .. Window /\ n - 1 \in 1 .. Window - event.ttl
        BY <1>0, <1>1, <1>10, <2>1, <2>3, <3>2
      <4>. QED
        BY <1>4, <2>3, <4>1 DEF BurstOK, WindowsOK
    <3>. QED
      BY <3>1, <3>2
  <2>. QED
    BY <1>5, <2>1, <2>2, <2>3 DEF WindowsOK
<1>. QED
  BY <1>1, <1>8, <1>9, <1>10

\* A process takes a token for what it admits, ...
LEMMA TokenTaken ==
  ASSUME BurstOK, NEW p \in Processes, BurstTypeOK',
         bucket[p] >= Window, bucket'[p] = bucket[p] - Window,
         recent'[p] = [n \in 1 .. Window |-> recent[p][n] + 1]
  PROVE  BucketOK(p)'
<1>0. /\ Window \in Nat /\ EventLimit \in Nat /\ p \in Sources
      /\ \A n \in 1 .. Window : recent[p][n] \in Nat
      /\ bucket[p] \in Nat
  <2>1. Capacity \in Nat
    BY Constants DEF Capacity
  <2>. QED
    BY <2>1, Constants DEF Sources, BurstOK, BurstTypeOK
<1>1. ASSUME NEW n \in 1 .. Window
      PROVE  Window * recent'[p][n] + bucket'[p] <= Capacity + (n - 1) * EventLimit
  <2>1. recent'[p][n] = recent[p][n] + 1
    OBVIOUS
  <2>2. Window * recent'[p][n] = Window * recent[p][n] + Window /\ Window * recent[p][n] \in Nat
    BY <1>0, <2>1, Products
  <2>3. Window * recent[p][n] + bucket[p] <= Capacity + (n - 1) * EventLimit
    BY DEF BurstOK, BucketOK
  <2>4. Window * recent'[p][n] + bucket'[p] = Window * recent[p][n] + bucket[p]
    BY <1>0, <2>2
  <2>. QED
    BY <2>3, <2>4
<1>. QED
  BY <1>1 DEF BucketOK

\* ... and the clock puts back what a tick is worth.
LEMMA BucketRefilled ==
  ASSUME BurstOK, NEW p \in Processes, Tick, BurstTypeOK'
  PROVE  BucketOK(p)'
<1>0. /\ Window \in Nat /\ EventLimit \in Nat /\ p \in Sources /\ Capacity \in Nat
      /\ \A n \in 1 .. Window : recent[p][n] \in Nat
      /\ bucket[p] \in Nat
  <2>1. Capacity \in Nat
    BY Constants DEF Capacity
  <2>. QED
    BY <2>1, Constants DEF Sources, BurstOK, BurstTypeOK
<1>1. bucket'[p] \in Nat /\ bucket'[p] <= Capacity /\ bucket'[p] <= bucket[p] + EventLimit
  <2>1. bucket'[p] = Min({Capacity, bucket[p] + EventLimit})
    BY DEF Tick
  <2>2. bucket[p] + EventLimit \in Nat
    BY <1>0
  <2>. QED
    BY <1>0, <2>1, <2>2, MinFacts
<1>2. recent'[p] = [n \in 1 .. Window |-> IF n = 1 THEN 0 ELSE recent[p][n - 1]]
  BY <1>0 DEF Tick
<1>3. ASSUME NEW n \in 1 .. Window
      PROVE  Window * recent'[p][n] + bucket'[p] <= Capacity + (n - 1) * EventLimit
  <2>1. CASE n = 1
    <3>1. recent'[p][n] = 0
      BY <1>2, <2>1
    <3>2. Window * recent'[p][n] = 0 /\ (n - 1) * EventLimit = 0
      BY <1>0, <2>1, <3>1, Products
    <3>. QED
      BY <1>0, <1>1, <3>2
  <2>2. CASE n # 1
    <3>1. n - 1 \in 1 .. Window /\ recent'[p][n] = recent[p][n - 1]
      BY <1>0, <1>2, <2>2
    <3>2. Window * recent[p][n - 1] + bucket[p] <= Capacity + (n - 2) * EventLimit
      <4>1. (n - 1) - 1 = n - 2
        BY <1>0
      <4>. QED
        BY <3>1, <4>1 DEF BurstOK, BucketOK
    <3>3. (n - 1) * EventLimit = (n - 2) * EventLimit + EventLimit
      <4>1. n - 2 \in Nat /\ n - 1 = (n - 2) + 1
        BY <1>0, <2>2
      <4>. QED
        BY <1>0, <4>1
    <3>4. Window * recent[p][n - 1] \in Nat /\ (n - 2) * EventLimit \in Nat
      <4>1. n - 2 \in Nat
        BY <1>0, <2>2
      <4>. QED
        BY <1>0, <3>1, <4>1, Products
    <3>. QED
      BY <1>0, <1>1, <3>1, <3>2, <3>3, <3>4
  <2>. QED
    BY <2>1, <2>2
<1>. QED
  BY <1>3 DEF BucketOK

\* Nothing has been admitted when the processes start.
LEMMA BurstInit == Init => BurstOK
<1>. SUFFICES ASSUME Init PROVE BurstOK
  OBVIOUS
<1>0. /\ Window \in Nat \ {0} /\ EventLimit \in Nat \ {0} /\ Capacity \in Nat
      /\ Redis \in Sources /\ Processes \subseteq Sources
  BY Constants DEF Capacity, Sources
<1>1. /\ bucket = [p \in Processes |-> Capacity] /\ event = NoKey
      /\ recent = [s \in Sources |-> [n \in 1 .. Window |-> 0]]
  BY DEF Init
<1>2. BurstTypeOK
  BY <1>0, <1>1 DEF BurstTypeOK
<1>3. WindowsOK
  BY <1>0, <1>1 DEF WindowsOK, NoKey
<1>4. ASSUME NEW p \in Processes, NEW n \in 1 .. Window
      PROVE  Window * recent[p][n] + bucket[p] <= Capacity + (n - 1) * EventLimit
  <2>1. recent[p][n] = 0 /\ bucket[p] = Capacity
    BY <1>0, <1>1
  <2>2. Window * recent[p][n] = 0
    BY <1>0, <2>1, Products
  <2>3. (n - 1) * EventLimit \in Nat
    <3>1. n - 1 \in Nat
      BY <1>0
    <3>. QED
      BY <1>0, <3>1, Products
  <2>. QED
    BY <1>0, <2>1, <2>2, <2>3
<1>. QED
  BY <1>2, <1>3, <1>4 DEF BurstOK, BucketOK

\* A step in which Redis and the buckets admit nothing.
LEMMA BurstUntouched ==
  ASSUME BurstOK, UNCHANGED <<event, bucket, recent>>
  PROVE  BurstOK'
BY DEF BurstOK, BurstTypeOK, WindowsOK, BucketOK

\* Admissions keep their types.
LEMMA BurstTypes ==
  ASSUME BurstOK, Next
  PROVE  BurstTypeOK'
<1>0. /\ Window \in Nat \ {0} /\ EventLimit \in Nat /\ Capacity \in Nat
      /\ BurstTypeOK /\ Redis \in Sources /\ Processes \subseteq Sources
  BY Constants DEF Capacity, Sources, BurstOK
<1>1. ASSUME NEW k \in Clients, NEW s \in Sources, Admit(k, s)
      PROVE  recent' \in [Sources -> [1 .. Window -> Nat]]
  <2>1. recent' = [recent EXCEPT ![s] = [n \in 1 .. Window |-> recent[s][n] + 1]]
    BY <1>1 DEF Admit
  <2>2. [n \in 1 .. Window |-> recent[s][n] + 1] \in [1 .. Window -> Nat]
    BY <1>0 DEF BurstTypeOK
  <2>. QED
    BY <1>0, <2>1, <2>2 DEF BurstTypeOK
<1>2. ASSUME NEW k \in Clients, EventAdmissionControl(k) PROVE BurstTypeOK'
  BY <1>0, <1>1, <1>2 DEF EventAdmissionControl, Refuse, buckets, BurstTypeOK
<1>3. ASSUME NEW k \in Clients, NEW p \in Processes, AllowLocalEvent(k, p)
      PROVE  BurstTypeOK'
  <2>1. recent' \in [Sources -> [1 .. Window -> Nat]]
    BY <1>0, <1>1, <1>3 DEF AllowLocalEvent, Refuse, BurstTypeOK
  <2>2. bucket' \in [Processes -> 0 .. Capacity]
    BY <1>0, <1>3 DEF AllowLocalEvent, BurstTypeOK
  <2>. QED
    BY <2>1, <2>2 DEF BurstTypeOK
<1>4. CASE Tick
  <2>1. \A p \in Processes : Min({Capacity, bucket[p] + EventLimit}) \in 0 .. Capacity
    <3>1. ASSUME NEW p \in Processes
          PROVE  Min({Capacity, bucket[p] + EventLimit}) \in 0 .. Capacity
      <4>1. bucket[p] + EventLimit \in Nat
        BY <1>0 DEF BurstTypeOK
      <4>. QED
        BY <1>0, <4>1, MinFacts
    <3>. QED
      BY <3>1
  <2>2. \A s \in Sources : [n \in 1 .. Window |-> IF n = 1 THEN 0 ELSE recent[s][n - 1]]
                             \in [1 .. Window -> Nat]
    BY <1>0 DEF BurstTypeOK
  <2>. QED
    BY <1>4, <2>1, <2>2 DEF Tick, BurstTypeOK
<1>5. CASE ToggleRedis \/ \E k \in Clients :
             SimpleRateLimit(k) \/ \E p \in Processes : SimpleRateLimitLocally(k, p)
  BY <1>0, <1>5 DEF ToggleRedis, SimpleRateLimit, SimpleRateLimitLocally, buckets, history,
     BurstTypeOK
<1>. QED
  BY <1>2, <1>3, <1>4, <1>5 DEF Next

\* No step lets a burst grow out of bounds.
LEMMA BurstStep ==
  ASSUME Inv, BurstOK, [Next]_vars
  PROVE  BurstOK'
<1>0. Redis \in Sources /\ Redis \notin Processes /\ Processes \subseteq Sources /\ BurstTypeOK
  BY AdmissionAssumption DEF Sources, BurstOK
<1>1. ASSUME NEW k \in Clients, EventAdmissionControl(k) PROVE BurstOK'
  <2>1. BurstTypeOK'
    BY <1>1, BurstTypes DEF Next
  <2>2. \/ recent'[Redis] = recent[Redis]
        \/ /\ OverLimits(k) = "none"
           /\ recent'[Redis] = [n \in 1 .. Window |-> recent[Redis][n] + 1]
    BY <1>0, <1>1 DEF EventAdmissionControl, Admit, Refuse, BurstTypeOK
  <2>3. WindowsOK'
    BY <1>1, <2>1, <2>2, ScriptKeepsWindows DEF EventAdmissionControl
  <2>4. \A p \in Processes : recent'[p] = recent[p]
    BY <1>0, <1>1 DEF EventAdmissionControl, Admit, Refuse, BurstTypeOK
  <2>5. \A p \in Processes : BucketOK(p)'
    BY <1>1, <2>4 DEF EventAdmissionControl, buckets, BurstOK, BucketOK
  <2>. QED
    BY <2>1, <2>3, <2>5 DEF BurstOK
<1>2. ASSUME NEW k \in Clients, NEW p \in Processes, AllowLocalEvent(k, p)
      PROVE  BurstOK'
  <2>1. BurstTypeOK'
    BY <1>2, BurstTypes DEF Next
  <2>2. \A s \in Sources \ {p} : recent'[s] = recent[s]
    BY <1>0, <1>2 DEF AllowLocalEvent, Admit, Refuse, BurstTypeOK
  <2>3. recent'[Redis] = recent[Redis]
    BY <1>0, <2>2
  <2>4. WindowsOK'
    <3>1. CASE EventAdmission(k)
      BY <2>1, <2>3, <3>1, ScriptKeepsWindows
    <3>2. CASE UNCHANGED event
      BY <2>3, <3>2 DEF BurstOK, WindowsOK
    <3>. QED
      BY <1>2, <3>1, <3>2 DEF AllowLocalEvent
  <2>5. BucketOK(p)'
    <3>1. CASE /\ bucket[p] >= Window /\ Admit(k, p)
               /\ bucket' = [bucket EXCEPT ![p] = @ - Window]
      <4>1. /\ recent'[p] = [n \in 1 .. Window |-> recent[p][n] + 1]
            /\ bucket'[p] = bucket[p] - Window
        BY <1>0, <3>1 DEF Admit, BurstTypeOK
      <4>. QED
        BY <2>1, <3>1, <4>1, TokenTaken
    <3>2. CASE Refuse /\ UNCHANGED bucket
      BY <3>2 DEF Refuse, BurstOK, BucketOK
    <3>. QED
      BY <1>2, <3>1, <3>2 DEF AllowLocalEvent
  <2>6. ASSUME NEW q \in Processes, q # p PROVE BucketOK(q)'
    <3>1. recent'[q] = recent[q] /\ bucket'[q] = bucket[q]
      BY <1>0, <1>2, <2>2, <2>6 DEF AllowLocalEvent, BurstTypeOK
    <3>. QED
      BY <3>1 DEF BurstOK, BucketOK
  <2>. QED
    BY <2>1, <2>4, <2>5, <2>6 DEF BurstOK
<1>3. CASE Tick
  <2>1. BurstTypeOK'
    BY <1>3, BurstTypes DEF Next
  <2>. QED
    BY <1>3, <2>1, TickKeepsWindows, BucketRefilled DEF BurstOK
<1>4. CASE ToggleRedis \/ \E k \in Clients :
             SimpleRateLimit(k) \/ \E p \in Processes : SimpleRateLimitLocally(k, p)
  BY <1>4, BurstUntouched DEF ToggleRedis, SimpleRateLimit, SimpleRateLimitLocally, buckets,
     counters, history
<1>5. CASE UNCHANGED vars
  BY <1>5, BurstUntouched DEF vars, buckets, counters, history
<1>. QED
  BY <1>1, <1>2, <1>3, <1>4, <1>5 DEF Next

\* "Per-event admission limits smooth hot ticket drops": in no stretch of a
\* window's length does Redis, or a process that is on its own, admit twice the
\* limit, wherever the fixed windows of the scripts meet in it.
THEOREM BurstsStayBounded == Spec => []BurstBounded
<1>1. Inv /\ BurstOK => BurstBounded
  <2>. SUFFICES ASSUME Inv, BurstOK PROVE BurstBounded
    OBVIOUS
  <2>0. /\ Window \in Nat \ {0} /\ EventLimit \in Nat \ {0} /\ Window \in 1 .. Window
        /\ Redis \in Sources /\ Processes \subseteq Sources
        /\ \A s \in Sources : recent[s][Window] \in Nat
    BY Constants DEF Sources, BurstOK, BurstTypeOK
  <2>1. event.count \in Nat /\ event.count <= EventLimit
    BY Constants DEF Inv, CountersTypeOK, Key
  <2>2. recent[Redis][Window] < 2 * EventLimit
    BY <2>0, <2>1 DEF BurstOK, WindowsOK
  <2>3. ASSUME NEW p \in Processes PROVE recent[p][Window] < 2 * EventLimit
    <3>1. Window * recent[p][Window] + bucket[p]
            <= EventLimit * Window + (Window - 1) * EventLimit
      BY <2>0 DEF BurstOK, BucketOK, Capacity
    <3>2. bucket[p] \in Nat
      <4>1. Capacity \in Nat
        BY Constants DEF Capacity
      <4>. QED
        BY <4>1 DEF BurstOK, BurstTypeOK
    <3>3. /\ Window * recent[p][Window] \in Nat
          /\ EventLimit * Window \in Nat /\ (Window - 1) * EventLimit \in Nat
      <4>1. recent[p][Window] \in Nat /\ Window - 1 \in Nat
        BY <2>0
      <4>. QED
        BY <2>0, <4>1, Products
    <3>4. Window * recent[p][Window] <= EventLimit * Window + (Window - 1) * EventLimit
      BY <3>1, <3>2, <3>3
    <3>5. recent[p][Window] \in Nat
      BY <2>0
    <3>. QED
      BY <2>0, <3>4, <3>5, BucketHolds
  <2>. QED
    BY <2>2, <2>3 DEF BurstBounded, Total
<1>2. Spec => []Inv
  BY InvInit, NextKeepsInv, PTL DEF Spec
<1>3. Inv /\ BurstOK /\ [Next]_vars => BurstOK'
  BY BurstStep
<1>. QED
  BY <1>1, <1>2, <1>3, BurstInit, PTL DEF Spec

\* The types of what is in neither invariant.
OthersTypeOK ==
  /\ stage \in [Clients -> {"none", "limited"}]
  /\ redisUp \in BOOLEAN
  /\ shared \in [Processes -> 0 .. Burst]
  /\ idle \in [Clients -> 0 .. SimpleWindow + Window]
  /\ lostReplies \in 0 .. MaxLostReplies

\* Every step keeps them.
LEMMA OthersTypes ==
  ASSUME OthersTypeOK, [Next]_vars
  PROVE  OthersTypeOK'
<1>0. /\ SimpleWindow + Window \in Nat /\ Burst \in Nat \ {0} /\ MaxLostReplies \in Nat
      /\ OthersTypeOK
  BY Constants, AdmissionAssumption
<1>1. ASSUME NEW k \in Clients, Asked(k) PROVE idle' \in [Clients -> 0 .. SimpleWindow + Window]
  BY <1>0, <1>1 DEF Asked, OthersTypeOK
<1>2. ASSUME NEW k \in Clients, SimpleRateLimit(k) \/ EventAdmissionControl(k)
      PROVE  OthersTypeOK'
  <2>1. \E s \in {"none", "limited"} : stage' = [stage EXCEPT ![k] = s]
    BY <1>2 DEF SimpleRateLimit, EventAdmissionControl, Goto
  <2>2. Asked(k) /\ UNCHANGED <<redisUp, shared, lostReplies>>
    BY <1>2 DEF SimpleRateLimit, EventAdmissionControl, buckets
  <2>. QED
    BY <1>0, <1>1, <2>1, <2>2 DEF OthersTypeOK
<1>3. ASSUME NEW k \in Clients, NEW p \in Processes,
             SimpleRateLimitLocally(k, p) \/ AllowLocalEvent(k, p)
      PROVE  OthersTypeOK'
  <2>1. lostReplies' \in 0 .. MaxLostReplies
    BY <1>0, <1>3 DEF SimpleRateLimitLocally, AllowLocalEvent, LostReply, OthersTypeOK
  <2>2. UNCHANGED stage \/ \E s \in {"none", "limited"} : stage' = [stage EXCEPT ![k] = s]
    BY <1>3 DEF SimpleRateLimitLocally, AllowLocalEvent, Goto
  <2>3. stage' \in [Clients -> {"none", "limited"}]
    BY <1>0, <2>2 DEF OthersTypeOK
  <2>4. shared' \in [Processes -> 0 .. Burst]
    <3>1. UNCHANGED shared \/ (shared[p] > 0 /\ shared' = [shared EXCEPT ![p] = shared[p] - 1])
      BY <1>3 DEF SimpleRateLimitLocally, AllowLocalEvent
    <3>. QED
      BY <1>0, <3>1 DEF OthersTypeOK
  <2>5. Asked(k) /\ UNCHANGED redisUp
    BY <1>3 DEF SimpleRateLimitLocally, AllowLocalEvent
  <2>. QED
    BY <1>0, <1>1, <2>1, <2>3, <2>4, <2>5 DEF OthersTypeOK
<1>4. CASE Tick
  <2>1. \A k \in Clients : Min({SimpleWindow + Window, idle[k] + 1}) \in 0 .. SimpleWindow + Window
    <3>1. ASSUME NEW k \in Clients
          PROVE  Min({SimpleWindow + Window, idle[k] + 1}) \in 0 .. SimpleWindow + Window
      <4>. DEFINE far == SimpleWindow + Window
      <4>1. idle[k] + 1 \in Nat /\ far \in Nat
        BY <1>0 DEF OthersTypeOK
      <4>. HIDE DEF far
      <4>2. Min({far, idle[k] + 1}) \in Nat /\ Min({far, idle[k] + 1}) <= far
        BY <4>1, MinFacts
      <4>3. Min({far, idle[k] + 1}) \in 0 .. far
        BY <4>1, <4>2
      <4>. QED
        BY <4>3 DEF far
    <3>. QED
      BY <3>1
  <2>2. idle' \in [Clients -> 0 .. SimpleWindow + Window]
    BY <1>4, <2>1 DEF Tick
  <2>3. shared' \in [Processes -> 0 .. Burst] /\ UNCHANGED <<stage, redisUp, lostReplies>>
    BY <1>0, <1>4 DEF Tick
  <2>. QED
    BY <1>0, <2>2, <2>3 DEF OthersTypeOK
<1>5. CASE ToggleRedis \/ UNCHANGED vars
  BY <1>0, <1>5 DEF ToggleRedis, vars, buckets, history, OthersTypeOK
<1>. QED
  BY <1>2, <1>3, <1>4, <1>5 DEF Next

\* Every counter, bucket and clock keeps its type: no counter of admissions is
\* ever seen above its limit, and no bucket holds more than its capacity.
THEOREM AdmissionTypeCorrect == Spec => []TypeOK
<1>1. Inv /\ BurstOK /\ OthersTypeOK => TypeOK
  BY DEF Inv, CountersTypeOK, BurstOK, BurstTypeOK, OthersTypeOK, TypeOK
<1>2. Init => OthersTypeOK
  BY Constants, AdmissionAssumption DEF Init, OthersTypeOK
<1>3. Spec => []Inv
  BY InvInit, NextKeepsInv, PTL DEF Spec
<1>4. OthersTypeOK /\ [Next]_vars => OthersTypeOK'
  BY OthersTypes
<1>5. Inv /\ BurstOK /\ [Next]_vars => BurstOK'
  BY BurstStep
<1>. QED
  BY <1>1, <1>2, <1>3, <1>4, <1>5, BurstInit, PTL DEF Spec

------------------------------------------------------------------------------
(* Idempotency.                                                            *)

\* What has happened to a request by the step it is at.
StepOK(r) ==
  /\ pc[r] \in {"new", "lookup", "lock", "handle"} => outcome[r] = "none"
  /\ pc[r] \in {"cache", "release"} => outcome[r] = "success" /\ Acquired(r)
  /\ pc[r] = "new" => ~Acquired(r) /\ retryOf[r] = {}
  /\ pc[r] \in {"lookup", "lock"} => ~Acquired(r)
  /\ (pc[r] = "handle" /\ r \notin failed) => Acquired(r)
  /\ pc[r] = "dead" => r \in failed

\* A success is cached before its request is answered; what is cached is a
\* success.
CacheOK ==
  /\ cached # NoRequest => outcome[cached] = "success"
  /\ \A q \in Requests :
       (pc[q] = "release" \/ Answered(q)) /\ q \notin failed =>
         cached # NoRequest

\* A retry of a success is on its way to the cached response.
RetryOK(r) ==
  \A q \in retryOf[r] :
    /\ Answered(q)
    /\ {r, q} \cap failed = {} =>
         /\ outcome[r] = "none" /\ pc[r] \in {"lookup", "done"}
         /\ pc[r] = "done" => replayed[r] # NoRequest

ReplayOK ==
  \A r \in Requests : replayed[r] # NoRequest => outcome[replayed[r]] = "success"

\* The request that the lock protects.
Claims(r) ==
  Holding(r) \/ (outcome[r] = "error" /\ now < lockedUntil[r])

\* As long as nobody is late and nothing fails, the key of the lock is that
\* of the one request it protects.
LockOK ==
  (late = {} /\ failed = {}) =>
    /\ \A r \in Requests :
         Claims(r) => lockKey = lockedUntil[r] /\ now < lockKey
    /\ \A r, q \in Requests : Claims(r) /\ Claims(q) => r = q

IInv ==
  /\ KeyTypeOK
  /\ \A r \in Requests : StepOK(r) /\ RetryOK(r)
  /\ CacheOK
  /\ ReplayOK
  /\ LockOK

\* The first state satisfies the invariant.
LEMMA InitIInv == KeyInit => IInv
  BY IdempotencyAssumption
     DEF KeyInit, IInv, KeyTypeOK, Step, StepOK, RetryOK, CacheOK, ReplayOK, LockOK,
         Claims, Holding, Acquired, Answered

\* A request that arrives has learnt which requests were answered.
LEMMA ArriveIInv ==
  ASSUME IInv, NEW r \in Requests, Arrive(r)
  PROVE  IInv'
<1> USE DEF Arrive, Proceed, keyState
<1>1. KeyTypeOK'
  BY DEF IInv, KeyTypeOK, Step
<1>2. \A q \in Requests : StepOK(q)'
  BY DEF IInv, KeyTypeOK, StepOK, Acquired
<1>3. \A q \in Requests : RetryOK(q)'
  BY DEF IInv, KeyTypeOK, StepOK, RetryOK, Answered
<1>4. CacheOK' /\ ReplayOK'
  BY DEF IInv, KeyTypeOK, CacheOK, ReplayOK, Answered
<1>5. LockOK'
  BY DEF IInv, KeyTypeOK, LockOK, Claims, Holding, Acquired
<1> QED BY <1>1, <1>2, <1>3, <1>4, <1>5 DEF IInv

\* A request finds the response of a success, or has none to find.
LEMMA LookupIInv ==
  ASSUME IInv, NEW r \in Requests, Lookup(r)
  PROVE  IInv'
<1> USE DEF Lookup, Proceed, Fails, keyState
<1>1. KeyTypeOK'
  BY DEF IInv, KeyTypeOK, Step
<1>2. \A q \in Requests : StepOK(q)'
  BY DEF IInv, KeyTypeOK, StepOK, Acquired
<1>3. \A q \in Requests : RetryOK(q)'
  BY DEF IInv, KeyTypeOK, StepOK, RetryOK, CacheOK, Answered
<1>4. CacheOK' /\ ReplayOK'
  BY DEF IInv, KeyTypeOK, StepOK, CacheOK, ReplayOK, Answered
<1>5. LockOK'
  BY DEF IInv, KeyTypeOK, StepOK, LockOK, Claims, Holding, Acquired
<1> QED BY <1>1, <1>2, <1>3, <1>4, <1>5 DEF IInv

\* The lock is taken only when no request claims it any more.
LEMMA LockIInv ==
  ASSUME IInv, NEW r \in Requests, Lock(r)
  PROVE  IInv'
<1> USE IdempotencyAssumption DEF Lock, Proceed, Fails, Locked
<1>1. KeyTypeOK'
  BY DEF IInv, KeyTypeOK, Step
<1>2. \A q \in Requests : StepOK(q)'
  BY DEF IInv, KeyTypeOK, StepOK, Acquired
<1>3. \A q \in Requests : RetryOK(q)'
  BY DEF IInv, KeyTypeOK, StepOK, RetryOK, Answered
<1>4. CacheOK' /\ ReplayOK'
  BY DEF IInv, KeyTypeOK, StepOK, CacheOK, ReplayOK, Answered
<1>5. LockOK'
  BY DEF IInv, KeyTypeOK, StepOK, LockOK, Claims, Holding, Acquired
<1> QED BY <1>1, <1>2, <1>3, <1>4, <1>5 DEF IInv

\* The handler answers: its request keeps its claim, whatever it answers.
LEMMA HandleIInv ==
  ASSUME IInv, NEW r \in Requests, Handle(r)
  PROVE  IInv'
<1> USE DEF Handle, Proceed, AfterHandler, keyState, keyHistory
<1>1. KeyTypeOK'
  BY DEF IInv, KeyTypeOK, Step
<1>2. \A q \in Requests : StepOK(q)'
  BY DEF IInv, KeyTypeOK, StepOK, Acquired
<1>3. \A q \in Requests : RetryOK(q)'
  BY DEF IInv, KeyTypeOK, StepOK, RetryOK, Answered
<1>4. CacheOK' /\ ReplayOK'
  BY DEF IInv, KeyTypeOK, StepOK, CacheOK, ReplayOK, Answered
<1>5. LockOK'
  BY DEF IInv, KeyTypeOK, StepOK, LockOK, Claims, Holding, Acquired
<1> QED BY <1>1, <1>2, <1>3, <1>4, <1>5 DEF IInv

\* The response is cached before the lock is released.
LEMMA CacheResponseIInv ==
  ASSUME IInv, NEW r \in Requests, CacheResponse(r)
  PROVE  IInv'
<1> USE IdempotencyAssumption DEF CacheResponse, Proceed, Fails
<1>1. KeyTypeOK'
  BY DEF IInv, KeyTypeOK, Step
<1>2. \A q \in Requests : StepOK(q)'
  BY DEF IInv, KeyTypeOK, StepOK, Acquired
<1>3. \A q \in Requests : RetryOK(q)'
  BY DEF IInv, KeyTypeOK, StepOK, RetryOK, Answered
<1>4. CacheOK' /\ ReplayOK'
  BY DEF IInv, KeyTypeOK, StepOK, CacheOK, ReplayOK, Answered
<1>5. LockOK'
  BY DEF IInv, KeyTypeOK, StepOK, LockOK, Claims, Holding, Acquired
<1> QED BY <1>1, <1>2, <1>3, <1>4, <1>5 DEF IInv

\* The lock that is deleted is the request's own, unless somebody was late.
LEMMA ReleaseIInv ==
  ASSUME IInv, NEW r \in Requests, Release(r)
  PROVE  IInv'
<1> USE DEF Release, Proceed, Fails, keyState
<1>1. KeyTypeOK'
  BY DEF IInv, KeyTypeOK, Step
<1>2. \A q \in Requests : StepOK(q)'
  BY DEF IInv, KeyTypeOK, StepOK, Acquired
<1>3. \A q \in Requests : RetryOK(q)'
  BY DEF IInv, KeyTypeOK, StepOK, RetryOK, Answered
<1>4. CacheOK' /\ ReplayOK'
  BY DEF IInv, KeyTypeOK, StepOK, CacheOK, ReplayOK, Answered
<1>5. LockOK'
  BY DEF IInv, KeyTypeOK, StepOK, LockOK, Claims, Holding, Acquired
<1> QED BY <1>1, <1>2, <1>3, <1>4, <1>5 DEF IInv

\* A request that dies counts as failed.
LEMMA DieIInv ==
  ASSUME IInv, NEW r \in Requests, Die(r)
  PROVE  IInv'
<1> USE DEF Die, Proceed, Fails, keyState
<1>1. KeyTypeOK'
  BY DEF IInv, KeyTypeOK, Step
<1>2. \A q \in Requests : StepOK(q)'
  BY DEF IInv, KeyTypeOK, StepOK, Acquired
<1>3. \A q \in Requests : RetryOK(q)'
  BY DEF IInv, KeyTypeOK, StepOK, RetryOK, Answered
<1>4. CacheOK' /\ ReplayOK'
  BY DEF IInv, KeyTypeOK, StepOK, CacheOK, ReplayOK, Answered
<1>5. LockOK'
  BY DEF IInv, KeyTypeOK, LockOK
<1> QED BY <1>1, <1>2, <1>3, <1>4, <1>5 DEF IInv

\* A request whose lock expires before it is through is late.
LEMMA TickIInv ==
  ASSUME IInv, TimePasses
  PROVE  IInv'
<1> USE DEF TimePasses, keyState
<1>1. KeyTypeOK'
  BY DEF IInv, KeyTypeOK, Step
<1>2. \A q \in Requests : StepOK(q)'
  BY DEF IInv, KeyTypeOK, StepOK, Acquired
<1>3. \A q \in Requests : RetryOK(q)'
  BY DEF IInv, KeyTypeOK, RetryOK, Answered
<1>4. CacheOK' /\ ReplayOK'
  BY DEF IInv, KeyTypeOK, CacheOK, ReplayOK, Answered
<1>5. LockOK'
  BY DEF IInv, KeyTypeOK, LockOK, Claims, Holding, Acquired
<1> QED BY <1>1, <1>2, <1>3, <1>4, <1>5 DEF IInv

\* The invariant holds throughout.
THEOREM IInvHolds == KeySpec => []IInv
<1>1. IInv /\ [KeyNext]_keyVars => IInv'
  <2> SUFFICES ASSUME IInv, [KeyNext]_keyVars PROVE IInv'
    OBVIOUS
  <2>1. CASE UNCHANGED keyVars
    BY <2>1 DEF IInv, KeyTypeOK, StepOK, RetryOK, CacheOK, ReplayOK, LockOK,
                Claims, Holding, Acquired, Answered, keyVars, keyState, keyHistory
  <2>2. CASE KeyNext
    BY <2>2, ArriveIInv, LookupIInv, LockIInv, HandleIInv, CacheResponseIInv,
       ReleaseIInv, DieIInv, TickIInv DEF KeyNext
  <2> QED BY <2>1, <2>2
<1> QED BY InitIInv, <1>1, PTL DEF KeySpec

\* Every variable keeps its type.
THEOREM IdempotencyTypeCorrect == KeySpec => []KeyTypeOK
<1>1. IInv => KeyTypeOK
  BY DEF IInv
<1> QED BY IInvHolds, <1>1, PTL

\* While nobody is late and Redis answers, no duplicate of an operation that
\* may be under way is run.
THEOREM NoDuplicateRuns == KeySpec => []NoDuplicateInFlight
<1>1. IInv => NoDuplicateInFlight
  BY DEF IInv, StepOK, LockOK, NoDuplicateInFlight, MayBeInFlight, Claims,
         Holding
<1> QED BY IInvHolds, <1>1, PTL

\* A retry of a success is answered with the cached response, even when
\* others are late, and only successes are replayed.
THEOREM SuccessIsReplayed == KeySpec => []RetryReplayed
<1>1. IInv => RetryReplayed
  BY IdempotencyAssumption
     DEF IInv, KeyTypeOK, RetryOK, ReplayOK, RetryReplayed
<1> QED BY IInvHolds, <1>1, PTL
==============================================================================
