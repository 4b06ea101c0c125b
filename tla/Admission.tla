----------------------------- MODULE Admission ------------------------------
(***************************************************************************)
(* The rate limiter of internal/middleware/rate_limiter.go in front of     *)
(* POST /bookings/reserve: first SimpleRateLimit, a fixed window per       *)
(* client, then EventAdmissionControl, a window per event and one per      *)
(* client of the event.  The counters are keys in Redis with a lifetime;   *)
(* when Redis does not answer, a process falls back on token buckets of    *)
(* its own.  Keys of different events share nothing, so there is one       *)
(* event.  Time is in ticks of at least a second.                          *)
(***************************************************************************)
EXTENDS Naturals, FiniteSetsExt

CONSTANTS Clients,       \* users, each behind an address of its own
          Processes,     \* server processes
          SimpleLimit,   \* requests of a client in a window (1000)
          SimpleWindow,  \* its length (a minute)
          EventLimit,    \* BOOKING_ADMISSION_EVENT_LIMIT
          ClientLimit,   \* BOOKING_ADMISSION_CLIENT_LIMIT
          Window,        \* BOOKING_ADMISSION_WINDOW_SEC
          Burst,         \* tokens of the limiter all clients share (10)
          MaxLostReplies \* bound: scripts that run but are not answered

\* Who has admitted a request: Redis, or a process for itself.
Redis == "redis"
Sources == Processes \cup {Redis}

ASSUME AdmissionAssumption ==
  /\ {SimpleLimit, SimpleWindow, EventLimit, ClientLimit, Window, Burst}
       \subseteq Nat \ {0}
  /\ MaxLostReplies \in Nat
  /\ Redis \notin Processes

VARIABLES stage,        \* stage[k]: what the request of client k has passed
          simple,       \* simple[k]: ratelimit:simple:<address>
          event,        \* admission:event:<event>:count
          client,       \* client[k]: admission:event:<event>:client:<k>:count
          redisUp,      \* Redis answers
          bucket,       \* bucket[p]: tokens of p for the event, in 1/Window
          shared,       \* shared[p]: tokens of p for requests of every kind
          admitted,     \* requests admitted since the event's key appeared
          admittedOf,   \* admittedOf[k]: likewise of client k and its key
          recent,       \* recent[s][n]: those admitted by s in the last n ticks
          idle,         \* idle[k]: ticks since client k has last asked
          lostReplies

counters == <<simple, event, client>>
buckets == <<bucket, shared>>
history == <<admitted, admittedOf, recent, idle, lostReplies>>
vars == <<stage, counters, redisUp, buckets, history>>

\* A key that does not exist.
NoKey == [count |-> 0, ttl |-> 0]

Key(limit, window) == [count : 0 .. limit, ttl : 0 .. window]

Capacity == EventLimit * Window

\* Every variable holds a value of its type.  No counter of admissions is
\* ever seen above its limit, and only refused requests take that of the
\* simple limit one above it, where the model stops counting.
TypeOK ==
  /\ stage \in [Clients -> {"none", "limited"}]
  /\ simple \in [Clients -> Key(SimpleLimit + 1, SimpleWindow)]
  /\ event \in Key(EventLimit, Window)
  /\ client \in [Clients -> Key(ClientLimit, Window)]
  /\ redisUp \in BOOLEAN
  /\ bucket \in [Processes -> 0 .. Capacity]
  /\ shared \in [Processes -> 0 .. Burst]
  /\ admitted \in Nat
  /\ admittedOf \in [Clients -> Nat]
  /\ recent \in [Sources -> [1 .. Window -> Nat]]
  /\ idle \in [Clients -> 0 .. SimpleWindow + Window]
  /\ lostReplies \in 0 .. MaxLostReplies

Init ==
  /\ stage = [k \in Clients |-> "none"]
  /\ simple = [k \in Clients |-> NoKey]
  /\ event = NoKey
  /\ client = [k \in Clients |-> NoKey]
  /\ redisUp = TRUE
  /\ bucket = [p \in Processes |-> Capacity]
  /\ shared = [p \in Processes |-> Burst]
  /\ admitted = 0
  /\ admittedOf = [k \in Clients |-> 0]
  /\ recent = [s \in Sources |-> [n \in 1 .. Window |-> 0]]
  /\ idle = [k \in Clients |-> SimpleWindow + Window]
  /\ lostReplies = 0

------------------------------------------------------------------------------
(* The Lua scripts, each atomic: what they make of their keys.             *)

\* Faulty: the key is given no lifetime.
IncrWithTTLForever(key, window) == [key EXCEPT !.count = @ + 1]

\* INCR, and EXPIRE unless the key has a lifetime already.
IncrWithTTL(key, window) ==
  [count |-> key.count + 1,
   ttl |-> IF key.count = 0 \/ key.ttl = 0 THEN window ELSE key.ttl]

\* DECR and EXPIRE after a refusal: the request does not count, but the
\* window starts again.
Undo(key, window) == [count |-> key.count - 1, ttl |-> window]

\* fixedWindowRateLimitScript: a refused request goes on counting, up to the
\* bound of the model, and starts the window again.
FixedWindow(key) ==
  LET k == IncrWithTTL(key, SimpleWindow)
  IN  IF k.count > SimpleLimit
      THEN [count |-> SimpleLimit + 1, ttl |-> SimpleWindow]
      ELSE k

\* Does fixedWindowRateLimitScript refuse a request that finds this key?
OverSimpleLimit(key) == key.count + 1 > SimpleLimit

\* Faulty: the client's window is full at one request more.
OverLimitsOffByOne(k) ==
  CASE event.count + 1 > EventLimit + 1 -> "event"
    [] client[k].count + 1 > ClientLimit -> "client"
    [] OTHER -> "none"

\* Which window is full for a request of client k?
OverLimits(k) ==
  CASE event.count + 1 > EventLimit -> "event"
    [] event.count + 1 <= EventLimit /\ client[k].count + 1 > ClientLimit -> "client"
    [] OTHER -> "none"

\* Faulty: the client's refusal leaves the event's counter up.
EventAdmissionLeaky(k) ==
  LET over == OverLimits(k)
  IN  /\ event' = IF over = "event"
                  THEN Undo(IncrWithTTL(event, Window), Window)
                  ELSE IncrWithTTL(event, Window)
      /\ client' = [client EXCEPT ![k] =
                      CASE over = "event" -> @
                        [] over = "client" -> Undo(IncrWithTTL(@, Window), Window)
                        [] over = "none" -> IncrWithTTL(@, Window)]

\* eventAdmissionScript: both counters go up, or neither.
EventAdmission(k) ==
  LET over == OverLimits(k)
      counted == IncrWithTTL(event, Window)
  IN  /\ event' = IF over = "none" THEN counted ELSE Undo(counted, Window)
      /\ client' = [client EXCEPT ![k] =
                      CASE over = "event" -> @
                        [] over = "client" -> Undo(IncrWithTTL(@, Window), Window)
                        [] over = "none" -> IncrWithTTL(@, Window)]

------------------------------------------------------------------------------
(* The two middlewares, in the order of the route.                         *)

Asked(k) == idle' = [idle EXCEPT ![k] = 0]

Goto(k, s) == stage' = [stage EXCEPT ![k] = s]

\* The script runs but its answer does not arrive.
LostReply ==
  /\ redisUp /\ lostReplies < MaxLostReplies
  /\ lostReplies' = lostReplies + 1

\* SimpleRateLimit in Redis.
SimpleRateLimit(k) ==
  /\ stage[k] = "none" /\ redisUp
  /\ simple' = [simple EXCEPT ![k] = FixedWindow(@)]
  /\ Goto(k, IF OverSimpleLimit(simple[k]) THEN "none" ELSE "limited")
  /\ Asked(k)
  /\ UNCHANGED <<event, client, redisUp, buckets, admitted, admittedOf, recent,
                 lostReplies>>

\* Redis has not answered: the process takes a token of the limiter that all
\* its clients share.
SimpleRateLimitLocally(k, p) ==
  /\ stage[k] = "none"
  /\ \/ ~redisUp /\ UNCHANGED <<simple, lostReplies>>
     \/ LostReply /\ simple' = [simple EXCEPT ![k] = FixedWindow(@)]
  /\ IF shared[p] > 0
     THEN Goto(k, "limited") /\ shared' = [shared EXCEPT ![p] = @ - 1]
     ELSE UNCHANGED <<stage, shared>>
  /\ Asked(k)
  /\ UNCHANGED <<event, client, redisUp, bucket, admitted, admittedOf, recent>>

\* A request of client k is handed to the handler by s.
Admit(k, s) ==
  /\ recent' = [recent EXCEPT ![s] = [n \in 1 .. Window |-> recent[s][n] + 1]]
  /\ IF s = Redis
     THEN /\ admitted' = admitted + 1
          /\ admittedOf' = [admittedOf EXCEPT ![k] = @ + 1]
     ELSE UNCHANGED <<admitted, admittedOf>>

Refuse == UNCHANGED <<admitted, admittedOf, recent>>

\* EventAdmissionControl in Redis.
EventAdmissionControl(k) ==
  /\ stage[k] = "limited" /\ redisUp
  /\ EventAdmission(k)
  /\ IF OverLimits(k) = "none" THEN Admit(k, Redis) ELSE Refuse
  /\ Goto(k, "none")
  /\ Asked(k)
  /\ UNCHANGED <<simple, redisUp, buckets, lostReplies>>

\* allowLocalEvent: a token of the event's bucket, whoever the client is.
AllowLocalEvent(k, p) ==
  /\ stage[k] = "limited"
  /\ \/ ~redisUp /\ UNCHANGED <<event, client, lostReplies>>
     \/ LostReply /\ EventAdmission(k)
  /\ IF bucket[p] >= Window
     THEN Admit(k, p) /\ bucket' = [bucket EXCEPT ![p] = @ - Window]
     ELSE Refuse /\ UNCHANGED bucket
  /\ Goto(k, "none")
  /\ Asked(k)
  /\ UNCHANGED <<simple, redisUp, shared>>

------------------------------------------------------------------------------
(* Redis and the clock (external).                                         *)

\* Redis cannot be reached, or can again; the keys survive.
ToggleRedis ==
  /\ redisUp' = ~redisUp
  /\ UNCHANGED <<stage, counters, buckets, history>>

\* A key without a lifetime stays.
Aged(key) ==
  CASE key.ttl = 0 -> key
    [] key.ttl = 1 -> NoKey
    [] key.ttl > 1 -> [key EXCEPT !.ttl = @ - 1]

\* Keys grow old and expire, and buckets are refilled.
Tick ==
  /\ simple' = [k \in Clients |-> Aged(simple[k])]
  /\ event' = Aged(event)
  /\ client' = [k \in Clients |-> Aged(client[k])]
  /\ bucket' = [p \in Processes |-> Min({Capacity, bucket[p] + EventLimit})]
  /\ shared' = [p \in Processes |-> Burst]
  /\ admitted' = IF event' = NoKey THEN 0 ELSE admitted
  /\ admittedOf' = [k \in Clients |->
                      IF client'[k] = NoKey THEN 0 ELSE admittedOf[k]]
  /\ recent' = [s \in Sources |->
                  [n \in 1 .. Window |-> IF n = 1 THEN 0 ELSE recent[s][n - 1]]]
  /\ idle' = [k \in Clients |-> Min({SimpleWindow + Window, idle[k] + 1})]
  /\ UNCHANGED <<stage, redisUp, lostReplies>>

Next ==
  \/ \E k \in Clients :
       \/ SimpleRateLimit(k)
       \/ EventAdmissionControl(k)
       \/ \E p \in Processes :
            SimpleRateLimitLocally(k, p) \/ AllowLocalEvent(k, p)
  \/ ToggleRedis
  \/ Tick

Spec == Init /\ [][Next]_vars

------------------------------------------------------------------------------
(* Correctness properties.                                                 *)

\* Refused requests spend nothing: the counters of an event and of its
\* clients count the requests that were admitted since their key appeared,
\* and beyond these only scripts whose answer was lost.  So a client that is
\* refused again and again takes no admission from the others.
CountsAdmitted ==
  /\ admitted <= event.count /\ event.count <= admitted + lostReplies
  /\ \A k \in Clients :
       /\ admittedOf[k] <= client[k].count
       /\ client[k].count <= admittedOf[k] + lostReplies

Total(s) == recent[s][Window]

\* "Per-event admission limits smooth hot ticket drops": windows are fixed,
\* so two may meet in one stretch of Window ticks, but no more than two;
\* Redis never admits twice the limit in it, and a process that is on its
\* own at most what a full bucket and its refill hold.
BurstBounded ==
  /\ Total(Redis) < 2 * EventLimit
  /\ \A p \in Processes : Total(p) < 2 * EventLimit

\* A refusal starts the window again, so a client that keeps asking may be
\* kept out for ever; but one that stays quiet for a window is never refused
\* by its own counters, and the event's counter outlives by no more than a
\* window the last request for the event.
QuietWindowFrees ==
  /\ \A k \in Clients :
       /\ idle[k] >= SimpleWindow => simple[k] = NoKey
       /\ idle[k] >= Window => client[k] = NoKey
  /\ (\A k \in Clients : idle[k] >= Window) => event = NoKey
==============================================================================
