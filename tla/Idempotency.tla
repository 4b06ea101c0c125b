---------------------------- MODULE Idempotency -----------------------------
(***************************************************************************)
(* The idempotency middleware of internal/middleware/idempotency.go: what  *)
(* happens to the requests of a client that bear one Idempotency-Key.      *)
(* They may be served by several processes; the response cache and the     *)
(* lock of the key are in Redis.  The lock lives for idempotencyLockTTL;   *)
(* a cached response lives 24 hours, which is longer than a behaviour of   *)
(* the model.                                                              *)
(***************************************************************************)
EXTENDS Naturals, FiniteSets

CONSTANTS Requests,     \* requests with the key
          NoRequest,    \* nothing is cached
          LockTTL,      \* idempotencyLockTTL
          MaxTime,      \* bound: the clock stops here
          MaxFailures   \* bound: requests that die or that Redis fails

ASSUME IdempotencyAssumption ==
  /\ IsFiniteSet(Requests)
  /\ NoRequest \notin Requests
  /\ LockTTL \in Nat \ {0}
  /\ {MaxTime, MaxFailures} \subseteq Nat

VARIABLES pc,            \* pc[r]: what request r does next
          lockedUntil,   \* lockedUntil[r]: when the lock that r took expires
          outcome,       \* outcome[r]: what the handler answered
          replayed,      \* replayed[r]: the request whose response r is given
          lockKey,       \* when the lock of the key expires, 0 without a lock
          cached,        \* the request whose response is cached
          now,
          failed,        \* requests that have died or had a call fail
          late,          \* requests that have outlived their lock
          retryOf        \* retryOf[r]: those answered with success before r

keyState == <<lockKey, cached>>
keyHistory == <<failed, late, retryOf>>
keyVars == <<pc, lockedUntil, outcome, replayed, keyState, now, keyHistory>>

Step == {"new", "lookup", "lock", "handle", "cache", "release", "done", "dead"}

\* Every variable holds a value of its type.
KeyTypeOK ==
  /\ pc \in [Requests -> Step]
  /\ lockedUntil \in [Requests -> Nat]
  /\ outcome \in [Requests -> {"none", "success", "error"}]
  /\ replayed \in [Requests -> Requests \cup {NoRequest}]
  /\ lockKey \in Nat
  /\ cached \in Requests \cup {NoRequest}
  /\ now \in Nat
  /\ failed \subseteq Requests
  /\ late \subseteq Requests
  /\ retryOf \in [Requests -> SUBSET Requests]

KeyInit ==
  /\ pc = [r \in Requests |-> "new"]
  /\ lockedUntil = [r \in Requests |-> 0]
  /\ outcome = [r \in Requests |-> "none"]
  /\ replayed = [r \in Requests |-> NoRequest]
  /\ lockKey = 0
  /\ cached = NoRequest
  /\ now = 0
  /\ failed = {}
  /\ late = {}
  /\ retryOf = [r \in Requests |-> {}]

Proceed(r, step) == pc' = [pc EXCEPT ![r] = step]

\* The lock's key has not expired.
Locked == now < lockKey

\* The middleware has taken the lock for r (lockAcquired).
Acquired(r) == lockedUntil[r] # 0

\* Between taking the lock and giving it up.
Holding(r) == Acquired(r) /\ pc[r] \in {"handle", "cache", "release"}

\* A call of r to Redis returns an error.
Fails(r) ==
  /\ r \in failed \/ Cardinality(failed) < MaxFailures
  /\ failed' = failed \cup {r}

Answered(q) == pc[q] = "done" /\ outcome[q] = "success"

\* The client sends a request: the first one or a retry.
Arrive(r) ==
  /\ pc[r] = "new"
  /\ Proceed(r, "lookup")
  /\ retryOf' = [retryOf EXCEPT ![r] = {q \in Requests : Answered(q)}]
  /\ UNCHANGED <<lockedUntil, outcome, replayed, keyState, now, failed, late>>

\* GET of the cached response, which is replayed if there is one.  An error
\* is taken for a miss.
Lookup(r) ==
  /\ pc[r] = "lookup"
  /\ \/ /\ cached # NoRequest
        /\ replayed' = [replayed EXCEPT ![r] = cached]
        /\ Proceed(r, "done")
        /\ UNCHANGED failed
     \/ cached = NoRequest /\ Proceed(r, "lock") /\ UNCHANGED <<replayed, failed>>
     \/ Fails(r) /\ Proceed(r, "lock") /\ UNCHANGED replayed
  /\ UNCHANGED <<lockedUntil, outcome, keyState, now, late, retryOf>>

\* SETNX.  A request that finds the lock taken is refused with 409; one whose
\* call fails goes on without the lock, which Redis may have set all the same.
Lock(r) ==
  /\ pc[r] = "lock"
  /\ \/ /\ ~Locked
        /\ Proceed(r, "handle")
        /\ lockedUntil' = [lockedUntil EXCEPT ![r] = now + LockTTL]
        /\ lockKey' = now + LockTTL
        /\ UNCHANGED failed
     \/ /\ Locked
        /\ Proceed(r, "done")
        /\ UNCHANGED <<lockedUntil, lockKey, failed>>
     \/ /\ Fails(r)
        /\ Proceed(r, "handle")
        /\ lockKey' \in {lockKey, IF Locked THEN lockKey ELSE now + LockTTL}
        /\ UNCHANGED lockedUntil
  /\ UNCHANGED <<outcome, replayed, cached, now, late, retryOf>>

\* Faulty: a step that does not exist.
AfterHandlerUnknown(r, result) ==
  IF Acquired(r) /\ result = "success" THEN "store" ELSE "done"

\* Faulty: the lock is given up whatever the handler answered.
AfterHandlerReleasing(r, result) ==
  CASE ~Acquired(r) -> "done"
    [] Acquired(r) /\ result = "success" -> "cache"
    [] Acquired(r) /\ result = "error" -> "release"

\* Faulty: the lock is given up before the response has been cached.
AfterHandlerUncached(r, result) ==
  IF Acquired(r) /\ result = "success" THEN "release" ELSE "done"

\* Where a request goes on: without the lock, or with an error, nowhere; the
\* lock of an error is left to expire.
AfterHandler(r, result) ==
  IF Acquired(r) /\ result = "success" THEN "cache" ELSE "done"

\* The handler has run, for as long as it liked.
Handle(r) ==
  /\ pc[r] = "handle"
  /\ \E result \in {"success", "error"} :
       /\ outcome' = [outcome EXCEPT ![r] = result]
       /\ Proceed(r, AfterHandler(r, result))
  /\ UNCHANGED <<lockedUntil, replayed, keyState, now, keyHistory>>

\* SET of the response; when it fails the lock is left to expire.
CacheResponse(r) ==
  /\ pc[r] = "cache"
  /\ \/ cached' = r /\ Proceed(r, "release") /\ UNCHANGED failed
     \/ Fails(r) /\ cached' \in {cached, r} /\ Proceed(r, "done")
  /\ UNCHANGED <<lockedUntil, outcome, replayed, lockKey, now, late, retryOf>>

\* DEL of the lock, whoever has it now.
Release(r) ==
  /\ pc[r] = "release"
  /\ \/ lockKey' = 0 /\ UNCHANGED failed
     \/ Fails(r) /\ lockKey' \in {lockKey, 0}
  /\ Proceed(r, "done")
  /\ UNCHANGED <<lockedUntil, outcome, replayed, cached, now, late, retryOf>>

\* The process that serves the request dies.
Die(r) ==
  /\ pc[r] \notin {"new", "done", "dead"}
  /\ Fails(r)
  /\ Proceed(r, "dead")
  /\ UNCHANGED <<lockedUntil, outcome, replayed, keyState, now, late, retryOf>>

TimePasses ==
  /\ now < MaxTime
  /\ now' = now + 1
  /\ late' = late \cup {r \in Requests : Holding(r) /\ lockedUntil[r] <= now'}
  /\ UNCHANGED <<pc, lockedUntil, outcome, replayed, keyState, failed, retryOf>>

KeyNext ==
  \/ \E r \in Requests :
       \/ Arrive(r)
       \/ Lookup(r)
       \/ Lock(r)
       \/ Handle(r)
       \/ CacheResponse(r)
       \/ Release(r)
       \/ Die(r)
  \/ TimePasses

KeySpec == KeyInit /\ [][KeyNext]_keyVars

------------------------------------------------------------------------------
(* Correctness properties.                                                 *)

\* The request whose operation may be under way: its handler runs, or it has
\* been answered with an error and its lock has not expired.
MayBeInFlight(r) ==
  pc[r] = "handle" \/ (outcome[r] = "error" /\ now < lockedUntil[r])

\* "client timeout/retry cannot run a duplicate operation while the original
\* request may still be in flight": no other request runs the handler, for
\* as long as every request has kept within its lock and Redis has answered.
\* A request that outlives its lock deletes that of another one.
NoDuplicateInFlight ==
  (late = {} /\ failed = {}) =>
    \A r, q \in Requests :
      MayBeInFlight(r) /\ pc[q] = "handle" => q = r

\* A retry of a request that was answered with success is answered with a
\* success too and does not run the handler, even if other requests were
\* late; and nothing but a success is ever replayed.
RetryReplayed ==
  \A r, q \in Requests :
    /\ (q \in retryOf[r] /\ {r, q} \cap failed = {}) =>
         /\ outcome[r] = "none" /\ pc[r] # "handle"
         /\ pc[r] = "done" => replayed[r] # NoRequest
    /\ replayed[r] = q => outcome[q] = "success"

\* "Release the lock only after the response is cached so retries replay the
\* result": no request starts the handler once a response has been cached.
NoRunOnceCached ==
  [][\A r \in Requests :
       pc[r] = "lock" /\ pc'[r] = "handle" => cached = NoRequest]_keyVars
==============================================================================
