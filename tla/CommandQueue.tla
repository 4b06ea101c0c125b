---------------------------- MODULE CommandQueue ----------------------------
(***************************************************************************)
(* The Kafka command queue of internal/queue/queue.go and the workers of   *)
(* internal/services/booking_worker.go that process its jobs.  Booking and *)
(* purchase commands have a topic each and the same code on both sides of  *)
(* it, but not the same handler: a booking command reserves a seat in one  *)
(* transaction; a purchase command sells a booking and charges for it, in  *)
(* several calls, and undoes the sale when the charge fails.  Commands for *)
(* one seat share a partition, those for one booking need not.  Kafka's    *)
(* group coordinator is external: it hands each partition to one member of *)
(* the consumer group for a generation.                                    *)
(***************************************************************************)
EXTENDS Integers, Sequences, FiniteSets

CONSTANTS Jobs,
          Targets,         \* seats to reserve, and bookings to purchase
          Bookings,        \* the targets that are bookings
          TargetOf,        \* the seat or the booking a job is about
          NoJob,           \* the job of no message
          Partitions,
          PartitionOf,     \* kafkago.Hash of the message key
          Members,         \* members of the consumer group
          Readers,         \* the members that call ConsumerGroup.Next
          NoMember,        \* the owner of an unassigned partition
          MaxRetries,
          Arrivals,        \* sets of jobs that are submitted, to one topic
          MaxFaults        \* bounds: for each of these sets, generations that
                           \* end in good order, members that die, and calls
                           \* that fail

FaultKinds == {"rebalance", "crash", "failure"}

ASSUME QueueAssumption ==
  /\ TargetOf \in [Jobs -> Targets]
  /\ PartitionOf \in [Jobs -> Partitions]
  /\ NoJob \notin Jobs
  /\ NoMember \notin Members
  /\ Readers \subseteq Members
  /\ IsFiniteSet(Partitions)
  /\ MaxRetries \in Nat
  /\ MaxFaults \in [SUBSET Jobs -> [FaultKinds -> Nat]]
  /\ \A A \in Arrivals : A \subseteq Jobs
  /\ \A A \in Arrivals : \A i, j \in A : TargetOf[i] \in Bookings <=> TargetOf[j] \in Bookings

VARIABLES request,     \* request[j]: where Enqueue...Job is
          jobStatus,   \* job:status:<id> in Redis
          depth,       \* the depth counter in Redis
          log,         \* log[p]: the messages of partition p
          dlq,         \* the jobs in the dead-letter topic
          target,      \* target[r]: is it open to claims, taken, or gone
          holders,     \* holders[r]: the jobs whose claim on r stands
          undone,      \* the jobs whose claim somebody else has undone
          committed,   \* committed[p]: the group's offset, or NoOffset
          owner,       \* owner[p]: the member that has partition p
          stage,       \* stage[p]: what its reader does next
          pos,         \* pos[p]: the offset of the message it reads next
          current,     \* current[p]: currentOffset
          msg,         \* msg[p]: the message it handles
          ended,       \* ended[p]: its generation is over
          handled,     \* handled[p]: the offsets somebody has handled
          abandoned,   \* abandoned[p]: the offsets given up, not to be read again
          faults       \* how often each kind of fault has happened

store == <<jobStatus, depth>>
topics == <<log, dlq>>
claims == <<target, holders, undone>>
group == <<committed, owner>>
reader == <<stage, pos, current, msg, ended, handled, abandoned>>
vars == <<request, store, topics, claims, group, reader, faults>>

NoOffset == -1

\* kafkago.FirstOffset, where a group without an offset starts.
FirstOffset == -2

Message == [job : Jobs, attempt : 0..MaxRetries]

NoMessage == [job |-> NoJob, attempt |-> 0]

Stage == {"off", "fetch", "process", "sell", "charge", "revert", "complete",
          "ack", "clamp", "fail", "retry", "requeued", "bury"}

\* Every variable holds a value of its type.
TypeOK ==
  /\ request \in [Jobs -> {"absent", "none", "write", "bump", "accepted",
                           "refused"}]
  /\ jobStatus \in [Jobs -> {"none", "pending", "retrying", "completed",
                             "dead_lettered"}]
  /\ depth \in Int
  /\ log \in [Partitions -> Seq(Message)]
  /\ dlq \subseteq Jobs
  /\ target \in [Targets -> {"open", "taken", "gone"}]
  /\ holders \in [Targets -> SUBSET Jobs]
  /\ undone \subseteq Jobs
  /\ committed \in [Partitions -> Int]
  /\ owner \in [Partitions -> Members \cup {NoMember}]
  /\ stage \in [Partitions -> Stage]
  /\ pos \in [Partitions -> Nat]
  /\ current \in [Partitions -> Int]
  /\ msg \in [Partitions -> Message \cup {NoMessage}]
  /\ ended \in [Partitions -> BOOLEAN]
  /\ handled \in [Partitions -> SUBSET Nat]
  /\ abandoned \in [Partitions -> SUBSET Nat]
  /\ faults \in [FaultKinds -> Nat]

Init ==
  /\ \E A \in Arrivals :
       request = [j \in Jobs |-> IF j \in A THEN "none" ELSE "absent"]
  /\ jobStatus = [j \in Jobs |-> "none"]
  /\ depth = 0
  /\ log = [p \in Partitions |-> <<>>]
  /\ dlq = {}
  /\ target = [r \in Targets |-> "open"]
  /\ holders = [r \in Targets |-> {}]
  /\ undone = {}
  /\ committed = [p \in Partitions |-> NoOffset]
  /\ owner = [p \in Partitions |-> NoMember]
  /\ stage = [p \in Partitions |-> "off"]
  /\ pos = [p \in Partitions |-> 0]
  /\ current = [p \in Partitions |-> FirstOffset]
  /\ msg = [p \in Partitions |-> NoMessage]
  /\ ended = [p \in Partitions |-> FALSE]
  /\ handled = [p \in Partitions |-> {}]
  /\ abandoned = [p \in Partitions |-> {}]
  /\ faults = [f \in FaultKinds |-> 0]

\* The jobs of this behaviour, all of the booking topic or all of the other.
Submitted == {j \in Jobs : request[j] # "absent"}

Fault(f) ==
  /\ faults[f] < MaxFaults[Submitted][f]
  /\ faults' = [faults EXCEPT ![f] = @ + 1]

\* Faulty: a failed job gets a status that nobody knows.
SetJobStatusUnknown(j, s) ==
  jobStatus' = [jobStatus EXCEPT ![j] = IF s = "retrying" THEN "failing" ELSE s]

SetJobStatus(j, s) == jobStatus' = [jobStatus EXCEPT ![j] = s]

Write(j, attempt) ==
  log' = [log EXCEPT ![PartitionOf[j]] =
            Append(@, [job |-> j, attempt |-> attempt])]

------------------------------------------------------------------------------
(* EnqueueBookingJob and EnqueuePurchaseJob, in the request handler.       *)

EnqueueJob(j) ==
  /\ request[j] = "none"
  /\ request' = [request EXCEPT ![j] = "write"]
  /\ SetJobStatus(j, "pending")
  /\ UNCHANGED <<depth, topics, claims, group, reader, faults>>

WriteCommand(j) ==
  /\ request[j] = "write"
  /\ request' = [request EXCEPT ![j] = "bump"]
  /\ Write(j, 0)
  /\ UNCHANGED <<store, dlq, claims, group, reader, faults>>

\* The job is answered with 202 once it has been counted, or could not be.
CountCommand(j) ==
  /\ request[j] = "bump"
  /\ request' = [request EXCEPT ![j] = "accepted"]
  /\ \/ depth' = depth + 1 /\ UNCHANGED faults
     \/ Fault("failure") /\ UNCHANGED depth
  /\ UNCHANGED <<jobStatus, topics, claims, group, reader>>

\* The request is refused, although the broker may have appended the command.
EnqueueFails(j) ==
  /\ Fault("failure")
  /\ request[j] = "write"
  /\ request' = [request EXCEPT ![j] = "refused"]
  /\ Write(j, 0) \/ UNCHANGED log
  /\ UNCHANGED <<store, dlq, claims, group, reader>>

------------------------------------------------------------------------------
(* The consumer group and its generations (external), and what the reader  *)
(* of a partition does when its generation begins and ends.                *)

\* The member gets a partition of the topic for a generation; only a member
\* that has asked for the generation starts a reader, at the committed offset.
Assign(m, p) ==
  /\ owner[p] = NoMember
  /\ \E j \in Submitted : PartitionOf[j] = p
  /\ owner' = [owner EXCEPT ![p] = m]
  /\ IF m \in Readers
     THEN /\ stage' = [stage EXCEPT ![p] = "fetch"]
          /\ pos' = [pos EXCEPT ![p] =
                       IF committed[p] < 0 THEN 0 ELSE committed[p]]
          /\ current' = [current EXCEPT ![p] =
                           IF committed[p] < 0 THEN FirstOffset
                           ELSE committed[p]]
     ELSE UNCHANGED <<stage, pos, current>>
  /\ UNCHANGED <<request, store, topics, claims, committed, msg, ended,
                 handled, abandoned, faults>>

\* A rebalance or a shutdown ends the generation, whatever the reader does.
EndGeneration(p) ==
  /\ Fault("rebalance")
  /\ owner[p] # NoMember /\ ~ended[p]
  /\ ended' = [ended EXCEPT ![p] = TRUE]
  /\ UNCHANGED <<request, store, topics, claims, group, stage, pos, current,
                 msg, handled, abandoned>>

\* Faulty: the message after the last one is counted as dealt with.
NextOffsetSkipping(p) == current[p] + 2

\* The offset a reader commits: one after the last message it has dealt
\* with, or, when it has dealt with none, one after where it started.
NextOffset(p) == current[p] + 1

\* The partition is free again, and what is not committed is read again.
Leave(p) ==
  /\ owner' = [owner EXCEPT ![p] = NoMember]
  /\ stage' = [stage EXCEPT ![p] = "off"]
  /\ pos' = [pos EXCEPT ![p] = 0]
  /\ current' = [current EXCEPT ![p] = FirstOffset]
  /\ msg' = [msg EXCEPT ![p] = NoMessage]
  /\ ended' = [ended EXCEPT ![p] = FALSE]
  /\ abandoned' = [abandoned EXCEPT ![p] = {k \in @ : k < committed'[p]}]

\* ReadMessage reports ErrGenerationEnded, the reader commits and returns.
\* The coordinator refuses the commit of a member it has given up on.
CommitOffsets(p) ==
  /\ ended[p] /\ stage[p] \in {"off", "fetch"}
  /\ \/ /\ stage[p] = "fetch"
        /\ committed' = [committed EXCEPT ![p] = NextOffset(p)]
     \/ UNCHANGED committed
  /\ Leave(p)
  /\ UNCHANGED <<request, store, topics, claims, handled, faults>>

\* A member dies with all its readers and commits nothing.
Crash(m) ==
  LET own == {p \in Partitions : owner[p] = m}
  IN  /\ Fault("crash")
      /\ own # {}
      /\ owner' = [p \in Partitions |-> IF p \in own THEN NoMember ELSE owner[p]]
      /\ stage' = [p \in Partitions |-> IF p \in own THEN "off" ELSE stage[p]]
      /\ pos' = [p \in Partitions |-> IF p \in own THEN 0 ELSE pos[p]]
      /\ current' = [p \in Partitions |->
                       IF p \in own THEN FirstOffset ELSE current[p]]
      /\ msg' = [p \in Partitions |-> IF p \in own THEN NoMessage ELSE msg[p]]
      /\ ended' = [p \in Partitions |-> IF p \in own THEN FALSE ELSE ended[p]]
      /\ abandoned' = [p \in Partitions |->
                         {k \in abandoned[p] : p \in own => k < committed[p]}]
      /\ UNCHANGED <<request, store, topics, claims, committed, handled>>

------------------------------------------------------------------------------
(* The reader of a partition: runConsumerGroup and the worker's handler.   *)

Goto(p, s) == stage' = [stage EXCEPT ![p] = s]

\* The message the reader has taken last.
Offset(p) == pos[p] - 1

\* The handler returns: the message has been dealt with, or is given up.
Done(p, dealt) ==
  /\ Goto(p, "fetch")
  /\ msg' = [msg EXCEPT ![p] = NoMessage]
  /\ handled' = [handled EXCEPT ![p] = IF dealt THEN @ \cup {Offset(p)} ELSE @]
  /\ abandoned' = [abandoned EXCEPT ![p] =
                     IF dealt THEN @ \ {Offset(p)} ELSE @ \cup {Offset(p)}]

\* ReadMessage may still return a message when the generation has ended.
ReadMessage(p) ==
  /\ stage[p] = "fetch"
  /\ pos[p] < Len(log[p])
  /\ Goto(p, "process")
  /\ msg' = [msg EXCEPT ![p] = log[p][pos[p] + 1]]
  /\ pos' = [pos EXCEPT ![p] = @ + 1]
  /\ UNCHANGED <<request, store, topics, claims, group, current, ended, handled,
                 abandoned, faults>>

IsPurchase(j) == TargetOf[j] \in Bookings

\* The transaction of job j that takes its target is committed.
Claim(j) ==
  /\ target' = [target EXCEPT ![TargetOf[j]] = "taken"]
  /\ holders' = [holders EXCEPT ![TargetOf[j]] = @ \cup {j}]
  /\ undone' = undone \ {j}

\* Target r goes to state s, and with it all claims on it but those of by.
Undo(r, s, by) ==
  /\ target' = [target EXCEPT ![r] = s]
  /\ holders' = [holders EXCEPT ![r] = {}]
  /\ undone' = undone \cup (holders[r] \ by)

\* What others do to a target of some job: requests that are not queued, and
\* workers.  A seat is reserved, and freed by an expiry, a cancellation or a
\* sale that is reverted; a booking is sold, and its sale reverted, or it is
\* cancelled or runs out before it is sold.
TargetChanges(r) ==
  /\ \E j \in Submitted : TargetOf[j] = r
  /\ \/ target[r] = "open" /\ Undo(r, "taken", {})
     \/ target[r] = "taken" /\ r \notin Bookings /\ Undo(r, "open", {})
     \/ target[r] # "gone" /\ r \in Bookings /\ Undo(r, "gone", {})
  /\ UNCHANGED <<request, store, topics, group, reader, faults>>

\* Faulty: an error of the booking service is taken for success.
OutcomeIgnored(j) == IF IsPurchase(j) THEN "sell" ELSE "complete"

\* What comes after the look at the target: ReserveSeat reserves a free seat,
\* PurchaseBooking goes on with a booking that is reserved and not overdue,
\* and stores its intent; a target that is taken, be it by this very job, is
\* an error.
Outcome(j) ==
  IF target[TargetOf[j]] # "open" THEN "fail"
  ELSE IF IsPurchase(j) THEN "sell" ELSE "complete"

\* ReserveSeat in one transaction, or PurchaseBooking up to its sale.
ProcessJob(p) ==
  LET j == msg[p].job
  IN  /\ stage[p] = "process"
      /\ Goto(p, Outcome(j))
      /\ IF target[TargetOf[j]] = "open" /\ ~IsPurchase(j)
         THEN Claim(j) ELSE UNCHANGED claims
      /\ UNCHANGED <<request, store, topics, group, pos, current, msg, ended,
                     handled, abandoned, faults>>

\* CompletePurchase: a booking that has been sold meanwhile counts as sold.
SellBooking(p) ==
  LET j == msg[p].job
  IN  /\ stage[p] = "sell"
      /\ IF target[TargetOf[j]] = "gone"
         THEN Goto(p, "fail") /\ UNCHANGED claims
         ELSE Goto(p, "charge") /\ Claim(j)
      /\ UNCHANGED <<request, store, topics, group, pos, current, msg, ended,
                     handled, abandoned, faults>>

\* processPayment.
ChargeBooking(p) ==
  /\ stage[p] = "charge"
  /\ \/ Goto(p, "complete") /\ UNCHANGED faults
     \/ Goto(p, "revert") /\ Fault("failure")
  /\ UNCHANGED <<request, store, topics, claims, group, pos, current, msg,
                 ended, handled, abandoned>>

\* revertPurchaseAfterPaymentFailure, which is given up when it fails: it
\* undoes the sale for every job that has joined it, paid or not.
RevertPurchase(p) ==
  LET j == msg[p].job
  IN  /\ stage[p] = "revert"
      /\ Goto(p, "fail")
      /\ \/ /\ IF target[TargetOf[j]] = "taken"
               THEN Undo(TargetOf[j], "gone", {j}) ELSE UNCHANGED claims
            /\ UNCHANGED faults
         \/ Fault("failure") /\ UNCHANGED claims
      /\ UNCHANGED <<request, store, topics, group, pos, current, msg, ended,
                     handled, abandoned>>

\* The service fails for another reason: the seat's row is locked, or the
\* database or Stripe does not answer.  Its transaction may have been
\* committed all the same, and then no job knows that it has the target.
ProcessFails(p) ==
  LET j == msg[p].job
  IN  /\ Fault("failure")
      /\ stage[p] \in {"process", "sell"}
      /\ Goto(p, "fail")
      /\ \/ UNCHANGED claims
         \/ /\ stage[p] = IF IsPurchase(j) THEN "sell" ELSE "process"
            /\ target[TargetOf[j]] = "open"
            /\ Undo(TargetOf[j], "taken", {})
      /\ UNCHANGED <<request, store, topics, group, pos, current, msg, ended,
                     handled, abandoned>>

\* CompleteJob runs in the generation's context, so it fails once that has
\* ended; its error is ignored.
CompleteJob(p) ==
  /\ stage[p] = "complete"
  /\ \/ ~ended[p] /\ SetJobStatus(msg[p].job, "completed") /\ UNCHANGED faults
     \/ ended[p] /\ UNCHANGED <<jobStatus, faults>>
     \/ Fault("failure") /\ UNCHANGED jobStatus
  /\ Goto(p, "ack")
  /\ UNCHANGED <<request, depth, topics, claims, group, pos, current, msg,
                 ended, handled, abandoned>>

\* Faulty: the counter may stay negative.
ClampNeededNever(result) == FALSE

\* Does a DECRBY with this result have to be followed by SET 0?
ClampNeeded(result) == result < 0

\* DECRBY, which may fail unnoticed; a negative result is followed by SET 0.
Acknowledge(p) ==
  /\ stage[p] = "ack"
  /\ current' = [current EXCEPT ![p] = Offset(p)]
  /\ \/ /\ depth' = depth - 1
        /\ IF ClampNeeded(depth - 1)
           THEN Goto(p, "clamp") /\ UNCHANGED <<msg, handled, abandoned>>
           ELSE Done(p, TRUE)
        /\ UNCHANGED faults
     \/ Fault("failure") /\ Done(p, TRUE) /\ UNCHANGED depth
  /\ UNCHANGED <<request, jobStatus, topics, claims, group, pos, ended>>

\* SET 0, which may fail unnoticed.
Clamp(p) ==
  /\ stage[p] = "clamp"
  /\ \/ depth' = 0 /\ UNCHANGED faults
     \/ Fault("failure") /\ UNCHANGED depth
  /\ Done(p, TRUE)
  /\ UNCHANGED <<request, jobStatus, topics, claims, group, pos, current, ended>>

\* HandleBookingJobFailure and HandlePurchaseJobFailure: the status first.
\* When it cannot be written nothing else is, and the error is ignored.
HandleJobFailure(p) ==
  /\ stage[p] = "fail"
  /\ \/ /\ ~ended[p]
        /\ msg[p].attempt < MaxRetries
        /\ SetJobStatus(msg[p].job, "retrying")
        /\ Goto(p, "retry")
        /\ UNCHANGED <<msg, handled, abandoned, faults>>
     \/ /\ ~ended[p]
        /\ msg[p].attempt >= MaxRetries
        /\ SetJobStatus(msg[p].job, "dead_lettered")
        /\ Goto(p, "bury")
        /\ UNCHANGED <<msg, handled, abandoned, faults>>
     \/ ended[p] /\ Done(p, FALSE) /\ UNCHANGED <<jobStatus, faults>>
     \/ /\ Fault("failure")
        /\ Done(p, FALSE)
        /\ UNCHANGED jobStatus
  /\ UNCHANGED <<request, depth, topics, claims, group, pos, current, ended>>

\* Faulty: the command is not written again.
WriteRetryForgotten(p) ==
  /\ stage[p] = "retry"
  /\ Goto(p, "requeued")
  /\ UNCHANGED <<request, store, topics, claims, group, pos, current, msg,
                 ended, handled, abandoned, faults>>

\* The command is written again, with the next attempt.  In a generation
\* that has ended the call returns an error, written or not.
WriteRetry(p) ==
  /\ stage[p] = "retry"
  /\ \/ /\ Write(msg[p].job, msg[p].attempt + 1)
        /\ IF ended[p] THEN Done(p, TRUE)
           ELSE Goto(p, "requeued") /\ UNCHANGED <<msg, handled, abandoned>>
        /\ UNCHANGED faults
     \/ /\ Fault("failure") \/ (ended[p] /\ UNCHANGED faults)
        /\ Done(p, FALSE)
        /\ UNCHANGED log
  /\ UNCHANGED <<request, store, dlq, claims, group, pos, current, ended>>

CountRetry(p) ==
  /\ stage[p] = "requeued"
  /\ \/ ~ended[p] /\ depth' = depth + 1 /\ UNCHANGED faults
     \/ ended[p] /\ UNCHANGED <<depth, faults>>
     \/ Fault("failure") /\ UNCHANGED depth
  /\ Done(p, TRUE)
  /\ UNCHANGED <<request, jobStatus, topics, claims, group, pos, current, ended>>

WriteDeadLetter(p) ==
  /\ stage[p] = "bury"
  /\ \/ dlq' = dlq \cup {msg[p].job} /\ Done(p, TRUE) /\ UNCHANGED faults
     \/ /\ Fault("failure") \/ (ended[p] /\ UNCHANGED faults)
        /\ Done(p, FALSE)
        /\ UNCHANGED dlq
  /\ UNCHANGED <<request, store, log, claims, group, pos, current, ended>>

------------------------------------------------------------------------------
Enqueue(j) == WriteCommand(j) \/ CountCommand(j)

Read(p) ==
  \/ ReadMessage(p)
  \/ ProcessJob(p)
  \/ SellBooking(p)
  \/ ChargeBooking(p)
  \/ RevertPurchase(p)
  \/ CompleteJob(p)
  \/ Acknowledge(p)
  \/ Clamp(p)
  \/ HandleJobFailure(p)
  \/ WriteRetry(p)
  \/ CountRetry(p)
  \/ WriteDeadLetter(p)

Next ==
  \/ \E j \in Jobs : EnqueueJob(j) \/ Enqueue(j) \/ EnqueueFails(j)
  \/ \E p \in Partitions :
       \/ \E m \in Members : Assign(m, p)
       \/ Read(p)
       \/ ProcessFails(p)
       \/ EndGeneration(p)
       \/ CommitOffsets(p)
  \/ \E m \in Members : Crash(m)
  \/ \E r \in Targets : TargetChanges(r)

Spec == Init /\ [][Next]_vars

\* Requests run to their end, readers read, and a free partition is assigned.
FairSpec ==
  /\ Spec
  /\ \A j \in Jobs : WF_vars(Enqueue(j))
  /\ \A p \in Partitions :
       /\ WF_vars(\E m \in Members : Assign(m, p))
       /\ WF_vars(Read(p))
       /\ WF_vars(CommitOffsets(p))

------------------------------------------------------------------------------
(* Correctness properties.                                                 *)

\* A job reported as completed has its target, whatever is redelivered,
\* retried or cut short, until somebody else undoes that: two jobs are never
\* both told that they got the same seat, unless it was given up in between.
\* Two jobs for one booking may both be told that it is sold, and it is,
\* unless a third party or the failing payment of the other has reverted the
\* sale: then the job is in undone, as purchase_revert of PurchaseFlow shows.
CompletedHoldsTarget ==
  \A j \in Jobs : jobStatus[j] = "completed" =>
    \/ j \in undone
    \/ /\ target[TargetOf[j]] = "taken"
       /\ j \in holders[TargetOf[j]]
       /\ IsPurchase(j) \/ holders[TargetOf[j]] = {j}

\* The offsets before the committed one that nobody has dealt with.
Skipped(p) == (0 .. committed[p] - 1) \ handled[p]

\* A command is lost only to a fault: it has been given up by a handler whose
\* call failed, be it that its generation had ended, and whose error is
\* ignored; or it is the one command of a partition that a generation skips
\* which ends without having read anything.
SkipsBounded ==
  \A p \in Partitions :
    Cardinality(Skipped(p) \ abandoned[p]) <= faults["rebalance"]

\* README.md: "background workers process requests".  No offset is committed
\* before its command has been dealt with.
NoCommandSkipped == \A p \in Partitions : Skipped(p) = {}

\* Nothing is under way: every request has been answered and every partition
\* is read to its end.
Quiet ==
  /\ \A j \in Jobs : request[j] \notin {"write", "bump"}
  /\ \A p \in Partitions : stage[p] \in {"off", "fetch"} /\ pos[p] = Len(log[p])

\* Has the job got its target, even if somebody else has undone that since?
Granted(j) == j \in holders[TargetOf[j]] \cup undone

\* "Returns the status of an async booking/purchase job": when the queue is
\* quiet, and no call was cut short and no job run twice by a fault, an
\* accepted job is completed if it got its target, be it that another job
\* for the same booking got it too, and otherwise it is dead-lettered and its
\* command is in the dead-letter topic.
StatusTruthful ==
  (Quiet /\ \A f \in FaultKinds : faults[f] = 0) => \A j \in Jobs : request[j] = "accepted" =>
    \/ Granted(j) /\ jobStatus[j] = "completed"
    \/ ~Granted(j) /\ jobStatus[j] = "dead_lettered" /\ j \in dlq

\* The depth that GetMetrics reports is negative only for as long as a reader
\* is about to clamp it, although readers decrement it before requests have
\* incremented it; a failing call, or a death between the two commands, can
\* leave it one too low for each reader concerned.
DepthClamped ==
  depth + Cardinality({p \in Partitions : stage[p] = "clamp"})
        + faults["failure"] + Cardinality(Partitions) * faults["crash"] >= 0

\* The outcome of a job is known.
Settled(j) ==
  jobStatus[j] = "completed" \/ (jobStatus[j] = "dead_lettered" /\ j \in dlq)

\* README.md: "API returns HTTP 202 (Accepted) immediately while background
\* workers process requests".  Every accepted job is completed or
\* dead-lettered in the end, through its retries and, as offsets are not
\* committed before a generation ends, through the death of its reader; only
\* the end of a generation or a call that fails can leave one behind.
JobsSettle ==
  \A j \in Jobs :
    request[j] = "accepted" ~>
      Settled(j) \/ faults["rebalance"] + faults["failure"] > 0
==============================================================================
