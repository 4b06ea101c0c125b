------------------------------ MODULE SeatFeed ------------------------------
(***************************************************************************)
(* How a change of a seat reaches the screens: it is committed, published  *)
(* to the booking-events topic (kafka_event_publisher.go, producer.go),    *)
(* consumed by one process of the group booking-event-consumers            *)
(* (booking_event_consumer.go, consumer.go), broadcast to the clients of   *)
(* that process and, through Redis, to the other processes (hub.go).       *)
(* The booking workers also broadcast directly.  Records are keyed by      *)
(* event, so those of one seat share a partition.  A message of the hub is *)
(* the number of the change of the seat that it announces.                 *)
(***************************************************************************)
EXTENDS Hub

CONSTANTS NoInstance,  \* the owner of an unassigned partition
          Scenarios    \* bounds: what may happen, one choice for each behaviour

\* change: of the seat; direct: changes made by a worker; silent: rollbacks of a
\* bulk reservation; invalid: records that no consumer understands; rebalance:
\* the partition is taken away; crash: a process dies; failure: a call to Kafka
\* or Redis fails; leave: a browser disconnects.
Kinds == {"change", "direct", "silent", "invalid", "rebalance", "crash",
          "failure", "leave"}

\* A scenario also says who is listening from the start and who comes later.
ASSUME FeedAssumption ==
  /\ NoInstance \notin Instances
  /\ Scenarios \subseteq [bound : [Kinds -> Nat], early : SUBSET Clients,
                          late : SUBSET Clients]

VARIABLES changes,      \* how often the seat has changed
          publication,  \* publication[k]: that of change k
          worker,       \* worker[k]: the process whose worker made change k
          direct,       \* direct[k]: the worker's own broadcast of change k
          topic,        \* the records of the partition
          owner,        \* the process that consumes the partition
          committed,    \* the group's offset: records it will not read again
          position,     \* the records the owner has fetched
          hand,         \* hand[i]: the record that process i handles
          stage,        \* stage[i]: what process i does next with it
          acked,        \* acked[i]: the acknowledgement it has yet to flush
          fan,          \* fan[i]: what Redis has for process i
          dealt,        \* records that have been handled or dead-lettered
          unburied,     \* records that could not be dead-lettered
          latest,       \* the record that was handled last
          since,        \* since[c]: the changes before client c was listening
          disturbed,    \* what has happened to put a screen out of date
          left          \* left[f]: how often f may still happen

commits == <<changes, publication, worker, direct>>
group == <<topic, owner, committed, position>>
consumer == <<hand, stage, acked>>
dealing == <<dealt, unburied, latest>>
history == <<dealing, since, disturbed>>
feedVars == <<commits, group, consumer, fan, history, left>>
vars == <<hubVars, feedVars>>

\* A record that is not a booking event, or one of an unknown type.
Invalid == 0

Idle == 0

\* Every variable holds a value of its type.
TypeOK ==
  /\ HubTypeOK
  /\ changes \in Messages \cup {0}
  /\ publication \in [Messages -> {"none", "due", "sent", "lost", "silent"}]
  /\ worker \in [Messages -> Instances \cup {NoInstance}]
  /\ direct \in [Messages -> {"none", "due", "fanout", "done"}]
  /\ topic \in Seq(Messages \cup {Invalid})
  /\ owner \in Instances \cup {NoInstance}
  /\ committed \in Nat
  /\ position \in Nat
  /\ hand \in [Instances -> Nat]
  /\ stage \in [Instances -> {"fetch", "handle", "fanout", "bury", "ack"}]
  /\ acked \in [Instances -> Nat]
  /\ fan \in [Instances -> Seq(Messages)]
  /\ dealt \subseteq Nat
  /\ unburied \subseteq Nat
  /\ latest \in Nat
  /\ since \in [Clients -> Messages \cup {0}]
  /\ disturbed \in BOOLEAN
  /\ left \in [Kinds -> Nat]

Init ==
  /\ changes = 0
  /\ publication = [k \in Messages |-> "none"]
  /\ worker = [k \in Messages |-> NoInstance]
  /\ direct = [k \in Messages |-> "none"]
  /\ topic = <<>>
  /\ owner = NoInstance
  /\ committed = 0
  /\ position = 0
  /\ hand = [i \in Instances |-> Idle]
  /\ stage = [i \in Instances |-> "fetch"]
  /\ acked = [i \in Instances |-> 0]
  /\ fan = [i \in Instances |-> <<>>]
  /\ dealt = {}
  /\ unburied = {}
  /\ latest = 0
  /\ since = [c \in Clients |-> 0]
  /\ disturbed = FALSE
  /\ \E s \in Scenarios : left = s.bound /\ InitHub(s.early, s.late)

\* Something bounded happens.
Spend(f) == left[f] > 0 /\ left' = [left EXCEPT ![f] = @ - 1]

\* What may put a screen out of date happens, or does not.
Disturb(happens) == disturbed' = (disturbed \/ happens)

------------------------------------------------------------------------------
(* The booking service, after a commit, and the booking workers.           *)

\* The seat changes, in a request or in a worker of process i.
Change(k) ==
  /\ k = changes + 1 /\ k \in Messages
  /\ changes' = k
  /\ UNCHANGED <<hubVars, group, consumer, fan, dealing, since>>

Commit(k) ==
  /\ Change(k) /\ Spend("change")
  /\ publication' = [publication EXCEPT ![k] = "due"]
  /\ UNCHANGED <<worker, direct, disturbed>>

CommitByWorker(i, k) ==
  /\ Change(k) /\ Spend("direct")
  /\ publication' = [publication EXCEPT ![k] = "due"]
  /\ worker' = [worker EXCEPT ![k] = i]
  /\ direct' = [direct EXCEPT ![k] = "due"]
  /\ UNCHANGED disturbed

\* The rollback of a bulk reservation publishes nothing.
CommitSilently(k) ==
  /\ Change(k) /\ Spend("silent")
  /\ publication' = [publication EXCEPT ![k] = "silent"]
  /\ Disturb(TRUE)
  /\ UNCHANGED <<worker, direct>>

\* PublishBookingEvent: whoever has committed publishes when it comes to it.
Publish(k) ==
  /\ publication[k] = "due"
  /\ publication' = [publication EXCEPT ![k] = "sent"]
  /\ topic' = Append(topic, k)
  /\ Disturb(\E n \in DOMAIN topic : topic[n] > k)
  /\ UNCHANGED <<hubVars, changes, worker, direct, owner, committed, position,
                 consumer, fan, dealing, since, left>>

\* The record is not written: that is only logged.
PublishFails(k) ==
  /\ Spend("failure")
  /\ publication[k] = "due"
  /\ publication' = [publication EXCEPT ![k] = "lost"]
  /\ Disturb(TRUE)
  /\ UNCHANGED <<hubVars, changes, worker, direct, group, consumer, fan,
                 dealing, since>>

\* Somebody else's record is in the topic.
WriteInvalid ==
  /\ Spend("invalid")
  /\ topic' = Append(topic, Invalid)
  /\ UNCHANGED <<hubVars, commits, owner, committed, position, consumer, fan,
                 history>>

------------------------------------------------------------------------------
(* BroadcastSeatUpdate in its two steps, and StartFanout.                  *)

\* The channel of the hub of process i takes the message.
Announce(i, m) == broadcast' = [broadcast EXCEPT ![i] = BroadcastLocal(i, m)]

\* Is a message on its way to process i older than m, or m dropped?
Overtakes(i, m) ==
  \/ Len(broadcast[i]) >= QueueSize
  \/ \E n \in DOMAIN fan[i] : fan[i][n] < m

\* Faulty: the test of the source is the wrong way round.
PublishFanoutOwn(i, m) == fan' = [fan EXCEPT ![i] = Append(@, m)]

\* publishFanout: every other process is sent the message; StartFanout takes
\* no notice of those of its own.
PublishFanout(i, m) ==
  fan' = [j \in Instances |-> IF j = i THEN fan[j] ELSE Append(fan[j], m)]

\* The worker broadcasts the change once the service has returned; the
\* booking worker looks up the seat first and gives up when that fails.
DirectBroadcast(k) ==
  LET i == worker[k]
  IN  /\ direct[k] = "due" /\ publication[k] # "due"
      /\ \/ /\ direct' = [direct EXCEPT ![k] = "fanout"]
            /\ Announce(i, k)
            /\ Disturb(changes > k \/ Overtakes(i, k))
            /\ UNCHANGED left
         \/ /\ Spend("failure")
            /\ direct' = [direct EXCEPT ![k] = "done"]
            /\ UNCHANGED <<broadcast, disturbed>>
      /\ UNCHANGED <<pumps, hub, send, changes, publication, worker, group,
                     consumer, fan, dealing, since>>

DirectFanout(k) ==
  /\ direct[k] = "fanout"
  /\ direct' = [direct EXCEPT ![k] = "done"]
  /\ PublishFanout(worker[k], k)
  /\ Disturb(changes > k)
  /\ UNCHANGED <<hubVars, changes, publication, worker, group, consumer,
                 dealing, since, left>>

\* StartFanout receives a message of another process.
ReceiveFanout(i) ==
  /\ fan[i] # <<>>
  /\ fan' = [fan EXCEPT ![i] = Tail(@)]
  /\ Announce(i, Head(fan[i]))
  /\ Disturb(Len(broadcast[i]) >= QueueSize)
  /\ UNCHANGED <<pumps, hub, send, commits, group, consumer, dealing, since, left>>

------------------------------------------------------------------------------
(* The consumer of process i.                                              *)

Goto(i, s) == stage' = [stage EXCEPT ![i] = s]

\* The loop comes back to Fetch.
Continue(i) == Goto(i, "fetch") /\ hand' = [hand EXCEPT ![i] = Idle]

\* Faulty: records of unknown types are broadcast too.
UnderstoodAlways(n) == TRUE

\* Faulty: a process begins with the records to come.
AssignLatest(i) ==
  /\ owner = NoInstance
  /\ owner' = i
  /\ position' = Len(topic)
  /\ UNCHANGED <<hubVars, commits, topic, committed, consumer, fan, history,
                 left>>

\* The record at n is a booking event of a known type.
Understood(n) == topic[n] # Invalid

\* The coordinator gives the partition to a process (external).  A booking
\* event is passed over when the offset was committed by a process that had
\* the partition before, and those after it have handled earlier ones again.
Assign(i) ==
  /\ owner = NoInstance
  /\ owner' = i
  /\ position' = committed
  /\ Disturb(\E n \in latest + 1 .. committed : Understood(n))
  /\ UNCHANGED <<hubVars, commits, topic, committed, consumer, fan, dealing,
                 since, left>>

\* It takes it away again, whatever the process is doing.
Rebalance ==
  /\ Spend("rebalance")
  /\ owner # NoInstance
  /\ owner' = NoInstance
  /\ position' = 0
  /\ UNCHANGED <<hubVars, commits, topic, committed, consumer, fan, history>>

Fetch(i) ==
  /\ owner = i /\ stage[i] = "fetch"
  /\ position < Len(topic)
  /\ position' = position + 1
  /\ hand' = [hand EXCEPT ![i] = position + 1]
  /\ Goto(i, IF Understood(position + 1) THEN "handle" ELSE "bury")
  /\ UNCHANGED <<hubVars, commits, topic, owner, committed, acked, fan, history,
                 left>>

\* Process i has lost the partition since it read the record in its hand.
Strayed(i) == owner # i \/ position # hand[i]

\* handle: the message goes to the hub of this process,
Handle(i) ==
  LET m == topic[hand[i]]
  IN  /\ stage[i] = "handle"
      /\ Goto(i, "fanout")
      /\ Announce(i, m)
      /\ Disturb(Strayed(i) \/ Overtakes(i, m))
      /\ UNCHANGED <<pumps, hub, send, commits, group, hand, acked, fan, dealing,
                     since, left>>

\* and to the others; when Redis fails that is only logged.
HandleFanout(i) ==
  /\ stage[i] = "fanout"
  /\ Goto(i, "ack")
  /\ \/ PublishFanout(i, topic[hand[i]]) /\ Disturb(Strayed(i)) /\ UNCHANGED left
     \/ Spend("failure") /\ Disturb(TRUE) /\ UNCHANGED fan
  /\ dealt' = dealt \cup {hand[i]}
  /\ latest' = hand[i]
  /\ UNCHANGED <<hubVars, commits, group, hand, acked, unburied, since>>

\* deadLetterThenAck: acknowledged only once it is in the dead-letter topic.
DeadLetter(i) ==
  /\ stage[i] = "bury"
  /\ \/ /\ Goto(i, "ack")
        /\ dealt' = dealt \cup {hand[i]}
        /\ UNCHANGED <<hand, unburied, left>>
     \/ /\ Spend("failure")
        /\ Continue(i)
        /\ unburied' = unburied \cup {hand[i]}
        /\ UNCHANGED dealt
  /\ UNCHANGED <<hubVars, commits, group, acked, fan, latest, since, disturbed>>

\* Faulty: the record after this one is acknowledged too.
AckedOffsetNext(i) == hand[i] + 1

\* The offset that an acknowledgement of the record in hand stands for.
AckedOffset(i) == hand[i]

\* Ack: the offset is committed later, at the reader's CommitInterval.
Ack(i) ==
  /\ stage[i] = "ack"
  /\ acked' = [acked EXCEPT ![i] = AckedOffset(i)]
  /\ Continue(i)
  /\ UNCHANGED <<hubVars, commits, group, fan, history, left>>

\* The reader commits what it has last been told, be it the owner or not.
FlushCommits(i) ==
  /\ acked[i] # 0
  /\ acked' = [acked EXCEPT ![i] = 0]
  /\ committed' = acked[i]
  /\ UNCHANGED <<hubVars, commits, topic, owner, position, hand, stage, fan,
                 history, left>>

\* The process dies, with its hub, what its workers were about to announce
\* and all it has not flushed.
Crash(i) ==
  LET dying == {k \in Messages : worker[k] = i}
  IN  /\ Spend("crash")
      /\ HubDies(i)
      /\ Continue(i)
      /\ acked' = [acked EXCEPT ![i] = 0]
      /\ fan' = [fan EXCEPT ![i] = <<>>]
      /\ IF owner = i THEN owner' = NoInstance /\ position' = 0
         ELSE UNCHANGED <<owner, position>>
      /\ publication' = [k \in Messages |->
           IF k \in dying /\ publication[k] = "due" THEN "lost" ELSE publication[k]]
      /\ direct' = [k \in Messages |-> IF k \in dying THEN "done" ELSE direct[k]]
      /\ Disturb(\E k \in dying : publication[k] = "due" \/ direct[k] = "fanout")
      /\ UNCHANGED <<changes, worker, topic, committed, dealing, since>>

------------------------------------------------------------------------------
Listening == clients \cap subscribed

\* A step of the hub, its clients and their goroutines.
HubStep ==
  /\ HubNext
  /\ UNCHANGED left
  /\ since' = [c \in Clients |->
                 IF c \in Listening' \ Listening THEN changes ELSE since[c]]
  /\ UNCHANGED <<commits, group, consumer, fan, dealing, disturbed>>

\* A browser goes away.
Leave(c) ==
  /\ Disconnect(c)
  /\ Spend("leave")
  /\ UNCHANGED <<commits, group, consumer, fan, history>>

Consume(i) ==
  \/ Fetch(i) \/ Handle(i) \/ HandleFanout(i) \/ DeadLetter(i) \/ Ack(i)

Next ==
  \/ \E k \in Messages :
       \/ Commit(k)
       \/ CommitSilently(k)
       \/ \E i \in Instances : CommitByWorker(i, k)
       \/ Publish(k)
       \/ PublishFails(k)
       \/ DirectBroadcast(k)
       \/ DirectFanout(k)
  \/ WriteInvalid
  \/ Rebalance
  \/ \E i \in Instances :
       \/ Assign(i)
       \/ Consume(i)
       \/ FlushCommits(i)
       \/ ReceiveFanout(i)
       \/ Crash(i)
  \/ \E c \in Clients : Leave(c)
  \/ HubStep

Spec == Init /\ [][Next]_vars

\* Consumers, hubs and connections that are closed go on.
FairSpec ==
  /\ Spec
  /\ HubFairness
  /\ WF_vars(\E i \in Instances : Assign(i))
  /\ \A i \in Instances : WF_vars(Consume(i))

------------------------------------------------------------------------------
(* Correctness properties.                                                 *)

\* "commits the offset only when publish succeeds", and handling comes before
\* the acknowledgement: whatever dies, is taken away or is committed late and
\* out of order, no offset is committed past a record that has been neither
\* handled nor dead-lettered; but for one whose dead letter could not be
\* written, which the acknowledgement of the next record passes over.
NothingSkipped == 1 .. committed \subseteq dealt \cup unburied

\* Every record in the topic is dealt with in the end, but for those.
EventsDealtWith ==
  \A n \in 1 .. Cardinality(Messages) + 1 :
    n \in DOMAIN topic ~> n \in dealt \cup unburied

\* Nothing is under way, and somebody has read the partition to its end.
Quiet ==
  /\ \A k \in Messages : publication[k] # "due" /\ direct[k] \notin {"due", "fanout"}
  /\ owner # NoInstance /\ position = Len(topic)
  /\ \A i \in Instances :
       stage[i] = "fetch" /\ broadcast[i] = <<>> /\ fan[i] = <<>>

\* "WebSocket server broadcasts seat status changes to all connected clients":
\* when all is quiet, a client that was listening when the seat last changed
\* shows that change, whichever process it is connected to, however often
\* records were handled again and whatever has died.  It may show another
\* only when a change was not announced (by a rollback, or for a failing
\* call), or was announced after a later one: because it was published after
\* it, handled by a process that had lost the partition meanwhile, handled
\* again without the later one, whose offset had been committed, broadcast
\* late by a worker, or still on its way through Redis; or when the hub was
\* too busy.
ScreensSettle ==
  (Quiet /\ ~disturbed) =>
    \A c \in Listening :
      (conn[c] = "open" /\ writer[c] = "writing" /\ send[c] = <<>> /\ since[c] < changes) =>
        screen[c] = changes
==============================================================================
