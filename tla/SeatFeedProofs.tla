--------------------------- MODULE SeatFeedProofs ---------------------------
(***************************************************************************)
(* For any number of processes, clients, changes and faults: no channel is *)
(* used after it was closed, no offset is committed past a record that     *)
(* nobody has dealt with, and once all is quiet the screens show the last  *)
(* change.                                                                 *)
(***************************************************************************)
EXTENDS SeatFeed, TLAPS

\* A client comes once.  Until then it is in no set of the hub; later it is in
\* the Register channel or registered or dropped, never two of these at once.
ClientsOK ==
  /\ conn \in [Clients -> {"new", "open", "closed"}]
  /\ joining \subseteq Clients
  /\ clients \subseteq Clients
  /\ joining \cap clients = {}
  /\ sendClosed \cap (joining \cup clients) = {}
  /\ \A c \in Clients : conn[c] = "new" => c \notin joining \cup clients \cup sendClosed

\* The records that are off the consumers' hands.
Dealt == dealt \cup unburied

\* Process i has read past no record but those that are dealt with and the one
\* in its hand, whether or not it still owns the partition; and what it is
\* about to acknowledge is dealt with.
ConsumerOK(i) ==
  /\ 1 .. acked[i] \subseteq Dealt
  /\ stage[i] # "fetch" => 1 .. (hand[i] - 1) \subseteq Dealt
  /\ stage[i] = "ack" => hand[i] \in Dealt
  /\ owner = i =>
       1 .. position \subseteq IF stage[i] = "fetch" THEN Dealt ELSE Dealt \cup {hand[i]}

GroupTypeOK ==
  /\ committed \in Nat
  /\ position \in Nat
  /\ hand \in [Instances -> Nat]
  /\ acked \in [Instances -> Nat]
  /\ stage \in [Instances -> {"fetch", "handle", "fanout", "bury", "ack"}]

GroupOK ==
  /\ GroupTypeOK
  /\ NothingSkipped
  /\ \A i \in Instances : ConsumerOK(i)

------------------------------------------------------------------------------
(* The hub.                                                                *)

\* No client of a hub is in two places when the processes start.
LEMMA ClientsOKInit == Init => ClientsOK
<1>. SUFFICES ASSUME Init PROVE ClientsOK
  OBVIOUS
<1>1. PICK s \in Scenarios : InitHub(s.early, s.late)
  BY DEF Init
<1>2. s.early \subseteq Clients
  BY FeedAssumption
<1>3. conn \in [Clients -> {"new", "open", "closed"}]
  BY <1>1 DEF InitHub
<1>4. /\ joining = {} /\ clients = s.early /\ sendClosed = {}
      /\ \A c \in Clients : c \in s.early => conn[c] = "open"
  BY <1>1 DEF InitHub
<1>. QED
  BY <1>2, <1>3, <1>4 DEF ClientsOK

\* A step that touches neither the connections nor the sets of clients.
LEMMA ClientsUntouched ==
  ASSUME ClientsOK, UNCHANGED <<conn, joining, clients, sendClosed>>
  PROVE  ClientsOK'
BY DEF ClientsOK

\* Whatever the hub and its pumps do, a client stays in one place.
LEMMA HubKeepsClientsOK ==
  ASSUME ClientsOK, HubNext
  PROVE  ClientsOK'
<1>1. ASSUME NEW c \in Clients, HandleClient(c) PROVE ClientsOK'
  BY <1>1 DEF ClientsOK, HandleClient
<1>2. ASSUME NEW c \in Clients, Subscribe(c) PROVE ClientsOK'
  BY <1>2, ClientsUntouched DEF Subscribe, hub
<1>3. ASSUME NEW c \in Clients, WriteMessage(c) PROVE ClientsOK'
  BY <1>3, ClientsUntouched DEF WriteMessage, hub
<1>4. ASSUME NEW c \in Clients, Pump(c) PROVE ClientsOK'
  <2>1. CASE ReadFails(c)
    BY <2>1, ClientsUntouched DEF ReadFails, hub
  <2>2. CASE Unregister(c)
    BY <2>2, ClientsUntouched DEF Unregister
  <2>3. CASE CloseConnection(c)
    BY <1>4, <2>3 DEF ClientsOK, CloseConnection, hub
  <2>. QED
    BY <1>4, <2>1, <2>2, <2>3 DEF Pump
<1>5. ASSUME NEW c \in Clients, Serve(c) PROVE ClientsOK'
  <2>1. CASE RunRegister(c)
    BY <1>5, <2>1 DEF ClientsOK, RunRegister, pumps
  <2>2. CASE RunUnregister(c)
    BY <1>5, <2>2 DEF ClientsOK, RunUnregister, RemoveClient, pumps
  <2>. QED
    BY <1>5, <2>1, <2>2 DEF Serve
<1>6. ASSUME NEW i \in Instances, RunBroadcast(i) PROVE ClientsOK'
  <2>1. PICK stale : /\ stale \subseteq clients
                     /\ clients' = clients \ stale
                     /\ sendClosed' = sendClosed \cup stale
    BY <1>6 DEF RunBroadcast, Recipients
  <2>2. UNCHANGED <<conn, joining>>
    BY <1>6 DEF RunBroadcast, pumps
  <2>. QED
    BY <2>1, <2>2 DEF ClientsOK
<1>. QED
  BY <1>1, <1>2, <1>3, <1>4, <1>5, <1>6 DEF HubNext

\* The steps around the hub leave its clients alone, but for a crash.
LEMMA NextKeepsClientsOK ==
  ASSUME ClientsOK, [Next]_vars
  PROVE  ClientsOK'
<1>. USE ClientsUntouched
<1>1. ASSUME NEW k \in Messages, Change(k) PROVE ClientsOK'
  BY <1>1 DEF Change, hubVars, pumps, hub
<1>2. ASSUME NEW k \in Messages, Publish(k) \/ PublishFails(k) PROVE ClientsOK'
  BY <1>2 DEF Publish, PublishFails, hubVars, pumps, hub
<1>3. ASSUME NEW k \in Messages, DirectBroadcast(k) PROVE ClientsOK'
  BY <1>3 DEF DirectBroadcast, pumps, hub
<1>4. ASSUME NEW k \in Messages, DirectFanout(k) PROVE ClientsOK'
  BY <1>4 DEF DirectFanout, hubVars, pumps, hub
<1>5. CASE WriteInvalid \/ Rebalance
  BY <1>5 DEF WriteInvalid, Rebalance, hubVars, pumps, hub
<1>6. ASSUME NEW i \in Instances, Assign(i) \/ FlushCommits(i) PROVE ClientsOK'
  BY <1>6 DEF Assign, FlushCommits, hubVars, pumps, hub
<1>7. ASSUME NEW i \in Instances, Consume(i) PROVE ClientsOK'
  <2>1. CASE Fetch(i) \/ HandleFanout(i)
    BY <2>1 DEF Fetch, HandleFanout, hubVars, pumps, hub
  <2>2. CASE Handle(i)
    BY <2>2 DEF Handle, pumps, hub
  <2>3. CASE DeadLetter(i) \/ Ack(i)
    BY <2>3 DEF DeadLetter, Ack, hubVars, pumps, hub
  <2>. QED
    BY <1>7, <2>1, <2>2, <2>3 DEF Consume
<1>8. ASSUME NEW i \in Instances, ReceiveFanout(i) PROVE ClientsOK'
  BY <1>8 DEF ReceiveFanout, pumps, hub
<1>9. ASSUME NEW i \in Instances, Crash(i) PROVE ClientsOK'
  <2>1. HubDies(i)
    BY <1>9 DEF Crash
  <2>2. PICK gone : /\ conn' = [c \in Clients |-> IF c \in gone THEN "closed" ELSE conn[c]]
                    /\ joining' = joining \ gone
                    /\ clients' = clients \ gone
                    /\ sendClosed' = sendClosed
    BY <2>1 DEF HubDies
  <2>. QED
    BY <2>2 DEF ClientsOK
<1>10. ASSUME NEW c \in Clients, Leave(c) PROVE ClientsOK'
  BY <1>10 DEF Leave, Disconnect, ClientsOK, hub
<1>11. CASE HubStep
  BY <1>11, HubKeepsClientsOK DEF HubStep
<1>12. CASE UNCHANGED vars
  BY <1>12 DEF vars, hubVars, pumps, hub
<1>. QED
  BY <1>1, <1>2, <1>3, <1>4, <1>5, <1>6, <1>7, <1>8, <1>9, <1>10, <1>11, <1>12
     DEF Next, Commit, CommitSilently, CommitByWorker

\* removeClient and deliverToClients never close a channel twice nor send on a
\* closed one, in whatever order Run takes registrations, unregistrations and
\* messages.
THEOREM NoClosedChannelUsed == Spec => []RegisteredIsOpen
<1>1. ClientsOK => RegisteredIsOpen
  BY DEF ClientsOK, RegisteredIsOpen
<1>. QED
  BY <1>1, ClientsOKInit, NextKeepsClientsOK, PTL DEF Spec

------------------------------------------------------------------------------
(* The consumer group.                                                     *)

\* Nothing has been read when the processes start.
LEMMA GroupOKInit == Init => GroupOK
BY FeedAssumption DEF Init, GroupOK, GroupTypeOK, NothingSkipped, ConsumerOK, Dealt, Idle

\* A step that touches neither the consumers nor the group, ...
LEMMA GroupUntouched ==
  ASSUME GroupOK,
         UNCHANGED <<owner, committed, position, consumer, dealt, unburied>>
  PROVE  GroupOK'
BY DEF GroupOK, GroupTypeOK, NothingSkipped, ConsumerOK, Dealt, consumer

\* ... and one of process i, which may have dealt with more records.
LEMMA StepOfProcess ==
  ASSUME GroupOK, NEW i \in Instances, GroupTypeOK',
         Dealt \subseteq Dealt',
         UNCHANGED <<owner, committed>>,
         owner # i => UNCHANGED position,
         \A j \in Instances \ {i} :
           stage'[j] = stage[j] /\ hand'[j] = hand[j] /\ acked'[j] = acked[j],
         ConsumerOK(i)'
  PROVE  GroupOK'
<1>1. NothingSkipped'
  BY DEF GroupOK, NothingSkipped, Dealt
<1>2. ASSUME NEW j \in Instances, j # i PROVE ConsumerOK(j)'
  <2>1. ConsumerOK(j)
    BY DEF GroupOK
  <2>. QED
    BY <2>1, <1>2 DEF ConsumerOK
<1>. QED
  BY <1>1, <1>2 DEF GroupOK

\* A consumer goes on to the next record when it has dealt with this one.
LEMMA ConsumeKeepsGroupOK ==
  ASSUME GroupOK, NEW i \in Instances, Consume(i)
  PROVE  GroupOK'
<1>0. ConsumerOK(i) /\ GroupTypeOK
  BY DEF GroupOK
<1>1. CASE Fetch(i)
  <2>1. /\ owner = i /\ stage[i] = "fetch" /\ position' = position + 1
        /\ hand' = [hand EXCEPT ![i] = position + 1]
        /\ \E s \in {"handle", "bury"} : stage' = [stage EXCEPT ![i] = s]
        /\ UNCHANGED <<owner, committed, acked, dealt, unburied>>
    BY <1>1 DEF Fetch, Goto, history, dealing
  <2>2. GroupTypeOK'
    BY <2>1, <1>0 DEF GroupTypeOK
  <2>3. 1 .. position \subseteq Dealt
    BY <2>1, <1>0 DEF ConsumerOK
  <2>4. 1 .. (position + 1) \subseteq Dealt \cup {position + 1}
    BY <2>3, <1>0 DEF GroupTypeOK
  <2>5. /\ hand'[i] = position + 1 /\ hand'[i] - 1 = position
        /\ stage'[i] \in {"handle", "bury"}
    BY <2>1, <1>0 DEF GroupTypeOK
  <2>6. ConsumerOK(i)'
    BY <2>1, <2>3, <2>4, <2>5, <1>0 DEF ConsumerOK, Dealt
  <2>. QED
    BY <2>1, <2>2, <2>6, StepOfProcess, <1>0 DEF GroupTypeOK, Dealt
<1>2. CASE Handle(i)
  <2>1. /\ stage[i] = "handle" /\ stage' = [stage EXCEPT ![i] = "fanout"]
        /\ UNCHANGED <<owner, committed, position, hand, acked, dealt, unburied>>
    BY <1>2 DEF Handle, Goto, group, dealing
  <2>2. GroupTypeOK'
    BY <2>1, <1>0 DEF GroupTypeOK
  <2>3. ConsumerOK(i)'
    BY <2>1, <1>0 DEF ConsumerOK, Dealt, GroupTypeOK
  <2>. QED
    BY <2>1, <2>2, <2>3, StepOfProcess, <1>0 DEF GroupTypeOK, Dealt
<1>3. CASE HandleFanout(i)
  <2>1. /\ stage[i] = "fanout" /\ stage' = [stage EXCEPT ![i] = "ack"]
        /\ dealt' = dealt \cup {hand[i]}
        /\ UNCHANGED <<owner, committed, position, hand, acked, unburied>>
    BY <1>3 DEF HandleFanout, Goto, group
  <2>2. GroupTypeOK'
    BY <2>1, <1>0 DEF GroupTypeOK
  <2>3. ConsumerOK(i)'
    BY <2>1, <1>0 DEF ConsumerOK, Dealt, GroupTypeOK
  <2>. QED
    BY <2>1, <2>2, <2>3, StepOfProcess, <1>0 DEF GroupTypeOK, Dealt
<1>4. CASE DeadLetter(i)
  <2>1. /\ stage[i] = "bury"
        /\ \/ /\ stage' = [stage EXCEPT ![i] = "ack"] /\ UNCHANGED hand
           \/ /\ stage' = [stage EXCEPT ![i] = "fetch"]
              /\ hand' = [hand EXCEPT ![i] = Idle]
        /\ Dealt' = Dealt \cup {hand[i]}
        /\ UNCHANGED <<owner, committed, position, acked>>
    BY <1>4 DEF DeadLetter, Continue, Goto, group, Dealt
  <2>2. GroupTypeOK'
    BY <2>1, <1>0 DEF GroupTypeOK, Idle
  <2>3. ConsumerOK(i)'
    BY <2>1, <1>0 DEF ConsumerOK, GroupTypeOK
  <2>. QED
    BY <2>1, <2>2, <2>3, StepOfProcess, <1>0 DEF GroupTypeOK
<1>5. CASE Ack(i)
  <2>1. /\ stage[i] = "ack" /\ stage' = [stage EXCEPT ![i] = "fetch"]
        /\ hand' = [hand EXCEPT ![i] = Idle]
        /\ acked' = [acked EXCEPT ![i] = hand[i]]
        /\ UNCHANGED <<owner, committed, position, dealt, unburied>>
    BY <1>5 DEF Ack, AckedOffset, Continue, Goto, group, history, dealing
  <2>2. GroupTypeOK'
    BY <2>1, <1>0 DEF GroupTypeOK, Idle
  <2>3. 1 .. hand[i] \subseteq Dealt
    BY <2>1, <1>0 DEF ConsumerOK, GroupTypeOK
  <2>4. ConsumerOK(i)'
    BY <2>1, <2>3, <1>0 DEF ConsumerOK, GroupTypeOK, Dealt
  <2>. QED
    BY <2>1, <2>2, <2>4, StepOfProcess, <1>0 DEF GroupTypeOK, Dealt
<1>. QED
  BY <1>1, <1>2, <1>3, <1>4, <1>5 DEF Consume

\* Nor does any other step lose a record, rebalances and crashes included.
LEMMA NextKeepsGroupOK ==
  ASSUME GroupOK, [Next]_vars
  PROVE  GroupOK'
<1>1. ASSUME NEW k \in Messages, Change(k) PROVE GroupOK'
  BY <1>1, GroupUntouched DEF Change, group, dealing
<1>2. ASSUME NEW k \in Messages, Publish(k) \/ PublishFails(k) PROVE GroupOK'
  BY <1>2, GroupUntouched DEF Publish, PublishFails, group, dealing
<1>3. ASSUME NEW k \in Messages, DirectBroadcast(k) \/ DirectFanout(k) PROVE GroupOK'
  BY <1>3, GroupUntouched DEF DirectBroadcast, DirectFanout, group, dealing
<1>4. CASE WriteInvalid
  BY <1>4, GroupUntouched DEF WriteInvalid, history, dealing
<1>5. CASE Rebalance
  <2>1. /\ owner' = NoInstance /\ position' = 0
        /\ UNCHANGED <<committed, hand, stage, acked, dealt, unburied>>
    BY <1>5 DEF Rebalance, consumer, history, dealing
  <2>. QED
    BY <2>1, FeedAssumption DEF GroupOK, GroupTypeOK, NothingSkipped, ConsumerOK, Dealt
<1>6. ASSUME NEW i \in Instances, Assign(i) PROVE GroupOK'
  <2>1. /\ owner' = i /\ position' = committed
        /\ UNCHANGED <<committed, hand, stage, acked, dealt, unburied>>
    BY <1>6 DEF Assign, consumer, history, dealing
  <2>2. 1 .. position' \subseteq Dealt'
    BY <2>1 DEF GroupOK, NothingSkipped, Dealt
  <2>. QED
    BY <2>1, <2>2 DEF GroupOK, GroupTypeOK, NothingSkipped, ConsumerOK, Dealt
<1>7. ASSUME NEW i \in Instances, Consume(i) PROVE GroupOK'
  BY <1>7, ConsumeKeepsGroupOK
<1>8. ASSUME NEW i \in Instances, FlushCommits(i) PROVE GroupOK'
  <2>1. /\ committed' = acked[i] /\ acked' = [acked EXCEPT ![i] = 0]
        /\ UNCHANGED <<owner, position, hand, stage, dealt, unburied>>
    BY <1>8 DEF FlushCommits, history, dealing
  <2>2. GroupTypeOK'
    BY <2>1 DEF GroupOK, GroupTypeOK
  <2>3. NothingSkipped'
    BY <2>1 DEF GroupOK, NothingSkipped, ConsumerOK, Dealt
  <2>4. ASSUME NEW j \in Instances PROVE ConsumerOK(j)'
    BY <2>1 DEF GroupOK, GroupTypeOK, ConsumerOK, Dealt
  <2>. QED
    BY <2>2, <2>3, <2>4 DEF GroupOK
<1>9. ASSUME NEW i \in Instances, ReceiveFanout(i) PROVE GroupOK'
  BY <1>9, GroupUntouched DEF ReceiveFanout, group, dealing
<1>10. ASSUME NEW i \in Instances, Crash(i) PROVE GroupOK'
  <2>1. /\ stage' = [stage EXCEPT ![i] = "fetch"]
        /\ hand' = [hand EXCEPT ![i] = Idle]
        /\ acked' = [acked EXCEPT ![i] = 0]
        /\ IF owner = i THEN owner' = NoInstance /\ position' = 0
           ELSE UNCHANGED <<owner, position>>
        /\ UNCHANGED <<committed, dealt, unburied>>
    BY <1>10 DEF Crash, Continue, Goto, dealing
  <2>2. GroupTypeOK'
    BY <2>1 DEF GroupOK, GroupTypeOK, Idle
  <2>3. NothingSkipped'
    BY <2>1 DEF GroupOK, NothingSkipped
  <2>4. ASSUME NEW j \in Instances PROVE ConsumerOK(j)'
    <3>1. ConsumerOK(j) /\ GroupTypeOK
      BY DEF GroupOK
    <3>2. CASE j = i
      BY <2>1, <3>1, <3>2, FeedAssumption DEF ConsumerOK, GroupTypeOK, Dealt
    <3>3. CASE j # i
      BY <2>1, <3>1, <3>3, FeedAssumption DEF ConsumerOK, GroupTypeOK, Dealt
    <3>. QED
      BY <3>2, <3>3
  <2>. QED
    BY <2>2, <2>3, <2>4 DEF GroupOK
<1>11. ASSUME NEW c \in Clients, Leave(c) PROVE GroupOK'
  BY <1>11, GroupUntouched DEF Leave, group, history, dealing
<1>12. CASE HubStep
  BY <1>12, GroupUntouched DEF HubStep, group, dealing
<1>13. CASE UNCHANGED vars
  BY <1>13, GroupUntouched DEF vars, feedVars, group, history, dealing
<1>. QED
  BY <1>1, <1>2, <1>3, <1>4, <1>5, <1>6, <1>7, <1>8, <1>9, <1>10, <1>11, <1>12, <1>13
     DEF Next, Commit, CommitSilently, CommitByWorker

\* Whatever processes die, lose the partition or commit late, an offset is only
\* committed past records that were handled or dead-lettered, or whose dead
\* letter could not be written (deadLetterThenAck).
THEOREM EveryEventDealtWith == Spec => []NothingSkipped
<1>1. GroupOK => NothingSkipped
  BY DEF GroupOK
<1>. QED
  BY <1>1, GroupOKInit, NextKeepsGroupOK, PTL DEF Spec

------------------------------------------------------------------------------
(* Types.                                                                  *)

\* A step of the hub or of a pump keeps the types of the hub.
LEMMA HubTypes ==
  ASSUME HubTypeOK, HubNext
  PROVE  HubTypeOK'
<1>1. ASSUME NEW c \in Clients, HandleClient(c) PROVE HubTypeOK'
  BY <1>1 DEF HubTypeOK, HandleClient
<1>2. ASSUME NEW c \in Clients, Subscribe(c) PROVE HubTypeOK'
  BY <1>2 DEF HubTypeOK, Subscribe, hub
<1>3. ASSUME NEW c \in Clients, WriteMessage(c) PROVE HubTypeOK'
  <2>1. Tail(send[c]) \in Seq(Messages) /\ Head(send[c]) \in Messages
    BY <1>3 DEF HubTypeOK, WriteMessage
  <2>2. /\ send' = [send EXCEPT ![c] = Tail(send[c])]
        /\ \/ screen' = [screen EXCEPT ![c] = Head(send[c])] /\ UNCHANGED writer
           \/ writer' = [writer EXCEPT ![c] = "done"] /\ UNCHANGED screen
        /\ UNCHANGED <<conn, reader, subscribed, broadcast, hub>>
    BY <1>3 DEF WriteMessage
  <2>3. send' \in [Clients -> Seq(Messages)]
    BY <2>1, <2>2 DEF HubTypeOK
  <2>4. /\ screen' \in [Clients -> Messages \cup {0}]
        /\ writer' \in [Clients -> {"none", "writing", "done"}]
    BY <2>1, <2>2 DEF HubTypeOK
  <2>. QED
    BY <2>2, <2>3, <2>4 DEF HubTypeOK, hub
<1>4. ASSUME NEW c \in Clients, Pump(c) PROVE HubTypeOK'
  BY <1>4 DEF HubTypeOK, Pump, ReadFails, Unregister, CloseConnection, hub
<1>5. ASSUME NEW c \in Clients, Serve(c) PROVE HubTypeOK'
  BY <1>5 DEF HubTypeOK, Serve, RunRegister, RunUnregister, RemoveClient, pumps
<1>6. ASSUME NEW i \in Instances, RunBroadcast(i) PROVE HubTypeOK'
  <2>. DEFINE m == Head(broadcast[i])
              stale == {c \in Recipients(i) : Len(send[c]) >= BufferSize}
  <2>1. m \in Messages /\ Tail(broadcast[i]) \in Seq(Messages)
    BY <1>6 DEF HubTypeOK, RunBroadcast
  <2>2. stale \subseteq Clients
    BY DEF Recipients, HubTypeOK
  <2>3. /\ broadcast' = [broadcast EXCEPT ![i] = Tail(broadcast[i])]
        /\ send' = [c \in Clients |->
                      IF c \in Recipients(i) \ stale THEN Append(send[c], m) ELSE send[c]]
        /\ clients' = clients \ stale /\ sendClosed' = sendClosed \cup stale
        /\ UNCHANGED <<pumps, joining, leaving, overtaken>>
    BY <1>6 DEF RunBroadcast
  <2>4. send' \in [Clients -> Seq(Messages)]
    <3>. HIDE DEF m, stale
    <3>1. \A c \in Clients : Append(send[c], m) \in Seq(Messages) /\ send[c] \in Seq(Messages)
      BY <2>1 DEF HubTypeOK
    <3>. QED
      BY <2>3, <3>1
  <2>5. broadcast' \in [Instances -> Seq(Messages)]
    BY <2>1, <2>3 DEF HubTypeOK
  <2>. QED
    BY <2>2, <2>3, <2>4, <2>5 DEF HubTypeOK, pumps
<1>. QED
  BY <1>1, <1>2, <1>3, <1>4, <1>5, <1>6 DEF HubNext

\* So does a message that is announced, whether there is room for it or not.
LEMMA AnnounceTypes ==
  ASSUME HubTypeOK, NEW i \in Instances, NEW m \in Messages, Announce(i, m)
  PROVE  broadcast' \in [Instances -> Seq(Messages)]
<1>1. BroadcastLocal(i, m) \in Seq(Messages)
  BY DEF BroadcastLocal, HubTypeOK
<1>. QED
  BY <1>1 DEF Announce, HubTypeOK

\* What a process sends to the others.
LEMMA FanoutTypes ==
  ASSUME fan \in [Instances -> Seq(Messages)], NEW i \in Instances, NEW m \in Messages,
         PublishFanout(i, m)
  PROVE  /\ fan' \in [Instances -> Seq(Messages)] /\ fan'[i] = fan[i]
         /\ \A j \in Instances \ {i} : fan'[j] = Append(fan[j], m)
<1>1. \A j \in Instances : Append(fan[j], m) \in Seq(Messages) /\ fan[j] \in Seq(Messages)
  OBVIOUS
<1>. QED
  BY <1>1 DEF PublishFanout

\* No offset and no hand is past the end of the topic.
LimitsOK ==
  /\ committed <= Len(topic) /\ position <= Len(topic) /\ latest <= Len(topic)
  /\ \A i \in Instances : hand[i] <= Len(topic) /\ acked[i] <= Len(topic)

\* What a consumer handles is a booking event.
HandsOK ==
  \A i \in Instances :
    stage[i] \in {"handle", "fanout"} => hand[i] \in DOMAIN topic /\ topic[hand[i]] # Invalid

\* What a worker is to broadcast is a change that its process made.
DirectsOK ==
  \A k \in Messages :
    direct[k] \in {"due", "fanout"} => worker[k] \in Instances /\ k <= changes

FeedOK == TypeOK /\ LimitsOK /\ HandsOK /\ DirectsOK

\* What is spent is counted down.
LEMMA SpendTypes ==
  ASSUME left \in [Kinds -> Nat], NEW f \in Kinds, Spend(f) \/ UNCHANGED left
  PROVE  left' \in [Kinds -> Nat]
<1>1. CASE Spend(f)
  <2>1. left[f] - 1 \in Nat
    BY <1>1 DEF Spend
  <2>. QED
    BY <1>1, <2>1 DEF Spend
<1>. QED
  BY <1>1

\* One more record.
LEMMA AppendRecord ==
  ASSUME topic \in Seq(Messages \cup {Invalid}), NEW k \in Messages \cup {Invalid},
         topic' = Append(topic, k)
  PROVE  /\ topic' \in Seq(Messages \cup {Invalid})
         /\ Len(topic) \in Nat /\ Len(topic') = Len(topic) + 1
         /\ DOMAIN topic = 1 .. Len(topic) /\ DOMAIN topic' = 1 .. Len(topic) + 1
         /\ \A n \in DOMAIN topic : topic'[n] = topic[n]
         /\ topic'[Len(topic) + 1] = k
<1>. QED
  OBVIOUS

\* A step that leaves the group and its topic alone.
LEMMA LimitsUntouched ==
  ASSUME LimitsOK, HandsOK, UNCHANGED <<group, consumer, latest>>
  PROVE  LimitsOK' /\ HandsOK'
<1>. QED
  BY DEF LimitsOK, HandsOK, group, consumer

\* A step that leaves the changes and the workers' broadcasts alone.
LEMMA DirectsUntouched ==
  ASSUME DirectsOK, UNCHANGED <<changes, worker, direct>>
  PROVE  DirectsOK'
<1>. QED
  BY DEF DirectsOK

\* A longer topic does not move what is read of it.
LEMMA LongerTopic ==
  ASSUME FeedOK, NEW k \in Messages \cup {Invalid}, topic' = Append(topic, k),
         UNCHANGED <<committed, position, consumer, latest>>
  PROVE  LimitsOK' /\ HandsOK'
<1>1. topic \in Seq(Messages \cup {Invalid})
  BY DEF FeedOK, TypeOK
<1>2. /\ Len(topic) \in Nat /\ Len(topic') = Len(topic) + 1
      /\ DOMAIN topic \subseteq DOMAIN topic'
      /\ \A n \in DOMAIN topic : topic'[n] = topic[n]
  BY <1>1, AppendRecord
<1>3. LimitsOK'
  <2>1. /\ committed \in Nat /\ position \in Nat /\ latest \in Nat
        /\ \A i \in Instances : hand[i] \in Nat /\ acked[i] \in Nat
    BY DEF FeedOK, TypeOK
  <2>2. committed' = committed /\ position' = position /\ hand' = hand /\ acked' = acked
        /\ latest' = latest
    BY DEF consumer
  <2>. QED
    BY <1>2, <2>1, <2>2 DEF FeedOK, LimitsOK
<1>4. HandsOK'
  BY <1>2 DEF FeedOK, HandsOK, consumer
<1>. QED
  BY <1>3, <1>4

\* The changes, and their publication.
LEMMA CommitTypes ==
  ASSUME FeedOK, NEW k \in Messages,
         \/ Commit(k) \/ CommitSilently(k) \/ \E i \in Instances : CommitByWorker(i, k)
         \/ Publish(k) \/ PublishFails(k)
  PROVE  FeedOK'
<1>. USE DEF FeedOK
<1>1. CASE Commit(k) \/ CommitSilently(k) \/ \E i \in Instances : CommitByWorker(i, k)
  <2>1. Change(k)
    BY <1>1 DEF Commit, CommitSilently, CommitByWorker
  <2>2. left' \in [Kinds -> Nat]
    BY <1>1, SpendTypes DEF Commit, CommitSilently, CommitByWorker, Kinds, TypeOK
  <2>3. /\ disturbed' \in BOOLEAN
        /\ publication' \in [Messages -> {"none", "due", "sent", "lost", "silent"}]
    BY <1>1 DEF Commit, CommitSilently, CommitByWorker, Disturb, TypeOK
  <2>4. /\ worker' \in [Messages -> Instances \cup {NoInstance}]
        /\ direct' \in [Messages -> {"none", "due", "fanout", "done"}]
    <3>1. CASE Commit(k) \/ CommitSilently(k)
      BY <3>1 DEF Commit, CommitSilently, TypeOK
    <3>2. ASSUME NEW i \in Instances, CommitByWorker(i, k)
          PROVE  /\ worker' \in [Messages -> Instances \cup {NoInstance}]
                 /\ direct' \in [Messages -> {"none", "due", "fanout", "done"}]
      BY <3>2 DEF CommitByWorker, TypeOK
    <3>. QED
      BY <1>1, <3>1, <3>2
  <2>5. TypeOK'
    BY <2>1, <2>2, <2>3, <2>4 DEF TypeOK, HubTypeOK, Change, hubVars, pumps, hub, group,
       consumer, dealing
  <2>6. DirectsOK'
    <3>1. changes' = k /\ k = changes + 1 /\ changes \in Nat /\ \A j \in Messages : j \in Nat
      BY <2>1, HubAssumption DEF Change, TypeOK
    <3>2. CASE Commit(k) \/ CommitSilently(k)
      <4>1. UNCHANGED <<worker, direct>>
        BY <3>2 DEF Commit, CommitSilently
      <4>. QED
        BY <3>1, <4>1 DEF DirectsOK
    <3>3. ASSUME NEW i \in Instances, CommitByWorker(i, k) PROVE DirectsOK'
      BY <3>1, <3>3 DEF CommitByWorker, DirectsOK, TypeOK
    <3>. QED
      BY <1>1, <3>2, <3>3
  <2>. QED
    BY <2>1, <2>5, <2>6, LimitsUntouched DEF Change, dealing
<1>2. CASE Publish(k)
  <2>1. topic' \in Seq(Messages \cup {Invalid})
    BY <1>2, AppendRecord DEF Publish, TypeOK
  <2>2. /\ disturbed' \in BOOLEAN
        /\ publication' \in [Messages -> {"none", "due", "sent", "lost", "silent"}]
    BY <1>2 DEF Publish, Disturb, TypeOK
  <2>3. TypeOK'
    BY <1>2, <2>1, <2>2 DEF TypeOK, HubTypeOK, Publish, hubVars, pumps, hub, consumer, dealing
  <2>4. LimitsOK' /\ HandsOK'
    BY <1>2, LongerTopic DEF Publish, dealing
  <2>. QED
    BY <1>2, <2>3, <2>4, DirectsUntouched DEF Publish
<1>3. CASE PublishFails(k)
  <2>1. left' \in [Kinds -> Nat]
    BY <1>3, SpendTypes DEF PublishFails, Kinds, TypeOK
  <2>2. /\ disturbed' \in BOOLEAN
        /\ publication' \in [Messages -> {"none", "due", "sent", "lost", "silent"}]
    BY <1>3 DEF PublishFails, Disturb, TypeOK
  <2>3. TypeOK'
    BY <1>3, <2>1, <2>2 DEF TypeOK, HubTypeOK, PublishFails, hubVars, pumps, hub, group,
       consumer, dealing
  <2>. QED
    BY <1>3, <2>3, DirectsUntouched, LimitsUntouched DEF PublishFails, dealing
<1>. QED
  BY <1>1, <1>2, <1>3

\* The workers' own broadcasts, and those of other processes.
LEMMA BroadcastTypes ==
  ASSUME FeedOK,
         \/ \E k \in Messages : DirectBroadcast(k) \/ DirectFanout(k)
         \/ \E i \in Instances : ReceiveFanout(i)
  PROVE  FeedOK'
<1>. USE DEF FeedOK
<1>1. ASSUME NEW k \in Messages, DirectBroadcast(k) PROVE FeedOK'
  <2>1. worker[k] \in Instances
    BY <1>1 DEF DirectBroadcast, DirectsOK
  <2>2. broadcast' \in [Instances -> Seq(Messages)]
    BY <1>1, <2>1, AnnounceTypes DEF DirectBroadcast, TypeOK, HubTypeOK
  <2>3. left' \in [Kinds -> Nat]
    BY <1>1, SpendTypes DEF DirectBroadcast, Kinds, TypeOK
  <2>4. direct' \in [Messages -> {"none", "due", "fanout", "done"}] /\ disturbed' \in BOOLEAN
    BY <1>1 DEF DirectBroadcast, Disturb, TypeOK
  <2>5. TypeOK'
    BY <1>1, <2>2, <2>3, <2>4 DEF TypeOK, HubTypeOK, DirectBroadcast, pumps, hub, group,
       consumer, dealing
  <2>6. DirectsOK'
    BY <1>1 DEF DirectBroadcast, DirectsOK, TypeOK
  <2>. QED
    BY <1>1, <2>5, <2>6, LimitsUntouched DEF DirectBroadcast, dealing
<1>2. ASSUME NEW k \in Messages, DirectFanout(k) PROVE FeedOK'
  <2>1. worker[k] \in Instances
    BY <1>2 DEF DirectFanout, DirectsOK
  <2>2. fan' \in [Instances -> Seq(Messages)]
    BY <1>2, <2>1, FanoutTypes DEF DirectFanout, TypeOK
  <2>3. direct' \in [Messages -> {"none", "due", "fanout", "done"}] /\ disturbed' \in BOOLEAN
    BY <1>2 DEF DirectFanout, Disturb, TypeOK
  <2>4. TypeOK'
    BY <1>2, <2>2, <2>3 DEF TypeOK, HubTypeOK, DirectFanout, hubVars, pumps, hub, group,
       consumer, dealing
  <2>5. DirectsOK'
    BY <1>2 DEF DirectFanout, DirectsOK, TypeOK
  <2>. QED
    BY <1>2, <2>4, <2>5, LimitsUntouched DEF DirectFanout, dealing
<1>3. ASSUME NEW i \in Instances, ReceiveFanout(i) PROVE FeedOK'
  <2>1. Head(fan[i]) \in Messages /\ Tail(fan[i]) \in Seq(Messages)
    BY <1>3 DEF ReceiveFanout, TypeOK
  <2>2. broadcast' \in [Instances -> Seq(Messages)]
    BY <1>3, <2>1, AnnounceTypes DEF ReceiveFanout, TypeOK
  <2>3. fan' \in [Instances -> Seq(Messages)] /\ disturbed' \in BOOLEAN
    BY <1>3, <2>1 DEF ReceiveFanout, Disturb, TypeOK
  <2>4. TypeOK'
    BY <1>3, <2>2, <2>3 DEF TypeOK, HubTypeOK, ReceiveFanout, pumps, hub, commits, group,
       consumer, dealing
  <2>. QED
    BY <1>3, <2>4, LimitsUntouched, DirectsUntouched DEF ReceiveFanout, dealing, commits
<1>. QED
  BY <1>1, <1>2, <1>3

\* The steps of a consumer.
LEMMA ConsumeTypes ==
  ASSUME FeedOK, NEW i \in Instances, Consume(i)
  PROVE  FeedOK'
<1>. USE DEF FeedOK
<1>0. /\ Len(topic) \in Nat /\ DOMAIN topic = 1 .. Len(topic)
      /\ hand[i] \in Nat /\ position \in Nat /\ hand[i] <= Len(topic)
  BY DEF TypeOK, LimitsOK
<1>1. CASE Fetch(i)
  <2>1. /\ position < Len(topic) /\ position' = position + 1
        /\ hand' = [hand EXCEPT ![i] = position + 1]
        /\ stage' = [stage EXCEPT ![i] = IF topic[position + 1] # Invalid THEN "handle" ELSE "bury"]
        /\ UNCHANGED <<hubVars, commits, topic, owner, committed, acked, fan, history, left>>
    BY <1>1 DEF Fetch, Goto, Understood
  <2>2. TypeOK'
    BY <1>0, <2>1, SMTT(30) DEF TypeOK, HubTypeOK, hubVars, pumps, hub, commits, history, dealing
  <2>3. LimitsOK'
    BY <1>0, <2>1 DEF LimitsOK, TypeOK, history, dealing
  <2>4. HandsOK'
    <3>1. position + 1 \in DOMAIN topic
      BY <1>0, <2>1
    <3>. QED
      BY <2>1, <3>1 DEF HandsOK, TypeOK
  <2>. QED
    BY <2>1, <2>2, <2>3, <2>4, DirectsUntouched DEF commits
<1>2. CASE Handle(i)
  <2>1. topic[hand[i]] \in Messages
    BY <1>0, <1>2 DEF Handle, HandsOK, TypeOK
  <2>2. broadcast' \in [Instances -> Seq(Messages)]
    BY <1>2, <2>1, AnnounceTypes DEF Handle, TypeOK
  <2>3. /\ disturbed' \in BOOLEAN
        /\ stage' = [stage EXCEPT ![i] = "fanout"] /\ stage[i] = "handle"
        /\ UNCHANGED <<pumps, hub, send, commits, group, hand, acked, fan, dealing, since, left>>
    BY <1>2 DEF Handle, Disturb, Goto
  <2>4. TypeOK'
    BY <2>2, <2>3 DEF TypeOK, HubTypeOK, pumps, hub, commits, group, dealing
  <2>5. LimitsOK' /\ HandsOK'
    BY <2>3 DEF LimitsOK, HandsOK, group, dealing, TypeOK
  <2>. QED
    BY <2>3, <2>4, <2>5, DirectsUntouched DEF commits
<1>3. CASE HandleFanout(i)
  <2>1. topic[hand[i]] \in Messages
    BY <1>0, <1>3 DEF HandleFanout, HandsOK, TypeOK
  <2>2. fan' \in [Instances -> Seq(Messages)]
    BY <1>3, <2>1, FanoutTypes DEF HandleFanout, TypeOK
  <2>3. left' \in [Kinds -> Nat]
    BY <1>3, SpendTypes DEF HandleFanout, Kinds, TypeOK
  <2>4. /\ disturbed' \in BOOLEAN /\ latest' = hand[i]
        /\ dealt' = dealt \cup {hand[i]}
        /\ stage' = [stage EXCEPT ![i] = "ack"]
        /\ UNCHANGED <<hubVars, commits, group, hand, acked, unburied, since>>
    BY <1>3 DEF HandleFanout, Disturb, Goto
  <2>5. TypeOK'
    BY <1>0, <2>2, <2>3, <2>4 DEF TypeOK, HubTypeOK, hubVars, pumps, hub, commits, group
  <2>6. LimitsOK' /\ HandsOK'
    BY <1>0, <2>4 DEF LimitsOK, HandsOK, group, TypeOK
  <2>. QED
    BY <2>4, <2>5, <2>6, DirectsUntouched DEF commits
<1>4. CASE DeadLetter(i)
  <2>1. left' \in [Kinds -> Nat]
    BY <1>4, SpendTypes DEF DeadLetter, Kinds, TypeOK
  <2>2. /\ \/ stage' = [stage EXCEPT ![i] = "ack"] /\ UNCHANGED hand
           \/ stage' = [stage EXCEPT ![i] = "fetch"] /\ hand' = [hand EXCEPT ![i] = 0]
        /\ dealt' \subseteq Nat /\ unburied' \subseteq Nat
        /\ UNCHANGED <<hubVars, commits, group, acked, fan, latest, since, disturbed>>
    BY <1>0, <1>4 DEF DeadLetter, Goto, Continue, Idle, TypeOK
  <2>3. /\ stage' \in [Instances -> {"fetch", "handle", "fanout", "bury", "ack"}]
        /\ hand' \in [Instances -> Nat]
        /\ \A j \in Instances : hand'[j] = hand[j] \/ hand'[j] = 0
        /\ \A j \in Instances : stage'[j] \in {"handle", "fanout"} => j # i
        /\ \A j \in Instances \ {i} : stage'[j] = stage[j] /\ hand'[j] = hand[j]
    <3>1. CASE stage' = [stage EXCEPT ![i] = "ack"] /\ UNCHANGED hand
      BY <3>1 DEF TypeOK
    <3>2. CASE stage' = [stage EXCEPT ![i] = "fetch"] /\ hand' = [hand EXCEPT ![i] = 0]
      BY <3>2 DEF TypeOK
    <3>. QED
      BY <2>2, <3>1, <3>2
  <2>4. TypeOK'
    BY <2>1, <2>2, <2>3 DEF TypeOK, HubTypeOK, hubVars, pumps, hub, commits, group
  <2>5. LimitsOK' /\ HandsOK'
    BY <1>0, <2>2, <2>3 DEF LimitsOK, HandsOK, group
  <2>. QED
    BY <2>2, <2>4, <2>5, DirectsUntouched DEF commits
<1>5. CASE Ack(i)
  <2>1. /\ stage' = [stage EXCEPT ![i] = "fetch"] /\ hand' = [hand EXCEPT ![i] = 0]
        /\ acked' = [acked EXCEPT ![i] = hand[i]]
        /\ UNCHANGED <<hubVars, commits, group, fan, history, left>>
    BY <1>5 DEF Ack, AckedOffset, Goto, Continue, Idle
  <2>2. TypeOK'
    BY <1>0, <2>1 DEF TypeOK, HubTypeOK, hubVars, pumps, hub, commits, group, history, dealing
  <2>3. LimitsOK' /\ HandsOK'
    BY <1>0, <2>1 DEF LimitsOK, HandsOK, group, TypeOK, history, dealing
  <2>. QED
    BY <2>1, <2>2, <2>3, DirectsUntouched DEF commits
<1>. QED
  BY <1>1, <1>2, <1>3, <1>4, <1>5 DEF Consume

\* The coordinator, the offsets and the crashes.
LEMMA GroupTypes ==
  ASSUME FeedOK,
         \/ WriteInvalid \/ Rebalance
         \/ \E i \in Instances : Assign(i) \/ FlushCommits(i) \/ Crash(i)
  PROVE  FeedOK'
<1>. USE DEF FeedOK
<1>0. Len(topic) \in Nat /\ committed \in Nat /\ committed <= Len(topic)
  BY DEF TypeOK, LimitsOK
<1>1. CASE WriteInvalid
  <2>1. topic' \in Seq(Messages \cup {Invalid})
    BY <1>1, AppendRecord DEF WriteInvalid, TypeOK
  <2>2. left' \in [Kinds -> Nat]
    BY <1>1, SpendTypes DEF WriteInvalid, Kinds, TypeOK
  <2>3. TypeOK'
    BY <1>1, <2>1, <2>2 DEF TypeOK, HubTypeOK, WriteInvalid, hubVars, pumps, hub, commits,
       consumer, history, dealing
  <2>4. LimitsOK' /\ HandsOK'
    BY <1>1, LongerTopic DEF WriteInvalid, history, dealing
  <2>. QED
    BY <1>1, <2>3, <2>4, DirectsUntouched DEF WriteInvalid, commits
<1>2. CASE Rebalance
  <2>1. left' \in [Kinds -> Nat]
    BY <1>2, SpendTypes DEF Rebalance, Kinds, TypeOK
  <2>2. TypeOK'
    BY <1>2, <2>1 DEF TypeOK, HubTypeOK, Rebalance, hubVars, pumps, hub, commits, consumer,
       history, dealing
  <2>3. LimitsOK' /\ HandsOK'
    BY <1>0, <1>2 DEF LimitsOK, HandsOK, Rebalance, consumer, history, dealing
  <2>. QED
    BY <1>2, <2>2, <2>3, DirectsUntouched DEF Rebalance, commits
<1>3. ASSUME NEW i \in Instances, Assign(i) PROVE FeedOK'
  <2>1. disturbed' \in BOOLEAN
    BY <1>3 DEF Assign, Disturb, TypeOK
  <2>2. TypeOK'
    BY <1>3, <2>1 DEF TypeOK, HubTypeOK, Assign, hubVars, pumps, hub, commits, consumer, dealing
  <2>3. LimitsOK' /\ HandsOK'
    BY <1>0, <1>3 DEF LimitsOK, HandsOK, Assign, consumer, dealing
  <2>. QED
    BY <1>3, <2>2, <2>3, DirectsUntouched DEF Assign, commits
<1>4. ASSUME NEW i \in Instances, FlushCommits(i) PROVE FeedOK'
  <2>1. acked[i] \in Nat /\ acked[i] <= Len(topic)
    BY DEF TypeOK, LimitsOK
  <2>2. /\ acked' = [acked EXCEPT ![i] = 0] /\ committed' = acked[i]
        /\ UNCHANGED <<hubVars, commits, topic, owner, position, hand, stage, fan, history, left>>
    BY <1>4 DEF FlushCommits
  <2>3. TypeOK'
    BY <2>1, <2>2 DEF TypeOK, HubTypeOK, hubVars, pumps, hub, commits, history, dealing
  <2>4. LimitsOK' /\ HandsOK'
    BY <1>0, <2>1, <2>2 DEF LimitsOK, HandsOK, TypeOK, history, dealing
  <2>. QED
    BY <2>2, <2>3, <2>4, DirectsUntouched DEF commits
<1>5. ASSUME NEW i \in Instances, Crash(i) PROVE FeedOK'
  <2>1. left' \in [Kinds -> Nat] /\ disturbed' \in BOOLEAN
    BY <1>5, SpendTypes DEF Crash, Kinds, TypeOK, Disturb
  <2>2. /\ stage' = [stage EXCEPT ![i] = "fetch"] /\ hand' = [hand EXCEPT ![i] = 0]
        /\ acked' = [acked EXCEPT ![i] = 0]
        /\ fan' = [fan EXCEPT ![i] = <<>>]
        /\ owner' \in {owner, NoInstance} /\ position' \in {position, 0}
        /\ UNCHANGED <<changes, worker, topic, committed, dealing, since>>
    BY <1>5 DEF Crash, Goto, Continue, Idle
  <2>3. publication' \in [Messages -> {"none", "due", "sent", "lost", "silent"}]
    BY <1>5 DEF Crash, TypeOK
  <2>4. /\ direct' \in [Messages -> {"none", "due", "fanout", "done"}]
        /\ \A k \in Messages : direct'[k] \in {"due", "fanout"} => direct'[k] = direct[k]
    BY <1>5 DEF Crash, TypeOK
  <2>5. HubTypeOK'
    <3>1. HubDies(i)
      BY <1>5 DEF Crash
    <3>2. <<>> \in Seq(Messages)
      OBVIOUS
    <3>. QED
      BY <3>1, <3>2 DEF HubDies, HubTypeOK, TypeOK
  <2>6. fan' \in [Instances -> Seq(Messages)]
    BY <2>2 DEF TypeOK
  <2>7. TypeOK'
    BY <2>1, <2>2, <2>3, <2>4, <2>5, <2>6 DEF TypeOK, dealing
  <2>8. LimitsOK' /\ HandsOK'
    BY <1>0, <2>2 DEF LimitsOK, HandsOK, TypeOK, dealing
  <2>9. DirectsOK'
    BY <2>2, <2>4 DEF DirectsOK
  <2>. QED
    BY <2>7, <2>8, <2>9
<1>. QED
  BY <1>1, <1>2, <1>3, <1>4, <1>5

\* The browsers and the hub.
LEMMA ClientTypes ==
  ASSUME FeedOK, HubStep \/ \E c \in Clients : Leave(c)
  PROVE  FeedOK'
<1>. USE DEF FeedOK
<1>1. CASE HubStep
  <2>1. HubTypeOK'
    BY <1>1, HubTypes DEF HubStep, TypeOK
  <2>2. since' \in [Clients -> Messages \cup {0}]
    BY <1>1 DEF HubStep, TypeOK
  <2>3. TypeOK'
    BY <1>1, <2>1, <2>2 DEF TypeOK, HubStep, commits, group, consumer, dealing
  <2>. QED
    BY <1>1, <2>3, LimitsUntouched, DirectsUntouched DEF HubStep, dealing, commits
<1>2. ASSUME NEW c \in Clients, Leave(c) PROVE FeedOK'
  <2>1. left' \in [Kinds -> Nat]
    BY <1>2, SpendTypes DEF Leave, Kinds, TypeOK
  <2>2. TypeOK'
    BY <1>2, <2>1 DEF TypeOK, HubTypeOK, Leave, Disconnect, hub, commits, group, consumer,
       history, dealing
  <2>. QED
    BY <1>2, <2>2, LimitsUntouched, DirectsUntouched DEF Leave, history, dealing, commits
<1>. QED
  BY <1>1, <1>2

\* The types hold in every state, with what they rely on.
LEMMA FeedHolds == Spec => []FeedOK
<1>1. Init => FeedOK
  <2>. SUFFICES ASSUME Init PROVE FeedOK
    OBVIOUS
  <2>1. PICK s \in Scenarios : left = s.bound /\ InitHub(s.early, s.late)
    BY DEF Init
  <2>2. s.bound \in [Kinds -> Nat] /\ s.early \subseteq Clients
    BY FeedAssumption
  <2>3. HubTypeOK
    BY <2>1, <2>2 DEF InitHub, HubTypeOK
  <2>4. TypeOK
    <3>1. /\ topic \in Seq(Messages \cup {Invalid}) /\ fan \in [Instances -> Seq(Messages)]
          /\ left \in [Kinds -> Nat]
      BY <2>1, <2>2 DEF Init
    <3>2. /\ publication \in [Messages -> {"none", "due", "sent", "lost", "silent"}]
          /\ worker \in [Messages -> Instances \cup {NoInstance}]
          /\ direct \in [Messages -> {"none", "due", "fanout", "done"}]
      BY DEF Init
    <3>3. /\ hand \in [Instances -> Nat] /\ acked \in [Instances -> Nat]
          /\ stage \in [Instances -> {"fetch", "handle", "fanout", "bury", "ack"}]
          /\ since \in [Clients -> Messages \cup {0}]
      BY DEF Init, Idle
    <3>4. /\ changes = 0 /\ owner = NoInstance /\ committed = 0 /\ position = 0
          /\ dealt = {} /\ unburied = {} /\ latest = 0 /\ disturbed = FALSE
      BY DEF Init
    <3>. QED
      BY <2>3, <3>1, <3>2, <3>3, <3>4 DEF TypeOK
  <2>5. LimitsOK /\ HandsOK /\ DirectsOK
    BY DEF Init, LimitsOK, HandsOK, DirectsOK, Idle
  <2>. QED
    BY <2>4, <2>5 DEF FeedOK
<1>2. FeedOK /\ [Next]_vars => FeedOK'
  <2>1. FeedOK /\ Next => FeedOK'
    BY CommitTypes, BroadcastTypes, ConsumeTypes, GroupTypes, ClientTypes DEF Next
  <2>2. FeedOK /\ UNCHANGED vars => FeedOK'
    BY DEF FeedOK, TypeOK, HubTypeOK, LimitsOK, HandsOK, DirectsOK, vars, hubVars, feedVars,
       pumps, hub, commits, group, consumer, history, dealing
  <2>. QED
    BY <2>1, <2>2
<1>. QED
  BY <1>1, <1>2, PTL DEF Spec

\* Every variable of the feed keeps its type, whatever is sent, lost or dies.
THEOREM FeedTypeCorrect == Spec => []TypeOK
<1>1. FeedOK => TypeOK
  BY DEF FeedOK
<1>. QED
  BY <1>1, FeedHolds, PTL

------------------------------------------------------------------------------
(* What the clients see.                                                   *)

\* The records of the topic: what was published, once, and what nobody knows.
RecordsOK ==
  /\ \A n \in DOMAIN topic : topic[n] # Invalid =>
       topic[n] <= changes /\ publication[topic[n]] = "sent"
  /\ \A n, m \in DOMAIN topic : (topic[n] # Invalid /\ topic[n] = topic[m]) => n = m
  /\ \A k \in Messages :
       /\ publication[k] # "none" => k <= changes
       /\ publication[k] = "sent" => \E n \in DOMAIN topic : topic[n] = k

\* What is on its way through Redis has happened.
FansOK == \A i \in Instances : \A n \in DOMAIN fan[i] : fan[i][n] <= changes

\* As long as nothing has put a screen out of date, changes are published, in
\* their order, ...
OrderOK ==
  /\ \A n, m \in DOMAIN topic :
       (n < m /\ topic[n] # Invalid /\ topic[m] # Invalid) => topic[n] < topic[m]
  /\ \A k \in Messages : k <= changes => publication[k] \in {"due", "sent"}

\* ... the owner has passed over no booking event that is later than the one
\* handled last, but for the one in its hand, ...
ReadOK ==
  \A i \in Instances : owner = i =>
    \A n \in latest + 1 .. position : topic[n] # Invalid =>
      n = hand[i] /\ stage[i] \in {"handle", "fanout"}

\* Client c is there to see the last change.
Watching(c) ==
  /\ c \in Listening /\ conn[c] = "open" /\ writer[c] = "writing"
  /\ since[c] < changes

\* The last message that is on its way to client c, or on its screen, is that
\* of the last change.
EndsWithLast(c) ==
  LET p == InstanceOf[c]
      End(s) == s[Len(s)] = changes
  IN  IF fan[p] # <<>> THEN End(fan[p])
      ELSE IF broadcast[p] # <<>> THEN End(broadcast[p])
      ELSE IF send[c] # <<>> THEN End(send[c])
      ELSE screen[c] = changes

\* The record at n has come to process p, and none before it has come later:
\* p is handling it, or it was the last to be handled, or a later one was.
Reached(p, n) ==
  IF stage[p] = "fanout" THEN hand[p] = n /\ (latest >= n \/ ~Strayed(p))
  ELSE latest >= n

\* The record at n is that of the last change.
LastRecord(n) == topic[n] # Invalid /\ topic[n] = changes

\* When it has come to the process of client c, so it has to the client, or it
\* is on its way there with nothing behind it.
ScreenOK(c, n) == (Reached(InstanceOf[c], n) /\ Watching(c)) => EndsWithLast(c)

\* ... and every client that is there has seen the last change, or will.
ScreensOK ==
  \A n \in DOMAIN topic : LastRecord(n) => \A c \in Clients : ScreenOK(c, n)

CalmOK == ~disturbed => OrderOK /\ ReadOK /\ ScreensOK

\* The last element of a sequence that grows or shrinks.
LEMMA LastOf ==
  ASSUME NEW S, NEW s \in Seq(S)
  PROVE  /\ \A m \in S : Append(s, m) # <<>> /\ Append(s, m)[Len(Append(s, m))] = m
         /\ (s # <<>> /\ Tail(s) # <<>>) => Tail(s)[Len(Tail(s))] = s[Len(s)]
         /\ (s # <<>> /\ Tail(s) = <<>>) => Head(s) = s[Len(s)]
<1>1. \A m \in S : Append(s, m) # <<>> /\ Append(s, m)[Len(Append(s, m))] = m
  OBVIOUS
<1>2. ASSUME s # <<>> PROVE Len(s) \in Nat /\ Len(s) > 0 /\ Len(Tail(s)) = Len(s) - 1
  BY <1>2
<1>3. ASSUME s # <<>>, Tail(s) # <<>> PROVE Tail(s)[Len(Tail(s))] = s[Len(s)]
  <2>1. Tail(s) \in Seq(S) /\ Len(Tail(s)) > 0
    BY <1>2, <1>3
  <2>2. Len(s) - 1 \in 1 .. Len(s) - 1
    BY <1>2, <1>3, <2>1
  <2>. QED
    BY <1>2, <1>3, <2>2
<1>4. ASSUME s # <<>>, Tail(s) = <<>> PROVE Head(s) = s[Len(s)]
  <2>1. Len(Tail(s)) = 0
    <3>1. Len(<<>>) = 0
      OBVIOUS
    <3>. QED
      BY <1>4, <3>1
  <2>2. Len(s) = 1
    BY <1>2, <1>4, <2>1
  <2>3. Head(s) = s[1]
    BY <1>4
  <2>. QED
    BY <2>2, <2>3
<1>. QED
  BY <1>1, <1>3, <1>4

\* What is published was changed, and is published once.
LEMMA RecordsStep ==
  ASSUME FeedOK, RecordsOK, Next
  PROVE  RecordsOK'
<1>0. /\ topic \in Seq(Messages \cup {Invalid}) /\ changes \in Nat
      /\ \A k \in Messages : k \in Nat /\ k # 0
      /\ publication \in [Messages -> {"none", "due", "sent", "lost", "silent"}]
  BY HubAssumption DEF FeedOK, TypeOK
<1>1. CASE UNCHANGED <<changes, publication, topic>>
  BY <1>1 DEF RecordsOK
<1>2. ASSUME NEW k \in Messages,
             Commit(k) \/ CommitSilently(k) \/ \E i \in Instances : CommitByWorker(i, k)
      PROVE  RecordsOK'
  <2>1. /\ k = changes + 1 /\ changes' = k /\ topic' = topic
        /\ \E s \in {"due", "silent"} : publication' = [publication EXCEPT ![k] = s]
    BY <1>2 DEF Commit, CommitSilently, CommitByWorker, Change, group
  <2>2. \A n \in DOMAIN topic : topic[n] # Invalid => topic[n] \in Messages /\ topic[n] # k
    BY <1>0, <2>1 DEF RecordsOK
  <2>3. \A j \in Messages \ {k} : publication'[j] = publication[j]
    BY <1>0, <2>1
  <2>4. publication'[k] \in {"due", "silent"}
    BY <1>0, <2>1
  <2>5. \A n \in DOMAIN topic : topic[n] # Invalid =>
          topic[n] <= changes' /\ publication'[topic[n]] = "sent"
    <3>1. ASSUME NEW n \in DOMAIN topic, topic[n] # Invalid
          PROVE  topic[n] <= changes' /\ publication'[topic[n]] = "sent"
      <4>1. topic[n] \in Messages \ {k} /\ topic[n] \in Nat
        BY <1>0, <2>2, <3>1
      <4>2. topic[n] <= changes /\ publication[topic[n]] = "sent"
        BY <3>1 DEF RecordsOK
      <4>. QED
        BY <1>0, <2>1, <2>3, <4>1, <4>2
    <3>. QED
      BY <2>1, <3>1
  <2>6. \A j \in Messages :
          /\ publication'[j] # "none" => j <= changes'
          /\ publication'[j] = "sent" => \E n \in DOMAIN topic : topic[n] = j
    BY <1>0, <2>1, <2>3, <2>4 DEF RecordsOK
  <2>. QED
    BY <2>1, <2>5, <2>6 DEF RecordsOK
<1>3. ASSUME NEW k \in Messages, Publish(k) PROVE RecordsOK'
  <2>1. /\ publication[k] = "due" /\ publication' = [publication EXCEPT ![k] = "sent"]
        /\ topic' = Append(topic, k) /\ changes' = changes
    BY <1>3 DEF Publish
  <2>2. /\ DOMAIN topic = 1 .. Len(topic) /\ DOMAIN topic' = 1 .. Len(topic) + 1
        /\ Len(topic) \in Nat
        /\ \A n \in DOMAIN topic : topic'[n] = topic[n]
        /\ topic'[Len(topic) + 1] = k
    BY <1>0, <2>1, AppendRecord
  <2>3. \A n \in DOMAIN topic : topic[n] # k
    BY <1>0, <2>1 DEF RecordsOK, Invalid
  <2>4. k <= changes
    BY <2>1 DEF RecordsOK
  <2>5. \A n \in DOMAIN topic' : n \in DOMAIN topic \/ n = Len(topic) + 1
    BY <2>2
  <2>6. \A n \in DOMAIN topic' : topic'[n] # Invalid =>
          topic'[n] <= changes /\ publication'[topic'[n]] = "sent"
    <3>. SUFFICES ASSUME NEW n \in DOMAIN topic', topic'[n] # Invalid
                  PROVE  topic'[n] <= changes /\ publication'[topic'[n]] = "sent"
      OBVIOUS
    <3>1. CASE n \in DOMAIN topic
      <4>1. topic'[n] = topic[n] /\ topic[n] \in Messages /\ topic[n] # k
        BY <1>0, <2>2, <2>3, <3>1
      <4>2. topic[n] <= changes /\ publication[topic[n]] = "sent"
        BY <3>1, <4>1 DEF RecordsOK, Invalid
      <4>. QED
        BY <1>0, <2>1, <4>1, <4>2
    <3>2. CASE n = Len(topic) + 1
      BY <1>0, <2>1, <2>2, <2>4, <3>2
    <3>. QED
      BY <2>5, <3>1, <3>2
  <2>7. \A n, m \in DOMAIN topic' : (topic'[n] # Invalid /\ topic'[n] = topic'[m]) => n = m
    BY <2>2, <2>3, <2>5 DEF RecordsOK
  <2>8. \A j \in Messages :
          /\ publication'[j] # "none" => j <= changes
          /\ publication'[j] = "sent" => \E n \in DOMAIN topic' : topic'[n] = j
    <3>. SUFFICES ASSUME NEW j \in Messages
                  PROVE  /\ publication'[j] # "none" => j <= changes
                         /\ publication'[j] = "sent" => \E n \in DOMAIN topic' : topic'[n] = j
      OBVIOUS
    <3>1. CASE j = k
      <4>1. Len(topic) + 1 \in DOMAIN topic'
        BY <2>2
      <4>. QED
        BY <2>2, <2>4, <3>1, <4>1
    <3>2. CASE j # k
      <4>1. publication'[j] = publication[j]
        BY <1>0, <2>1, <3>2
      <4>2. DOMAIN topic \subseteq DOMAIN topic'
        BY <2>2
      <4>. QED
        BY <2>2, <4>1, <4>2 DEF RecordsOK
    <3>. QED
      BY <3>1, <3>2
  <2>. QED
    BY <2>1, <2>6, <2>7, <2>8 DEF RecordsOK
<1>4. ASSUME UNCHANGED <<changes, topic>>,
             \A k \in Messages :
               publication'[k] = publication[k]
                 \/ (publication[k] = "due" /\ publication'[k] = "lost")
      PROVE  RecordsOK'
  <2>1. \A k \in Messages : publication[k] = "sent" <=> publication'[k] = "sent"
    BY <1>4
  <2>2. \A k \in Messages : publication'[k] # "none" => publication[k] # "none"
    BY <1>4
  <2>3. \A n \in DOMAIN topic : topic[n] # Invalid => topic[n] \in Messages
    BY <1>0
  <2>. QED
    BY <1>4, <2>1, <2>2, <2>3 DEF RecordsOK
<1>5. ASSUME NEW k \in Messages, PublishFails(k) PROVE RecordsOK'
  <2>1. /\ publication[k] = "due" /\ publication' = [publication EXCEPT ![k] = "lost"]
        /\ UNCHANGED <<changes, topic>>
    BY <1>5 DEF PublishFails, group
  <2>. QED
    BY <1>0, <1>4, <2>1
<1>6. ASSUME NEW i \in Instances, Crash(i) PROVE RecordsOK'
  BY <1>0, <1>4, <1>6 DEF Crash
<1>7. CASE WriteInvalid
  <2>1. topic' = Append(topic, Invalid) /\ UNCHANGED <<changes, publication>>
    BY <1>7 DEF WriteInvalid, commits
  <2>2. /\ DOMAIN topic = 1 .. Len(topic) /\ DOMAIN topic' = 1 .. Len(topic) + 1
        /\ Len(topic) \in Nat
        /\ \A n \in DOMAIN topic : topic'[n] = topic[n]
        /\ topic'[Len(topic) + 1] = Invalid
    BY <1>0, <2>1, AppendRecord
  <2>3. \A n \in DOMAIN topic' : n \in DOMAIN topic \/ n = Len(topic) + 1
    BY <2>2
  <2>4. DOMAIN topic \subseteq DOMAIN topic'
    BY <2>2
  <2>5. \A k \in Messages : publication[k] = "sent" => \E n \in DOMAIN topic' : topic'[n] = k
    BY <2>2, <2>4 DEF RecordsOK
  <2>. QED
    BY <2>1, <2>2, <2>3, <2>5 DEF RecordsOK
<1>8. ASSUME NEW i \in Instances, Consume(i) PROVE UNCHANGED <<changes, publication, topic>>
  BY <1>8 DEF Consume, Fetch, Handle, HandleFanout, DeadLetter, Ack, commits, group
<1>9. CASE \/ \E k \in Messages : DirectBroadcast(k) \/ DirectFanout(k)
           \/ Rebalance
           \/ \E i \in Instances : Assign(i) \/ FlushCommits(i) \/ ReceiveFanout(i)
           \/ \E c \in Clients : Leave(c)
           \/ HubStep
  BY <1>1, <1>9 DEF DirectBroadcast, DirectFanout, Rebalance, Assign, FlushCommits,
     ReceiveFanout, Leave, HubStep, commits, group
<1>. QED
  BY <1>1, <1>2, <1>3, <1>5, <1>6, <1>7, <1>8, <1>9 DEF Next

\* What goes through Redis has happened.
LEMMA FansStep ==
  ASSUME FeedOK, RecordsOK, FansOK, Next
  PROVE  FansOK'
<1>0. /\ fan \in [Instances -> Seq(Messages)] /\ changes \in Nat /\ changes' \in Nat
      /\ \A k \in Messages : k \in Nat
  <2>1. FeedOK'
    BY CommitTypes, BroadcastTypes, ConsumeTypes, GroupTypes, ClientTypes DEF Next
  <2>2. Messages \cup {0} \subseteq Nat
    BY HubAssumption
  <2>. QED
    BY <2>1, <2>2 DEF FeedOK, TypeOK
<1>1. CASE UNCHANGED <<changes, fan>>
  BY <1>1 DEF FansOK
<1>2. ASSUME NEW k \in Messages, Change(k) PROVE FansOK'
  <2>1. changes' = changes + 1 /\ fan' = fan
    BY <1>2 DEF Change
  <2>2. \A i \in Instances : \A n \in DOMAIN fan[i] : fan[i][n] \in Nat
    BY <1>0
  <2>. QED
    BY <1>0, <2>1, <2>2 DEF FansOK
<1>3. ASSUME NEW i \in Instances, NEW m \in Messages, m <= changes, PublishFanout(i, m),
             UNCHANGED changes
      PROVE  FansOK'
  <2>1. ASSUME NEW j \in Instances, NEW n \in DOMAIN fan'[j] PROVE fan'[j][n] <= changes
    <3>1. CASE j = i
      BY <1>0, <1>3, <2>1, <3>1, FanoutTypes DEF FansOK
    <3>2. CASE j # i
      <4>1. fan'[j] = Append(fan[j], m) /\ fan[j] \in Seq(Messages)
        BY <1>0, <1>3, <3>2, FanoutTypes
      <4>2. (n \in DOMAIN fan[j] /\ fan'[j][n] = fan[j][n]) \/ fan'[j][n] = m
        BY <2>1, <4>1
      <4>. QED
        BY <1>3, <4>2 DEF FansOK
    <3>. QED
      BY <3>1, <3>2
  <2>. QED
    BY <1>3, <2>1 DEF FansOK
<1>4. ASSUME NEW k \in Messages, DirectFanout(k) PROVE FansOK'
  BY <1>3, <1>4 DEF DirectFanout, DirectsOK, FeedOK
<1>5. ASSUME NEW i \in Instances, HandleFanout(i) PROVE FansOK'
  <2>1. topic[hand[i]] \in Messages /\ topic[hand[i]] <= changes
    BY <1>5 DEF HandleFanout, FeedOK, HandsOK, TypeOK, RecordsOK
  <2>2. UNCHANGED changes /\ (PublishFanout(i, topic[hand[i]]) \/ UNCHANGED fan)
    BY <1>5 DEF HandleFanout, commits
  <2>. QED
    BY <1>1, <1>3, <2>1, <2>2
<1>6. ASSUME NEW i \in Instances, ReceiveFanout(i) PROVE FansOK'
  <2>1. fan[i] # <<>> /\ fan' = [fan EXCEPT ![i] = Tail(fan[i])] /\ changes' = changes
    BY <1>6 DEF ReceiveFanout, commits
  <2>2. \A n \in DOMAIN Tail(fan[i]) : n + 1 \in DOMAIN fan[i] /\ Tail(fan[i])[n] = fan[i][n + 1]
    BY <1>0, <2>1
  <2>3. ASSUME NEW j \in Instances, NEW n \in DOMAIN fan'[j] PROVE fan'[j][n] <= changes
    <3>1. CASE j = i
      BY <1>0, <2>1, <2>2, <2>3, <3>1 DEF FansOK
    <3>2. CASE j # i
      BY <1>0, <2>1, <2>3, <3>2 DEF FansOK
    <3>. QED
      BY <3>1, <3>2
  <2>. QED
    BY <2>1, <2>3 DEF FansOK
<1>7. ASSUME NEW i \in Instances, Crash(i) PROVE FansOK'
  <2>1. fan' = [fan EXCEPT ![i] = <<>>] /\ changes' = changes
    BY <1>7 DEF Crash
  <2>. QED
    BY <1>0, <2>1 DEF FansOK
<1>8. ASSUME NEW i \in Instances, Fetch(i) \/ Handle(i) \/ DeadLetter(i) \/ Ack(i)
      PROVE  FansOK'
  BY <1>1, <1>8 DEF Fetch, Handle, DeadLetter, Ack, commits
<1>9. CASE \/ \E k \in Messages : DirectBroadcast(k) \/ Publish(k) \/ PublishFails(k)
           \/ Rebalance \/ WriteInvalid
           \/ \E i \in Instances : Assign(i) \/ FlushCommits(i)
           \/ \E c \in Clients : Leave(c)
           \/ HubStep
  BY <1>1, <1>9 DEF DirectBroadcast, Publish, PublishFails, Rebalance, WriteInvalid, Assign,
     FlushCommits, Leave, HubStep, commits
<1>. QED
  BY <1>2, <1>4, <1>5, <1>6, <1>7, <1>8, <1>9
     DEF Next, Commit, CommitSilently, CommitByWorker, Consume

\* What happens undisturbed happens to a feed that was not disturbed.
LEMMA StillCalm ==
  ASSUME FeedOK, Next, ~disturbed'
  PROVE  ~disturbed
<1>0. disturbed \in BOOLEAN
  BY DEF FeedOK, TypeOK
<1>1. ASSUME NEW k \in Messages,
             \/ Commit(k) \/ CommitSilently(k) \/ \E i \in Instances : CommitByWorker(i, k)
             \/ Publish(k) \/ PublishFails(k)
      PROVE  ~disturbed
  BY <1>0, <1>1 DEF Commit, CommitSilently, CommitByWorker, Publish, PublishFails, Disturb
<1>2. ASSUME NEW k \in Messages, DirectBroadcast(k) \/ DirectFanout(k)
      PROVE  ~disturbed
  BY <1>0, <1>2 DEF DirectBroadcast, DirectFanout, Disturb
<1>3. CASE WriteInvalid \/ Rebalance \/ HubStep \/ \E c \in Clients : Leave(c)
  BY <1>3 DEF WriteInvalid, Rebalance, HubStep, Leave, history
<1>4. ASSUME NEW i \in Instances, Assign(i) \/ FlushCommits(i) \/ ReceiveFanout(i) \/ Crash(i)
      PROVE  ~disturbed
  BY <1>0, <1>4 DEF Assign, FlushCommits, ReceiveFanout, Crash, Disturb, history
<1>5. ASSUME NEW i \in Instances, Consume(i) PROVE ~disturbed
  BY <1>0, <1>5 DEF Consume, Fetch, Handle, HandleFanout, DeadLetter, Ack, Disturb, history
<1>. QED
  BY <1>1, <1>2, <1>3, <1>4, <1>5 DEF Next

\* A record that is added to the topic changes none of the others.
LEMMA TopicGrows ==
  ASSUME FeedOK, NEW m \in Messages \cup {Invalid}, topic' = Append(topic, m)
  PROVE  /\ DOMAIN topic = 1 .. Len(topic) /\ Len(topic) \in Nat
         /\ \A n \in DOMAIN topic : n \in DOMAIN topic' /\ topic'[n] = topic[n]
         /\ \A n \in DOMAIN topic' : n \in DOMAIN topic \/ (n = Len(topic) + 1 /\ topic'[n] = m)
<1>1. topic \in Seq(Messages \cup {Invalid})
  BY DEF FeedOK, TypeOK
<1>2. /\ DOMAIN topic = 1 .. Len(topic) /\ DOMAIN topic' = 1 .. Len(topic) + 1
      /\ Len(topic) \in Nat
      /\ \A n \in DOMAIN topic : topic'[n] = topic[n]
      /\ topic'[Len(topic) + 1] = m
  BY <1>1, AppendRecord
<1>. QED
  BY <1>2

\* Undisturbed, every change is published, and after the one before it.
LEMMA OrderStep ==
  ASSUME FeedOK, RecordsOK, OrderOK, Next, ~disturbed'
  PROVE  OrderOK'
<1>0. /\ topic \in Seq(Messages \cup {Invalid}) /\ changes \in Nat /\ disturbed \in BOOLEAN
      /\ \A k \in Messages : k \in Nat /\ k # 0
      /\ publication \in [Messages -> {"none", "due", "sent", "lost", "silent"}]
  BY HubAssumption DEF FeedOK, TypeOK
<1>1. CASE UNCHANGED <<changes, publication, topic>>
  BY <1>1 DEF OrderOK
<1>2. ASSUME NEW k \in Messages, Commit(k) \/ \E i \in Instances : CommitByWorker(i, k)
      PROVE  OrderOK'
  <2>1. /\ k = changes + 1 /\ changes' = k /\ topic' = topic
        /\ publication' = [publication EXCEPT ![k] = "due"]
    BY <1>2 DEF Commit, CommitByWorker, Change, group
  <2>2. \A j \in Messages : j <= changes' => j = k \/ j <= changes
    BY <1>0, <2>1
  <2>3. \A j \in Messages : j <= changes' => publication'[j] \in {"due", "sent"}
    BY <1>0, <2>1, <2>2 DEF OrderOK
  <2>. QED
    BY <2>1, <2>3 DEF OrderOK
<1>3. ASSUME NEW k \in Messages, CommitSilently(k) \/ PublishFails(k) PROVE FALSE
  BY <1>0, <1>3 DEF CommitSilently, PublishFails, Disturb
<1>4. ASSUME NEW k \in Messages, Publish(k) PROVE OrderOK'
  <2>1. /\ publication[k] = "due" /\ publication' = [publication EXCEPT ![k] = "sent"]
        /\ topic' = Append(topic, k) /\ changes' = changes
        /\ Disturb(\E n \in DOMAIN topic : topic[n] > k)
    BY <1>4 DEF Publish
  <2>2. \A n \in DOMAIN topic : ~(topic[n] > k)
    BY <1>0, <2>1 DEF Disturb
  <2>3. \A n \in DOMAIN topic : topic[n] # k
    BY <1>0, <2>1 DEF RecordsOK, Invalid
  <2>4. \A n \in DOMAIN topic : topic[n] < k
    <3>1. \A n \in DOMAIN topic : topic[n] \in Nat
      BY <1>0 DEF Invalid
    <3>. QED
      BY <1>0, <2>2, <2>3, <3>1
  <2>5. /\ DOMAIN topic = 1 .. Len(topic) /\ Len(topic) \in Nat
        /\ \A n \in DOMAIN topic : n \in DOMAIN topic' /\ topic'[n] = topic[n]
        /\ \A n \in DOMAIN topic' : n \in DOMAIN topic \/ (n = Len(topic) + 1 /\ topic'[n] = k)
    BY <2>1, TopicGrows
  <2>6. ASSUME NEW n \in DOMAIN topic', NEW m \in DOMAIN topic', n < m,
               topic'[n] # Invalid, topic'[m] # Invalid
        PROVE  topic'[n] < topic'[m]
    <3>1. n \in DOMAIN topic
      BY <2>5, <2>6
    <3>2. CASE m \in DOMAIN topic
      BY <2>5, <2>6, <3>1, <3>2 DEF OrderOK
    <3>3. CASE m = Len(topic) + 1 /\ topic'[m] = k
      BY <2>4, <2>5, <3>1, <3>3
    <3>. QED
      BY <2>5, <3>2, <3>3
  <2>7. \A j \in Messages : j <= changes => publication'[j] \in {"due", "sent"}
    BY <1>0, <2>1 DEF OrderOK
  <2>. QED
    BY <2>1, <2>6, <2>7 DEF OrderOK
<1>5. CASE WriteInvalid
  <2>1. topic' = Append(topic, Invalid) /\ UNCHANGED <<changes, publication>>
    BY <1>5 DEF WriteInvalid, commits
  <2>2. /\ \A n \in DOMAIN topic : n \in DOMAIN topic' /\ topic'[n] = topic[n]
        /\ \A n \in DOMAIN topic' : n \in DOMAIN topic \/ topic'[n] = Invalid
    BY <2>1, TopicGrows
  <2>. QED
    BY <2>1, <2>2 DEF OrderOK
<1>6. ASSUME NEW i \in Instances, Crash(i) PROVE OrderOK'
  <2>1. \A k \in Messages : worker[k] = i => publication[k] # "due"
    BY <1>0, <1>6 DEF Crash, Disturb
  <2>2. publication' = [k \in Messages |->
           IF worker[k] = i /\ publication[k] = "due" THEN "lost" ELSE publication[k]]
    BY <1>6 DEF Crash
  <2>3. \A k \in Messages : publication'[k] = publication[k]
    BY <2>1, <2>2
  <2>4. UNCHANGED <<changes, topic>>
    BY <1>6 DEF Crash
  <2>. QED
    BY <2>3, <2>4 DEF OrderOK
<1>7. ASSUME NEW i \in Instances, Consume(i) PROVE UNCHANGED <<changes, publication, topic>>
  BY <1>7 DEF Consume, Fetch, Handle, HandleFanout, DeadLetter, Ack, commits, group
<1>8. CASE \/ \E k \in Messages : DirectBroadcast(k) \/ DirectFanout(k)
           \/ Rebalance
           \/ \E i \in Instances : Assign(i) \/ FlushCommits(i) \/ ReceiveFanout(i)
           \/ \E c \in Clients : Leave(c)
           \/ HubStep
  BY <1>1, <1>8 DEF DirectBroadcast, DirectFanout, Rebalance, Assign, FlushCommits,
     ReceiveFanout, Leave, HubStep, commits, group
<1>. QED
  BY <1>1, <1>2, <1>3, <1>4, <1>5, <1>6, <1>7, <1>8 DEF Next

\* Undisturbed, the owner is never past a booking event nobody has handled.
LEMMA ReadStep ==
  ASSUME FeedOK, ReadOK, Next, ~disturbed'
  PROVE  ReadOK'
<1>0. /\ topic \in Seq(Messages \cup {Invalid}) /\ disturbed \in BOOLEAN
      /\ position \in Nat /\ latest \in Nat /\ committed \in Nat /\ position <= Len(topic)
      /\ committed <= Len(topic) /\ Len(topic) \in Nat /\ DOMAIN topic = 1 .. Len(topic)
      /\ hand \in [Instances -> Nat]
      /\ stage \in [Instances -> {"fetch", "handle", "fanout", "bury", "ack"}]
  BY DEF FeedOK, TypeOK, LimitsOK
<1>1. CASE UNCHANGED <<owner, position, latest, hand, stage, topic>>
  BY <1>1 DEF ReadOK
<1>2. ASSUME NEW m \in Messages \cup {Invalid}, topic' = Append(topic, m),
             UNCHANGED <<owner, position, latest, hand, stage>>
      PROVE  ReadOK'
  <2>1. \A n \in latest + 1 .. position : topic'[n] = topic[n]
    BY <1>0, <1>2, TopicGrows
  <2>. QED
    BY <1>2, <2>1 DEF ReadOK
<1>3. ASSUME NEW i \in Instances, Assign(i) PROVE ReadOK'
  <2>1. /\ position' = committed /\ UNCHANGED <<latest, topic>>
        /\ Disturb(\E n \in latest + 1 .. committed : Understood(n))
    BY <1>3 DEF Assign, dealing
  <2>2. \A n \in latest + 1 .. committed : topic[n] = Invalid
    BY <1>0, <2>1 DEF Disturb, Understood
  <2>. QED
    BY <2>1, <2>2 DEF ReadOK
<1>4. CASE Rebalance
  BY <1>4, FeedAssumption DEF Rebalance, ReadOK
<1>5. ASSUME NEW i \in Instances, Fetch(i) PROVE ReadOK'
  <2>1. /\ owner = i /\ stage[i] = "fetch" /\ position' = position + 1
        /\ hand' = [hand EXCEPT ![i] = position + 1]
        /\ stage' = [stage EXCEPT ![i] = IF topic[position + 1] # Invalid THEN "handle" ELSE "bury"]
        /\ UNCHANGED <<owner, latest, topic>>
    BY <1>5 DEF Fetch, Goto, Understood, history, dealing
  <2>2. \A n \in latest + 1 .. position : topic[n] = Invalid
    BY <2>1 DEF ReadOK
  <2>3. \A n \in latest + 1 .. position' : n = position + 1 \/ n \in latest + 1 .. position
    BY <1>0, <2>1
  <2>4. /\ hand'[i] = position + 1
        /\ topic[position + 1] # Invalid => stage'[i] = "handle"
    BY <1>0, <2>1
  <2>. QED
    BY <2>1, <2>2, <2>3, <2>4 DEF ReadOK
<1>6. ASSUME NEW i \in Instances, Handle(i) PROVE ReadOK'
  <2>1. /\ stage' = [stage EXCEPT ![i] = "fanout"] /\ stage[i] = "handle"
        /\ UNCHANGED <<owner, position, latest, hand, topic>>
    BY <1>6 DEF Handle, Goto, group, dealing
  <2>2. \A j \in Instances : stage[j] \in {"handle", "fanout"} => stage'[j] \in {"handle", "fanout"}
    BY <1>0, <2>1
  <2>. QED
    BY <2>1, <2>2 DEF ReadOK
<1>7. ASSUME NEW i \in Instances, HandleFanout(i) PROVE ReadOK'
  <2>1. ~Strayed(i)
    BY <1>0, <1>7 DEF HandleFanout, Disturb
  <2>2. latest' = hand[i] /\ UNCHANGED <<position, topic>>
    BY <1>7 DEF HandleFanout, group
  <2>3. \A n : n \notin latest' + 1 .. position'
    BY <1>0, <2>1, <2>2 DEF Strayed
  <2>. QED
    BY <2>3 DEF ReadOK
<1>8. ASSUME NEW i \in Instances, DeadLetter(i) \/ Ack(i) \/ Crash(i) PROVE ReadOK'
  <2>1. /\ owner' # NoInstance => owner' = owner /\ position' = position
        /\ \A j \in Instances \ {i} : stage'[j] = stage[j] /\ hand'[j] = hand[j]
        /\ UNCHANGED <<latest, topic>>
    <3>1. CASE DeadLetter(i)
      BY <1>0, <3>1 DEF DeadLetter, Goto, Continue, group
    <3>2. CASE Ack(i)
      BY <1>0, <3>2 DEF Ack, Goto, Continue, group, history, dealing
    <3>3. CASE Crash(i)
      BY <1>0, <3>3 DEF Crash, Goto, Continue, dealing
    <3>. QED
      BY <1>8, <3>1, <3>2, <3>3
  <2>2. owner' = i => stage[i] \in {"bury", "ack"}
    BY <1>8, FeedAssumption DEF DeadLetter, Ack, Crash
  <2>3. ASSUME NEW j \in Instances, owner' = j,
               NEW n \in latest' + 1 .. position', topic'[n] # Invalid
        PROVE  n = hand'[j] /\ stage'[j] \in {"handle", "fanout"}
    <3>1. owner = j /\ position' = position
      BY <2>1, <2>3, FeedAssumption
    <3>2. n = hand[j] /\ stage[j] \in {"handle", "fanout"}
      BY <2>1, <2>3, <3>1 DEF ReadOK
    <3>3. j # i
      BY <2>2, <2>3, <3>2
    <3>. QED
      BY <2>1, <3>2, <3>3
  <2>. QED
    BY <2>3 DEF ReadOK
<1>9. CASE WriteInvalid \/ \E k \in Messages : Publish(k)
  BY <1>2, <1>9 DEF WriteInvalid, Publish, consumer, history, dealing
<1>10. CASE \/ \E k \in Messages : \/ DirectBroadcast(k) \/ DirectFanout(k) \/ PublishFails(k)
            \/ \E i \in Instances : FlushCommits(i) \/ ReceiveFanout(i)
            \/ \E c \in Clients : Leave(c)
            \/ HubStep
  BY <1>1, <1>10 DEF DirectBroadcast, DirectFanout, PublishFails, FlushCommits, ReceiveFanout,
     Leave, HubStep, group, consumer, history, dealing
<1>11. CASE \E k \in Messages :
              Commit(k) \/ CommitSilently(k) \/ \E i \in Instances : CommitByWorker(i, k)
  BY <1>1, <1>11 DEF Commit, CommitSilently, CommitByWorker, Change, group, consumer, dealing
<1>. QED
  BY <1>3, <1>4, <1>5, <1>6, <1>7, <1>8, <1>9, <1>10, <1>11 DEF Next, Consume

\* A step that a screen and what is on its way to it do not feel, and after
\* which no record has come further.
LEMMA ScreenUntouched ==
  ASSUME NEW c \in Clients, NEW n \in DOMAIN topic, ScreenOK(c, n),
         Reached(InstanceOf[c], n)' => Reached(InstanceOf[c], n),
         Watching(c)' => Watching(c),
         UNCHANGED <<changes, fan[InstanceOf[c]], broadcast[InstanceOf[c]], send[c], screen[c]>>
  PROVE  ScreenOK(c, n)'
BY DEF ScreenOK, EndsWithLast

\* The last change goes to the Broadcast channel, and nothing later is on its
\* way through Redis.
LEMMA AnnounceLast ==
  ASSUME FeedOK, FansOK, NEW c \in Clients, NEW m \in Messages, m = changes,
         Announce(InstanceOf[c], m), ~Overtakes(InstanceOf[c], m),
         UNCHANGED <<changes, fan>>
  PROVE  EndsWithLast(c)'
<1>. DEFINE p == InstanceOf[c]
<1>0. /\ p \in Instances /\ fan[p] \in Seq(Messages) /\ broadcast \in [Instances -> Seq(Messages)]
      /\ \A k \in Messages : k \in Nat
      /\ QueueSize \in Nat /\ changes \in Nat
  BY HubAssumption DEF FeedOK, TypeOK, HubTypeOK
<1>1. Len(broadcast[p]) < QueueSize /\ \A x \in DOMAIN fan[p] : ~(fan[p][x] < m)
  BY <1>0 DEF Overtakes
<1>2. broadcast'[p] = Append(broadcast[p], m)
  BY <1>0, <1>1 DEF Announce, BroadcastLocal
<1>3. broadcast'[p] # <<>> /\ broadcast'[p][Len(broadcast'[p])] = m
  BY <1>0, <1>2, LastOf
<1>4. ASSUME fan[p] # <<>> PROVE fan[p][Len(fan[p])] = changes
  <2>1. Len(fan[p]) \in DOMAIN fan[p]
    BY <1>0, <1>4
  <2>2. fan[p][Len(fan[p])] \in Nat
    BY <1>0, <2>1
  <2>. QED
    BY <1>0, <1>1, <2>1, <2>2 DEF FansOK
<1>. QED
  BY <1>3, <1>4 DEF EndsWithLast

\* It goes through Redis, behind all that is on its way.
LEMMA FanoutLast ==
  ASSUME FeedOK, NEW c \in Clients, NEW i \in Instances, NEW m \in Messages, m = changes,
         PublishFanout(i, m), InstanceOf[c] # i, UNCHANGED changes
  PROVE  EndsWithLast(c)'
<1>1. InstanceOf[c] \in Instances /\ fan \in [Instances -> Seq(Messages)]
  BY HubAssumption DEF FeedOK, TypeOK
<1>2. fan'[InstanceOf[c]] = Append(fan[InstanceOf[c]], m)
  BY <1>1, FanoutTypes
<1>3. fan'[InstanceOf[c]] # <<>> /\ fan'[InstanceOf[c]][Len(fan'[InstanceOf[c]])] = m
  <2>1. fan[InstanceOf[c]] \in Seq(Messages)
    BY <1>1
  <2>. QED
    BY ONLY <1>2, <2>1, LastOf, SMTT(30)
<1>. QED
  BY <1>3 DEF EndsWithLast

\* A consumer handles the last change, or an earlier one.
LEMMA ScreenHandled ==
  ASSUME FeedOK, RecordsOK, FansOK, OrderOK, ~disturbed',
         NEW c \in Clients, NEW n \in DOMAIN topic, LastRecord(n), ScreenOK(c, n),
         NEW i \in Instances, Handle(i) \/ HandleFanout(i)
  PROVE  ScreenOK(c, n)'
<1>. DEFINE p == InstanceOf[c]
            m == topic[hand[i]]
<1>0. /\ p \in Instances /\ disturbed \in BOOLEAN
      /\ stage \in [Instances -> {"fetch", "handle", "fanout", "bury", "ack"}]
      /\ broadcast \in [Instances -> Seq(Messages)] /\ fan \in [Instances -> Seq(Messages)]
      /\ topic \in Seq(Messages \cup {Invalid}) /\ hand[i] \in Nat
      /\ \A k \in Messages : k \in Nat
  BY HubAssumption DEF FeedOK, TypeOK, HubTypeOK
<1>1. /\ hand[i] \in DOMAIN topic /\ m # Invalid /\ m \in Messages /\ m \in Nat
      /\ DOMAIN topic \subseteq Nat /\ changes \in Nat
  <2>1. hand[i] \in DOMAIN topic /\ m # Invalid
    BY <1>0 DEF Handle, HandleFanout, FeedOK, HandsOK
  <2>2. m \in Messages
    BY <1>0, <2>1
  <2>3. DOMAIN topic \subseteq Nat
    BY <1>0
  <2>4. changes \in Nat
    BY <1>0 DEF FeedOK, TypeOK
  <2>. QED
    BY <1>0, <2>1, <2>2, <2>3, <2>4
<1>2. CASE Handle(i)
  <2>1. /\ stage[i] = "handle" /\ stage' = [stage EXCEPT ![i] = "fanout"]
        /\ Announce(i, m)
        /\ UNCHANGED <<pumps, hub, send, changes, owner, position, topic, hand, fan, latest, since>>
        /\ Disturb(Strayed(i) \/ Overtakes(i, m))
    BY <1>2 DEF Handle, Goto, commits, group, dealing
  <2>2. ~Overtakes(i, m)
    BY <1>0, <2>1 DEF Disturb
  <2>3. CASE p = i
    <3>1. CASE hand[i] = n
      BY <1>1, <2>1, <2>2, <2>3, <3>1, AnnounceLast DEF LastRecord, ScreenOK
    <3>2. CASE hand[i] # n
      <4>1. stage'[p] = "fanout" /\ hand'[p] # n
        BY <1>0, <2>1, <2>3, <3>2
      <4>. QED
        BY <4>1 DEF ScreenOK, Reached
    <3>. QED
      BY <3>1, <3>2
  <2>4. CASE p # i
    <3>1. stage'[p] = stage[p] /\ broadcast'[p] = broadcast[p]
      BY <1>0, <2>1, <2>4 DEF Announce
    <3>2. Reached(p, n)' => Reached(p, n)
      BY <2>1, <3>1 DEF Reached, Strayed
    <3>3. Watching(c)' => Watching(c)
      BY <2>1 DEF Watching, Listening, pumps, hub
    <3>. QED
      BY <2>1, <3>1, <3>2, <3>3, ScreenUntouched DEF pumps
  <2>. QED
    BY <2>3, <2>4
<1>3. CASE HandleFanout(i)
  <2>1. /\ stage[i] = "fanout" /\ stage' = [stage EXCEPT ![i] = "ack"]
        /\ latest' = hand[i]
        /\ UNCHANGED <<hubVars, changes, owner, position, topic, hand, since>>
    BY <1>3 DEF HandleFanout, Goto, commits, group
  <2>2. PublishFanout(i, m) /\ ~Strayed(i)
    BY <1>0, <1>3 DEF HandleFanout, Disturb
  <2>3. Watching(c)' => Watching(c)
    BY <2>1 DEF Watching, Listening, hubVars, pumps, hub
  <2>4. CASE hand[i] = n /\ p # i
    BY <1>1, <2>1, <2>2, <2>4, FanoutLast DEF LastRecord, ScreenOK
  <2>5. CASE hand[i] = n /\ p = i
    <3>1. Reached(p, n)
      BY <2>1, <2>2, <2>5 DEF Reached
    <3>2. fan'[p] = fan[p]
      BY <1>0, <1>1, <2>2, <2>5, FanoutTypes
    <3>. QED
      BY <2>1, <2>3, <3>1, <3>2, ScreenUntouched DEF hubVars, pumps
  <2>6. CASE hand[i] # n
    <3>1. hand[i] < n
      <4>1. m <= changes /\ topic[n] = changes
        BY <1>1 DEF RecordsOK, LastRecord
      <4>2. ~(n < hand[i])
        BY <1>0, <1>1, <4>1 DEF OrderOK, LastRecord
      <4>. QED
        BY <1>0, <2>6, <4>2
    <3>2. ~(latest' >= n)
      BY <1>0, <2>1, <3>1
    <3>3. p = i => stage'[p] # "fanout"
      BY <1>0, <2>1
    <3>4. p # i => Strayed(p)'
      BY <2>1, <2>2 DEF Strayed
    <3>5. ~Reached(p, n)'
      BY <3>2, <3>3, <3>4 DEF Reached
    <3>. QED
      BY <3>5 DEF ScreenOK
  <2>. QED
    BY <2>4, <2>5, <2>6
<1>. QED
  BY <1>2, <1>3

\* The partition goes from one process to another, or its owner to the next
\* record.
LEMMA ScreenRead ==
  ASSUME FeedOK, ~disturbed',
         NEW c \in Clients, NEW n \in DOMAIN topic, LastRecord(n), ScreenOK(c, n),
         \/ Rebalance
         \/ \E i \in Instances : \/ Assign(i) \/ Fetch(i) \/ DeadLetter(i) \/ Ack(i)
                                 \/ FlushCommits(i)
  PROVE  ScreenOK(c, n)'
<1>. DEFINE p == InstanceOf[c]
<1>0. /\ p \in Instances /\ disturbed \in BOOLEAN /\ latest \in Nat /\ committed \in Nat
      /\ stage \in [Instances -> {"fetch", "handle", "fanout", "bury", "ack"}]
      /\ n \in Nat /\ topic \in Seq(Messages \cup {Invalid})
  BY HubAssumption DEF FeedOK, TypeOK
<1>1. ASSUME Reached(p, n)' => Reached(p, n), UNCHANGED <<hubVars, changes, fan, since>>
      PROVE  ScreenOK(c, n)'
  <2>1. Watching(c)' => Watching(c)
    BY <1>1 DEF Watching, Listening, hubVars, pumps, hub
  <2>. QED
    BY <1>1, <2>1, ScreenUntouched DEF hubVars, pumps
<1>2. CASE Rebalance
  <2>1. /\ owner' = NoInstance
        /\ UNCHANGED <<hubVars, changes, fan, since, stage, hand, latest>>
    BY <1>2 DEF Rebalance, commits, consumer, history, dealing
  <2>2. Strayed(p)'
    BY <1>0, <2>1, FeedAssumption DEF Strayed
  <2>. QED
    BY <1>1, <2>1, <2>2 DEF Reached
<1>3. ASSUME NEW i \in Instances, Assign(i) PROVE ScreenOK(c, n)'
  <2>1. /\ position' = committed
        /\ Disturb(\E x \in latest + 1 .. committed : Understood(x))
        /\ UNCHANGED <<hubVars, changes, fan, since, stage, hand, latest, topic>>
    BY <1>3 DEF Assign, commits, consumer, dealing
  <2>2. \A x \in latest + 1 .. committed : topic[x] = Invalid
    BY <1>0, <2>1 DEF Disturb, Understood
  <2>3. ASSUME ~Strayed(p)', hand[p] = n PROVE latest >= n
    <3>1. n = committed
      BY <2>1, <2>3 DEF Strayed
    <3>. QED
      BY <1>0, <2>2, <3>1 DEF LastRecord
  <2>4. Reached(p, n)' => Reached(p, n)
    BY <2>1, <2>3 DEF Reached
  <2>. QED
    BY <1>1, <2>1, <2>4
<1>4. ASSUME NEW i \in Instances, Fetch(i) PROVE ScreenOK(c, n)'
  <2>1. /\ owner = i /\ stage[i] = "fetch"
        /\ hand' = [hand EXCEPT ![i] = position + 1]
        /\ \E s \in {"handle", "bury"} : stage' = [stage EXCEPT ![i] = s]
        /\ UNCHANGED <<hubVars, changes, fan, since, owner, latest>>
    BY <1>4 DEF Fetch, Goto, commits, history, dealing
  <2>2. Reached(p, n)' => Reached(p, n)
    <3>1. CASE p = i
      <4>1. stage'[p] # "fanout" /\ stage[p] # "fanout"
        BY <1>0, <2>1, <3>1
      <4>. QED
        BY <2>1, <4>1 DEF Reached
    <3>2. CASE p # i
      <4>1. stage'[p] = stage[p] /\ hand'[p] = hand[p]
        BY <1>0, <2>1, <3>2 DEF FeedOK, TypeOK
      <4>. QED
        BY <2>1, <3>2, <4>1 DEF Reached, Strayed
    <3>. QED
      BY <3>1, <3>2
  <2>. QED
    BY <1>1, <2>1, <2>2
<1>5. ASSUME NEW i \in Instances, DeadLetter(i) \/ Ack(i) PROVE ScreenOK(c, n)'
  <2>1. /\ stage[i] \in {"bury", "ack"}
        /\ \E s \in {"ack", "fetch"} : stage' = [stage EXCEPT ![i] = s]
        /\ \A j \in Instances \ {i} : hand'[j] = hand[j]
        /\ UNCHANGED <<hubVars, changes, fan, since, owner, position, latest>>
    <3>1. CASE DeadLetter(i)
      <4>1. UNCHANGED hand \/ Continue(i)
        BY <3>1 DEF DeadLetter
      <4>2. \A j \in Instances \ {i} : hand'[j] = hand[j]
        BY <4>1 DEF Continue, FeedOK, TypeOK
      <4>. QED
        BY <3>1, <4>2 DEF DeadLetter, Goto, Continue, commits, group
    <3>2. CASE Ack(i)
      <4>1. \A j \in Instances \ {i} : hand'[j] = hand[j]
        BY <3>2 DEF Ack, Continue, FeedOK, TypeOK
      <4>. QED
        BY <3>2, <4>1 DEF Ack, Goto, Continue, commits, group, history, dealing
    <3>. QED
      BY <1>5, <3>1, <3>2
  <2>2. Reached(p, n)' => Reached(p, n)
    <3>1. CASE p = i
      <4>1. stage'[p] # "fanout" /\ stage[p] # "fanout"
        BY <1>0, <2>1, <3>1
      <4>. QED
        BY <2>1, <4>1 DEF Reached
    <3>2. CASE p # i
      <4>1. stage'[p] = stage[p] /\ hand'[p] = hand[p]
        BY <1>0, <2>1, <3>2
      <4>. QED
        BY <2>1, <4>1 DEF Reached, Strayed
    <3>. QED
      BY <3>1, <3>2
  <2>. QED
    BY <1>1, <2>1, <2>2
<1>6. ASSUME NEW i \in Instances, FlushCommits(i) PROVE ScreenOK(c, n)'
  BY <1>1, <1>6 DEF FlushCommits, Reached, Strayed, commits, history, dealing
<1>. QED
  BY <1>2, <1>3, <1>4, <1>5, <1>6

\* The broadcasts of the workers and of other processes.
LEMMA ScreenBroadcast ==
  ASSUME FeedOK, FansOK, ~disturbed',
         NEW c \in Clients, NEW n \in DOMAIN topic, LastRecord(n), ScreenOK(c, n),
         \/ \E k \in Messages : DirectBroadcast(k) \/ DirectFanout(k)
         \/ \E i \in Instances : ReceiveFanout(i)
  PROVE  ScreenOK(c, n)'
<1>. DEFINE p == InstanceOf[c]
<1>0. /\ p \in Instances /\ disturbed \in BOOLEAN /\ changes \in Nat
      /\ broadcast \in [Instances -> Seq(Messages)] /\ fan \in [Instances -> Seq(Messages)]
      /\ \A k \in Messages : k \in Nat
  <2>1. changes \in Messages \cup {0} /\ \A k \in Messages : k \in Nat
    BY HubAssumption DEF FeedOK, TypeOK
  <2>. QED
    BY <2>1, HubAssumption DEF FeedOK, TypeOK, HubTypeOK
<1>1. ASSUME UNCHANGED <<pumps, hub, send, changes, owner, position, stage, hand, latest, since>>
      PROVE  /\ Watching(c)' => Watching(c)
             /\ Reached(p, n)' => Reached(p, n)
             /\ UNCHANGED <<send[c], screen[c]>>
  BY <1>1 DEF Watching, Listening, pumps, hub, Reached, Strayed
<1>2. ASSUME NEW k \in Messages, DirectBroadcast(k) PROVE ScreenOK(c, n)'
  <2>1. /\ UNCHANGED <<pumps, hub, send, changes, owner, position, stage, hand, latest, since, fan>>
        /\ \/ UNCHANGED broadcast
           \/ /\ Announce(worker[k], k)
              /\ Disturb(changes > k \/ Overtakes(worker[k], k))
    BY <1>2 DEF DirectBroadcast, group, consumer, dealing
  <2>2. CASE UNCHANGED broadcast
    BY <1>1, <2>1, <2>2, ScreenUntouched
  <2>3. CASE /\ Announce(worker[k], k)
             /\ Disturb(changes > k \/ Overtakes(worker[k], k))
    <3>1. k = changes /\ ~Overtakes(worker[k], k)
      <4>1. ~(changes > k) /\ ~Overtakes(worker[k], k)
        BY <1>0, <2>3 DEF Disturb
      <4>2. k <= changes
        BY <1>2 DEF DirectBroadcast, FeedOK, DirectsOK
      <4>. QED
        BY <1>0, <4>1, <4>2
    <3>2. CASE p = worker[k]
      BY <2>1, <2>3, <3>1, <3>2, AnnounceLast DEF ScreenOK
    <3>3. CASE p # worker[k]
      <4>1. broadcast'[p] = broadcast[p]
        BY <1>0, <2>3, <3>3 DEF Announce
      <4>. QED
        BY <1>1, <2>1, <4>1, ScreenUntouched
    <3>. QED
      BY <3>2, <3>3
  <2>. QED
    BY <2>1, <2>2, <2>3
<1>3. ASSUME NEW k \in Messages, DirectFanout(k) PROVE ScreenOK(c, n)'
  <2>1. /\ UNCHANGED <<hubVars, changes, owner, position, stage, hand, latest, since>>
        /\ PublishFanout(worker[k], k) /\ Disturb(changes > k) /\ worker[k] \in Instances
        /\ k <= changes
    BY <1>3 DEF DirectFanout, group, consumer, dealing, FeedOK, DirectsOK
  <2>2. k = changes
    <3>1. ~(changes > k)
      BY <1>0, <2>1 DEF Disturb
    <3>. QED
      BY <1>0, <2>1, <3>1
  <2>3. CASE p # worker[k]
    BY <2>1, <2>2, <2>3, FanoutLast DEF ScreenOK
  <2>4. CASE p = worker[k]
    <3>1. fan'[p] = fan[p]
      BY <1>0, <2>1, <2>4, FanoutTypes
    <3>2. UNCHANGED <<pumps, hub, send, broadcast>>
      BY <2>1 DEF hubVars
    <3>. QED
      BY <1>1, <2>1, <3>1, <3>2, ScreenUntouched
  <2>. QED
    BY <2>3, <2>4
<1>4. ASSUME NEW i \in Instances, ReceiveFanout(i) PROVE ScreenOK(c, n)'
  <2>1. /\ fan[i] # <<>> /\ fan' = [fan EXCEPT ![i] = Tail(fan[i])]
        /\ Announce(i, Head(fan[i])) /\ Disturb(Len(broadcast[i]) >= QueueSize)
        /\ UNCHANGED <<pumps, hub, send, changes, owner, position, stage, hand, latest, since>>
    BY <1>4 DEF ReceiveFanout, commits, group, consumer, dealing
  <2>2. CASE p # i
    <3>1. fan'[p] = fan[p] /\ broadcast'[p] = broadcast[p]
      BY <1>0, <2>1, <2>2 DEF Announce
    <3>. QED
      BY <1>1, <2>1, <3>1, ScreenUntouched
  <2>3. CASE p = i
    <3>1. Len(broadcast[p]) < QueueSize
      <4>1. ~(Len(broadcast[p]) >= QueueSize)
        BY <1>0, <2>1, <2>3 DEF Disturb
      <4>2. Len(broadcast[p]) \in Nat /\ QueueSize \in Nat
        BY <1>0, HubAssumption
      <4>. QED
        BY <4>1, <4>2
    <3>2. Head(fan[p]) \in Messages /\ fan'[p] = Tail(fan[p])
      BY <1>0, <2>1, <2>3
    <3>3. broadcast'[p] = Append(broadcast[p], Head(fan[p]))
      BY <1>0, <2>1, <2>3, <3>1 DEF Announce, BroadcastLocal
    <3>4. broadcast'[p] # <<>> /\ broadcast'[p][Len(broadcast'[p])] = Head(fan[p])
      <4>1. \A k \in Messages : /\ Append(broadcast[p], k) # <<>>
                               /\ Append(broadcast[p], k)[Len(Append(broadcast[p], k))] = k
        BY <1>0, LastOf
      <4>. QED
        BY <3>2, <3>3, <4>1
    <3>5. /\ Tail(fan[p]) # <<>> => Tail(fan[p])[Len(Tail(fan[p]))] = fan[p][Len(fan[p])]
          /\ Tail(fan[p]) = <<>> => Head(fan[p]) = fan[p][Len(fan[p])]
      BY <1>0, <2>1, <2>3, LastOf
    <3>6. EndsWithLast(c) => EndsWithLast(c)'
      BY <2>1, <2>3, <3>2, <3>4, <3>5 DEF EndsWithLast
    <3>. QED
      BY <1>1, <2>1, <3>6 DEF ScreenOK
  <2>. QED
    BY <2>2, <2>3
<1>. QED
  BY <1>2, <1>3, <1>4

\* A process dies: those connected to it are no longer there.
LEMMA ScreenCrash ==
  ASSUME FeedOK, ClientsOK,
         NEW c \in Clients, NEW n \in DOMAIN topic, ScreenOK(c, n),
         NEW i \in Instances, Crash(i)
  PROVE  ScreenOK(c, n)'
<1>. DEFINE p == InstanceOf[c]
            gone == {d \in Clients : InstanceOf[d] = i /\ conn[d] # "new"}
<1>0. /\ p \in Instances
      /\ stage \in [Instances -> {"fetch", "handle", "fanout", "bury", "ack"}]
      /\ hand \in [Instances -> Nat]
      /\ broadcast \in [Instances -> Seq(Messages)] /\ fan \in [Instances -> Seq(Messages)]
  BY HubAssumption DEF FeedOK, TypeOK, HubTypeOK
<1>1. HubDies(i)
  BY DEF Crash
<1>2. /\ conn' = [d \in Clients |-> IF d \in gone THEN "closed" ELSE conn[d]]
      /\ writer' = [d \in Clients |-> IF d \in gone THEN "done" ELSE writer[d]]
      /\ broadcast' = [broadcast EXCEPT ![i] = <<>>]
      /\ clients' = clients \ gone
      /\ send' = [d \in Clients |-> IF d \in gone THEN <<>> ELSE send[d]]
      /\ UNCHANGED <<subscribed, screen>>
  BY <1>1 DEF HubDies
<1>3. CASE p = i
  <2>1. ~Watching(c)'
    BY <1>2, <1>3 DEF Watching, Listening, ClientsOK
  <2>. QED
    BY <2>1 DEF ScreenOK
<1>4. CASE p # i
  <2>1. c \notin gone
    BY <1>4
  <2>2. /\ conn'[c] = conn[c] /\ writer'[c] = writer[c] /\ send'[c] = send[c]
        /\ broadcast'[p] = broadcast[p] /\ screen'[c] = screen[c]
        /\ c \in clients' => c \in clients
    BY <1>0, <1>2, <1>4, <2>1
  <2>3. /\ fan'[p] = fan[p] /\ stage'[p] = stage[p] /\ hand'[p] = hand[p]
        /\ UNCHANGED <<changes, since, latest>>
    BY <1>0, <1>4 DEF Crash, Goto, Continue, dealing
  <2>4. Watching(c)' => Watching(c)
    BY <1>2, <2>2, <2>3 DEF Watching, Listening
  <2>5. Strayed(p) => Strayed(p)'
    <3>1. owner' # NoInstance => UNCHANGED <<owner, position>>
      BY DEF Crash
    <3>. QED
      BY <1>0, <2>3, <3>1, FeedAssumption DEF Strayed
  <2>6. Reached(p, n)' => Reached(p, n)
    BY <2>3, <2>5 DEF Reached
  <2>. QED
    BY <2>2, <2>3, <2>4, <2>6, ScreenUntouched
<1>. QED
  BY <1>3, <1>4

\* Who watches after a step of the hub has watched before it: a client that
\* was not listening has not missed a change since.
LEMMA HubWatching ==
  ASSUME FeedOK, ClientsOK, HubStep, NEW c \in Clients, Watching(c)'
  PROVE  Watching(c)
<1>0. /\ conn \in [Clients -> {"new", "open", "closed"}]
      /\ writer \in [Clients -> {"none", "writing", "done"}]
      /\ since' = [d \in Clients |-> IF d \in Listening' \ Listening THEN changes ELSE since[d]]
      /\ changes' = changes /\ changes \in Nat
  <2>1. changes \in Messages \cup {0}
    BY DEF FeedOK, TypeOK
  <2>2. changes \in Nat
    BY <2>1, HubAssumption
  <2>. QED
    BY <2>2 DEF HubStep, commits, FeedOK, TypeOK, HubTypeOK
<1>1. c \in Listening
  BY <1>0 DEF Watching
<1>2. since'[c] = since[c]
  BY <1>0, <1>1
<1>3. conn[c] # "new"
  BY <1>1 DEF Listening, ClientsOK
<1>4. conn[c] = "open" /\ writer[c] = "writing"
  <2>0. conn'[c] = "open" /\ writer'[c] = "writing"
    BY DEF Watching
  <2>1. ASSUME NEW d \in Clients, HandleClient(d) PROVE conn[c] = "open" /\ writer[c] = "writing"
    BY <1>0, <1>3, <2>0, <2>1 DEF HandleClient
  <2>2. ASSUME NEW d \in Clients, WriteMessage(d) \/ Pump(d)
        PROVE  conn[c] = "open" /\ writer[c] = "writing"
    BY <1>0, <2>0, <2>2 DEF WriteMessage, Pump, ReadFails, Unregister, CloseConnection
  <2>3. ASSUME NEW d \in Clients, Subscribe(d) \/ Serve(d)
        PROVE  UNCHANGED <<conn, writer>>
    BY <2>3 DEF Subscribe, Serve, RunRegister, RunUnregister, pumps
  <2>4. ASSUME NEW i \in Instances, RunBroadcast(i) PROVE UNCHANGED <<conn, writer>>
    BY <2>4 DEF RunBroadcast, pumps
  <2>. QED
    BY <2>0, <2>1, <2>2, <2>3, <2>4 DEF HubStep, HubNext
<1>. QED
  BY <1>0, <1>1, <1>2, <1>4 DEF Watching

\* The hub passes on what ends with the last change, in the same order, and
\* drops nobody that still watches.
LEMMA ScreenServed ==
  ASSUME FeedOK, ClientsOK,
         NEW c \in Clients, NEW n \in DOMAIN topic, ScreenOK(c, n), HubStep
  PROVE  ScreenOK(c, n)'
<1>. DEFINE p == InstanceOf[c]
<1>. SUFFICES ASSUME Reached(p, n)', Watching(c)' PROVE EndsWithLast(c)'
  BY DEF ScreenOK
<1>0. /\ p \in Instances /\ broadcast \in [Instances -> Seq(Messages)]
      /\ send \in [Clients -> Seq(Messages)] /\ screen \in [Clients -> Messages \cup {0}]
      /\ UNCHANGED <<fan, changes>> /\ HubNext
  BY HubAssumption DEF HubStep, commits, FeedOK, TypeOK, HubTypeOK
<1>1. EndsWithLast(c) /\ Watching(c)
  <2>1. Reached(p, n)
    BY DEF HubStep, Reached, Strayed, group, consumer, dealing
  <2>. QED
    BY <2>1, HubWatching DEF ScreenOK
<1>2. CASE UNCHANGED <<broadcast[p], send[c], screen[c]>>
  BY <1>0, <1>1, <1>2 DEF EndsWithLast
<1>3. ASSUME NEW d \in Clients, HandleClient(d) \/ Subscribe(d) \/ Pump(d) \/ Serve(d)
      PROVE  UNCHANGED <<broadcast, send, screen>>
  BY <1>3 DEF HandleClient, Subscribe, Pump, ReadFails, Unregister, CloseConnection, Serve,
     RunRegister, RunUnregister, pumps
<1>4. ASSUME NEW d \in Clients, WriteMessage(d) PROVE EndsWithLast(c)'
  <2>1. send' = [send EXCEPT ![d] = Tail(send[d])] /\ send[d] # <<>> /\ broadcast' = broadcast
    BY <1>4 DEF WriteMessage
  <2>2. CASE d # c
    <3>1. send'[c] = send[c] /\ screen'[c] = screen[c]
      BY <1>0, <1>4, <2>2 DEF WriteMessage
    <3>. QED
      BY <1>2, <2>1, <3>1
  <2>3. CASE d = c
    <3>1. send'[c] = Tail(send[c]) /\ screen'[c] = Head(send[c])
      BY <1>0, <1>1, <1>4, <2>3 DEF WriteMessage, Watching
    <3>2. /\ Tail(send[c]) # <<>> => Tail(send[c])[Len(Tail(send[c]))] = send[c][Len(send[c])]
          /\ Tail(send[c]) = <<>> => Head(send[c]) = send[c][Len(send[c])]
      BY <1>0, <2>1, <2>3, LastOf
    <3>. QED
      BY <1>0, <1>1, <2>1, <2>3, <3>1, <3>2 DEF EndsWithLast
  <2>. QED
    BY <2>2, <2>3
<1>5. ASSUME NEW i \in Instances, RunBroadcast(i) PROVE EndsWithLast(c)'
  <2>. DEFINE m == Head(broadcast[i])
              stale == {d \in Recipients(i) : Len(send[d]) >= BufferSize}
  <2>1. /\ broadcast[i] # <<>> /\ broadcast' = [broadcast EXCEPT ![i] = Tail(broadcast[i])]
        /\ send' = [d \in Clients |-> IF d \in Recipients(i) \ stale THEN Append(send[d], m)
                                      ELSE send[d]]
        /\ clients' = clients \ stale /\ screen' = screen
    BY <1>5 DEF RunBroadcast, pumps
  <2>2. CASE p # i
    <3>1. c \notin Recipients(i)
      BY <2>2 DEF Recipients
    <3>2. send'[c] = send[c] /\ broadcast'[p] = broadcast[p] /\ screen'[c] = screen[c]
      BY <1>0, <2>1, <2>2, <3>1
    <3>. QED
      BY <1>2, <3>2
  <2>3. CASE p = i
    <3>1. c \in Recipients(i) \ stale
      BY <1>1, <2>1, <2>3 DEF Watching, Listening, Recipients
    <3>2. send'[c] = Append(send[c], m) /\ broadcast'[p] = Tail(broadcast[p])
      BY <1>0, <2>1, <2>3, <3>1
    <3>3. m \in Messages /\ send[c] \in Seq(Messages)
      BY <1>0, <2>1
    <3>. HIDE DEF m, stale
    <3>4. send'[c] # <<>> /\ send'[c][Len(send'[c])] = m
      BY <3>2, <3>3, LastOf
    <3>5. /\ Tail(broadcast[p]) # <<>> =>
               Tail(broadcast[p])[Len(Tail(broadcast[p]))] = broadcast[p][Len(broadcast[p])]
          /\ Tail(broadcast[p]) = <<>> => m = broadcast[p][Len(broadcast[p])]
      BY <1>0, <2>1, <2>3, LastOf DEF m
    <3>. QED
      BY <1>0, <1>1, <2>1, <2>3, <3>2, <3>4, <3>5 DEF EndsWithLast
  <2>. QED
    BY <2>2, <2>3
<1>. QED
  BY <1>0, <1>2, <1>3, <1>4, <1>5 DEF HubNext

\* Undisturbed, what the clients see keeps up with what the consumers handle.
LEMMA ScreensStep ==
  ASSUME FeedOK, ClientsOK, RecordsOK, FansOK, OrderOK, ScreensOK, Next, ~disturbed'
  PROVE  ScreensOK'
<1>0. /\ topic \in Seq(Messages \cup {Invalid}) /\ changes \in Nat /\ latest \in Nat
      /\ hand \in [Instances -> Nat] /\ Len(topic) \in Nat
      /\ latest <= Len(topic) /\ \A i \in Instances : hand[i] <= Len(topic)
      /\ \A k \in Messages : k \in Nat
      /\ \A c \in Clients : InstanceOf[c] \in Instances
  <2>1. changes \in Messages \cup {0} /\ \A k \in Messages : k \in Nat
    BY HubAssumption DEF FeedOK, TypeOK
  <2>. QED
    BY <2>1, HubAssumption DEF FeedOK, TypeOK, LimitsOK
<1>1. ASSUME UNCHANGED <<changes, topic>>,
             ASSUME NEW c \in Clients, NEW n \in DOMAIN topic, LastRecord(n), ScreenOK(c, n)
             PROVE  ScreenOK(c, n)'
      PROVE  ScreensOK'
  BY <1>1 DEF ScreensOK, LastRecord
<1>2. ASSUME NEW k \in Messages, Change(k) PROVE ScreensOK'
  <2>1. changes' = changes + 1 /\ topic' = topic
    BY <1>2 DEF Change, group
  <2>2. \A n \in DOMAIN topic : topic[n] \in Nat /\ (topic[n] # Invalid => topic[n] <= changes)
    BY <1>0 DEF RecordsOK, Invalid
  <2>3. \A n \in DOMAIN topic' : ~LastRecord(n)'
    BY <1>0, <2>1, <2>2 DEF LastRecord
  <2>. QED
    BY <2>3 DEF ScreensOK
<1>3. ASSUME NEW m \in Messages \cup {Invalid}, topic' = Append(topic, m),
             UNCHANGED <<hubVars, changes, owner, position, consumer, fan, latest, since>>
      PROVE  ScreensOK'
  <2>1. /\ DOMAIN topic = 1 .. Len(topic)
        /\ \A n \in DOMAIN topic : n \in DOMAIN topic' /\ topic'[n] = topic[n]
        /\ \A n \in DOMAIN topic' : n \in DOMAIN topic \/ (n = Len(topic) + 1 /\ topic'[n] = m)
    BY <1>3, TopicGrows
  <2>2. ASSUME NEW c \in Clients, NEW n \in DOMAIN topic', LastRecord(n)' PROVE ScreenOK(c, n)'
    <3>1. CASE n \in DOMAIN topic
      <4>1. ScreenOK(c, n)
        BY <1>3, <2>1, <2>2, <3>1 DEF ScreensOK, LastRecord
      <4>2. /\ Reached(InstanceOf[c], n)' => Reached(InstanceOf[c], n)
            /\ Watching(c)' => Watching(c)
        BY <1>3 DEF Reached, Strayed, Watching, Listening, consumer, hubVars, pumps, hub
      <4>. QED
        BY <1>3, <3>1, <4>1, <4>2, ScreenUntouched DEF hubVars, pumps
    <3>2. CASE n = Len(topic) + 1
      <4>1. ~(latest >= n) /\ hand[InstanceOf[c]] # n
        BY <1>0, <3>2
      <4>2. ~Reached(InstanceOf[c], n)'
        BY <1>3, <4>1 DEF Reached, consumer
      <4>. QED
        BY <4>2 DEF ScreenOK
    <3>. QED
      BY <2>1, <2>2, <3>1, <3>2
  <2>. QED
    BY <2>2 DEF ScreensOK
<1>4. CASE WriteInvalid \/ \E k \in Messages : Publish(k)
  BY <1>3, <1>4 DEF WriteInvalid, Publish, commits, history, dealing
<1>5. ASSUME NEW k \in Messages, PublishFails(k) PROVE ScreensOK'
  <2>1. UNCHANGED <<hubVars, changes, group, consumer, fan, dealing, since>>
    BY <1>5 DEF PublishFails
  <2>2. ASSUME NEW c \in Clients, NEW n \in DOMAIN topic, LastRecord(n), ScreenOK(c, n)
        PROVE  ScreenOK(c, n)'
    <3>1. /\ Reached(InstanceOf[c], n)' => Reached(InstanceOf[c], n)
          /\ Watching(c)' => Watching(c)
      BY <2>1 DEF Reached, Strayed, Watching, Listening, group, consumer, dealing, hubVars,
         pumps, hub
    <3>. QED
      BY <2>1, <2>2, <3>1, ScreenUntouched DEF hubVars, pumps
  <2>. QED
    BY <1>1, <2>1, <2>2 DEF group
<1>6. ASSUME NEW c \in Clients, Leave(c) PROVE ScreensOK'
  <2>1. /\ UNCHANGED <<writer, subscribed, screen, broadcast, hub, send>>
        /\ conn' = [conn EXCEPT ![c] = "closed"]
        /\ UNCHANGED <<changes, group, consumer, fan, dealing, since>>
    BY <1>6 DEF Leave, Disconnect, commits, history
  <2>2. ASSUME NEW d \in Clients, NEW n \in DOMAIN topic, LastRecord(n), ScreenOK(d, n)
        PROVE  ScreenOK(d, n)'
    <3>1. Reached(InstanceOf[d], n)' => Reached(InstanceOf[d], n)
      BY <2>1 DEF Reached, Strayed, group, consumer, dealing
    <3>2. conn'[d] = "open" => conn[d] = "open"
      BY <2>1 DEF FeedOK, TypeOK, HubTypeOK
    <3>3. Watching(d)' => Watching(d)
      BY <2>1, <3>2 DEF Watching, Listening, hub
    <3>. QED
      BY <2>1, <2>2, <3>1, <3>3, ScreenUntouched
  <2>. QED
    BY <1>1, <2>1, <2>2 DEF group
<1>7. CASE HubStep
  BY <1>1, <1>7, ScreenServed DEF HubStep, commits, group
<1>8. ASSUME NEW i \in Instances, Crash(i) PROVE ScreensOK'
  BY <1>1, <1>8, ScreenCrash DEF Crash
<1>9. ASSUME NEW i \in Instances, Handle(i) \/ HandleFanout(i) PROVE ScreensOK'
  BY <1>1, <1>9, ScreenHandled DEF Handle, HandleFanout, commits, group
<1>10. CASE \/ Rebalance
            \/ \E i \in Instances : \/ Assign(i) \/ Fetch(i) \/ DeadLetter(i) \/ Ack(i)
                                    \/ FlushCommits(i)
  BY <1>1, <1>10, ScreenRead
     DEF Rebalance, Assign, Fetch, DeadLetter, Ack, FlushCommits, commits, group
<1>11. CASE \/ \E k \in Messages : DirectBroadcast(k) \/ DirectFanout(k)
            \/ \E i \in Instances : ReceiveFanout(i)
  BY <1>1, <1>11, ScreenBroadcast DEF DirectBroadcast, DirectFanout, ReceiveFanout, commits, group
<1>. QED
  BY <1>2, <1>4, <1>5, <1>6, <1>7, <1>8, <1>9, <1>10, <1>11
     DEF Next, Consume, Commit, CommitSilently, CommitByWorker

\* What is true of the records, of Redis and, undisturbed, of the screens.
SettlingOK == ClientsOK /\ RecordsOK /\ FansOK /\ CalmOK

\* It is true before anything has changed.
LEMMA SettlingInit == Init => SettlingOK
<1>. SUFFICES ASSUME Init PROVE SettlingOK
  OBVIOUS
<1>1. /\ changes = 0 /\ topic = <<>> /\ owner = NoInstance
      /\ publication = [k \in Messages |-> "none"]
      /\ fan = [i \in Instances |-> <<>>]
  BY DEF Init
<1>2. \A k \in Messages : k \in Nat /\ ~(k <= 0)
  BY HubAssumption
<1>3. RecordsOK
  BY <1>1 DEF RecordsOK
<1>4. FansOK
  BY <1>1 DEF FansOK
<1>5. CalmOK
  BY <1>1, <1>2, FeedAssumption DEF CalmOK, OrderOK, ReadOK, ScreensOK
<1>. QED
  BY <1>3, <1>4, <1>5, ClientsOKInit DEF SettlingOK

\* It is true after every step.
LEMMA SettlingStep ==
  ASSUME FeedOK, SettlingOK, [Next]_vars
  PROVE  SettlingOK'
<1>1. ASSUME Next PROVE SettlingOK'
  <2>1. ClientsOK' /\ RecordsOK' /\ FansOK'
    BY <1>1, NextKeepsClientsOK, RecordsStep, FansStep DEF SettlingOK
  <2>2. ASSUME ~disturbed' PROVE OrderOK' /\ ReadOK' /\ ScreensOK'
    <3>1. OrderOK /\ ReadOK /\ ScreensOK
      BY <1>1, <2>2, StillCalm DEF SettlingOK, CalmOK
    <3>. QED
      BY <1>1, <2>2, <3>1, OrderStep, ReadStep, ScreensStep DEF SettlingOK
  <2>. QED
    BY <2>1, <2>2 DEF SettlingOK, CalmOK
<1>2. CASE UNCHANGED vars
  <2>. USE <1>2 DEF vars, hubVars, feedVars, pumps, hub, commits, group, consumer, history, dealing
  <2>1. ClientsOK'
    BY ClientsUntouched DEF SettlingOK
  <2>2. RecordsOK' /\ FansOK'
    BY DEF SettlingOK, RecordsOK, FansOK
  <2>3. (OrderOK => OrderOK') /\ (ReadOK => ReadOK')
    BY DEF OrderOK, ReadOK
  <2>4. ScreensOK => ScreensOK'
    BY DEF ScreensOK, LastRecord, ScreenOK, Reached, Strayed, Watching, Listening, EndsWithLast
  <2>. QED
    BY <2>1, <2>2, <2>3, <2>4 DEF SettlingOK, CalmOK
<1>. QED
  BY <1>1, <1>2

\* Once nothing is under way, the record of the last change has come to every
\* process, so it is on every screen.
LEMMA QuietScreens ==
  ASSUME FeedOK, SettlingOK
  PROVE  ScreensSettle
<1>a. changes \in Nat /\ \A d \in Clients : since[d] \in Nat
  <2>1. Messages \cup {0} \subseteq Nat
    BY HubAssumption
  <2>2. changes \in Messages \cup {0} /\ since \in [Clients -> Messages \cup {0}]
    BY DEF FeedOK, TypeOK
  <2>. QED
    BY <2>1, <2>2
<1>. SUFFICES ASSUME Quiet, ~disturbed, NEW c \in Listening, conn[c] = "open",
                     writer[c] = "writing", send[c] = <<>>, since[c] < changes
              PROVE  screen[c] = changes
  BY DEF ScreensSettle
<1>0. /\ c \in Clients /\ InstanceOf[c] \in Instances
      /\ changes \in Messages \cup {0} /\ since[c] \in Messages \cup {0}
      /\ topic \in Seq(Messages \cup {Invalid}) /\ latest \in Nat /\ position = Len(topic)
      /\ owner \in Instances
  BY HubAssumption DEF Quiet, Listening, FeedOK, TypeOK, HubTypeOK
<1>1. changes \in Messages /\ changes # 0 /\ changes <= changes
  BY <1>a, <1>0
<1>2. publication[changes] = "sent"
  BY <1>1 DEF SettlingOK, CalmOK, OrderOK, Quiet
<1>3. PICK n \in DOMAIN topic : topic[n] = changes
  BY <1>1, <1>2 DEF SettlingOK, RecordsOK
<1>4. LastRecord(n)
  BY <1>1, <1>3 DEF LastRecord, Invalid
<1>5. latest >= n
  <2>1. n \notin latest + 1 .. position
    BY <1>0, <1>4 DEF SettlingOK, CalmOK, ReadOK, Quiet, LastRecord
  <2>. QED
    BY <1>0, <1>3, <2>1
<1>6. Reached(InstanceOf[c], n)
  BY <1>0, <1>5 DEF Reached, Quiet
<1>7. EndsWithLast(c)
  BY <1>0, <1>4, <1>6 DEF SettlingOK, CalmOK, ScreensOK, ScreenOK, Watching
<1>. QED
  BY <1>0, <1>7 DEF EndsWithLast, Quiet

\* "WebSocket server broadcasts seat status changes to all connected clients":
\* the screens of all processes settle on the last change, however consumers
\* die, are rebalanced and handle records again, for any number of processes,
\* clients, changes and faults.
THEOREM ScreensSettleOnLast == Spec => []ScreensSettle
<1>1. Spec => []SettlingOK
  <2>1. SettlingOK /\ FeedOK /\ [Next]_vars => SettlingOK'
    BY SettlingStep
  <2>. QED
    BY <2>1, SettlingInit, FeedHolds, PTL DEF Spec
<1>2. FeedOK /\ SettlingOK => ScreensSettle
  BY QuietScreens
<1>. QED
  BY <1>1, <1>2, FeedHolds, PTL
==============================================================================
