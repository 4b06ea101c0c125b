-------------------------------- MODULE Hub ---------------------------------
(***************************************************************************)
(* The WebSocket hub of internal/websocket/hub.go: in every server process *)
(* one goroutine (Run) that serves the Register, Unregister and Broadcast  *)
(* channels, and for each client a goroutine that reads its connection     *)
(* and one that writes to it.  All clients ask for the seats of one event. *)
(* A message is a number; what it says is the matter of the module that    *)
(* broadcasts it.                                                          *)
(***************************************************************************)
EXTENDS Naturals, Sequences, FiniteSets

CONSTANTS Instances,     \* server processes
          Clients,       \* browsers, each connects once
          InstanceOf,    \* the process that a client connects to
          Messages,      \* numbers of messages
          QueueSize,     \* broadcastQueueSize
          RegisterSize,  \* registerQueueSize and unregisterQueueSize
          BufferSize     \* clientSendBufferSize

ASSUME HubAssumption ==
  /\ IsFiniteSet(Clients)
  /\ InstanceOf \in [Clients -> Instances]
  /\ Messages \subseteq Nat \ {0}
  /\ {QueueSize, RegisterSize, BufferSize} \subseteq Nat \ {0}

VARIABLES conn,        \* conn[c]: the connection of client c
          reader,      \* reader[c]: where readPump is
          writer,      \* writer[c]: where writePump is
          subscribed,  \* clients whose EventIDs hold the event
          broadcast,   \* broadcast[i]: the Broadcast channel
          joining,     \* clients in a Register channel
          leaving,     \* clients in an Unregister channel
          clients,     \* clients in Hub.Clients
          send,        \* send[c]: the Send channel of c
          sendClosed,  \* clients whose Send channel is closed
          screen,      \* screen[c]: the message client c has seen last
          overtaken    \* clients whose Unregister was served before Register

pumps == <<conn, reader, writer, subscribed, screen>>
hub == <<joining, leaving, clients, sendClosed, overtaken>>
hubVars == <<pumps, broadcast, hub, send>>

HubTypeOK ==
  /\ conn \in [Clients -> {"new", "open", "closed"}]
  /\ reader \in [Clients -> {"none", "reading", "leaving", "done"}]
  /\ writer \in [Clients -> {"none", "writing", "done"}]
  /\ subscribed \subseteq Clients
  /\ broadcast \in [Instances -> Seq(Messages)]
  /\ joining \subseteq Clients
  /\ leaving \subseteq Clients
  /\ clients \subseteq Clients
  /\ send \in [Clients -> Seq(Messages)]
  /\ sendClosed \subseteq Clients
  /\ screen \in [Clients -> Messages \cup {0}]
  /\ overtaken \subseteq Clients

\* Some clients are registered and subscribed, some have yet to come, and
\* others will not come any more.
InitHub(early, late) ==
  /\ conn = [c \in Clients |-> CASE c \in early -> "open"
                               [] c \in late \ early -> "new"
                               [] OTHER -> "closed"]
  /\ reader = [c \in Clients |-> CASE c \in early -> "reading"
                                 [] c \in late \ early -> "none"
                                 [] OTHER -> "done"]
  /\ writer = [c \in Clients |-> CASE c \in early -> "writing"
                                 [] c \in late \ early -> "none"
                                 [] OTHER -> "done"]
  /\ subscribed = early
  /\ broadcast = [i \in Instances |-> <<>>]
  /\ joining = {}
  /\ leaving = {}
  /\ clients = early
  /\ send = [c \in Clients |-> <<>>]
  /\ sendClosed = {}
  /\ screen = [c \in Clients |-> 0]
  /\ overtaken = {}

\* The clients of the same process that are in a channel with c.
Beside(c, channel) == {d \in channel : InstanceOf[d] = InstanceOf[c]}

HasRoom(c, channel) == Cardinality(Beside(c, channel)) < RegisterSize

\* broadcastLocal: a message that finds the channel full is dropped.
BroadcastLocal(i, m) ==
  IF Len(broadcast[i]) < QueueSize THEN Append(broadcast[i], m) ELSE broadcast[i]

------------------------------------------------------------------------------
(* The client and its two goroutines.                                      *)

\* HandleClient: the client is sent on Register, which waits for room, and
\* its goroutines start.
HandleClient(c) ==
  /\ conn[c] = "new"
  /\ HasRoom(c, joining)
  /\ conn' = [conn EXCEPT ![c] = "open"]
  /\ reader' = [reader EXCEPT ![c] = "reading"]
  /\ writer' = [writer EXCEPT ![c] = "writing"]
  /\ joining' = joining \cup {c}
  /\ UNCHANGED <<subscribed, screen, broadcast, leaving, clients, send,
                 sendClosed, overtaken>>

\* readPump has read a subscribe message.
Subscribe(c) ==
  /\ conn[c] = "open" /\ reader[c] = "reading"
  /\ c \notin subscribed
  /\ subscribed' = subscribed \cup {c}
  /\ UNCHANGED <<conn, reader, writer, screen, broadcast, hub, send>>

\* The browser or the network closes the connection.
Disconnect(c) ==
  /\ conn[c] = "open"
  /\ conn' = [conn EXCEPT ![c] = "closed"]
  /\ UNCHANGED <<reader, writer, subscribed, screen, broadcast, hub, send>>

\* ReadMessage returns an error and readPump leaves its loop.
ReadFails(c) ==
  /\ conn[c] = "closed" /\ reader[c] = "reading"
  /\ reader' = [reader EXCEPT ![c] = "leaving"]
  /\ UNCHANGED <<conn, writer, subscribed, screen, broadcast, hub, send>>

\* Faulty: readPump ends without a word.
UnregisterForgotten(c) ==
  /\ reader[c] = "leaving"
  /\ reader' = [reader EXCEPT ![c] = "done"]
  /\ UNCHANGED <<conn, writer, subscribed, screen, broadcast, hub, send>>

\* The deferred send on Unregister, which waits for room.
Unregister(c) ==
  /\ reader[c] = "leaving"
  /\ HasRoom(c, leaving)
  /\ leaving' = leaving \cup {c}
  /\ reader' = [reader EXCEPT ![c] = "done"]
  /\ UNCHANGED <<conn, writer, subscribed, screen, broadcast, joining, clients,
                 send, sendClosed, overtaken>>

\* writePump writes the next message, or fails to and closes the connection.
WriteMessage(c) ==
  /\ writer[c] = "writing" /\ send[c] # <<>>
  /\ send' = [send EXCEPT ![c] = Tail(@)]
  /\ IF conn[c] = "open"
     THEN screen' = [screen EXCEPT ![c] = Head(send[c])] /\ UNCHANGED writer
     ELSE writer' = [writer EXCEPT ![c] = "done"] /\ UNCHANGED screen
  /\ UNCHANGED <<conn, reader, subscribed, broadcast, hub>>

\* The Send channel is closed and empty: writePump closes the connection.
CloseConnection(c) ==
  /\ writer[c] = "writing" /\ send[c] = <<>> /\ c \in sendClosed
  /\ writer' = [writer EXCEPT ![c] = "done"]
  /\ conn' = [conn EXCEPT ![c] = "closed"]
  /\ UNCHANGED <<reader, subscribed, screen, broadcast, hub, send>>

------------------------------------------------------------------------------
(* Run: one message of one of the channels at a time, in no fixed order.   *)
(* Clients in one channel do not affect each other, so a channel of        *)
(* clients is a set.                                                       *)

RunRegister(c) ==
  /\ c \in joining
  /\ joining' = joining \ {c}
  /\ clients' = clients \cup {c}
  /\ UNCHANGED <<pumps, broadcast, leaving, send, sendClosed, overtaken>>

\* Faulty: the Send channel is closed, the client stays.
RemoveClientLate(c) ==
  IF c \in clients THEN sendClosed' = sendClosed \cup {c} /\ UNCHANGED clients
  ELSE UNCHANGED <<clients, sendClosed>>

\* removeClient: a client that is not registered is left alone.
RemoveClient(c) ==
  IF c \in clients
  THEN clients' = clients \ {c} /\ sendClosed' = sendClosed \cup {c}
  ELSE UNCHANGED <<clients, sendClosed>>

RunUnregister(c) ==
  /\ c \in leaving
  /\ leaving' = leaving \ {c}
  /\ RemoveClient(c)
  /\ overtaken' = IF c \in joining THEN overtaken \cup {c} ELSE overtaken
  /\ UNCHANGED <<pumps, broadcast, joining, send>>

Recipients(i) == {c \in clients \cap subscribed : InstanceOf[c] = i}

\* deliverToClients: each recipient gets the message or, when its buffer is
\* full, is dropped.  Only Run changes Clients and closes Send channels, so
\* nothing happens to the recipients between the snapshot and the sends but
\* that their buffers drain.
RunBroadcast(i) ==
  LET m == Head(broadcast[i])
      stale == {c \in Recipients(i) : Len(send[c]) >= BufferSize}
  IN  /\ broadcast[i] # <<>>
      /\ broadcast' = [broadcast EXCEPT ![i] = Tail(@)]
      /\ send' = [c \in Clients |->
                    IF c \in Recipients(i) \ stale THEN Append(send[c], m)
                    ELSE send[c]]
      /\ clients' = clients \ stale
      /\ sendClosed' = sendClosed \cup stale
      /\ UNCHANGED <<pumps, joining, leaving, overtaken>>

\* The process dies: its connections break and its memory is gone.
HubDies(i) ==
  LET gone == {c \in Clients : InstanceOf[c] = i /\ conn[c] # "new"}
  IN  /\ conn' = [c \in Clients |-> IF c \in gone THEN "closed" ELSE conn[c]]
      /\ reader' = [c \in Clients |-> IF c \in gone THEN "done" ELSE reader[c]]
      /\ writer' = [c \in Clients |-> IF c \in gone THEN "done" ELSE writer[c]]
      /\ broadcast' = [broadcast EXCEPT ![i] = <<>>]
      /\ joining' = joining \ gone
      /\ leaving' = leaving \ gone
      /\ clients' = clients \ gone
      /\ send' = [c \in Clients |-> IF c \in gone THEN <<>> ELSE send[c]]
      /\ UNCHANGED <<subscribed, screen, sendClosed, overtaken>>

------------------------------------------------------------------------------
Pump(c) == ReadFails(c) \/ Unregister(c) \/ CloseConnection(c)

Serve(c) == RunRegister(c) \/ RunUnregister(c)

HubNext ==
  \/ \E c \in Clients :
       HandleClient(c) \/ Subscribe(c) \/ WriteMessage(c) \/ Pump(c)
         \/ Serve(c)
  \/ \E i \in Instances : RunBroadcast(i)

\* The goroutines go on.  Nothing makes a connected client read: a write to
\* it may wait for ever.
HubFairness ==
  /\ \A c \in Clients :
       /\ WF_hubVars(ReadFails(c)) /\ WF_hubVars(Unregister(c))
       /\ WF_hubVars(CloseConnection(c))
       /\ WF_hubVars(RunRegister(c)) /\ WF_hubVars(RunUnregister(c))
  /\ \A i \in Instances : WF_hubVars(RunBroadcast(i))

------------------------------------------------------------------------------
(* Correctness properties.                                                 *)

\* A send on a closed channel, or a second close of it, would panic and take
\* the process down: Run sends to and closes the channels of registered
\* clients only, and those are open, whether a client leaves, is too slow,
\* or leaves while it is being dropped.
RegisteredIsOpen == clients \cap sendClosed = {}

\* A client whose connection is gone leaves the hub for good, so that it is
\* never again sent anything; unless its Unregister was served before its
\* Register, as select may choose.
GoneClientsLeave ==
  \A c \in Clients :
    conn[c] = "closed" ~> (c \notin clients \cup joining \/ c \in overtaken)
==============================================================================
