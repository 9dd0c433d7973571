------------------------------- MODULE EventBus ------------------------------
(***************************************************************************)
(* How news reaches the operator: the bus of each process (stream/bus.py),  *)
(* Redis between the processes, the web socket (api/ws.py) and the page     *)
(* behind it, which reads the state again over REST whenever a message of   *)
(* "system" arrives (frontend useSystemState.ts).                           *)
(*                                                                         *)
(* A publication reaches the queues of its own process at once and Redis    *)
(* after an await, in which every other task may run.  A state row is       *)
(* published after its commit, by whichever task wrote it; the messages of  *)
(* a stream of the broker are published by one task, one after the other.   *)
(***************************************************************************)
EXTENDS Naturals, Sequences

CONSTANTS
  Instances,   \* processes, each with a bus of its own
  Clients,     \* pages of operators
  Home,        \* the process each client is connected to
  Ingests,     \* the process that reads the streams of the broker
  Buffer,      \* tick_buffer
  MaxChanges,  \* bound: state rows
  MaxUpdates,  \* bound: messages of the two streams
  MaxConnects, \* bound: connections
  MaxFaults    \* bound: failures of Redis

ASSUME BusAssumption ==
  /\ Home \in [Clients -> Instances]
  /\ Ingests \in Instances
  /\ Buffer \in Nat \ {0}
  /\ {MaxChanges, MaxUpdates, MaxConnects, MaxFaults} \subseteq Nat

VARIABLES
  row,      \* the newest state row in the database
  pending,  \* publications of state rows: committed, or waiting for Redis
  wire,     \* what Redis has for the bridge of each process
  bridge,   \* is the bridge of each process alive?
  clients,  \* connection and queues of each client, and what its page shows
  streams,  \* the message each stream of the broker is publishing
  offered,  \* history: what was offered to each client since it subscribed
  last,     \* history: what it received last
  left      \* what remains of the bounds

vars == <<row, pending, wire, bridge, clients, streams, offered, last, left>>

Channels == {"orders", "ticks"}

Numbers == 0..(IF MaxChanges > MaxUpdates THEN MaxChanges ELSE MaxUpdates)

Message == [channel : {"system", "orders", "ticks"}, from : Instances, number : Numbers]

Class(message) == IF message.channel = "orders" THEN "ordered" ELSE message.channel

NoQueues == [system |-> <<>>, ordered |-> <<>>, ticks |-> <<>>]

Init ==
  /\ row = 0
  /\ pending = {}
  /\ wire = [i \in Instances |-> <<>>]
  /\ bridge = [i \in Instances |-> TRUE]
  /\ clients = [c \in Clients |-> [pc |-> "off", queues |-> NoQueues, dirty |-> FALSE, shows |-> 0]]
  /\ streams = [l \in Channels |-> <<>>]
  /\ offered = [c \in Clients |-> NoQueues]
  /\ last = [c \in Clients |-> <<>>]
  /\ left = [updates |-> MaxUpdates, connects |-> MaxConnects, faults |-> MaxFaults]

Fault == left.faults > 0 /\ left' = [left EXCEPT !.faults = @ - 1]

-----------------------------------------------------------------------------
(* The bus of a process.                                                   *)

Subscribers(i) == {c \in Clients : Home[c] = i /\ clients[c].pc # "off"}

\* Subscriber.offer: two queues without a bound, and a bounded one for ticks.
Queued(queues, message) ==
  CASE Class(message) = "system"  -> [queues EXCEPT !.system = Append(@, message)]
    [] Class(message) = "ordered" -> [queues EXCEPT !.ordered = Append(@, message)]
    [] Class(message) = "ticks"   -> [queues EXCEPT !.ticks =
                                        Append(IF Len(@) = Buffer THEN Tail(@) ELSE @, message)]

\* EventBus.deliver: to every subscriber of the process, without an await.
Deliver(i, message) ==
  /\ clients' = [c \in Clients |->
       IF c \in Subscribers(i) THEN [clients[c] EXCEPT !.queues = Queued(@, message)] ELSE clients[c]]
  /\ offered' = [c \in Clients |->
       IF c \in Subscribers(i) THEN [offered[c] EXCEPT ![Class(message)] = Append(@, message)]
       ELSE offered[c]]

\* Fault: the comparison with the own process is turned round.
ToRedisOwn(message) ==
  wire' = [i \in Instances |->
             IF i = message.from /\ bridge[i] THEN Append(wire[i], message) ELSE wire[i]]

\* Redis hands a message to the bridges that listen; its own process ignores it.
ToRedis(message) ==
  wire' = [i \in Instances |->
             IF i # message.from /\ bridge[i] THEN Append(wire[i], message) ELSE wire[i]]

\* EventBus.bridge: what another process published is delivered here.
Bridge(i) ==
  /\ bridge[i] /\ wire[i] # <<>>
  /\ Deliver(i, Head(wire[i]))
  /\ wire' = [wire EXCEPT ![i] = Tail(@)]
  /\ UNCHANGED <<row, pending, bridge, streams, last, left>>

\* An error of Redis ends the task, and nothing starts it again.
BridgeDies(i) ==
  /\ Fault
  /\ bridge[i]
  /\ bridge' = [bridge EXCEPT ![i] = FALSE]
  /\ wire' = [wire EXCEPT ![i] = <<>>]
  /\ UNCHANGED <<row, pending, clients, streams, offered, last>>

-----------------------------------------------------------------------------
(* A state row and its publication.                                        *)

Commit(i) ==
  /\ row < MaxChanges
  /\ row' = row + 1
  /\ pending' = pending \cup {[pc |-> "publish", from |-> i, number |-> row + 1]}
  /\ UNCHANGED <<wire, bridge, clients, streams, offered, last, left>>

StateMessage(p) == [channel |-> "system", from |-> p.from, number |-> p.number]

Publish(p) ==
  /\ p.pc = "publish"
  /\ Deliver(p.from, StateMessage(p))
  /\ pending' = (pending \ {p}) \cup {[p EXCEPT !.pc = "redis"]}
  /\ UNCHANGED <<row, wire, bridge, streams, last, left>>

PublishRedis(p) ==
  /\ p.pc = "redis"
  /\ ToRedis(StateMessage(p))
  /\ pending' = pending \ {p}
  /\ UNCHANGED <<row, bridge, clients, streams, offered, last, left>>

PublishRedisFails(p) ==
  /\ Fault
  /\ p.pc = "redis"
  /\ pending' = pending \ {p}
  /\ UNCHANGED <<row, wire, bridge, clients, streams, offered, last>>

-----------------------------------------------------------------------------
(* The web socket and the page.                                            *)

Connect(c) ==
  /\ clients[c].pc = "off" /\ left.connects > 0
  /\ left' = [left EXCEPT !.connects = @ - 1]
  /\ clients' = [clients EXCEPT ![c].pc = "subscribed", ![c].queues = NoQueues]
  /\ offered' = [offered EXCEPT ![c] = NoQueues]
  /\ UNCHANGED <<row, pending, wire, bridge, streams, last>>

\* The snapshot is a message of "system", too: the page reads the state again.
Snapshot(c) ==
  /\ clients[c].pc = "subscribed"
  /\ clients' = [clients EXCEPT ![c].pc = "open", ![c].dirty = TRUE]
  /\ UNCHANGED <<row, pending, wire, bridge, streams, offered, last, left>>

\* Fault: the ordered messages come first.
NextClassOrdered(queues) ==
  IF queues.ordered # <<>> THEN "ordered" ELSE IF queues.system # <<>> THEN "system" ELSE "ticks"

\* Subscriber.get: "system" first, then what is ordered, then ticks.
NextClass(queues) ==
  IF queues.system # <<>> THEN "system" ELSE IF queues.ordered # <<>> THEN "ordered" ELSE "ticks"

Pump(c) ==
  LET queues == clients[c].queues
      class  == NextClass(queues)
  IN
  /\ clients[c].pc = "open" /\ queues # NoQueues
  /\ clients' = [clients EXCEPT ![c].queues[class] = Tail(@),
                                ![c].dirty = @ \/ class = "system"]
  /\ last' = [last EXCEPT ![c] = Head(queues[class])]
  /\ UNCHANGED <<row, pending, wire, bridge, streams, offered, left>>

\* The query is invalid, or its interval is over; a read under way is cancelled
\* by the next invalidation, so that a read is one step.
Refetch(c) ==
  /\ clients[c].dirty \/ clients[c].shows # row
  /\ clients' = [clients EXCEPT ![c].dirty = FALSE, ![c].shows = row]
  /\ UNCHANGED <<row, pending, wire, bridge, streams, offered, last, left>>

Disconnect(c) ==
  /\ clients[c].pc # "off"
  /\ clients' = [clients EXCEPT ![c].pc = "off", ![c].queues = NoQueues]
  /\ offered' = [offered EXCEPT ![c] = NoQueues]
  /\ UNCHANGED <<row, pending, wire, bridge, streams, last, left>>

-----------------------------------------------------------------------------
(* The streams of the broker.                                              *)

StreamMessage(l) ==
  LET message == [channel |-> l, from |-> Ingests, number |-> left.updates] IN
  /\ streams[l] = <<>> /\ left.updates > 0
  /\ left' = [left EXCEPT !.updates = @ - 1]
  /\ Deliver(Ingests, message)
  /\ streams' = [streams EXCEPT ![l] = message]
  /\ UNCHANGED <<row, pending, wire, bridge, last>>

StreamRedis(l) ==
  /\ streams[l] # <<>>
  /\ ToRedis(streams[l])
  /\ streams' = [streams EXCEPT ![l] = <<>>]
  /\ UNCHANGED <<row, pending, bridge, clients, offered, last, left>>

StreamRedisFails(l) ==
  /\ Fault
  /\ streams[l] # <<>>
  /\ streams' = [streams EXCEPT ![l] = <<>>]
  /\ UNCHANGED <<row, pending, wire, bridge, clients, offered, last>>

-----------------------------------------------------------------------------

Next ==
  \/ \E i \in Instances : Commit(i) \/ Bridge(i) \/ BridgeDies(i)
  \/ \E p \in pending : Publish(p) \/ PublishRedis(p) \/ PublishRedisFails(p)
  \/ \E c \in Clients : Connect(c) \/ Snapshot(c) \/ Pump(c) \/ Refetch(c) \/ Disconnect(c)
  \/ \E l \in Channels : StreamMessage(l) \/ StreamRedis(l) \/ StreamRedisFails(l)

Spec == Init /\ [][Next]_vars

-----------------------------------------------------------------------------

\* The queues keep what the bus promises (bus.py:3-12, 80-125): every connection
\* is a feed.
Promise == INSTANCE Feed WITH
  Messages <- Message,
  gone <- [c \in Clients |-> [k \in {"system", "ordered", "ticks"} |->
             Len(offered[c][k]) - Len(clients[c].queues[k])]]

PromiseKept == Promise!Spec

\* When nothing is on its way, an open page shows the newest state row, whichever
\* process wrote it and however its publication was overtaken (bus.py:180-206,
\* ws.py:43-47, useSystemState.ts:57-60), provided that Redis did not fail.
QuietPageIsRight ==
  \A c \in Clients :
    /\ clients[c].pc = "open" /\ ~ clients[c].dirty
    /\ clients[c].queues.system = <<>>
    /\ pending = {}
    /\ \A i \in Instances : wire[i] = <<>>
    /\ left.faults = MaxFaults
    => clients[c].shows = row

=============================================================================
