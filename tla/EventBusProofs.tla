---------------------------- MODULE EventBusProofs ---------------------------
(***************************************************************************)
(* Proofs about EventBus: what waits in a queue is the end of what was      *)
(* offered to its connection, from which it follows that the bus            *)
(* implements Feed.  At the end, a proof about the streams of the broker    *)
(* whose news the bus carries.                                              *)
(***************************************************************************)
EXTENDS EventBus, Streams, TLAPS

Classes == {"system", "ordered", "ticks"}

Queue(c, class) == clients[c].queues[class]

\* What waits is the end of what was offered.
EndOf(queue, all) ==
  /\ Len(queue) <= Len(all)
  /\ \A j \in 1..Len(queue) : queue[j] = all[Len(all) - Len(queue) + j]

Client == [pc : {"off", "subscribed", "open"}, queues : [Classes -> Seq(Message)],
           dirty : BOOLEAN, shows : Nat]

MessagesTyped ==
  /\ row \in 0..MaxChanges
  /\ pending \subseteq [pc : {"publish", "redis"}, from : Instances, number : Numbers]
  /\ wire \in [Instances -> Seq(Message)]
  /\ streams \in [Channels -> {<<>>} \cup Message]
  /\ left \in [updates : 0..MaxUpdates, connects : Nat, faults : 0..MaxFaults]

QueuesTyped ==
  /\ clients \in [Clients -> Client]
  /\ offered \in [Clients -> [Classes -> Seq(Message)]]
  /\ last \in [Clients -> {<<>>} \cup Message]

QueuesEnd ==
  \A c \in Clients :
    /\ \A class \in Classes : EndOf(Queue(c, class), offered[c][class])
    /\ Len(Queue(c, "ticks")) <= Buffer

BusInv == MessagesTyped /\ QueuesTyped /\ QueuesEnd

-----------------------------------------------------------------------------
(* Sequences.                                                              *)

LEMMA EndAppend ==
  ASSUME NEW S, NEW queue \in Seq(S), NEW all \in Seq(S), NEW x \in S, EndOf(queue, all)
  PROVE  EndOf(Append(queue, x), Append(all, x))
<1> DEFINE longer == Append(queue, x)
           whole  == Append(all, x)
<1>1. /\ Len(longer) = Len(queue) + 1 /\ Len(whole) = Len(all) + 1
      /\ Len(queue) \in Nat /\ Len(all) \in Nat
  OBVIOUS
<1>2. Len(longer) <= Len(whole) /\ Len(whole) - Len(longer) = Len(all) - Len(queue)
  BY <1>1 DEF EndOf
<1>3. ASSUME NEW j \in 1..Len(longer)
      PROVE  longer[j] = whole[Len(whole) - Len(longer) + j]
  <2>1. CASE j = Len(queue) + 1
    BY <1>1, <1>2, <2>1 DEF EndOf
  <2>2. CASE j \in 1..Len(queue)
    BY <1>1, <1>2, <2>2 DEF EndOf
  <2>3. j = Len(queue) + 1 \/ j \in 1..Len(queue)
    <3> HIDE DEF longer
    <3> QED
      BY <1>1
  <2> QED
    BY <2>1, <2>2, <2>3, Zenon
<1> HIDE DEF longer, whole
<1>4. EndOf(longer, whole)
  BY <1>2, <1>3 DEF EndOf
<1> QED
  BY <1>4 DEF longer, whole

LEMMA EndTail ==
  ASSUME NEW S, NEW queue \in Seq(S), NEW all \in Seq(S), EndOf(queue, all), queue # <<>>
  PROVE  /\ EndOf(Tail(queue), all)
         /\ Tail(queue) \in Seq(S) /\ Len(Tail(queue)) = Len(queue) - 1
         /\ Len(queue) > 0
         /\ Head(queue) \in S /\ Head(queue) = all[Len(all) - Len(queue) + 1]
<1>1. Tail(queue) \in Seq(S) /\ Len(Tail(queue)) = Len(queue) - 1 /\ Len(queue) > 0
  OBVIOUS
<1>2. Head(queue) = queue[1] /\ Head(queue) \in S
  OBVIOUS
<1>3. \A j \in 1..Len(Tail(queue)) : Tail(queue)[j] = queue[j + 1]
  OBVIOUS
<1>4. EndOf(Tail(queue), all)
  BY <1>1, <1>3 DEF EndOf
<1> QED
  BY <1>1, <1>2, <1>4 DEF EndOf

LEMMA EndEmpty ==
  ASSUME NEW all \in {<<>>}
  PROVE  EndOf(<<>>, all) /\ Len(<<>>) = 0
BY DEF EndOf

LEMMA Empty == /\ NoQueues = [class \in Classes |-> <<>>]
               /\ NoQueues \in [Classes -> Seq(Message)]
               /\ \A class \in Classes : NoQueues[class] = <<>>
<1>1. NoQueues = [class \in Classes |-> <<>>]
  BY DEF NoQueues, Classes
<1>2. <<>> \in Seq(Message)
  OBVIOUS
<1> QED
  BY <1>1, <1>2

-----------------------------------------------------------------------------
(* One message.                                                            *)

\* What a queue is after a message of a class was offered.
Longer(queues, class, message) ==
  Append(IF class = "ticks" /\ Len(queues["ticks"]) = Buffer THEN Tail(queues["ticks"])
         ELSE queues[class], message)

LEMMA QueuedIs ==
  ASSUME NEW queues \in [Classes -> Seq(Message)], NEW message \in Message
  PROVE  /\ Class(message) \in Classes
         /\ Queued(queues, message) =
              [queues EXCEPT ![Class(message)] = Longer(queues, Class(message), message)]
<1>1. message.channel \in {"system", "orders", "ticks"}
  BY DEF Message
<1>2. Class(message) \in Classes
  BY <1>1 DEF Class, Classes
<1>3. CASE Class(message) = "system"
  <2>1. Queued(queues, message) = [queues EXCEPT !["system"] =
          Append(queues["system"], message)]
    BY <1>3 DEF Queued
  <2>2. Longer(queues, "system", message) =
          Append(queues["system"], message)
    BY DEF Longer
  <2> QED
    BY <1>2, <1>3, <2>1, <2>2, Zenon
<1>4. CASE Class(message) = "ordered"
  <2>1. Queued(queues, message) = [queues EXCEPT !["ordered"] =
          Append(queues["ordered"], message)]
    BY <1>4 DEF Queued
  <2>2. Longer(queues, "ordered", message) =
          Append(queues["ordered"], message)
    BY DEF Longer
  <2> QED
    BY <1>2, <1>4, <2>1, <2>2, Zenon
<1>5. CASE Class(message) = "ticks"
  <2>1. Queued(queues, message) = [queues EXCEPT !["ticks"] =
          Append(IF Len(queues["ticks"]) = Buffer THEN Tail(queues["ticks"]) ELSE queues["ticks"], message)]
    BY <1>5 DEF Queued
  <2>2. Longer(queues, "ticks", message) =
          Append(IF Len(queues["ticks"]) = Buffer THEN Tail(queues["ticks"]) ELSE queues["ticks"], message)
    BY DEF Longer
  <2> QED
    BY <1>2, <1>5, <2>1, <2>2, Zenon
<1> QED
  BY <1>2, <1>3, <1>4, <1>5 DEF Classes

LEMMA LongerIs ==
  ASSUME NEW queues \in [Classes -> Seq(Message)], NEW all \in Seq(Message),
         NEW class \in Classes, NEW message \in Message,
         EndOf(queues[class], all), Len(queues["ticks"]) <= Buffer
  PROVE  LET dropped == class = "ticks" /\ Len(queues["ticks"]) = Buffer IN
         /\ Longer(queues, class, message) \in Seq(Message)
         /\ EndOf(Longer(queues, class, message), Append(all, message))
         /\ Len(Longer(queues, class, message))
              = IF dropped THEN Len(queues[class]) ELSE Len(queues[class]) + 1
         /\ class = "ticks" => Len(Longer(queues, class, message)) <= Buffer
<1> DEFINE kept == IF class = "ticks" /\ Len(queues["ticks"]) = Buffer THEN Tail(queues["ticks"])
                   ELSE queues[class]
<1>1. queues[class] \in Seq(Message) /\ Len(queues[class]) \in Nat /\ Buffer \in Nat \ {0}
  BY BusAssumption
<1>2. CASE class = "ticks" /\ Len(queues["ticks"]) = Buffer
  <2>1. queues[class] # <<>>
    BY <1>1, <1>2
  <2>2. kept \in Seq(Message) /\ EndOf(kept, all) /\ Len(kept) = Len(queues[class]) - 1
    BY <1>1, <1>2, <2>1, EndTail
  <2>3. EndOf(Append(kept, message), Append(all, message)) /\ Append(kept, message) \in Seq(Message)
        /\ Len(Append(kept, message)) = Len(kept) + 1
    <3> HIDE DEF kept
    <3> QED
      BY <2>2, EndAppend
  <2> QED
    BY <1>1, <1>2, <2>2, <2>3 DEF Longer
<1>3. CASE ~ (class = "ticks" /\ Len(queues["ticks"]) = Buffer)
  <2>1. kept = queues[class]
    BY <1>3
  <2>2. EndOf(Append(kept, message), Append(all, message)) /\ Append(kept, message) \in Seq(Message)
        /\ Len(Append(kept, message)) = Len(kept) + 1
    BY <1>1, <2>1, EndAppend
  <2> QED
    BY <1>1, <1>3, <2>1, <2>2 DEF Longer
<1> QED
  BY <1>2, <1>3

LEMMA Waits ==
  ASSUME QueuesTyped, NEW c \in Clients, NEW class \in Classes
  PROVE  Promise!Waiting(c, class) = Len(Queue(c, class))
<1>1. Len(offered[c][class]) \in Nat /\ Len(Queue(c, class)) \in Nat
  BY DEF QueuesTyped, Client, Queue
<1>2. Promise!Waiting(c, class)
        = Len(offered[c][class]) - (Len(offered[c][class]) - Len(Queue(c, class)))
  BY DEF Promise!Waiting, Queue, Classes
<1> QED
  BY <1>1, <1>2

---------------------------------------------------------------------------------
(* The steps.                                                              *)

LEMMA ClassTyped ==
  ASSUME NEW message \in Message
  PROVE  Class(message) \in Classes
BY DEF Message, Class, Classes

\* What Deliver does to a client.
LEMMA DeliverIs ==
  ASSUME QueuesTyped, NEW i \in Instances, NEW message \in Message, Deliver(i, message),
         NEW c \in Clients
  PROVE  /\ c \in Subscribers(i) =>
              /\ clients'[c] = [clients[c] EXCEPT !.queues = [clients[c].queues EXCEPT
                   ![Class(message)] = Longer(clients[c].queues, Class(message), message)]]
              /\ offered'[c] = [offered[c] EXCEPT
                   ![Class(message)] = Append(offered[c][Class(message)], message)]
         /\ c \notin Subscribers(i) => clients'[c] = clients[c] /\ offered'[c] = offered[c]
<1>1. clients[c].queues \in [Classes -> Seq(Message)]
  BY DEF QueuesTyped, Client
<1>2. Queued(clients[c].queues, message) = [clients[c].queues EXCEPT
        ![Class(message)] = Longer(clients[c].queues, Class(message), message)]
  BY <1>1, QueuedIs
<1> QED
  BY <1>2 DEF Deliver

\* Each of its queues, whatever its class.
LEMMA DeliverQueue ==
  ASSUME QueuesTyped, QueuesEnd, NEW i \in Instances, NEW message \in Message,
         Deliver(i, message), NEW c \in Clients, NEW class \in Classes
  PROVE  /\ clients'[c] \in Client
         /\ offered'[c] \in [Classes -> Seq(Message)]
         /\ EndOf(Queue(c, class)', offered'[c][class])
         /\ Len(Queue(c, "ticks")') <= Buffer
         /\ Len(offered'[c][class]) - Len(Queue(c, class)') =
              IF c \in Subscribers(i) /\ class = Class(message)
                   /\ class = "ticks" /\ Len(Queue(c, "ticks")) = Buffer
              THEN Len(offered[c][class]) - Len(Queue(c, class)) + 1
              ELSE Len(offered[c][class]) - Len(Queue(c, class))
<1> DEFINE k == Class(message)
           queues == clients[c].queues
           longer == Longer(queues, k, message)
<1>1. /\ clients[c] \in Client /\ queues \in [Classes -> Seq(Message)]
      /\ offered[c] \in [Classes -> Seq(Message)] /\ k \in Classes /\ "ticks" \in Classes
  BY ClassTyped DEF QueuesTyped, Client, Classes
<1>2. /\ \A other \in Classes : EndOf(queues[other], offered[c][other])
      /\ Len(queues["ticks"]) <= Buffer
  BY DEF QueuesEnd, Queue
<1>3. CASE c \notin Subscribers(i)
  <2>1. clients'[c] = clients[c] /\ offered'[c] = offered[c]
    BY <1>3, DeliverIs
  <2> QED
    BY <1>1, <1>2, <1>3, <2>1 DEF Queue
<1>4. CASE c \in Subscribers(i)
  <2>1. /\ clients'[c] = [clients[c] EXCEPT !.queues = [queues EXCEPT ![k] = longer]]
        /\ offered'[c] = [offered[c] EXCEPT ![k] = Append(offered[c][k], message)]
    BY <1>4, DeliverIs
  <2>2. /\ longer \in Seq(Message) /\ EndOf(longer, Append(offered[c][k], message))
        /\ Len(longer) = IF k = "ticks" /\ Len(queues["ticks"]) = Buffer
                         THEN Len(queues[k]) ELSE Len(queues[k]) + 1
        /\ k = "ticks" => Len(longer) <= Buffer
    BY <1>1, <1>2, LongerIs
  <2>3. /\ Append(offered[c][k], message) \in Seq(Message)
        /\ Len(Append(offered[c][k], message)) = Len(offered[c][k]) + 1
    BY <1>1
  <2>4. /\ clients'[c].queues = [queues EXCEPT ![k] = longer]
        /\ clients'[c] \in Client
    <3> HIDE DEF longer, queues, k
    <3> QED
      BY <1>1, <2>1, <2>2 DEF Client
  <2>5. offered'[c] \in [Classes -> Seq(Message)]
    <3> HIDE DEF k
    <3> QED
      BY <1>1, <2>1, <2>3
  <2>6. Queue(c, class)' = IF class = k THEN longer ELSE queues[class]
    <3> HIDE DEF longer, queues, k
    <3> QED
      BY <1>1, <2>4 DEF Queue
  <2>7. Queue(c, "ticks")' = IF "ticks" = k THEN longer ELSE queues["ticks"]
    <3> HIDE DEF longer, queues, k
    <3> QED
      BY <1>1, <2>4 DEF Queue
  <2>8. offered'[c][class] = IF class = k THEN Append(offered[c][k], message) ELSE offered[c][class]
    <3> HIDE DEF k
    <3> QED
      BY <1>1, <2>1
  <2>9. EndOf(Queue(c, class)', offered'[c][class]) /\ Len(Queue(c, "ticks")') <= Buffer
    <3> HIDE DEF longer, queues, k
    <3> QED
      BY <1>2, <2>2, <2>6, <2>7, <2>8
  <2>10. Len(offered[c][class]) \in Nat /\ Len(queues[class]) \in Nat
    BY <1>1
  <2>11. Queue(c, class) = queues[class] /\ Queue(c, "ticks") = queues["ticks"]
    BY DEF Queue
  <2>12. CASE class = k
    <3>1. Queue(c, class)' = longer /\ offered'[c][class] = Append(offered[c][k], message)
      BY <2>6, <2>8, <2>12, Zenon
    <3>2. /\ Len(offered'[c][class]) = Len(offered[c][class]) + 1
          /\ Len(Queue(c, class)') = IF class = "ticks" /\ Len(queues["ticks"]) = Buffer
                                     THEN Len(queues[class]) ELSE Len(queues[class]) + 1
      <4> HIDE DEF longer, queues, k
      <4> QED
        BY <2>2, <2>3, <2>12, <3>1
    <3>3. Len(offered'[c][class]) - Len(Queue(c, class)') =
              IF class = "ticks" /\ Len(queues["ticks"]) = Buffer
              THEN Len(offered[c][class]) - Len(queues[class]) + 1
              ELSE Len(offered[c][class]) - Len(queues[class])
      <4> HIDE DEF longer, queues, k
      <4>2. CASE class = "ticks" /\ Len(queues["ticks"]) = Buffer
        BY <2>10, <3>2, <4>2
      <4>3. CASE ~ (class = "ticks" /\ Len(queues["ticks"]) = Buffer)
        <5>1. Len(Queue(c, class)') = Len(queues[class]) + 1
          BY <3>2, <4>3, Zenon
        <5>2. Len(offered'[c][class]) - Len(Queue(c, class)') = Len(offered[c][class]) - Len(queues[class])
          <6> DEFINE a  == Len(offered[c][class])
                     b  == Len(queues[class])
                     aa == Len(offered'[c][class])
                     bb == Len(Queue(c, class)')
          <6>1. a \in Nat /\ b \in Nat /\ aa = a + 1 /\ bb = b + 1
            BY <2>10, <3>2, <5>1, Zenon
          <6> HIDE DEF a, b, aa, bb
          <6>2. aa - bb = a - b
            BY <6>1
          <6> QED
            BY <6>2 DEF a, b, aa, bb
        <5> QED
          BY <4>3, <5>2, Zenon
      <4> QED
        BY <4>2, <4>3
    <3>4. Len(offered'[c][class]) - Len(Queue(c, class)') =
              IF c \in Subscribers(i) /\ class = Class(message)
                   /\ class = "ticks" /\ Len(Queue(c, "ticks")) = Buffer
              THEN Len(offered[c][class]) - Len(Queue(c, class)) + 1
              ELSE Len(offered[c][class]) - Len(Queue(c, class))
      BY <1>4, <2>11, <2>12, <3>3, Zenon
    <3> HIDE DEF longer, queues, k
    <3> QED
      BY <2>4, <2>5, <2>9, <3>4, Zenon
  <2>13. CASE class # k
    <3> HIDE DEF longer, queues
    <3> QED
      BY <2>4, <2>5, <2>6, <2>8, <2>9, <2>11, <2>13
  <2> QED
    BY <2>12, <2>13
<1> QED
  BY <1>3, <1>4

\* What Feed counts as received or dropped.
Gone == [c \in Clients |-> [k \in {"system", "ordered", "ticks"} |->
           Len(offered[c][k]) - Len(clients[c].queues[k])]]

LEMMA GoneIs ==
  /\ \A c \in Clients : Gone[c] = [class \in Classes |-> Len(offered[c][class]) - Len(Queue(c, class))]
  /\ \A c \in Clients : Gone'[c] = [class \in Classes |-> Len(offered'[c][class]) - Len(Queue(c, class)')]
BY DEF Gone, Queue, Classes

\* A message delivered in a process is one offered to its connections.
LEMMA DeliverKeeps ==
  ASSUME QueuesTyped, QueuesEnd, NEW i \in Instances, NEW message \in Message,
         Deliver(i, message), UNCHANGED last
  PROVE  /\ QueuesTyped' /\ QueuesEnd'
         /\ Promise!Offer(Subscribers(i), Class(message), message)
<1> DEFINE k  == Class(message)
           to == Subscribers(i)
<1>1. QueuesTyped'
  <2>1. clients' \in [Clients -> Client]
    <3>1. clients' = [c \in Clients |-> clients'[c]]
      BY DEF Deliver
    <3> QED
      BY <3>1, DeliverQueue DEF Classes
  <2>2. offered' \in [Clients -> [Classes -> Seq(Message)]]
    <3>1. offered' = [c \in Clients |-> offered'[c]]
      BY DEF Deliver
    <3> QED
      BY <3>1, DeliverQueue DEF Classes
  <2> QED
    BY <2>1, <2>2 DEF QueuesTyped
<1>2. QueuesEnd'
  <2> SUFFICES ASSUME NEW c \in Clients
               PROVE  /\ \A class \in Classes : EndOf(Queue(c, class)', offered'[c][class])
                      /\ Len(Queue(c, "ticks")') <= Buffer
    BY DEF QueuesEnd
  <2> QED
    BY DeliverQueue DEF Classes
<1>3. offered' = [c \in Clients |-> IF c \in to THEN [offered[c] EXCEPT ![k] = Append(@, message)]
                                   ELSE offered[c]]
  BY DEF Deliver
<1>4. Gone' = [c \in Clients |-> IF c \in to /\ k = "ticks" /\ Promise!Waiting(c, "ticks") = Buffer
                                THEN [Gone[c] EXCEPT !["ticks"] = @ + 1] ELSE Gone[c]]
  <2> SUFFICES ASSUME NEW c \in Clients
               PROVE  Gone'[c] = IF c \in to /\ k = "ticks" /\ Promise!Waiting(c, "ticks") = Buffer
                                 THEN [Gone[c] EXCEPT !["ticks"] = @ + 1] ELSE Gone[c]
    BY DEF Gone
  <2> DEFINE drops == c \in to /\ k = "ticks" /\ Len(Queue(c, "ticks")) = Buffer
  <2>1. "ticks" \in Classes /\ Promise!Waiting(c, "ticks") = Len(Queue(c, "ticks"))
    BY Waits DEF Classes
  <2>2. ASSUME NEW class \in Classes
        PROVE  Len(offered'[c][class]) - Len(Queue(c, class)') =
                 IF drops /\ class = "ticks" THEN Gone[c][class] + 1 ELSE Gone[c][class]
    <3>1. Gone[c][class] = Len(offered[c][class]) - Len(Queue(c, class))
      BY GoneIs
    <3>2. Len(offered'[c][class]) - Len(Queue(c, class)') =
              IF c \in Subscribers(i) /\ class = Class(message)
                   /\ class = "ticks" /\ Len(Queue(c, "ticks")) = Buffer
              THEN Gone[c][class] + 1 ELSE Gone[c][class]
      BY <3>1, DeliverQueue, Zenon
    <3> QED
      BY <3>2, Zenon
  <2>3. Gone[c] = [class \in Classes |-> Gone[c][class]]
    BY GoneIs, Zenon
  <2>4. Gone'[c] = [class \in Classes |->
                      IF drops /\ class = "ticks" THEN Gone[c][class] + 1 ELSE Gone[c][class]]
    BY <2>2, GoneIs, Zenon
  <2>5. CASE drops
    <3> HIDE DEF k, to
    <3>1. [Gone[c] EXCEPT !["ticks"] = @ + 1] = [class \in Classes |->
             IF class = "ticks" THEN Gone[c][class] + 1 ELSE Gone[c][class]]
      <4> DEFINE g == Gone[c]
      <4>1. g = [class \in Classes |-> g[class]]
        BY <2>3
      <4> HIDE DEF g
      <4>2. [g EXCEPT !["ticks"] = @ + 1] = [class \in Classes |->
               IF class = "ticks" THEN g[class] + 1 ELSE g[class]]
        BY <4>1
      <4> QED
        BY <4>2 DEF g
    <3> QED
      BY <2>1, <2>4, <2>5, <3>1, Zenon
  <2>6. CASE ~ drops
    <3>1. Gone'[c] = Gone[c]
      BY <2>3, <2>4, <2>6, Zenon
    <3> QED
      BY <2>1, <2>6, <3>1, Zenon
  <2> QED
    BY <2>5, <2>6, Zenon
<1>5. Promise!Offer(to, k, message)
  BY <1>3, <1>4 DEF Promise!Offer, Gone
<1> QED
  BY <1>1, <1>2, <1>5

\* A step that leaves the queues alone is none of Feed.
LEMMA QueuesAlone ==
  ASSUME QueuesTyped, QueuesEnd, clients' \in [Clients -> Client],
         \A c \in Clients : clients'[c].queues = clients[c].queues, UNCHANGED <<offered, last>>
  PROVE  QueuesTyped' /\ QueuesEnd' /\ UNCHANGED Promise!vars
<1>1. QueuesTyped'
  BY DEF QueuesTyped
<1>2. QueuesEnd'
  BY DEF QueuesEnd, Queue
<1>3. Gone' = Gone
  BY DEF Gone
<1> QED
  BY <1>1, <1>2, <1>3 DEF Promise!vars, Gone

\* A connection begins, or ends, with empty queues.
LEMMA Emptied ==
  ASSUME QueuesTyped, QueuesEnd, NEW c \in Clients, NEW pc \in {"off", "subscribed"},
         clients' = [clients EXCEPT ![c].pc = pc, ![c].queues = NoQueues],
         offered' = [offered EXCEPT ![c] = NoQueues], UNCHANGED last
  PROVE  QueuesTyped' /\ QueuesEnd' /\ Promise!Subscribe(c)
<1>1. /\ clients'[c] = [clients[c] EXCEPT !.pc = pc, !.queues = NoQueues]
      /\ clients'[c] \in Client /\ clients'[c].queues = NoQueues
      /\ \A d \in Clients \ {c} : clients'[d] = clients[d]
      /\ clients' \in [Clients -> Client]
  <2> DEFINE begun == [clients[c] EXCEPT !.pc = pc, !.queues = NoQueues]
  <2>1. begun \in Client /\ begun.queues = NoQueues
    <3>1. clients[c] \in Client
      BY DEF QueuesTyped
    <3> QED
      BY <3>1, Empty DEF Client
  <2>2. clients' = [clients EXCEPT ![c] = begun]
    OBVIOUS
  <2> HIDE DEF begun
  <2>3. clients'[c] = begun /\ \A d \in Clients \ {c} : clients'[d] = clients[d]
    BY <2>2 DEF QueuesTyped
  <2>4. clients' \in [Clients -> Client]
    BY <2>1, <2>2 DEF QueuesTyped
  <2> QED
    BY <2>1, <2>3, <2>4 DEF begun
<1>2. /\ offered'[c] = NoQueues
      /\ \A d \in Clients \ {c} : offered'[d] = offered[d]
      /\ offered' \in [Clients -> [Classes -> Seq(Message)]]
  BY Empty DEF QueuesTyped
<1>3. QueuesTyped'
  BY <1>1, <1>2 DEF QueuesTyped
<1>4. \A class \in Classes : Queue(c, class)' = <<>> /\ offered'[c][class] = <<>>
  BY <1>1, <1>2, Empty DEF Queue
<1>5. QueuesEnd'
  <2> SUFFICES ASSUME NEW d \in Clients
               PROVE  /\ \A class \in Classes : EndOf(Queue(d, class)', offered'[d][class])
                      /\ Len(Queue(d, "ticks")') <= Buffer
    BY DEF QueuesEnd
  <2>1. CASE d = c
    BY <1>4, <2>1, EndEmpty, BusAssumption DEF Classes
  <2>2. CASE d # c
    BY <1>1, <1>2, <2>2 DEF QueuesEnd, Queue
  <2> QED
    BY <2>1, <2>2
<1>6. Gone' = [Gone EXCEPT ![c] = [k \in Classes |-> 0]]
  <2>1. Gone'[c] = [k \in Classes |-> 0]
    <3>1. \A class \in Classes : Len(offered'[c][class]) - Len(Queue(c, class)') = 0
      BY <1>4
    <3> QED
      BY <3>1, GoneIs, Zenon
  <2>2. \A d \in Clients \ {c} : Gone'[d] = Gone[d]
    BY <1>1, <1>2 DEF Gone
  <2> QED
    BY <2>1, <2>2 DEF Gone
<1>7. Promise!Nothing = NoQueues /\ Promise!Classes = Classes
  BY Empty DEF Promise!Nothing, Promise!Classes, Classes
<1>8. Promise!Subscribe(c)
  BY <1>6, <1>7 DEF Promise!Subscribe, Gone
<1> QED
  BY <1>3, <1>5, <1>8

\* The message a client receives is the first one that Feed lets it receive.
LEMMA PumpReceives ==
  ASSUME QueuesTyped, QueuesEnd, NEW c \in Clients, Pump(c)
  PROVE  /\ QueuesTyped' /\ QueuesEnd'
         /\ \E class \in Classes : Promise!Receive(c, class)
<1> DEFINE queues == clients[c].queues
<1>0. PICK class \in Classes : class = NextClass(queues)
  BY DEF NextClass, Classes
<1>1. /\ clients[c] \in Client /\ queues \in [Classes -> Seq(Message)]
      /\ offered[c] \in [Classes -> Seq(Message)] /\ class \in Classes
      /\ {"system", "ordered", "ticks"} \subseteq Classes
  BY DEF QueuesTyped, Client, Classes
<1>2. /\ queues # NoQueues
      /\ clients' = [clients EXCEPT ![c].queues[class] = Tail(@), ![c].dirty = @ \/ class = "system"]
      /\ last' = [last EXCEPT ![c] = Head(queues[class])]
      /\ UNCHANGED offered
  BY <1>0 DEF Pump
<1>3. /\ queues[class] # <<>>
      /\ class # "system" => queues["system"] = <<>>
      /\ class = "ticks" => queues["ordered"] = <<>>
  <2>1. \E k \in Classes : queues[k] # <<>>
    BY <1>1, <1>2, Empty
  <2> HIDE DEF queues
  <2> QED
    BY <1>0, <2>1 DEF NextClass, Classes
<1>4. EndOf(queues[class], offered[c][class])
  BY <1>1 DEF QueuesEnd, Queue
<1>5. /\ EndOf(Tail(queues[class]), offered[c][class])
      /\ Tail(queues[class]) \in Seq(Message)
      /\ Len(Tail(queues[class])) = Len(queues[class]) - 1 /\ Len(queues[class]) > 0
      /\ Head(queues[class]) \in Message
      /\ Head(queues[class]) = offered[c][class][Len(offered[c][class]) - Len(queues[class]) + 1]
  <2>1. queues[class] \in Seq(Message) /\ offered[c][class] \in Seq(Message)
    BY <1>1
  <2> HIDE DEF queues
  <2> QED
    BY <1>3, <1>4, <2>1, EndTail
<1>6. /\ clients'[c].queues = [queues EXCEPT ![class] = Tail(queues[class])]
      /\ clients'[c] \in Client /\ clients' \in [Clients -> Client]
      /\ \A d \in Clients \ {c} : clients'[d] = clients[d]
  <2>1. clients'[c] = [clients[c] EXCEPT !.queues = [queues EXCEPT ![class] = Tail(queues[class])],
                                        !.dirty = @ \/ class = "system"]
    BY <1>2 DEF QueuesTyped
  <2>2. [queues EXCEPT ![class] = Tail(queues[class])] \in [Classes -> Seq(Message)]
    <3> HIDE DEF queues
    <3> QED
      BY <1>1, <1>5
  <2>3. clients'[c] \in Client /\ clients'[c].queues = [queues EXCEPT ![class] = Tail(queues[class])]
    BY <1>1, <2>1, <2>2 DEF Client
  <2>4. \A d \in Clients \ {c} : clients'[d] = clients[d]
    BY <1>2 DEF QueuesTyped
  <2> QED
    BY <1>2, <2>3, <2>4 DEF QueuesTyped
<1>7. QueuesTyped'
  <2> HIDE DEF queues
  <2> QED
    BY <1>2, <1>5, <1>6 DEF QueuesTyped
<1>8. \A k \in Classes : Queue(c, k)' = IF k = class THEN Tail(queues[class]) ELSE Queue(c, k)
  <2>1. \A k \in Classes : Queue(c, k) = queues[k]
    BY DEF Queue
  <2> HIDE DEF queues
  <2> QED
    BY <1>1, <1>6, <2>1 DEF Queue
<1>9. QueuesEnd'
  <2> SUFFICES ASSUME NEW d \in Clients
               PROVE  /\ \A k \in Classes : EndOf(Queue(d, k)', offered'[d][k])
                      /\ Len(Queue(d, "ticks")') <= Buffer
    BY DEF QueuesEnd
  <2>1. CASE d = c
    <3>1. \A k \in Classes : EndOf(Queue(c, k)', offered'[c][k])
      <4> HIDE DEF queues
      <4> QED
        BY <1>2, <1>5, <1>8 DEF QueuesEnd
    <3>2. Len(Queue(c, "ticks")) \in Nat /\ Len(Queue(c, "ticks")) <= Buffer /\ Buffer \in Nat
      <4>1. Queue(c, "ticks") \in Seq(Message)
        BY <1>1 DEF Queue
      <4>2. Len(Queue(c, "ticks")) <= Buffer
        BY DEF QueuesEnd
      <4>3. Buffer \in Nat
        BY BusAssumption
      <4> HIDE DEF queues
      <4> QED
        BY <4>1, <4>2, <4>3
    <3>3. Len(Queue(c, "ticks")') <= Buffer
      <4>1. CASE class = "ticks"
        <5>1. Queue(c, "ticks")' = Tail(queues["ticks"]) /\ Queue(c, "ticks") = queues["ticks"]
          BY <1>1, <1>8, <4>1 DEF Queue
        <5> HIDE DEF queues
        <5> QED
          BY <1>5, <3>2, <4>1, <5>1
      <4>2. CASE class # "ticks"
        <5> HIDE DEF queues
        <5> QED
          BY <1>1, <1>8, <3>2, <4>2
      <4> QED
        BY <4>1, <4>2
    <3> QED
      BY <2>1, <3>1, <3>3
  <2>2. CASE d # c
    BY <1>2, <1>6, <2>2 DEF QueuesEnd, Queue
  <2> QED
    BY <2>1, <2>2
<1>10. Promise!First(c, class)
  <2>1. \A k \in Classes : Promise!Waiting(c, k) = Len(queues[k])
    BY Waits DEF Queue
  <2>2. Len(<<>>) = 0
    BY EndEmpty
  <2> HIDE DEF queues
  <2> QED
    BY <1>1, <1>3, <1>5, <2>1, <2>2 DEF Promise!First
<1>11. Gone[c][class] = Len(offered[c][class]) - Len(queues[class])
  <2>1. Gone[c][class] = Len(offered[c][class]) - Len(Queue(c, class))
    BY <1>1, GoneIs
  <2> QED
    BY <2>1 DEF Queue
<1>12. Gone' = [Gone EXCEPT ![c][class] = @ + 1]
  <2>1. \A d \in Clients \ {c} : Gone'[d] = Gone[d]
    BY <1>2, <1>6 DEF Gone
  <2>2. Gone'[c] = [Gone[c] EXCEPT ![class] = @ + 1]
    <3>1. ASSUME NEW k \in Classes
          PROVE  Len(offered'[c][k]) - Len(Queue(c, k)')
                   = IF k = class THEN Gone[c][k] + 1 ELSE Gone[c][k]
      <4>1. Gone[c][k] = Len(offered[c][k]) - Len(Queue(c, k))
        BY GoneIs
      <4>2. CASE k # class
        <5> HIDE DEF queues
        <5> QED
          BY <1>2, <1>8, <4>1, <4>2
      <4>3. CASE k = class
        <5> DEFINE a == Len(offered[c][k])
                   b == Len(queues[class])
                   t == Len(Tail(queues[class]))
        <5>1. a \in Nat /\ b \in Nat /\ t = b - 1
          BY <1>1, <1>5
        <5>2. Gone[c][k] = a - b /\ Len(offered'[c][k]) = a /\ Len(Queue(c, k)') = t
          BY <1>2, <1>8, <1>11, <4>3
        <5> HIDE DEF a, b, t
        <5>3. a - t = a - b + 1
          BY <5>1
        <5> HIDE DEF queues
        <5> QED
          BY <4>3, <5>2, <5>3, Zenon
      <4> QED
        BY <4>2, <4>3
    <3>2. Gone'[c] = [k \in Classes |-> IF k = class THEN Gone[c][k] + 1 ELSE Gone[c][k]]
      <4> HIDE DEF queues
      <4> QED
        BY <3>1, GoneIs, Zenon
    <3> DEFINE g == Gone[c]
    <3>3. g = [k \in Classes |-> g[k]]
      BY GoneIs, Zenon
    <3>4. [g EXCEPT ![class] = @ + 1] = [k \in Classes |-> IF k = class THEN g[k] + 1 ELSE g[k]]
      <4> HIDE DEF g, queues
      <4> QED
        BY <3>3
    <3> QED
      BY <3>2, <3>4, Zenon
  <2> HIDE DEF queues
  <2>3. /\ Gone = [d \in Clients |-> Gone[d]] /\ Gone' = [d \in Clients |-> Gone'[d]]
    BY DEF Gone
  <2> QED
    BY <2>1, <2>2, <2>3
<1>13. Promise!Receive(c, class)
  <2>1. last' = [last EXCEPT ![c] = offered[c][class][Gone[c][class] + 1]]
    <3> HIDE DEF queues
    <3> QED
      BY <1>2, <1>5, <1>11
  <2> HIDE DEF queues
  <2> QED
    BY <1>2, <1>10, <1>12, <2>1 DEF Promise!Receive, Gone
<1>14. \E k \in Classes : Promise!Receive(c, k)
  BY <1>1, <1>13, Zenon
<1> QED
  BY <1>7, <1>9, <1>14, Zenon

-----------------------------------------------------------------------------
(* The invariant, and the refinement.                                      *)

LEMMA NumbersTyped ==
  /\ 0..MaxChanges \subseteq Numbers /\ 0..MaxUpdates \subseteq Numbers
  /\ MaxChanges \in Nat /\ MaxUpdates \in Nat /\ MaxFaults \in Nat
BY BusAssumption DEF Numbers

LEMMA StateMessageTyped ==
  ASSUME MessagesTyped, NEW p \in pending
  PROVE  /\ p \in [pc : {"publish", "redis"}, from : Instances, number : Numbers]
         /\ StateMessage(p) \in Message /\ p.from \in Instances
BY DEF MessagesTyped, StateMessage, Message

LEMMA ToRedisTyped ==
  ASSUME wire \in [Instances -> Seq(Message)], NEW message \in Message, ToRedis(message)
  PROVE  wire' \in [Instances -> Seq(Message)]
BY DEF ToRedis

LEMMA FaultTyped ==
  ASSUME MessagesTyped, Fault
  PROVE  left' \in [updates : 0..MaxUpdates, connects : Nat, faults : 0..MaxFaults] /\ left'.faults # MaxFaults
<1> DEFINE old == left
<1>1. old \in [updates : 0..MaxUpdates, connects : Nat, faults : 0..MaxFaults] /\ old.faults > 0
      /\ left' = [old EXCEPT !.faults = @ - 1]
  BY DEF Fault, MessagesTyped
<1>2. MaxFaults \in Nat
  BY NumbersTyped
<1> HIDE DEF old
<1>3. left'.faults = old.faults - 1 /\ old.faults \in 0..MaxFaults
  BY <1>1
<1>4. old.faults - 1 \in 0..MaxFaults /\ old.faults - 1 # MaxFaults
  BY <1>1, <1>2, <1>3
<1> QED
  BY <1>1, <1>3, <1>4

\* What is on its way stays messages.
LEMMA MessagesKept ==
  ASSUME BusInv, Next
  PROVE  MessagesTyped'
<1> USE DEF BusInv
<1>1. ASSUME NEW i \in Instances, Commit(i)
      PROVE  MessagesTyped'
  <2>1. row + 1 \in 0..MaxChanges /\ row + 1 \in Numbers
    BY <1>1, NumbersTyped DEF Commit, MessagesTyped
  <2> QED
    BY <1>1, <2>1 DEF Commit, MessagesTyped
<1>2. ASSUME NEW i \in Instances, Bridge(i)
      PROVE  MessagesTyped'
  <2>1. wire[i] \in Seq(Message) /\ Tail(wire[i]) \in Seq(Message)
    BY <1>2 DEF Bridge, MessagesTyped
  <2>2. wire' \in [Instances -> Seq(Message)]
    BY <1>2, <2>1 DEF Bridge, MessagesTyped
  <2> QED
    BY <1>2, <2>2 DEF Bridge, MessagesTyped
<1>3. ASSUME NEW i \in Instances, BridgeDies(i)
      PROVE  MessagesTyped'
  <2>1. wire' \in [Instances -> Seq(Message)]
    BY <1>3 DEF BridgeDies, MessagesTyped
  <2>2. left' \in [updates : 0..MaxUpdates, connects : Nat, faults : 0..MaxFaults]
    BY <1>3, FaultTyped DEF BridgeDies
  <2> QED
    BY <1>3, <2>1, <2>2 DEF BridgeDies, MessagesTyped
<1>4. ASSUME NEW p \in pending, Publish(p)
      PROVE  MessagesTyped'
  <2>1. [p EXCEPT !.pc = "redis"] \in [pc : {"publish", "redis"}, from : Instances, number : Numbers]
    BY StateMessageTyped
  <2> QED
    BY <1>4, <2>1 DEF Publish, MessagesTyped
<1>5. ASSUME NEW p \in pending, PublishRedis(p)
      PROVE  MessagesTyped'
  BY <1>5, StateMessageTyped, ToRedisTyped DEF PublishRedis, MessagesTyped
<1>6. ASSUME NEW p \in pending, PublishRedisFails(p)
      PROVE  MessagesTyped'
  <2>1. left' \in [updates : 0..MaxUpdates, connects : Nat, faults : 0..MaxFaults]
    BY <1>6, FaultTyped DEF PublishRedisFails
  <2> QED
    BY <1>6, <2>1 DEF PublishRedisFails, MessagesTyped
<1>7. ASSUME NEW c \in Clients, Connect(c)
      PROVE  MessagesTyped'
  BY <1>7 DEF Connect, MessagesTyped
<1>8. ASSUME NEW c \in Clients, Snapshot(c) \/ Pump(c) \/ Refetch(c) \/ Disconnect(c)
      PROVE  MessagesTyped'
  BY <1>8 DEF Snapshot, Pump, Refetch, Disconnect, MessagesTyped
<1>9. ASSUME NEW l \in Channels, StreamMessage(l)
      PROVE  MessagesTyped'
  <2> DEFINE message == [channel |-> l, from |-> Ingests, number |-> left.updates]
  <2>1. message \in Message
    BY NumbersTyped, BusAssumption DEF MessagesTyped, Message, Channels
  <2>2. left' \in [updates : 0..MaxUpdates, connects : Nat, faults : 0..MaxFaults]
    BY <1>9, NumbersTyped DEF StreamMessage, MessagesTyped
  <2>3. streams' \in [Channels -> {<<>>} \cup Message]
    <3> HIDE DEF message
    <3>1. streams' = [streams EXCEPT ![l] = message]
      BY <1>9 DEF StreamMessage, message
    <3> QED
      BY <2>1, <3>1 DEF MessagesTyped
  <2> QED
    BY <1>9, <2>2, <2>3 DEF StreamMessage, MessagesTyped
<1>10. ASSUME NEW l \in Channels, StreamRedis(l)
       PROVE  MessagesTyped'
  <2>1. streams[l] \in Message
    BY <1>10 DEF StreamRedis, MessagesTyped
  <2> QED
    BY <1>10, <2>1, ToRedisTyped DEF StreamRedis, MessagesTyped
<1>11. ASSUME NEW l \in Channels, StreamRedisFails(l)
       PROVE  MessagesTyped'
  <2>1. left' \in [updates : 0..MaxUpdates, connects : Nat, faults : 0..MaxFaults]
    BY <1>11, FaultTyped DEF StreamRedisFails
  <2> QED
    BY <1>11, <2>1 DEF StreamRedisFails, MessagesTyped
<1> QED
  BY <1>1, <1>2, <1>3, <1>4, <1>5, <1>6, <1>7, <1>8, <1>9, <1>10, <1>11 DEF Next

\* Every step is one of Feed, or none.
LEMMA StepIsFeeds ==
  ASSUME BusInv, [Next]_vars
  PROVE  BusInv' /\ [Promise!Next]_(Promise!vars)
<1> DEFINE Feeds == QueuesTyped' /\ QueuesEnd' /\ [Promise!Next]_(Promise!vars)
<1>0. MessagesTyped /\ QueuesTyped /\ QueuesEnd
  BY DEF BusInv
<1>1. ASSUME NEW i \in Instances, NEW message \in Message, Deliver(i, message), UNCHANGED last
      PROVE  Feeds
  <2>1. Promise!Offer(Subscribers(i), Class(message), message)
    BY <1>0, <1>1, DeliverKeeps
  <2>2. Subscribers(i) \in SUBSET Clients /\ Class(message) \in Promise!Classes
    BY ClassTyped DEF Subscribers, Promise!Classes, Classes
  <2>3. Promise!Next
    BY <2>1, <2>2 DEF Promise!Next
  <2> QED
    BY <1>0, <1>1, <2>3, DeliverKeeps
<1>2. ASSUME clients' \in [Clients -> Client], UNCHANGED <<offered, last>>,
             \A c \in Clients : clients'[c].queues = clients[c].queues
      PROVE  Feeds
  BY <1>0, <1>2, QueuesAlone
<1>3. ASSUME UNCHANGED <<clients, offered, last>>
      PROVE  Feeds
  BY <1>0, <1>2, <1>3 DEF QueuesTyped
<1>4. ASSUME NEW c \in Clients, NEW pc \in {"off", "subscribed"},
             clients' = [clients EXCEPT ![c].pc = pc, ![c].queues = NoQueues],
             offered' = [offered EXCEPT ![c] = NoQueues], UNCHANGED last
      PROVE  Feeds
  <2>1. QueuesTyped' /\ QueuesEnd' /\ Promise!Subscribe(c)
    BY <1>0, <1>4, Emptied
  <2> QED
    BY <2>1 DEF Promise!Next
<1>5. CASE UNCHANGED vars
  <2>1. MessagesTyped' /\ UNCHANGED <<clients, offered, last>>
    BY <1>0, <1>5 DEF vars, MessagesTyped
  <2> QED
    BY <1>3, <2>1 DEF BusInv
<1>6. ASSUME NEW i \in Instances, Commit(i) \/ BridgeDies(i)
      PROVE  Feeds
  BY <1>3, <1>6 DEF Commit, BridgeDies
<1>7. ASSUME NEW i \in Instances, Bridge(i)
      PROVE  Feeds
  <2>1. Head(wire[i]) \in Message
    BY <1>0, <1>7 DEF Bridge, MessagesTyped
  <2> QED
    BY <1>1, <1>7, <2>1 DEF Bridge
<1>8. ASSUME NEW p \in pending, Publish(p)
      PROVE  Feeds
  <2>1. StateMessage(p) \in Message /\ p.from \in Instances
    BY <1>0, StateMessageTyped
  <2> QED
    BY <1>1, <1>8, <2>1 DEF Publish
<1>9. ASSUME NEW p \in pending, PublishRedis(p) \/ PublishRedisFails(p)
      PROVE  Feeds
  BY <1>3, <1>9 DEF PublishRedis, PublishRedisFails
<1>10. ASSUME NEW c \in Clients, Connect(c) \/ Disconnect(c)
       PROVE  Feeds
  BY <1>4, <1>10 DEF Connect, Disconnect
<1>11. ASSUME NEW c \in Clients, Pump(c)
       PROVE  Feeds
  <2>1. QueuesTyped' /\ QueuesEnd' /\ \E class \in Classes : Promise!Receive(c, class)
    BY <1>0, <1>11, PumpReceives
  <2> QED
    BY <2>1 DEF Promise!Next, Promise!Classes, Classes
<1>12. ASSUME NEW c \in Clients, Snapshot(c) \/ Refetch(c)
       PROVE  Feeds
  <2>1. row \in Nat
    BY <1>0, NumbersTyped DEF MessagesTyped
  <2>2. \E pc \in {"off", "subscribed", "open"}, dirty \in BOOLEAN, shows \in Nat :
          clients' = [clients EXCEPT ![c].pc = pc, ![c].dirty = dirty, ![c].shows = shows]
    <3>1. clients[c] \in Client
      BY <1>0 DEF QueuesTyped
    <3>2. CASE Snapshot(c)
      <4>1. clients' = [clients EXCEPT ![c].pc = "open", ![c].dirty = TRUE, ![c].shows = clients[c].shows]
        BY <1>0, <3>1, <3>2 DEF Snapshot, QueuesTyped, Client
      <4> QED
        BY <3>1, <4>1 DEF Client
    <3>3. CASE Refetch(c)
      <4>1. clients' = [clients EXCEPT ![c].pc = clients[c].pc, ![c].dirty = FALSE, ![c].shows = row]
        BY <1>0, <3>1, <3>3 DEF Refetch, QueuesTyped, Client
      <4> QED
        BY <2>1, <3>1, <4>1 DEF Client
    <3> QED
      BY <1>12, <3>2, <3>3
  <2>3. clients' \in [Clients -> Client] /\ \A d \in Clients : clients'[d].queues = clients[d].queues
    <3>1. PICK pc \in {"off", "subscribed", "open"}, dirty \in BOOLEAN, shows \in Nat :
            clients' = [clients EXCEPT ![c].pc = pc, ![c].dirty = dirty, ![c].shows = shows]
      BY <2>2
    <3>2. clients \in [Clients -> Client]
      BY <1>0 DEF QueuesTyped
    <3>3. clients'[c] = [clients[c] EXCEPT !.pc = pc, !.dirty = dirty, !.shows = shows]
      BY <3>1, <3>2
    <3>4. clients'[c] \in Client /\ clients'[c].queues = clients[c].queues
      <4> DEFINE old == clients[c]
      <4>1. old \in Client
        BY <3>2
      <4> HIDE DEF old
      <4>2. [old EXCEPT !.pc = pc, !.dirty = dirty, !.shows = shows] \in Client
        BY <4>1 DEF Client
      <4>3. [old EXCEPT !.pc = pc, !.dirty = dirty, !.shows = shows].queues = old.queues
        BY <4>1 DEF Client
      <4> QED
        BY <3>3, <4>2, <4>3 DEF old
    <3> QED
      BY <3>1, <3>2, <3>4
  <2> QED
    BY <1>2, <1>12, <2>3 DEF Snapshot, Refetch
<1>13. ASSUME NEW l \in Channels, StreamMessage(l)
       PROVE  Feeds
  <2> DEFINE message == [channel |-> l, from |-> Ingests, number |-> left.updates]
  <2>1. message \in Message
    BY <1>0, NumbersTyped, BusAssumption DEF MessagesTyped, Message, Channels
  <2>2. Deliver(Ingests, message) /\ UNCHANGED last
    BY <1>13 DEF StreamMessage
  <2> HIDE DEF message
  <2> QED
    BY <1>1, <2>1, <2>2, BusAssumption
<1>14. ASSUME NEW l \in Channels, StreamRedis(l) \/ StreamRedisFails(l)
       PROVE  Feeds
  BY <1>3, <1>14 DEF StreamRedis, StreamRedisFails
<1>15. CASE Next
  <2> HIDE DEF Feeds
  <2>1. Feeds
    BY <1>6, <1>7, <1>8, <1>9, <1>10, <1>11, <1>12, <1>13, <1>14, <1>15 DEF Next
  <2> QED
    BY <1>15, <2>1, MessagesKept DEF Feeds, BusInv
<1> QED
  BY <1>5, <1>15

LEMMA InitIsFeeds ==
  ASSUME Init
  PROVE  BusInv /\ Promise!Init
<1>1. MessagesTyped
  BY NumbersTyped, BusAssumption DEF Init, MessagesTyped
<1>2. QueuesTyped
  BY Empty DEF Init, QueuesTyped, Client
<1>3. ASSUME NEW c \in Clients, NEW class \in Classes
      PROVE  Queue(c, class) = <<>> /\ offered[c][class] = <<>>
  BY Empty DEF Init, Queue
<1>4. QueuesEnd
  <2> SUFFICES ASSUME NEW c \in Clients
               PROVE  /\ \A class \in Classes : EndOf(Queue(c, class), offered[c][class])
                      /\ Len(Queue(c, "ticks")) <= Buffer
    BY DEF QueuesEnd
  <2> QED
    BY <1>3, EndEmpty, BusAssumption DEF Classes
<1>5. Gone = [c \in Clients |-> [k \in Classes |-> 0]]
  <2> SUFFICES ASSUME NEW c \in Clients
               PROVE  Gone[c] = [k \in Classes |-> 0]
    BY DEF Gone
  <2>1. \A class \in Classes : Len(offered[c][class]) - Len(Queue(c, class)) = 0
    BY <1>3
  <2> QED
    BY <2>1, GoneIs, Zenon
<1>6. Promise!Nothing = NoQueues /\ Promise!Classes = Classes
  BY Empty DEF Promise!Nothing, Promise!Classes, Classes
<1>7. Promise!Init
  BY <1>5, <1>6 DEF Promise!Init, Gone, Init
<1> QED
  BY <1>1, <1>2, <1>4, <1>7 DEF BusInv

\* What waits for a client is always the end of what was offered to it, and at
\* most Buffer ticks wait (bus.py:80-125).
THEOREM QueuesAreEnds == Spec => []BusInv
<1>1. Init => BusInv
  BY InitIsFeeds
<1>2. BusInv /\ [Next]_vars => BusInv'
  BY StepIsFeeds
<1> QED
  BY <1>1, <1>2, PTL DEF Spec

\* The bus keeps what it promises (bus.py:3-12): of "system" and of the ordered
\* channels a connection receives everything, in order and never overtaken, and
\* of the ticks it loses only the oldest, however many processes publish, Redis
\* fails, bridges die and clients come and go.
THEOREM BusKeepsPromise == Spec => PromiseKept
<1>1. Init => BusInv /\ Promise!Init
  BY InitIsFeeds
<1>2. BusInv /\ [Next]_vars => BusInv' /\ [Promise!Next]_(Promise!vars)
  BY StepIsFeeds
<1> QED
  BY <1>1, <1>2, PTL DEF Spec, PromiseKept, Promise!Spec

-----------------------------------------------------------------------------
(* The page.                                                               *)

\* Something is on its way to a client that makes its page read the state again.
OnItsWay(c) ==
  \/ \E p \in pending : p.pc = "publish" \/ p.from # Home[c]
  \/ \E j \in 1..Len(wire[Home[c]]) : wire[Home[c]][j].channel = "system"
  \/ Queue(c, "system") # <<>>

Stale(c) == clients[c].pc = "open" /\ ~ clients[c].dirty /\ clients[c].shows # row

PageInv ==
  left.faults = MaxFaults =>
    /\ \A i \in Instances : bridge[i]
    /\ \A c \in Clients : Stale(c) => OnItsWay(c)

\* What a message delivered in a process means for the page of one client.
LEMMA DeliverReaches ==
  ASSUME QueuesTyped, NEW i \in Instances, NEW message \in Message, Deliver(i, message),
         NEW c \in Clients, UNCHANGED row
  PROVE  /\ Stale(c)' => Stale(c)
         /\ Queue(c, "system") # <<>> => Queue(c, "system")' # <<>>
         /\ Stale(c) /\ Home[c] = i /\ message.channel = "system" => Queue(c, "system")' # <<>>
<1>1. /\ clients[c] \in Client /\ clients[c].queues \in [Classes -> Seq(Message)]
      /\ Class(message) \in Classes
  BY ClassTyped DEF QueuesTyped, Client
<1>2. CASE c \notin Subscribers(i)
  BY <1>2, DeliverIs DEF Stale, Queue, Subscribers
<1>3. CASE c \in Subscribers(i)
  <2> DEFINE queues == clients[c].queues
             k      == Class(message)
             longer == Longer(queues, k, message)
  <2>1. /\ clients'[c] = [clients[c] EXCEPT !.queues = [queues EXCEPT ![k] = longer]]
        /\ offered'[c] = [offered[c] EXCEPT ![k] = Append(offered[c][k], message)]
    BY <1>3, DeliverIs
  <2>2. longer # <<>>
    <3>1. ASSUME NEW q \in Seq(Message)
          PROVE  Append(q, message) # <<>>
      <4>1. Len(Append(q, message)) = Len(q) + 1 /\ Len(q) \in Nat
        OBVIOUS
      <4>2. Len(Append(q, message)) # 0
        BY <4>1
      <4> QED
        BY <4>2, EndEmpty
    <3>2. /\ queues[k] \in Seq(Message)
          /\ Len(queues["ticks"]) = Buffer => Tail(queues["ticks"]) \in Seq(Message)
      <4>1. queues["ticks"] \in Seq(Message)
        BY <1>1 DEF Classes
      <4>2. ASSUME Len(queues["ticks"]) = Buffer
            PROVE  Tail(queues["ticks"]) \in Seq(Message)
        <5>1. queues["ticks"] # <<>>
          BY <4>1, <4>2, BusAssumption
        <5> QED
          BY <4>1, <5>1
      <4> QED
        BY <1>1, <4>2
    <3> QED
      BY <3>1, <3>2 DEF Longer
  <2>3. message.channel = "system" => k = "system"
    BY DEF Class
  <2>4. /\ clients'[c].pc = clients[c].pc /\ clients'[c].dirty = clients[c].dirty
        /\ clients'[c].shows = clients[c].shows
        /\ clients'[c].queues["system"] = IF k = "system" THEN longer ELSE queues["system"]
    <3> HIDE DEF queues, k, longer
    <3>1. "system" \in Classes /\ queues \in [Classes -> Seq(Message)]
      BY <1>1 DEF Classes, queues
    <3> QED
      BY <1>1, <2>1, <3>1 DEF Client
  <2> HIDE DEF k, longer
  <2> QED
    BY <2>2, <2>3, <2>4 DEF Stale, Queue
<1> QED
  BY <1>2, <1>3

LEMMA PageKept ==
  ASSUME BusInv, PageInv, Next
  PROVE  PageInv'
<1> SUFFICES ASSUME left'.faults = MaxFaults
             PROVE  /\ \A i \in Instances : bridge'[i]
                    /\ \A c \in Clients : Stale(c)' => OnItsWay(c)'
  BY DEF PageInv
<1>0. MessagesTyped /\ QueuesTyped /\ QueuesEnd
  BY DEF BusInv
<1>1. ~ Fault
  BY <1>0, FaultTyped
<1>2. left'.faults = left.faults \/ left' = left
  BY <1>0, <1>1 DEF Next, Commit, Bridge, BridgeDies, Publish, PublishRedis, PublishRedisFails, Connect,
     Snapshot, Pump, Refetch, Disconnect, StreamMessage, StreamRedis, StreamRedisFails, MessagesTyped
<1>3. /\ \A i \in Instances : bridge[i]
      /\ \A c \in Clients : Stale(c) => OnItsWay(c)
  BY <1>2 DEF PageInv
<1>4. UNCHANGED bridge
  BY <1>1 DEF Next, Commit, Bridge, BridgeDies, Publish, PublishRedis, PublishRedisFails, Connect,
     Snapshot, Pump, Refetch, Disconnect, StreamMessage, StreamRedis, StreamRedisFails
<1> SUFFICES ASSUME NEW c \in Clients, Stale(c)'
             PROVE  OnItsWay(c)'
  BY <1>3, <1>4
<1>5. Home[c] \in Instances /\ wire[Home[c]] \in Seq(Message) /\ clients[c] \in Client
  BY <1>0, BusAssumption DEF MessagesTyped, QueuesTyped
<1>6. ASSUME NEW i \in Instances, Commit(i)
      PROVE  OnItsWay(c)'
  <2>1. [pc |-> "publish", from |-> i, number |-> row + 1] \in pending'
    BY <1>6 DEF Commit
  <2> QED
    BY <2>1 DEF OnItsWay
<1>7. ASSUME NEW i \in Instances, Bridge(i)
      PROVE  OnItsWay(c)'
  <2>1. Head(wire[i]) \in Message /\ wire[i] # <<>>
    BY <1>0, <1>7 DEF Bridge, MessagesTyped
  <2>2. Deliver(i, Head(wire[i])) /\ UNCHANGED <<row, pending>> /\ wire' = [wire EXCEPT ![i] = Tail(@)]
    BY <1>7 DEF Bridge
  <2>3. OnItsWay(c)
    BY <1>0, <1>3, <2>1, <2>2, DeliverReaches
  <2>4. CASE \E p \in pending : p.pc = "publish" \/ p.from # Home[c]
    BY <2>2, <2>4 DEF OnItsWay
  <2>5. CASE Queue(c, "system") # <<>>
    BY <1>0, <2>1, <2>2, <2>5, DeliverReaches DEF OnItsWay
  <2>6. CASE \E j \in 1..Len(wire[Home[c]]) : wire[Home[c]][j].channel = "system"
    <3>1. PICK j \in 1..Len(wire[Home[c]]) : wire[Home[c]][j].channel = "system"
      BY <2>6
    <3>2. CASE Home[c] # i
      <4>1. wire'[Home[c]] = wire[Home[c]]
        BY <1>0, <1>5, <2>2, <3>2 DEF MessagesTyped
      <4> QED
        BY <3>1, <4>1 DEF OnItsWay
    <3>3. CASE Home[c] = i /\ j = 1
      <4>1. Head(wire[i]).channel = "system"
        BY <1>5, <2>1, <3>1, <3>3
      <4> QED
        BY <1>0, <2>1, <2>2, <3>3, <4>1, DeliverReaches DEF OnItsWay
    <3>4. CASE Home[c] = i /\ j # 1
      <4> DEFINE w == wire[i]
      <4>1. w \in Seq(Message) /\ w # <<>> /\ j \in 1..Len(w) /\ w[j].channel = "system"
        BY <1>5, <2>1, <3>1, <3>4
      <4>2. wire'[Home[c]] = Tail(w)
        BY <1>0, <1>5, <2>2, <3>4 DEF MessagesTyped
      <4> HIDE DEF w
      <4>3. j - 1 \in 1..Len(Tail(w)) /\ Tail(w)[j - 1] = w[j]
        BY <3>4, <4>1
      <4> QED
        BY <4>1, <4>2, <4>3 DEF OnItsWay
    <3> QED
      BY <3>2, <3>3, <3>4
  <2> QED
    BY <2>3, <2>4, <2>5, <2>6 DEF OnItsWay
<1>8. ASSUME NEW p \in pending, Publish(p)
      PROVE  OnItsWay(c)'
  <2>1. /\ p \in [pc : {"publish", "redis"}, from : Instances, number : Numbers]
        /\ StateMessage(p) \in Message /\ p.from \in Instances /\ StateMessage(p).channel = "system"
    BY <1>0, StateMessageTyped DEF StateMessage
  <2>2. Deliver(p.from, StateMessage(p)) /\ UNCHANGED <<row, wire>>
        /\ pending' = (pending \ {p}) \cup {[p EXCEPT !.pc = "redis"]}
    BY <1>8 DEF Publish
  <2>3. Stale(c) /\ OnItsWay(c)
    BY <1>0, <1>3, <2>1, <2>2, DeliverReaches
  <2>4. CASE p.from # Home[c]
    <3>1. [p EXCEPT !.pc = "redis"] \in pending' /\ [p EXCEPT !.pc = "redis"].from # Home[c]
      BY <2>1, <2>2, <2>4
    <3> QED
      BY <3>1 DEF OnItsWay
  <2>5. CASE p.from = Home[c]
    BY <1>0, <2>1, <2>2, <2>3, <2>5, DeliverReaches DEF OnItsWay
  <2> QED
    BY <2>4, <2>5
<1>9. ASSUME NEW p \in pending, PublishRedis(p)
      PROVE  OnItsWay(c)'
  <2>1. /\ StateMessage(p) \in Message /\ StateMessage(p).channel = "system"
        /\ StateMessage(p).from = p.from
    BY <1>0, StateMessageTyped DEF StateMessage
  <2>2. /\ p.pc = "redis" /\ pending' = pending \ {p} /\ UNCHANGED <<row, clients>>
        /\ wire'[Home[c]] = IF Home[c] # p.from THEN Append(wire[Home[c]], StateMessage(p))
                            ELSE wire[Home[c]]
    BY <1>3, <1>5, <1>9, <2>1 DEF PublishRedis, ToRedis
  <2>3. OnItsWay(c)
    BY <1>3, <2>2 DEF Stale
  <2>4. CASE Home[c] # p.from
    <3> DEFINE w == wire[Home[c]]
               m == StateMessage(p)
    <3>1. w \in Seq(Message) /\ m \in Message /\ wire'[Home[c]] = Append(w, m) /\ m.channel = "system"
      BY <1>5, <2>1, <2>2, <2>4
    <3> HIDE DEF w, m
    <3>2. Len(w) + 1 \in 1..Len(Append(w, m)) /\ Append(w, m)[Len(w) + 1] = m
      BY <3>1
    <3> QED
      BY <3>1, <3>2 DEF OnItsWay
  <2>5. CASE Home[c] = p.from
    BY <2>2, <2>3, <2>5 DEF OnItsWay, Queue
  <2> QED
    BY <2>4, <2>5
<1>10. ASSUME NEW p \in pending, PublishRedisFails(p)
       PROVE  OnItsWay(c)'
  BY <1>1, <1>10 DEF PublishRedisFails
<1>11. ASSUME NEW d \in Clients, Connect(d) \/ Disconnect(d) \/ Snapshot(d) \/ Refetch(d) \/ Pump(d)
       PROVE  OnItsWay(c)'
  <2>1. UNCHANGED <<row, pending, wire>>
    BY <1>11 DEF Connect, Disconnect, Snapshot, Refetch, Pump
  <2>2. CASE d # c
    <3>1. clients'[c] = clients[c]
      BY <1>0, <1>11, <2>2 DEF Connect, Disconnect, Snapshot, Refetch, Pump, QueuesTyped
    <3> QED
      BY <1>3, <2>1, <3>1 DEF OnItsWay, Stale, Queue
  <2>3. CASE d = c /\ Pump(d)
    <3> DEFINE queues == clients[c].queues
               class  == NextClass(queues)
    <3>1. /\ clients'[c].dirty = (clients[c].dirty \/ class = "system") /\ clients[c].dirty \in BOOLEAN
          /\ clients'[c].pc = clients[c].pc /\ clients'[c].shows = clients[c].shows
          /\ clients'[c].queues = [queues EXCEPT ![class] = Tail(@)]
      <4> HIDE DEF queues, class
      <4>1. clients'[c] = [clients[c] EXCEPT !.queues = [queues EXCEPT ![class] = Tail(@)],
                                            !.dirty = @ \/ class = "system"]
        BY <1>0, <2>3 DEF Pump, QueuesTyped, queues, class
      <4> QED
        BY <1>5, <4>1 DEF Client
    <3>2. ~ clients[c].dirty /\ class # "system" /\ Stale(c)
      BY <2>1, <3>1 DEF Stale
    <3>3. clients'[c].queues["system"] = queues["system"]
      <4>1. queues \in [Classes -> Seq(Message)] /\ "system" \in Classes
        BY <1>5 DEF Client, Classes
      <4> HIDE DEF queues, class
      <4> QED
        BY <3>1, <3>2, <4>1
    <3> QED
      BY <1>3, <2>1, <3>2, <3>3 DEF OnItsWay, Queue
  <2>4. CASE d = c /\ (Connect(d) \/ Disconnect(d) \/ Snapshot(d) \/ Refetch(d))
    BY <1>0, <1>5, <2>1, <2>4 DEF Connect, Disconnect, Snapshot, Refetch, QueuesTyped, Client, Stale
  <2> QED
    BY <1>11, <2>2, <2>3, <2>4
<1>12. ASSUME NEW l \in Channels, StreamMessage(l)
       PROVE  OnItsWay(c)'
  <2> DEFINE message == [channel |-> l, from |-> Ingests, number |-> left.updates]
  <2>1. message \in Message /\ Ingests \in Instances
    BY <1>0, NumbersTyped, BusAssumption DEF MessagesTyped, Message, Channels
  <2>2. Deliver(Ingests, message) /\ UNCHANGED <<row, pending, wire>>
    BY <1>12 DEF StreamMessage
  <2> HIDE DEF message
  <2>3. OnItsWay(c) /\ (Queue(c, "system") # <<>> => Queue(c, "system")' # <<>>)
    BY <1>0, <1>3, <2>1, <2>2, DeliverReaches
  <2> QED
    BY <2>2, <2>3 DEF OnItsWay
<1>13. ASSUME NEW l \in Channels, StreamRedis(l)
       PROVE  OnItsWay(c)'
  <2>1. /\ UNCHANGED <<row, pending, clients>> /\ streams[l] \in Message
        /\ \/ wire'[Home[c]] = wire[Home[c]]
           \/ wire'[Home[c]] = Append(wire[Home[c]], streams[l])
    BY <1>0, <1>5, <1>13 DEF StreamRedis, ToRedis, MessagesTyped
  <2>2. \A j \in 1..Len(wire[Home[c]]) : /\ j \in 1..Len(wire'[Home[c]])
                                         /\ wire'[Home[c]][j] = wire[Home[c]][j]
    <3> DEFINE w == wire[Home[c]]
               v == wire'[Home[c]]
               m == streams[l]
    <3>1. w \in Seq(Message) /\ m \in Message /\ (v = w \/ v = Append(w, m))
      BY <1>5, <2>1
    <3> HIDE DEF w, v, m
    <3>2. \A j \in 1..Len(w) : j \in 1..Len(v) /\ v[j] = w[j]
      BY <3>1
    <3> QED
      BY <3>2 DEF w, v
  <2> QED
    BY <1>3, <2>1, <2>2 DEF OnItsWay, Stale, Queue
<1>14. ASSUME NEW l \in Channels, StreamRedisFails(l)
       PROVE  OnItsWay(c)'
  BY <1>1, <1>14 DEF StreamRedisFails
<1>15. CASE \E i \in Instances : Commit(i) \/ Bridge(i) \/ BridgeDies(i)
  <2>1. ASSUME NEW i \in Instances
        PROVE  ~ BridgeDies(i)
    BY <1>1 DEF BridgeDies
  <2> QED
    BY <1>6, <1>7, <1>15, <2>1
<1>16. CASE \E p \in pending : Publish(p) \/ PublishRedis(p) \/ PublishRedisFails(p)
  BY <1>8, <1>9, <1>10, <1>16
<1>17. CASE \E d \in Clients : Connect(d) \/ Snapshot(d) \/ Pump(d) \/ Refetch(d) \/ Disconnect(d)
  BY <1>11, <1>17
<1>18. CASE \E l \in Channels : StreamMessage(l) \/ StreamRedis(l) \/ StreamRedisFails(l)
  BY <1>12, <1>13, <1>14, <1>18
<1> QED
  BY <1>15, <1>16, <1>17, <1>18 DEF Next

LEMMA PageRight ==
  ASSUME BusInv, PageInv
  PROVE  QuietPageIsRight
<1> SUFFICES ASSUME NEW c \in Clients, clients[c].pc = "open", ~ clients[c].dirty,
                    clients[c].queues.system = <<>>, pending = {},
                    \A i \in Instances : wire[i] = <<>>, left.faults = MaxFaults
             PROVE  clients[c].shows = row
  BY DEF QuietPageIsRight
<1>1. wire[Home[c]] = <<>>
  BY BusAssumption
<1>2. ~ OnItsWay(c)
  <2>1. \A j \in 1..Len(wire[Home[c]]) : FALSE
    BY <1>1
  <2> QED
    BY <2>1 DEF OnItsWay, Queue
<1> QED
  BY <1>2 DEF PageInv, Stale

\* As long as Redis did not fail, a page at rest shows the newest state row,
\* whichever process wrote it and however its publication was overtaken
\* (bus.py:180-206, ws.py:43-47, useSystemState.ts:57-60).
THEOREM PageIsRight == Spec => []QuietPageIsRight
<1>1. Init => BusInv /\ PageInv
  <2>1. ASSUME Init
        PROVE  PageInv
    BY <2>1 DEF Init, PageInv, Stale
  <2> QED
    BY <2>1, InitIsFeeds
<1>2. BusInv /\ PageInv /\ [Next]_vars => BusInv' /\ PageInv'
  <2>1. ASSUME PageInv, UNCHANGED vars
        PROVE  PageInv'
    BY <2>1 DEF vars, PageInv, Stale, OnItsWay, Queue
  <2> QED
    BY <2>1, StepIsFeeds, PageKept
<1>3. BusInv /\ PageInv => QuietPageIsRight
  BY PageRight
<1> QED
  BY <1>1, <1>2, <1>3, PTL DEF Spec

-----------------------------------------------------------------------------
(* The streams that publish on the bus: the ticks are asked for again with   *)
(* a delay that has grown with every refusal, for any bounds.                *)

Places == {"closed", "open", "message", "failed", "ended", "publish", "sleep", "dead"}

LoopRecord == [pc : Places, accepted : BOOLEAN, attempt : Nat, at : Nat, size : Nat]

Loops == [Ingestors -> LoopRecord]

LoopsTyped ==
  /\ loops \in Loops
  /\ heard \in Seq(Ingestors)
  /\ refused \in Nat

\* Where the refusal that ended the last connection is counted already and the
\* delay that follows it is still to come.
Delayed == {"failed", "ended", "publish", "sleep", "dead"}

\* A loop is ahead of the refusals by what it has waited for; only an end of an
\* accepted connection lets it start anew, and that ends the refusals as well.
Owed ==
  LET ticks == loops["ticks"] IN
  /\ ticks.pc \notin Delayed => refused <= ticks.attempt
  /\ ticks.pc \in Delayed => refused <= ticks.attempt + 1

LoopsInv == LoopsTyped /\ Owed

-----------------------------------------------------------------------------

LEMMA LoopsInit == StreamsInit => LoopsInv
  BY DEF StreamsInit, LoopsInv, LoopsTyped, Owed, Loops, LoopRecord, Places, Delayed, Ingestors

\* A step from one place to another that counts nothing.
LEMMA GotoKeeps ==
  ASSUME LoopsInv, NEW l \in Ingestors, NEW pc \in Places, Goto(l, pc), UNCHANGED <<heard, refused>>,
         loops[l].pc \in Delayed => pc \in Delayed
  PROVE  LoopsInv'
<1>1. LoopsTyped'
  BY DEF LoopsInv, LoopsTyped, Loops, LoopRecord, Goto
<1>2. CASE l = "ticks"
  BY <1>1, <1>2 DEF LoopsInv, LoopsTyped, Owed, Loops, LoopRecord, Goto
<1>3. CASE l # "ticks"
  <2>1. loops'["ticks"] = loops["ticks"]
    BY <1>3 DEF LoopsInv, LoopsTyped, Loops, LoopRecord, Goto, Ingestors
  <2> QED
    BY <1>1, <2>1 DEF LoopsInv, Owed
<1> QED
  BY <1>2, <1>3

\* The end of a connection: what returns without having been accepted is not of
\* the ticks.
LEMMA FinishKeeps ==
  ASSUME LoopsInv, NEW l \in Ingestors, NEW how, Finish(l, how), heard' = heard,
         loops[l].pc \in {"open", "message"},
         l = "ticks" /\ how # "raises" => loops[l].accepted
  PROVE  LoopsInv'
<1>1. LoopsTyped'
  <2> DEFINE step == [loops[l] EXCEPT !.pc = IF how = "raises" THEN "failed" ELSE "ended",
                                      !.attempt = IF how = "raises" THEN @ ELSE 0]
  <2>1. step \in LoopRecord
    BY DEF LoopsInv, LoopsTyped, Loops, LoopRecord, Places
  <2>2. loops' = [loops EXCEPT ![l] = step]
    BY DEF Finish
  <2> HIDE DEF step
  <2>3. loops' \in Loops
    BY <2>1, <2>2 DEF LoopsInv, LoopsTyped, Loops, LoopRecord
  <2>4. refused' \in Nat
    BY DEF LoopsInv, LoopsTyped, Finish
  <2> QED
    BY <2>3, <2>4 DEF LoopsInv, LoopsTyped
<1>2. CASE l = "ticks"
  <2>1. refused <= loops[l].attempt
    BY <1>2 DEF LoopsInv, Owed, Delayed
  <2>2. refused' <= loops'[l].attempt + 1
    <3>1. CASE how = "raises"
      BY <1>2, <2>1, <3>1 DEF LoopsInv, LoopsTyped, Loops, LoopRecord, Finish
    <3>2. CASE how # "raises"
      BY <1>2, <3>2 DEF LoopsInv, LoopsTyped, Loops, LoopRecord, Finish
    <3> QED
      BY <3>1, <3>2
  <2>3. loops'[l].pc \in Delayed
    BY DEF LoopsInv, LoopsTyped, Loops, LoopRecord, Finish, Delayed
  <2> QED
    BY <1>1, <1>2, <2>2, <2>3 DEF LoopsInv, Owed
<1>3. CASE l # "ticks"
  <2>1. loops'["ticks"] = loops["ticks"] /\ refused' = refused
    BY <1>3 DEF LoopsInv, LoopsTyped, Loops, LoopRecord, Finish, Ingestors
  <2> QED
    BY <1>1, <2>1 DEF LoopsInv, Owed
<1> QED
  BY <1>2, <1>3

-----------------------------------------------------------------------------

LEMMA OpenKeeps ==
  ASSUME LoopsInv, NEW l \in Ingestors, Open(l)
  PROVE  LoopsInv'
<1>1. LoopsTyped'
  BY DEF LoopsInv, LoopsTyped, Loops, LoopRecord, Places, Open
<1>2. loops'["ticks"].attempt = loops["ticks"].attempt
  BY DEF LoopsInv, LoopsTyped, Loops, LoopRecord, Open, Ingestors
<1>3. loops'["ticks"].pc \in Delayed => loops["ticks"].pc \in Delayed
  BY DEF LoopsInv, LoopsTyped, Loops, LoopRecord, Open, Ingestors, Delayed
<1>4. loops["ticks"].pc \in Delayed => loops'["ticks"].pc \in Delayed
  BY DEF LoopsInv, LoopsTyped, Loops, LoopRecord, Open, Ingestors, Delayed
<1> QED
  BY <1>1, <1>2, <1>3, <1>4 DEF LoopsInv, Owed, Open

LEMMA AcceptedKeeps ==
  ASSUME LoopsInv, NEW l \in Ingestors, Accepted(l)
  PROVE  LoopsInv'
<1>1. LoopsTyped'
  BY DEF LoopsInv, LoopsTyped, Loops, LoopRecord, Accepted
<1>2. loops'["ticks"].attempt = loops["ticks"].attempt /\ loops'["ticks"].pc = loops["ticks"].pc
  BY DEF LoopsInv, LoopsTyped, Loops, LoopRecord, Accepted, Ingestors
<1> QED
  BY <1>1, <1>2 DEF LoopsInv, Owed, Accepted

LEMMA ConsumeKeeps ==
  ASSUME LoopsInv, NEW l \in Ingestors, Consume(l)
  PROVE  LoopsInv'
<1>1. LoopsTyped'
  <2>1. loops' \in Loops
    BY DEF LoopsInv, LoopsTyped, Loops, LoopRecord, Places, Consume, Goto
  <2>2. heard' \in Seq(Ingestors)
    BY DEF LoopsInv, LoopsTyped, Consume
  <2> QED
    BY <2>1, <2>2 DEF LoopsInv, LoopsTyped, Consume
<1>2. loops'["ticks"].attempt = loops["ticks"].attempt
  BY DEF LoopsInv, LoopsTyped, Loops, LoopRecord, Consume, Goto, Ingestors
<1>3. loops'["ticks"].pc \in Delayed <=> loops["ticks"].pc \in Delayed
  BY DEF LoopsInv, LoopsTyped, Loops, LoopRecord, Consume, Goto, Ingestors, Delayed
<1> QED
  BY <1>1, <1>2, <1>3 DEF LoopsInv, Owed, Consume

LEMMA SweepKeeps ==
  ASSUME LoopsInv, NEW l \in Ingestors, Sweep(l)
  PROVE  LoopsInv'
<1>1. PICK k \in Ahead(l) :
         /\ loops[l].pc = "ended"
         /\ loops' = [loops EXCEPT ![l].pc = "publish", ![l].at = k,
                                   ![l].size = IF loops[l].at = 0 THEN Len(heard) ELSE @]
         /\ UNCHANGED <<heard, refused>>
  BY DEF Sweep
<1>2. k \in Nat /\ Len(heard) \in Nat
  BY DEF Ahead, LoopsInv, LoopsTyped
<1>3. LoopsTyped'
  <2> DEFINE step == [loops[l] EXCEPT !.pc = "publish", !.at = k,
                                      !.size = IF loops[l].at = 0 THEN Len(heard) ELSE @]
  <2>1. step \in LoopRecord
    BY <1>2 DEF LoopsInv, LoopsTyped, Loops, LoopRecord, Places
  <2>2. loops' = [loops EXCEPT ![l] = step]
    BY <1>1
  <2> HIDE DEF step
  <2>3. loops' \in Loops
    BY <2>1, <2>2 DEF LoopsInv, LoopsTyped, Loops
  <2> QED
    BY <1>1, <2>3 DEF LoopsInv, LoopsTyped
<1>4. loops'["ticks"].attempt = loops["ticks"].attempt
  BY <1>1 DEF LoopsInv, LoopsTyped, Loops, LoopRecord, Ingestors
<1>5. loops'["ticks"].pc \in Delayed <=> loops["ticks"].pc \in Delayed
  BY <1>1 DEF LoopsInv, LoopsTyped, Loops, LoopRecord, Ingestors, Delayed
<1> QED
  BY <1>1, <1>3, <1>4, <1>5 DEF LoopsInv, Owed

LEMMA SweepDoneKeeps ==
  ASSUME LoopsInv, NEW l \in Ingestors, SweepDone(l)
  PROVE  LoopsInv'
<1>1. LoopsTyped'
  <2> DEFINE step == [loops[l] EXCEPT !.pc = "sleep", !.at = 0, !.size = 0]
  <2>1. step \in LoopRecord
    BY DEF LoopsInv, LoopsTyped, Loops, LoopRecord, Places
  <2>2. loops' = [loops EXCEPT ![l] = step]
    BY DEF SweepDone
  <2> HIDE DEF step
  <2>3. loops' \in Loops
    BY <2>1, <2>2 DEF LoopsInv, LoopsTyped, Loops
  <2>4. UNCHANGED <<heard, refused>>
    BY DEF SweepDone
  <2> QED
    BY <2>3, <2>4 DEF LoopsInv, LoopsTyped
<1>2. loops'["ticks"].attempt = loops["ticks"].attempt
  BY DEF LoopsInv, LoopsTyped, Loops, LoopRecord, SweepDone, Ingestors
<1>3. loops'["ticks"].pc \in Delayed <=> loops["ticks"].pc \in Delayed
  BY DEF LoopsInv, LoopsTyped, Loops, LoopRecord, SweepDone, Ingestors, Delayed
<1> QED
  BY <1>1, <1>2, <1>3 DEF LoopsInv, Owed, SweepDone

\* The delay is what pays for the refusal.
LEMMA SleepKeeps ==
  ASSUME LoopsInv, NEW l \in Ingestors, Sleep(l)
  PROVE  LoopsInv'
<1>1. LoopsTyped'
  BY DEF LoopsInv, LoopsTyped, Loops, LoopRecord, Places, Sleep
<1>2. CASE l = "ticks"
  BY <1>1, <1>2 DEF LoopsInv, LoopsTyped, Owed, Loops, LoopRecord, Delayed, Sleep, Ingestors
<1>3. CASE l # "ticks"
  <2>1. loops'["ticks"] = loops["ticks"]
    BY <1>3 DEF LoopsInv, LoopsTyped, Loops, LoopRecord, Sleep, Ingestors
  <2> QED
    BY <1>1, <2>1 DEF LoopsInv, Owed, Sleep
<1> QED
  BY <1>2, <1>3

-----------------------------------------------------------------------------

LEMMA LoopKeeps ==
  ASSUME LoopsInv, NEW l \in Ingestors, Loop(l)
  PROVE  LoopsInv'
<1>1. CASE Open(l)
  BY <1>1, OpenKeeps
<1>2. CASE Handled(l)
  BY <1>2, GotoKeeps DEF Handled, Places, Delayed
<1>3. CASE Record(l)
  BY <1>3, GotoKeeps DEF Record, Places, Delayed
<1>4. CASE Sweep(l)
  BY <1>4, SweepKeeps
<1>5. CASE Published(l)
  BY <1>5, GotoKeeps DEF Published, Places, Delayed
<1>6. CASE Surprised(l)
  BY <1>6, GotoKeeps DEF Surprised, Places, Delayed
<1>7. CASE SweepDone(l)
  BY <1>7, SweepDoneKeeps
<1>8. CASE Overflow(l)
  BY <1>8, GotoKeeps DEF Overflow, Places, Delayed
<1>9. CASE Sleep(l)
  BY <1>9, SleepKeeps
<1> QED
  BY <1>1, <1>2, <1>3, <1>4, <1>5, <1>6, <1>7, <1>8, <1>9 DEF Loop

LEMMA LoopsNext == LoopsInv /\ [StreamsNext]_streamVars => LoopsInv'
<1> SUFFICES ASSUME LoopsInv, [StreamsNext]_streamVars PROVE LoopsInv'
  OBVIOUS
<1>1. CASE UNCHANGED streamVars
  BY <1>1 DEF LoopsInv, LoopsTyped, Owed, streamVars
<1>2. ASSUME NEW l \in Ingestors, Loop(l) PROVE LoopsInv'
  BY <1>2, LoopKeeps
<1>3. ASSUME NEW l \in Ingestors, Accepted(l) PROVE LoopsInv'
  BY <1>3, AcceptedKeeps
<1>4. ASSUME NEW l \in Ingestors, Consume(l) PROVE LoopsInv'
  BY <1>4, ConsumeKeeps
<1>5. ASSUME NEW l \in Ingestors, Breaks(l) PROVE LoopsInv'
  BY <1>5, FinishKeeps DEF Breaks
<1>6. ASSUME NEW l \in Ingestors, Closes(l) PROVE LoopsInv'
  <2> DEFINE how == IF l = "ticks" /\ ~ loops[l].accepted THEN "raises" ELSE "returns"
  <2>1. Finish(l, how) /\ heard' = heard /\ loops[l].pc = "open"
    BY <1>6 DEF Closes
  <2>2. l = "ticks" /\ how # "raises" => loops[l].accepted
    OBVIOUS
  <2> HIDE DEF how
  <2> QED
    BY <2>1, <2>2, FinishKeeps
<1>7. ASSUME NEW l \in Ingestors, GrowsOld(l) PROVE LoopsInv'
  BY <1>7 DEF GrowsOld, LoopsInv, LoopsTyped, Owed
<1>8. ASSUME NEW l \in Ingestors, HandlingFails(l) PROVE LoopsInv'
  BY <1>8, FinishKeeps DEF HandlingFails
<1>9. ASSUME NEW l \in Ingestors, RecordFails(l) \/ PublishFails(l) PROVE LoopsInv'
  BY <1>9, GotoKeeps DEF RecordFails, PublishFails, Dies, Places, Delayed
<1> QED
  BY <1>1, <1>2, <1>3, <1>4, <1>5, <1>6, <1>7, <1>8, <1>9 DEF StreamsNext

\* A broker that refuses the ticks is asked again only after as many delays, each
\* longer than the last, as it has refused (alpaca.py:544, ingest.py:322-344).
THEOREM RefusalsAreWaitedFor == StreamsSpec => []RefusalsWaitLonger
<1>1. LoopsInv => RefusalsWaitLonger
  BY DEF LoopsInv, Owed, RefusalsWaitLonger, Delayed
<1> QED
  BY LoopsInit, LoopsNext, <1>1, PTL DEF StreamsSpec

=============================================================================
