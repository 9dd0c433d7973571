--------------------------------- MODULE Feed --------------------------------
(***************************************************************************)
(* What one web-socket connection is promised (stream/bus.py:3-12): of the  *)
(* messages offered to it, those of "system" and of the ordered channels    *)
(* arrive all and in order, nothing overtakes one of "system", and of the   *)
(* ticks only the oldest are dropped, when more than Buffer wait.           *)
(***************************************************************************)
EXTENDS Naturals, Sequences

CONSTANTS
  Clients,
  Messages,
  Buffer     \* tick_buffer

Classes == {"system", "ordered", "ticks"}

VARIABLES
  offered, \* for each client and class, everything published since it subscribed
  gone,    \* how many of these were received or dropped
  last     \* the message received last

vars == <<offered, gone, last>>

Nothing == [c \in Classes |-> <<>>]

Init ==
  /\ offered = [c \in Clients |-> Nothing]
  /\ gone = [c \in Clients |-> [k \in Classes |-> 0]]
  /\ last = [c \in Clients |-> <<>>]

Waiting(c, class) == Len(offered[c][class]) - gone[c][class]

Subscribe(c) ==
  /\ offered' = [offered EXCEPT ![c] = Nothing]
  /\ gone' = [gone EXCEPT ![c] = [k \in Classes |-> 0]]
  /\ UNCHANGED last

\* The oldest tick gives way to a new one.
Offer(to, class, message) ==
  /\ offered' = [c \in Clients |->
       IF c \in to THEN [offered[c] EXCEPT ![class] = Append(@, message)] ELSE offered[c]]
  /\ gone' = [c \in Clients |->
       IF c \in to /\ class = "ticks" /\ Waiting(c, "ticks") = Buffer
       THEN [gone[c] EXCEPT !["ticks"] = @ + 1] ELSE gone[c]]
  /\ UNCHANGED last

First(c, class) ==
  /\ Waiting(c, class) > 0
  /\ class # "system" => Waiting(c, "system") = 0
  /\ class = "ticks" => Waiting(c, "ordered") = 0

Receive(c, class) ==
  /\ First(c, class)
  /\ last' = [last EXCEPT ![c] = offered[c][class][gone[c][class] + 1]]
  /\ gone' = [gone EXCEPT ![c][class] = @ + 1]
  /\ UNCHANGED offered

Next ==
  \/ \E c \in Clients : Subscribe(c) \/ \E class \in Classes : Receive(c, class)
  \/ \E to \in SUBSET Clients, class \in Classes, message \in Messages : Offer(to, class, message)

Spec == Init /\ [][Next]_vars

=============================================================================
