--------------------------- MODULE OrderExecution ---------------------------
(***************************************************************************)
(* One order from the request to its final state: ExecutionAgent.submit    *)
(* (execution/agent.py) with the resend of the Alpaca adapter              *)
(* (broker/alpaca.py), the trade-update stream (stream/ingest.py) and the   *)
(* reconciliation job (broker/reconcile.py), all writing the same rows of   *)
(* the orders table from database sessions of their own.                   *)
(*                                                                         *)
(* None of the writers locks a row.  The ORM loads a row, compares the new  *)
(* values with the loaded ones and updates only the columns that differ:    *)
(* that is Updated below, and it is where updates are lost.                 *)
(***************************************************************************)
EXTENDS Integers, Sequences, FiniteSets

CONSTANTS
  Key,         \* idempotency keys
  Body,        \* bodies a client may send with a key
  Flow,        \* slots for submissions that run at the same time
  Qty,         \* shares of an order, each filled on its own
  DriftLimit,  \* RECONCILE_DRIFT_LIMIT
  MaxRequests, \* bound: submissions in a behaviour
  MaxFaults,   \* bound: lost commits, streams and reconciliations
  MaxCrashes   \* bound: process crashes

ASSUME ParametersAssumption ==
  /\ Qty \in Nat \ {0}
  /\ DriftLimit \in Nat
  /\ MaxRequests \in Nat
  /\ MaxFaults \in Nat
  /\ MaxCrashes \in Nat

VARIABLES
  rows,      \* the orders table: client_order_id -> row, or NoRow
  broker,    \* what Alpaca holds under a client_order_id
  wire,      \* POST /v2/orders requests Alpaca has not handled yet
  flows,     \* the submissions
  connected, \* is the trade-update stream open?
  events,    \* trade updates under way, in order
  ingest,    \* the update that is being applied
  recon,     \* the reconciliation job
  halted,    \* is the trading state halted?
  left       \* what remains of the bounds

vars == <<rows, broker, wire, flows, connected, events, ingest, recon, halted, left>>

\* derive_client_order_id hashes the key with the canonical fields of the order.
Order == Key \X Body

NoOrder == <<>>

SameKey(c) == {d \in Order : d[1] = c[1]}

Terminal == {"filled", "canceled"}  \* canceled, expired and rejected behave alike

\* OPEN_ORDER_STATUSES: what Alpaca lists under status=open.
Open == {"accepted", "partially_filled"}

\* Fault: rows whose submission died are not asked about.
LocalOpenSent == Open \cup {"failed"}

\* LOCAL_OPEN_STATUSES: the rows a reconciliation asks Alpaca about.
LocalOpen == Open \cup {"pending_risk", "failed"}

NoRow == [status |-> "absent", filled |-> 0, boid |-> FALSE, reason |-> "none"]

\* A row as submit commits it before the broker hears of the order.
Fresh == [status |-> "pending_risk", filled |-> 0, boid |-> FALSE, reason |-> "none"]

\* The columns whose value changed since the row was loaded are written.
Updated(row, loaded, new) ==
  [col \in DOMAIN row |-> IF new[col] # loaded[col] THEN new[col] ELSE row[col]]

Idle == [pc |-> "idle", order |-> NoOrder, attempt |-> 0,
         answer |-> [status |-> "none", filled |-> 0], reason |-> "none"]

NoUpdate == [order |-> NoOrder, status |-> "none", filled |-> 0, loaded |-> NoRow]

NoRecon == [pc |-> "idle",
            loaded |-> [c \in Order |-> NoRow],
            truth |-> [c \in Order |-> [status |-> "none", filled |-> 0]]]

Init ==
  /\ rows = [c \in Order |-> NoRow]
  /\ broker = [c \in Order |-> [status |-> "none", filled |-> 0]]
  /\ wire = {}
  /\ flows = [f \in Flow |-> Idle]
  /\ connected = TRUE
  /\ events = <<>>
  /\ ingest = NoUpdate
  /\ recon = NoRecon
  /\ halted = FALSE
  /\ left = [requests |-> MaxRequests, faults |-> MaxFaults, crashes |-> MaxCrashes]

Fault ==
  /\ left.faults > 0
  /\ left' = [left EXCEPT !.faults = @ - 1]

-----------------------------------------------------------------------------
(* ExecutionAgent.submit, one action per await.                            *)

\* A client sends a key it may have sent before.  A row under that key ends the
\* request: the same body gets the row back, another body a conflict.
Request(f) ==
  /\ flows[f].pc = "idle"
  /\ left.requests > 0
  /\ left' = [left EXCEPT !.requests = @ - 1]
  /\ \E c \in Order :
       /\ \A d \in SameKey(c) : rows[d] = NoRow
       /\ flows' = [flows EXCEPT ![f] = [Idle EXCEPT !.pc = "insert", !.order = c]]
  /\ UNCHANGED <<rows, broker, wire, connected, events, ingest, recon, halted>>

\* Fault: the row is only flushed, the commit comes with the broker's answer.
InsertUncommitted(f) ==
  /\ flows[f].pc = "insert"
  /\ flows' = [flows EXCEPT ![f].pc = "check"]
  /\ UNCHANGED <<rows, broker, wire, connected, events, ingest, recon, halted, left>>

\* Fault: the key is not unique in the table, only the client_order_id is.
InsertSameKey(f) ==
  /\ flows[f].pc = "insert"
  /\ IF rows[flows[f].order] = NoRow
     THEN /\ rows' = [rows EXCEPT ![flows[f].order] = Fresh]
          /\ flows' = [flows EXCEPT ![f].pc = "check"]
     ELSE /\ flows' = [flows EXCEPT ![f] = Idle]
          /\ UNCHANGED rows
  /\ UNCHANGED <<broker, wire, connected, events, ingest, recon, halted, left>>

\* The row is committed before the broker is called.  client_order_id and
\* idempotency_key are unique columns: the later of two inserts raises.
Insert(f) ==
  LET c == flows[f].order IN
  /\ flows[f].pc = "insert"
  /\ IF \A d \in SameKey(c) : rows[d] = NoRow
     THEN /\ rows' = [rows EXCEPT ![c] = Fresh]
          /\ flows' = [flows EXCEPT ![f].pc = "check"]
     ELSE /\ flows' = [flows EXCEPT ![f] = Idle]
          /\ UNCHANGED rows
  /\ UNCHANGED <<broker, wire, connected, events, ingest, recon, halted, left>>

\* Fault: the state is read only after the order has been sent.
CheckAfterwards(f) ==
  /\ flows[f].pc = "check"
  /\ wire' = wire \cup {[order |-> flows[f].order, attempt |-> 1]}
  /\ flows' = [flows EXCEPT ![f] =
                 IF halted THEN [@ EXCEPT !.pc = "fail", !.reason = "halted"]
                 ELSE [@ EXCEPT !.pc = "posted", !.attempt = 1]]
  /\ UNCHANGED <<rows, broker, connected, events, ingest, recon, halted, left>>

\* The trading state is read once more, past the cache.
Check(f) ==
  /\ flows[f].pc = "check"
  /\ flows' = [flows EXCEPT ![f] =
                 IF halted THEN [@ EXCEPT !.pc = "fail", !.reason = "halted"]
                 ELSE [@ EXCEPT !.pc = "post", !.attempt = 1]]
  /\ UNCHANGED <<rows, broker, wire, connected, events, ingest, recon, halted, left>>

Post(f) ==
  /\ flows[f].pc = "post"
  /\ wire' = wire \cup {[order |-> flows[f].order, attempt |-> flows[f].attempt]}
  /\ flows' = [flows EXCEPT ![f].pc = "posted"]
  /\ UNCHANGED <<rows, broker, connected, events, ingest, recon, halted, left>>

\* Fault: the adapter keeps sending until somebody answers.
TimeoutAgain(f) ==
  /\ flows[f].pc = "posted"
  /\ flows' = [flows EXCEPT ![f].pc = "post", ![f].attempt = @ + 1]
  /\ UNCHANGED <<rows, broker, wire, connected, events, ingest, recon, halted, left>>

\* No answer in time: the adapter sends the same order once more.
Timeout(f) ==
  /\ flows[f].pc = "posted"
  /\ flows' = [flows EXCEPT ![f] =
                 IF @.attempt = 1 THEN [@ EXCEPT !.pc = "post", !.attempt = 2]
                 ELSE [@ EXCEPT !.pc = "fail", !.reason = "unavailable"]]
  /\ UNCHANGED <<rows, broker, wire, connected, events, ingest, recon, halted, left>>

\* A broken connection or a 5xx answer ends the call; the request may still be
\* under way.
NetworkError(f) ==
  /\ flows[f].pc = "posted"
  /\ flows' = [flows EXCEPT ![f].pc = "fail", ![f].reason = "unavailable"]
  /\ UNCHANGED <<rows, broker, wire, connected, events, ingest, recon, halted, left>>

\* _fail: the row is marked failed with its reason.
Fail(f) ==
  LET c == flows[f].order IN
  /\ flows[f].pc = "fail"
  /\ rows' = [rows EXCEPT ![c] =
                Updated(@, Fresh, [Fresh EXCEPT !.status = "failed", !.reason = flows[f].reason])]
  /\ flows' = [flows EXCEPT ![f] = Idle]
  /\ UNCHANGED <<broker, wire, connected, events, ingest, recon, halted, left>>

\* The broker's answer is copied into the row.
Finish(f) ==
  LET c == flows[f].order
      answer == flows[f].answer
  IN
  /\ flows[f].pc = "finish"
  /\ rows' = [rows EXCEPT ![c] =
                Updated(@, Fresh, [Fresh EXCEPT !.status = answer.status,
                                                !.filled = answer.filled,
                                                !.boid = TRUE])]
  /\ flows' = [flows EXCEPT ![f] = Idle]
  /\ UNCHANGED <<broker, wire, connected, events, ingest, recon, halted, left>>

\* The audit entry of the same transaction collides: nothing is written and the
\* caller gets an error.
CommitAborts(f) ==
  /\ flows[f].pc \in {"fail", "finish"}
  /\ Fault
  /\ flows' = [flows EXCEPT ![f] = Idle]
  /\ UNCHANGED <<rows, broker, wire, connected, events, ingest, recon, halted>>

-----------------------------------------------------------------------------
(* Alpaca, as the adapter and the stream see it.                           *)

\* An order is announced on the stream, which loses what happens while closed.
Announce(c, order) ==
  events' = IF connected
            THEN Append(events, [order |-> c, status |-> order.status, filled |-> order.filled])
            ELSE events

\* The submission that waits for the answer to this request, if any still does.
Answered(m, pc, answer, reason) ==
  flows' = [f \in Flow |->
              IF /\ flows[f].pc = "posted"
                 /\ flows[f].order = m.order
                 /\ flows[f].attempt = m.attempt
              THEN [flows[f] EXCEPT !.pc = pc, !.answer = answer, !.reason = reason]
              ELSE flows[f]]

BrokerAccepts(m) ==
  LET accepted == [status |-> "accepted", filled |-> 0] IN
  /\ broker[m.order].status = "none"
  /\ wire' = wire \ {m}
  /\ broker' = [broker EXCEPT ![m.order] = accepted]
  /\ Announce(m.order, accepted)
  /\ Answered(m, "finish", accepted, "none")
  /\ UNCHANGED <<rows, connected, ingest, recon, halted, left>>

\* Insufficient funds, an unknown symbol, or a client_order_id it already has.
BrokerRejects(m) ==
  /\ wire' = wire \ {m}
  /\ Answered(m, "fail", [status |-> "none", filled |-> 0], "rejected")
  /\ UNCHANGED <<rows, broker, connected, events, ingest, recon, halted, left>>

RequestLost(m) ==
  /\ wire' = wire \ {m}
  /\ UNCHANGED <<rows, broker, flows, connected, events, ingest, recon, halted, left>>

BrokerFills(c) ==
  LET filled == broker[c].filled + 1
      order == [status |-> IF filled = Qty THEN "filled" ELSE "partially_filled",
                filled |-> filled]
  IN
  /\ broker[c].status \in Open
  /\ filled <= Qty
  /\ broker' = [broker EXCEPT ![c] = order]
  /\ Announce(c, order)
  /\ UNCHANGED <<rows, wire, flows, connected, ingest, recon, halted, left>>

BrokerCancels(c) ==
  LET order == [broker[c] EXCEPT !.status = "canceled"] IN
  /\ broker[c].status \in Open
  /\ broker' = [broker EXCEPT ![c] = order]
  /\ Announce(c, order)
  /\ UNCHANGED <<rows, wire, flows, connected, ingest, recon, halted, left>>

-----------------------------------------------------------------------------
(* TradeUpdateIngestor: one update at a time, each in a session of its own. *)

ApplyLoads ==
  /\ ingest = NoUpdate
  /\ events # <<>>
  /\ LET e == Head(events) IN
     ingest' = [order |-> e.order, status |-> e.status, filled |-> e.filled,
                loaded |-> rows[e.order]]
  /\ events' = Tail(events)
  /\ UNCHANGED <<rows, broker, wire, flows, connected, recon, halted, left>>

\* Status and filled_qty are overwritten, the broker's id only when missing.
ApplyWrites ==
  LET c == ingest.order IN
  /\ ingest # NoUpdate
  /\ rows' = [rows EXCEPT ![c] =
                Updated(@, ingest.loaded,
                        [ingest.loaded EXCEPT !.status = ingest.status,
                                              !.filled = ingest.filled,
                                              !.boid = TRUE])]
  /\ ingest' = NoUpdate
  /\ UNCHANGED <<broker, wire, flows, connected, events, recon, halted, left>>

\* The stream ends with whatever it carried, the update being applied included.
Disconnect ==
  /\ connected
  /\ Fault
  /\ connected' = FALSE
  /\ events' = <<>>
  /\ ingest' = NoUpdate
  /\ UNCHANGED <<rows, broker, wire, flows, recon, halted>>

Reconnect ==
  /\ ~ connected
  /\ connected' = TRUE
  /\ UNCHANGED <<rows, broker, wire, flows, events, ingest, recon, halted, left>>

-----------------------------------------------------------------------------
(* reconcile(): the end-of-day job, or the operator's reconcile-now.        *)

ReconcileReads ==
  /\ recon.pc = "idle"
  /\ recon' = [NoRecon EXCEPT
                 !.pc = "ask",
                 !.loaded = [c \in Order |-> IF rows[c].status \in LocalOpen THEN rows[c]
                                             ELSE NoRow]]
  /\ UNCHANGED <<rows, broker, wire, flows, connected, events, ingest, halted, left>>

\* get_open_orders, then get_order_by_client_id for every row not among them:
\* each order is seen at one moment between the read and the write of the rows,
\* and one moment for all of them is as good, for no row depends on another.
ReconcileAsks ==
  /\ recon.pc = "ask"
  /\ recon' = [recon EXCEPT !.pc = "write", !.truth = broker]
  /\ UNCHANGED <<rows, broker, wire, flows, connected, events, ingest, halted, left>>

\* _compare: a failed row Alpaca does not know is expected, an open order
\* without a row among the loaded ones is not.
Drifts ==
  {c \in Order :
     LET row == recon.loaded[c]
         remote == recon.truth[c]
     IN
     \/ row # NoRow /\ remote.status # "none"
          /\ (row.status # remote.status \/ row.filled # remote.filled)
     \/ row # NoRow /\ remote.status = "none" /\ row.status # "failed"
     \/ row = NoRow /\ remote.status \in Open}

\* Fault: an order Alpaca does not know is taken for canceled.
CopiedCanceled(row, remote) ==
  IF remote.status # "none"
  THEN [row EXCEPT !.status = remote.status, !.filled = remote.filled]
  ELSE [row EXCEPT !.status = "canceled"]

\* Fault: only an order Alpaca still lists is copied.
CopiedOpenOnly(row, remote) ==
  IF remote.status \in Open
  THEN [row EXCEPT !.status = remote.status, !.filled = remote.filled]
  ELSE row

\* What reconcile() makes of a row that drifted.
Copied(row, remote) ==
  IF remote.status # "none"
  THEN [row EXCEPT !.status = remote.status, !.filled = remote.filled]
  ELSE [row EXCEPT !.status = "failed",
                   !.reason = IF row.reason = "none" THEN "missing" ELSE row.reason]

\* Alpaca's values are copied into the rows that drifted, one transaction.
ReconcileWrites ==
  /\ recon.pc = "write"
  /\ rows' = [c \in Order |->
                IF c \in Drifts /\ recon.loaded[c] # NoRow
                THEN Updated(rows[c], recon.loaded[c], Copied(recon.loaded[c], recon.truth[c]))
                ELSE rows[c]]
  /\ recon' = IF Cardinality(Drifts) > DriftLimit THEN [NoRecon EXCEPT !.pc = "trip"]
              ELSE NoRecon
  /\ UNCHANGED <<broker, wire, flows, connected, events, ingest, halted, left>>

\* More drift than the limit halts the system.
ReconcileTrips ==
  /\ recon.pc = "trip"
  /\ halted' = TRUE
  /\ recon' = NoRecon
  /\ UNCHANGED <<rows, broker, wire, flows, connected, events, ingest, left>>

\* Alpaca cannot be reached, or the audit entry of the transaction collides.
ReconcileFails ==
  /\ recon.pc # "idle"
  /\ Fault
  /\ recon' = NoRecon
  /\ UNCHANGED <<rows, broker, wire, flows, connected, events, ingest, halted>>

-----------------------------------------------------------------------------

\* The trading state changes under the feet of every submission.
StateChanges ==
  /\ halted' = ~ halted
  /\ UNCHANGED <<rows, broker, wire, flows, connected, events, ingest, recon, left>>

\* Only the database, Alpaca and the requests under way survive.
Crash ==
  /\ left.crashes > 0
  /\ left' = [left EXCEPT !.crashes = @ - 1]
  /\ flows' = [f \in Flow |-> Idle]
  /\ connected' = FALSE
  /\ events' = <<>>
  /\ ingest' = NoUpdate
  /\ recon' = NoRecon
  /\ UNCHANGED <<rows, broker, wire, halted>>

\* The awaits of a submission that is already running.
Proceed(f) ==
  \/ Insert(f)
  \/ Check(f)
  \/ Post(f)
  \/ Timeout(f)
  \/ NetworkError(f)
  \/ Fail(f)
  \/ Finish(f)
  \/ CommitAborts(f)

Reconcile ==
  \/ ReconcileReads
  \/ ReconcileAsks
  \/ ReconcileWrites
  \/ ReconcileTrips
  \/ ReconcileFails

Next ==
  \/ \E f \in Flow : Request(f) \/ Proceed(f)
  \/ \E m \in wire : BrokerAccepts(m) \/ BrokerRejects(m) \/ RequestLost(m)
  \/ \E c \in Order : BrokerFills(c) \/ BrokerCancels(c)
  \/ ApplyLoads
  \/ ApplyWrites
  \/ Disconnect
  \/ Reconnect
  \/ Reconcile
  \/ StateChanges
  \/ Crash

Spec == Init /\ [][Next]_vars

\* A submission goes on, a request on the wire arrives or is lost, and the
\* reconciliation runs again every day.  The stream owes nothing.
Fairness ==
  /\ \A f \in Flow : WF_vars(Proceed(f))
  /\ WF_vars(\E m \in wire : BrokerAccepts(m) \/ BrokerRejects(m) \/ RequestLost(m))
  /\ WF_vars(Reconcile)
  /\ WF_vars(ApplyWrites)

FairSpec == Spec /\ Fairness

-----------------------------------------------------------------------------
(* Properties.                                                             *)

RowType == [status : Open \cup Terminal \cup {"absent", "pending_risk", "failed"}, filled : 0..Qty,
            boid : BOOLEAN, reason : {"none", "halted", "rejected", "unavailable", "missing"}]

BrokerType == [status : Open \cup Terminal \cup {"none"}, filled : 0..Qty]

FlowType == [pc : {"idle", "insert", "check", "post", "posted", "fail", "finish"},
             order : Order \cup {NoOrder}, attempt : 0..2, answer : BrokerType,
             reason : {"none", "halted", "rejected", "unavailable"}]

TablesTyped ==
  /\ rows \in [Order -> RowType]
  /\ broker \in [Order -> BrokerType]
  /\ wire \subseteq [order : Order, attempt : 1..2]

FlowsTyped == flows \in [Flow -> FlowType]

StreamTyped ==
  /\ connected \in BOOLEAN
  /\ events \in Seq([order : Order, status : Open \cup Terminal, filled : 0..Qty])
  /\ ingest \in [order : Order \cup {NoOrder}, status : Open \cup Terminal \cup {"none"},
                 filled : 0..Qty, loaded : RowType]

ReconTyped ==
  recon \in [pc : {"idle", "ask", "write", "trip"}, loaded : [Order -> RowType],
             truth : [Order -> BrokerType]]

EnvironmentTyped ==
  /\ halted \in BOOLEAN
  /\ left \in [requests : Nat, faults : Nat, crashes : Nat]

\* Type invariant: every row, broker order, update and answer is well formed.
TypeOK == TablesTyped /\ FlowsTyped /\ StreamTyped /\ ReconTyped /\ EnvironmentTyped

\* The broker may know of this order, now or later.
Sent(c) == broker[c].status # "none" \/ \E m \in wire : m.order = c

\* lld.md 10: the row is committed before the call, so no order is ever "sent
\* but not recorded", whatever crashed, timed out or was lost in between.
RecordedBeforeSent == \A c \in Order : Sent(c) => rows[c].status # "absent"

\* lld.md 9.2: one key places at most one order, also when two requests with
\* different bodies race, the client retries or the adapter sends again.
OneOrderPerKey == \A c, d \in Order : Sent(c) /\ Sent(d) /\ c[1] = d[1] => c = d

\* A final status in the table is the broker's own: the three writers overwrite
\* each other, but none can close a row whose order is still alive.
TerminalStatusIsTrue ==
  \A c \in Order : rows[c].status \in Terminal => broker[c].status = rows[c].status

\* A row that says "halted before submit" was never sent and never will be.
HaltedIsUnsent == \A c \in Order : rows[c].reason = "halted" => ~ Sent(c)

\* lld.md 22: what the stream lost the reconciliation makes up for.  Once the
\* broker has closed an order its row comes to say so for good.
OutcomeIsRecorded ==
  \A c \in Order, s \in Terminal : broker[c].status = s ~> [](rows[c].status = s)

\* A row does not stay pending_risk for ever, even when its submission died.
NothingStaysPending == \A c \in Order : rows[c] = Fresh ~> rows[c] # Fresh

=============================================================================
