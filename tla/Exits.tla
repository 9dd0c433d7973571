-------------------------------- MODULE Exits --------------------------------
(***************************************************************************)
(* The two jobs that close positions without being asked: the exit job     *)
(* (execution/exits.py), which sells what the agents own when a stop,       *)
(* target or holding time is hit, and the manual take-profit                *)
(* (execution/manual_take_profit.py), which closes every other position     *)
(* that shows a profit.  Both run every minute, each in a session of its    *)
(* own, over the same orders of one symbol.                                 *)
(*                                                                         *)
(* A job decides on what it reads one await after another: the position at  *)
(* the broker, the rows, the broker's open orders, the quote.  In between   *)
(* the traders, the other job, the broker and the stream go on.  A          *)
(* submission is short here: its resend and its races for columns of one    *)
(* row are those of OrderExecution, and so is the queue of the stream.      *)
(***************************************************************************)
EXTENDS Integers, Sequences, FiniteSetsExt

CONSTANTS
  Entries,   \* orders of others: who places them, the side (1 or -1), the shares
  MaxOrders, \* bound: orders in a behaviour, those without a row included
  MaxShares, \* bound: shares bought before in the web interface of the broker
  MaxFaults  \* bound: failed reads and commits, lost answers and crashes

ASSUME EntriesAssumption ==
  Entries \subseteq [by : {"trader", "operator"}, side : {1, -1}, qty : Nat \ {0}]

ASSUME BoundsAssumption ==
  /\ MaxOrders \in Nat
  /\ MaxShares \in Nat
  /\ MaxFaults \in Nat

VARIABLES
  orders,   \* the rows of the symbol, each with what the broker makes of it
  external, \* shares that were bought without a row
  halted,   \* is the trading state halted?
  jobs,     \* what each job is doing, and what it read
  left      \* what remains of MaxFaults

vars == <<orders, external, halted, jobs, left>>

Job == {"exits", "mtp"}

Id == 1..Len(orders)

\* The manual take-profit, too, submits with the origin of the agents.
IsAgent(by) == by # "operator"

\* LIVE_STATUSES: everything but the closing statuses, a failed row among these.
Live == {"pending_risk", "accepted", "partially_filled"}

\* FILLED_STATUSES, by which a position is attributed.
Filled == {"filled", "partially_filled"}

\* Fault: a row that was never answered is nobody's business.
LocalOpenSent == {"accepted", "partially_filled", "failed"}

\* LOCAL_OPEN_STATUSES of the reconciliation.
LocalOpen == Live \cup {"failed"}

\* Shares bought less shares sold, by what the rows say ...
RowNet(ids) == SumFunctionOnSet([i \in Id |-> orders[i].side * orders[i].filled], ids)

\* ... and by what the broker did.
BrokerNet(ids) == SumFunctionOnSet([i \in Id |-> orders[i].side * orders[i].done], ids)

Position == external + BrokerNet(Id)

AgentIds == {i \in Id : IsAgent(orders[i].by)}

Sign(n) == IF n > 0 THEN 1 ELSE -1

\* A long position is sold, a short one is bought back.
CloseSide(position) == IF position > 0 THEN -1 ELSE 1

Abs(n) == IF n < 0 THEN -n ELSE n

\* What the agents own of a position, by the rows of all statuses.
Own(position) == Sign(position) * RowNet(AgentIds)

\* Every other origin has sold what it bought.
OthersFlat == RowNet(Id \ AgentIds) = 0

LiveRow == \E i \in Id : orders[i].status \in Live

OpenAtBroker(ids) == \E i \in ids : orders[i].remote = "open"

\* position_origins: the position is the agents' alone if the rows that count
\* have a rest and one origin and detail, and that is an agent.
PurelyAgent ==
  LET F == {i \in Id : orders[i].status \in Filled} IN
  /\ RowNet(F) # 0
  /\ \E by \in {"trader", "exits", "mtp"} : \A i \in F : orders[i].by = by

NewOrder(by, side, qty) ==
  [by |-> by, side |-> side, qty |-> qty,
   status |-> "pending_risk", filled |-> 0, reason |-> "none",
   stage |-> "send", remote |-> "none", done |-> 0, late |-> FALSE]

IdleJob == [pc |-> "idle", position |-> 0, qty |-> 0]

Init ==
  /\ orders = <<>>
  /\ external \in 0..MaxShares
  /\ halted = FALSE
  /\ jobs = [j \in Job |-> IdleJob]
  /\ left = MaxFaults

Fault ==
  /\ left > 0
  /\ left' = left - 1

-----------------------------------------------------------------------------
(* The exit job.                                                           *)

GoesOn(j, pc) == jobs' = [jobs EXCEPT ![j].pc = pc]

Ends(j) == jobs' = [jobs EXCEPT ![j] = IdleJob]

\* A halted system closes nothing.  The state and the position are read in two
\* awaits; that the state may change in between shows again at Send.
ExitsBegin ==
  /\ jobs["exits"].pc = "idle"
  /\ ~ halted
  /\ Position # 0
  /\ jobs' = [jobs EXCEPT !["exits"] = [IdleJob EXCEPT !.pc = "rows", !.position = Position]]
  /\ UNCHANGED <<orders, external, halted, left>>

\* Fault: the whole position is sold.
ExitsRowsAll ==
  /\ jobs["exits"].pc = "rows"
  /\ IF Own(jobs["exits"].position) > 0 /\ OthersFlat /\ ~ LiveRow
     THEN jobs' = [jobs EXCEPT !["exits"].pc = "open",
                               !["exits"].qty = Abs(jobs["exits"].position)]
     ELSE Ends("exits")
  /\ UNCHANGED <<orders, external, halted, left>>

\* The agents' shares and the live rows come from one SELECT.
ExitsRows ==
  LET own == Own(jobs["exits"].position) IN
  /\ jobs["exits"].pc = "rows"
  /\ IF own > 0 /\ OthersFlat /\ ~ LiveRow
     THEN jobs' = [jobs EXCEPT !["exits"].pc = "open",
                               !["exits"].qty = Min({own, Abs(jobs["exits"].position)})]
     ELSE Ends("exits")
  /\ UNCHANGED <<orders, external, halted, left>>

\* Fault: the rows are trusted to know what is open.
ExitsOpenOrdersUnasked ==
  /\ jobs["exits"].pc = "open"
  /\ GoesOn("exits", "submit")
  /\ UNCHANGED <<orders, external, halted, left>>

ExitsOpenOrders ==
  /\ jobs["exits"].pc = "open"
  /\ IF OpenAtBroker(Id) THEN Ends("exits") ELSE GoesOn("exits", "submit")
  /\ UNCHANGED <<orders, external, halted, left>>

\* The fills are read, the quote is asked for, and evaluate_exits finds neither
\* stop nor target nor holding time reached.
ExitsHold ==
  /\ jobs["exits"].pc = "submit"
  /\ Ends("exits")
  /\ UNCHANGED <<orders, external, halted, left>>

-----------------------------------------------------------------------------
(* The manual take-profit.                                                 *)

\* The operator's toggle is on, or nothing happens.
MtpBegin ==
  /\ jobs["mtp"].pc = "idle"
  /\ ~ halted
  /\ Position # 0
  /\ jobs' = [jobs EXCEPT !["mtp"] = [IdleJob EXCEPT !.pc = "origins", !.position = Position,
                                                     !.qty = Abs(Position)]]
  /\ UNCHANGED <<orders, external, halted, left>>

\* Positions of the agents alone are left to the exit job; of the others those
\* are closed that the broker reported with a profit.
MtpOrigins ==
  /\ jobs["mtp"].pc = "origins"
  /\ \/ ~ PurelyAgent /\ GoesOn("mtp", "rows")
     \/ Ends("mtp")
  /\ UNCHANGED <<orders, external, halted, left>>

MtpRows ==
  /\ jobs["mtp"].pc = "rows"
  /\ IF LiveRow THEN Ends("mtp") ELSE GoesOn("mtp", "open")
  /\ UNCHANGED <<orders, external, halted, left>>

MtpOpenOrders ==
  /\ jobs["mtp"].pc = "open"
  /\ IF OpenAtBroker(Id) THEN Ends("mtp") ELSE GoesOn("mtp", "submit")
  /\ UNCHANGED <<orders, external, halted, left>>

\* The broker or the database does not answer: nothing is closed this time.
ReadFails(j) ==
  /\ jobs[j].pc \in {"rows", "open", "origins"}
  /\ Fault
  /\ Ends(j)
  /\ UNCHANGED <<orders, external, halted>>

-----------------------------------------------------------------------------
(* Submissions: ExecutionAgent.submit for the jobs and for everybody else. *)

\* The row of a market order against the position is committed.
Submit(j) ==
  /\ jobs[j].pc = "submit"
  /\ Len(orders) + external < MaxOrders
  /\ orders' = Append(orders, NewOrder(j, CloseSide(jobs[j].position), jobs[j].qty))
  /\ GoesOn(j, "wait")
  /\ UNCHANGED <<external, halted, left>>

\* A trader of the agents or the operator has placed an order.  Its row was live
\* before the broker knew of it, which makes no difference to the jobs: what they
\* may miss is an order that comes after their last look.
Enter ==
  /\ ~ halted
  /\ Len(orders) + external < MaxOrders
  /\ \E e \in Entries :
       orders' = Append(orders, [NewOrder(e.by, e.side, e.qty) EXCEPT
                                   !.status = "accepted", !.stage = "over", !.remote = "open"])
  /\ UNCHANGED <<external, halted, jobs, left>>

\* A job ends with its submission, whatever happens to the order afterwards.
JobAfter(i) ==
  [j \in Job |-> IF orders[i].stage # "over" /\ orders[i].by = j THEN IdleJob ELSE jobs[j]]

Failed(order, reason) == [order EXCEPT !.status = "failed", !.reason = reason, !.stage = "over"]

\* The state is read again; the order goes out unless the system is halted.
Send(i) ==
  /\ orders[i].stage = "send"
  /\ IF halted
     THEN /\ orders' = [orders EXCEPT ![i] = Failed(@, "halted")]
          /\ jobs' = JobAfter(i)
     ELSE /\ orders' = [orders EXCEPT ![i].stage = "wait", ![i].remote = "wire"]
          /\ UNCHANGED jobs
  /\ UNCHANGED <<external, halted, left>>

\* No answer, a broken connection, a server error: the row fails, the order may
\* be at the broker or on its way.
Unanswered(i) ==
  /\ orders[i].stage = "wait"
  /\ Fault
  /\ orders' = [orders EXCEPT ![i] = Failed(@, "unavailable")]
  /\ jobs' = JobAfter(i)
  /\ UNCHANGED <<external, halted>>

\* The POST timed out and its one resend is refused: as a duplicate, because the
\* first is at the broker, or while that is still on its way.  The row fails like
\* any rejected one, and the order lives.
ResendRefused(i) ==
  /\ orders[i].stage = "wait"
  /\ Fault
  /\ \E where \in {"open", "wire"} :
       orders' = [orders EXCEPT ![i] = [Failed(@, "rejected") EXCEPT !.remote = where]]
  /\ jobs' = JobAfter(i)
  /\ UNCHANGED <<external, halted>>

-----------------------------------------------------------------------------
(* The broker, and how the rows hear of it.                                *)

\* The submission that waits commits the answer.
BrokerAccepts(i) ==
  /\ orders[i].remote = "wire"
  /\ orders[i].stage = "wait"
  /\ orders' = [orders EXCEPT ![i].remote = "open", ![i].status = "accepted", ![i].stage = "over"]
  /\ jobs' = JobAfter(i)
  /\ UNCHANGED <<external, halted, left>>

\* An order that was given up comes to the broker when its job is past the look
\* at the open orders again, or has another one there.
Late(i) ==
  /\ orders[i].stage = "over"
  /\ orders[i].by \in Job
  /\ \/ jobs[orders[i].by].pc \in {"submit", "wait"}
     \/ \E k \in Id \ {i} : orders[k].by = orders[i].by /\ orders[k].remote = "open"

\* The order is accepted, but the commit fails or nobody waits for it any more.
BrokerAcceptsUnheard(i) ==
  /\ orders[i].remote = "wire"
  /\ IF orders[i].stage = "wait" THEN Fault ELSE UNCHANGED left
  /\ orders' = [orders EXCEPT ![i].remote = "open", ![i].late = Late(i), ![i].stage = "over"]
  /\ jobs' = JobAfter(i)
  /\ UNCHANGED <<external, halted>>

\* The broker refuses an order, and does not hold it.
BrokerRejects(i) ==
  /\ orders[i].remote = "wire"
  /\ IF orders[i].stage = "wait"
     THEN /\ orders' = [orders EXCEPT ![i] = [Failed(@, "rejected") EXCEPT !.remote = "none"]]
          /\ jobs' = JobAfter(i)
     ELSE /\ orders' = [orders EXCEPT ![i].remote = "none"]
          /\ UNCHANGED jobs
  /\ UNCHANGED <<external, halted, left>>

BrokerFills(i) ==
  /\ orders[i].remote = "open"
  /\ orders' = [orders EXCEPT
                  ![i].done = @ + 1,
                  ![i].remote = IF orders[i].done + 1 = orders[i].qty THEN "filled" ELSE "open"]
  /\ UNCHANGED <<external, halted, jobs, left>>

BrokerCancels(i) ==
  /\ orders[i].remote = "open"
  /\ orders' = [orders EXCEPT ![i].remote = "canceled"]
  /\ UNCHANGED <<external, halted, jobs, left>>

\* The status a row takes from the broker.
StatusOf(order) ==
  CASE order.remote = "open" /\ order.done = 0 -> "accepted"
    [] order.remote = "open" /\ order.done > 0 -> "partially_filled"
    [] OTHER -> order.remote

\* The stream brings a row up to date, sooner, later or never.
Deliver(i) ==
  /\ orders[i].remote \in {"open", "filled", "canceled"}
  /\ orders' = [orders EXCEPT ![i].status = StatusOf(orders[i]), ![i].filled = orders[i].done]
  /\ UNCHANGED <<external, halted, jobs, left>>

\* What the reconciliation makes of a row.
Reconciled(order) ==
  IF order.status \notin LocalOpen THEN order
  ELSE IF order.remote \in {"none", "wire"}
  THEN [order EXCEPT !.status = "failed",
                     !.reason = IF order.reason = "none" THEN "missing" ELSE @]
  ELSE [order EXCEPT !.status = StatusOf(order), !.filled = order.done]

\* The daily reconciliation brings all of them up to date.
Reconcile ==
  /\ orders' = [i \in Id |-> Reconciled(orders[i])]
  /\ UNCHANGED <<external, halted, jobs, left>>

-----------------------------------------------------------------------------

StateChanges ==
  /\ halted' = ~ halted
  /\ UNCHANGED <<orders, external, jobs, left>>

Crash ==
  /\ Fault
  /\ jobs' = [j \in Job |-> IdleJob]
  /\ orders' = [i \in Id |-> [orders[i] EXCEPT !.stage = "over"]]
  /\ UNCHANGED <<external, halted>>

ExitsSteps == ExitsBegin \/ ExitsRows \/ ExitsOpenOrders \/ ExitsHold \/ Submit("exits")

MtpSteps == MtpBegin \/ MtpOrigins \/ MtpRows \/ MtpOpenOrders \/ Submit("mtp")

Submission(i) == Send(i) \/ Unanswered(i) \/ ResendRefused(i)

BrokerTakes(i) == BrokerAccepts(i) \/ BrokerAcceptsUnheard(i) \/ BrokerRejects(i)

BrokerEnds(i) == BrokerFills(i) \/ BrokerCancels(i)

Next ==
  \/ ExitsSteps
  \/ MtpSteps
  \/ \E j \in Job : ReadFails(j)
  \/ Enter
  \/ \E i \in Id : Submission(i) \/ BrokerTakes(i) \/ BrokerEnds(i) \/ Deliver(i)
  \/ Reconcile
  \/ StateChanges
  \/ Crash

Spec == Init /\ [][Next]_vars

\* The exit job runs every minute and the reconciliation every day, submissions
\* go on, the broker handles or refuses what it is sent and ends market orders.
\* The limit orders of others may stay open, the stream may stay silent.
Fairness ==
  /\ WF_vars(ExitsSteps)
  /\ WF_vars(Reconcile)
  /\ \A i \in 1..MaxOrders :
       /\ WF_vars(i \in Id /\ Submission(i))
       /\ WF_vars(i \in Id /\ BrokerTakes(i))
       /\ WF_vars(i \in Id /\ orders[i].by \in Job /\ BrokerEnds(i))

FairSpec == Spec /\ Fairness

-----------------------------------------------------------------------------
(* Properties.                                                             *)

\* Under way: being submitted, or open at the broker.
UnderWay(i) == orders[i].stage # "over" \/ orders[i].remote = "open"

\* exits.py, manual_take_profit.py: a job never has two closes of one position
\* under way, though each cycle has an id of its own, the rows lag and a row that
\* failed may be alive at the broker; only an order that was given up and reaches
\* the broker behind the back of the next cycle escapes.
OneCloseAtATime ==
  \A i, j \in Id :
    /\ orders[i].by = orders[j].by /\ orders[i].by \in Job
    /\ UnderWay(i) /\ UnderWay(j)
    => i = j \/ orders[i].late \/ orders[j].late

\* A row that was failed, by its submission or by the reconciliation, though its
\* order may be at the broker or get there.
WrittenOff(order) == order.reason \notin {"none", "halted"}

\* exits.py: what the exit job sells is cut by what the agents own, so the shares
\* of the operator are safe, however late the rows are; as long as the exit job is
\* the only one to sell for the agents and no order of it that was written off
\* (unanswered, refused on its resend, missing at the broker) is filled after all.
AgentNeverOversells ==
  (\A i \in AgentIds :
     orders[i].side = 1
     \/ (orders[i].by = "exits" /\ (WrittenOff(orders[i]) => orders[i].done = 0)))
  => BrokerNet(AgentIds) >= 0

\* The agents own the position by the rows, nobody else does, and no order of
\* another is open, which would keep the exit job away.
StopMatters ==
  /\ ~ halted
  /\ Position # 0 /\ Own(Position) > 0 /\ OthersFlat
  /\ ~ OpenAtBroker({i \in Id : orders[i].by \notin Job})

\* exits.py: a stop-loss is not silenced for ever, by a submission that died, a
\* close that was rejected or cancelled, or a row that was never brought up to
\* date: the exit job comes to ask for the quote again.
StopLossIsEvaluated == StopMatters ~> ~ StopMatters \/ jobs["exits"].pc = "submit"

=============================================================================
