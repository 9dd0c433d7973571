----------------------------- MODULE Approvals -----------------------------
(***************************************************************************)
(* The approval queue: the operator's approve and reject                    *)
(* (api/routes_approvals.py) and the TTL reaper (approvals/reaper.py) on    *)
(* the same rows, with the submission that approve runs                     *)
(* (execution/agent.py) while it decides.                                   *)
(*                                                                         *)
(* _locked reads the row FOR UPDATE, but the submission commits the session *)
(* in the middle of approve, and that releases the lock.  What approve      *)
(* writes afterwards it computes from the row it read before.               *)
(***************************************************************************)
EXTENDS Integers, FiniteSets

CONSTANTS
  Approval,     \* approvals, one proposed order each
  Flow,         \* slots for operator requests that run at the same time
  MaxRequests,  \* bound: operator requests in a behaviour
  MaxFaults,    \* bound: commits that fail on the audit chain
  MaxCrashes    \* bound: process crashes

ASSUME BoundsAssumption ==
  /\ MaxRequests \in Nat
  /\ MaxFaults \in Nat
  /\ MaxCrashes \in Nat

VARIABLES
  rows,      \* the approvals table
  due,       \* has expires_at passed?
  decisions, \* outcome of the agent decision behind the approval
  orders,    \* status of the order whose key is the approval's id
  calls,     \* how often submit_order was called for it
  resolved,  \* approval_resolved and approval_expired entries in the audit log
  lock,      \* who holds the row lock
  flows,     \* the operator requests
  reaper,    \* the rows the reaper has loaded
  halted,    \* is the trading state halted?
  left       \* what remains of the bounds

vars == <<rows, due, decisions, orders, calls, resolved, lock, flows, reaper, halted, left>>

NoRow == [state |-> "absent", version |-> 0]
Pending == [state |-> "pending", version |-> 1]

\* state and version of a row that was read as Pending and is resolved; the
\* version is computed from the one that was read.
Resolved(state) == [state |-> state, version |-> Pending.version + 1]

\* RESOLVED_STATES
ResolvedStates == {"approved", "rejected", "expired"}

NoApproval == "no approval"
NoOne == "no one"

ASSUME NoOneAssumption == NoOne \notin Flow

Idle == [pc |-> "idle", approval |-> NoApproval, kind |-> "none", expected |-> 0]

Init ==
  /\ rows = [a \in Approval |-> NoRow]
  /\ due = [a \in Approval |-> FALSE]
  /\ decisions = [a \in Approval |-> "none"]
  /\ orders = [a \in Approval |-> "none"]
  /\ calls = [a \in Approval |-> 0]
  /\ resolved = [a \in Approval |-> 0]
  /\ lock = [a \in Approval |-> NoOne]
  /\ flows = [f \in Flow |-> Idle]
  /\ reaper = {}
  /\ halted = FALSE
  /\ left = [requests |-> MaxRequests, faults |-> MaxFaults, crashes |-> MaxCrashes]

-----------------------------------------------------------------------------
(* The agent proposes and time passes.                                     *)

\* propose_order: an escalated proposal is recorded with its decision.
Create(a) ==
  /\ rows[a] = NoRow
  /\ rows' = [rows EXCEPT ![a] = Pending]
  /\ decisions' = [decisions EXCEPT ![a] = "awaiting_approval"]
  /\ UNCHANGED <<due, orders, calls, resolved, lock, flows, reaper, halted, left>>

FallsDue(a) ==
  /\ rows[a] # NoRow
  /\ ~ due[a]
  /\ due' = [due EXCEPT ![a] = TRUE]
  /\ UNCHANGED <<rows, decisions, orders, calls, resolved, lock, flows, reaper, halted, left>>

-----------------------------------------------------------------------------
(* post_approve and post_reject, one action per await.                     *)

\* The operator answers with the version of the row on the screen.
Request(f) ==
  /\ flows[f].pc = "idle"
  /\ left.requests > 0
  /\ left' = [left EXCEPT !.requests = @ - 1]
  /\ \E a \in Approval, kind \in {"approve", "reject"} :
       /\ rows[a] # NoRow
       /\ flows' = [flows EXCEPT ![f] = [pc |-> "lock", approval |-> a, kind |-> kind,
                                         expected |-> rows[a].version]]
  /\ UNCHANGED <<rows, due, decisions, orders, calls, resolved, lock, reaper, halted>>

\* Not resolved, not due and of the expected version.
Open(a, expected) ==
  /\ rows[a].version = expected
  /\ rows[a].state = "pending"
  /\ ~ due[a]

\* Fault: the row is read without FOR UPDATE.
LockPlain(f) ==
  LET a == flows[f].approval IN
  /\ flows[f].pc = "lock"
  /\ flows' = [flows EXCEPT ![f] =
                 IF Open(a, @.expected)
                 THEN [@ EXCEPT !.pc = IF flows[f].kind = "approve" THEN "evaluate" ELSE "write"]
                 ELSE Idle]
  /\ UNCHANGED <<rows, due, decisions, orders, calls, resolved, lock, reaper, halted, left>>

\* _locked: the row is read and locked, and the request refused unless it is open.
Lock(f) ==
  LET a == flows[f].approval IN
  /\ flows[f].pc = "lock"
  /\ lock[a] = NoOne
  /\ IF Open(a, flows[f].expected)
     THEN /\ lock' = [lock EXCEPT ![a] = f]
          /\ flows' = [flows EXCEPT ![f].pc =
                         IF flows[f].kind = "approve" THEN "evaluate" ELSE "write"]
     ELSE /\ flows' = [flows EXCEPT ![f] = Idle]
          /\ UNCHANGED lock
  /\ UNCHANGED <<rows, due, decisions, orders, calls, resolved, reaper, halted, left>>

\* The session ends and whatever it locked is free again.
Released(f) == [a \in Approval |-> IF lock[a] = f THEN NoOne ELSE lock[a]]

\* Fault: the session of a refused request is not closed.
RefuseUnreleased(f) ==
  /\ flows[f].pc = "evaluate"
  /\ flows' = [flows EXCEPT ![f] = Idle]
  /\ UNCHANGED <<rows, due, decisions, orders, calls, resolved, lock, reaper, halted, left>>

\* The system is halted, the risk agent rejects the order on today's numbers, or
\* the broker cannot say what they are: the row stays pending.
Refuse(f) ==
  /\ flows[f].pc = "evaluate"
  /\ flows' = [flows EXCEPT ![f] = Idle]
  /\ lock' = Released(f)
  /\ UNCHANGED <<rows, due, decisions, orders, calls, resolved, reaper, halted, left>>

\* Fault: every approve places an order of its own, under a new key.
EvaluateNewKey(f) ==
  /\ flows[f].pc = "evaluate"
  /\ ~ halted
  /\ flows' = [flows EXCEPT ![f].pc = "insert"]
  /\ UNCHANGED <<rows, due, decisions, orders, calls, resolved, lock, reaper, halted, left>>

\* submit looks its client_order_id up, which is made from the approval's id: an
\* order that exists is returned as it is, whatever has become of it.
Evaluate(f) ==
  /\ flows[f].pc = "evaluate"
  /\ ~ halted
  /\ flows' = [flows EXCEPT ![f].pc =
                 IF orders[flows[f].approval] = "none" THEN "insert" ELSE "write"]
  /\ UNCHANGED <<rows, due, decisions, orders, calls, resolved, lock, reaper, halted, left>>

\* The order is committed before the call, and the row lock goes with the commit.
Insert(f) ==
  /\ flows[f].pc = "insert"
  /\ orders' = [orders EXCEPT ![flows[f].approval] = "pending_risk"]
  /\ lock' = Released(f)
  /\ flows' = [flows EXCEPT ![f].pc = "check"]
  /\ UNCHANGED <<rows, due, decisions, calls, resolved, reaper, halted, left>>

\* The trading state is read again before the call.
Check(f) ==
  /\ flows[f].pc = "check"
  /\ flows' = [flows EXCEPT ![f].pc = IF halted THEN "fail" ELSE "call"]
  /\ UNCHANGED <<rows, due, decisions, orders, calls, resolved, lock, reaper, halted, left>>

Call(f) ==
  /\ flows[f].pc = "call"
  /\ calls' = [calls EXCEPT ![flows[f].approval] = @ + 1]
  /\ flows' = [flows EXCEPT ![f].pc = "called"]
  /\ UNCHANGED <<rows, due, decisions, orders, resolved, lock, reaper, halted, left>>

\* The broker accepts, rejects or does not answer.
Answer(f) ==
  /\ flows[f].pc = "called"
  /\ \E pc \in {"finish", "fail"} : flows' = [flows EXCEPT ![f].pc = pc]
  /\ UNCHANGED <<rows, due, decisions, orders, calls, resolved, lock, reaper, halted, left>>

\* submit commits the answer; approve goes on with the row it read at first.
Finish(f) ==
  /\ flows[f].pc = "finish"
  /\ orders' = [orders EXCEPT ![flows[f].approval] = "accepted"]
  /\ flows' = [flows EXCEPT ![f].pc = "write"]
  /\ UNCHANGED <<rows, due, decisions, calls, resolved, lock, reaper, halted, left>>

\* _fail commits and raises: approve ends with an error, the row as it was.
Fail(f) ==
  /\ flows[f].pc = "fail"
  /\ orders' = [orders EXCEPT ![flows[f].approval] = "failed"]
  /\ flows' = [flows EXCEPT ![f] = Idle]
  /\ UNCHANGED <<rows, due, decisions, calls, resolved, lock, reaper, halted, left>>

\* The row is updated by its primary key, whatever it says by now.
Write(f) ==
  LET a == flows[f].approval
      approve == flows[f].kind = "approve"
  IN
  /\ flows[f].pc = "write"
  /\ lock[a] \in {f, NoOne}
  /\ rows' = [rows EXCEPT ![a] = Resolved(IF approve THEN "approved" ELSE "rejected")]
  /\ decisions' = IF approve THEN [decisions EXCEPT ![a] = "executed"] ELSE decisions
  /\ resolved' = [resolved EXCEPT ![a] = @ + 1]
  /\ lock' = Released(f)
  /\ flows' = [flows EXCEPT ![f] = Idle]
  /\ UNCHANGED <<due, orders, calls, reaper, halted, left>>

\* A commit fails because the audit entry took the number of another one.
CommitAborts(f) ==
  /\ flows[f].pc \in {"finish", "fail", "write"}
  /\ left.faults > 0
  /\ left' = [left EXCEPT !.faults = @ - 1]
  /\ flows' = [flows EXCEPT ![f] = Idle]
  /\ lock' = Released(f)
  /\ UNCHANGED <<rows, due, decisions, orders, calls, resolved, reaper, halted>>

-----------------------------------------------------------------------------
(* expire_due, every 30 seconds, without a lock.                           *)

\* Fault: rows an order was made for are left to the operator.
DueWithoutOrder == {a \in Approval : rows[a].state = "pending" /\ due[a] /\ orders[a] = "none"}

DueRows == {a \in Approval : rows[a].state = "pending" /\ due[a]}

ReaperLoads ==
  /\ reaper = {}
  /\ DueRows # {}
  /\ reaper' = DueRows
  /\ UNCHANGED <<rows, due, decisions, orders, calls, resolved, lock, flows, halted, left>>

\* The updates wait for the row locks, but not for the rows to be still pending.
ReaperWrites ==
  /\ reaper # {}
  /\ \A a \in reaper : lock[a] = NoOne
  /\ rows' = [a \in Approval |-> IF a \in reaper THEN Resolved("expired") ELSE rows[a]]
  /\ resolved' = [a \in Approval |-> IF a \in reaper THEN resolved[a] + 1 ELSE resolved[a]]
  /\ reaper' = {}
  /\ UNCHANGED <<due, decisions, orders, calls, lock, flows, halted, left>>

ReaperFails ==
  /\ reaper # {}
  /\ left.faults > 0
  /\ left' = [left EXCEPT !.faults = @ - 1]
  /\ reaper' = {}
  /\ UNCHANGED <<rows, due, decisions, orders, calls, resolved, lock, flows, halted>>

-----------------------------------------------------------------------------

StateChanges ==
  /\ halted' = ~ halted
  /\ UNCHANGED <<rows, due, decisions, orders, calls, resolved, lock, flows, reaper, left>>

\* The database survives; its sessions, and with them the locks, do not.
Crash ==
  /\ left.crashes > 0
  /\ left' = [left EXCEPT !.crashes = @ - 1]
  /\ flows' = [f \in Flow |-> Idle]
  /\ lock' = [a \in Approval |-> NoOne]
  /\ reaper' = {}
  /\ UNCHANGED <<rows, due, decisions, orders, calls, resolved, halted>>

\* The awaits of a request that is already running.
Proceed(f) ==
  \/ Lock(f)
  \/ Refuse(f)
  \/ Evaluate(f)
  \/ Insert(f)
  \/ Check(f)
  \/ Call(f)
  \/ Answer(f)
  \/ Finish(f)
  \/ Fail(f)
  \/ Write(f)
  \/ CommitAborts(f)

Reap ==
  \/ ReaperLoads
  \/ ReaperWrites
  \/ ReaperFails

Next ==
  \/ \E a \in Approval : Create(a) \/ FallsDue(a)
  \/ \E f \in Flow : Request(f) \/ Proceed(f)
  \/ Reap
  \/ StateChanges
  \/ Crash

Spec == Init /\ [][Next]_vars

\* A request that runs goes on, and the job is run again and again.  Nothing is
\* owed by the operator, the clock or the trading state.
Fairness == (\A f \in Flow : WF_vars(Proceed(f))) /\ WF_vars(Reap)

FairSpec == Spec /\ Fairness

-----------------------------------------------------------------------------
(* Properties.                                                             *)

\* Type invariant: rows, requests and locks are well formed.
TypeOK ==
  /\ rows \in [Approval -> {NoRow, Pending} \cup {Resolved(s) : s \in ResolvedStates}]
  /\ due \in [Approval -> BOOLEAN]
  /\ decisions \in [Approval -> {"none", "awaiting_approval", "executed"}]
  /\ orders \in [Approval -> {"none", "pending_risk", "accepted", "failed"}]
  /\ calls \in [Approval -> Nat]
  /\ resolved \in [Approval -> Nat]
  /\ lock \in [Approval -> Flow \cup {NoOne}]
  /\ flows \in [Flow -> [pc : {"idle", "lock", "evaluate", "insert", "check", "call", "called",
                               "finish", "fail", "write"},
                         approval : Approval \cup {NoApproval},
                         kind : {"none", "approve", "reject"}, expected : 0..2]]
  /\ reaper \subseteq Approval
  /\ halted \in BOOLEAN
  /\ left \in [requests : Nat, faults : Nat, crashes : Nat]

\* lld.md 9.2, 15.3: however often an approval is approved, by however many
\* requests at once and after whatever failure, the broker is called once.
OneCallPerApproval == \A a \in Approval : calls[a] <= 1

\* spec.md AC-5, AC-6: an order is begun only for a row that is pending at that
\* very moment, though the row was read several awaits before.
OrderOnlyForPending ==
  [][\A a \in Approval :
       orders[a] = "none" /\ orders'[a] # "none" => rows[a].state = "pending"]_vars

\* AC-6: a row past its TTL does not stay pending, with the broker slow, the
\* submission failed, the process restarted or the row locked.
DueIsResolved == \A a \in Approval : rows[a].state = "pending" /\ due[a] ~> rows[a].state # "pending"

\* No request waits for ever for a row lock.
RequestsEnd == \A f \in Flow : flows[f].pc # "idle" ~> flows[f].pc = "idle"

\* AC-5, routes_approvals.py: a rejected proposal is NEVER sent.
RejectedIsNeverSent ==
  [][\A a \in Approval : rows[a].state = "rejected" => calls'[a] = calls[a]]_vars

=============================================================================
