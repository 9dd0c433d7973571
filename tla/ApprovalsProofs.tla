-------------------------- MODULE ApprovalsProofs --------------------------
(***************************************************************************)
(* What the operator's consent is worth.  First the approval queue in spite *)
(* of the released lock, for any number of approvals, requests, faults and  *)
(* crashes; then what a search proposes, for any grid and scores, and what  *)
(* a confirmation makes live, for any values, requests and tokens.          *)
(***************************************************************************)
EXTENDS Approvals, WalkForward, Tuning, Sums, TLAPS

\* Requests that hold the row lock, and requests whose order is committed.
Holding == {"evaluate", "insert"}
Submitting == {"check", "call", "called", "finish", "fail"}

Busy(f) == flows[f].pc # "idle" => flows[f].approval \in Approval

\* Until its order is committed an approve holds the lock, and the row stays
\* what it was when it was locked ...
HoldersLock ==
  \A f \in Flow : flows[f].pc \in Holding =>
    /\ lock[flows[f].approval] = f
    /\ rows[flows[f].approval] = Pending

InsertIsFirst == \A f \in Flow : flows[f].pc = "insert" => orders[flows[f].approval] = "none"

\* ... and from then on it is the only one that submits this order.
SubmittersInserted ==
  \A f \in Flow : flows[f].pc \in Submitting => orders[flows[f].approval] # "none"

OneSubmitter ==
  \A f, g \in Flow :
    /\ flows[f].pc \in Submitting
    /\ flows[g].pc \in Submitting
    /\ flows[f].approval = flows[g].approval
    => f = g

UncalledBefore ==
  /\ \A a \in Approval : orders[a] = "none" => calls[a] = 0
  /\ \A f \in Flow : flows[f].pc \in {"check", "call"} => calls[flows[f].approval] = 0

Control ==
  /\ \A f \in Flow : Busy(f)
  /\ HoldersLock
  /\ InsertIsFirst
  /\ SubmittersInserted
  /\ OneSubmitter
  /\ UncalledBefore
  /\ OneCallPerApproval

IInv == TypeOK /\ Control

-----------------------------------------------------------------------------

FlowType == [pc : {"idle", "lock", "evaluate", "insert", "check", "call", "called", "finish",
                   "fail", "write"},
             approval : Approval \cup {NoApproval}, kind : {"none", "approve", "reject"},
             expected : 0..2]

LEMMA IdleTyped == Idle \in FlowType /\ Idle.pc = "idle"
BY DEF Idle, FlowType

\* A request that only moves on keeps everything else about itself.
LEMMA MovedOn ==
  ASSUME TypeOK, NEW f \in Flow,
         NEW pc \in {"evaluate", "insert", "check", "call", "called", "finish", "fail", "write"},
         flows' = [flows EXCEPT ![f].pc = pc]
  PROVE  /\ flows' \in [Flow -> FlowType]
         /\ flows'[f].pc = pc
         /\ flows'[f].approval = flows[f].approval
         /\ \A g \in Flow : g # f => flows'[g] = flows[g]
BY DEF TypeOK, FlowType

\* A request that ends leaves the others alone.
LEMMA Ended ==
  ASSUME TypeOK, NEW f \in Flow, flows' = [flows EXCEPT ![f] = Idle]
  PROVE  /\ flows' \in [Flow -> FlowType]
         /\ flows'[f].pc = "idle"
         /\ \A g \in Flow : g # f => flows'[g] = flows[g]
BY IdleTyped DEF TypeOK, FlowType

LEMMA ReleasedTyped ==
  ASSUME TypeOK, NEW f \in Flow, lock' = Released(f)
  PROVE  /\ lock' \in [Approval -> Flow \cup {NoOne}]
         /\ \A a \in Approval : lock[a] # f => lock'[a] = lock[a]
BY DEF TypeOK, Released

LEMMA RowsTyped ==
  /\ Pending.state = "pending"
  /\ \A s \in ResolvedStates : Resolved(s).state = s /\ Resolved(s) # Pending
BY DEF Pending, Resolved, ResolvedStates

-----------------------------------------------------------------------------
(* The steps.  What a step does to the requests and to the tables is typed   *)
(* first, then Control.                                                      *)

\* A step of f that ends it and may write what its order is by now.
LEMMA EndStep ==
  ASSUME IInv, NEW f \in Flow, flows' = [flows EXCEPT ![f] = Idle],
         lock' = Released(f) \/ lock' = lock,
         UNCHANGED <<rows, due, decisions, calls, resolved, reaper, halted>>,
         left' \in [requests : Nat, faults : Nat, crashes : Nat],
         orders' \in [Approval -> {"none", "pending_risk", "accepted", "failed"}],
         \A a \in Approval : orders'[a] = "none" <=> orders[a] = "none"
  PROVE  IInv'
<1>1. /\ flows' \in [Flow -> FlowType] /\ flows'[f].pc = "idle"
      /\ \A g \in Flow : g # f => flows'[g] = flows[g]
  BY Ended DEF IInv
<1>2. /\ lock' \in [Approval -> Flow \cup {NoOne}]
      /\ \A a \in Approval : lock[a] # f => lock'[a] = lock[a]
  BY ReleasedTyped DEF IInv, TypeOK
<1>3. TypeOK'
  BY <1>1, <1>2 DEF IInv, TypeOK, FlowType
<1>4. \A g \in Flow : flows'[g].pc # "idle" => g # f /\ flows'[g] = flows[g] /\ flows'[g].approval \in Approval
  BY <1>1 DEF IInv, Control, Busy
<1>5. (\A g \in Flow : Busy(g)') /\ HoldersLock'
  BY <1>2, <1>4 DEF IInv, Control, Busy, HoldersLock, Holding
<1>6. InsertIsFirst' /\ SubmittersInserted' /\ OneSubmitter'
  BY <1>4 DEF IInv, Control, InsertIsFirst, SubmittersInserted, OneSubmitter, Submitting
<1>7. UncalledBefore' /\ OneCallPerApproval'
  BY <1>4 DEF IInv, Control, UncalledBefore, OneCallPerApproval
<1> QED
  BY <1>3, <1>5, <1>6, <1>7 DEF IInv, Control

LEMMA RefuseStep == ASSUME IInv, NEW f \in Flow, Refuse(f) PROVE IInv'
BY EndStep DEF Refuse, IInv, TypeOK

LEMMA CommitAbortsStep == ASSUME IInv, NEW f \in Flow, CommitAborts(f) PROVE IInv'
<1>1. left' \in [requests : Nat, faults : Nat, crashes : Nat]
  <2>1. left.faults - 1 \in Nat
    BY DEF CommitAborts, IInv, TypeOK
  <2> QED
    BY <2>1 DEF CommitAborts, IInv, TypeOK
<1> QED
  BY <1>1, EndStep DEF CommitAborts, IInv, TypeOK

LEMMA FailStep == ASSUME IInv, NEW f \in Flow, Fail(f) PROVE IInv'
<1>1. flows[f].approval \in Approval /\ orders[flows[f].approval] # "none"
  BY DEF Fail, IInv, Control, Busy, SubmittersInserted, Submitting
<1>2. /\ orders' \in [Approval -> {"none", "pending_risk", "accepted", "failed"}]
      /\ \A a \in Approval : orders'[a] = "none" <=> orders[a] = "none"
  BY <1>1 DEF Fail, IInv, TypeOK
<1> QED
  BY <1>2, EndStep DEF Fail, IInv, TypeOK

\* A step of f that moves it on to pc and leaves the approvals alone.
LEMMA MoveStep ==
  ASSUME IInv, NEW f \in Flow, NEW pc \in {"insert", "check", "call", "called", "finish", "fail", "write"},
         flows[f].pc # "idle",
         flows' = [flows EXCEPT ![f].pc = pc],
         UNCHANGED <<rows, due, decisions, resolved, lock, reaper, halted, left>>,
         orders' \in [Approval -> {"none", "pending_risk", "accepted", "failed"}],
         \A a \in Approval : orders'[a] = "none" <=> orders[a] = "none",
         pc = "insert" => flows[f].pc = "evaluate" /\ orders[flows[f].approval] = "none",
         pc \in Submitting => flows[f].pc \in Submitting,
         pc \in {"check", "call"} => flows[f].pc = "check",
         calls' = calls
  PROVE  IInv'
<1>1. /\ flows' \in [Flow -> FlowType] /\ flows'[f].pc = pc
      /\ flows'[f].approval = flows[f].approval
      /\ \A g \in Flow : g # f => flows'[g] = flows[g]
  BY MovedOn DEF IInv
<1>2. TypeOK'
  BY <1>1 DEF IInv, TypeOK, FlowType
<1>3. \A g \in Flow : flows'[g].approval = flows[g].approval
  BY <1>1
<1>4. (\A g \in Flow : Busy(g)') /\ HoldersLock' /\ InsertIsFirst'
  BY <1>1, <1>3 DEF IInv, Control, Busy, HoldersLock, InsertIsFirst, Holding
<1>5. SubmittersInserted' /\ OneSubmitter'
  BY <1>1, <1>3 DEF IInv, Control, Busy, SubmittersInserted, OneSubmitter, Submitting
<1>6. UncalledBefore' /\ OneCallPerApproval'
  BY <1>1, <1>3 DEF IInv, Control, Busy, UncalledBefore, OneCallPerApproval, Submitting
<1> QED
  BY <1>2, <1>4, <1>5, <1>6 DEF IInv, Control

LEMMA EvaluateStep == ASSUME IInv, NEW f \in Flow, Evaluate(f) PROVE IInv'
<1>1. CASE orders[flows[f].approval] = "none"
  BY <1>1, MoveStep DEF Evaluate, Submitting, IInv, TypeOK
<1>2. CASE orders[flows[f].approval] # "none"
  BY <1>2, MoveStep DEF Evaluate, Submitting, IInv, TypeOK
<1> QED
  BY <1>1, <1>2

LEMMA CheckStep == ASSUME IInv, NEW f \in Flow, Check(f) PROVE IInv'
<1>1. CASE halted
  BY <1>1, MoveStep DEF Check, Submitting, IInv, TypeOK
<1>2. CASE ~ halted
  BY <1>2, MoveStep DEF Check, Submitting, IInv, TypeOK
<1> QED
  BY <1>1, <1>2

LEMMA AnswerStep == ASSUME IInv, NEW f \in Flow, Answer(f) PROVE IInv'
<1>1. PICK pc \in {"finish", "fail"} : flows' = [flows EXCEPT ![f].pc = pc]
  BY DEF Answer
<1> QED
  BY <1>1, MoveStep DEF Answer, Submitting, IInv, TypeOK

LEMMA FinishStep == ASSUME IInv, NEW f \in Flow, Finish(f) PROVE IInv'
<1>1. flows[f].approval \in Approval /\ orders[flows[f].approval] # "none"
  BY DEF Finish, IInv, Control, Busy, SubmittersInserted, Submitting
<1>2. /\ orders' \in [Approval -> {"none", "pending_risk", "accepted", "failed"}]
      /\ \A a \in Approval : orders'[a] = "none" <=> orders[a] = "none"
  BY <1>1 DEF Finish, IInv, TypeOK
<1> QED
  BY <1>2, MoveStep DEF Finish, Submitting

\* The call is made by the one request that submits the order, and it moves on.
LEMMA CallStep == ASSUME IInv, NEW f \in Flow, Call(f) PROVE IInv'
<1> DEFINE a == flows[f].approval
<1>1. a \in Approval /\ flows[f].pc = "call" /\ calls[a] = 0 /\ orders[a] # "none"
  BY DEF Call, IInv, Control, Busy, UncalledBefore, SubmittersInserted, Submitting
<1>2. /\ flows' \in [Flow -> FlowType] /\ flows'[f].pc = "called" /\ flows'[f].approval = a
      /\ \A g \in Flow : g # f => flows'[g] = flows[g]
  BY MovedOn DEF Call, IInv
<1>3. /\ calls' \in [Approval -> Nat] /\ calls'[a] = 1
      /\ \A b \in Approval : b # a => calls'[b] = calls[b]
  BY <1>1 DEF Call, IInv, TypeOK
<1> HIDE DEF a
<1>4. TypeOK'
  BY <1>2, <1>3 DEF Call, IInv, TypeOK, FlowType
<1>5. (\A g \in Flow : Busy(g)') /\ HoldersLock' /\ InsertIsFirst'
  BY <1>1, <1>2 DEF Call, IInv, Control, Busy, HoldersLock, InsertIsFirst, Holding
<1>6. SubmittersInserted' /\ OneSubmitter'
  BY <1>1, <1>2 DEF Call, IInv, Control, SubmittersInserted, OneSubmitter, Submitting, a
<1>7. \A g \in Flow : flows'[g].pc \in {"check", "call"} => g # f /\ flows[g].approval # a
  BY <1>1, <1>2 DEF IInv, Control, OneSubmitter, Submitting, a
<1>8. UncalledBefore' /\ OneCallPerApproval'
  BY <1>1, <1>2, <1>3, <1>7 DEF Call, IInv, Control, Busy, UncalledBefore, OneCallPerApproval
<1> QED
  BY <1>4, <1>5, <1>6, <1>8 DEF IInv, Control

\* The first order of an approval is committed by the holder of its lock.
LEMMA InsertStep == ASSUME IInv, NEW f \in Flow, Insert(f) PROVE IInv'
<1> DEFINE a == flows[f].approval
<1>1. /\ a \in Approval /\ flows[f].pc = "insert" /\ orders[a] = "none" /\ calls[a] = 0
      /\ lock[a] = f
  BY DEF Insert, IInv, Control, Busy, InsertIsFirst, UncalledBefore, HoldersLock, Holding
<1>2. /\ flows' \in [Flow -> FlowType] /\ flows'[f].pc = "check" /\ flows'[f].approval = a
      /\ \A g \in Flow : g # f => flows'[g] = flows[g]
  BY MovedOn DEF Insert, IInv
<1>3. /\ orders' \in [Approval -> {"none", "pending_risk", "accepted", "failed"}]
      /\ orders'[a] = "pending_risk" /\ \A b \in Approval : b # a => orders'[b] = orders[b]
  BY <1>1 DEF Insert, IInv, TypeOK
<1>4. /\ lock' \in [Approval -> Flow \cup {NoOne}]
      /\ \A b \in Approval : lock[b] # f => lock'[b] = lock[b]
  BY ReleasedTyped DEF Insert, IInv
<1>5. TypeOK'
  BY <1>2, <1>3, <1>4 DEF Insert, IInv, TypeOK, FlowType
<1>6. \A g \in Flow : flows[g].pc \in Submitting \cup Holding => g = f \/ flows[g].approval # a
  BY <1>1 DEF IInv, Control, SubmittersInserted, HoldersLock
<1> HIDE DEF a
<1>7. (\A g \in Flow : Busy(g)') /\ HoldersLock' /\ InsertIsFirst'
  <2>1. \A g \in Flow : flows'[g].pc \in Holding =>
          /\ g # f /\ flows'[g] = flows[g] /\ flows[g].approval # a
          /\ flows[g].approval \in Approval /\ lock[flows[g].approval] = g
    BY <1>1, <1>2, <1>6 DEF IInv, Control, Busy, HoldersLock, Holding
  <2> QED
    BY <1>1, <1>2, <1>3, <1>4, <2>1 DEF Insert, IInv, Control, Busy, HoldersLock, InsertIsFirst, Holding
<1>8. SubmittersInserted' /\ OneSubmitter'
  BY <1>1, <1>2, <1>3, <1>6 DEF IInv, Control, Busy, SubmittersInserted, OneSubmitter, Submitting
<1>9. UncalledBefore' /\ OneCallPerApproval'
  BY <1>1, <1>2, <1>3 DEF Insert, IInv, Control, Busy, UncalledBefore, OneCallPerApproval
<1> QED
  BY <1>5, <1>7, <1>8, <1>9 DEF IInv, Control

\* The operator sends a request.
LEMMA RequestStep == ASSUME IInv, NEW f \in Flow, Request(f) PROVE IInv'
<1>1. PICK a \in Approval, kind \in {"approve", "reject"} :
        /\ rows[a] # NoRow
        /\ flows' = [flows EXCEPT ![f] = [pc |-> "lock", approval |-> a, kind |-> kind,
                                          expected |-> rows[a].version]]
  BY DEF Request
<1> DEFINE g == [pc |-> "lock", approval |-> a, kind |-> kind, expected |-> rows[a].version]
<1>2. rows[a].version \in 0..2
  BY DEF IInv, TypeOK, NoRow, Pending, Resolved
<1>3. g \in FlowType /\ g.pc = "lock" /\ g.approval = a
  BY <1>2 DEF FlowType
<1> HIDE DEF g
<1>4. /\ flows' \in [Flow -> FlowType] /\ flows'[f] = g
      /\ \A h \in Flow : h # f => flows'[h] = flows[h]
  BY <1>1, <1>3 DEF IInv, TypeOK, FlowType, g
<1>5. left' \in [requests : Nat, faults : Nat, crashes : Nat]
  <2>1. left.requests - 1 \in Nat
    BY DEF Request, IInv, TypeOK
  <2> QED
    BY <2>1 DEF Request, IInv, TypeOK
<1>6. TypeOK'
  BY <1>4, <1>5 DEF Request, IInv, TypeOK, FlowType
<1>7. Control'
  <2>1. (\A h \in Flow : Busy(h)') /\ HoldersLock' /\ InsertIsFirst'
    BY <1>3, <1>4 DEF Request, IInv, Control, Busy, HoldersLock, InsertIsFirst, Holding
  <2>2. SubmittersInserted' /\ OneSubmitter' /\ UncalledBefore' /\ OneCallPerApproval'
    BY <1>3, <1>4 DEF Request, IInv, Control, SubmittersInserted, OneSubmitter, UncalledBefore,
       OneCallPerApproval, Submitting
  <2> QED
    BY <2>1, <2>2 DEF Control
<1> QED
  BY <1>6, <1>7 DEF IInv

\* Nobody else holds the lock that is taken here.
LEMMA LockStep == ASSUME IInv, NEW f \in Flow, Lock(f) PROVE IInv'
<1> DEFINE a == flows[f].approval
           pc == IF flows[f].kind = "approve" THEN "evaluate" ELSE "write"
<1>1. a \in Approval /\ lock[a] = NoOne
  BY DEF Lock, IInv, Control, Busy
<1>2. CASE ~ Open(a, flows[f].expected)
  BY <1>2, EndStep DEF Lock, IInv, TypeOK
<1>3. CASE Open(a, flows[f].expected)
  <2>1. /\ flows' \in [Flow -> FlowType] /\ flows'[f].pc = pc /\ flows'[f].approval = a
        /\ \A g \in Flow : g # f => flows'[g] = flows[g]
    BY <1>3, MovedOn DEF Lock, IInv
  <2>2. rows[a] = Pending
    BY <1>1, <1>3 DEF Open, IInv, TypeOK, NoRow, Resolved, ResolvedStates
  <2>3. /\ lock' \in [Approval -> Flow \cup {NoOne}] /\ lock'[a] = f
        /\ \A b \in Approval : b # a => lock'[b] = lock[b]
    BY <1>1, <1>3 DEF Lock, IInv, TypeOK
  <2>4. TypeOK'
    BY <2>1, <2>3 DEF Lock, IInv, TypeOK, FlowType
  <2>5. pc \in {"evaluate", "write"}
    OBVIOUS
  <2> HIDE DEF pc, a
  <2>6. \A g \in Flow : flows[g].pc \in Holding => flows[g].approval # a
    BY <1>1, NoOneAssumption DEF IInv, Control, HoldersLock
  <2>7. (\A g \in Flow : Busy(g)') /\ HoldersLock' /\ InsertIsFirst'
    <3>1. \A g \in Flow : flows'[g].pc \in Holding =>
            \/ g = f /\ flows'[g].pc = "evaluate" /\ flows'[g].approval = a
            \/ /\ g # f /\ flows'[g] = flows[g] /\ flows[g].approval # a
               /\ flows[g].approval \in Approval
      BY <2>1, <2>5, <2>6 DEF IInv, Control, Busy, Holding
    <3> QED
      BY <1>1, <2>1, <2>2, <2>3, <2>5, <3>1 DEF Lock, IInv, Control, Busy, HoldersLock,
         InsertIsFirst, Holding
  <2>8. SubmittersInserted' /\ OneSubmitter' /\ UncalledBefore' /\ OneCallPerApproval'
    BY <2>1, <2>5 DEF Lock, IInv, Control, SubmittersInserted, OneSubmitter, UncalledBefore,
       OneCallPerApproval, Submitting
  <2> QED
    BY <2>4, <2>7, <2>8 DEF IInv, Control
<1> QED
  BY <1>2, <1>3

\* A row is resolved while nobody else holds its lock.
LEMMA WriteStep == ASSUME IInv, NEW f \in Flow, Write(f) PROVE IInv'
<1> DEFINE a == flows[f].approval
           state == IF flows[f].kind = "approve" THEN "approved" ELSE "rejected"
<1>1. a \in Approval /\ lock[a] \in {f, NoOne} /\ flows[f].pc = "write"
  BY DEF Write, IInv, Control, Busy
<1>2. state \in ResolvedStates
  BY DEF ResolvedStates
<1>3. rows' = [rows EXCEPT ![a] = Resolved(state)]
  BY DEF Write
<1>4. /\ flows' \in [Flow -> FlowType] /\ flows'[f].pc = "idle"
      /\ \A g \in Flow : g # f => flows'[g] = flows[g]
  BY Ended DEF Write, IInv
<1>5. /\ lock' \in [Approval -> Flow \cup {NoOne}]
      /\ \A b \in Approval : lock[b] # f => lock'[b] = lock[b]
  BY ReleasedTyped DEF Write, IInv
<1>6. decisions' \in [Approval -> {"none", "awaiting_approval", "executed"}]
  BY <1>1 DEF Write, IInv, TypeOK
<1>7. resolved' \in [Approval -> Nat]
  BY <1>1 DEF Write, IInv, TypeOK
<1> HIDE DEF state
<1>8. rows' \in [Approval -> {NoRow, Pending} \cup {Resolved(s) : s \in ResolvedStates}]
      /\ \A b \in Approval : b # a => rows'[b] = rows[b]
  BY <1>1, <1>2, <1>3 DEF IInv, TypeOK
<1>9. TypeOK'
  BY <1>4, <1>5, <1>6, <1>7, <1>8 DEF Write, IInv, TypeOK, FlowType
<1>10. \A g \in Flow : flows'[g].pc \in Holding =>
         /\ g # f /\ flows'[g] = flows[g] /\ flows[g].approval # a
         /\ flows[g].approval \in Approval /\ lock[flows[g].approval] = g
  BY <1>1, <1>4, NoOneAssumption DEF IInv, Control, Busy, HoldersLock, Holding
<1>11. (\A g \in Flow : Busy(g)') /\ HoldersLock' /\ InsertIsFirst'
  BY <1>4, <1>5, <1>8, <1>10 DEF Write, IInv, Control, Busy, HoldersLock, InsertIsFirst, Holding
<1>12. SubmittersInserted' /\ OneSubmitter' /\ UncalledBefore' /\ OneCallPerApproval'
  BY <1>4 DEF Write, IInv, Control, SubmittersInserted, OneSubmitter, UncalledBefore,
     OneCallPerApproval, Submitting
<1> QED
  BY <1>9, <1>11, <1>12 DEF IInv, Control

\* Steps outside the requests: the rows of held locks stay pending.
LEMMA OutsideStep ==
  ASSUME IInv, TypeOK', UNCHANGED <<flows, lock, orders, calls>>,
         \A a \in Approval : rows[a] = Pending /\ lock[a] # NoOne => rows'[a] = Pending
  PROVE  IInv'
<1>1. (\A g \in Flow : Busy(g)') /\ HoldersLock'
  BY NoOneAssumption DEF IInv, Control, Busy, HoldersLock, Holding
<1>2. InsertIsFirst' /\ SubmittersInserted' /\ OneSubmitter' /\ UncalledBefore' /\ OneCallPerApproval'
  BY DEF IInv, Control, InsertIsFirst, SubmittersInserted, OneSubmitter, UncalledBefore,
     OneCallPerApproval
<1> QED
  BY <1>1, <1>2 DEF IInv, Control

LEMMA CreateStep == ASSUME IInv, NEW a \in Approval, Create(a) PROVE IInv'
<1>1. TypeOK'
  BY DEF Create, IInv, TypeOK
<1>2. rows[a] # Pending /\ \A b \in Approval : b # a => rows'[b] = rows[b]
  BY DEF Create, IInv, TypeOK, NoRow, Pending
<1> QED
  BY <1>1, <1>2, OutsideStep DEF Create

LEMMA FallsDueStep == ASSUME IInv, NEW a \in Approval, FallsDue(a) PROVE IInv'
<1>1. TypeOK'
  BY DEF FallsDue, IInv, TypeOK
<1> QED
  BY <1>1, OutsideStep DEF FallsDue

LEMMA ReapStep == ASSUME IInv, Reap PROVE IInv'
<1>1. CASE ReaperLoads
  <2>1. TypeOK'
    BY <1>1 DEF ReaperLoads, DueRows, IInv, TypeOK
  <2> QED
    BY <1>1, <2>1, OutsideStep DEF ReaperLoads
<1>2. CASE ReaperWrites
  <2>1. \A a \in Approval : rows'[a] = IF a \in reaper THEN Resolved("expired") ELSE rows[a]
    BY <1>2 DEF ReaperWrites
  <2>2. rows' \in [Approval -> {NoRow, Pending} \cup {Resolved(s) : s \in ResolvedStates}]
    BY <1>2 DEF ReaperWrites, IInv, TypeOK, ResolvedStates
  <2>3. resolved' \in [Approval -> Nat]
    BY <1>2 DEF ReaperWrites, IInv, TypeOK
  <2>4. TypeOK'
    BY <1>2, <2>2, <2>3 DEF ReaperWrites, IInv, TypeOK
  <2> QED
    BY <1>2, <2>1, <2>4, OutsideStep DEF ReaperWrites
<1>3. CASE ReaperFails
  <2>1. left.faults - 1 \in Nat
    BY <1>3 DEF ReaperFails, IInv, TypeOK
  <2>2. TypeOK'
    BY <1>3, <2>1 DEF ReaperFails, IInv, TypeOK
  <2> QED
    BY <1>3, <2>2, OutsideStep DEF ReaperFails
<1> QED
  BY <1>1, <1>2, <1>3 DEF Reap

LEMMA StateChangesStep == ASSUME IInv, StateChanges PROVE IInv'
<1>1. TypeOK'
  BY DEF StateChanges, IInv, TypeOK
<1> QED
  BY <1>1, OutsideStep DEF StateChanges

LEMMA CrashStep == ASSUME IInv, Crash PROVE IInv'
<1>1. left.crashes - 1 \in Nat
  BY DEF Crash, IInv, TypeOK
<1>2. TypeOK'
  BY <1>1, IdleTyped DEF Crash, IInv, TypeOK, FlowType
<1>3. \A f \in Flow : flows'[f].pc = "idle"
  BY IdleTyped DEF Crash
<1>4. Control'
  BY <1>3 DEF Crash, IInv, Control, Busy, HoldersLock, InsertIsFirst, SubmittersInserted,
     OneSubmitter, UncalledBefore, OneCallPerApproval, Holding, Submitting
<1> QED
  BY <1>2, <1>4 DEF IInv

-----------------------------------------------------------------------------

LEMMA InitIInv == Init => IInv
<1> SUFFICES ASSUME Init PROVE IInv
  OBVIOUS
<1>1. TypeOK
  BY BoundsAssumption, IdleTyped DEF Init, TypeOK, FlowType
<1>2. Control
  BY IdleTyped DEF Init, Control, Busy, HoldersLock, InsertIsFirst, SubmittersInserted,
     OneSubmitter, UncalledBefore, OneCallPerApproval, Holding, Submitting
<1> QED
  BY <1>1, <1>2 DEF IInv

LEMMA NextIInv == IInv /\ [Next]_vars => IInv'
<1> SUFFICES ASSUME IInv, [Next]_vars PROVE IInv'
  OBVIOUS
<1>1. ASSUME NEW a \in Approval, Create(a) \/ FallsDue(a) PROVE IInv'
  BY <1>1, CreateStep, FallsDueStep
<1>2. ASSUME NEW f \in Flow, Request(f) PROVE IInv'
  BY <1>2, RequestStep
<1>3. ASSUME NEW f \in Flow, Proceed(f) PROVE IInv'
  BY <1>3, LockStep, RefuseStep, EvaluateStep, InsertStep, CheckStep, CallStep, AnswerStep,
     FinishStep, FailStep, WriteStep, CommitAbortsStep DEF Proceed
<1>4. CASE Reap \/ StateChanges \/ Crash
  BY <1>4, ReapStep, StateChangesStep, CrashStep
<1>5. CASE UNCHANGED vars
  <2>1. TypeOK'
    BY <1>5 DEF vars, IInv, TypeOK
  <2> QED
    BY <1>5, <2>1, OutsideStep DEF vars
<1> QED
  BY <1>1, <1>2, <1>3, <1>4, <1>5 DEF Next

\* The strengthened invariant holds in every reachable state.
THEOREM Invariant == Spec => []IInv
<1> QED
  BY InitIInv, NextIInv, PTL DEF Spec

\* Rows, requests and locks are well formed.
THEOREM TypeCorrect == Spec => []TypeOK
<1>1. IInv => TypeOK
  BY DEF IInv
<1> QED
  BY <1>1, Invariant, PTL

\* lld.md 9.2, 15.3: the broker is called at most once for an approval.
THEOREM AtMostOneCall == Spec => []OneCallPerApproval
<1>1. IInv => OneCallPerApproval
  BY DEF IInv, Control
<1> QED
  BY <1>1, Invariant, PTL

\* Only Insert begins an order, and the row it holds the lock of is pending.
LEMMA BegunPending ==
  ASSUME IInv, [Next]_vars, NEW a \in Approval, orders[a] = "none", orders'[a] # "none"
  PROVE  rows[a].state = "pending"
<1>1. PICK f \in Flow : Insert(f) \/ Finish(f) \/ Fail(f)
  BY DEF Next, vars, Proceed, Reap, Create, FallsDue, Request, Lock, Refuse, Evaluate, Check, Call,
     Answer, Write, CommitAborts, ReaperLoads, ReaperWrites, ReaperFails, StateChanges, Crash
<1>2. flows[f].approval = a /\ flows[f].pc \in {"insert", "finish", "fail"}
  BY <1>1 DEF Insert, Finish, Fail, IInv, TypeOK
<1>3. flows[f].pc = "insert"
  BY <1>2 DEF IInv, Control, SubmittersInserted, Submitting
<1> QED
  BY <1>2, <1>3, RowsTyped DEF IInv, Control, HoldersLock, Holding

\* spec.md AC-5, AC-6: an order is begun only for a row that is still pending.
THEOREM BegunOnlyForPending == Spec => OrderOnlyForPending
<1>1. IInv /\ [Next]_vars =>
        [\A a \in Approval :
           orders[a] = "none" /\ orders'[a] # "none" => rows[a].state = "pending"]_vars
  BY BegunPending
<1> QED
  BY <1>1, Invariant, PTL DEF Spec, OrderOnlyForPending

-----------------------------------------------------------------------------
(* The search.                                                             *)

LEMMA GridIsFinite == IsFiniteSet(grid) /\ Default \in grid /\ grid \subseteq Nat
<1>1. Minimum \in Int /\ Maximum \in Int
  BY WhitelistAssumption
<1>2. IsFiniteSet(Minimum..Maximum)
  BY <1>1, FS_Interval
<1>3. grid \subseteq Minimum..Maximum
  BY DEF grid
<1>4. Default \in grid /\ grid \subseteq Nat
  BY WhitelistAssumption DEF grid, contains
<1> QED
  BY <1>2, <1>3, <1>4, FS_Subset

LEMMA ScoreIsInt == ASSUME NEW results \in Measured, NEW v \in grid PROVE score(results[v]) \in Int
<1> DEFINE out == [i \in Fold |-> results[v][i].out_of_sample]
<1>1. IsFiniteSet(Fold)
  <2>1. 0 \in Int /\ Folds - 1 \in Int
    BY FoldsAssumption
  <2> QED
    BY <2>1, FS_Interval DEF Fold
<1>2. \A i \in Fold : out[i] \in Int
  BY ScoresAssumption DEF Measured, grid
<1> HIDE DEF out
<1>3. SumFunctionOnSet(out, Fold) \in Int
  BY <1>1, <1>2, SumIsInt
<1> QED
  BY <1>3 DEF score, out

\* The best value is one of the grid.
LEMMA BestIsOnGrid == ASSUME NEW results \in Measured PROVE best(results) \in grid
<1> DEFINE beats(v, w) == \/ score(results[v]) > score(results[w])
                          \/ score(results[v]) = score(results[w]) /\ v <= w
           R == {p \in grid \X grid : beats(p[1], p[2])}
<1>1. \A v \in grid : score(results[v]) \in Int /\ v \in Int
  BY ScoreIsInt, GridIsFinite
<1>2. \A v, w \in grid : <<v, w>> \in R <=> beats(v, w)
  OBVIOUS
<1>3. \A v, w \in grid : beats(v, w) \/ beats(w, v)
  BY <1>1
<1>4. \A v, w, x \in grid : beats(v, w) /\ beats(w, x) => beats(v, x)
  BY <1>1
<1>5. \E v \in grid : \A w \in grid : <<v, w>> \in R
  <2> HIDE DEF R, beats
  <2>1. \A v, w \in grid : <<v, w>> \in R \/ <<w, v>> \in R
    BY <1>2, <1>3
  <2>2. \A v, w, x \in grid : <<v, w>> \in R /\ <<w, x>> \in R => <<v, x>> \in R
    BY <1>2, <1>4
  <2> QED
    BY <2>1, <2>2, GridIsFinite, BestExists
<1>6. \E v \in grid : \A w \in grid : beats(v, w)
  BY <1>2, <1>5
<1> QED
  BY <1>6 DEF best

\* A value on a step is so many steps above the minimum.
LEMMA OnStep ==
  ASSUME NEW v \in grid
  PROVE  v \in Minimum..Maximum /\ \E k \in 0..Maximum : v = Minimum + k * Step
<1> DEFINE n == v - Minimum
           k == n \div Step
<1>1. n \in Nat /\ n % Step = 0 /\ Step \in Nat \ {0} /\ v \in Minimum..Maximum /\ n <= Maximum
  BY WhitelistAssumption DEF grid, contains
<1>2. k \in Int /\ n = k * Step
  <2> HIDE DEF n
  <2> QED
    BY <1>1
<1>3. k \in 0..n
  <2> HIDE DEF n, k
  <2> QED
    BY <1>1, <1>2
<1>4. k \in 0..Maximum /\ v = Minimum + k * Step
  <2>1. v = Minimum + n
    BY <1>1, WhitelistAssumption
  <2>2. k \in 0..Maximum
    <3> HIDE DEF n, k
    <3> QED
      BY <1>1, <1>3, WhitelistAssumption
  <2> HIDE DEF n, k
  <2> QED
    BY <1>2, <2>1, <2>2
<1> HIDE DEF n, k
<1> QED
  BY <1>1, <1>4

\* What the search has been given and what it has answered.
SearchInv ==
  /\ inUse \in Minimum..Maximum /\ measured \in Measured
  /\ proposed \in {NotSearched, search(measured, inUse)}

LEMMA SearchAnswers ==
  ASSUME SearchInv, Proposing
  PROVE  ProposalIsProven
<1> DEFINE top == best(measured)
<1>1. top \in grid /\ measured \in Measured
  BY BestIsOnGrid DEF SearchInv
<1>2. /\ proposed = top
      /\ inUse \in grid => ~ score(measured[top]) <= score(measured[inUse])
      /\ \A i \in Fold : held_up(measured[top][i])
  BY DEF SearchInv, Proposing, search
<1> HIDE DEF top
<1>3. ASSUME inUse \in grid PROVE score(measured[top]) > score(measured[inUse])
  <2>1. score(measured[top]) \in Int /\ score(measured[inUse]) \in Int
    BY <1>1, <1>3, ScoreIsInt
  <2> QED
    BY <1>2, <1>3, <2>1
<1>4. ASSUME NEW i \in Fold
      PROVE  IF measured[top][i].in_sample >= 0
             THEN 2 * measured[top][i].out_of_sample >= measured[top][i].in_sample
             ELSE 2 * measured[top][i].out_of_sample >= 3 * measured[top][i].in_sample
  <2> DEFINE fold == measured[top][i]
  <2>1. fold.in_sample \in Int /\ fold.out_of_sample \in Int
    BY <1>1, ScoresAssumption DEF Measured, grid
  <2>2. 2 * fold.out_of_sample >= 2 * fold.in_sample - AbsScore(fold.in_sample)
    BY <1>2 DEF held_up
  <2> QED
    BY <2>1, <2>2 DEF AbsScore
<1>5. top \in Minimum..Maximum /\ \E k \in 0..Maximum : top = Minimum + k * Step
  BY <1>1, OnStep
<1> QED
  BY <1>2, <1>3, <1>4, <1>5 DEF ProposalIsProven

\* What the search proposes is on the grid, better out of sample than a current value
\* that is on it, and no fold of it collapsed, also when values tie and for the
\* rounding of the band of a fold (search.py:59-73, walkforward.py:34-43).
THEOREM ProposalsAreProven == SearchSpec => []ProposalIsProven
<1>1. SearchInit => SearchInv
  BY DEF SearchInit, SearchInv
<1>2. SearchInv /\ [Search]_searchVars => SearchInv'
  BY DEF SearchInv, Search, searchVars
<1>3. SearchInv => ProposalIsProven
  BY SearchAnswers DEF ProposalIsProven
<1> QED
  BY <1>1, <1>2, <1>3, PTL DEF SearchSpec

-----------------------------------------------------------------------------
(* What is promoted.                                                       *)

\* The places of a list can be put in their order.
LEMMA OrderExists ==
  ASSUME NEW places, IsFiniteSet(places), places \subseteq Nat
  PROVE  \E p \in [1..Cardinality(places) -> places] : \A i, j \in DOMAIN p : i < j => p[i] < p[j]
<1> DEFINE Ordered(s) ==
      \E p \in [1..Cardinality(s) -> s] : \A i, j \in DOMAIN p : i < j => p[i] < p[j]
           T == {s \in SUBSET places : ~ Ordered(s)}
<1> SUFFICES ASSUME T # {} PROVE FALSE
  OBVIOUS
<1>1. PICK s \in T : \A t \in SUBSET s : t # s => t \notin T
  <2>1. T \subseteq SUBSET places
    OBVIOUS
  <2> HIDE DEF T
  <2> QED
    BY <2>1, SmallestSubset
<1>2. IsFiniteSet(s) /\ s \subseteq Nat /\ ~ Ordered(s) /\ s \in SUBSET places
  BY <1>1, FS_Subset
<1>3. CASE s = {}
  <2>1. Cardinality(s) = 0
    BY <1>3, FS_EmptySet
  <2>2. <<>> \in [1..Cardinality(s) -> s] /\ DOMAIN <<>> = {}
    BY <2>1
  <2> QED
    BY <1>2, <2>2
<1>4. CASE s # {}
  <2> DEFINE R == {p \in s \X s : p[1] >= p[2]}
  <2>1. PICK top \in s : \A k \in s : top >= k
    <3>1. \A x, y \in s : <<x, y>> \in R <=> x >= y
      OBVIOUS
    <3> HIDE DEF R
    <3>2. \A x, y \in s : <<x, y>> \in R \/ <<y, x>> \in R
      <4>1. \A x \in s : x \in Int
        BY <1>2
      <4>2. \A x, y \in s : x >= y \/ y >= x
        BY <4>1
      <4> QED
        BY <3>1, <4>2
    <3>3. \A x, y, z \in s : <<x, y>> \in R /\ <<y, z>> \in R => <<x, z>> \in R
      BY <1>2, <3>1
    <3>4. \E x \in s : \A y \in s : <<x, y>> \in R
      BY <1>2, <1>4, <3>2, <3>3, BestExists
    <3> QED
      BY <3>1, <3>4
  <2> DEFINE rest == s \ {top}
             n == Cardinality(rest)
  <2>2. n \in Nat /\ Cardinality(s) = n + 1 /\ IsFiniteSet(rest)
    <3>1. IsFiniteSet(rest) /\ n = Cardinality(s) - 1
      BY <1>2, <2>1, FS_RemoveElement
    <3>2. n \in Nat /\ Cardinality(s) \in Nat
      BY <1>2, <3>1, FS_CardinalityType
    <3> HIDE DEF n
    <3> QED
      BY <3>1, <3>2
  <2>3. PICK p \in [1..n -> rest] : \A i, j \in DOMAIN p : i < j => p[i] < p[j]
    <3>1. rest \in SUBSET s /\ rest # s /\ rest \in SUBSET places
      BY <1>2, <2>1
    <3>2. rest \notin T
      BY <1>1, <3>1
    <3>3. Ordered(rest)
      BY <3>1, <3>2
    <3> QED
      BY <3>3
  <2> DEFINE q == [i \in 1..(n + 1) |-> IF i <= n THEN p[i] ELSE top]
  <2> HIDE DEF n
  <2>4. q \in [1..(n + 1) -> s]
    BY <2>1, <2>2, <2>3
  <2>5. ASSUME NEW i \in 1..(n + 1), NEW j \in 1..(n + 1), i < j PROVE q[i] < q[j]
    <3>1. i \in 1..n /\ q[i] = p[i] /\ p[i] \in rest
      BY <2>2, <2>3, <2>5
    <3>2. CASE j <= n
      <4>1. j \in 1..n /\ q[j] = p[j]
        BY <2>2, <3>2
      <4> QED
        BY <2>3, <2>5, <3>1, <4>1
    <3>3. CASE ~ j <= n
      <4>1. q[j] = top /\ p[i] <= top /\ p[i] # top /\ p[i] \in Nat /\ top \in Nat
        BY <1>2, <2>1, <3>1, <3>3
      <4> QED
        BY <3>1, <4>1
    <3> QED
      BY <3>2, <3>3
  <2>6. DOMAIN q = 1..(n + 1)
    OBVIOUS
  <2> HIDE DEF q
  <2>7. Ordered(s)
    BY <2>2, <2>4, <2>5, <2>6
  <2> QED
    BY <1>2, <2>7
<1> QED
  BY <1>3, <1>4

Places(ids) == {k \in DOMAIN ids : history[ids[k]].applies_to = "paper"}

LEMMA BodiesAre ==
  ASSUME NEW ids \in Bodies
  PROVE  /\ IsFiniteSet(DOMAIN ids) /\ DOMAIN ids \subseteq Nat
         /\ \A k \in DOMAIN ids : ids[k] \in Ids
<1>1. DOMAIN ids \in {{1}, {1, 2}}
  BY DEF Bodies
<1>2. IsFiniteSet({1}) /\ IsFiniteSet({1, 2})
  <2>1. IsFiniteSet({1})
    BY FS_Singleton
  <2>2. IsFiniteSet({1} \cup {2})
    BY <2>1, FS_AddElement
  <2>3. {1, 2} = {1} \cup {2}
    OBVIOUS
  <2> QED
    BY <2>1, <2>2, <2>3
<1> QED
  BY <1>1, <1>2 DEF Bodies

\* A promotion takes each place of its list that is on paper, and once.
LEMMA PapersAre ==
  ASSUME NEW ids \in Bodies
  PROVE  \E n \in Nat : \E p \in [1..n -> Places(ids)] :
           /\ \A i, j \in 1..n : p[i] = p[j] => i = j
           /\ Papers(ids) = [i \in 1..n |-> ids[p[i]]]
<1> DEFINE places == Places(ids)
           n == Cardinality(places)
           p == InOrder(places)
<1>1. IsFiniteSet(places) /\ places \subseteq Nat
  <2>1. places \in SUBSET DOMAIN ids
    BY DEF Places
  <2> QED
    BY <2>1, BodiesAre, FS_Subset
<1>2. n \in Nat
  BY <1>1, FS_CardinalityType
<1>3. p \in [1..n -> places] /\ \A i, j \in DOMAIN p : i < j => p[i] < p[j]
  <2> HIDE DEF places
  <2> QED
    BY <1>1, OrderExists DEF InOrder
<1>4. Papers(ids) = [i \in 1..n |-> ids[p[i]]]
  BY DEF Papers, Places
<1> HIDE DEF n, p, places
<1>5. ASSUME NEW i \in 1..n, NEW j \in 1..n, p[i] = p[j] PROVE i = j
  <2>1. p[i] \in Nat /\ i \in Int /\ j \in Int
    <3>1. p[i] \in places
      BY <1>3
    <3>2. p[i] \in Nat
      BY <1>1, <3>1
    <3>3. 1..n \subseteq Int
      BY <1>2
    <3> QED
      BY <3>2, <3>3
  <2>2. ~ i < j /\ ~ j < i
    BY <1>2, <1>3, <1>5, <2>1
  <2> QED
    BY <2>1, <2>2
<1> QED
  BY <1>2, <1>3, <1>4, <1>5 DEF places

LEMMA TimesOfNamed ==
  ASSUME NEW ids \in Bodies, NEW k \in DOMAIN ids
  PROVE  Times(ids, ids[k]) > 0
<1> DEFINE named == {j \in DOMAIN ids : ids[j] = ids[k]}
<1>1. IsFiniteSet(named)
  <2>1. named \in SUBSET DOMAIN ids
    OBVIOUS
  <2> QED
    BY <2>1, BodiesAre, FS_Subset
<1>2. named # {}
  OBVIOUS
<1> HIDE DEF named
<1>3. Cardinality(named) \in Nat /\ Cardinality(named) # 0
  BY <1>1, <1>2, FS_EmptySet, FS_CardinalityType
<1>4. Cardinality(named) > 0
  BY <1>3
<1> QED
  BY <1>4 DEF Times, named

-----------------------------------------------------------------------------
(* The tables.                                                             *)

By == {<<>>} \cup {<<t>> : t \in Tokens}

HistoryRow ==
  [new_value : Values, walk_forward : SUBSET Keys, applies_to : {"paper", "live"},
   source : Nat, by : By]

Confirmation ==
  [issued : BOOLEAN, consumed : BOOLEAN, expired : BOOLEAN, action : Actions,
   payload : {<<>>} \cup Bodies]

PromoteRequest ==
  [pc : {"idle", "consume", "promote", "commit"}, token : By, ids : {<<>>} \cup Bodies, seq : Nat]

TablesTyped ==
  /\ history \in Seq(HistoryRow)
  /\ tokens \in [Tokens -> Confirmation]
  /\ requests \in [Requests -> PromoteRequest]
  /\ audit \in Nat
  /\ used \in [Tokens -> Nat]
  /\ raced \subseteq Tokens

\* A token stands for the promotion of what the list names.
Confirms(token, ids) ==
  token.issued /\ token.action = "tuning_promote" /\ Same(token.payload, ids)

\* A request goes on with a token that confirms it, promotes only when the use of
\* the token is committed, and commits rows that exist.
RequestConfirmed(r) ==
  requests[r].pc # "idle" =>
    /\ requests[r].ids \in Bodies
    /\ \E t \in Tokens :
         /\ requests[r].token = <<t>> /\ Confirms(tokens[t], requests[r].ids)
         /\ requests[r].pc \in {"promote", "commit"} => tokens[t].consumed
    /\ requests[r].pc = "commit" =>
         \A k \in DOMAIN requests[r].ids : requests[r].ids[k] \in DOMAIN history

\* What a live row says of the row it was made of, and of its token.
MadeOf(row, table) ==
  /\ row.source \in DOMAIN table
  /\ table[row.source].applies_to = "paper"
  /\ table[row.source].new_value = row.new_value
  /\ table[row.source].walk_forward = row.walk_forward

NamedBy(row, confirmations) ==
  \E t \in Tokens :
    /\ row.by = <<t>> /\ confirmations[t].issued /\ confirmations[t].consumed
    /\ confirmations[t].action = "tuning_promote"
    /\ Times(confirmations[t].payload, row.source) > 0

RowExplained(row, table, confirmations) ==
  /\ ValidEvidence(row.walk_forward)
  /\ row.applies_to = "live" => MadeOf(row, table) /\ NamedBy(row, confirmations)
  /\ row.applies_to = "paper" => row.by = <<>>

ConsentInv ==
  /\ TablesTyped
  /\ \A r \in Requests : RequestConfirmed(r)
  /\ \A id \in DOMAIN history : RowExplained(history[id], history, tokens)

LEMMA ConsentInit == TuningInit => ConsentInv
<1> SUFFICES ASSUME TuningInit PROVE ConsentInv
  OBVIOUS
<1>1. history = <<>> /\ history \in Seq(HistoryRow) /\ DOMAIN history = {}
  BY DEF TuningInit
<1>2. Unissued \in Confirmation /\ NoRequest \in PromoteRequest
  BY DEF Unissued, Confirmation, Actions, NoRequest, PromoteRequest, By
<1>3. TablesTyped
  BY <1>1, <1>2 DEF TuningInit, TablesTyped
<1>4. \A r \in Requests : requests[r].pc = "idle"
  BY DEF TuningInit, NoRequest
<1> QED
  BY <1>1, <1>3, <1>4 DEF ConsentInv, RequestConfirmed

\* Rows are never changed and tokens never issued again: what was explained stays so.
LEMMA RowsStayExplained ==
  ASSUME TablesTyped, NEW table, NEW more \in Seq(HistoryRow), NEW confirmations,
         \A id \in DOMAIN history : RowExplained(history[id], history, tokens),
         table = history \o more,
         \A id \in DOMAIN more : RowExplained(more[id], table, confirmations),
         \A t \in Tokens : tokens[t].issued =>
           /\ confirmations[t].issued
           /\ confirmations[t].action = tokens[t].action
           /\ confirmations[t].payload = tokens[t].payload
           /\ tokens[t].consumed => confirmations[t].consumed
  PROVE  /\ table \in Seq(HistoryRow) /\ DOMAIN history \subseteq DOMAIN table
         /\ \A id \in DOMAIN table : RowExplained(table[id], table, confirmations)
<1>1. /\ history \in Seq(HistoryRow) /\ table \in Seq(HistoryRow)
      /\ Len(history) \in Nat /\ Len(more) \in Nat /\ Len(table) = Len(history) + Len(more)
      /\ \A id \in 1..Len(history) : table[id] = history[id]
      /\ \A k \in 1..Len(more) : table[Len(history) + k] = more[k]
  BY DEF TablesTyped
<1>2. DOMAIN history = 1..Len(history) /\ DOMAIN table = 1..Len(table) /\ DOMAIN more = 1..Len(more)
  BY <1>1
<1>3. DOMAIN history \subseteq DOMAIN table
  BY <1>1, <1>2
<1>4. ASSUME NEW id \in DOMAIN history PROVE RowExplained(table[id], table, confirmations)
  <2> DEFINE row == history[id]
  <2>1. table[id] = row /\ RowExplained(row, history, tokens)
    BY <1>1, <1>2
  <2> HIDE DEF row
  <2>2. MadeOf(row, history) => MadeOf(row, table)
    BY <1>1, <1>2, <1>3 DEF MadeOf
  <2>3. NamedBy(row, tokens) => NamedBy(row, confirmations)
    BY DEF NamedBy
  <2> QED
    BY <2>1, <2>2, <2>3 DEF RowExplained
<1>5. ASSUME NEW id \in DOMAIN table, id \notin DOMAIN history
      PROVE  RowExplained(table[id], table, confirmations)
  <2>1. id - Len(history) \in 1..Len(more) /\ id = Len(history) + (id - Len(history))
    BY <1>1, <1>2, <1>5
  <2>2. table[id] = more[id - Len(history)]
    BY <1>1, <2>1
  <2> QED
    BY <1>2, <2>1, <2>2
<1> QED
  BY <1>1, <1>3, <1>4, <1>5

\* A step that adds no row.
LEMMA NothingAdded ==
  ASSUME ConsentInv, history' = history, TablesTyped',
         \A t \in Tokens : tokens[t].issued =>
           /\ tokens'[t].issued
           /\ tokens'[t].action = tokens[t].action
           /\ tokens'[t].payload = tokens[t].payload
           /\ tokens[t].consumed => tokens'[t].consumed,
         NEW s, \A r \in Requests : r # s => requests'[r] = requests[r],
         s \in Requests => RequestConfirmed(s)'
  PROVE  ConsentInv'
<1>1. history' = history \o <<>> /\ <<>> \in Seq(HistoryRow) /\ DOMAIN <<>> = {}
  BY DEF ConsentInv, TablesTyped
<1>2. \A id \in DOMAIN history' : RowExplained(history'[id], history', tokens')
  BY <1>1, RowsStayExplained DEF ConsentInv
<1>3. ASSUME NEW r \in Requests PROVE RequestConfirmed(r)'
  <2>1. CASE r = s
    BY <2>1
  <2>2. CASE r # s
    <3>1. RequestConfirmed(r) /\ requests'[r] = requests[r]
      BY <2>2 DEF ConsentInv
    <3>2. \A t \in Tokens : \A ids : Confirms(tokens[t], ids) =>
            /\ Confirms(tokens'[t], ids)
            /\ tokens[t].consumed => tokens'[t].consumed
      BY DEF Confirms
    <3> QED
      BY <3>1, <3>2 DEF RequestConfirmed
  <2> QED
    BY <2>1, <2>2
<1> QED
  BY <1>2, <1>3 DEF ConsentInv

\* A step that appends rows.
LEMMA RowsAdded ==
  ASSUME ConsentInv, TablesTyped', tokens' = tokens,
         NEW more \in Seq(HistoryRow), history' = history \o more,
         \A id \in DOMAIN more : RowExplained(more[id], history', tokens),
         NEW s, \A r \in Requests : r # s => requests'[r] = requests[r],
         s \in Requests => RequestConfirmed(s)'
  PROVE  ConsentInv'
<1>1. /\ DOMAIN history \subseteq DOMAIN history'
      /\ \A id \in DOMAIN history' : RowExplained(history'[id], history', tokens)
  BY RowsStayExplained DEF ConsentInv
<1>2. ASSUME NEW r \in Requests PROVE RequestConfirmed(r)'
  <2>1. CASE r = s
    BY <2>1
  <2>2. CASE r # s
    <3>1. RequestConfirmed(r) /\ requests'[r] = requests[r]
      BY <2>2 DEF ConsentInv
    <3> QED
      BY <1>1, <3>1 DEF RequestConfirmed
  <2> QED
    BY <2>1, <2>2
<1> QED
  BY <1>1, <1>2 DEF ConsentInv

LEMMA RecordConsent ==
  ASSUME ConsentInv, NEW value \in Values, NEW evidence \in SUBSET Keys, Record(value, evidence)
  PROVE  ConsentInv'
<1> DEFINE row == Row(value, evidence, "paper", 0, <<>>)
<1>1. TablesTyped /\ ValidEvidence(evidence)
  BY DEF ConsentInv, Record
<1>2. /\ row \in HistoryRow /\ row.applies_to = "paper" /\ row.by = <<>>
      /\ row.walk_forward = evidence
  BY <1>1 DEF Row, HistoryRow, By
<1>3. history' = Append(history, row)
  BY DEF Record
<1> HIDE DEF row
<1>4. /\ <<row>> \in Seq(HistoryRow) /\ history' = history \o <<row>>
      /\ history' \in Seq(HistoryRow)
      /\ \A id \in DOMAIN <<row>> : <<row>>[id] = row
  BY <1>1, <1>2, <1>3 DEF TablesTyped
<1>5. RowExplained(row, history', tokens)
  BY <1>1, <1>2 DEF RowExplained
<1>6. TablesTyped'
  BY <1>1, <1>4 DEF TablesTyped, Record
<1>7. tokens' = tokens /\ requests' = requests
  BY DEF Record
<1>8. \A id \in DOMAIN <<row>> : RowExplained(<<row>>[id], history', tokens)
  BY <1>4, <1>5
<1>9. PICK s : s \notin Requests
  BY NoSetContainsEverything
<1> QED
  BY <1>4, <1>6, <1>7, <1>8, <1>9, RowsAdded

LEMMA OtherEntryConsent == ASSUME ConsentInv, OtherEntry PROVE ConsentInv'
<1>1. TablesTyped'
  BY DEF OtherEntry, ConsentInv, TablesTyped
<1>2. history' = history /\ tokens' = tokens /\ requests' = requests
  BY DEF OtherEntry
<1>3. PICK s : s \notin Requests
  BY NoSetContainsEverything
<1> QED
  BY <1>1, <1>2, <1>3, NothingAdded

LEMMA IssueConsent ==
  ASSUME ConsentInv, NEW t \in Tokens, NEW action \in Actions, NEW payload \in Bodies,
         Issue(t, action, payload)
  PROVE  ConsentInv'
<1> DEFINE new == [Unissued EXCEPT !.issued = TRUE, !.action = action, !.payload = payload]
<1>1. new \in Confirmation
  BY DEF Unissued, Confirmation
<1>2. ~ tokens[t].issued /\ tokens' = [tokens EXCEPT ![t] = new]
  BY DEF Issue
<1> HIDE DEF new
<1>3. TablesTyped'
  BY <1>1, <1>2 DEF Issue, ConsentInv, TablesTyped
<1>4. \A u \in Tokens : tokens[u].issued => tokens'[u] = tokens[u]
  BY <1>2 DEF ConsentInv, TablesTyped
<1>5. history' = history /\ requests' = requests
  BY DEF Issue
<1>6. PICK s : s \notin Requests
  BY NoSetContainsEverything
<1> QED
  BY <1>3, <1>4, <1>5, <1>6, NothingAdded

LEMMA ExpireConsent == ASSUME ConsentInv, NEW t \in Tokens, Expire(t) PROVE ConsentInv'
<1>1. tokens[t] \in Confirmation /\ tokens' = [tokens EXCEPT ![t].expired = TRUE]
  BY DEF Expire, ConsentInv, TablesTyped
<1>2. \A u \in Tokens : /\ tokens'[u].issued = tokens[u].issued
                        /\ tokens'[u].action = tokens[u].action
                        /\ tokens'[u].payload = tokens[u].payload
                        /\ tokens[u].consumed => tokens'[u].consumed
  BY <1>1 DEF ConsentInv, TablesTyped, Confirmation
<1>3. TablesTyped'
  BY <1>1 DEF Expire, ConsentInv, TablesTyped, Confirmation
<1>4. history' = history /\ requests' = requests
  BY DEF Expire
<1>5. PICK s : s \notin Requests
  BY NoSetContainsEverything
<1> QED
  BY <1>2, <1>3, <1>4, <1>5, NothingAdded

LEMMA ReadTokenConsent ==
  ASSUME ConsentInv, NEW r \in Requests, NEW t \in Tokens, NEW ids \in Bodies, ReadToken(r, t, ids)
  PROVE  ConsentInv'
<1> DEFINE reading == [NoRequest EXCEPT !.pc = "consume", !.token = <<t>>, !.ids = ids]
<1>1. /\ reading \in PromoteRequest
      /\ reading.pc = "consume" /\ reading.token = <<t>> /\ reading.ids = ids
  BY DEF NoRequest, PromoteRequest, By
<1>2. /\ requests' = [requests EXCEPT ![r] = reading]
      /\ history' = history /\ tokens' = tokens /\ audit' = audit /\ used' = used
      /\ raced' \in {raced, raced \cup {t}}
  BY DEF ReadToken
<1>3. Confirms(tokens[t], ids)
  BY DEF ReadToken, Accepts, Confirms
<1> HIDE DEF reading
<1>4. TablesTyped'
  BY <1>1, <1>2 DEF ConsentInv, TablesTyped
<1>5. requests'[r] = reading /\ \A other \in Requests : other # r => requests'[other] = requests[other]
  BY <1>2 DEF ConsentInv, TablesTyped
<1>6. RequestConfirmed(r)'
  BY <1>1, <1>2, <1>3, <1>5 DEF RequestConfirmed
<1> QED
  BY <1>2, <1>4, <1>5, <1>6, NothingAdded

LEMMA CommitTokenConsent ==
  ASSUME ConsentInv, NEW r \in Requests, CommitToken(r)
  PROVE  ConsentInv'
<1>1. PICK t \in Tokens : requests[r].token = <<t>> /\ Confirms(tokens[t], requests[r].ids)
  BY DEF CommitToken, ConsentInv, RequestConfirmed
<1>2. /\ requests[r].ids \in Bodies
      /\ tokens' = [tokens EXCEPT ![t].consumed = TRUE]
      /\ used' = [used EXCEPT ![t] = @ + 1]
      /\ requests' = [requests EXCEPT ![r].pc = "promote"]
      /\ history' = history /\ audit' = audit /\ raced' = raced
  BY <1>1 DEF CommitToken, ConsentInv, RequestConfirmed
<1>3. requests[r] \in PromoteRequest /\ tokens[t] \in Confirmation /\ used[t] \in Nat
  BY DEF ConsentInv, TablesTyped
<1>4. \A u \in Tokens : /\ tokens'[u].issued = tokens[u].issued
                        /\ tokens'[u].action = tokens[u].action
                        /\ tokens'[u].payload = tokens[u].payload
                        /\ tokens[u].consumed => tokens'[u].consumed
  BY <1>2, <1>3 DEF ConsentInv, TablesTyped, Confirmation
<1>5. TablesTyped'
  <2>1. requests' \in [Requests -> PromoteRequest]
    BY <1>2, <1>3 DEF ConsentInv, TablesTyped, PromoteRequest
  <2>2. tokens' \in [Tokens -> Confirmation]
    BY <1>2, <1>3 DEF ConsentInv, TablesTyped, Confirmation
  <2>3. used' \in [Tokens -> Nat]
    BY <1>2, <1>3 DEF ConsentInv, TablesTyped
  <2> QED
    BY <1>2, <2>1, <2>2, <2>3 DEF ConsentInv, TablesTyped
<1>6. /\ requests'[r].pc = "promote" /\ requests'[r].ids = requests[r].ids
      /\ requests'[r].token = requests[r].token
      /\ \A other \in Requests : other # r => requests'[other] = requests[other]
  BY <1>2, <1>3 DEF ConsentInv, TablesTyped, PromoteRequest
<1>7. Confirms(tokens'[t], requests[r].ids) /\ tokens'[t].consumed
  <2>1. Confirms(tokens'[t], requests[r].ids)
    BY <1>1, <1>4 DEF Confirms
  <2>2. tokens'[t].consumed
    BY <1>2, <1>3 DEF ConsentInv, TablesTyped, Confirmation
  <2> QED
    BY <2>1, <2>2
<1>8. RequestConfirmed(r)'
  BY <1>1, <1>2, <1>6, <1>7 DEF RequestConfirmed
<1> QED
  BY <1>2, <1>4, <1>5, <1>6, <1>8, NothingAdded

\* A request that ends claims nothing.
LEMMA NoRequestIsConfirmed ==
  ASSUME ConsentInv, NEW r \in Requests, requests' = [requests EXCEPT ![r] = NoRequest]
  PROVE  /\ requests' \in [Requests -> PromoteRequest] /\ RequestConfirmed(r)'
         /\ \A other \in Requests : other # r => requests'[other] = requests[other]
<1>1. NoRequest \in PromoteRequest /\ NoRequest.pc = "idle"
  BY DEF NoRequest, PromoteRequest, By
<1>2. requests'[r] = NoRequest /\ requests' \in [Requests -> PromoteRequest]
  BY <1>1 DEF ConsentInv, TablesTyped
<1> QED
  BY <1>1, <1>2 DEF RequestConfirmed, ConsentInv, TablesTyped

LEMMA InterruptedConsent ==
  ASSUME ConsentInv, NEW r \in Requests, Interrupted(r)
  PROVE  ConsentInv'
<1>1. /\ requests' = [requests EXCEPT ![r] = NoRequest]
      /\ history' = history /\ tokens' = tokens /\ audit' = audit /\ used' = used /\ raced' = raced
  BY DEF Interrupted
<1>2. TablesTyped'
  BY <1>1, NoRequestIsConfirmed DEF ConsentInv, TablesTyped
<1> QED
  BY <1>1, <1>2, NoRequestIsConfirmed, NothingAdded

LEMMA PromoteConsent ==
  ASSUME ConsentInv, NEW r \in Requests, Promote(r)
  PROVE  ConsentInv'
<1>1. history' = history /\ tokens' = tokens /\ audit' = audit /\ used' = used /\ raced' = raced
  BY DEF Promote
<1>2. CASE ~ Promotable(requests[r].ids)
  <2>1. requests' = [requests EXCEPT ![r] = NoRequest]
    BY <1>2 DEF Promote, ConsentInv, TablesTyped
  <2>2. TablesTyped'
    BY <1>1, <2>1, NoRequestIsConfirmed DEF ConsentInv, TablesTyped
  <2> QED
    BY <1>1, <2>1, <2>2, NoRequestIsConfirmed, NothingAdded
<1>3. CASE Promotable(requests[r].ids)
  <2>1. requests' = [requests EXCEPT ![r] = [requests[r] EXCEPT !.pc = "commit", !.seq = audit]]
    BY <1>3 DEF Promote, ConsentInv, TablesTyped
  <2>2. requests[r] \in PromoteRequest /\ audit \in Nat
    BY DEF ConsentInv, TablesTyped
  <2>3. /\ requests'[r] \in PromoteRequest
        /\ requests'[r].pc = "commit" /\ requests'[r].ids = requests[r].ids
        /\ requests'[r].token = requests[r].token
        /\ \A other \in Requests : other # r => requests'[other] = requests[other]
    BY <2>1, <2>2 DEF ConsentInv, TablesTyped, PromoteRequest
  <2>4. TablesTyped'
    BY <1>1, <2>1, <2>3 DEF ConsentInv, TablesTyped
  <2>5. requests[r].pc = "promote" /\ RequestConfirmed(r)
    BY DEF Promote, ConsentInv
  <2>6. RequestConfirmed(r)'
    BY <1>1, <1>3, <2>3, <2>5 DEF RequestConfirmed, Promotable
  <2> QED
    BY <1>1, <2>3, <2>4, <2>6, NothingAdded
<1> QED
  BY <1>2, <1>3

\* What a promotion appends: one live row for each place of its list on paper.
LiveRows(r) ==
  [k \in DOMAIN Papers(requests[r].ids) |->
     LET row == history[Papers(requests[r].ids)[k]] IN
     Row(row.new_value, row.walk_forward, "live", Papers(requests[r].ids)[k], requests[r].token)]

\* They stand for n places p of the list, each of them once.
Stand(r, n, p) ==
  /\ \A i, j \in 1..n : p[i] = p[j] => i = j
  /\ LiveRows(r) \in Seq(HistoryRow) /\ DOMAIN LiveRows(r) = 1..n /\ Len(LiveRows(r)) = n
  /\ \A i \in 1..n :
       /\ p[i] \in DOMAIN requests[r].ids
       /\ requests[r].ids[p[i]] \in DOMAIN history
       /\ history[requests[r].ids[p[i]]].applies_to = "paper"
       /\ LiveRows(r)[i].applies_to = "live"
       /\ LiveRows(r)[i].source = requests[r].ids[p[i]]
       /\ LiveRows(r)[i].by = requests[r].token
       /\ LiveRows(r)[i].new_value = history[requests[r].ids[p[i]]].new_value
       /\ LiveRows(r)[i].walk_forward = history[requests[r].ids[p[i]]].walk_forward

LEMMA LiveRowsAre ==
  ASSUME ConsentInv, NEW r \in Requests, requests[r].pc = "commit"
  PROVE  \E n \in Nat : /\ Len(Papers(requests[r].ids)) = n
                       /\ \E p \in [1..n -> Places(requests[r].ids)] : Stand(r, n, p)
<1> DEFINE ids == requests[r].ids
           papers == Papers(ids)
<1>1. /\ ids \in Bodies /\ requests[r].token \in By
      /\ \A k \in DOMAIN ids : ids[k] \in DOMAIN history
  BY DEF ConsentInv, RequestConfirmed, TablesTyped, PromoteRequest
<1> HIDE DEF ids
<1>2. PICK n \in Nat : \E p \in [1..n -> Places(ids)] :
        /\ \A i, j \in 1..n : p[i] = p[j] => i = j
        /\ papers = [i \in 1..n |-> ids[p[i]]]
  BY <1>1, PapersAre
<1>3. PICK p \in [1..n -> Places(ids)] :
        /\ \A i, j \in 1..n : p[i] = p[j] => i = j
        /\ papers = [i \in 1..n |-> ids[p[i]]]
  BY <1>2
<1> HIDE DEF papers
<1>4. DOMAIN papers = 1..n /\ \A i \in 1..n : papers[i] = ids[p[i]]
  BY <1>3
<1>5. papers \in Seq(DOMAIN history) /\ Len(papers) = n
  <2>1. \A i \in 1..n : papers[i] \in DOMAIN history
    BY <1>1, <1>3, <1>4 DEF Places
  <2>2. papers \in [1..n -> DOMAIN history]
    BY <1>3, <2>1
  <2> QED
    BY <1>2, <1>4, <2>2
<1>6. ASSUME NEW i \in 1..n
      PROVE  /\ p[i] \in DOMAIN ids /\ ids[p[i]] \in DOMAIN history
             /\ history[ids[p[i]]].applies_to = "paper"
  BY <1>1, <1>3 DEF Places
<1> DEFINE live(i) ==
      Row(history[papers[i]].new_value, history[papers[i]].walk_forward, "live", papers[i],
          requests[r].token)
<1>7. LiveRows(r) = [i \in 1..n |-> live(i)]
  BY <1>4 DEF LiveRows, papers, ids
<1>8. ASSUME NEW i \in 1..n
      PROVE  /\ live(i) \in HistoryRow
             /\ live(i).applies_to = "live" /\ live(i).source = ids[p[i]]
             /\ live(i).by = requests[r].token
             /\ live(i).new_value = history[ids[p[i]]].new_value
             /\ live(i).walk_forward = history[ids[p[i]]].walk_forward
  <2>1. papers[i] = ids[p[i]] /\ papers[i] \in DOMAIN history
    BY <1>4, <1>6
  <2>2. history[papers[i]] \in HistoryRow /\ papers[i] \in Nat
    BY <2>1 DEF ConsentInv, TablesTyped
  <2> QED
    BY <1>1, <2>1, <2>2 DEF Row, HistoryRow
<1> HIDE DEF live
<1>9. /\ LiveRows(r) \in [1..n -> HistoryRow] /\ DOMAIN LiveRows(r) = 1..n
      /\ \A i \in 1..n : LiveRows(r)[i] = live(i)
  BY <1>7, <1>8
<1>10. LiveRows(r) \in Seq(HistoryRow) /\ Len(LiveRows(r)) = n
  BY <1>2, <1>9
<1>11. \A i \in 1..n :
         /\ p[i] \in DOMAIN ids
         /\ ids[p[i]] \in DOMAIN history
         /\ history[ids[p[i]]].applies_to = "paper"
         /\ LiveRows(r)[i].applies_to = "live"
         /\ LiveRows(r)[i].source = ids[p[i]]
         /\ LiveRows(r)[i].by = requests[r].token
         /\ LiveRows(r)[i].new_value = history[ids[p[i]]].new_value
         /\ LiveRows(r)[i].walk_forward = history[ids[p[i]]].walk_forward
  BY <1>6, <1>8, <1>9
<1>12. Len(papers) = n
  BY <1>5
<1>13. Stand(r, n, p)
  BY <1>3, <1>9, <1>10, <1>11 DEF Stand, ids
<1> QED
  BY <1>2, <1>3, <1>12, <1>13 DEF ids, papers

\* A promotion leaves the history alone or appends its live rows to it.
LEMMA CommitPromotionDoes ==
  ASSUME ConsentInv, NEW r \in Requests, CommitPromotion(r)
  PROVE  /\ requests[r].pc = "commit" /\ requests' = [requests EXCEPT ![r] = NoRequest]
         /\ tokens' = tokens /\ used' = used /\ raced' = raced /\ audit' \in Nat
         /\ history' = history \/ history' = history \o LiveRows(r)
<1>1. /\ requests[r].pc = "commit" /\ requests' = [requests EXCEPT ![r] = NoRequest]
      /\ tokens' = tokens /\ used' = used /\ raced' = raced
      /\ \/ history' = history /\ audit' = audit
         \/ /\ history' = history \o LiveRows(r)
            /\ audit' = audit + Len(Papers(requests[r].ids))
  BY DEF CommitPromotion, LiveRows
<1>2. Len(Papers(requests[r].ids)) \in Nat
  BY <1>1, LiveRowsAre
<1>3. audit \in Nat
  BY DEF ConsentInv, TablesTyped
<1> QED
  BY <1>1, <1>2, <1>3

LEMMA CommitPromotionConsent ==
  ASSUME ConsentInv, NEW r \in Requests, CommitPromotion(r)
  PROVE  ConsentInv'
<1>1. /\ requests[r].pc = "commit" /\ requests' = [requests EXCEPT ![r] = NoRequest]
      /\ tokens' = tokens /\ used' = used /\ raced' = raced /\ audit' \in Nat
  BY CommitPromotionDoes
<1>2. /\ requests' \in [Requests -> PromoteRequest] /\ RequestConfirmed(r)'
      /\ \A other \in Requests : other # r => requests'[other] = requests[other]
  BY <1>1, NoRequestIsConfirmed
<1>3. CASE history' = history
  <2>1. TablesTyped'
    BY <1>1, <1>2, <1>3 DEF ConsentInv, TablesTyped
  <2> QED
    BY <1>1, <1>2, <1>3, <2>1, NothingAdded
<1>4. CASE history' = history \o LiveRows(r)
  <2> DEFINE ids == requests[r].ids
             live == LiveRows(r)
  <2>1. PICK n \in Nat : \E p \in [1..n -> Places(ids)] : Stand(r, n, p)
    BY <1>1, LiveRowsAre
  <2>2. PICK p \in [1..n -> Places(ids)] :
          /\ live \in Seq(HistoryRow) /\ DOMAIN live = 1..n
          /\ \A i \in 1..n :
               /\ p[i] \in DOMAIN ids
               /\ ids[p[i]] \in DOMAIN history
               /\ history[ids[p[i]]].applies_to = "paper"
               /\ live[i].applies_to = "live"
               /\ live[i].source = ids[p[i]]
               /\ live[i].by = requests[r].token
               /\ live[i].new_value = history[ids[p[i]]].new_value
               /\ live[i].walk_forward = history[ids[p[i]]].walk_forward
    BY <2>1 DEF Stand
  <2>3. PICK t \in Tokens :
          requests[r].token = <<t>> /\ Confirms(tokens[t], ids) /\ tokens[t].consumed
    BY <1>1 DEF ConsentInv, RequestConfirmed
  <2>4. ids \in Bodies /\ history \in Seq(HistoryRow) /\ tokens[t] \in Confirmation
    BY <1>1 DEF ConsentInv, RequestConfirmed, TablesTyped
  <2> HIDE DEF live, ids
  <2>5. history' \in Seq(HistoryRow) /\ DOMAIN history \subseteq DOMAIN history'
        /\ \A id \in DOMAIN history : history'[id] = history[id]
    BY <1>4, <2>2, <2>4 DEF live
  <2>6. TablesTyped'
    BY <1>1, <1>2, <2>5 DEF ConsentInv, TablesTyped
  <2>7. ASSUME NEW i \in DOMAIN live PROVE RowExplained(live[i], history', tokens)
    <3>1. /\ i \in 1..n /\ p[i] \in DOMAIN ids /\ ids[p[i]] \in DOMAIN history
          /\ history[ids[p[i]]].applies_to = "paper"
          /\ live[i].applies_to = "live" /\ live[i].source = ids[p[i]]
          /\ live[i].by = <<t>>
          /\ live[i].new_value = history[ids[p[i]]].new_value
          /\ live[i].walk_forward = history[ids[p[i]]].walk_forward
      BY <2>2, <2>3
    <3>2. RowExplained(history[ids[p[i]]], history, tokens)
      BY <3>1 DEF ConsentInv
    <3>3. ValidEvidence(live[i].walk_forward)
      BY <3>1, <3>2 DEF RowExplained
    <3>4. MadeOf(live[i], history')
      BY <2>5, <3>1 DEF MadeOf
    <3>5. Times(tokens[t].payload, ids[p[i]]) > 0
      <4>1. Times(ids, ids[p[i]]) > 0
        BY <2>4, <3>1, TimesOfNamed
      <4>2. ids[p[i]] \in Ids
        BY <2>4, <3>1, BodiesAre
      <4> QED
        BY <2>3, <4>1, <4>2 DEF Confirms, Same
    <3>6. NamedBy(live[i], tokens)
      BY <2>3, <3>1, <3>5 DEF NamedBy, Confirms
    <3> QED
      BY <3>1, <3>3, <3>4, <3>6 DEF RowExplained
  <2>8. history' = history \o live /\ live \in Seq(HistoryRow)
    BY <1>4, <2>2 DEF live
  <2> QED
    BY <1>1, <1>2, <2>6, <2>7, <2>8, RowsAdded
<1> QED
  BY <1>3, <1>4, CommitPromotionDoes

LEMMA ConsentNext == ConsentInv /\ [TuningNext]_tuningVars => ConsentInv'
<1> SUFFICES ASSUME ConsentInv, [TuningNext]_tuningVars PROVE ConsentInv'
  OBVIOUS
<1>1. CASE \E value \in Values, evidence \in SUBSET Keys : Record(value, evidence)
  BY <1>1, RecordConsent
<1>2. CASE OtherEntry
  BY <1>2, OtherEntryConsent
<1>3. CASE \E t \in Tokens : Expire(t)
  BY <1>3, ExpireConsent
<1>4. CASE \E t \in Tokens, action \in Actions, payload \in Bodies : Issue(t, action, payload)
  BY <1>4, IssueConsent
<1>5. CASE \E r \in Requests, t \in Tokens, ids \in Bodies : ReadToken(r, t, ids)
  BY <1>5, ReadTokenConsent
<1>6. CASE \E r \in Requests : CommitToken(r)
  BY <1>6, CommitTokenConsent
<1>7. CASE \E r \in Requests : Promote(r)
  BY <1>7, PromoteConsent
<1>8. CASE \E r \in Requests : CommitPromotion(r)
  BY <1>8, CommitPromotionConsent
<1>9. CASE \E r \in Requests : Interrupted(r)
  BY <1>9, InterruptedConsent
<1>10. CASE UNCHANGED tuningVars
  <2>1. TablesTyped' /\ history' = history /\ tokens' = tokens /\ requests' = requests
    BY <1>10 DEF tuningVars, ConsentInv, TablesTyped
  <2>2. PICK s : s \notin Requests
    BY NoSetContainsEverything
  <2> QED
    BY <2>1, <2>2, NothingAdded
<1> QED
  BY <1>1, <1>2, <1>3, <1>4, <1>5, <1>6, <1>7, <1>8, <1>9, <1>10 DEF TuningNext

LEMMA ExplainedIsConfirmed == ConsentInv => LiveIsConfirmed
<1> SUFFICES ASSUME ConsentInv, NEW id \in DOMAIN history, history[id].applies_to = "live"
             PROVE  \E source \in DOMAIN history, t \in Tokens :
                      /\ history[id] = Row(history[source].new_value, history[source].walk_forward,
                                          "live", source, <<t>>)
                      /\ history[source].applies_to = "paper"
                      /\ ValidEvidence(history[source].walk_forward)
                      /\ tokens[t].consumed /\ tokens[t].action = "tuning_promote"
                      /\ Times(tokens[t].payload, source) > 0
  BY DEF LiveIsConfirmed
<1> DEFINE row == history[id]
<1>1. /\ ValidEvidence(row.walk_forward) /\ MadeOf(row, history) /\ NamedBy(row, tokens)
      /\ row \in HistoryRow /\ row.applies_to = "live"
  BY DEF ConsentInv, RowExplained, TablesTyped
<1> HIDE DEF row
<1>2. PICK t \in Tokens :
        /\ row.by = <<t>> /\ tokens[t].consumed /\ tokens[t].action = "tuning_promote"
        /\ Times(tokens[t].payload, row.source) > 0
  BY <1>1 DEF NamedBy
<1> DEFINE source == row.source
<1>3. /\ source \in DOMAIN history /\ history[source].applies_to = "paper"
      /\ history[source].new_value = row.new_value
      /\ history[source].walk_forward = row.walk_forward
  BY <1>1 DEF MadeOf
<1>4. row = Row(row.new_value, row.walk_forward, "live", source, <<t>>)
  BY <1>1, <1>2 DEF HistoryRow, Row
<1> QED
  BY <1>1, <1>2, <1>3, <1>4 DEF row

\* What is live is what a row on paper with its evidence is, and the operator has
\* confirmed the promotion of that very row with a token used up before
\* (promote.py:3-10, confirm.py:51-69); nothing says that it was searched for.
THEOREM LiveRowsAreConfirmed == TuningSpec => []LiveIsConfirmed
<1>1. TuningInit => ConsentInv
  BY ConsentInit
<1>2. ConsentInv /\ [TuningNext]_tuningVars => ConsentInv'
  BY ConsentNext
<1>3. ConsentInv => LiveIsConfirmed
  BY ExplainedIsConfirmed
<1> QED
  BY <1>1, <1>2, <1>3, PTL DEF TuningSpec

-----------------------------------------------------------------------------
(* A confirmation is used once.                                            *)

Holds(r, t) == requests[r].pc # "idle" /\ requests[r].token = <<t>>

\* The live rows a token made of a row, and whether it made any.
Made(t, id) == {k \in DOMAIN history : history[k].by = <<t>> /\ history[k].source = id}

MadeAny(t) == \E k \in DOMAIN history : history[k].by = <<t>>

\* One request holds the token; while it is about to commit the use nobody has,
\* and what it makes live is made once it lets go.
OneUse(t) ==
  /\ \A r, s \in Requests : Holds(r, t) /\ Holds(s, t) => r = s
  /\ \A r \in Requests : Holds(r, t) =>
       (IF requests[r].pc = "consume" THEN ~ tokens[t].consumed ELSE tokens[t].consumed)
  /\ tokens[t].consumed => used[t] = 1
  /\ ~ tokens[t].consumed => used[t] = 0
  /\ MadeAny(t) => tokens[t].consumed /\ \A r \in Requests : ~ Holds(r, t)
  /\ \A id \in Ids : Cardinality(Made(t, id)) <= Times(tokens[t].payload, id)

UseInv ==
  \A t \in Tokens :
    /\ tokens[t].consumed => tokens[t].issued
    /\ t \notin raced => OneUse(t)

LEMMA TimesIsNat ==
  ASSUME NEW ids \in {<<>>} \cup Bodies, NEW id
  PROVE  Times(ids, id) \in Nat
<1> DEFINE named == {k \in DOMAIN ids : ids[k] = id}
<1>1. IsFiniteSet(DOMAIN ids)
  <2>1. CASE ids = <<>>
    BY <2>1, FS_EmptySet
  <2>2. CASE ids \in Bodies
    BY <2>2, BodiesAre
  <2> QED
    BY <2>1, <2>2
<1>2. named \in SUBSET DOMAIN ids
  OBVIOUS
<1> HIDE DEF named
<1>3. Cardinality(named) \in Nat
  BY <1>1, <1>2, FS_Subset, FS_CardinalityType
<1> QED
  BY <1>3 DEF Times, named

\* A token that has made nothing is within its bound.
LEMMA NothingMade ==
  ASSUME NEW t \in Tokens, ~ MadeAny(t), tokens[t] \in Confirmation, NEW id \in Ids
  PROVE  Cardinality(Made(t, id)) <= Times(tokens[t].payload, id)
<1>1. Made(t, id) = {}
  BY DEF Made, MadeAny
<1>2. Cardinality(Made(t, id)) = 0
  BY <1>1, FS_EmptySet
<1>3. Times(tokens[t].payload, id) \in Nat
  BY TimesIsNat DEF Confirmation
<1> QED
  BY <1>2, <1>3

LEMMA UseInit == TuningInit => UseInv
<1> SUFFICES ASSUME TuningInit, NEW t \in Tokens
             PROVE  (tokens[t].consumed => tokens[t].issued) /\ OneUse(t)
  BY DEF UseInv
<1>1. tokens[t] = Unissued /\ used[t] = 0 /\ history = <<>> /\ \A r \in Requests : requests[r].pc = "idle"
  BY DEF TuningInit, NoRequest
<1>2. ~ tokens[t].consumed
  BY <1>1 DEF Unissued
<1>3. ~ MadeAny(t) /\ \A r \in Requests : ~ Holds(r, t)
  BY <1>1 DEF MadeAny, Holds
<1>4. tokens[t] \in Confirmation
  BY ConsentInit DEF ConsentInv, TablesTyped
<1>5. \A id \in Ids : Cardinality(Made(t, id)) <= Times(tokens[t].payload, id)
  BY <1>3, <1>4, NothingMade
<1> QED
  BY <1>1, <1>2, <1>3, <1>5 DEF OneUse

\* What a step may do that does not use the token or make anything with it.
LEMMA UseKept ==
  ASSUME NEW t \in Tokens, OneUse(t),
         tokens'[t].consumed = tokens[t].consumed, tokens'[t].payload = tokens[t].payload,
         used'[t] = used[t],
         \A r \in Requests : Holds(r, t)' =>
           /\ Holds(r, t)
           /\ \/ requests'[r].pc = requests[r].pc
              \/ requests[r].pc # "consume" /\ requests'[r].pc # "consume",
         MadeAny(t)' => MadeAny(t),
         \A id \in Ids : Made(t, id)' = Made(t, id)
  PROVE  OneUse(t)'
<1>1. \A r, s \in Requests : Holds(r, t)' /\ Holds(s, t)' => r = s
  BY DEF OneUse
<1>2. \A r \in Requests : Holds(r, t)' =>
        (IF requests'[r].pc = "consume" THEN ~ tokens'[t].consumed ELSE tokens'[t].consumed)
  BY DEF OneUse
<1>3. /\ tokens'[t].consumed => used'[t] = 1
      /\ ~ tokens'[t].consumed => used'[t] = 0
      /\ MadeAny(t)' => tokens'[t].consumed /\ \A r \in Requests : ~ Holds(r, t)'
  BY DEF OneUse
<1>4. ASSUME NEW id \in Ids PROVE Cardinality(Made(t, id)') <= Times(tokens'[t].payload, id)
  <2>1. Cardinality(Made(t, id)) <= Times(tokens[t].payload, id)
    BY DEF OneUse
  <2> QED
    BY <2>1
<1> QED
  BY <1>1, <1>2, <1>3, <1>4 DEF OneUse

\* Rows by others change nothing of what a token has made.
LEMMA MadeByOthers ==
  ASSUME NEW t \in Tokens, history \in Seq(HistoryRow),
         NEW more \in Seq(HistoryRow), history' = history \o more,
         \A i \in DOMAIN more : more[i].by # <<t>>
  PROVE  (MadeAny(t)' => MadeAny(t)) /\ \A id \in Ids : Made(t, id)' = Made(t, id)
<1>1. /\ DOMAIN history = 1..Len(history) /\ DOMAIN history' = 1..(Len(history) + Len(more))
      /\ \A k \in 1..Len(history) : history'[k] = history[k]
      /\ \A i \in 1..Len(more) : history'[Len(history) + i] = more[i]
      /\ Len(history) \in Nat /\ Len(more) \in Nat /\ DOMAIN more = 1..Len(more)
  OBVIOUS
<1>2. ASSUME NEW k \in DOMAIN history', history'[k].by = <<t>> PROVE k \in DOMAIN history
  <2> SUFFICES ASSUME k \notin DOMAIN history PROVE FALSE
    OBVIOUS
  <2>1. k - Len(history) \in 1..Len(more) /\ k = Len(history) + (k - Len(history))
    BY <1>1
  <2>2. history'[k] = more[k - Len(history)]
    BY <1>1, <2>1
  <2> QED
    BY <1>1, <1>2, <2>1, <2>2
<1>3. DOMAIN history \subseteq DOMAIN history' /\ \A k \in DOMAIN history : history'[k] = history[k]
  BY <1>1
<1> QED
  BY <1>2, <1>3 DEF MadeAny, Made

\* A step that adds no row.
LEMMA NothingMadeNew == ASSUME history' = history, NEW t \in Tokens
                        PROVE  (MadeAny(t)' => MadeAny(t)) /\ \A id \in Ids : Made(t, id)' = Made(t, id)
BY DEF MadeAny, Made

LEMMA RecordUse ==
  ASSUME ConsentInv, UseInv, NEW value \in Values, NEW evidence \in SUBSET Keys,
         Record(value, evidence)
  PROVE  UseInv'
<1> DEFINE row == Row(value, evidence, "paper", 0, <<>>)
<1>1. TablesTyped
  BY DEF ConsentInv
<1>2. row \in HistoryRow /\ row.by = <<>>
  BY <1>1 DEF Row, HistoryRow, By
<1>3. history' = Append(history, row) /\ tokens' = tokens /\ requests' = requests
      /\ used' = used /\ raced' = raced
  BY DEF Record
<1> HIDE DEF row
<1>4. /\ history \in Seq(HistoryRow) /\ <<row>> \in Seq(HistoryRow)
      /\ history' = history \o <<row>>
      /\ \A i \in DOMAIN <<row>> : <<row>>[i] = row
  <2>1. history \in Seq(HistoryRow) /\ history' = Append(history, row)
    BY <1>1, <1>3 DEF TablesTyped
  <2> QED
    BY <1>2, <2>1
<1>5. ASSUME NEW t \in Tokens, t \notin raced PROVE OneUse(t)'
  <2>1. (MadeAny(t)' => MadeAny(t)) /\ \A id \in Ids : Made(t, id)' = Made(t, id)
    <3>1. row.by # <<t>>
      <4>1. <<>> # <<t>>
        OBVIOUS
      <4> QED
        BY <1>2, <4>1
    <3>2. \A i \in DOMAIN <<row>> : <<row>>[i].by # <<t>>
      BY <1>4, <3>1
    <3> QED
      BY <1>4, <3>2, MadeByOthers
  <2>2. \A r \in Requests : Holds(r, t)' => Holds(r, t) /\ requests'[r].pc = requests[r].pc
    BY <1>3 DEF Holds
  <2>3. OneUse(t)
    BY <1>5 DEF UseInv
  <2> QED
    BY <1>3, <2>1, <2>2, <2>3, UseKept
<1> QED
  BY <1>3, <1>5 DEF UseInv

LEMMA OtherEntryUse == ASSUME UseInv, OtherEntry \/ UNCHANGED tuningVars PROVE UseInv'
<1>1. history' = history /\ tokens' = tokens /\ requests' = requests /\ used' = used /\ raced' = raced
  BY DEF OtherEntry, tuningVars
<1> QED
  BY <1>1 DEF UseInv, OneUse, Holds, MadeAny, Made

LEMMA IssueUse ==
  ASSUME ConsentInv, ConsentInv', UseInv,
         NEW t \in Tokens, NEW action \in Actions, NEW payload \in Bodies, Issue(t, action, payload)
  PROVE  UseInv'
<1> DEFINE new == [Unissued EXCEPT !.issued = TRUE, !.action = action, !.payload = payload]
<1>1. new.issued /\ ~ new.consumed
  BY DEF Unissued
<1>2. /\ ~ tokens[t].issued /\ tokens' = [tokens EXCEPT ![t] = new]
      /\ history' = history /\ requests' = requests /\ used' = used /\ raced' = raced
  BY DEF Issue
<1> HIDE DEF new
<1>3. tokens'[t] = new /\ \A u \in Tokens : u # t => tokens'[u] = tokens[u]
  BY <1>2 DEF ConsentInv, TablesTyped
<1>4. ASSUME NEW u \in Tokens, u \notin raced, u # t PROVE OneUse(u)'
  <2>1. (MadeAny(u)' => MadeAny(u)) /\ \A id \in Ids : Made(u, id)' = Made(u, id)
    BY <1>2, NothingMadeNew
  <2>2. \A r \in Requests : Holds(r, u)' => Holds(r, u) /\ requests'[r].pc = requests[r].pc
    BY <1>2 DEF Holds
  <2>3. OneUse(u)
    BY <1>4 DEF UseInv
  <2> QED
    BY <1>2, <1>3, <1>4, <2>1, <2>2, <2>3, UseKept
<1>5. ASSUME t \notin raced PROVE OneUse(t)'
  <2>1. OneUse(t) /\ ~ tokens[t].consumed
    BY <1>2, <1>5 DEF UseInv
  <2>2. used[t] = 0 /\ ~ MadeAny(t)
    BY <2>1 DEF OneUse
  <2>3. \A r \in Requests : ~ Holds(r, t)
    <3> SUFFICES ASSUME NEW r \in Requests, Holds(r, t) PROVE FALSE
      OBVIOUS
    <3>1. PICK u \in Tokens : requests[r].token = <<u>> /\ tokens[u].issued
      BY DEF Holds, ConsentInv, RequestConfirmed, Confirms
    <3>2. u = t
      BY <3>1 DEF Holds
    <3> QED
      BY <1>2, <3>1, <3>2
  <2>4. ~ MadeAny(t)' /\ \A r \in Requests : ~ Holds(r, t)'
    BY <1>2, <2>2, <2>3 DEF MadeAny, Holds
  <2>5. tokens'[t] \in Confirmation
    BY DEF ConsentInv, TablesTyped
  <2>6. \A id \in Ids : Cardinality(Made(t, id)') <= Times(tokens'[t].payload, id)
    <3> SUFFICES ASSUME NEW id \in Ids
                 PROVE  Cardinality(Made(t, id)') <= Times(tokens'[t].payload, id)
      OBVIOUS
    <3>1. Made(t, id)' = {}
      BY <2>4 DEF Made, MadeAny
    <3>2. Cardinality(Made(t, id)') = 0
      BY <3>1, FS_EmptySet
    <3>3. tokens'[t].payload \in {<<>>} \cup Bodies
      BY <2>5 DEF Confirmation
    <3>4. Times(tokens'[t].payload, id) \in Nat
      BY <3>3, TimesIsNat
    <3> QED
      BY <3>2, <3>4
  <2>7. ~ tokens'[t].consumed /\ used'[t] = 0
    BY <1>1, <1>2, <1>3, <2>2
  <2> QED
    BY <2>4, <2>6, <2>7 DEF OneUse
<1>6. \A u \in Tokens : tokens'[u].consumed => tokens'[u].issued
  BY <1>1, <1>3 DEF UseInv
<1> QED
  BY <1>2, <1>4, <1>5, <1>6 DEF UseInv

LEMMA ExpireUse == ASSUME ConsentInv, UseInv, NEW t \in Tokens, Expire(t) PROVE UseInv'
<1>1. /\ tokens[t] \in Confirmation /\ tokens' = [tokens EXCEPT ![t].expired = TRUE]
      /\ history' = history /\ requests' = requests /\ used' = used /\ raced' = raced
  BY DEF Expire, ConsentInv, TablesTyped
<1>2. \A u \in Tokens : /\ tokens'[u].issued = tokens[u].issued
                        /\ tokens'[u].consumed = tokens[u].consumed
                        /\ tokens'[u].payload = tokens[u].payload
                        /\ tokens[u].consumed => tokens'[u].consumed
  BY <1>1 DEF ConsentInv, TablesTyped, Confirmation
<1>3. ASSUME NEW u \in Tokens, u \notin raced PROVE OneUse(u)'
  <2>1. (MadeAny(u)' => MadeAny(u)) /\ \A id \in Ids : Made(u, id)' = Made(u, id)
    BY <1>1, NothingMadeNew
  <2>2. \A r \in Requests : Holds(r, u)' => Holds(r, u) /\ requests'[r].pc = requests[r].pc
    BY <1>1 DEF Holds
  <2>3. OneUse(u)
    BY <1>3 DEF UseInv
  <2> QED
    BY <1>1, <1>2, <2>1, <2>2, <2>3, UseKept
<1> QED
  BY <1>1, <1>2, <1>3 DEF UseInv

\* A request that ends lets its token go; what it had made of it, it made before.
LEMMA EndedUse ==
  ASSUME ConsentInv, UseInv, NEW r \in Requests, requests' = [requests EXCEPT ![r] = NoRequest],
         history' = history, tokens' = tokens, used' = used, raced' = raced
  PROVE  UseInv'
<1>1. requests'[r].pc = "idle" /\ \A s \in Requests : s # r => requests'[s] = requests[s]
  BY DEF ConsentInv, TablesTyped, NoRequest
<1>2. ASSUME NEW u \in Tokens, u \notin raced PROVE OneUse(u)'
  <2>1. (MadeAny(u)' => MadeAny(u)) /\ \A id \in Ids : Made(u, id)' = Made(u, id)
    BY NothingMadeNew
  <2>2. \A s \in Requests : Holds(s, u)' => Holds(s, u) /\ requests'[s].pc = requests[s].pc
    BY <1>1 DEF Holds
  <2>3. OneUse(u)
    BY <1>2 DEF UseInv
  <2> QED
    BY <2>1, <2>2, <2>3, UseKept
<1> QED
  BY <1>2 DEF UseInv

LEMMA InterruptedUse == ASSUME ConsentInv, UseInv, NEW r \in Requests, Interrupted(r) PROVE UseInv'
<1>1. /\ requests' = [requests EXCEPT ![r] = NoRequest]
      /\ history' = history /\ tokens' = tokens /\ used' = used /\ raced' = raced
  BY DEF Interrupted
<1> QED
  BY <1>1, EndedUse

LEMMA PromoteUse == ASSUME ConsentInv, UseInv, NEW r \in Requests, Promote(r) PROVE UseInv'
<1>1. /\ history' = history /\ tokens' = tokens /\ used' = used /\ raced' = raced
      /\ requests[r].pc = "promote"
  BY DEF Promote
<1>2. CASE ~ Promotable(requests[r].ids)
  <2>1. requests' = [requests EXCEPT ![r] = NoRequest]
    BY <1>2 DEF Promote, ConsentInv, TablesTyped
  <2> QED
    BY <1>1, <2>1, EndedUse
<1>3. CASE Promotable(requests[r].ids)
  <2>1. requests' = [requests EXCEPT ![r] = [requests[r] EXCEPT !.pc = "commit", !.seq = audit]]
    BY <1>3 DEF Promote, ConsentInv, TablesTyped
  <2>2. requests[r] \in PromoteRequest
    BY DEF ConsentInv, TablesTyped
  <2>3. /\ requests'[r].pc = "commit" /\ requests'[r].token = requests[r].token
        /\ \A s \in Requests : s # r => requests'[s] = requests[s]
    BY <2>1, <2>2 DEF ConsentInv, TablesTyped, PromoteRequest
  <2>4. ASSUME NEW u \in Tokens, u \notin raced PROVE OneUse(u)'
    <3>1. (MadeAny(u)' => MadeAny(u)) /\ \A id \in Ids : Made(u, id)' = Made(u, id)
      BY <1>1, NothingMadeNew
    <3>2. \A s \in Requests : Holds(s, u)' =>
            /\ Holds(s, u)
            /\ \/ requests'[s].pc = requests[s].pc
               \/ requests[s].pc # "consume" /\ requests'[s].pc # "consume"
      BY <1>1, <2>3 DEF Holds
    <3>3. OneUse(u)
      BY <2>4 DEF UseInv
    <3> QED
      BY <1>1, <3>1, <3>2, <3>3, UseKept
  <2> QED
    BY <1>1, <2>4 DEF UseInv
<1> QED
  BY <1>2, <1>3

LEMMA ReadTokenUse ==
  ASSUME ConsentInv, UseInv, NEW r \in Requests, NEW t \in Tokens, NEW ids \in Bodies,
         ReadToken(r, t, ids)
  PROVE  UseInv'
<1> DEFINE reading == [NoRequest EXCEPT !.pc = "consume", !.token = <<t>>, !.ids = ids]
<1>1. reading.pc = "consume" /\ reading.token = <<t>>
  BY DEF NoRequest
<1>2. /\ requests' = [requests EXCEPT ![r] = reading]
      /\ history' = history /\ tokens' = tokens /\ audit' = audit /\ used' = used
      /\ raced \subseteq raced'
      /\ (\E other \in Requests : requests[other].pc = "consume" /\ requests[other].token = <<t>>)
           => t \in raced'
  BY DEF ReadToken
<1>3. requests[r].pc = "idle" /\ ~ tokens[t].consumed
  BY DEF ReadToken, Accepts
<1> HIDE DEF reading
<1>4. requests'[r] = reading /\ \A s \in Requests : s # r => requests'[s] = requests[s]
  BY <1>2 DEF ConsentInv, TablesTyped
<1>5. ASSUME NEW u \in Tokens, u \notin raced', u # t PROVE OneUse(u)'
  <2>1. (MadeAny(u)' => MadeAny(u)) /\ \A id \in Ids : Made(u, id)' = Made(u, id)
    BY <1>2, NothingMadeNew
  <2>2. ~ Holds(r, u)'
    BY <1>1, <1>4, <1>5 DEF Holds
  <2>3. \A s \in Requests : Holds(s, u)' => Holds(s, u) /\ requests'[s].pc = requests[s].pc
    BY <1>4, <2>2 DEF Holds
  <2>4. OneUse(u)
    BY <1>2, <1>5 DEF UseInv
  <2> QED
    BY <1>2, <2>1, <2>3, <2>4, UseKept
<1>6. ASSUME t \notin raced' PROVE OneUse(t)'
  <2>1. OneUse(t)
    BY <1>2, <1>6 DEF UseInv
  <2>2. \A s \in Requests : ~ Holds(s, t)
    <3> SUFFICES ASSUME NEW s \in Requests, Holds(s, t) PROVE FALSE
      OBVIOUS
    <3>1. requests[s].pc # "consume"
      BY <1>2, <1>6 DEF Holds
    <3>2. tokens[t].consumed
      BY <2>1, <3>1 DEF OneUse
    <3> QED
      BY <1>3, <3>2
  <2>3. \A s \in Requests : Holds(s, t)' => s = r
    BY <1>4, <2>2 DEF Holds
  <2>4. requests'[r].pc = "consume" /\ ~ tokens'[t].consumed
    BY <1>1, <1>2, <1>3, <1>4
  <2>5. ~ MadeAny(t)
    BY <1>3, <2>1 DEF OneUse
  <2>6. ~ MadeAny(t)' /\ \A id \in Ids : Made(t, id)' = Made(t, id)
    BY <1>2, <2>5, NothingMadeNew
  <2>7. \A id \in Ids : Cardinality(Made(t, id)') <= Times(tokens'[t].payload, id)
    BY <1>2, <2>1, <2>6 DEF OneUse
  <2>8. used'[t] = 0
    BY <1>2, <1>3, <2>1 DEF OneUse
  <2>9. \A q, s \in Requests : Holds(q, t)' /\ Holds(s, t)' => q = s
    BY <2>3
  <2>10. \A s \in Requests : Holds(s, t)' =>
          (IF requests'[s].pc = "consume" THEN ~ tokens'[t].consumed ELSE tokens'[t].consumed)
    BY <2>3, <2>4
  <2> QED
    BY <2>4, <2>6, <2>7, <2>8, <2>9, <2>10 DEF OneUse
<1> QED
  BY <1>2, <1>5, <1>6 DEF UseInv

LEMMA CommitTokenUse ==
  ASSUME ConsentInv, UseInv, NEW r \in Requests, CommitToken(r)
  PROVE  UseInv'
<1>1. PICK t \in Tokens : requests[r].token = <<t>> /\ tokens[t].issued
  BY DEF CommitToken, ConsentInv, RequestConfirmed, Confirms
<1>2. /\ requests[r].pc = "consume"
      /\ tokens' = [tokens EXCEPT ![t].consumed = TRUE]
      /\ used' = [used EXCEPT ![t] = @ + 1]
      /\ requests' = [requests EXCEPT ![r].pc = "promote"]
      /\ history' = history /\ raced' = raced
  BY <1>1 DEF CommitToken
<1>3. requests[r] \in PromoteRequest /\ tokens[t] \in Confirmation /\ used[t] \in Nat
  BY DEF ConsentInv, TablesTyped
<1>4. /\ tokens'[t].consumed /\ tokens'[t].issued = tokens[t].issued
      /\ tokens'[t].payload = tokens[t].payload
      /\ \A u \in Tokens : u # t => tokens'[u] = tokens[u]
  BY <1>2, <1>3 DEF ConsentInv, TablesTyped, Confirmation
<1>5. used'[t] = used[t] + 1 /\ \A u \in Tokens : u # t => used'[u] = used[u]
  BY <1>2, <1>3 DEF ConsentInv, TablesTyped
<1>6. /\ requests'[r].pc = "promote" /\ requests'[r].token = <<t>>
      /\ \A s \in Requests : s # r => requests'[s] = requests[s]
  BY <1>1, <1>2, <1>3 DEF ConsentInv, TablesTyped, PromoteRequest
<1>7. Holds(r, t) /\ \A u \in Tokens : \A s \in Requests : Holds(s, u)' <=> Holds(s, u)
  BY <1>1, <1>2, <1>6 DEF Holds
<1>8. ASSUME NEW u \in Tokens, u \notin raced, u # t PROVE OneUse(u)'
  <2>1. (MadeAny(u)' => MadeAny(u)) /\ \A id \in Ids : Made(u, id)' = Made(u, id)
    BY <1>2, NothingMadeNew
  <2>2. ~ Holds(r, u)'
    BY <1>6, <1>8 DEF Holds
  <2>3. \A s \in Requests : Holds(s, u)' => Holds(s, u) /\ requests'[s].pc = requests[s].pc
    BY <1>6, <2>2 DEF Holds
  <2>4. OneUse(u)
    BY <1>8 DEF UseInv
  <2> QED
    BY <1>4, <1>5, <1>8, <2>1, <2>3, <2>4, UseKept
<1>9. ASSUME t \notin raced PROVE OneUse(t)'
  <2>1. OneUse(t)
    BY <1>9 DEF UseInv
  <2>2. ~ tokens[t].consumed
    BY <1>2, <1>7, <2>1 DEF OneUse
  <2>3. used'[t] = 1 /\ ~ MadeAny(t)
    BY <1>5, <2>1, <2>2 DEF OneUse
  <2>4. ~ MadeAny(t)' /\ \A id \in Ids : Made(t, id)' = Made(t, id)
    BY <1>2, <2>3, NothingMadeNew
  <2>5. \A id \in Ids : Cardinality(Made(t, id)') <= Times(tokens'[t].payload, id)
    BY <1>4, <2>1, <2>4 DEF OneUse
  <2>6. \A s \in Requests : Holds(s, t)' => s = r
    BY <1>7, <2>1 DEF OneUse
  <2>7. \A q, s \in Requests : Holds(q, t)' /\ Holds(s, t)' => q = s
    BY <2>6
  <2>8. \A s \in Requests : Holds(s, t)' =>
          (IF requests'[s].pc = "consume" THEN ~ tokens'[t].consumed ELSE tokens'[t].consumed)
    BY <1>4, <1>6, <2>6
  <2> QED
    BY <1>4, <2>3, <2>4, <2>5, <2>7, <2>8 DEF OneUse
<1>10. \A u \in Tokens : tokens'[u].consumed => tokens'[u].issued
  BY <1>1, <1>4 DEF UseInv
<1> QED
  BY <1>2, <1>8, <1>9, <1>10 DEF UseInv

\* A set that another takes up one to one is not larger.
LEMMA OneToOne ==
  ASSUME NEW S, NEW T, IsFiniteSet(T), NEW f \in [S -> T], \A a, b \in S : f[a] = f[b] => a = b
  PROVE  Cardinality(S) <= Cardinality(T)
<1>1. f \in Injection(S, T)
  BY DEF Injection, IsInjective
<1> QED
  BY <1>1, FS_Injection

LEMMA LiveRowsAppended ==
  ASSUME NEW r, LiveRows(r) \in Seq(HistoryRow), history \in Seq(HistoryRow),
         history' = history \o LiveRows(r)
  PROVE  /\ Len(history) \in Nat /\ DOMAIN history = 1..Len(history)
         /\ DOMAIN history' = 1..(Len(history) + Len(LiveRows(r)))
         /\ \A k \in 1..Len(history) : history'[k] = history[k]
         /\ \A i \in 1..Len(LiveRows(r)) : history'[Len(history) + i] = LiveRows(r)[i]
OBVIOUS

\* A promotion makes a row live no more often than its list names it.
LEMMA MadeAtMost ==
  ASSUME ConsentInv, NEW r \in Requests, requests[r].pc = "commit", NEW t \in Tokens, ~ MadeAny(t),
         history' = history \o LiveRows(r), NEW id \in Ids
  PROVE  Cardinality(Made(t, id)') <= Times(requests[r].ids, id)
<1> DEFINE ids == requests[r].ids
           live == LiveRows(r)
           named == {k \in DOMAIN ids : ids[k] = id}
           made == Made(t, id)'
           before == Len(history)
<1>1. PICK n \in Nat : \E p \in [1..n -> Places(ids)] : Stand(r, n, p)
  BY LiveRowsAre
<1>2. PICK p \in [1..n -> Places(ids)] :
        /\ \A i, j \in 1..n : p[i] = p[j] => i = j
        /\ live \in Seq(HistoryRow) /\ DOMAIN live = 1..n /\ Len(live) = n
        /\ \A i \in 1..n : p[i] \in DOMAIN ids /\ live[i].source = ids[p[i]]
  BY <1>1 DEF Stand
<1>3. ids \in Bodies /\ history \in Seq(HistoryRow)
  BY DEF ConsentInv, RequestConfirmed, TablesTyped
<1> HIDE DEF live, ids
<1>4. /\ before \in Nat /\ DOMAIN history = 1..before /\ DOMAIN history' = 1..(before + n)
      /\ \A k \in 1..before : history'[k] = history[k]
      /\ \A i \in 1..n : history'[before + i] = live[i]
  <2>1. live \in Seq(HistoryRow) /\ Len(live) = n
    BY <1>2
  <2>2. /\ Len(history) \in Nat /\ DOMAIN history = 1..Len(history)
        /\ DOMAIN history' = 1..(Len(history) + Len(live))
        /\ \A k \in 1..Len(history) : history'[k] = history[k]
        /\ \A i \in 1..Len(live) : history'[Len(history) + i] = live[i]
    BY <1>3, <2>1, LiveRowsAppended DEF live
  <2> QED
    BY <2>1, <2>2
<1> HIDE DEF before
<1>5. ASSUME NEW k \in made
      PROVE  k - before \in 1..n /\ k \in Int /\ p[k - before] \in named
  <2>1. k \in 1..(before + n) /\ history'[k].by = <<t>> /\ history'[k].source = id
    BY <1>4, <1>5 DEF Made
  <2>2. k \notin 1..before
    BY <1>4, <2>1 DEF MadeAny
  <2>3. k - before \in 1..n /\ k = before + (k - before) /\ k \in Int
    BY <1>1, <1>4, <2>1, <2>2
  <2>4. history'[k] = live[k - before]
    BY <1>4, <2>3
  <2> QED
    BY <1>2, <2>1, <2>3, <2>4
<1> DEFINE f == [k \in made |-> p[k - before]]
<1> HIDE DEF made, named
<1>6. f \in [made -> named]
  BY <1>5
<1>7. ASSUME NEW a \in made, NEW b \in made, f[a] = f[b] PROVE a = b
  <2>1. a - before \in 1..n /\ b - before \in 1..n /\ a \in Int /\ b \in Int
    BY <1>5
  <2>2. p[a - before] = p[b - before]
    BY <1>7
  <2>3. a - before = b - before
    BY <1>2, <2>1, <2>2
  <2> QED
    BY <1>4, <2>1, <2>3
<1> HIDE DEF f
<1>8. IsFiniteSet(named)
  <2>1. named \in SUBSET DOMAIN ids
    BY DEF named
  <2> QED
    BY <1>3, <2>1, BodiesAre, FS_Subset
<1>9. Cardinality(made) <= Cardinality(named)
  BY <1>6, <1>7, <1>8, OneToOne
<1> QED
  BY <1>9 DEF made, named, Times, ids

LEMMA CommitPromotionUse ==
  ASSUME ConsentInv, UseInv, NEW r \in Requests, CommitPromotion(r)
  PROVE  UseInv'
<1>1. /\ requests[r].pc = "commit" /\ requests' = [requests EXCEPT ![r] = NoRequest]
      /\ tokens' = tokens /\ used' = used /\ raced' = raced
      /\ history' = history \/ history' = history \o LiveRows(r)
  BY CommitPromotionDoes
<1>2. CASE history' = history
  BY <1>1, <1>2, EndedUse
<1>3. CASE history' = history \o LiveRows(r)
  <2>1. PICK t \in Tokens : requests[r].token = <<t>> /\ Confirms(tokens[t], requests[r].ids)
    BY <1>1 DEF ConsentInv, RequestConfirmed
  <2>2. Holds(r, t)
    BY <1>1, <2>1 DEF Holds
  <2>3. requests'[r].pc = "idle" /\ \A s \in Requests : s # r => requests'[s] = requests[s]
    BY <1>1 DEF ConsentInv, TablesTyped, NoRequest
  <2>4. \A u \in Tokens : \A s \in Requests :
          Holds(s, u)' => Holds(s, u) /\ requests'[s].pc = requests[s].pc /\ s # r
    BY <2>3 DEF Holds
  <2>5. LiveRows(r) \in Seq(HistoryRow) /\ \A i \in DOMAIN LiveRows(r) : LiveRows(r)[i].by = <<t>>
    BY <1>1, <2>1, LiveRowsAre DEF Stand
  <2>6. history \in Seq(HistoryRow)
    BY DEF ConsentInv, TablesTyped
  <2>7. ASSUME NEW u \in Tokens, u \notin raced, u # t PROVE OneUse(u)'
    <3>1. <<t>> # <<u>>
      BY <2>7
    <3>2. \A i \in DOMAIN LiveRows(r) : LiveRows(r)[i].by # <<u>>
      BY <2>5, <3>1
    <3>3. (MadeAny(u)' => MadeAny(u)) /\ \A id \in Ids : Made(u, id)' = Made(u, id)
      BY <1>3, <2>5, <2>6, <3>2, MadeByOthers
    <3>4. OneUse(u)
      BY <2>7 DEF UseInv
    <3> QED
      BY <1>1, <2>4, <3>3, <3>4, UseKept
  <2>8. ASSUME t \notin raced PROVE OneUse(t)'
    <3>1. OneUse(t)
      BY <2>8 DEF UseInv
    <3>2. ~ MadeAny(t) /\ \A s \in Requests : Holds(s, t) => s = r
      BY <2>2, <3>1 DEF OneUse
    <3>3. \A s \in Requests : ~ Holds(s, t)'
      BY <2>4, <3>2
    <3>4. tokens'[t].consumed /\ used'[t] = 1
      BY <1>1, <2>2, <3>1 DEF OneUse
    <3>5. ASSUME NEW id \in Ids
          PROVE  Cardinality(Made(t, id)') <= Times(tokens'[t].payload, id)
      <4>1. Cardinality(Made(t, id)') <= Times(requests[r].ids, id)
        BY <1>1, <1>3, <3>2, MadeAtMost
      <4>2. Times(requests[r].ids, id) = Times(tokens'[t].payload, id)
        BY <1>1, <2>1 DEF Confirms, Same
      <4> QED
        BY <4>1, <4>2
    <3> QED
      BY <3>3, <3>4, <3>5 DEF OneUse
  <2> QED
    BY <1>1, <2>7, <2>8 DEF UseInv
<1> QED
  BY <1>1, <1>2, <1>3

LEMMA UseNext == ConsentInv /\ ConsentInv' /\ UseInv /\ [TuningNext]_tuningVars => UseInv'
<1> SUFFICES ASSUME ConsentInv, ConsentInv', UseInv, [TuningNext]_tuningVars PROVE UseInv'
  OBVIOUS
<1>1. CASE \E value \in Values, evidence \in SUBSET Keys : Record(value, evidence)
  BY <1>1, RecordUse
<1>2. CASE OtherEntry \/ UNCHANGED tuningVars
  BY <1>2, OtherEntryUse
<1>3. CASE \E t \in Tokens : Expire(t)
  BY <1>3, ExpireUse
<1>4. CASE \E t \in Tokens, action \in Actions, payload \in Bodies : Issue(t, action, payload)
  BY <1>4, IssueUse
<1>5. CASE \E r \in Requests, t \in Tokens, ids \in Bodies : ReadToken(r, t, ids)
  BY <1>5, ReadTokenUse
<1>6. CASE \E r \in Requests : CommitToken(r)
  BY <1>6, CommitTokenUse
<1>7. CASE \E r \in Requests : Promote(r)
  BY <1>7, PromoteUse
<1>8. CASE \E r \in Requests : CommitPromotion(r)
  BY <1>8, CommitPromotionUse
<1>9. CASE \E r \in Requests : Interrupted(r)
  BY <1>9, InterruptedUse
<1> QED
  BY <1>1, <1>2, <1>3, <1>4, <1>5, <1>6, <1>7, <1>8, <1>9 DEF TuningNext

LEMMA UsedOnceConfirms == ConsentInv /\ UseInv => ConfirmedOnce
<1> SUFFICES ASSUME ConsentInv, UseInv, NEW t \in Tokens \ raced
             PROVE  /\ used[t] <= 1
                    /\ \A id \in Ids :
                         Cardinality({k \in DOMAIN history :
                           history[k].by = <<t>> /\ history[k].source = id})
                           <= Times(tokens[t].payload, id)
  BY DEF ConfirmedOnce
<1>1. OneUse(t)
  BY DEF UseInv
<1>2. used[t] <= 1
  BY <1>1 DEF OneUse
<1>3. \A id \in Ids : Cardinality(Made(t, id)) <= Times(tokens[t].payload, id)
  BY <1>1 DEF OneUse
<1> QED
  BY <1>2, <1>3 DEF Made

\* A confirmation lets one request pass, unless two read it before either had
\* committed its use, and makes a row live at most as often as it named it
\* (api/confirm.py:4, promote.py:141-160).
THEOREM TokensAreUsedOnce == TuningSpec => []ConfirmedOnce
<1>1. TuningInit => ConsentInv /\ UseInv
  BY ConsentInit, UseInit
<1>2. ConsentInv /\ UseInv /\ [TuningNext]_tuningVars => (ConsentInv /\ UseInv)'
  BY ConsentNext, UseNext
<1>3. ConsentInv /\ UseInv => ConfirmedOnce
  BY UsedOnceConfirms
<1> QED
  BY <1>1, <1>2, <1>3, PTL DEF TuningSpec

=============================================================================
