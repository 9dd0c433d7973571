---------------------------- MODULE ExitsProofs ----------------------------
(* That neither job has two closes under way, and that the exit job never   *)
(* sells more than the agents own, for all values of the constants.  The    *)
(* first part is about control and leaves the quantities open; the second   *)
(* adds them, and what of the agents' shares no order may take any more.    *)
EXTENDS Exits, Sums, SequenceTheorems, TLAPS

\* Rows, the quantities left open: the first part needs none.
Rows(Q) ==
  [by : {"trader", "operator"} \cup Job, side : {1, -1}, qty : Q,
   status : Live \cup {"filled", "canceled", "failed"}, filled : Nat,
   reason : {"none", "halted", "unavailable", "rejected", "missing"},
   stage : {"send", "wait", "over"},
   remote : {"none", "wire", "open", "filled", "canceled"}, done : Nat,
   late : BOOLEAN]

RowsOK == \E Q : orders \in Seq(Rows(Q))

Pc == {"idle", "origins", "rows", "open", "submit", "wait"}

Jobs(Q) == [pc : Pc, position : Q, qty : Q]

JobsOK == \E Q : jobs \in [Job -> Jobs(Q)]

\* A submission is awaited by its job, and by nothing else.
Awaited ==
  \A i \in Id : orders[i].by \in Job /\ orders[i].stage # "over" => jobs[orders[i].by].pc = "wait"

OneSubmission ==
  \A i, k \in Id :
    /\ orders[i].by = orders[k].by /\ orders[i].by \in Job
    /\ orders[i].stage # "over" /\ orders[k].stage # "over"
    => i = k

\* What the broker holds has been answered or given up.
OpenIsOver == \A i \in Id : orders[i].remote = "open" => orders[i].stage = "over"

\* A job past its look at the open orders has none there that it could have seen.
Looked ==
  \A i \in Id :
    /\ orders[i].by \in Job /\ orders[i].remote = "open"
    /\ jobs[orders[i].by].pc \in {"submit", "wait"}
    => orders[i].late

OneOpen ==
  \A i, k \in Id :
    /\ orders[i].by = orders[k].by /\ orders[i].by \in Job
    /\ orders[i].remote = "open" /\ orders[k].remote = "open"
    => i = k \/ orders[i].late \/ orders[k].late

Control == Awaited /\ OneSubmission /\ OpenIsOver /\ Looked /\ OneOpen

\* The inductive invariant.
IInv == RowsOK /\ JobsOK /\ Control

-----------------------------------------------------------------------------
(* Sequences of rows.                                                       *)

LEMMA RowsGrow ==
  ASSUME NEW Q, NEW R, Q \subseteq R
  PROVE  Seq(Rows(Q)) \subseteq Seq(Rows(R))
<1>1. Rows(Q) \subseteq Rows(R)
  BY DEF Rows
<1> QED
  BY <1>1, SeqMonotonic

\* What is written to one row leaves the others alone.
LEMMA RowReplaced ==
  ASSUME NEW Q, orders \in Seq(Rows(Q)), NEW i \in Id, NEW e \in Rows(Q),
         orders' = [orders EXCEPT ![i] = e]
  PROVE  /\ orders' \in Seq(Rows(Q))
         /\ Len(orders') = Len(orders)
         /\ \A k \in Id : orders'[k] = IF k = i THEN e ELSE orders[k]
BY ExceptSeq DEF Id

LEMMA RowAppended ==
  ASSUME NEW Q, orders \in Seq(Rows(Q)), NEW e \in Rows(Q), orders' = Append(orders, e)
  PROVE  /\ orders' \in Seq(Rows(Q))
         /\ Len(orders) \in Nat /\ Len(orders') = Len(orders) + 1
         /\ orders'[Len(orders')] = e
         /\ \A k \in Id : orders'[k] = orders[k]
BY AppendProperties, LenProperties DEF Id

-----------------------------------------------------------------------------
(* Jobs.                                                                    *)

LEMMA JobsGrow ==
  ASSUME NEW Q, NEW R, Q \subseteq R
  PROVE  Jobs(Q) \subseteq Jobs(R)
BY DEF Jobs

LEMMA JobGoesOn ==
  ASSUME JobsOK, NEW j \in Job, NEW pc \in Pc, GoesOn(j, pc)
  PROVE  JobsOK' /\ \A k \in Job : jobs'[k].pc = IF k = j THEN pc ELSE jobs[k].pc
<1>1. PICK Q : jobs \in [Job -> Jobs(Q)]
  BY DEF JobsOK
<1>2. jobs' \in [Job -> Jobs(Q)]
  BY <1>1 DEF GoesOn, Jobs
<1> QED
  BY <1>1, <1>2 DEF JobsOK, GoesOn, Jobs

LEMMA IdleIsJob == \A Q : IdleJob \in Jobs(Q \cup {0}) /\ IdleJob.pc = "idle"
BY DEF IdleJob, Jobs, Pc

LEMMA JobEnds ==
  ASSUME JobsOK, NEW j \in Job, Ends(j)
  PROVE  JobsOK' /\ \A k \in Job : jobs'[k].pc = IF k = j THEN "idle" ELSE jobs[k].pc
<1>1. PICK Q : jobs \in [Job -> Jobs(Q)]
  BY DEF JobsOK
<1>2. jobs' \in [Job -> Jobs(Q \cup {0})]
  BY <1>1, JobsGrow, IdleIsJob DEF Ends
<1> QED
  BY <1>1, <1>2, IdleIsJob DEF JobsOK, Ends

\* The job that waits for the order of a row ends; nobody waits for one that is over.
LEMMA JobsAfter ==
  ASSUME JobsOK, NEW i \in Id, jobs' = JobAfter(i)
  PROVE  /\ JobsOK'
         /\ \A k \in Job :
              jobs'[k].pc = IF orders[i].stage # "over" /\ orders[i].by = k THEN "idle" ELSE jobs[k].pc
<1>1. PICK Q : jobs \in [Job -> Jobs(Q)]
  BY DEF JobsOK
<1>2. jobs' \in [Job -> Jobs(Q \cup {0})]
  BY <1>1, JobsGrow, IdleIsJob DEF JobAfter
<1> QED
  BY <1>1, <1>2, IdleIsJob DEF JobsOK, JobAfter

-----------------------------------------------------------------------------
(* What the invariant says of rows and jobs together.                       *)

\* Steps that submit nothing, end no submission and bring no order to the broker.
LEMMA QuietStep ==
  ASSUME Control, Len(orders') = Len(orders),
         \A k \in Id : /\ orders'[k].by = orders[k].by
                       /\ orders'[k].stage = orders[k].stage
                       /\ orders'[k].late = orders[k].late
                       /\ orders'[k].remote = "open" => orders[k].remote = "open",
         \A j \in Job : \/ jobs'[j].pc = jobs[j].pc
                        \/ jobs[j].pc # "wait" /\ jobs'[j].pc \notin {"submit", "wait"}
  PROVE  Control'
<1> USE DEF Id
<1>1. Awaited'
  BY DEF Control, Awaited
<1>2. OneSubmission' /\ OpenIsOver' /\ OneOpen'
  BY DEF Control, OneSubmission, OpenIsOver, OneOpen
<1>3. Looked'
  BY DEF Control, Looked
<1> QED
  BY <1>1, <1>2, <1>3 DEF Control

\* A job passes its look at the open orders: there was none.
LEMMA LookStep ==
  ASSUME Control, UNCHANGED orders, ~ OpenAtBroker(Id),
         \A j \in Job : jobs[j].pc = "wait" => jobs'[j].pc = "wait"
  PROVE  Control'
BY DEF Control, Awaited, OneSubmission, OpenIsOver, Looked, OneOpen, Id, OpenAtBroker

\* A step of one submission: it goes on, or it ends and its job with it.
LEMMA SubmissionStep ==
  ASSUME Control, RowsOK, NEW i \in Id, Len(orders') = Len(orders),
         \A k \in Id : k # i => orders'[k] = orders[k],
         orders'[i].by = orders[i].by, orders[i].stage # "over",
         orders'[i].remote = "open" => orders'[i].stage = "over",
         \A j \in Job : jobs'[j].pc = IF orders'[i].stage = "over" /\ orders[i].by = j
                                      THEN "idle" ELSE jobs[j].pc
  PROVE  Control'
<1> USE DEF Id
<1>1. Awaited' /\ OneSubmission' /\ OpenIsOver'
  BY DEF Control, Awaited, OneSubmission, OpenIsOver
<1>2. Looked'
  BY DEF Control, Awaited, OpenIsOver, Looked
<1>3. OneOpen'
  BY DEF Control, Awaited, OpenIsOver, Looked, OneOpen
<1> QED
  BY <1>1, <1>2, <1>3 DEF Control

\* An order that was given up comes to the broker.
LEMMA LateStep ==
  ASSUME Control, NEW i \in Id, Len(orders') = Len(orders), UNCHANGED jobs,
         \A k \in Id : k # i => orders'[k] = orders[k],
         orders'[i].by = orders[i].by, orders'[i].stage = "over", orders[i].stage = "over",
         Late(i) => orders'[i].late
  PROVE  Control'
<1> USE DEF Id
<1>1. Awaited' /\ OneSubmission' /\ OpenIsOver'
  BY DEF Control, Awaited, OneSubmission, OpenIsOver
<1>2. Looked' /\ OneOpen'
  BY DEF Control, Looked, OneOpen, Late
<1> QED
  BY <1>1, <1>2 DEF Control

\* A row is added, of a job that looked or of somebody else.
LEMMA NewRowStep ==
  ASSUME Control, Len(orders) \in Nat, Len(orders') = Len(orders) + 1,
         \A k \in Id : orders'[k] = orders[k],
         NEW new, orders'[Len(orders')] = new,
         \/ /\ new.by \notin Job
            /\ new.stage = "over"
            /\ UNCHANGED jobs
         \/ /\ new.by \in Job
            /\ new.remote = "none"
            /\ jobs[new.by].pc = "submit"
            /\ \A j \in Job : jobs'[j].pc = IF j = new.by THEN "wait" ELSE jobs[j].pc
  PROVE  Control'
<1>1. \A k \in Id' : k \in Id \/ k = Len(orders')
  BY DEF Id
<1>2. Awaited' /\ OneSubmission'
  BY <1>1 DEF Control, Awaited, OneSubmission
<1>3. OpenIsOver' /\ Looked' /\ OneOpen'
  BY <1>1 DEF Control, OpenIsOver, Looked, OneOpen
<1> QED
  BY <1>2, <1>3 DEF Control

-----------------------------------------------------------------------------

LEMMA InitIInv == Init => IInv
<1> SUFFICES ASSUME Init PROVE IInv
  OBVIOUS
<1>1. RowsOK
  BY EmptySeq DEF Init, RowsOK
<1>2. JobsOK
  <2>1. jobs \in [Job -> Jobs({0})]
    BY DEF Init, IdleJob, Jobs, Pc
  <2> QED
    BY <2>1 DEF JobsOK
<1>3. Control
  BY EmptySeq DEF Init, Control, Awaited, OneSubmission, OpenIsOver, Looked, OneOpen, Id
<1> QED
  BY <1>1, <1>2, <1>3 DEF IInv

\* The job that closes the agents' positions, and the manual take-profit.
LEMMA JobSteps ==
  ASSUME IInv,
         \/ ExitsBegin \/ ExitsRows \/ ExitsOpenOrders \/ ExitsHold
         \/ MtpBegin \/ MtpOrigins \/ MtpRows \/ MtpOpenOrders
         \/ \E j \in Job : ReadFails(j)
  PROVE  IInv'
<1> USE DEF IInv
<1>0. "exits" \in Job /\ "mtp" \in Job
  BY DEF Job
<1>r. UNCHANGED orders
  BY DEF ExitsBegin, ExitsRows, ExitsOpenOrders, ExitsHold,
         MtpBegin, MtpOrigins, MtpRows, MtpOpenOrders, ReadFails
<1>R. RowsOK'
  BY <1>r DEF RowsOK
<1>q. PICK Q : jobs \in [Job -> Jobs(Q)]
  BY DEF JobsOK
<1>1. CASE ExitsBegin
  <2> DEFINE R == Q \cup {0, Position}
             job == [IdleJob EXCEPT !.pc = "rows", !.position = Position]
  <2>1. job \in Jobs(R) /\ job.pc = "rows"
    BY DEF IdleJob, Jobs, Pc
  <2>2. jobs' \in [Job -> Jobs(R)]
    BY <1>0, <1>1, <1>q, <2>1, JobsGrow DEF ExitsBegin
  <2>3. Control'
    BY <1>0, <1>r, <1>1, <1>q, <2>1, QuietStep DEF ExitsBegin
  <2> QED
    BY <1>R, <2>2, <2>3 DEF JobsOK
<1>2. CASE MtpBegin
  <2> DEFINE R == Q \cup {0, Position, Abs(Position)}
             job == [IdleJob EXCEPT !.pc = "origins", !.position = Position, !.qty = Abs(Position)]
  <2>1. job \in Jobs(R) /\ job.pc = "origins"
    BY DEF IdleJob, Jobs, Pc
  <2>2. jobs' \in [Job -> Jobs(R)]
    BY <1>0, <1>2, <1>q, <2>1, JobsGrow DEF MtpBegin
  <2>3. Control'
    BY <1>0, <1>r, <1>2, <1>q, <2>1, QuietStep DEF MtpBegin
  <2> QED
    BY <1>R, <2>2, <2>3 DEF JobsOK
<1>3. CASE ExitsRows /\ ~ Ends("exits")
  <2> DEFINE shares == Min({Own(jobs["exits"].position), Abs(jobs["exits"].position)})
             R == Q \cup {shares}
  <2>1. jobs' = [jobs EXCEPT !["exits"].pc = "open", !["exits"].qty = shares]
    BY <1>3 DEF ExitsRows
  <2> HIDE DEF shares
  <2>2. jobs' \in [Job -> Jobs(R)]
    BY <1>0, <1>q, <2>1 DEF Jobs, Pc
  <2>3. jobs'["exits"].pc = "open" /\ jobs'["mtp"].pc = jobs["mtp"].pc
    BY <1>0, <1>q, <2>1 DEF Jobs
  <2>4. Control'
    BY <1>r, <1>3, <2>3, QuietStep DEF ExitsRows, Job
  <2> QED
    BY <1>R, <2>2, <2>4 DEF JobsOK
\* The job asks on, and has not looked at the open orders yet ...
<1>4. ASSUME NEW j \in Job, NEW pc \in {"rows", "open"}, GoesOn(j, pc), jobs[j].pc # "wait"
      PROVE  IInv'
  <2>1. JobsOK' /\ \A k \in Job : jobs'[k].pc = IF k = j THEN pc ELSE jobs[k].pc
    BY <1>4, JobGoesOn DEF Pc
  <2>2. Control'
    BY <1>r, <1>4, <2>1, QuietStep
  <2> QED
    BY <1>R, <2>1, <2>2
\* ... has looked at them ...
<1>5. ASSUME NEW j \in Job, GoesOn(j, "submit"), ~ OpenAtBroker(Id), jobs[j].pc # "wait"
      PROVE  IInv'
  <2>1. JobsOK' /\ \A k \in Job : jobs'[k].pc = IF k = j THEN "submit" ELSE jobs[k].pc
    BY <1>5, JobGoesOn DEF Pc
  <2>2. Control'
    BY <1>r, <1>5, <2>1, LookStep
  <2> QED
    BY <1>R, <2>1, <2>2
\* ... or gives up.
<1>6. ASSUME NEW j \in Job, Ends(j), jobs[j].pc # "wait"
      PROVE  IInv'
  <2>1. JobsOK' /\ \A k \in Job : jobs'[k].pc = IF k = j THEN "idle" ELSE jobs[k].pc
    BY <1>6, JobEnds
  <2>2. Control'
    BY <1>r, <1>6, <2>1, QuietStep
  <2> QED
    BY <1>R, <2>1, <2>2
<1>7. CASE ExitsRows /\ Ends("exits")
  BY <1>0, <1>6, <1>7 DEF ExitsRows
<1>8. CASE ExitsOpenOrders
  BY <1>0, <1>5, <1>6, <1>8 DEF ExitsOpenOrders
<1>9. CASE ExitsHold
  BY <1>0, <1>6, <1>9 DEF ExitsHold
<1>10. CASE MtpOrigins
  BY <1>0, <1>4, <1>6, <1>10 DEF MtpOrigins
<1>11. CASE MtpRows
  BY <1>0, <1>4, <1>6, <1>11 DEF MtpRows
<1>12. CASE MtpOpenOrders
  BY <1>0, <1>5, <1>6, <1>12 DEF MtpOpenOrders
<1>13. CASE \E j \in Job : ReadFails(j)
  BY <1>6, <1>13 DEF ReadFails
<1> QED
  BY <1>1, <1>2, <1>3, <1>7, <1>8, <1>9, <1>10, <1>11, <1>12, <1>13

\* A row is added.
LEMMA SubmitStep ==
  ASSUME IInv, NEW j \in Job, Submit(j)
  PROVE  IInv'
<1> USE DEF IInv
<1>1. PICK Q : orders \in Seq(Rows(Q))
  BY DEF RowsOK
<1> DEFINE new == NewOrder(j, CloseSide(jobs[j].position), jobs[j].qty)
           R == Q \cup {jobs[j].qty}
<1>2. new \in Rows(R) /\ new.by = j /\ new.remote = "none"
  BY DEF NewOrder, Rows, Live, CloseSide
<1>3. orders \in Seq(Rows(R))
  BY <1>1, RowsGrow
<1>4. orders' = Append(orders, new)
  BY DEF Submit
<1> HIDE DEF new, R
<1>5. /\ orders' \in Seq(Rows(R))
      /\ Len(orders) \in Nat /\ Len(orders') = Len(orders) + 1
      /\ orders'[Len(orders')] = new
      /\ \A k \in Id : orders'[k] = orders[k]
  BY <1>2, <1>3, <1>4, RowAppended
<1>6. JobsOK' /\ \A k \in Job : jobs'[k].pc = IF k = j THEN "wait" ELSE jobs[k].pc
  BY JobGoesOn DEF Submit, Pc
<1>7. Control'
  BY <1>2, <1>5, <1>6, NewRowStep DEF Submit
<1> QED
  BY <1>5, <1>6, <1>7 DEF RowsOK

LEMMA EnterStep ==
  ASSUME IInv, Enter
  PROVE  IInv'
<1> USE DEF IInv
<1>1. PICK Q : orders \in Seq(Rows(Q))
  BY DEF RowsOK
<1>2. PICK e \in Entries :
        orders' = Append(orders, [NewOrder(e.by, e.side, e.qty) EXCEPT
                                    !.status = "accepted", !.stage = "over", !.remote = "open"])
  BY DEF Enter
<1> DEFINE new == [NewOrder(e.by, e.side, e.qty) EXCEPT
                     !.status = "accepted", !.stage = "over", !.remote = "open"]
           R == Q \cup {e.qty}
<1>3. new \in Rows(R) /\ new.by \notin Job /\ new.stage = "over"
  BY EntriesAssumption DEF NewOrder, Rows, Live, Job
<1>4. orders \in Seq(Rows(R))
  BY <1>1, RowsGrow
<1> HIDE DEF new, R
<1>5. /\ orders' \in Seq(Rows(R))
      /\ Len(orders) \in Nat /\ Len(orders') = Len(orders) + 1
      /\ orders'[Len(orders')] = new
      /\ \A k \in Id : orders'[k] = orders[k]
  BY <1>2, <1>3, <1>4, RowAppended DEF new
<1>6. Control' /\ UNCHANGED jobs
  BY <1>3, <1>5, NewRowStep DEF Enter
<1> QED
  BY <1>5, <1>6 DEF RowsOK, JobsOK

\* One row is written, by its submission or for the broker.
LEMMA RowSteps ==
  ASSUME IInv, NEW i \in Id,
         \/ Send(i) \/ Unanswered(i) \/ ResendRefused(i)
         \/ BrokerAccepts(i) \/ BrokerAcceptsUnheard(i) \/ BrokerRejects(i)
         \/ BrokerFills(i) \/ BrokerCancels(i) \/ Deliver(i)
  PROVE  IInv'
<1> USE DEF IInv
<1>1. PICK Q : orders \in Seq(Rows(Q))
  BY DEF RowsOK
<1>2. orders[i] \in Rows(Q)
  BY <1>1, ElementOfSeq DEF Id
\* A submission goes on, its job waiting ...
<1>3. ASSUME NEW e \in Rows(Q), orders' = [orders EXCEPT ![i] = e], e.by = orders[i].by,
             orders[i].stage # "over", e.stage # "over", e.remote # "open", UNCHANGED jobs
      PROVE  IInv'
  <2>1. /\ orders' \in Seq(Rows(Q)) /\ Len(orders') = Len(orders)
        /\ \A k \in Id : orders'[k] = IF k = i THEN e ELSE orders[k]
    BY <1>1, <1>3, RowReplaced
  <2>2. Control'
    BY <1>3, <2>1, SubmissionStep
  <2> QED
    BY <1>3, <2>1, <2>2 DEF RowsOK, JobsOK
\* ... or ends, and its job with it.
<1>4. ASSUME NEW e \in Rows(Q), orders' = [orders EXCEPT ![i] = e], e.by = orders[i].by,
             orders[i].stage # "over", e.stage = "over", jobs' = JobAfter(i)
      PROVE  IInv'
  <2>1. /\ orders' \in Seq(Rows(Q)) /\ Len(orders') = Len(orders)
        /\ \A k \in Id : orders'[k] = IF k = i THEN e ELSE orders[k]
    BY <1>1, <1>4, RowReplaced
  <2>2. JobsOK' /\ \A k \in Job : jobs'[k].pc = IF orders[i].by = k THEN "idle" ELSE jobs[k].pc
    BY <1>4, JobsAfter
  <2>3. Control'
    BY <1>4, <2>1, <2>2, SubmissionStep
  <2> QED
    BY <2>1, <2>2, <2>3 DEF RowsOK
\* The row is written without its submission.
<1>5. ASSUME NEW e \in Rows(Q), orders' = [orders EXCEPT ![i] = e], UNCHANGED jobs,
             e.by = orders[i].by, e.stage = orders[i].stage, e.late = orders[i].late,
             e.remote = "open" => orders[i].remote = "open"
      PROVE  IInv'
  <2>1. /\ orders' \in Seq(Rows(Q)) /\ Len(orders') = Len(orders)
        /\ \A k \in Id : orders'[k] = IF k = i THEN e ELSE orders[k]
    BY <1>1, <1>5, RowReplaced
  <2>2. Control'
    BY <1>5, <2>1, QuietStep
  <2> QED
    BY <1>5, <2>1, <2>2 DEF RowsOK, JobsOK
<1>6. ASSUME NEW reason \in {"halted", "unavailable", "rejected"}
      PROVE  /\ Failed(orders[i], reason) \in Rows(Q)
             /\ Failed(orders[i], reason).by = orders[i].by
             /\ Failed(orders[i], reason).stage = "over"
  BY <1>2 DEF Failed, Rows
<1>7. CASE Send(i) /\ halted
  BY <1>4, <1>6, <1>7 DEF Send
<1>8. CASE Send(i) /\ ~ halted
  <2> DEFINE e == [orders[i] EXCEPT !.stage = "wait", !.remote = "wire"]
  <2>1. e \in Rows(Q) /\ e.by = orders[i].by /\ e.stage = "wait" /\ e.remote = "wire"
    BY <1>2 DEF Rows
  <2>2. orders' = [orders EXCEPT ![i] = e]
    BY <1>8 DEF Send
  <2> HIDE DEF e
  <2> QED
    BY <1>3, <1>8, <2>1, <2>2 DEF Send
<1>9. CASE Unanswered(i)
  BY <1>4, <1>6, <1>9 DEF Unanswered
<1>16. CASE ResendRefused(i)
  <2>1. PICK where \in {"open", "wire"} :
          orders' = [orders EXCEPT ![i] = [Failed(orders[i], "rejected") EXCEPT !.remote = where]]
    BY <1>16 DEF ResendRefused
  <2> DEFINE e == [Failed(orders[i], "rejected") EXCEPT !.remote = where]
  <2>2. e \in Rows(Q) /\ e.by = orders[i].by /\ e.stage = "over"
    BY <1>6 DEF Rows
  <2>3. orders' = [orders EXCEPT ![i] = e]
    BY <2>1
  <2> HIDE DEF e
  <2> QED
    BY <1>4, <1>16, <2>2, <2>3 DEF ResendRefused
<1>10. CASE BrokerAccepts(i)
  <2> DEFINE e == [orders[i] EXCEPT !.remote = "open", !.status = "accepted", !.stage = "over"]
  <2>1. e \in Rows(Q) /\ e.by = orders[i].by /\ e.stage = "over"
    BY <1>2 DEF Rows, Live
  <2>2. orders' = [orders EXCEPT ![i] = e]
    BY <1>10 DEF BrokerAccepts
  <2> HIDE DEF e
  <2> QED
    BY <1>4, <1>10, <2>1, <2>2 DEF BrokerAccepts
<1>11. CASE BrokerAcceptsUnheard(i)
  <2> DEFINE e == [orders[i] EXCEPT !.remote = "open", !.late = Late(i), !.stage = "over"]
  <2>1. e \in Rows(Q) /\ e.by = orders[i].by /\ e.stage = "over" /\ (Late(i) => e.late)
    BY <1>2 DEF Rows, Late
  <2>2. orders' = [orders EXCEPT ![i] = e] /\ jobs' = JobAfter(i)
    BY <1>11 DEF BrokerAcceptsUnheard
  <2> HIDE DEF e
  <2>3. CASE orders[i].stage # "over"
    BY <1>4, <2>1, <2>2, <2>3
  <2>4. CASE orders[i].stage = "over"
    <3>1. UNCHANGED jobs
      BY <2>2, <2>4 DEF JobAfter, JobsOK
    <3>2. /\ orders' \in Seq(Rows(Q)) /\ Len(orders') = Len(orders)
          /\ \A k \in Id : orders'[k] = IF k = i THEN e ELSE orders[k]
      BY <1>1, <2>1, <2>2, RowReplaced
    <3>3. Control'
      BY <2>1, <2>4, <3>1, <3>2, LateStep
    <3> QED
      BY <3>1, <3>2, <3>3 DEF RowsOK, JobsOK
  <2> QED
    BY <2>3, <2>4
<1>12. CASE BrokerRejects(i)
  <2>1. CASE orders[i].stage = "wait"
    <3> DEFINE e == [Failed(orders[i], "rejected") EXCEPT !.remote = "none"]
    <3>1. e \in Rows(Q) /\ e.by = orders[i].by /\ e.stage = "over"
      BY <1>6 DEF Rows
    <3>2. orders' = [orders EXCEPT ![i] = e]
      BY <1>12, <2>1 DEF BrokerRejects
    <3> HIDE DEF e
    <3> QED
      BY <1>4, <1>12, <2>1, <3>1, <3>2 DEF BrokerRejects
  <2>2. CASE orders[i].stage # "wait"
    <3> DEFINE e == [orders[i] EXCEPT !.remote = "none"]
    <3>1. e \in Rows(Q) /\ e.by = orders[i].by /\ e.stage = orders[i].stage
          /\ e.late = orders[i].late /\ e.remote # "open"
      BY <1>2 DEF Rows
    <3>2. orders' = [orders EXCEPT ![i] = e] /\ UNCHANGED jobs
      BY <1>12, <2>2 DEF BrokerRejects
    <3> HIDE DEF e
    <3> QED
      BY <1>5, <3>1, <3>2
  <2> QED
    BY <2>1, <2>2
<1>13. CASE BrokerFills(i)
  <2> DEFINE e == [orders[i] EXCEPT !.done = @ + 1,
                     !.remote = IF orders[i].done + 1 = orders[i].qty THEN "filled" ELSE "open"]
  <2>0. orders[i].done + 1 \in Nat
    BY <1>2 DEF Rows
  <2>1. e \in Rows(Q) /\ e.by = orders[i].by /\ e.stage = orders[i].stage /\ e.late = orders[i].late
    BY <1>2, <2>0 DEF Rows
  <2>2. orders' = [orders EXCEPT ![i] = e] /\ UNCHANGED jobs /\ orders[i].remote = "open"
    BY <1>13 DEF BrokerFills
  <2> HIDE DEF e
  <2> QED
    BY <1>5, <2>1, <2>2
<1>14. CASE BrokerCancels(i)
  <2> DEFINE e == [orders[i] EXCEPT !.remote = "canceled"]
  <2>1. /\ e \in Rows(Q) /\ e.by = orders[i].by /\ e.stage = orders[i].stage
        /\ e.late = orders[i].late /\ e.remote # "open"
    BY <1>2 DEF Rows
  <2>2. orders' = [orders EXCEPT ![i] = e] /\ UNCHANGED jobs
    BY <1>14 DEF BrokerCancels
  <2> HIDE DEF e
  <2> QED
    BY <1>5, <2>1, <2>2
<1>15. CASE Deliver(i)
  <2> DEFINE e == [orders[i] EXCEPT !.status = StatusOf(orders[i]), !.filled = orders[i].done]
  <2>1. StatusOf(orders[i]) \in Live \cup {"filled", "canceled", "failed"}
    BY <1>2, <1>15 DEF Deliver, StatusOf, Rows, Live
  <2>2. /\ e \in Rows(Q) /\ e.by = orders[i].by /\ e.stage = orders[i].stage
        /\ e.late = orders[i].late /\ e.remote = orders[i].remote
    BY <1>2, <2>1 DEF Rows
  <2>3. orders' = [orders EXCEPT ![i] = e] /\ UNCHANGED jobs
    BY <1>15 DEF Deliver
  <2> HIDE DEF e
  <2> QED
    BY <1>5, <2>2, <2>3
<1> QED
  BY <1>7, <1>8, <1>9, <1>10, <1>11, <1>12, <1>13, <1>14, <1>15, <1>16

\* All rows are written at once.
LEMMA ReconcileStep ==
  ASSUME IInv, Reconcile
  PROVE  IInv'
<1> USE DEF IInv
<1>1. PICK Q : orders \in Seq(Rows(Q))
  BY DEF RowsOK
<1>2. ASSUME NEW i \in Id
      PROVE  /\ Reconciled(orders[i]) \in Rows(Q)
             /\ Reconciled(orders[i]).by = orders[i].by
             /\ Reconciled(orders[i]).stage = orders[i].stage
             /\ Reconciled(orders[i]).late = orders[i].late
             /\ Reconciled(orders[i]).remote = orders[i].remote
  <2>1. orders[i] \in Rows(Q)
    BY <1>1, ElementOfSeq DEF Id
  <2>2. CASE orders[i].status \notin LocalOpen
    BY <2>1, <2>2 DEF Reconciled
  <2>3. CASE orders[i].status \in LocalOpen /\ orders[i].remote \in {"none", "wire"}
    BY <2>1, <2>3 DEF Reconciled, Rows
  <2>4. CASE orders[i].status \in LocalOpen /\ orders[i].remote \notin {"none", "wire"}
    <3>1. StatusOf(orders[i]) \in Live \cup {"filled", "canceled", "failed"}
      BY <2>1, <2>4 DEF StatusOf, Rows, Live
    <3> QED
      BY <2>1, <2>4, <3>1 DEF Reconciled, Rows
  <2> QED
    BY <2>2, <2>3, <2>4
<1>3. /\ orders' \in Seq(Rows(Q)) /\ Len(orders') = Len(orders)
      /\ \A k \in Id : orders'[k] = Reconciled(orders[k])
  BY <1>1, <1>2, LenProperties DEF Reconcile, Id
<1>4. Control'
  BY <1>2, <1>3, QuietStep DEF Reconcile
<1> QED
  BY <1>3, <1>4 DEF Reconcile, RowsOK, JobsOK

LEMMA CrashStep ==
  ASSUME IInv, Crash
  PROVE  IInv'
<1> USE DEF IInv
<1>1. PICK Q : orders \in Seq(Rows(Q))
  BY DEF RowsOK
<1>2. ASSUME NEW i \in Id
      PROVE  /\ [orders[i] EXCEPT !.stage = "over"] \in Rows(Q)
             /\ [orders[i] EXCEPT !.stage = "over"].by = orders[i].by
             /\ [orders[i] EXCEPT !.stage = "over"].stage = "over"
             /\ [orders[i] EXCEPT !.stage = "over"].late = orders[i].late
             /\ [orders[i] EXCEPT !.stage = "over"].remote = orders[i].remote
  <2>1. orders[i] \in Rows(Q)
    BY <1>1, ElementOfSeq DEF Id
  <2> QED
    BY <2>1 DEF Rows
<1>3. /\ orders' \in Seq(Rows(Q)) /\ Len(orders') = Len(orders)
      /\ \A k \in Id : orders'[k] = [orders[k] EXCEPT !.stage = "over"]
  BY <1>1, <1>2, LenProperties DEF Crash, Id
<1>4. jobs' \in [Job -> Jobs({0})] /\ \A j \in Job : jobs'[j].pc = "idle"
  BY IdleIsJob DEF Crash
<1>5. \A k \in Id' : /\ k \in Id
                     /\ orders'[k].by = orders[k].by /\ orders'[k].stage = "over"
                     /\ orders'[k].late = orders[k].late /\ orders'[k].remote = orders[k].remote
  BY <1>2, <1>3 DEF Id
<1>6. Awaited' /\ OneSubmission' /\ OpenIsOver'
  BY <1>5 DEF Awaited, OneSubmission, OpenIsOver
<1>7. Looked' /\ OneOpen'
  BY <1>4, <1>5 DEF Control, Looked, OneOpen
<1> QED
  BY <1>3, <1>4, <1>6, <1>7 DEF RowsOK, JobsOK, Control

-----------------------------------------------------------------------------

LEMMA NextIInv == IInv /\ [Next]_vars => IInv'
<1> SUFFICES ASSUME IInv, [Next]_vars PROVE IInv'
  OBVIOUS
<1>0. "exits" \in Job /\ "mtp" \in Job
  BY DEF Job
<1>1. CASE ExitsSteps \/ MtpSteps \/ \E j \in Job : ReadFails(j)
  BY <1>0, <1>1, JobSteps, SubmitStep DEF ExitsSteps, MtpSteps
<1>2. CASE Enter
  BY <1>2, EnterStep
<1>3. CASE \E i \in Id : Submission(i) \/ BrokerTakes(i) \/ BrokerEnds(i) \/ Deliver(i)
  BY <1>3, RowSteps DEF Submission, BrokerTakes, BrokerEnds
<1>4. CASE Reconcile
  BY <1>4, ReconcileStep
<1>5. CASE StateChanges \/ UNCHANGED vars
  BY <1>5 DEF StateChanges, vars, IInv, RowsOK, JobsOK, Control, Awaited, OneSubmission,
              OpenIsOver, Looked, OneOpen, Id
<1>6. CASE Crash
  BY <1>6, CrashStep
<1> QED
  BY <1>1, <1>2, <1>3, <1>4, <1>5, <1>6 DEF Next

THEOREM Invariant == Spec => []IInv
<1> QED
  BY InitIInv, NextIInv, PTL DEF Spec

\* exits.py, manual_take_profit.py: a job has one close of its own under way, but
\* for an order that was given up and came to the broker behind its back.
THEOREM ClosesOnce == Spec => []OneCloseAtATime
<1>1. IInv => OneCloseAtATime
  <2> SUFFICES ASSUME IInv, NEW i \in Id, NEW k \in Id,
                      orders[i].by = orders[k].by, orders[i].by \in Job,
                      UnderWay(i), UnderWay(k)
               PROVE  i = k \/ orders[i].late \/ orders[k].late
    BY DEF OneCloseAtATime
  <2> USE DEF IInv, Control, UnderWay
  <2>1. CASE orders[i].stage # "over" /\ orders[k].stage # "over"
    BY <2>1 DEF OneSubmission
  <2>2. CASE orders[i].stage # "over" /\ orders[k].stage = "over"
    BY <2>2 DEF Awaited, Looked
  <2>3. CASE orders[i].stage = "over" /\ orders[k].stage # "over"
    BY <2>3 DEF Awaited, Looked
  <2>4. CASE orders[i].stage = "over" /\ orders[k].stage = "over"
    BY <2>4 DEF OneOpen
  <2> QED
    BY <2>1, <2>2, <2>3, <2>4
<1> QED
  BY <1>1, Invariant, PTL

-----------------------------------------------------------------------------
(* What the exit job sells is covered by what the agents own.               *)

Rounds == Nat \ {0}

\* The sums over such rows are integers, so quantities are, and positive ones.
Quantities ==
  /\ orders \in Seq(Rows(Rounds))
  /\ jobs \in [Job -> Jobs(Int)]
  /\ external \in Nat
  /\ \A j \in Job :
       /\ jobs[j].pc # "idle" => jobs[j].position # 0
       /\ jobs[j].pc \in {"open", "submit"} \/ (j = "mtp" /\ jobs[j].pc # "idle") => jobs[j].qty > 0

\* A row never says more than the broker did, and with a closing status of the
\* broker just that; what was halted is not at the broker.
Honest(order) ==
  /\ order.filled <= order.done /\ order.done <= order.qty
  /\ order.remote = "open" => order.done < order.qty
  /\ order.remote \in {"none", "wire"} => order.done = 0
  /\ order.stage = "send" => order.remote = "none"
  /\ order.stage = "wait" => order.remote = "wire"
  /\ order.status \in {"filled", "canceled"} =>
       order.remote = order.status /\ order.filled = order.done
  /\ order.status = "failed" => order.reason # "none"
  /\ order.reason = "halted" => order.remote = "none"
  /\ order.reason \in {"halted", "rejected", "unavailable"} => order.stage = "over"

\* An order that was written off counts for nothing until it is filled after all.
Excused(order) == WrittenOff(order) => order.done = 0

\* What an order leaves the agents for certain: a sale that may still be filled
\* counts in full.
MayFill(order) ==
  /\ order.stage # "over" \/ order.remote \in {"wire", "open"}
  /\ ~ (WrittenOff(order) /\ order.done = 0)

Floor(order) ==
  IF order.side = 1 THEN order.done ELSE IF MayFill(order) THEN - order.qty ELSE - order.done

Secure == SumFunctionOnSet([i \in Id |-> Floor(orders[i])], AgentIds)

\* What the exit job has made up its mind to sell.
Committed ==
  IF jobs["exits"].pc \in {"open", "submit"} /\ jobs["exits"].position > 0
  THEN jobs["exits"].qty ELSE 0

OnlyExitsSell ==
  \A i \in AgentIds :
    orders[i].side = 1 \/ (orders[i].by = "exits" /\ Excused(orders[i]))

Covered == OnlyExitsSell => Secure >= Committed

OwnInv == IInv /\ Quantities /\ (\A i \in Id : Honest(orders[i])) /\ Covered

\* A sale that was written off may still take shares away, and is no longer excused.
Progress(a, b) ==
  /\ b.by = a.by /\ b.side = a.side
  /\ Honest(b)
  /\ Floor(b) >= Floor(a) \/ (b.side # 1 /\ ~ Excused(b))
  /\ Excused(b) => Excused(a)

LEMMA IdIsFinite ==
  ASSUME NEW Q, orders \in Seq(Rows(Q))
  PROVE  /\ IsFiniteSet(Id) /\ Len(orders) \in Nat
         /\ \A ids \in SUBSET Id : IsFiniteSet(ids)
         /\ AgentIds \in SUBSET Id
         /\ \A i \in Id : orders[i] \in Rows(Q)
<1>1. Len(orders) \in Nat
  BY LenProperties
<1>2. IsFiniteSet(Id)
  BY <1>1, FS_Interval DEF Id
<1> QED
  BY <1>1, <1>2, FS_Subset, ElementOfSeq DEF Id, AgentIds

LEMMA FloorIsInt == \A order \in Rows(Rounds) : Floor(order) \in Int
  BY DEF Rows, Rounds, Floor

LEMMA SecureIsInt ==
  ASSUME orders \in Seq(Rows(Rounds))
  PROVE  Secure \in Int
<1> DEFINE floor == [i \in Id |-> Floor(orders[i])]
<1>1. \A i \in AgentIds : floor[i] \in Int
  BY IdIsFinite, FloorIsInt
<1>2. IsFiniteSet(AgentIds)
  BY IdIsFinite
<1> HIDE DEF floor
<1>3. SumFunctionOnSet(floor, AgentIds) \in Int
  BY <1>1, <1>2, SumIsInt
<1> QED
  BY <1>3 DEF Secure, floor

\* Rows that make progress leave no less to the agents, as long as nobody else
\* sells for them and no order written off was filled.
LEMMA SecureGrows ==
  ASSUME orders \in Seq(Rows(Rounds)), orders' \in Seq(Rows(Rounds)), Len(orders') = Len(orders),
         \A k \in Id : Progress(orders[k], orders'[k]),
         OnlyExitsSell'
  PROVE  Secure' >= Secure /\ Secure \in Int /\ Secure' \in Int
<1> DEFINE before == [i \in Id |-> Floor(orders[i])]
           after == [i \in Id |-> Floor(orders'[i])]
<1>1. Id' = Id
  BY DEF Id
<1>2. AgentIds' = AgentIds
  BY <1>1 DEF AgentIds, Progress
<1>3. IsFiniteSet(AgentIds) /\ AgentIds \in SUBSET Id
  BY IdIsFinite
<1>4. \A i \in Id : orders[i] \in Rows(Rounds) /\ orders'[i] \in Rows(Rounds)
  BY ElementOfSeq DEF Id
<1>5. ASSUME NEW i \in AgentIds
      PROVE  before[i] \in Int /\ after[i] \in Int /\ before[i] <= after[i]
  <2>1. i \in Id /\ Floor(orders[i]) \in Int /\ Floor(orders'[i]) \in Int
    BY <1>3, <1>4, FloorIsInt
  <2>2. orders'[i].side = 1 \/ Excused(orders'[i])
    BY <1>2 DEF OnlyExitsSell
  <2>3. Floor(orders'[i]) >= Floor(orders[i])
    BY <2>1, <2>2 DEF Progress
  <2> QED
    BY <1>1, <2>1, <2>3
<1>6. Secure' = SumFunctionOnSet(after, AgentIds) /\ Secure = SumFunctionOnSet(before, AgentIds)
  BY <1>1, <1>2 DEF Secure
<1> HIDE DEF before, after
<1>7. SumFunctionOnSet(before, AgentIds) <= SumFunctionOnSet(after, AgentIds)
  BY <1>3, <1>5, SumOfMore
<1>8. SumFunctionOnSet(before, AgentIds) \in Int /\ SumFunctionOnSet(after, AgentIds) \in Int
  BY <1>3, <1>5, SumIsInt
<1> QED
  BY <1>6, <1>7, <1>8

\* A new row adds its own.
LEMMA SecureWithNew ==
  ASSUME orders \in Seq(Rows(Rounds)), NEW new \in Rows(Rounds), orders' = Append(orders, new)
  PROVE  Secure' = Secure + IF IsAgent(new.by) THEN Floor(new) ELSE 0
<1> DEFINE before == [i \in Id |-> Floor(orders[i])]
           after == [i \in Id' |-> Floor(orders'[i])]
           n == Len(orders) + 1
<1>1. /\ orders' \in Seq(Rows(Rounds)) /\ Len(orders) \in Nat /\ Len(orders') = n
      /\ orders'[n] = new /\ \A k \in Id : orders'[k] = orders[k]
  BY RowAppended
<1>2. Id' = Id \cup {n} /\ n \notin Id
  BY <1>1 DEF Id
<1>3. AgentIds' = AgentIds \cup (IF IsAgent(new.by) THEN {n} ELSE {})
  BY <1>1, <1>2 DEF AgentIds
<1>4. IsFiniteSet(AgentIds) /\ AgentIds \in SUBSET Id
  BY IdIsFinite
<1>5. \A i \in AgentIds : before[i] = after[i] /\ before[i] \in Int
  BY <1>1, <1>2, <1>4, IdIsFinite, FloorIsInt
<1>6. after[n] = Floor(new) /\ Floor(new) \in Int
  BY <1>1, <1>2, FloorIsInt
<1>7. Secure = SumFunctionOnSet(before, AgentIds) /\ Secure' = SumFunctionOnSet(after, AgentIds')
  BY DEF Secure
<1> HIDE DEF before, after, n
<1>8. SumFunctionOnSet(after, AgentIds) = SumFunctionOnSet(before, AgentIds)
  BY <1>4, <1>5, SumOfSame
<1>9. CASE IsAgent(new.by)
  <2>1. \A i \in AgentIds \cup {n} : after[i] \in Int
    BY <1>5, <1>6
  <2>2. n \notin AgentIds
    BY <1>2, <1>4
  <2>3. SumFunctionOnSet(after, AgentIds \cup {n}) = after[n] + SumFunctionOnSet(after, AgentIds)
    BY <1>4, <2>1, <2>2, SumWith
  <2>4. SumFunctionOnSet(before, AgentIds) \in Int
    BY <1>4, <1>5, SumIsInt
  <2> QED
    BY <1>3, <1>6, <1>7, <1>8, <1>9, <2>3, <2>4
<1>10. CASE ~ IsAgent(new.by)
  <2>1. SumFunctionOnSet(before, AgentIds) \in Int
    BY <1>4, <1>5, SumIsInt
  <2> QED
    BY <1>3, <1>7, <1>8, <1>10, <2>1
<1> QED
  BY <1>9, <1>10

LEMMA CommittedIsNat == Quantities => Committed \in Nat
  BY DEF Quantities, Committed, Jobs, Job

LEMMA CommittedIsNatNext == Quantities' => Committed' \in Nat
  BY DEF Quantities, Committed, Jobs, Job

\* Steps of the rows.
LEMMA RowsProgress ==
  ASSUME Quantities, Quantities', Covered, Len(orders') = Len(orders),
         \A k \in Id : Progress(orders[k], orders'[k]),
         Committed' <= Committed
  PROVE  (\A i \in Id : Honest(orders[i]))' /\ Covered'
<1>1. Id' = Id
  BY DEF Id
<1>2. (\A i \in Id : Honest(orders[i]))'
  BY <1>1 DEF Progress
<1>3. OnlyExitsSell' => OnlyExitsSell
  BY <1>1 DEF OnlyExitsSell, AgentIds, Progress
<1>4. OnlyExitsSell' => Secure' >= Secure /\ Secure \in Int /\ Secure' \in Int
  BY SecureGrows DEF Quantities
<1>5. Committed \in Nat /\ Committed' \in Nat
  BY CommittedIsNat, CommittedIsNatNext
<1> QED
  BY <1>2, <1>3, <1>4, <1>5 DEF Covered

\* Steps of the jobs.
LEMMA JobsProgress ==
  ASSUME Quantities, Quantities', \A i \in Id : Honest(orders[i]), Covered, UNCHANGED orders,
         Committed' <= Committed \/ (OnlyExitsSell => Secure >= Committed')
  PROVE  (\A i \in Id : Honest(orders[i]))' /\ Covered'
<1>1. Id' = Id /\ Secure' = Secure /\ (OnlyExitsSell' <=> OnlyExitsSell)
  BY DEF Id, Secure, OnlyExitsSell, AgentIds
<1>2. Secure \in Int /\ Committed \in Nat /\ Committed' \in Nat
  BY SecureIsInt, CommittedIsNat, CommittedIsNatNext DEF Quantities
<1> QED
  BY <1>1, <1>2 DEF Covered

-----------------------------------------------------------------------------

\* A row that says nothing is open: what is left is what was sold.
LEMMA ClosedRow ==
  ASSUME NEW order \in Rows(Rounds), Honest(order), order.status \notin Live,
         order.side = 1 \/ (order.stage = "over" /\ Excused(order))
  PROVE  order.side * order.filled <= Floor(order)
<1>1. CASE order.side = 1
  BY <1>1 DEF Rows, Rounds, Honest, Floor
<1>2. CASE order.side # 1
  <2>1. order.side = -1 /\ order.stage = "over" /\ Excused(order)
    BY <1>2 DEF Rows
  <2>2. order.status \in {"filled", "canceled", "failed"}
    BY DEF Rows
  <2>3. order.filled \in Nat /\ order.done \in Nat /\ order.filled = order.done
    BY <2>1, <2>2 DEF Honest, Excused, WrittenOff, Rows, Rounds
  <2>4. ~ MayFill(order)
    BY <2>1, <2>2 DEF Honest, Excused, WrittenOff, MayFill, Rows, Rounds
  <2> QED
    BY <2>1, <2>3, <2>4 DEF Floor
<1> QED
  BY <1>1, <1>2

\* With no live row, the agents own at least what the rows say.
LEMMA RowsAreCovered ==
  ASSUME IInv, Quantities, \A i \in Id : Honest(orders[i]), OnlyExitsSell,
         jobs["exits"].pc = "rows", ~ LiveRow
  PROVE  RowNet(AgentIds) <= Secure
<1> DEFINE told == [i \in Id |-> orders[i].side * orders[i].filled]
           floor == [i \in Id |-> Floor(orders[i])]
<1>1. IsFiniteSet(AgentIds) /\ AgentIds \in SUBSET Id /\ \A i \in Id : orders[i] \in Rows(Rounds)
  BY IdIsFinite DEF Quantities
<1>2. ASSUME NEW i \in AgentIds
      PROVE  told[i] \in Int /\ floor[i] \in Int /\ told[i] <= floor[i]
  <2>1. orders[i] \in Rows(Rounds) /\ i \in Id
    BY <1>1
  <2>2. orders[i].by = "exits" => orders[i].stage = "over"
    BY <2>1 DEF IInv, Control, Awaited, Job
  <2>3. orders[i].status \notin Live
    BY <2>1 DEF LiveRow
  <2>4. orders[i].side * orders[i].filled <= Floor(orders[i])
    BY <2>1, <2>2, <2>3, ClosedRow DEF OnlyExitsSell
  <2>5. orders[i].side * orders[i].filled \in Int
    BY <2>1 DEF Rows
  <2> QED
    BY <2>1, <2>4, <2>5, FloorIsInt
<1>3. RowNet(AgentIds) = SumFunctionOnSet(told, AgentIds)
      /\ Secure = SumFunctionOnSet(floor, AgentIds)
  BY DEF RowNet, Secure
<1> HIDE DEF told, floor
<1> QED
  BY <1>1, <1>2, <1>3, SumOfMore

LEMMA NetsAreInt ==
  ASSUME Quantities
  PROVE  /\ RowNet(AgentIds) \in Int
         /\ Position \in Int
         /\ Abs(Position) \in Nat
         /\ Position # 0 => Abs(Position) > 0
<1> DEFINE told == [i \in Id |-> orders[i].side * orders[i].filled]
           done == [i \in Id |-> orders[i].side * orders[i].done]
<1>1. IsFiniteSet(Id) /\ IsFiniteSet(AgentIds) /\ AgentIds \in SUBSET Id
  BY IdIsFinite DEF Quantities
<1>2. \A i \in Id : told[i] \in Int /\ done[i] \in Int
  <2>1. \A i \in Id : orders[i] \in Rows(Rounds)
    BY IdIsFinite DEF Quantities
  <2> QED
    BY <2>1 DEF Rows
<1>3. RowNet(AgentIds) = SumFunctionOnSet(told, AgentIds) /\ BrokerNet(Id) = SumFunctionOnSet(done, Id)
  BY DEF RowNet, BrokerNet
<1> HIDE DEF told, done
<1>4. RowNet(AgentIds) \in Int /\ BrokerNet(Id) \in Int
  BY <1>1, <1>2, <1>3, SumIsInt
<1> QED
  BY <1>4 DEF Position, Quantities, Abs

-----------------------------------------------------------------------------
(* The steps, again for the quantities.                                     *)

LEMMA OwnInit == Init => OwnInv
<1> SUFFICES ASSUME Init PROVE OwnInv
  OBVIOUS
<1>1. Quantities
  BY EmptySeq, BoundsAssumption DEF Init, Quantities, IdleJob, Jobs, Pc
<1>2. Id = {} /\ AgentIds = {}
  BY EmptySeq DEF Init, Id, AgentIds
<1>3. Secure = 0
  BY <1>2, SumOfNone DEF Secure
<1>4. Committed = 0
  BY DEF Init, Committed, IdleJob, Job
<1> QED
  BY <1>1, <1>2, <1>3, <1>4, InitIInv DEF OwnInv, Covered

\* What a job may read and decide.
Sensible(j, job) ==
  /\ job \in Jobs(Int)
  /\ job.pc # "idle" => job.position # 0
  /\ job.pc \in {"open", "submit"} \/ (j = "mtp" /\ job.pc # "idle") => job.qty > 0

LEMMA IdleIsSensible == \A j : Sensible(j, IdleJob)
  BY DEF Sensible, IdleJob, Jobs, Pc

LEMMA JobsAreSensible == Quantities => \A j \in Job : Sensible(j, jobs[j])
  BY DEF Quantities, Sensible

LEMMA JobReplaced ==
  ASSUME Quantities, orders' \in Seq(Rows(Rounds)), UNCHANGED external,
         NEW j \in Job, NEW job, Sensible(j, job), jobs' = [jobs EXCEPT ![j] = job]
  PROVE  /\ Quantities'
         /\ \A k \in Job : jobs'[k] = IF k = j THEN job ELSE jobs[k]
<1>1. \A k \in Job : jobs'[k] = IF k = j THEN job ELSE jobs[k]
  BY DEF Quantities
<1>2. jobs' \in [Job -> Jobs(Int)]
  BY DEF Quantities, Sensible
<1> QED
  BY <1>1, <1>2 DEF Quantities, Sensible

\* A job reads and decides; only the exit job makes up its mind to sell.
LEMMA JobDecides ==
  ASSUME IInv', OwnInv, UNCHANGED <<orders, external>>,
         NEW j \in Job, NEW job, Sensible(j, job), jobs' = [jobs EXCEPT ![j] = job],
         \/ j # "exits" \/ job.pc \notin {"open", "submit"}
         \/ jobs[j].pc \in {"open", "submit"} /\ job.position = jobs[j].position /\ job.qty = jobs[j].qty
         \/ job.position > 0 /\ OnlyExitsSell => Secure >= job.qty
  PROVE  OwnInv'
<1>1. Quantities' /\ \A k \in Job : jobs'[k] = IF k = j THEN job ELSE jobs[k]
  BY JobReplaced DEF OwnInv, Quantities
<1>2. "exits" \in Job
  BY DEF Job
<1>3. Committed \in Nat /\ Committed' \in Nat /\ Secure \in Int
  BY <1>1, CommittedIsNat, CommittedIsNatNext, SecureIsInt DEF OwnInv, Quantities
<1>4. Committed' <= Committed \/ (OnlyExitsSell => Secure >= Committed')
  <2>1. CASE j # "exits"
    BY <1>1, <1>2, <1>3, <2>1 DEF Committed
  <2>2. CASE j = "exits" /\ (job.pc \notin {"open", "submit"} \/ ~ job.position > 0)
    BY <1>1, <1>2, <1>3, <2>2 DEF Committed
  <2>3. CASE j = "exits" /\ jobs[j].pc \in {"open", "submit"} /\ job.position = jobs[j].position
             /\ job.qty = jobs[j].qty
    BY <1>1, <1>2, <1>3, <2>3 DEF Committed
  <2>4. CASE j = "exits" /\ (job.position > 0 /\ OnlyExitsSell => Secure >= job.qty)
             /\ job.pc \in {"open", "submit"} /\ job.position > 0
    BY <1>1, <1>2, <2>4 DEF Committed
  <2> QED
    BY <2>1, <2>2, <2>3, <2>4
<1> QED
  BY <1>1, <1>4, JobsProgress DEF OwnInv

LEMMA OwnJobSteps ==
  ASSUME IInv', OwnInv,
         \/ ExitsBegin \/ ExitsRows \/ ExitsOpenOrders \/ ExitsHold
         \/ MtpBegin \/ MtpOrigins \/ MtpRows \/ MtpOpenOrders
         \/ \E j \in Job : ReadFails(j)
  PROVE  OwnInv'
<1>0. "exits" \in Job /\ "mtp" \in Job /\ "exits" # "mtp"
  BY DEF Job
<1>1. UNCHANGED <<orders, external>>
  BY DEF ExitsBegin, ExitsRows, ExitsOpenOrders, ExitsHold,
         MtpBegin, MtpOrigins, MtpRows, MtpOpenOrders, ReadFails
<1>2. Quantities /\ \A j \in Job : Sensible(j, jobs[j])
  BY JobsAreSensible DEF OwnInv
<1>3. ASSUME NEW j \in Job, Ends(j)
      PROVE  OwnInv'
  <2>1. IdleJob.pc = "idle"
    BY DEF IdleJob
  <2> QED
    BY <1>1, <1>3, <2>1, IdleIsSensible, JobDecides DEF Ends
<1>4. ASSUME NEW j \in Job, NEW pc \in {"rows", "open", "submit"}, GoesOn(j, pc),
             jobs[j].pc # "idle", jobs[j].pc = "open" \/ j = "mtp"
      PROVE  OwnInv'
  <2> DEFINE job == [jobs[j] EXCEPT !.pc = pc]
  <2>1. jobs' = [jobs EXCEPT ![j] = job]
    BY <1>4 DEF GoesOn
  <2>2. job.pc = pc /\ job.position = jobs[j].position /\ job.qty = jobs[j].qty
    BY <1>2 DEF Sensible, Jobs
  <2>3. Sensible(j, job)
    BY <1>2, <1>4, <2>2 DEF Sensible, Jobs, Pc
  <2>4. j # "exits" \/ jobs[j].pc \in {"open", "submit"}
    BY <1>0, <1>4
  <2> HIDE DEF job
  <2> QED
    BY <1>1, <2>1, <2>2, <2>3, <2>4, JobDecides
<1>5. Position \in Int /\ Abs(Position) \in Int /\ (Position # 0 => Abs(Position) > 0)
  BY <1>2, NetsAreInt
<1>6. CASE ExitsBegin
  <2> DEFINE job == [IdleJob EXCEPT !.pc = "rows", !.position = Position]
  <2>1. IdleJob \in Jobs(Int)
    BY IdleIsSensible DEF Sensible
  <2>3. Position # 0
    BY <1>6 DEF ExitsBegin
  <2>4. job \in Jobs(Int) /\ job.pc = "rows" /\ job.position = Position
    BY <1>5, <2>1 DEF Jobs, Pc
  <2>2. jobs' = [jobs EXCEPT !["exits"] = job]
    BY <1>6 DEF ExitsBegin
  <2> HIDE DEF job
  <2>5. Sensible("exits", job) /\ job.pc = "rows"
    BY <1>0, <2>3, <2>4 DEF Sensible
  <2> QED
    BY <1>0, <1>1, <2>2, <2>5, JobDecides
<1>7. CASE MtpBegin
  <2> DEFINE job == [IdleJob EXCEPT !.pc = "origins", !.position = Position, !.qty = Abs(Position)]
  <2>1. Sensible("mtp", job)
    BY <1>5, <1>7 DEF MtpBegin, Sensible, IdleJob, Jobs, Pc
  <2>2. jobs' = [jobs EXCEPT !["mtp"] = job]
    BY <1>7 DEF MtpBegin
  <2> HIDE DEF job
  <2> QED
    BY <1>0, <1>1, <2>1, <2>2, JobDecides
<1>8. CASE ExitsRows /\ ~ Ends("exits")
  <2> DEFINE position == jobs["exits"].position
             own == Own(position)
             shares == Min({own, Abs(position)})
             job == [jobs["exits"] EXCEPT !.pc = "open", !.qty = shares]
  <2>1. /\ jobs["exits"].pc = "rows" /\ own > 0 /\ ~ LiveRow
        /\ jobs' = [jobs EXCEPT !["exits"] = job]
    BY <1>8 DEF ExitsRows
  <2>2. position \in Int /\ position # 0
    BY <1>0, <1>2, <2>1 DEF Sensible, Jobs
  <2>3. RowNet(AgentIds) \in Int
    BY <1>2, NetsAreInt
  <2>4. own \in Int /\ Abs(position) \in Int /\ Abs(position) > 0
        /\ (position > 0 => own = RowNet(AgentIds))
    BY <2>2, <2>3 DEF Own, Sign, Abs
  <2>5. shares \in {own, Abs(position)} /\ shares <= own
    <3> HIDE DEF own, position
    <3>1. \E x \in {own, Abs(position)} : \A y \in {own, Abs(position)} : x <= y
      BY <2>4
    <3> QED
      BY <2>4, <3>1 DEF Min
  <2>6. shares \in Int /\ shares > 0
    BY <2>1, <2>4, <2>5
  <2> HIDE DEF shares
  <2>7. Sensible("exits", job) /\ job.pc = "open" /\ job.position = position /\ job.qty = shares
    BY <1>0, <1>2, <2>2, <2>6 DEF Sensible, Jobs, Pc
  <2>8. job.position > 0 /\ OnlyExitsSell => Secure >= job.qty
    <3>1. OnlyExitsSell => RowNet(AgentIds) <= Secure
      BY <2>1, RowsAreCovered DEF OwnInv
    <3>2. Secure \in Int
      BY <1>2, SecureIsInt DEF Quantities
    <3> QED
      BY <2>3, <2>4, <2>5, <2>6, <2>7, <3>1, <3>2
  <2> HIDE DEF job
  <2> QED
    BY <1>0, <1>1, <2>1, <2>7, <2>8, JobDecides
<1>9. CASE ExitsRows /\ Ends("exits")
  BY <1>0, <1>3, <1>9
<1>10. CASE ExitsOpenOrders
  BY <1>0, <1>3, <1>4, <1>10 DEF ExitsOpenOrders
<1>11. CASE ExitsHold
  BY <1>0, <1>3, <1>11 DEF ExitsHold
<1>12. CASE MtpOrigins
  BY <1>0, <1>3, <1>4, <1>12 DEF MtpOrigins
<1>13. CASE MtpRows
  BY <1>0, <1>3, <1>4, <1>13 DEF MtpRows
<1>14. CASE MtpOpenOrders
  BY <1>0, <1>3, <1>4, <1>14 DEF MtpOpenOrders
<1>15. CASE \E j \in Job : ReadFails(j)
  BY <1>3, <1>15 DEF ReadFails
<1> QED
  BY <1>6, <1>7, <1>8, <1>9, <1>10, <1>11, <1>12, <1>13, <1>14, <1>15

\* A new row: a sale of the exit job takes from what it had made up its mind to
\* sell, a purchase takes nothing, and any other sale breaks the premise.
LEMMA OwnNewRow ==
  ASSUME IInv', OwnInv, Quantities', NEW new \in Rows(Rounds), orders' = Append(orders, new),
         Honest(new), new.done = 0,
         \/ new.side = 1 /\ Committed' <= Committed
         \/ new.side = -1 /\ new.by = "exits" /\ new.qty = Committed /\ Committed' = 0
         \/ new.side = -1 /\ new.by # "exits" /\ Committed' <= Committed
  PROVE  OwnInv'
<1>1. /\ Len(orders) \in Nat /\ Len(orders') = Len(orders) + 1
      /\ orders'[Len(orders')] = new /\ \A k \in Id : orders'[k] = orders[k]
  BY RowAppended DEF OwnInv, Quantities
<1>2. Id' = Id \cup {Len(orders')}
  BY <1>1 DEF Id
<1>3. (\A i \in Id : Honest(orders[i]))'
  BY <1>1, <1>2 DEF OwnInv
<1>4. AgentIds' = AgentIds \cup (IF IsAgent(new.by) THEN {Len(orders')} ELSE {})
      /\ \A i \in AgentIds : orders'[i] = orders[i]
  BY <1>1, <1>2 DEF AgentIds
<1>5. /\ OnlyExitsSell' => OnlyExitsSell
      /\ OnlyExitsSell' /\ IsAgent(new.by) => new.side = 1 \/ new.by = "exits"
  BY <1>1, <1>4 DEF OnlyExitsSell
<1>6. Secure' = Secure + IF IsAgent(new.by) THEN Floor(new) ELSE 0
  BY SecureWithNew DEF OwnInv, Quantities
<1>7. Secure \in Int /\ Committed \in Nat /\ Committed' \in Nat /\ Floor(new) \in Int
  BY SecureIsInt, CommittedIsNat, CommittedIsNatNext, FloorIsInt DEF OwnInv, Quantities
<1>8. (new.side = 1 => Floor(new) = 0) /\ (new.side # 1 => Floor(new) \in {0, - new.qty})
      /\ new.qty > 0 /\ new.qty \in Nat
  <2>1. new.side \in {1, -1} /\ new.qty \in Nat \ {0} /\ new.done = 0
    BY DEF Rows, Rounds
  <2>2. new.side = 1 => Floor(new) = 0
    BY <2>1 DEF Floor
  <2>3. new.side # 1 /\ MayFill(new) => Floor(new) = - new.qty
    BY <2>1 DEF Floor
  <2>4. new.side # 1 /\ ~ MayFill(new) => Floor(new) = 0
    <3>1. new.side # 1 /\ ~ MayFill(new) => Floor(new) = - new.done
      BY DEF Floor
    <3> QED
      BY <2>1, <3>1
  <2> QED
    BY <2>1, <2>2, <2>3, <2>4
<1>9. Covered'
  BY <1>5, <1>6, <1>7, <1>8 DEF OwnInv, Covered, IsAgent
<1> QED
  BY <1>3, <1>9 DEF OwnInv

LEMMA OwnSubmit ==
  ASSUME IInv', OwnInv, NEW j \in Job, Submit(j)
  PROVE  OwnInv'
<1> DEFINE new == NewOrder(j, CloseSide(jobs[j].position), jobs[j].qty)
           job == [jobs[j] EXCEPT !.pc = "wait"]
<1>1. Quantities /\ Sensible(j, jobs[j]) /\ jobs[j].pc = "submit" /\ UNCHANGED external
  BY JobsAreSensible DEF OwnInv, Submit
<1>2. jobs' = [jobs EXCEPT ![j] = job] /\ orders' = Append(orders, new)
  BY DEF Submit, GoesOn
<1>3. /\ new \in Rows(Rounds) /\ Honest(new) /\ new.done = 0 /\ new.by = j /\ new.qty = jobs[j].qty
      /\ new.side = IF jobs[j].position > 0 THEN -1 ELSE 1
  BY <1>1 DEF Sensible, Jobs, NewOrder, CloseSide, Rows, Rounds, Live, Honest
<1>4. Sensible(j, job) /\ job.pc = "wait"
  BY <1>1 DEF Sensible, Jobs, Pc
<1> HIDE DEF new, job
<1>5. orders' \in Seq(Rows(Rounds))
  BY <1>1, <1>2, <1>3, AppendProperties DEF Quantities
<1>6. Quantities' /\ \A k \in Job : jobs'[k] = IF k = j THEN job ELSE jobs[k]
  BY <1>1, <1>2, <1>4, <1>5, JobReplaced
<1>7. Committed \in Nat /\ Committed' = IF j = "exits" THEN 0 ELSE Committed
  BY <1>1, <1>4, <1>6, CommittedIsNat DEF Committed, Job
<1>8. j = "exits" /\ new.side = -1 => new.qty = Committed
  BY <1>1, <1>3 DEF Committed
<1> QED
  BY <1>2, <1>3, <1>6, <1>7, <1>8, OwnNewRow

LEMMA OwnEnter ==
  ASSUME IInv', OwnInv, Enter
  PROVE  OwnInv'
<1>1. PICK e \in Entries :
        orders' = Append(orders, [NewOrder(e.by, e.side, e.qty) EXCEPT
                                    !.status = "accepted", !.stage = "over", !.remote = "open"])
  BY DEF Enter
<1> DEFINE new == [NewOrder(e.by, e.side, e.qty) EXCEPT
                     !.status = "accepted", !.stage = "over", !.remote = "open"]
<1>2. /\ new \in Rows(Rounds) /\ Honest(new) /\ new.done = 0 /\ new.by # "exits"
      /\ new.side \in {1, -1}
  <2>1. e.by \in {"trader", "operator"} /\ e.side \in {1, -1} /\ e.qty \in Nat \ {0}
    BY EntriesAssumption
  <2>2. NewOrder(e.by, e.side, e.qty) \in Rows(Rounds)
    BY <2>1 DEF NewOrder, Rows, Rounds, Live
  <2>3. /\ new \in Rows(Rounds) /\ new.by = e.by /\ new.side = e.side /\ new.qty = e.qty
        /\ new.status = "accepted" /\ new.filled = 0 /\ new.reason = "none"
        /\ new.stage = "over" /\ new.remote = "open" /\ new.done = 0
    BY <2>1 DEF NewOrder, Rows, Rounds, Live
  <2> HIDE DEF new
  <2> QED
    BY <2>1, <2>3 DEF Honest
<1>3. orders' = Append(orders, new) /\ UNCHANGED <<jobs, external>>
  BY <1>1 DEF Enter
<1> HIDE DEF new
<1>4. orders' \in Seq(Rows(Rounds))
  BY <1>2, <1>3, AppendProperties DEF OwnInv, Quantities
<1>5. Quantities' /\ Committed' = Committed /\ Committed \in Nat
  BY <1>3, <1>4, CommittedIsNat DEF OwnInv, Quantities, Committed
<1> QED
  BY <1>2, <1>3, <1>5, OwnNewRow
-----------------------------------------------------------------------------
(* Steps that write the rows there are.                                     *)

\* One row: a sale that may still be filled takes nothing more, nor does one that
\* may not, unless it was written off and is filled after all.
LEMMA MadeProgress ==
  ASSUME NEW a \in Rows(Rounds), NEW b \in Rows(Rounds), Honest(b),
         b.by = a.by, b.side = a.side, b.qty = a.qty, a.done <= b.done,
         WrittenOff(a) => a.done = 0 \/ WrittenOff(b),
         \/ MayFill(a)
         \/ b.done = a.done /\ ~ MayFill(b)
         \/ WrittenOff(b) /\ b.done > 0
  PROVE  Progress(a, b)
<1>1. /\ a.side \in {1, -1} /\ a.qty \in Nat /\ a.done \in Nat
      /\ b.side \in {1, -1} /\ b.qty \in Nat /\ b.done \in Nat /\ b.done <= b.qty
  BY DEF Rows, Rounds, Honest
<1>2. Floor(b) >= Floor(a) \/ (b.side # 1 /\ ~ Excused(b))
  <2>1. CASE b.side = 1
    BY <1>1, <2>1 DEF Floor
  <2>2. CASE WrittenOff(b) /\ b.done > 0 /\ b.side # 1
    BY <2>2 DEF Excused
  <2>3. CASE MayFill(a) \/ (b.done = a.done /\ ~ MayFill(b))
    BY <1>1, <2>3 DEF Floor
  <2> QED
    BY <2>1, <2>2, <2>3
<1>3. Excused(b) => Excused(a)
  BY <1>1 DEF Excused
<1> QED
  BY <1>2, <1>3 DEF Progress

\* A row that takes what the broker did.
LEMMA BroughtUpToDate ==
  ASSUME NEW o \in Rows(Rounds), Honest(o), o.remote \in {"open", "filled", "canceled"}
  PROVE  LET e == [o EXCEPT !.status = StatusOf(o), !.filled = o.done]
         IN  e \in Rows(Rounds) /\ Progress(o, e)
<1> DEFINE e == [o EXCEPT !.status = StatusOf(o), !.filled = o.done]
<1>1. /\ o.done \in Nat
      /\ StatusOf(o) \in IF o.remote = "open" THEN {"accepted", "partially_filled"} ELSE {o.remote}
  BY DEF StatusOf, Rows
<1>2. /\ e \in Rows(Rounds) /\ e.by = o.by /\ e.side = o.side /\ e.qty = o.qty
      /\ e.filled = o.done /\ e.done = o.done /\ e.remote = o.remote
      /\ e.status = StatusOf(o) /\ e.stage = o.stage /\ e.reason = o.reason
  BY <1>1 DEF Rows, Live
<1> HIDE DEF e
<1>3. Honest(e)
  BY <1>1, <1>2 DEF Honest, WrittenOff, Rows, Rounds
<1>5. Progress(o, e)
  BY <1>2, <1>3, MadeProgress DEF MayFill, WrittenOff, Honest, Rows, Rounds
<1> QED
  BY <1>2, <1>5 DEF e

LEMMA ReconciledIsProgress ==
  ASSUME NEW o \in Rows(Rounds), Honest(o)
  PROVE  Reconciled(o) \in Rows(Rounds) /\ Progress(o, Reconciled(o))
<1>1. CASE o.status \notin LocalOpen
  BY <1>1, FloorIsInt DEF Reconciled, Progress
<1>2. CASE o.status \in LocalOpen /\ o.remote \in {"none", "wire"}
  <2> DEFINE reason == IF o.reason = "none" THEN "missing" ELSE o.reason
             e == [o EXCEPT !.status = "failed", !.reason = reason]
  <2>1. Reconciled(o) = e
    BY <1>2 DEF Reconciled
  <2>2. reason \in {"halted", "unavailable", "rejected", "missing"}
    BY DEF Rows
  <2>3. /\ e \in Rows(Rounds) /\ e.by = o.by /\ e.side = o.side /\ e.qty = o.qty
        /\ e.filled = o.filled /\ e.done = o.done /\ e.remote = o.remote
        /\ e.status = "failed" /\ e.stage = o.stage /\ e.reason = reason
    BY <2>2 DEF Rows
  <2> HIDE DEF e
  <2>4. Honest(e)
    BY <2>2, <2>3 DEF Honest
  <2>5. Progress(o, e)
    BY <1>2, <2>2, <2>3, <2>4, MadeProgress DEF MayFill, WrittenOff, Honest, Rows, Rounds
  <2> QED
    BY <2>1, <2>3, <2>5
<1>3. CASE o.status \in LocalOpen /\ o.remote \notin {"none", "wire"}
  BY <1>3, BroughtUpToDate DEF Reconciled, Rows
<1> QED
  BY <1>1, <1>2, <1>3

\* A row that is left as it is.
LEMMA NoProgress ==
  ASSUME Quantities, NEW k \in Id, Honest(orders[k]), orders'[k] = orders[k]
  PROVE  Progress(orders[k], orders'[k])
<1>1. Floor(orders[k]) \in Int
  BY IdIsFinite, FloorIsInt DEF Quantities
<1> QED
  BY <1>1 DEF Progress

\* Submissions that end make no job decide anything.
LEMMA JobsStayOrEnd ==
  ASSUME Quantities, orders' \in Seq(Rows(Rounds)), UNCHANGED external,
         jobs' \in [Job -> Jobs(Int)], \A j \in Job : jobs'[j] \in {jobs[j], IdleJob}
  PROVE  Quantities' /\ Committed' <= Committed
<1>1. Committed \in Nat /\ "exits" \in Job
  BY CommittedIsNat DEF Job
<1>2. \A j \in Job : Sensible(j, jobs'[j])
  BY JobsAreSensible, IdleIsSensible
<1>3. Quantities'
  BY <1>2 DEF Quantities, Sensible
<1>4. IdleJob.pc = "idle"
  BY DEF IdleJob
<1> QED
  BY <1>1, <1>3, <1>4 DEF Committed

LEMMA OwnRowWritten ==
  ASSUME IInv', OwnInv, NEW i \in Id, NEW e \in Rows(Rounds), orders' = [orders EXCEPT ![i] = e],
         Progress(orders[i], e), UNCHANGED external, UNCHANGED jobs \/ jobs' = JobAfter(i)
  PROVE  OwnInv'
<1>1. /\ orders' \in Seq(Rows(Rounds)) /\ Len(orders') = Len(orders)
      /\ \A k \in Id : orders'[k] = IF k = i THEN e ELSE orders[k]
  BY RowReplaced DEF OwnInv, Quantities
<1>2. \A k \in Id : Progress(orders[k], orders'[k])
  BY <1>1, NoProgress DEF OwnInv
<1>3. jobs' \in [Job -> Jobs(Int)] /\ \A j \in Job : jobs'[j] \in {jobs[j], IdleJob}
  <2>1. CASE UNCHANGED jobs
    BY <2>1 DEF OwnInv, Quantities
  <2>2. CASE jobs' = JobAfter(i)
    BY <2>2, IdleIsSensible DEF JobAfter, OwnInv, Quantities, Sensible
  <2> QED
    BY <2>1, <2>2
<1>4. Quantities' /\ Committed' <= Committed
  BY <1>1, <1>3, JobsStayOrEnd DEF OwnInv
<1> QED
  BY <1>1, <1>2, <1>4, RowsProgress DEF OwnInv

LEMMA OwnSubmission ==
  ASSUME IInv', OwnInv, NEW i \in Id, Submission(i)
  PROVE  OwnInv'
<1> DEFINE o == orders[i]
<1>1. o \in Rows(Rounds) /\ Honest(o)
  BY IdIsFinite DEF OwnInv, Quantities
<1>2. ASSUME NEW reason \in {"halted", "unavailable"}
      PROVE  LET e == Failed(o, reason) IN
             /\ e \in Rows(Rounds) /\ e.by = o.by /\ e.side = o.side /\ e.qty = o.qty
             /\ e.filled = o.filled /\ e.done = o.done /\ e.remote = o.remote
             /\ e.status = "failed" /\ e.stage = "over" /\ e.reason = reason
  BY <1>1 DEF Failed, Rows
<1>3. CASE Send(i) /\ halted
  <2> DEFINE e == Failed(o, "halted")
  <2>1. o.stage = "send" /\ orders' = [orders EXCEPT ![i] = e] /\ jobs' = JobAfter(i)
        /\ UNCHANGED external
    BY <1>3 DEF Send
  <2>2. /\ e \in Rows(Rounds) /\ e.by = o.by /\ e.side = o.side /\ e.qty = o.qty
        /\ e.filled = o.filled /\ e.done = o.done /\ e.remote = o.remote
        /\ e.status = "failed" /\ e.stage = "over" /\ e.reason = "halted"
    BY <1>2
  <2> HIDE DEF e, o
  <2>3. Honest(e)
    BY <1>1, <2>1, <2>2 DEF Honest, WrittenOff, Rows, Rounds
  <2>5. Progress(o, e)
    BY <1>1, <2>1, <2>2, <2>3, MadeProgress DEF MayFill, WrittenOff, Honest, Rows, Rounds
  <2> QED
    BY <2>1, <2>2, <2>5, OwnRowWritten DEF o
<1>4. CASE Send(i) /\ ~ halted
  <2> DEFINE e == [o EXCEPT !.stage = "wait", !.remote = "wire"]
  <2>1. o.stage = "send" /\ orders' = [orders EXCEPT ![i] = e] /\ UNCHANGED jobs
        /\ UNCHANGED external
    BY <1>4 DEF Send
  <2>2. /\ e \in Rows(Rounds) /\ e.by = o.by /\ e.side = o.side /\ e.qty = o.qty
        /\ e.filled = o.filled /\ e.done = o.done /\ e.remote = "wire"
        /\ e.status = o.status /\ e.stage = "wait" /\ e.reason = o.reason
    BY <1>1 DEF Rows
  <2> HIDE DEF e, o
  <2>3. Honest(e)
    BY <1>1, <2>1, <2>2 DEF Honest, WrittenOff, Rows, Rounds
  <2>5. Progress(o, e)
    BY <1>1, <2>1, <2>2, <2>3, MadeProgress DEF MayFill, WrittenOff, Honest, Rows, Rounds
  <2> QED
    BY <2>1, <2>2, <2>5, OwnRowWritten DEF o
<1>5. CASE Unanswered(i)
  <2> DEFINE e == Failed(o, "unavailable")
  <2>1. o.stage = "wait" /\ orders' = [orders EXCEPT ![i] = e] /\ jobs' = JobAfter(i)
        /\ UNCHANGED external
    BY <1>5 DEF Unanswered
  <2>2. /\ e \in Rows(Rounds) /\ e.by = o.by /\ e.side = o.side /\ e.qty = o.qty
        /\ e.filled = o.filled /\ e.done = o.done /\ e.remote = o.remote
        /\ e.status = "failed" /\ e.stage = "over" /\ e.reason = "unavailable"
    BY <1>2
  <2> HIDE DEF e, o
  <2>3. Honest(e)
    BY <1>1, <2>1, <2>2 DEF Honest, WrittenOff, Rows, Rounds
  <2>5. Progress(o, e)
    BY <1>1, <2>1, <2>2, <2>3, MadeProgress DEF MayFill, WrittenOff, Honest, Rows, Rounds
  <2> QED
    BY <2>1, <2>2, <2>5, OwnRowWritten DEF o
<1>6. CASE ResendRefused(i)
  <2>1. PICK where \in {"open", "wire"} :
          orders' = [orders EXCEPT ![i] = [Failed(o, "rejected") EXCEPT !.remote = where]]
    BY <1>6 DEF ResendRefused
  <2> DEFINE e == [Failed(o, "rejected") EXCEPT !.remote = where]
  <2>2. o.stage = "wait" /\ orders' = [orders EXCEPT ![i] = e] /\ jobs' = JobAfter(i)
        /\ UNCHANGED external
    BY <1>6, <2>1 DEF ResendRefused
  <2>3. /\ e \in Rows(Rounds) /\ e.by = o.by /\ e.side = o.side /\ e.qty = o.qty
        /\ e.filled = o.filled /\ e.done = o.done /\ e.remote = where
        /\ e.status = "failed" /\ e.stage = "over" /\ e.reason = "rejected"
    BY <1>1 DEF Failed, Rows
  <2> HIDE DEF e, o
  <2>4. Honest(e)
    BY <1>1, <2>2, <2>3 DEF Honest, Rows, Rounds
  <2>5. Progress(o, e)
    BY <1>1, <2>2, <2>3, <2>4, MadeProgress DEF MayFill, WrittenOff, Honest, Rows, Rounds
  <2> QED
    BY <2>2, <2>3, <2>5, OwnRowWritten DEF o
<1> QED
  BY <1>3, <1>4, <1>5, <1>6 DEF Submission

\* What the broker makes of an order on the wire; nothing of it is done yet.
LEMMA OwnTaken ==
  ASSUME IInv', OwnInv, NEW i \in Id, BrokerAccepts(i) \/ BrokerAcceptsUnheard(i) \/ BrokerRejects(i)
  PROVE  OwnInv'
<1> DEFINE o == orders[i]
<1>1. o \in Rows(Rounds) /\ Honest(o)
  BY IdIsFinite DEF OwnInv, Quantities
<1>2. o.remote = "wire" /\ UNCHANGED external
  BY DEF BrokerAccepts, BrokerAcceptsUnheard, BrokerRejects
<1>3. o.done = 0 /\ (MayFill(o) \/ WrittenOff(o))
  BY <1>1, <1>2 DEF Honest, MayFill
\* All it takes of the new row.
<1>4. ASSUME NEW e \in Rows(Rounds), orders' = [orders EXCEPT ![i] = e],
             UNCHANGED jobs \/ jobs' = JobAfter(i),
             e.by = o.by, e.side = o.side, e.qty = o.qty, e.filled = o.filled, e.done = o.done,
             e.stage = "over", Honest(e), WrittenOff(o) => WrittenOff(e)
      PROVE  OwnInv'
  <2> HIDE DEF o
  <2>1. Progress(o, e)
    BY <1>1, <1>3, <1>4, MadeProgress DEF MayFill, Rows, Rounds
  <2> QED
    BY <1>2, <1>4, <2>1, OwnRowWritten DEF o
<1>5. CASE BrokerAccepts(i)
  <2> DEFINE e == [o EXCEPT !.remote = "open", !.status = "accepted", !.stage = "over"]
  <2>1. o.stage = "wait" /\ orders' = [orders EXCEPT ![i] = e] /\ jobs' = JobAfter(i)
    BY <1>5 DEF BrokerAccepts
  <2>2. /\ e \in Rows(Rounds) /\ e.by = o.by /\ e.side = o.side /\ e.qty = o.qty
        /\ e.filled = o.filled /\ e.done = o.done /\ e.remote = "open"
        /\ e.status = "accepted" /\ e.stage = "over" /\ e.reason = o.reason
    BY <1>1 DEF Rows, Live
  <2> HIDE DEF e, o
  <2>3. Honest(e) /\ (WrittenOff(o) => WrittenOff(e))
    BY <1>1, <1>2, <1>3, <2>1, <2>2 DEF Honest, WrittenOff, Rows, Rounds
  <2> QED
    BY <1>4, <2>1, <2>2, <2>3
<1>6. CASE BrokerAcceptsUnheard(i)
  <2> DEFINE e == [o EXCEPT !.remote = "open", !.late = Late(i), !.stage = "over"]
  <2>1. orders' = [orders EXCEPT ![i] = e] /\ jobs' = JobAfter(i)
    BY <1>6 DEF BrokerAcceptsUnheard
  <2>2. /\ e \in Rows(Rounds) /\ e.by = o.by /\ e.side = o.side /\ e.qty = o.qty
        /\ e.filled = o.filled /\ e.done = o.done /\ e.remote = "open"
        /\ e.status = o.status /\ e.stage = "over" /\ e.reason = o.reason
    BY <1>1 DEF Rows, Late
  <2> HIDE DEF e, o
  <2>3. Honest(e) /\ (WrittenOff(o) => WrittenOff(e))
    BY <1>1, <1>2, <1>3, <2>2 DEF Honest, WrittenOff, Rows, Rounds
  <2> QED
    BY <1>4, <2>1, <2>2, <2>3
<1>7. CASE BrokerRejects(i) /\ o.stage = "wait"
  <2> DEFINE e == [Failed(o, "rejected") EXCEPT !.remote = "none"]
  <2>1. orders' = [orders EXCEPT ![i] = e] /\ jobs' = JobAfter(i)
    BY <1>7 DEF BrokerRejects
  <2>2. /\ e \in Rows(Rounds) /\ e.by = o.by /\ e.side = o.side /\ e.qty = o.qty
        /\ e.filled = o.filled /\ e.done = o.done /\ e.remote = "none"
        /\ e.status = "failed" /\ e.stage = "over" /\ e.reason = "rejected"
    BY <1>1 DEF Failed, Rows
  <2> HIDE DEF e, o
  <2>3. Honest(e) /\ (WrittenOff(o) => WrittenOff(e))
    BY <1>1, <1>2, <1>3, <1>7, <2>2 DEF Honest, WrittenOff, Rows, Rounds
  <2> QED
    BY <1>4, <2>1, <2>2, <2>3
<1>8. CASE BrokerRejects(i) /\ o.stage # "wait"
  <2> DEFINE e == [o EXCEPT !.remote = "none"]
  <2>1. orders' = [orders EXCEPT ![i] = e] /\ UNCHANGED jobs
    BY <1>8 DEF BrokerRejects
  <2>2. o.stage = "over"
    BY <1>1, <1>2, <1>8 DEF Honest, Rows
  <2>3. /\ e \in Rows(Rounds) /\ e.by = o.by /\ e.side = o.side /\ e.qty = o.qty
        /\ e.filled = o.filled /\ e.done = o.done /\ e.remote = "none"
        /\ e.status = o.status /\ e.stage = "over" /\ e.reason = o.reason
    BY <1>1, <2>2 DEF Rows
  <2> HIDE DEF e, o
  <2>4. Honest(e) /\ (WrittenOff(o) => WrittenOff(e))
    BY <1>1, <1>2, <1>3, <2>2, <2>3 DEF Honest, WrittenOff, Rows, Rounds
  <2> QED
    BY <1>4, <2>1, <2>3, <2>4
<1> QED
  BY <1>5, <1>6, <1>7, <1>8

\* Fills and cancels of what is open, and the news of them.
LEMMA OwnOpen ==
  ASSUME IInv', OwnInv, NEW i \in Id, BrokerFills(i) \/ BrokerCancels(i) \/ Deliver(i)
  PROVE  OwnInv'
<1> DEFINE o == orders[i]
<1>1. o \in Rows(Rounds) /\ Honest(o) /\ (o.remote = "open" => o.stage = "over")
  BY IdIsFinite DEF OwnInv, Quantities, IInv, Control, OpenIsOver
<1>2. UNCHANGED <<external, jobs>>
  BY DEF BrokerFills, BrokerCancels, Deliver
<1>3. CASE BrokerFills(i)
  <2> DEFINE e == [o EXCEPT !.done = @ + 1,
                     !.remote = IF o.done + 1 = o.qty THEN "filled" ELSE "open"]
  <2>1. o.remote = "open" /\ orders' = [orders EXCEPT ![i] = e]
    BY <1>3 DEF BrokerFills
  <2>2. o.done + 1 \in Nat
    BY <1>1 DEF Rows
  <2>3. /\ e \in Rows(Rounds) /\ e.by = o.by /\ e.side = o.side /\ e.qty = o.qty
        /\ e.filled = o.filled /\ e.done = o.done + 1
        /\ e.remote = (IF o.done + 1 = o.qty THEN "filled" ELSE "open")
        /\ e.status = o.status /\ e.stage = o.stage /\ e.reason = o.reason
    BY <1>1, <2>2 DEF Rows
  <2> HIDE DEF e, o
  <2>4. Honest(e)
    BY <1>1, <2>1, <2>2, <2>3 DEF Honest, WrittenOff, Rows, Rounds
  <2>6. Progress(o, e)
    BY <1>1, <2>1, <2>3, <2>4, MadeProgress DEF MayFill, WrittenOff, Honest, Rows, Rounds
  <2> QED
    BY <1>2, <2>1, <2>3, <2>6, OwnRowWritten DEF o
<1>4. CASE BrokerCancels(i)
  <2> DEFINE e == [o EXCEPT !.remote = "canceled"]
  <2>1. o.remote = "open" /\ orders' = [orders EXCEPT ![i] = e]
    BY <1>4 DEF BrokerCancels
  <2>2. /\ e \in Rows(Rounds) /\ e.by = o.by /\ e.side = o.side /\ e.qty = o.qty
        /\ e.filled = o.filled /\ e.done = o.done /\ e.remote = "canceled"
        /\ e.status = o.status /\ e.stage = o.stage /\ e.reason = o.reason
    BY <1>1 DEF Rows
  <2> HIDE DEF e, o
  <2>3. Honest(e)
    BY <1>1, <2>1, <2>2 DEF Honest, WrittenOff, Rows, Rounds
  <2>5. Progress(o, e)
    BY <1>1, <2>1, <2>2, <2>3, MadeProgress DEF MayFill, WrittenOff, Honest, Rows, Rounds
  <2> QED
    BY <1>2, <2>1, <2>2, <2>5, OwnRowWritten DEF o
<1>5. CASE Deliver(i)
  <2> DEFINE e == [o EXCEPT !.status = StatusOf(o), !.filled = o.done]
  <2>1. o.remote \in {"open", "filled", "canceled"} /\ orders' = [orders EXCEPT ![i] = e]
    BY <1>5 DEF Deliver
  <2>2. e \in Rows(Rounds) /\ Progress(o, e)
    BY <1>1, <2>1, BroughtUpToDate
  <2> HIDE DEF e
  <2> QED
    BY <1>2, <2>1, <2>2, OwnRowWritten
<1> QED
  BY <1>3, <1>4, <1>5

\* All rows at once.
LEMMA OwnReconcile ==
  ASSUME IInv', OwnInv, Reconcile
  PROVE  OwnInv'
<1>1. /\ Len(orders) \in Nat /\ \A k \in Id : orders[k] \in Rows(Rounds) /\ Honest(orders[k])
  BY IdIsFinite DEF OwnInv, Quantities
<1>2. \A k \in Id : Reconciled(orders[k]) \in Rows(Rounds) /\ Progress(orders[k], Reconciled(orders[k]))
  BY <1>1, ReconciledIsProgress
<1>3. /\ orders' \in Seq(Rows(Rounds)) /\ Len(orders') = Len(orders)
      /\ \A k \in Id : orders'[k] = Reconciled(orders[k])
  BY <1>1, <1>2, LenProperties DEF Reconcile, Id
<1>4. UNCHANGED <<external, jobs>> /\ jobs \in [Job -> Jobs(Int)]
  BY DEF Reconcile, OwnInv, Quantities
<1>5. Quantities' /\ Committed' <= Committed
  BY <1>3, <1>4, JobsStayOrEnd DEF OwnInv
<1> QED
  BY <1>2, <1>3, <1>5, RowsProgress DEF OwnInv

LEMMA OwnCrash ==
  ASSUME IInv', OwnInv, Crash
  PROVE  OwnInv'
<1> DEFINE Over(o) == [o EXCEPT !.stage = "over"]
<1>1. /\ Len(orders) \in Nat /\ \A k \in Id : orders[k] \in Rows(Rounds) /\ Honest(orders[k])
  BY IdIsFinite DEF OwnInv, Quantities
<1>2. ASSUME NEW o \in Rows(Rounds), Honest(o)
      PROVE  Over(o) \in Rows(Rounds) /\ Progress(o, Over(o))
  <2> DEFINE e == Over(o)
  <2>1. /\ e \in Rows(Rounds) /\ e.by = o.by /\ e.side = o.side /\ e.qty = o.qty
        /\ e.filled = o.filled /\ e.done = o.done /\ e.remote = o.remote
        /\ e.status = o.status /\ e.stage = "over" /\ e.reason = o.reason
    BY DEF Rows
  <2> HIDE DEF e
  <2>2. Honest(e)
    BY <1>2, <2>1 DEF Honest, WrittenOff, Rows, Rounds
  <2>4. Progress(o, e)
    BY <2>1, <2>2, MadeProgress DEF MayFill, WrittenOff, Honest, Rows, Rounds
  <2> QED
    BY <2>1, <2>4 DEF e
<1>3. /\ orders' \in Seq(Rows(Rounds)) /\ Len(orders') = Len(orders)
      /\ \A k \in Id : orders'[k] = Over(orders[k])
  <2>1. orders' = [k \in 1..Len(orders) |-> Over(orders[k])]
    BY DEF Crash, Id
  <2> HIDE DEF Over
  <2>2. \A k \in 1..Len(orders) : Over(orders[k]) \in Rows(Rounds)
    BY <1>1, <1>2 DEF Id
  <2> QED
    BY <1>1, <2>1, <2>2, LenProperties DEF Id
<1>4. UNCHANGED external /\ jobs' = [j \in Job |-> IdleJob]
  BY DEF Crash
<1>5. IdleJob \in Jobs(Int)
  BY IdleIsSensible DEF Sensible
<1>6. Quantities' /\ Committed' <= Committed
  BY <1>3, <1>4, <1>5, JobsStayOrEnd DEF OwnInv
<1> HIDE DEF Over
<1> QED
  BY <1>1, <1>2, <1>3, <1>6, RowsProgress DEF OwnInv

-----------------------------------------------------------------------------

LEMMA NextOwnInv == OwnInv /\ [Next]_vars => OwnInv'
<1> SUFFICES ASSUME OwnInv, [Next]_vars PROVE OwnInv'
  OBVIOUS
<1>1. IInv'
  BY NextIInv DEF OwnInv
<1>2. "exits" \in Job /\ "mtp" \in Job
  BY DEF Job
<1>3. CASE (ExitsSteps \/ MtpSteps \/ \E j \in Job : ReadFails(j)) /\ ~ \E j \in Job : Submit(j)
  BY <1>1, <1>2, <1>3, OwnJobSteps DEF ExitsSteps, MtpSteps
<1>4. CASE \E j \in Job : Submit(j)
  BY <1>1, <1>4, OwnSubmit
<1>5. CASE Enter
  BY <1>1, <1>5, OwnEnter
<1>6. CASE \E i \in Id : Submission(i) \/ BrokerTakes(i) \/ BrokerEnds(i) \/ Deliver(i)
  BY <1>1, <1>6, OwnSubmission, OwnTaken, OwnOpen DEF BrokerTakes, BrokerEnds
<1>7. CASE Reconcile
  BY <1>1, <1>7, OwnReconcile
<1>8. CASE StateChanges \/ UNCHANGED vars
  <2>1. UNCHANGED <<orders, external, jobs>>
    BY <1>8 DEF StateChanges, vars
  <2>2. Quantities' /\ (\A i \in Id : Honest(orders[i]))' /\ Covered'
    BY <2>1 DEF OwnInv, Quantities, Id, Covered, OnlyExitsSell, AgentIds, Secure, Committed
  <2> QED
    BY <1>1, <2>2 DEF OwnInv
<1>9. CASE Crash
  BY <1>1, <1>9, OwnCrash
<1> QED
  BY <1>3, <1>4, <1>5, <1>6, <1>7, <1>8, <1>9 DEF Next

\* With nobody but the exit job selling for the agents, what the broker did for
\* them is at least what is secure, and that covers what the job is about to sell.
LEMMA CoveredIsOwned == OwnInv => AgentNeverOversells
<1> SUFFICES ASSUME OwnInv, OnlyExitsSell PROVE BrokerNet(AgentIds) >= 0
  BY DEF AgentNeverOversells, OnlyExitsSell, Excused
<1> DEFINE done == [i \in Id |-> orders[i].side * orders[i].done]
           floor == [i \in Id |-> Floor(orders[i])]
<1>1. IsFiniteSet(AgentIds) /\ AgentIds \in SUBSET Id /\ \A i \in Id : orders[i] \in Rows(Rounds)
  BY IdIsFinite DEF OwnInv, Quantities
<1>2. ASSUME NEW i \in AgentIds
      PROVE  done[i] \in Int /\ floor[i] \in Int /\ floor[i] <= done[i]
  <2>1. /\ i \in Id /\ orders[i] \in Rows(Rounds)
        /\ orders[i].done \in Nat /\ orders[i].qty \in Nat /\ orders[i].done <= orders[i].qty
        /\ orders[i].side \in {1, -1}
    BY <1>1 DEF OwnInv, Honest, Rows, Rounds
  <2>2. CASE orders[i].side = 1
    BY <2>1, <2>2 DEF Floor
  <2>3. CASE orders[i].side = -1
    BY <2>1, <2>3 DEF Floor
  <2> QED
    BY <2>1, <2>2, <2>3
<1>3. BrokerNet(AgentIds) = SumFunctionOnSet(done, AgentIds)
      /\ Secure = SumFunctionOnSet(floor, AgentIds)
  BY DEF BrokerNet, Secure
<1> HIDE DEF done, floor
<1>4. /\ SumFunctionOnSet(floor, AgentIds) <= SumFunctionOnSet(done, AgentIds)
      /\ SumFunctionOnSet(floor, AgentIds) \in Int /\ SumFunctionOnSet(done, AgentIds) \in Int
  BY <1>1, <1>2, SumOfMore, SumIsInt
<1>5. Secure >= Committed /\ Committed \in Nat
  BY CommittedIsNat DEF OwnInv, Covered
<1> QED
  BY <1>3, <1>4, <1>5

\* exits.py: however late the rows, lost the answers and wrong the order of the
\* steps, the exit job never sells more than the agents own, as long as nobody
\* else sells for them and no order of the job that was written off is filled after all.
THEOREM NeverOversells == Spec => []AgentNeverOversells
<1>1. Spec => []OwnInv
  BY OwnInit, NextOwnInv, PTL DEF Spec
<1> QED
  BY <1>1, CoveredIsOwned, PTL

=============================================================================
