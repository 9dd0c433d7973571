------------------------ MODULE OrderExecutionProofs ------------------------
(***************************************************************************)
(* The safety invariants of OrderExecution, for any number of keys, bodies, *)
(* concurrent submissions, shares, faults and crashes.  The second part is  *)
(* about what the fills of these orders tell of the open lot (Lots), for    *)
(* histories of any length, moments, prices and losses.                     *)
(***************************************************************************)
EXTENDS OrderExecution, Lots, Sums, SequenceTheorems, TLAPS

HasRow(c) == rows[c].status # "absent"

\* A submission whose row is committed and which has not ended.
Past == {"check", "post", "posted", "fail", "finish"}

\* The inductive invariant.  A submission past its insert owns the one row of
\* its key ...
OneRowPerKey ==
  \A c, d \in Order : HasRow(c) /\ HasRow(d) /\ c[1] = d[1] => c = d

FlowsOwnRows ==
  \A f \in Flow :
    /\ flows[f].pc # "idle" => flows[f].order \in Order
    /\ flows[f].pc \in Past => HasRow(flows[f].order)

OneOwner ==
  \A f, g \in Flow :
    flows[f].pc \in Past /\ flows[g].pc \in Past /\ flows[f].order = flows[g].order => f = g

\* ... what it sends is sent after the check, and only a refused one is halted ...
UncheckedIsUnsent ==
  \A f \in Flow :
    flows[f].pc = "check" \/ (flows[f].pc = "fail" /\ flows[f].reason = "halted")
      => ~ Sent(flows[f].order)

OwnedIsNotHalted ==
  \A f \in Flow : flows[f].pc \in Past => rows[flows[f].order].reason # "halted"

\* ... and every final status under way is the broker's.
BrokerCalls ==
  \A f \in Flow :
    /\ flows[f].pc = "post" => flows[f].attempt \in 1..2
    /\ flows[f].pc = "finish" => flows[f].answer.status = "accepted"

EventsAreTrue ==
  \A i \in 1..Len(events) :
    /\ broker[events[i].order].status # "none"
    /\ events[i].status \in Terminal => broker[events[i].order].status = events[i].status

IngestIsTrue ==
  ingest # NoUpdate =>
    /\ ingest.order \in Order
    /\ ingest.status # "none" /\ broker[ingest.order].status # "none"
    /\ ingest.loaded.status # "absent"
    /\ ingest.status \in Terminal => broker[ingest.order].status = ingest.status

ReconIsTrue ==
  \A c \in Order :
    /\ recon.loaded[c] # NoRow => recon.loaded[c].status \in LocalOpen
    /\ recon.truth[c].status \in Terminal => broker[c].status = recon.truth[c].status

FlowsInv ==
  FlowsOwnRows /\ OneOwner /\ UncheckedIsUnsent /\ OwnedIsNotHalted /\ BrokerCalls

LoadedIsRecorded == \A c \in Order : recon.loaded[c] # NoRow => HasRow(c)

TablesInv ==
  /\ RecordedBeforeSent /\ OneRowPerKey /\ TerminalStatusIsTrue /\ HaltedIsUnsent
  /\ LoadedIsRecorded

UpdatesInv == EventsAreTrue /\ IngestIsTrue /\ ReconIsTrue

IInv == TypeOK /\ TablesInv /\ FlowsInv /\ UpdatesInv

-----------------------------------------------------------------------------
(* What an ORM update leaves in a row.                                     *)

LEMMA UpdatedRow ==
  ASSUME NEW row \in RowType, NEW loaded \in RowType, NEW new \in RowType
  PROVE  LET after == Updated(row, loaded, new) IN
         /\ after \in RowType
         /\ after.status = IF new.status # loaded.status THEN new.status ELSE row.status
         /\ after.reason = IF new.reason # loaded.reason THEN new.reason ELSE row.reason
BY DEF Updated, RowType

LEMMA NoRowTyped == NoRow \in RowType /\ NoRow.status = "absent" /\ NoRow.reason = "none"
BY ParametersAssumption DEF NoRow, RowType

LEMMA FreshRow == Fresh \in RowType /\ Fresh.status = "pending_risk" /\ Fresh.reason = "none"
BY ParametersAssumption DEF Fresh, RowType

LEMMA IdleTyped == Idle \in FlowType /\ Idle.pc = "idle"
BY ParametersAssumption DEF Idle, FlowType, BrokerType

-----------------------------------------------------------------------------
(* Frames: what an action keeps by leaving its variables alone.            *)

LEMMA TablesFrame ==
  ASSUME IInv, UNCHANGED <<rows, broker, wire, recon>>
  PROVE  TablesInv' /\ TablesTyped'
BY DEF LoadedIsRecorded, IInv, TypeOK, TablesInv, TablesTyped, RecordedBeforeSent, OneRowPerKey, HasRow, Sent,
       TerminalStatusIsTrue, HaltedIsUnsent

LEMMA LoadedFrame ==
  ASSUME IInv, UNCHANGED recon, \A c \in Order : HasRow(c) => HasRow(c)'
  PROVE  LoadedIsRecorded'
BY DEF IInv, TablesInv, LoadedIsRecorded

LEMMA FlowsFrame ==
  ASSUME IInv, UNCHANGED <<rows, broker, wire, flows>>
  PROVE  FlowsInv' /\ FlowsTyped'
BY DEF IInv, TypeOK, FlowsInv, FlowsTyped, FlowsOwnRows, OneOwner, UncheckedIsUnsent, Sent,
       OwnedIsNotHalted, BrokerCalls, HasRow

\* The rows may change under the submissions, but not vanish or turn "halted".
LEMMA FlowsFrameRows ==
  ASSUME IInv, UNCHANGED <<broker, wire, flows>>,
         \A c \in Order : HasRow(c) => HasRow(c)',
         \A c \in Order : rows[c].reason # "halted" => rows'[c].reason # "halted"
  PROVE  FlowsInv' /\ FlowsTyped'
<1>1. FlowsTyped' /\ BrokerCalls' /\ OneOwner' /\ UncheckedIsUnsent'
  BY DEF IInv, TypeOK, FlowsInv, FlowsTyped, BrokerCalls, OneOwner, UncheckedIsUnsent, Sent
<1>2. FlowsOwnRows'
  BY DEF IInv, FlowsInv, FlowsOwnRows, Past
<1>3. OwnedIsNotHalted'
  BY DEF IInv, FlowsInv, FlowsOwnRows, OwnedIsNotHalted, Past
<1> QED
  BY <1>1, <1>2, <1>3 DEF FlowsInv

LEMMA UpdatesFrame ==
  ASSUME IInv, UNCHANGED <<broker, connected, events, ingest, recon>>
  PROVE  UpdatesInv' /\ StreamTyped' /\ ReconTyped'
BY DEF IInv, TypeOK, UpdatesInv, EventsAreTrue, IngestIsTrue, ReconIsTrue, StreamTyped, ReconTyped

LEMMA EnvironmentFrame ==
  ASSUME IInv, UNCHANGED <<halted, left>>
  PROVE  EnvironmentTyped'
BY DEF IInv, TypeOK, EnvironmentTyped

LEMMA FaultFrame ==
  ASSUME IInv, Fault, UNCHANGED halted
  PROVE  EnvironmentTyped'
<1>1. left.faults - 1 \in Nat
  BY DEF IInv, TypeOK, EnvironmentTyped, Fault
<1> QED
  BY <1>1 DEF IInv, TypeOK, EnvironmentTyped, Fault

-----------------------------------------------------------------------------
(* The steps of a submission.                                              *)

LEMMA WithAttempt ==
  ASSUME NEW g \in FlowType, NEW n \in 0..2
  PROVE  LET after == [[g EXCEPT !.pc = "post"] EXCEPT !.attempt = n] IN
         after \in FlowType /\ after.order = g.order /\ after.pc = "post" /\ after.attempt = n
<1> DEFINE h == [g EXCEPT !.pc = "post"]
<1>1. h \in FlowType /\ h.order = g.order /\ h.pc = "post"
  BY DEF FlowType
<1> HIDE DEF h
<1>2. [h EXCEPT !.attempt = n] \in FlowType
  BY <1>1 DEF FlowType
<1>3. /\ [h EXCEPT !.attempt = n].order = h.order /\ [h EXCEPT !.attempt = n].pc = h.pc
      /\ [h EXCEPT !.attempt = n].attempt = n
  BY <1>1 DEF FlowType
<1> QED
  BY <1>1, <1>2, <1>3 DEF h

\* A step that only moves the submission f on to g.
LEMMA FlowStep ==
  ASSUME IInv, NEW f \in Flow, NEW g \in FlowType,
         flows' = [flows EXCEPT ![f] = g],
         UNCHANGED <<rows, broker, wire, connected, events, ingest, recon>>,
         EnvironmentTyped',
         g.pc # "idle" => g.order \in Order,
         g.pc \in Past => flows[f].pc \in Past /\ g.order = flows[f].order,
         g.pc = "check" \/ (g.pc = "fail" /\ g.reason = "halted") => ~ Sent(g.order),
         g.pc = "post" => g.attempt \in 1..2,
         g.pc # "finish"
  PROVE  IInv'
<1>1. FlowsTyped' /\ flows'[f] = g /\ \A h \in Flow : h # f => flows'[h] = flows[h]
  BY DEF IInv, TypeOK, FlowsTyped
<1>2. TablesInv' /\ TablesTyped' /\ UpdatesInv' /\ StreamTyped' /\ ReconTyped'
  BY TablesFrame, UpdatesFrame
<1>3. FlowsOwnRows' /\ OneOwner' /\ BrokerCalls'
  BY <1>1 DEF IInv, FlowsInv, FlowsOwnRows, OneOwner, BrokerCalls, HasRow
<1>4. UncheckedIsUnsent' /\ OwnedIsNotHalted'
  BY <1>1 DEF IInv, FlowsInv, UncheckedIsUnsent, OwnedIsNotHalted, Sent
<1> QED
  BY <1>1, <1>2, <1>3, <1>4 DEF IInv, TypeOK, FlowsInv

LEMMA RequestStep == ASSUME IInv, NEW f \in Flow, Request(f) PROVE IInv'
<1>1. PICK c \in Order : flows' = [flows EXCEPT ![f] = [Idle EXCEPT !.pc = "insert", !.order = c]]
  BY DEF Request
<1> DEFINE g == [Idle EXCEPT !.pc = "insert", !.order = c]
<1>2. g \in FlowType /\ g.pc = "insert" /\ g.order = c
  BY IdleTyped DEF FlowType
<1>3. EnvironmentTyped'
  BY DEF Request, IInv, TypeOK, EnvironmentTyped
<1> HIDE DEF g
<1> QED
  BY <1>1, <1>2, <1>3, FlowStep DEF Request, Past, g

LEMMA CheckStep == ASSUME IInv, NEW f \in Flow, Check(f) PROVE IInv'
<1> DEFINE refused == [flows[f] EXCEPT !.pc = "fail", !.reason = "halted"]
           passed == [flows[f] EXCEPT !.pc = "post", !.attempt = 1]
           g == IF halted THEN refused ELSE passed
<1>1. flows[f] \in FlowType
  BY DEF IInv, TypeOK, FlowsTyped
<1>2. /\ g \in FlowType /\ g.order = flows[f].order
      /\ (g.pc = "post" /\ g.attempt \in 1..2) \/ (g.pc = "fail" /\ g.reason = "halted")
  <2>1. refused \in FlowType /\ refused.order = flows[f].order
        /\ refused.pc = "fail" /\ refused.reason = "halted"
    BY <1>1 DEF FlowType
  <2>2. passed \in FlowType /\ passed.order = flows[f].order /\ passed.pc = "post"
        /\ passed.attempt = 1
    <3>1. 1 \in 0..2
      OBVIOUS
    <3> QED
      BY <1>1, <3>1, WithAttempt, Zenon
  <2> QED
    BY <2>1, <2>2
<1>3. flows' = [flows EXCEPT ![f] = g]
  BY DEF Check
<1>4. flows[f].pc = "check" /\ flows[f].order \in Order /\ ~ Sent(flows[f].order)
  BY DEF Check, IInv, FlowsInv, FlowsOwnRows, UncheckedIsUnsent
<1>5. EnvironmentTyped'
  BY EnvironmentFrame DEF Check
<1> HIDE DEF g
<1> QED
  BY <1>2, <1>3, <1>4, <1>5, FlowStep DEF Check, Past

LEMMA TimeoutStep == ASSUME IInv, NEW f \in Flow, Timeout(f) PROVE IInv'
<1> DEFINE again == [flows[f] EXCEPT !.pc = "post", !.attempt = 2]
           given == [flows[f] EXCEPT !.pc = "fail", !.reason = "unavailable"]
           g == IF flows[f].attempt = 1 THEN again ELSE given
<1>1. flows[f] \in FlowType
  BY DEF IInv, TypeOK, FlowsTyped
<1>2. /\ g \in FlowType /\ g.order = flows[f].order
      /\ (g.pc = "post" /\ g.attempt \in 1..2) \/ (g.pc = "fail" /\ g.reason = "unavailable")
  <2>1. again \in FlowType /\ again.order = flows[f].order /\ again.pc = "post"
        /\ again.attempt = 2
    <3>1. 2 \in 0..2
      OBVIOUS
    <3> QED
      BY <1>1, <3>1, WithAttempt, Zenon
  <2>2. given \in FlowType /\ given.order = flows[f].order
        /\ given.pc = "fail" /\ given.reason = "unavailable"
    BY <1>1 DEF FlowType
  <2> QED
    BY <2>1, <2>2
<1>3. flows' = [flows EXCEPT ![f] = g]
  BY DEF Timeout
<1>4. flows[f].pc = "posted" /\ flows[f].order \in Order
  BY DEF Timeout, IInv, FlowsInv, FlowsOwnRows
<1>5. EnvironmentTyped'
  BY EnvironmentFrame DEF Timeout
<1> HIDE DEF g
<1> QED
  BY <1>2, <1>3, <1>4, <1>5, FlowStep DEF Timeout, Past

LEMMA NetworkErrorStep == ASSUME IInv, NEW f \in Flow, NetworkError(f) PROVE IInv'
<1> DEFINE g == [flows[f] EXCEPT !.pc = "fail", !.reason = "unavailable"]
<1>1. flows[f] \in FlowType
  BY DEF IInv, TypeOK, FlowsTyped
<1>2. g \in FlowType /\ g.order = flows[f].order /\ g.pc = "fail" /\ g.reason = "unavailable"
  BY <1>1 DEF FlowType
<1>3. flows' = [flows EXCEPT ![f] = g]
  BY <1>1 DEF NetworkError, IInv, TypeOK, FlowsTyped
<1>4. flows[f].pc = "posted" /\ flows[f].order \in Order
  BY DEF NetworkError, IInv, FlowsInv, FlowsOwnRows
<1>5. EnvironmentTyped'
  BY EnvironmentFrame DEF NetworkError
<1> HIDE DEF g
<1> QED
  BY <1>2, <1>3, <1>4, <1>5, FlowStep DEF NetworkError, Past

LEMMA CommitAbortsStep == ASSUME IInv, NEW f \in Flow, CommitAborts(f) PROVE IInv'
<1>1. EnvironmentTyped'
  BY FaultFrame DEF CommitAborts
<1> QED
  BY <1>1, IdleTyped, FlowStep DEF CommitAborts, Past

LEMMA InsertStep == ASSUME IInv, NEW f \in Flow, Insert(f) PROVE IInv'
<1> DEFINE c == flows[f].order
<1>1. c \in Order /\ flows[f].pc = "insert" /\ flows[f] \in FlowType
  BY DEF Insert, IInv, TypeOK, FlowsTyped, FlowsInv, FlowsOwnRows
<1>2. EnvironmentTyped'
  BY EnvironmentFrame DEF Insert
<1>3. CASE ~ \A d \in SameKey(c) : rows[d] = NoRow
  <2>1. flows' = [flows EXCEPT ![f] = Idle] /\ UNCHANGED rows
    BY <1>3 DEF Insert
  <2> QED
    BY <1>2, <2>1, IdleTyped, FlowStep DEF Insert, Past
<1>4. CASE \A d \in SameKey(c) : rows[d] = NoRow
  <2> DEFINE g == [flows[f] EXCEPT !.pc = "check"]
  <2>1. g \in FlowType /\ g.order = c /\ g.pc = "check"
    BY <1>1 DEF FlowType
  <2>2. rows' = [rows EXCEPT ![c] = Fresh] /\ flows' = [flows EXCEPT ![f] = g]
    BY <1>1, <1>4 DEF Insert, IInv, TypeOK, FlowsTyped
  <2> HIDE DEF g, c
  <2>3. FlowsTyped' /\ flows'[f] = g /\ \A h \in Flow : h # f => flows'[h] = flows[h]
    BY <2>1, <2>2 DEF IInv, TypeOK, FlowsTyped
  <2>4. TablesTyped' /\ rows'[c] = Fresh /\ \A d \in Order : d # c => rows'[d] = rows[d]
    BY <1>1, <2>2, FreshRow DEF Insert, IInv, TypeOK, TablesTyped
  <2>5. \A d \in Order : d[1] = c[1] => ~ HasRow(d)
    BY <1>4, NoRowTyped DEF SameKey, HasRow
  <2>6. ~ Sent(c)
    BY <1>1, <2>5 DEF IInv, TablesInv, RecordedBeforeSent, HasRow
  <2>7. \A d \in Order : Sent(d)' <=> Sent(d)
    BY DEF Insert, Sent
  <2>8. TablesInv'
    <3>1. RecordedBeforeSent' /\ TerminalStatusIsTrue' /\ HaltedIsUnsent'
      BY <2>4, <2>6, <2>7, FreshRow DEF Insert, IInv, TablesInv, RecordedBeforeSent,
         TerminalStatusIsTrue, HaltedIsUnsent, Terminal
    <3>2. OneRowPerKey'
      BY <2>4, <2>5, FreshRow DEF IInv, TablesInv, OneRowPerKey, HasRow
    <3>3. LoadedIsRecorded'
      BY <2>4, FreshRow, LoadedFrame DEF Insert, HasRow
    <3> QED
      BY <3>1, <3>2, <3>3 DEF TablesInv
  <2>9. FlowsInv'
    <3>1. \A h \in Flow : flows[h].pc \in Past => flows[h].order \in Order /\ flows[h].order # c
      BY <2>5, <1>1 DEF IInv, FlowsInv, FlowsOwnRows, Past
    <3>2. FlowsOwnRows' /\ OneOwner'
      BY <1>1, <2>1, <2>3, <2>4, <3>1, FreshRow DEF IInv, FlowsInv, FlowsOwnRows, OneOwner, HasRow
    <3>3. OwnedIsNotHalted'
      BY <2>1, <2>3, <2>4, <3>1, FreshRow DEF IInv, FlowsInv, OwnedIsNotHalted
    <3>4. UncheckedIsUnsent' /\ BrokerCalls'
      <4>1. \A h \in Flow : Sent(flows[h].order)' => Sent(flows[h].order) \/ h = f
        BY <2>3 DEF Insert, Sent
      <4>2. ~ Sent(flows[f].order)'
        BY <2>1, <2>3, <2>6 DEF Insert, Sent
      <4> QED
        BY <2>1, <2>3, <4>1, <4>2 DEF IInv, FlowsInv, UncheckedIsUnsent, BrokerCalls
    <3> QED
      BY <3>2, <3>3, <3>4 DEF FlowsInv
  <2>10. UpdatesInv' /\ StreamTyped' /\ ReconTyped'
    BY UpdatesFrame DEF Insert
  <2> QED
    BY <1>2, <2>3, <2>4, <2>8, <2>9, <2>10 DEF IInv, TypeOK
<1> QED
  BY <1>3, <1>4

\* The row a submission owns is closed by it; the others are left alone.
LEMMA SettleStep ==
  ASSUME IInv, NEW f \in Flow, NEW new \in RowType,
         flows[f].pc \in Past,
         rows' = [rows EXCEPT ![flows[f].order] = Updated(@, Fresh, new)],
         flows' = [flows EXCEPT ![f] = Idle],
         UNCHANGED <<broker, wire, connected, events, ingest, recon, halted, left>>,
         new.status \notin Terminal \cup {"absent"},
         new.reason = "halted" => ~ Sent(flows[f].order)
  PROVE  IInv'
<1> DEFINE c == flows[f].order
<1>1. c \in Order
  BY DEF IInv, FlowsInv, FlowsOwnRows, Past
<1>2. rows[c] \in RowType /\ HasRow(c) /\ rows[c].reason # "halted"
  BY <1>1 DEF IInv, TypeOK, TablesTyped, FlowsInv, FlowsOwnRows, OwnedIsNotHalted
<1> HIDE DEF c
<1>3. /\ TablesTyped'
      /\ rows'[c].status = (IF new.status # Fresh.status THEN new.status ELSE rows[c].status)
      /\ rows'[c].reason = (IF new.reason # Fresh.reason THEN new.reason ELSE rows[c].reason)
      /\ \A d \in Order : d # c => rows'[d] = rows[d]
  <2> DEFINE after == Updated(rows[c], Fresh, new)
  <2>1. /\ after \in RowType
        /\ after.status = (IF new.status # Fresh.status THEN new.status ELSE rows[c].status)
        /\ after.reason = (IF new.reason # Fresh.reason THEN new.reason ELSE rows[c].reason)
    BY <1>2, FreshRow, UpdatedRow
  <2>2. rows' = [rows EXCEPT ![c] = after]
    BY DEF c
  <2> HIDE DEF after
  <2> QED
    BY <1>1, <2>1, <2>2 DEF IInv, TypeOK, TablesTyped
<1>4. \A d \in Order : HasRow(d)' <=> HasRow(d)
  BY <1>1, <1>2, <1>3 DEF HasRow
<1>5. \A d \in Order : Sent(d)' <=> Sent(d)
  BY DEF Sent
<1>6. FlowsTyped' /\ flows'[f] = Idle /\ \A h \in Flow : h # f => flows'[h] = flows[h]
  BY IdleTyped DEF IInv, TypeOK, FlowsTyped
<1>7. TablesInv'
  <2>1. RecordedBeforeSent' /\ OneRowPerKey'
    BY <1>4, <1>5 DEF IInv, TablesInv, RecordedBeforeSent, OneRowPerKey, HasRow
  <2>2. TerminalStatusIsTrue'
    BY <1>1, <1>3 DEF IInv, TablesInv, TerminalStatusIsTrue
  <2>3. HaltedIsUnsent'
    BY <1>1, <1>2, <1>3, <1>5 DEF IInv, TablesInv, HaltedIsUnsent, c
  <2>4. LoadedIsRecorded'
    BY <1>4, LoadedFrame
  <2> QED
    BY <2>1, <2>2, <2>3, <2>4 DEF TablesInv
<1>8. FlowsInv'
  <2>1. \A h \in Flow : h # f /\ flows[h].pc \in Past => flows[h].order \in Order /\ flows[h].order # c
    BY DEF IInv, FlowsInv, OneOwner, FlowsOwnRows, Past, c
  <2>2. FlowsOwnRows' /\ OneOwner' /\ BrokerCalls'
    BY <1>4, <1>6, IdleTyped DEF IInv, FlowsInv, FlowsOwnRows, OneOwner, BrokerCalls, Past
  <2>3. OwnedIsNotHalted'
    BY <1>3, <1>6, <2>1, IdleTyped DEF IInv, FlowsInv, OwnedIsNotHalted, Past
  <2>4. UncheckedIsUnsent'
    BY <1>6, IdleTyped DEF IInv, FlowsInv, UncheckedIsUnsent, Sent
  <2> QED
    BY <2>2, <2>3, <2>4 DEF FlowsInv
<1>9. UpdatesInv' /\ StreamTyped' /\ ReconTyped' /\ EnvironmentTyped'
  BY UpdatesFrame, EnvironmentFrame
<1> QED
  BY <1>3, <1>6, <1>7, <1>8, <1>9 DEF IInv, TypeOK

LEMMA FailStep == ASSUME IInv, NEW f \in Flow, Fail(f) PROVE IInv'
<1> DEFINE new == [Fresh EXCEPT !.status = "failed", !.reason = flows[f].reason]
<1>1. flows[f].reason \in {"none", "halted", "rejected", "unavailable"}
  BY DEF IInv, TypeOK, FlowsTyped, FlowType
<1>2. new \in RowType /\ new.status = "failed" /\ new.reason = flows[f].reason
  BY <1>1, FreshRow DEF RowType
<1>3. new.reason = "halted" => ~ Sent(flows[f].order)
  BY <1>2 DEF Fail, IInv, FlowsInv, UncheckedIsUnsent
<1>4. rows' = [rows EXCEPT ![flows[f].order] = Updated(@, Fresh, new)]
  BY DEF Fail
<1> HIDE DEF new
<1> QED
  BY <1>2, <1>3, <1>4, SettleStep DEF Fail, Past, Terminal

LEMMA FinishStep == ASSUME IInv, NEW f \in Flow, Finish(f) PROVE IInv'
<1> DEFINE answer == flows[f].answer
           new == [Fresh EXCEPT !.status = answer.status, !.filled = answer.filled, !.boid = TRUE]
<1>1. answer \in BrokerType /\ answer.status = "accepted"
  BY DEF Finish, IInv, TypeOK, FlowsTyped, FlowType, FlowsInv, BrokerCalls
<1>2. new \in RowType /\ new.status = "accepted" /\ new.reason = "none"
  <2> HIDE DEF answer
  <2> QED
    BY <1>1, FreshRow DEF RowType, BrokerType
<1>3. rows' = [rows EXCEPT ![flows[f].order] = Updated(@, Fresh, new)]
  BY DEF Finish
<1> HIDE DEF new
<1> QED
  BY <1>2, <1>3, SettleStep DEF Finish, Past, Terminal

LEMMA PostStep == ASSUME IInv, NEW f \in Flow, Post(f) PROVE IInv'
<1> DEFINE c == flows[f].order
           m == [order |-> c, attempt |-> flows[f].attempt]
           g == [flows[f] EXCEPT !.pc = "posted"]
<1>1. flows[f] \in FlowType /\ flows[f].pc = "post" /\ c \in Order /\ HasRow(c)
      /\ rows[c].reason # "halted"
  BY DEF Post, IInv, TypeOK, FlowsTyped, FlowsInv, FlowsOwnRows, OwnedIsNotHalted, Past
<1>2. g \in FlowType /\ g.order = c /\ g.pc = "posted"
  BY <1>1 DEF FlowType
<1>3. flows' = [flows EXCEPT ![f] = g]
  BY <1>1 DEF Post, IInv, TypeOK, FlowsTyped
<1> HIDE DEF g
<1>4. FlowsTyped' /\ flows'[f] = g /\ \A h \in Flow : h # f => flows'[h] = flows[h]
  BY <1>2, <1>3 DEF IInv, TypeOK, FlowsTyped
<1>5. \A h \in Flow : h # f /\ flows[h].pc \in Past => flows[h].order # c
  BY <1>1 DEF IInv, FlowsInv, OneOwner, Past
<1>6. TablesTyped'
  <2>1. flows[f].attempt \in 1..2
    BY <1>1 DEF IInv, FlowsInv, BrokerCalls
  <2> QED
    BY <1>1, <2>1 DEF Post, IInv, TypeOK, TablesTyped
<1> HIDE DEF c
<1>7. \A d \in Order : Sent(d)' => Sent(d) \/ d = c
  BY DEF Post, Sent, c
<1>8. TablesInv'
  <2>1. RecordedBeforeSent' /\ HaltedIsUnsent'
    BY <1>1, <1>7 DEF Post, IInv, TablesInv, RecordedBeforeSent, HaltedIsUnsent, HasRow
  <2>2. OneRowPerKey' /\ TerminalStatusIsTrue'
    BY DEF Post, IInv, TablesInv, OneRowPerKey, TerminalStatusIsTrue, HasRow
  <2>3. LoadedIsRecorded'
    BY LoadedFrame DEF Post, HasRow
  <2> QED
    BY <2>1, <2>2, <2>3 DEF TablesInv
<1>9. FlowsInv'
  <2>1. FlowsOwnRows' /\ OneOwner' /\ BrokerCalls' /\ OwnedIsNotHalted'
    BY <1>1, <1>2, <1>4 DEF Post, IInv, FlowsInv, FlowsOwnRows, OneOwner, BrokerCalls,
       OwnedIsNotHalted, HasRow, Past, c
  <2>2. UncheckedIsUnsent'
    BY <1>2, <1>4, <1>5, <1>7 DEF IInv, FlowsInv, UncheckedIsUnsent, FlowsOwnRows, Past
  <2> QED
    BY <2>1, <2>2 DEF FlowsInv
<1>10. UpdatesInv' /\ StreamTyped' /\ ReconTyped' /\ EnvironmentTyped'
  BY UpdatesFrame, EnvironmentFrame DEF Post
<1> QED
  BY <1>4, <1>6, <1>8, <1>9, <1>10 DEF IInv, TypeOK

-----------------------------------------------------------------------------
(* The steps of the broker.                                                *)

\* An update is announced that says what the broker holds.
LEMMA AnnounceStep ==
  ASSUME StreamTyped, EventsAreTrue, NEW c \in Order, NEW order \in BrokerType,
         order.status # "none", broker' = [broker EXCEPT ![c] = order],
         broker \in [Order -> BrokerType],
         broker[c].status \notin Terminal, Announce(c, order), UNCHANGED <<connected, ingest>>
  PROVE  StreamTyped' /\ EventsAreTrue'
<1> DEFINE E == [order : Order, status : Open \cup Terminal, filled : 0..Qty]
           e == [order |-> c, status |-> order.status, filled |-> order.filled]
<1>1. e \in E
  BY DEF BrokerType
<1>2. \A d \in Order : broker'[d] = IF d = c THEN order ELSE broker[d]
  OBVIOUS
<1>3. events \in Seq(E) /\ \A i \in 1..Len(events) : events[i] \in E
  <2>1. events \in Seq(E)
    BY DEF StreamTyped
  <2> HIDE DEF E
  <2> QED
    BY <2>1, ElementOfSeq
<1>4. \A i \in 1..Len(events) :
        /\ broker'[events[i].order].status # "none"
        /\ events[i].status \in Terminal => broker'[events[i].order].status = events[i].status
  BY <1>2, <1>3 DEF EventsAreTrue
<1>5. CASE ~ connected
  BY <1>4, <1>5 DEF Announce, EventsAreTrue, StreamTyped
<1>6. CASE connected
  <2>1. events' = Append(events, e)
    BY <1>6 DEF Announce
  <2> HIDE DEF E
  <2>2. /\ events' \in Seq(E) /\ Len(events') = Len(events) + 1
        /\ events'[Len(events) + 1] = e
        /\ \A i \in 1..Len(events) : events'[i] = events[i]
    BY <1>1, <1>3, <2>1
  <2>3. broker'[e.order].status = e.status
    BY <1>2
  <2>4. EventsAreTrue'
    <3> SUFFICES ASSUME NEW i \in 1..Len(events')
                 PROVE  /\ broker'[events'[i].order].status # "none"
                        /\ events'[i].status \in Terminal =>
                             broker'[events'[i].order].status = events'[i].status
      BY DEF EventsAreTrue
    <3>1. CASE i = Len(events) + 1
      BY <2>2, <2>3, <3>1
    <3>2. CASE i \in 1..Len(events)
      BY <1>4, <2>2, <3>2
    <3> QED
      BY <1>3, <2>2, <3>1, <3>2
  <2> QED
    BY <2>2, <2>4 DEF StreamTyped, E
<1> QED
  BY <1>5, <1>6

\* The broker changes a live order, or accepts a new one.
LEMMA BrokerStep ==
  ASSUME IInv, NEW c \in Order, NEW order \in BrokerType, order.status # "none",
         broker' = [broker EXCEPT ![c] = order], broker[c].status \notin Terminal, Sent(c),
         wire' \subseteq wire, Announce(c, order),
         UNCHANGED <<rows, connected, ingest, recon, halted, left>>
  PROVE  TablesInv' /\ TablesTyped' /\ UpdatesInv' /\ StreamTyped' /\ ReconTyped'
         /\ EnvironmentTyped' /\ \A d \in Order : Sent(d)' => Sent(d)
<1>1. TablesTyped' /\ \A d \in Order : broker'[d] = IF d = c THEN order ELSE broker[d]
  BY DEF IInv, TypeOK, TablesTyped
<1>2. \A d \in Order : Sent(d)' => Sent(d)
  BY <1>1 DEF Sent
<1>3. TablesInv'
  BY <1>1, <1>2, LoadedFrame DEF IInv, TablesInv, RecordedBeforeSent, OneRowPerKey,
     TerminalStatusIsTrue, HaltedIsUnsent, HasRow
<1>4. StreamTyped' /\ EventsAreTrue'
  BY AnnounceStep DEF IInv, TypeOK, TablesTyped, UpdatesInv
<1>5. ReconTyped' /\ ReconIsTrue' /\ IngestIsTrue'
  BY <1>1 DEF IInv, TypeOK, ReconTyped, UpdatesInv, ReconIsTrue, IngestIsTrue
<1>6. EnvironmentTyped'
  BY EnvironmentFrame
<1> QED
  BY <1>1, <1>2, <1>3, <1>4, <1>5, <1>6 DEF UpdatesInv

\* The answer moves at most the submissions that wait for one.
LEMMA AnsweredStep ==
  ASSUME IInv, NEW m \in wire, NEW pc \in {"finish", "fail"}, NEW answer \in BrokerType,
         NEW reason \in {"none", "rejected"}, Answered(m, pc, answer, reason),
         pc = "finish" => answer.status = "accepted",
         UNCHANGED rows, \A d \in Order : Sent(d)' => Sent(d)
  PROVE  FlowsInv' /\ FlowsTyped'
<1> DEFINE hit(h) == /\ flows[h].pc = "posted"
                     /\ flows[h].order = m.order
                     /\ flows[h].attempt = m.attempt
           g(h) == [flows[h] EXCEPT !.pc = pc, !.answer = answer, !.reason = reason]
<1>1. \A h \in Flow : flows[h] \in FlowType
  BY DEF IInv, TypeOK, FlowsTyped
<1>2. \A h \in Flow : g(h) \in FlowType /\ g(h).pc = pc /\ g(h).order = flows[h].order
                      /\ g(h).answer = answer /\ g(h).reason = reason
  BY <1>1 DEF FlowType
<1>3. flows' = [h \in Flow |-> IF hit(h) THEN g(h) ELSE flows[h]]
  BY DEF Answered
<1> HIDE DEF g
<1>4. FlowsTyped'
  BY <1>1, <1>2, <1>3 DEF FlowsTyped
<1>5. \A h \in Flow :
        /\ flows'[h].order = flows[h].order
        /\ flows'[h] = flows[h] \/ (flows[h].pc = "posted" /\ flows'[h] = g(h))
  BY <1>2, <1>3
<1>6. FlowsOwnRows' /\ OneOwner' /\ OwnedIsNotHalted'
  BY <1>2, <1>5 DEF IInv, FlowsInv, FlowsOwnRows, OneOwner, OwnedIsNotHalted, Past, HasRow
<1>7. UncheckedIsUnsent'
  BY <1>2, <1>5 DEF IInv, FlowsInv, UncheckedIsUnsent, FlowsOwnRows
<1>8. BrokerCalls'
  BY <1>2, <1>5 DEF IInv, FlowsInv, BrokerCalls
<1> QED
  BY <1>4, <1>6, <1>7, <1>8 DEF FlowsInv

LEMMA WireTyped ==
  ASSUME IInv, NEW m \in wire
  PROVE  m.order \in Order /\ Sent(m.order)
BY DEF IInv, TypeOK, TablesTyped, Sent

LEMMA BrokerAcceptsStep == ASSUME IInv, NEW m \in wire, BrokerAccepts(m) PROVE IInv'
<1> DEFINE accepted == [status |-> "accepted", filled |-> 0]
<1>1. accepted \in BrokerType /\ accepted.status = "accepted"
  BY ParametersAssumption DEF BrokerType, Open
<1> HIDE DEF accepted
<1>2. /\ broker[m.order].status = "none" /\ broker' = [broker EXCEPT ![m.order] = accepted]
      /\ wire' = wire \ {m} /\ Announce(m.order, accepted)
      /\ Answered(m, "finish", accepted, "none")
      /\ UNCHANGED <<rows, connected, ingest, recon, halted, left>>
  BY DEF BrokerAccepts, accepted
<1>3. /\ TablesInv' /\ TablesTyped' /\ UpdatesInv' /\ StreamTyped' /\ ReconTyped'
      /\ EnvironmentTyped' /\ \A d \in Order : Sent(d)' => Sent(d)
  BY <1>1, <1>2, WireTyped, BrokerStep DEF Terminal
<1>4. FlowsInv' /\ FlowsTyped'
  BY <1>1, <1>2, <1>3, AnsweredStep
<1> QED
  BY <1>3, <1>4 DEF IInv, TypeOK

\* A request leaves the wire without an order at the broker.
LEMMA WireStep ==
  ASSUME IInv, wire' \subseteq wire,
         UNCHANGED <<rows, broker, connected, events, ingest, recon, halted, left>>
  PROVE  TablesInv' /\ TablesTyped' /\ UpdatesInv' /\ StreamTyped' /\ ReconTyped'
         /\ EnvironmentTyped' /\ \A d \in Order : Sent(d)' => Sent(d)
<1>1. \A d \in Order : Sent(d)' => Sent(d)
  BY DEF Sent
<1>2. TablesInv' /\ TablesTyped'
  BY <1>1, LoadedFrame DEF IInv, TypeOK, TablesTyped, TablesInv, RecordedBeforeSent,
     OneRowPerKey, HasRow, TerminalStatusIsTrue, HaltedIsUnsent
<1> QED
  BY <1>1, <1>2, UpdatesFrame, EnvironmentFrame

LEMMA BrokerRejectsStep == ASSUME IInv, NEW m \in wire, BrokerRejects(m) PROVE IInv'
<1> DEFINE nothing == [status |-> "none", filled |-> 0]
<1>1. nothing \in BrokerType
  BY ParametersAssumption DEF BrokerType
<1> HIDE DEF nothing
<1>2. Answered(m, "fail", nothing, "rejected")
  BY DEF BrokerRejects, nothing
<1>3. /\ TablesInv' /\ TablesTyped' /\ UpdatesInv' /\ StreamTyped' /\ ReconTyped'
      /\ EnvironmentTyped' /\ \A d \in Order : Sent(d)' => Sent(d)
  BY WireStep DEF BrokerRejects
<1>4. FlowsInv' /\ FlowsTyped'
  BY <1>1, <1>2, <1>3, AnsweredStep DEF BrokerRejects
<1> QED
  BY <1>3, <1>4 DEF IInv, TypeOK

LEMMA FlowsFrameSent ==
  ASSUME IInv, UNCHANGED <<rows, flows>>, \A d \in Order : Sent(d)' => Sent(d)
  PROVE  FlowsInv' /\ FlowsTyped'
<1>1. FlowsTyped' /\ FlowsOwnRows' /\ OneOwner' /\ OwnedIsNotHalted' /\ BrokerCalls'
  BY DEF IInv, TypeOK, FlowsTyped, FlowsInv, FlowsOwnRows, OneOwner, OwnedIsNotHalted,
     BrokerCalls, HasRow
<1>2. UncheckedIsUnsent'
  BY DEF IInv, FlowsInv, FlowsOwnRows, UncheckedIsUnsent, Past
<1> QED
  BY <1>1, <1>2 DEF FlowsInv

LEMMA RequestLostStep == ASSUME IInv, NEW m \in wire, RequestLost(m) PROVE IInv'
<1>1. wire' \subseteq wire
  BY DEF RequestLost
<1> QED
  BY <1>1, WireStep, FlowsFrameSent DEF RequestLost, IInv, TypeOK

LEMMA LiveStep ==
  ASSUME IInv, NEW c \in Order, NEW order \in BrokerType, order.status # "none",
         broker' = [broker EXCEPT ![c] = order], broker[c].status \in Open, Announce(c, order),
         UNCHANGED <<rows, wire, flows, connected, ingest, recon, halted, left>>
  PROVE  IInv'
<1>1. Sent(c) /\ broker[c].status \notin Terminal
  BY DEF Sent, Open, Terminal
<1>2. /\ TablesInv' /\ TablesTyped' /\ UpdatesInv' /\ StreamTyped' /\ ReconTyped'
      /\ EnvironmentTyped' /\ \A d \in Order : Sent(d)' => Sent(d)
  BY <1>1, BrokerStep
<1> QED
  BY <1>2, FlowsFrameSent DEF IInv, TypeOK

LEMMA BrokerFillsStep == ASSUME IInv, NEW c \in Order, BrokerFills(c) PROVE IInv'
<1> DEFINE filled == broker[c].filled + 1
           order == [status |-> IF filled = Qty THEN "filled" ELSE "partially_filled",
                     filled |-> filled]
<1>1. filled \in 0..Qty
  BY ParametersAssumption DEF BrokerFills, IInv, TypeOK, TablesTyped, BrokerType
<1>2. order \in BrokerType /\ order.status # "none"
  BY <1>1 DEF BrokerType, Open, Terminal
<1>3. broker' = [broker EXCEPT ![c] = order] /\ Announce(c, order)
  BY DEF BrokerFills
<1> HIDE DEF order
<1> QED
  BY <1>2, <1>3, LiveStep DEF BrokerFills

LEMMA BrokerCancelsStep == ASSUME IInv, NEW c \in Order, BrokerCancels(c) PROVE IInv'
<1> DEFINE order == [broker[c] EXCEPT !.status = "canceled"]
<1>1. broker[c] \in BrokerType
  BY DEF IInv, TypeOK, TablesTyped
<1>2. order \in BrokerType /\ order.status = "canceled"
  BY <1>1 DEF BrokerType, Terminal
<1>3. broker' = [broker EXCEPT ![c] = order] /\ Announce(c, order)
  BY DEF BrokerCancels
<1> HIDE DEF order
<1> QED
  BY <1>2, <1>3, LiveStep DEF BrokerCancels

-----------------------------------------------------------------------------
(* The steps of the stream and of the reconciliation.                      *)

LEMMA ApplyLoadsStep == ASSUME IInv, ApplyLoads PROVE IInv'
<1> DEFINE E == [order : Order, status : Open \cup Terminal, filled : 0..Qty]
           e == Head(events)
<1>1. events \in Seq(E) /\ events # <<>>
  BY DEF ApplyLoads, IInv, TypeOK, StreamTyped
<1>2. /\ e = events[1] /\ e \in E /\ 1 \in 1..Len(events)
      /\ Tail(events) \in Seq(E) /\ Len(Tail(events)) = Len(events) - 1
      /\ \A i \in 1..Len(Tail(events)) : Tail(events)[i] = events[i + 1] /\ i + 1 \in 1..Len(events)
  <2> HIDE DEF E
  <2> QED
    BY <1>1
<1>3. /\ broker[e.order].status # "none"
      /\ e.status \in Terminal => broker[e.order].status = e.status
  BY <1>2 DEF IInv, UpdatesInv, EventsAreTrue
<1>4. e.order \in Order /\ e.status # "none" /\ HasRow(e.order) /\ rows[e.order] \in RowType
  BY <1>2, <1>3 DEF IInv, TypeOK, TablesTyped, TablesInv, RecordedBeforeSent, HasRow, Sent, Open,
     Terminal
<1>5. /\ events' = Tail(events)
      /\ ingest' = [order |-> e.order, status |-> e.status, filled |-> e.filled,
                    loaded |-> rows[e.order]]
  BY DEF ApplyLoads
<1> HIDE DEF e
<1>6. StreamTyped'
  <2>1. events' \in Seq(E)
    BY <1>2, <1>5
  <2>2. connected' \in BOOLEAN
    BY DEF ApplyLoads, IInv, TypeOK, StreamTyped
  <2> QED
    BY <1>2, <1>4, <1>5, <2>1, <2>2 DEF StreamTyped
<1>7. EventsAreTrue'
  BY <1>2, <1>5 DEF ApplyLoads, IInv, UpdatesInv, EventsAreTrue
<1>8. IngestIsTrue'
  BY <1>3, <1>4, <1>5 DEF ApplyLoads, IngestIsTrue, HasRow
<1>9. ReconIsTrue' /\ ReconTyped'
  BY DEF ApplyLoads, IInv, TypeOK, ReconTyped, UpdatesInv, ReconIsTrue
<1>10. TablesInv' /\ TablesTyped' /\ FlowsInv' /\ FlowsTyped' /\ EnvironmentTyped'
  BY TablesFrame, FlowsFrame, EnvironmentFrame DEF ApplyLoads
<1> QED
  BY <1>6, <1>7, <1>8, <1>9, <1>10 DEF IInv, TypeOK, UpdatesInv

\* Rows are overwritten with a status that is not final, or that is the broker's.
LEMMA OverwriteStep ==
  ASSUME IInv, NEW changed \in SUBSET Order, NEW loaded \in [Order -> RowType],
         NEW new \in [Order -> RowType],
         rows' = [c \in Order |-> IF c \in changed THEN Updated(rows[c], loaded[c], new[c])
                                  ELSE rows[c]],
         \A c \in changed :
           /\ HasRow(c)
           /\ new[c].status # "absent"
           /\ new[c].status \in Terminal => broker[c].status = new[c].status
           /\ new[c].reason \in {loaded[c].reason, "missing"},
         UNCHANGED <<broker, wire, flows>>
  PROVE  /\ RecordedBeforeSent' /\ OneRowPerKey' /\ TerminalStatusIsTrue' /\ HaltedIsUnsent'
         /\ TablesTyped' /\ FlowsInv' /\ FlowsTyped' /\ \A c \in Order : HasRow(c)' <=> HasRow(c)
<1>1. ASSUME NEW c \in Order
      PROVE  /\ rows'[c] \in RowType
             /\ rows'[c].status = rows[c].status \/ (c \in changed /\ rows'[c].status = new[c].status)
             /\ rows'[c].reason \in {rows[c].reason, "missing"}
  <2>1. rows[c] \in RowType
    BY DEF IInv, TypeOK, TablesTyped
  <2>2. CASE c \in changed
    <3>1. rows'[c] = Updated(rows[c], loaded[c], new[c])
      BY <2>2
    <3>2. new[c] \in RowType /\ loaded[c] \in RowType /\ new[c].reason \in {loaded[c].reason, "missing"}
      BY <2>2
    <3> QED
      BY <2>1, <2>2, <3>1, <3>2, UpdatedRow
  <2>3. CASE c \notin changed
    BY <2>1, <2>3
  <2> QED
    BY <2>2, <2>3
<1>2. TablesTyped'
  BY <1>1 DEF IInv, TypeOK, TablesTyped
<1>3. \A c \in Order : HasRow(c)' <=> HasRow(c)
  BY <1>1 DEF HasRow
<1>4. \A c \in Order : rows[c].reason # "halted" => rows'[c].reason # "halted"
  BY <1>1
<1>5. \A c \in Order : Sent(c)' <=> Sent(c)
  BY DEF Sent
<1>6. RecordedBeforeSent' /\ HaltedIsUnsent'
  BY <1>3, <1>4, <1>5 DEF IInv, TablesInv, RecordedBeforeSent, HaltedIsUnsent, HasRow
<1>7. TerminalStatusIsTrue'
  BY <1>1 DEF IInv, TablesInv, TerminalStatusIsTrue
<1>8. OneRowPerKey'
  BY <1>3 DEF IInv, TablesInv, OneRowPerKey
<1>9. FlowsInv' /\ FlowsTyped'
  BY <1>3, <1>4, FlowsFrameRows
<1> QED
  BY <1>2, <1>3, <1>6, <1>7, <1>8, <1>9

LEMMA NoUpdateTyped ==
  NoUpdate \in [order : Order \cup {NoOrder}, status : Open \cup Terminal \cup {"none"},
                filled : 0..Qty, loaded : RowType]
BY ParametersAssumption, NoRowTyped DEF NoUpdate

LEMMA NoReconTyped ==
  /\ NoRecon \in [pc : {"idle", "ask", "write", "trip"}, loaded : [Order -> RowType],
                  truth : [Order -> BrokerType]]
  /\ \A c \in Order : NoRecon.loaded[c] = NoRow /\ NoRecon.truth[c].status = "none"
BY ParametersAssumption, NoRowTyped DEF NoRecon, BrokerType

LEMMA ApplyWritesStep == ASSUME IInv, ApplyWrites PROVE IInv'
<1> DEFINE c == ingest.order
           after == [ingest.loaded EXCEPT !.status = ingest.status, !.filled = ingest.filled,
                                          !.boid = TRUE]
           loaded == [d \in Order |-> ingest.loaded]
           new == [d \in Order |-> after]
<1>1. /\ c \in Order /\ broker[c].status # "none" /\ ingest.status # "none"
      /\ ingest.status \in Terminal => broker[c].status = ingest.status
  BY DEF ApplyWrites, IInv, UpdatesInv, IngestIsTrue
<1>2. /\ after \in RowType /\ ingest.loaded \in RowType
      /\ after.status = ingest.status /\ after.reason = ingest.loaded.reason
  BY <1>1 DEF IInv, TypeOK, StreamTyped, RowType
<1>3. HasRow(c) /\ after.status # "absent"
  BY <1>1, <1>2 DEF IInv, TypeOK, StreamTyped, TablesInv, RecordedBeforeSent, Sent, HasRow, Open,
     Terminal
<1>4. rows' = [rows EXCEPT ![c] = Updated(@, ingest.loaded, after)]
  BY DEF ApplyWrites
<1>5. rows \in [Order -> RowType]
  BY DEF IInv, TypeOK, TablesTyped
<1>6. loaded \in [Order -> RowType] /\ new \in [Order -> RowType]
  BY <1>2
<1> HIDE DEF after
<1>7. rows' = [d \in Order |-> IF d \in {c} THEN Updated(rows[d], loaded[d], new[d]) ELSE rows[d]]
  BY <1>1, <1>4, <1>5
<1>8. \A d \in {c} :
        /\ HasRow(d)
        /\ new[d].status # "absent"
        /\ new[d].status \in Terminal => broker[d].status = new[d].status
        /\ new[d].reason \in {loaded[d].reason, "missing"}
  BY <1>1, <1>2, <1>3
<1>9. {c} \in SUBSET Order
  BY <1>1
<1> HIDE DEF loaded, new, c
<1>10. /\ RecordedBeforeSent' /\ OneRowPerKey' /\ TerminalStatusIsTrue' /\ HaltedIsUnsent'
       /\ TablesTyped' /\ FlowsInv' /\ FlowsTyped' /\ \A d \in Order : HasRow(d)' <=> HasRow(d)
  BY <1>6, <1>7, <1>8, <1>9, OverwriteStep DEF ApplyWrites
<1>11. LoadedIsRecorded'
  BY <1>10, LoadedFrame DEF ApplyWrites
<1>12. StreamTyped' /\ ReconTyped' /\ EnvironmentTyped'
  BY NoUpdateTyped, EnvironmentFrame DEF ApplyWrites, IInv, TypeOK, StreamTyped, ReconTyped
<1>13. UpdatesInv'
  BY DEF ApplyWrites, IInv, UpdatesInv, EventsAreTrue, IngestIsTrue, ReconIsTrue
<1> QED
  BY <1>10, <1>11, <1>12, <1>13 DEF IInv, TypeOK, TablesInv

LEMMA DisconnectStep == ASSUME IInv, Disconnect PROVE IInv'
<1>1. StreamTyped'
  <2>1. <<>> \in Seq([order : Order, status : Open \cup Terminal, filled : 0..Qty])
    OBVIOUS
  <2> QED
    BY <2>1, NoUpdateTyped DEF Disconnect, StreamTyped
<1>2. EventsAreTrue' /\ IngestIsTrue'
  BY DEF Disconnect, EventsAreTrue, IngestIsTrue
<1>3. ReconTyped' /\ ReconIsTrue'
  BY DEF Disconnect, IInv, TypeOK, ReconTyped, UpdatesInv, ReconIsTrue
<1>4. EnvironmentTyped'
  BY FaultFrame DEF Disconnect
<1>5. TablesInv' /\ TablesTyped' /\ FlowsInv' /\ FlowsTyped'
  BY TablesFrame, FlowsFrame DEF Disconnect
<1> QED
  BY <1>1, <1>2, <1>3, <1>4, <1>5 DEF IInv, TypeOK, UpdatesInv

LEMMA ReconnectStep == ASSUME IInv, Reconnect PROVE IInv'
<1>1. StreamTyped' /\ ReconTyped'
  BY DEF Reconnect, IInv, TypeOK, StreamTyped, ReconTyped
<1>2. UpdatesInv'
  BY DEF Reconnect, IInv, UpdatesInv, EventsAreTrue, IngestIsTrue, ReconIsTrue
<1> QED
  BY <1>1, <1>2, TablesFrame, FlowsFrame, EnvironmentFrame DEF Reconnect, IInv, TypeOK

\* A step of the reconciliation that leaves the rows alone.
LEMMA ReconStep ==
  ASSUME IInv, UNCHANGED <<rows, broker, wire, flows, connected, events, ingest>>,
         EnvironmentTyped', ReconTyped', ReconIsTrue', LoadedIsRecorded'
  PROVE  IInv'
<1>1. TablesInv' /\ TablesTyped'
  BY DEF IInv, TypeOK, TablesInv, TablesTyped, RecordedBeforeSent, OneRowPerKey, HasRow, Sent,
     TerminalStatusIsTrue, HaltedIsUnsent
<1>2. FlowsInv' /\ FlowsTyped'
  BY FlowsFrame
<1>3. StreamTyped' /\ EventsAreTrue' /\ IngestIsTrue'
  BY DEF IInv, TypeOK, StreamTyped, UpdatesInv, EventsAreTrue, IngestIsTrue
<1> QED
  BY <1>1, <1>2, <1>3 DEF IInv, TypeOK, UpdatesInv

LEMMA ReconcileReadsStep == ASSUME IInv, ReconcileReads PROVE IInv'
<1> DEFINE loaded == [c \in Order |-> IF rows[c].status \in LocalOpen THEN rows[c] ELSE NoRow]
<1>1. loaded \in [Order -> RowType]
  BY NoRowTyped DEF IInv, TypeOK, TablesTyped
<1>2. recon' = [NoRecon EXCEPT !.pc = "ask", !.loaded = loaded]
  BY DEF ReconcileReads
<1>3. \A c \in Order : loaded[c] # NoRow => loaded[c] = rows[c] /\ rows[c].status \in LocalOpen
  OBVIOUS
<1> HIDE DEF loaded
<1>4. ReconTyped' /\ recon'.loaded = loaded /\ recon'.truth = NoRecon.truth
  BY <1>1, <1>2, NoReconTyped DEF ReconTyped
<1>5. ReconIsTrue'
  BY <1>3, <1>4, NoReconTyped DEF ReconIsTrue, Terminal
<1>6. LoadedIsRecorded'
  BY <1>3, <1>4 DEF ReconcileReads, LoadedIsRecorded, HasRow, LocalOpen, Open
<1> QED
  BY <1>4, <1>5, <1>6, ReconStep, EnvironmentFrame DEF ReconcileReads

LEMMA ReconcileAsksStep == ASSUME IInv, ReconcileAsks PROVE IInv'
<1>1. recon' = [recon EXCEPT !.pc = "write", !.truth = broker]
  BY DEF ReconcileAsks
<1>2. ReconTyped' /\ recon'.loaded = recon.loaded /\ recon'.truth = broker
  BY <1>1 DEF IInv, TypeOK, TablesTyped, ReconTyped
<1>3. ReconIsTrue' /\ LoadedIsRecorded'
  BY <1>2 DEF ReconcileAsks, IInv, UpdatesInv, TablesInv, ReconIsTrue, LoadedIsRecorded, HasRow
<1> QED
  BY <1>2, <1>3, ReconStep, EnvironmentFrame DEF ReconcileAsks

\* The job ends, with or without an error, or halts the system.
LEMMA ReconEndsStep ==
  ASSUME IInv, recon' = NoRecon, UNCHANGED <<rows, broker, wire, flows, connected, events, ingest>>,
         EnvironmentTyped'
  PROVE  IInv'
<1>1. ReconTyped' /\ ReconIsTrue' /\ LoadedIsRecorded'
  BY NoReconTyped DEF ReconTyped, ReconIsTrue, LoadedIsRecorded, Terminal
<1> QED
  BY <1>1, ReconStep

LEMMA ReconcileTripsStep == ASSUME IInv, ReconcileTrips PROVE IInv'
<1>1. EnvironmentTyped'
  BY DEF ReconcileTrips, IInv, TypeOK, EnvironmentTyped
<1> QED
  BY <1>1, ReconEndsStep DEF ReconcileTrips

LEMMA ReconcileFailsStep == ASSUME IInv, ReconcileFails PROVE IInv'
BY FaultFrame, ReconEndsStep DEF ReconcileFails

\* What the reconciliation makes of a row it loaded.
LEMMA CopiedRow ==
  ASSUME NEW row \in RowType, NEW remote \in BrokerType
  PROVE  LET after == Copied(row, remote) IN
         /\ after \in RowType /\ after.status # "absent"
         /\ after.status \in Terminal => remote.status = after.status
         /\ after.reason \in {row.reason, "missing"}
<1>1. CASE remote.status # "none"
  <2>1. Copied(row, remote) = [row EXCEPT !.status = remote.status, !.filled = remote.filled]
    BY <1>1 DEF Copied
  <2> QED
    BY <1>1, <2>1 DEF RowType, BrokerType, Open, Terminal
<1>2. CASE remote.status = "none"
  <2> DEFINE reason == IF row.reason = "none" THEN "missing" ELSE row.reason
  <2>1. Copied(row, remote) = [row EXCEPT !.status = "failed", !.reason = reason]
    BY <1>2 DEF Copied
  <2>2. reason \in {row.reason, "missing"} /\ row.reason \in {"none", "halted", "rejected", "unavailable", "missing"}
    BY DEF RowType
  <2> HIDE DEF reason
  <2> QED
    BY <2>1, <2>2 DEF RowType, Terminal
<1> QED
  BY <1>1, <1>2

LEMMA ReconcileWritesStep == ASSUME IInv, ReconcileWrites PROVE IInv'
<1> DEFINE changed == {c \in Order : c \in Drifts /\ recon.loaded[c] # NoRow}
           new == [c \in Order |-> Copied(recon.loaded[c], recon.truth[c])]
<1>1. /\ recon.loaded \in [Order -> RowType] /\ recon.truth \in [Order -> BrokerType]
  BY DEF IInv, TypeOK, ReconTyped
<1>2. \A c \in Order :
        /\ new[c] \in RowType /\ new[c].status # "absent"
        /\ new[c].status \in Terminal => recon.truth[c].status = new[c].status
        /\ new[c].reason \in {recon.loaded[c].reason, "missing"}
  BY <1>1, CopiedRow
<1>3. new \in [Order -> RowType]
  BY <1>2
<1>4. rows' = [c \in Order |-> IF c \in changed THEN Updated(rows[c], recon.loaded[c], new[c])
                               ELSE rows[c]]
  BY DEF ReconcileWrites
<1>5. \A c \in changed :
        /\ HasRow(c)
        /\ new[c].status # "absent"
        /\ new[c].status \in Terminal => broker[c].status = new[c].status
        /\ new[c].reason \in {recon.loaded[c].reason, "missing"}
  <2>1. \A c \in changed : c \in Order /\ HasRow(c)
    BY DEF IInv, TablesInv, LoadedIsRecorded
  <2>2. \A c \in Order : recon.truth[c].status \in Terminal => broker[c].status = recon.truth[c].status
    BY DEF IInv, UpdatesInv, ReconIsTrue
  <2> HIDE DEF new, changed
  <2> QED
    BY <1>2, <2>1, <2>2
<1>6. changed \in SUBSET Order
  OBVIOUS
<1> HIDE DEF changed, new
<1>7. /\ RecordedBeforeSent' /\ OneRowPerKey' /\ TerminalStatusIsTrue' /\ HaltedIsUnsent'
      /\ TablesTyped' /\ FlowsInv' /\ FlowsTyped' /\ \A c \in Order : HasRow(c)' <=> HasRow(c)
  BY <1>1, <1>3, <1>4, <1>5, <1>6, OverwriteStep DEF ReconcileWrites
<1>8. ReconTyped' /\ ReconIsTrue' /\ LoadedIsRecorded'
  <2>1. /\ recon'.loaded = NoRecon.loaded /\ recon'.truth = NoRecon.truth
        /\ recon'.pc \in {"idle", "trip"} /\ recon' \in [pc : {"idle", "ask", "write", "trip"},
             loaded : [Order -> RowType], truth : [Order -> BrokerType]]
    BY NoReconTyped DEF ReconcileWrites, NoRecon
  <2> QED
    BY <2>1, NoReconTyped DEF ReconTyped, ReconIsTrue, LoadedIsRecorded, Terminal
<1>9. StreamTyped' /\ EnvironmentTyped'
  BY EnvironmentFrame DEF ReconcileWrites, IInv, TypeOK, StreamTyped
<1>10. EventsAreTrue' /\ IngestIsTrue'
  BY DEF ReconcileWrites, IInv, UpdatesInv, EventsAreTrue, IngestIsTrue
<1> QED
  BY <1>7, <1>8, <1>9, <1>10 DEF IInv, TypeOK, TablesInv, UpdatesInv

LEMMA StateChangesStep == ASSUME IInv, StateChanges PROVE IInv'
<1>1. EnvironmentTyped'
  BY DEF StateChanges, IInv, TypeOK, EnvironmentTyped
<1> QED
  BY <1>1, TablesFrame, FlowsFrame, UpdatesFrame DEF StateChanges, IInv, TypeOK

LEMMA CrashStep == ASSUME IInv, Crash PROVE IInv'
<1>1. FlowsInv' /\ FlowsTyped'
  BY IdleTyped DEF Crash, FlowsInv, FlowsTyped, FlowsOwnRows, OneOwner, UncheckedIsUnsent,
     OwnedIsNotHalted, BrokerCalls, Past
<1>2. ReconTyped' /\ ReconIsTrue' /\ LoadedIsRecorded'
  BY NoReconTyped DEF Crash, ReconTyped, ReconIsTrue, LoadedIsRecorded, Terminal
<1>3. TablesInv' /\ TablesTyped'
  BY <1>2 DEF Crash, IInv, TypeOK, TablesInv, TablesTyped, RecordedBeforeSent, OneRowPerKey, HasRow,
     Sent, TerminalStatusIsTrue, HaltedIsUnsent
<1>4. StreamTyped'
  <2>1. <<>> \in Seq([order : Order, status : Open \cup Terminal, filled : 0..Qty])
    OBVIOUS
  <2> QED
    BY <2>1, NoUpdateTyped DEF Crash, StreamTyped
<1>5. EventsAreTrue' /\ IngestIsTrue'
  BY DEF Crash, EventsAreTrue, IngestIsTrue
<1>6. EnvironmentTyped'
  <2>1. left.crashes - 1 \in Nat
    BY DEF IInv, TypeOK, EnvironmentTyped, Crash
  <2> QED
    BY <2>1 DEF IInv, TypeOK, EnvironmentTyped, Crash
<1> QED
  BY <1>1, <1>2, <1>3, <1>4, <1>5, <1>6 DEF IInv, TypeOK, UpdatesInv

LEMMA StutterStep == ASSUME IInv, UNCHANGED vars PROVE IInv'
BY TablesFrame, FlowsFrame, UpdatesFrame, EnvironmentFrame DEF vars, IInv, TypeOK

-----------------------------------------------------------------------------

LEMMA InitIInv == Init => IInv
<1> SUFFICES ASSUME Init PROVE IInv
  OBVIOUS
<1>1. TablesTyped /\ ReconTyped
  BY ParametersAssumption, NoRowTyped, NoReconTyped DEF Init, TablesTyped, ReconTyped, BrokerType
<1>2. FlowsTyped /\ FlowsInv
  BY IdleTyped DEF Init, FlowsTyped, FlowsInv, FlowsOwnRows, OneOwner, UncheckedIsUnsent,
     OwnedIsNotHalted, BrokerCalls, Past
<1>3. StreamTyped
  <2>1. <<>> \in Seq([order : Order, status : Open \cup Terminal, filled : 0..Qty])
    OBVIOUS
  <2> QED
    BY <2>1, NoUpdateTyped DEF Init, StreamTyped
<1>4. EnvironmentTyped
  BY ParametersAssumption DEF Init, EnvironmentTyped
<1>5. \A c \in Order : ~ HasRow(c) /\ ~ Sent(c) /\ rows[c].reason = "none"
  BY NoRowTyped DEF Init, HasRow, Sent
<1>6. TablesInv
  BY <1>5, NoReconTyped DEF Init, TablesInv, RecordedBeforeSent, OneRowPerKey, TerminalStatusIsTrue,
     HaltedIsUnsent, LoadedIsRecorded, HasRow, NoRow, Terminal
<1>7. UpdatesInv
  BY NoReconTyped DEF Init, UpdatesInv, EventsAreTrue, IngestIsTrue, ReconIsTrue, Terminal
<1> QED
  BY <1>1, <1>2, <1>3, <1>4, <1>6, <1>7 DEF IInv, TypeOK

LEMMA NextIInv == IInv /\ [Next]_vars => IInv'
<1> SUFFICES ASSUME IInv, [Next]_vars PROVE IInv'
  OBVIOUS
<1>1. ASSUME NEW f \in Flow, Request(f) PROVE IInv'
  BY <1>1, RequestStep
<1>2. ASSUME NEW f \in Flow, Proceed(f) PROVE IInv'
  BY <1>2, InsertStep, CheckStep, PostStep, TimeoutStep, NetworkErrorStep, FailStep, FinishStep,
     CommitAbortsStep DEF Proceed
<1>3. ASSUME NEW m \in wire, BrokerAccepts(m) \/ BrokerRejects(m) \/ RequestLost(m) PROVE IInv'
  BY <1>3, BrokerAcceptsStep, BrokerRejectsStep, RequestLostStep
<1>4. ASSUME NEW c \in Order, BrokerFills(c) \/ BrokerCancels(c) PROVE IInv'
  BY <1>4, BrokerFillsStep, BrokerCancelsStep
<1>5. CASE ApplyLoads \/ ApplyWrites \/ Disconnect \/ Reconnect
  BY <1>5, ApplyLoadsStep, ApplyWritesStep, DisconnectStep, ReconnectStep
<1>6. CASE Reconcile
  BY <1>6, ReconcileReadsStep, ReconcileAsksStep, ReconcileWritesStep, ReconcileTripsStep,
     ReconcileFailsStep DEF Reconcile
<1>7. CASE StateChanges \/ Crash
  BY <1>7, StateChangesStep, CrashStep
<1>8. CASE UNCHANGED vars
  BY <1>8, StutterStep
<1> QED
  BY <1>1, <1>2, <1>3, <1>4, <1>5, <1>6, <1>7, <1>8 DEF Next

\* The strengthened invariant holds in every reachable state.
THEOREM Invariant == Spec => []IInv
<1> QED
  BY InitIInv, NextIInv, PTL DEF Spec

\* Every row, broker order, update and answer is well formed.
THEOREM TypeCorrect == Spec => []TypeOK
<1>1. IInv => TypeOK
  BY DEF IInv
<1> QED
  BY <1>1, Invariant, PTL

\* lld.md 10: no order is ever "sent but not recorded".
THEOREM NeverSentUnrecorded == Spec => []RecordedBeforeSent
<1>1. IInv => RecordedBeforeSent
  BY DEF IInv, TablesInv
<1> QED
  BY <1>1, Invariant, PTL

\* A key has one row, and what is sent has a row: a key places one order.
LEMMA OneSentPerKey == IInv => OneOrderPerKey
BY DEF IInv, TablesInv, RecordedBeforeSent, OneRowPerKey, HasRow, OneOrderPerKey

\* lld.md 9.2: one idempotency key places at most one order at the broker.
THEOREM AtMostOneOrder == Spec => []OneOrderPerKey
<1> QED
  BY OneSentPerKey, Invariant, PTL

\* No writer closes a row whose order is alive: a final status is the broker's.
THEOREM TerminalIsTrue == Spec => []TerminalStatusIsTrue
<1>1. IInv => TerminalStatusIsTrue
  BY DEF IInv, TablesInv
<1> QED
  BY <1>1, Invariant, PTL

\* An order that was refused because the system is halted is never sent.
THEOREM HaltedNeverSent == Spec => []HaltedIsUnsent
<1>1. IInv => HaltedIsUnsent
  BY DEF IInv, TablesInv
<1> QED
  BY <1>1, Invariant, PTL

-----------------------------------------------------------------------------
(* The history of fills.                                                   *)

LotOrder == [side : {1, -1}, seen : Nat, submitted : Nat, filledAt : Nat]

Execution ==
  [order : Nat, qty : Nat \ {0}, price : Nat \ {0}, at : 1..Len(Market), recorded : BOOLEAN]

HistoryTyped ==
  /\ orders \in Seq(LotOrder)
  /\ fills \in Seq(Execution)
  /\ clock \in 1..Len(Market)
  /\ external \in Nat

\* Every fill is of an order, and every order has one.
FillsOfOrders ==
  /\ \A i \in DOMAIN fills : fills[i].order \in DOMAIN orders
  /\ \A o \in DOMAIN orders : \E i \in DOMAIN fills : fills[i].order = o

InTime ==
  /\ \A i \in DOMAIN fills : fills[i].at <= clock
  /\ \A i, j \in DOMAIN fills : i <= j => fills[i].at <= fills[j].at

\* An order whose fills all have rows knows all of them.
SeenUnlessLost ==
  \A o \in DOMAIN orders :
    (\A i \in DOMAIN fills : fills[i].order = o => fills[i].recorded) => orders[o].seen = Done(o)

LotsInv == HistoryTyped /\ FillsOfOrders /\ InTime /\ SeenUnlessLost

LEMMA LargestIs ==
  ASSUME NEW S, IsFiniteSet(S), S # {}, S \subseteq Int
  PROVE  /\ Max(S) \in S /\ \A y \in S : Max(S) >= y
         /\ Min(S) \in S /\ \A y \in S : Min(S) <= y
BY ExtremesExist DEF Max, Min

LEMMA ExecutedIsFinite ==
  ASSUME HistoryTyped
  PROVE  /\ IsFiniteSet(Executed) /\ Executed = 1..Len(fills) /\ Len(fills) \in Nat
         /\ IsFiniteSet(DOMAIN orders) /\ DOMAIN orders = 1..Len(orders) /\ Len(orders) \in Nat
<1>1. /\ Executed = 1..Len(fills) /\ Len(fills) \in Nat
      /\ DOMAIN orders = 1..Len(orders) /\ Len(orders) \in Nat
  BY DEF HistoryTyped, Executed
<1> QED
  BY <1>1, FS_Interval

LEMMA DoneIsNat ==
  ASSUME HistoryTyped, NEW o
  PROVE  Done(o) \in Nat
<1> DEFINE of == {i \in Executed : fills[i].order = o}
<1>1. of \in SUBSET Executed /\ \A i \in of : Shares[i] \in Nat \ {0}
  <2>1. \A i \in DOMAIN fills : fills[i] \in Execution
    BY DEF HistoryTyped
  <2>2. \A i \in Executed : Shares[i] \in Nat \ {0}
    BY <2>1 DEF Executed, Shares, Execution
  <2> QED
    BY <2>2
<1>2. IsFiniteSet(of)
  BY <1>1, ExecutedIsFinite, FS_Subset
<1> HIDE DEF of
<1>3. SumFunctionOnSet(Shares, of) \in Nat
  BY <1>1, <1>2, SumOfPositive
<1> QED
  BY <1>3 DEF Done, of

LEMMA LotsInitial == LotsInit => LotsInv
<1> SUFFICES ASSUME LotsInit PROVE LotsInv
  OBVIOUS
<1>1. orders = <<>> /\ fills = <<>> /\ DOMAIN fills = {} /\ DOMAIN orders = {}
  BY DEF LotsInit
<1>2. Len(Market) \in Nat /\ Len(Market) # 0 /\ 0..MaxExternal \subseteq Nat
  BY LotsAssumption
<1>3. clock \in 1..Len(Market) /\ external \in Nat
  BY <1>2 DEF LotsInit
<1>4. orders \in Seq(LotOrder) /\ fills \in Seq(Execution)
  BY <1>1
<1> QED
  BY <1>1, <1>3, <1>4 DEF LotsInv, HistoryTyped, FillsOfOrders, InTime, SeenUnlessLost

LEMMA ExecuteNumbers ==
  ASSUME LotsInv, NEW o \in 1..Min({Len(orders) + 1, MaxOrders})
  PROVE  o \in DOMAIN orders \/ o = Len(orders) + 1
<1> DEFINE two == {Len(orders) + 1, MaxOrders}
<1>1. Len(orders) \in Nat /\ DOMAIN orders = 1..Len(orders)
  BY ExecutedIsFinite DEF LotsInv
<1>2. IsFiniteSet(two)
  <2>1. IsFiniteSet({Len(orders) + 1})
    BY FS_Singleton
  <2>2. IsFiniteSet({Len(orders) + 1} \cup {MaxOrders})
    BY <2>1, FS_AddElement
  <2>3. two = {Len(orders) + 1} \cup {MaxOrders}
    OBVIOUS
  <2> QED
    BY <2>2, <2>3
<1>3. two \subseteq Int /\ two # {} /\ Len(orders) + 1 \in two
  BY <1>1, LotsAssumption
<1>4. Min(two) \in Int /\ Min(two) <= Len(orders) + 1
  <2> HIDE DEF two
  <2> QED
    BY <1>2, <1>3, LargestIs
<1> HIDE DEF two
<1>5. o \in 1..Min(two)
  BY DEF two
<1> QED
  BY <1>1, <1>4, <1>5

\* A fill more.
LEMMA FillAppended ==
  ASSUME HistoryTyped, NEW fill \in Execution, fills' = Append(fills, fill)
  PROVE  /\ fills' \in Seq(Execution) /\ DOMAIN fills' = 1..(Len(fills) + 1)
         /\ fills'[Len(fills) + 1] = fill
         /\ \A i \in DOMAIN fills : i \in DOMAIN fills' /\ fills'[i] = fills[i] /\ i <= Len(fills)
         /\ \A i \in DOMAIN fills' : i \notin DOMAIN fills => i = Len(fills) + 1
BY DEF HistoryTyped

LEMMA DoneGrows ==
  ASSUME HistoryTyped, NEW fill \in Execution, fills' = Append(fills, fill), NEW p
  PROVE  Done(p)' = Done(p) + IF fill.order = p THEN fill.qty ELSE 0
<1> DEFINE n == Len(fills) + 1
           of == {i \in Executed : fills[i].order = p}
           shares == [i \in DOMAIN fills' |-> fills'[i].qty]
           now == {i \in DOMAIN fills' : fills'[i].order = p}
<1>1. /\ n \notin DOMAIN fills /\ n \in DOMAIN fills' /\ fills'[n] = fill
      /\ \A i \in DOMAIN fills : i \in DOMAIN fills' /\ fills'[i] = fills[i]
      /\ \A i \in DOMAIN fills' : i \notin DOMAIN fills => i = n
      /\ \A i \in DOMAIN fills' : fills'[i] \in Execution
  BY FillAppended, ExecutedIsFinite DEF Executed
<1>2. /\ IsFiniteSet(of) /\ n \notin of
      /\ \A i \in of : Shares[i] = shares[i]
      /\ \A i \in of \cup {n} : shares[i] \in Int
  <2>1. of \in SUBSET Executed
    OBVIOUS
  <2>2. IsFiniteSet(of)
    BY <2>1, ExecutedIsFinite, FS_Subset
  <2>3. \A i \in DOMAIN fills' : shares[i] \in Int
    BY <1>1 DEF Execution
  <2>4. \A i \in of : Shares[i] = shares[i] /\ i \in DOMAIN fills'
    BY <1>1 DEF Shares, Executed
  <2>5. n \notin of
    BY <1>1 DEF Executed
  <2> HIDE DEF shares, of, n
  <2> QED
    BY <1>1, <2>2, <2>3, <2>4, <2>5
<1>3. Done(p) = SumFunctionOnSet(Shares, of) /\ Done(p)' = SumFunctionOnSet(shares, now)
  BY DEF Done, Shares, Executed
<1>4. IF fill.order = p THEN now = of \cup {n} ELSE now = of
  BY <1>1 DEF Executed
<1>5. shares[n] = fill.qty
  BY <1>1
<1>6. Done(p) \in Nat /\ fill.qty \in Nat
  BY DoneIsNat DEF Execution
<1> HIDE DEF n, of, shares, now
<1>7. Done(p) = SumFunctionOnSet(shares, of)
  BY <1>2, <1>3, SumOfSame
<1>8. SumFunctionOnSet(shares, of \cup {n}) = fill.qty + SumFunctionOnSet(shares, of)
  BY <1>2, <1>5, SumWith
<1>9. CASE fill.order = p
  <2>1. SumFunctionOnSet(shares, now) = fill.qty + SumFunctionOnSet(shares, of)
    BY <1>4, <1>8, <1>9
  <2>2. Done(p)' = fill.qty + Done(p)
    BY <1>3, <1>7, <2>1
  <2> QED
    BY <1>6, <1>9, <2>2
<1>10. CASE fill.order # p
  BY <1>3, <1>4, <1>6, <1>7, <1>10
<1> QED
  BY <1>9, <1>10

LEMMA ExecuteHistory ==
  ASSUME LotsInv, NEW o \in 1..Min({Len(orders) + 1, MaxOrders}), NEW side \in {1, -1},
         NEW qty \in Qtys, NEW recorded \in BOOLEAN, Execute(o, side, qty, recorded)
  PROVE  LotsInv'
<1> DEFINE fill == [order |-> o, qty |-> qty, price |-> Market[clock], at |-> clock, recorded |-> recorded]
           known == o \in DOMAIN orders
           done == qty + IF known THEN Done(o) ELSE 0
           row == [side |-> side,
                   seen |-> IF recorded THEN done ELSE IF known THEN orders[o].seen ELSE 0,
                   submitted |-> IF known THEN orders[o].submitted ELSE clock,
                   filledAt |-> IF known THEN orders[o].filledAt ELSE 0]
           n == Len(fills) + 1
<1>1. HistoryTyped /\ qty \in Nat \ {0} /\ clock \in 1..Len(Market) /\ clock \in Nat
      /\ Market[clock] \in Nat \ {0}
  BY LotsAssumption DEF LotsInv, HistoryTyped
<1>2. known \/ o = Len(orders) + 1
  BY ExecuteNumbers
<1>3. fill \in Execution /\ fill.order = o /\ fill.at = clock /\ fill.recorded = recorded
      /\ fill.qty = qty
  BY <1>1 DEF Execution
<1>4. fills' = Append(fills, fill) /\ clock' = clock /\ external' = external
      /\ orders' = IF known THEN [orders EXCEPT ![o] = row] ELSE Append(orders, row)
  BY DEF Execute
<1>5. known => orders[o] \in LotOrder
  BY <1>1 DEF HistoryTyped
<1>6. Done(o) \in Nat /\ done \in Nat
  BY <1>1, DoneIsNat
<1>7. row \in LotOrder /\ (recorded => row.seen = done)
  BY <1>1, <1>5, <1>6 DEF LotOrder
<1> HIDE DEF fill, row
<1>8. /\ orders' \in Seq(LotOrder) /\ DOMAIN orders' = DOMAIN orders \cup {o} /\ orders'[o] = row
      /\ \A p \in DOMAIN orders : p # o => orders'[p] = orders[p]
  <2>1. orders \in Seq(LotOrder)
    BY <1>1 DEF HistoryTyped
  <2>2. CASE known
    <3>1. orders' = [orders EXCEPT ![o] = row] /\ o \in DOMAIN orders
      BY <1>4, <2>2
    <3> HIDE DEF known
    <3>2. orders' \in Seq(LotOrder) /\ DOMAIN orders' = DOMAIN orders
      BY <1>7, <2>1, <3>1
    <3> QED
      BY <2>1, <3>1, <3>2
  <2>3. CASE ~ known
    BY <1>2, <1>4, <1>7, <2>1, <2>3
  <2> QED
    BY <2>2, <2>3
<1>9. /\ fills' \in Seq(Execution) /\ DOMAIN fills' = 1..n /\ n \in Nat /\ fills'[n] = fill
      /\ \A i \in DOMAIN fills : i \in DOMAIN fills' /\ fills'[i] = fills[i] /\ i < n
      /\ \A i \in DOMAIN fills' : i \notin DOMAIN fills => i = n
      /\ n \in DOMAIN fills'
  <2>1. Len(fills) \in Nat /\ DOMAIN fills = 1..Len(fills)
    BY <1>1, ExecutedIsFinite DEF Executed
  <2> QED
    BY <1>1, <1>3, <1>4, <2>1, FillAppended
<1>10. HistoryTyped'
  BY <1>1, <1>4, <1>8, <1>9 DEF HistoryTyped
<1>11. FillsOfOrders'
  <2>1. ASSUME NEW i \in DOMAIN fills' PROVE fills'[i].order \in DOMAIN orders'
    <3>1. CASE i \in DOMAIN fills
      BY <1>8, <1>9, <3>1 DEF LotsInv, FillsOfOrders
    <3>2. CASE i \notin DOMAIN fills
      BY <1>3, <1>8, <1>9, <3>2
    <3> QED
      BY <3>1, <3>2
  <2>2. ASSUME NEW p \in DOMAIN orders' PROVE \E i \in DOMAIN fills' : fills'[i].order = p
    <3>1. CASE p = o
      BY <1>3, <1>9, <3>1
    <3>2. CASE p # o
      <4>1. PICK i \in DOMAIN fills : fills[i].order = p
        BY <1>8, <3>2 DEF LotsInv, FillsOfOrders
      <4> QED
        BY <1>9, <4>1
    <3> QED
      BY <3>1, <3>2
  <2> QED
    BY <2>1, <2>2 DEF FillsOfOrders
<1>12. InTime'
  <2>1. \A i \in DOMAIN fills' : fills'[i].at <= clock'
    <3>1. clock <= clock
      BY <1>1
    <3>2. \A i \in DOMAIN fills : fills'[i].at <= clock'
      BY <1>4, <1>9 DEF LotsInv, InTime
    <3>3. fills'[n].at <= clock'
      BY <1>3, <1>4, <1>9, <3>1
    <3> QED
      BY <1>9, <3>2, <3>3
  <2>2. ASSUME NEW i \in DOMAIN fills', NEW j \in DOMAIN fills', i <= j
        PROVE  fills'[i].at <= fills'[j].at
    <3>1. CASE j \in DOMAIN fills
      <4>1. i \in DOMAIN fills
        <5>1. i # n
          BY <1>9, <2>2, <3>1
        <5> QED
          BY <1>9, <5>1
      <4> QED
        BY <1>9, <2>2, <3>1, <4>1 DEF LotsInv, InTime
    <3>2. CASE j \notin DOMAIN fills
      <4>1. fills'[j].at = clock'
        BY <1>3, <1>4, <1>9, <3>2
      <4> QED
        BY <2>1, <4>1
    <3> QED
      BY <3>1, <3>2
  <2> QED
    BY <2>1, <2>2 DEF InTime
<1>13. ASSUME NEW p \in DOMAIN orders',
              \A i \in DOMAIN fills' : fills'[i].order = p => fills'[i].recorded
       PROVE  orders'[p].seen = Done(p)'
  <2>1. Done(p)' = Done(p) + IF o = p THEN qty ELSE 0
    BY <1>1, <1>3, <1>4, DoneGrows
  <2>2. \A i \in DOMAIN fills : fills[i].order = p => fills[i].recorded
    BY <1>9, <1>13
  <2>3. CASE p = o
    <3>1. recorded
      BY <1>3, <1>9, <1>13, <2>3
    <3>2. ~ known => Done(o) = 0
      <4> SUFFICES ASSUME ~ known PROVE Done(o) = 0
        OBVIOUS
      <4>1. {i \in Executed : fills[i].order = o} = {}
        BY DEF LotsInv, FillsOfOrders, Executed
      <4> QED
        BY <4>1, SumOfNone DEF Done
    <3>3. done = qty + Done(o)
      BY <1>1, <1>6, <3>2
    <3> HIDE DEF done
    <3> QED
      BY <1>1, <1>6, <1>7, <1>8, <2>1, <2>3, <3>1, <3>3
  <2>4. CASE p # o
    <3>1. p \in DOMAIN orders /\ orders'[p] = orders[p]
      BY <1>8, <2>4
    <3>2. orders[p].seen = Done(p)
      BY <2>2, <3>1 DEF LotsInv, SeenUnlessLost
    <3>3. Done(p) \in Nat
      BY <1>1, DoneIsNat
    <3> QED
      BY <2>1, <2>4, <3>1, <3>2, <3>3
  <2> QED
    BY <2>3, <2>4
<1> QED
  BY <1>10, <1>11, <1>12, <1>13 DEF LotsInv, SeenUnlessLost

LEMMA CatchUpHistory == ASSUME LotsInv, NEW o \in DOMAIN orders, CatchUp(o) PROVE LotsInv'
<1>1. HistoryTyped /\ orders[o] \in LotOrder /\ Done(o) \in Nat /\ clock \in Nat
  <2>1. 1..Len(Market) \subseteq Nat
    BY LotsAssumption
  <2> QED
    BY <2>1, DoneIsNat DEF LotsInv, HistoryTyped
<1>2. PICK at \in {orders[o].filledAt, clock} :
        orders' = [orders EXCEPT ![o].seen = Done(o), ![o].filledAt = at]
  BY DEF CatchUp
<1>3. fills' = fills /\ clock' = clock /\ external' = external
  BY DEF CatchUp
<1>4. at \in Nat
  BY <1>1 DEF LotOrder
<1>5. orders'[o] \in LotOrder /\ orders'[o].seen = Done(o)
  BY <1>1, <1>2, <1>4 DEF HistoryTyped, LotOrder
<1>6. /\ orders' \in Seq(LotOrder) /\ DOMAIN orders' = DOMAIN orders
      /\ \A p \in DOMAIN orders : p # o => orders'[p] = orders[p]
  <2>1. orders \in Seq(LotOrder)
    BY <1>1 DEF HistoryTyped
  <2>2. orders' = [orders EXCEPT ![o] = orders'[o]]
    BY <1>2, <2>1
  <2> QED
    BY <1>5, <2>1, <2>2
<1>7. \A p : Done(p)' = Done(p)
  BY <1>3 DEF Done, Shares, Executed
<1>8. HistoryTyped' /\ FillsOfOrders' /\ InTime'
  BY <1>1, <1>3, <1>6 DEF LotsInv, HistoryTyped, FillsOfOrders, InTime
<1>9. SeenUnlessLost'
  BY <1>3, <1>5, <1>6, <1>7 DEF LotsInv, SeenUnlessLost
<1> QED
  BY <1>8, <1>9 DEF LotsInv

LEMMA LotsStep == LotsInv /\ [LotsNext]_lotVars => LotsInv'
<1> SUFFICES ASSUME LotsInv, [LotsNext]_lotVars PROVE LotsInv'
  OBVIOUS
<1>1. CASE \E o \in 1..Min({Len(orders) + 1, MaxOrders}), side \in {1, -1}, qty \in Qtys,
             recorded \in BOOLEAN : Execute(o, side, qty, recorded)
  BY <1>1, ExecuteHistory
<1>2. CASE \E o \in DOMAIN orders : CatchUp(o)
  BY <1>2, CatchUpHistory
<1>3. CASE Tick
  <2>1. orders' = orders /\ fills' = fills /\ external' = external /\ clock' = clock + 1
        /\ clock < Len(Market)
    BY <1>3 DEF Tick
  <2>2. HistoryTyped'
    BY <2>1, LotsAssumption DEF LotsInv, HistoryTyped
  <2>3. InTime'
    <3>1. \A i \in DOMAIN fills : fills[i].at \in 1..Len(Market) /\ fills[i].at <= clock
      <4>1. \A i \in DOMAIN fills : fills[i] \in Execution
        BY DEF LotsInv, HistoryTyped
      <4> QED
        BY <4>1 DEF LotsInv, InTime, Execution
    <3>2. clock \in 1..Len(Market) /\ Len(Market) \in Nat
      BY LotsAssumption DEF LotsInv, HistoryTyped
    <3>3. \A i \in DOMAIN fills : fills[i].at <= clock'
      BY <2>1, <3>1, <3>2
    <3> QED
      BY <2>1, <3>3 DEF LotsInv, InTime
  <2> QED
    BY <2>1, <2>2, <2>3 DEF LotsInv, FillsOfOrders, SeenUnlessLost, Done, Shares, Executed
<1>4. CASE UNCHANGED lotVars
  BY <1>4 DEF lotVars, LotsInv, HistoryTyped, FillsOfOrders, InTime, SeenUnlessLost, Done, Shares, Executed
<1> QED
  BY <1>1, <1>2, <1>3, <1>4 DEF LotsNext

-----------------------------------------------------------------------------
(* Nets of fills.                                                          *)

LEMMA FillsAre ==
  ASSUME LotsInv, NEW i \in Executed
  PROVE  /\ Side(i) \in {1, -1} /\ fills[i].qty \in Nat \ {0} /\ fills[i].price \in Nat \ {0}
         /\ fills[i].at \in Nat \ {0} /\ fills[i].order \in DOMAIN orders /\ i \in Nat \ {0}
<1>1. fills[i] \in Execution
  BY DEF LotsInv, HistoryTyped, Executed
<1>2. fills[i].order \in DOMAIN orders
  BY DEF LotsInv, FillsOfOrders, Executed
<1>3. orders[fills[i].order] \in LotOrder
  BY <1>2 DEF LotsInv, HistoryTyped
<1>4. 1..Len(Market) \subseteq Nat \ {0}
  BY LotsAssumption
<1>5. fills[i].at \in Nat \ {0}
  BY <1>1, <1>4 DEF Execution
<1>6. i \in Nat \ {0}
  BY ExecutedIsFinite DEF LotsInv
<1> QED
  BY <1>1, <1>2, <1>3, <1>5, <1>6 DEF Side, LotOrder, Execution

LEMMA NetOf ==
  ASSUME LotsInv, NEW I \in SUBSET Executed
  PROVE  IsFiniteSet(I) /\ Net(I) \in Int
<1>1. IsFiniteSet(I)
  BY ExecutedIsFinite, FS_Subset DEF LotsInv
<1> DEFINE signed == [i \in Executed |-> Side(i) * fills[i].qty]
<1>2. \A i \in I : signed[i] \in Int
  BY FillsAre
<1> HIDE DEF signed
<1>3. SumFunctionOnSet(signed, I) \in Int
  BY <1>1, <1>2, SumIsInt
<1> QED
  BY <1>1, <1>3 DEF Net, signed

LEMMA NetOfNone == Net({}) = 0
BY SumOfNone DEF Net

LEMMA NetOfBoth ==
  ASSUME LotsInv, NEW I \in SUBSET Executed, NEW J \in SUBSET Executed, I \cap J = {}
  PROVE  Net(I \cup J) = Net(I) + Net(J)
<1> DEFINE signed == [i \in Executed |-> Side(i) * fills[i].qty]
<1>1. IsFiniteSet(I) /\ IsFiniteSet(J)
  BY NetOf
<1>2. \A i \in I \cup J : signed[i] \in Int
  BY FillsAre
<1> HIDE DEF signed
<1>3. SumFunctionOnSet(signed, I \cup J) = SumFunctionOnSet(signed, I) + SumFunctionOnSet(signed, J)
  BY <1>1, <1>2, SumOfBoth
<1> QED
  BY <1>3 DEF Net, signed

LEMMA NetOfSide ==
  ASSUME LotsInv, NEW I \in SUBSET Executed, NEW s \in {1, -1}, \A i \in I : Side(i) = s
  PROVE  /\ Net(I) = s * SumFunctionOnSet(Shares, I) /\ SumFunctionOnSet(Shares, I) \in Nat
         /\ I # {} => SumFunctionOnSet(Shares, I) > 0
<1> DEFINE signed == [i \in Executed |-> Side(i) * fills[i].qty]
<1>1. IsFiniteSet(I) /\ s \in Int
  BY NetOf
<1>2. \A i \in I : Shares[i] \in Nat \ {0} /\ signed[i] = s * Shares[i]
  BY FillsAre DEF Shares
<1> HIDE DEF signed
<1>3. \A i \in I : Shares[i] \in Int
  <2> SUFFICES ASSUME NEW i \in I PROVE Shares[i] \in Int
    OBVIOUS
  <2>1. Shares[i] \in Nat \ {0}
    BY <1>2
  <2> QED
    BY <2>1
<1>4. SumFunctionOnSet(signed, I) = s * SumFunctionOnSet(Shares, I)
  BY <1>1, <1>2, <1>3, SumOfMultiples
<1>5. SumFunctionOnSet(Shares, I) \in Nat /\ (I # {} => SumFunctionOnSet(Shares, I) > 0)
  BY <1>1, <1>2, SumOfPositive
<1> QED
  BY <1>4, <1>5 DEF Net, signed

LEMMA HasSide ==
  ASSUME LotsInv, NEW I \in SUBSET Executed, NEW s \in {1, -1}, s * Net(I) > 0
  PROVE  \E i \in I : Side(i) = s
<1> SUFFICES ASSUME \A i \in I : Side(i) # s PROVE FALSE
  OBVIOUS
<1>1. \A i \in I : Side(i) = - s
  BY FillsAre
<1>2. - s \in {1, -1} /\ (s = 1 \/ s = -1)
  OBVIOUS
<1>3. Net(I) = (- s) * SumFunctionOnSet(Shares, I) /\ SumFunctionOnSet(Shares, I) \in Nat
  BY <1>1, <1>2, NetOfSide
<1> QED
  BY <1>2, <1>3

\* What the rows of orders say is what the fills come to.
LEMMA RowsAreNet ==
  ASSUME LotsInv, \A o \in DOMAIN orders : orders[o].seen = Done(o)
  PROVE  SumFunction([o \in DOMAIN orders |-> orders[o].side * orders[o].seen]) = Net(Executed)
<1> DEFINE signed == [i \in Executed |-> Side(i) * fills[i].qty]
           sums == [o \in DOMAIN orders |-> orders[o].side * orders[o].seen]
           part == [i \in Executed |-> fills[i].order]
<1>1. IsFiniteSet(Executed) /\ IsFiniteSet(DOMAIN orders)
  BY ExecutedIsFinite DEF LotsInv
<1>2. (\A i \in Executed : signed[i] \in Int) /\ \A i \in Executed : part[i] \in DOMAIN orders
  BY FillsAre
<1>3. ASSUME NEW o \in DOMAIN orders
      PROVE  sums[o] = SumFunctionOnSet(signed, {i \in Executed : part[i] = o})
  <2> DEFINE of == {i \in Executed : fills[i].order = o}
  <2>1. of \in SUBSET Executed /\ \A i \in of : Side(i) = orders[o].side
    BY DEF Side
  <2>2. orders[o].side \in {1, -1}
    <3>1. orders[o] \in LotOrder
      BY DEF LotsInv, HistoryTyped
    <3> QED
      BY <3>1 DEF LotOrder
  <2>3. Net(of) = orders[o].side * SumFunctionOnSet(Shares, of)
    <3> HIDE DEF of
    <3> QED
      BY <2>1, <2>2, NetOfSide
  <2>4. SumFunctionOnSet(Shares, of) = orders[o].seen
    BY DEF Done
  <2>5. of = {i \in Executed : part[i] = o}
    OBVIOUS
  <2> HIDE DEF of, part
  <2> QED
    BY <2>3, <2>4, <2>5 DEF Net
<1> HIDE DEF signed, sums, part
<1>4. SumFunctionOnSet(signed, Executed) = SumFunctionOnSet(sums, DOMAIN orders)
  <2> DEFINE parts == [o \in DOMAIN orders |-> {i \in Executed : part[i] = o}]
  <2>1. PartSums(signed, DOMAIN orders, parts, sums)
    BY <1>3 DEF PartSums
  <2>2. Parts(Executed, DOMAIN orders, part, parts)
    BY DEF Parts
  <2> HIDE DEF parts
  <2> QED
    BY <1>1, <1>2, <2>1, <2>2, SumByParts
<1>5. DOMAIN sums = DOMAIN orders
  BY DEF sums
<1> QED
  BY <1>4, <1>5 DEF Net, SumFunction, signed, sums

LEMMA SmallerIs == ASSUME NEW a \in Int, NEW b \in Int, a <= b
                   PROVE  Min({a, b}) = a /\ Min({b, a}) = a
<1>1. IsFiniteSet({a, b})
  <2>1. IsFiniteSet({a})
    BY FS_Singleton
  <2>2. IsFiniteSet({a} \cup {b})
    BY <2>1, FS_AddElement
  <2>3. {a, b} = {a} \cup {b}
    OBVIOUS
  <2> QED
    BY <2>2, <2>3
<1>2. Min({a, b}) \in {a, b} /\ \A y \in {a, b} : Min({a, b}) <= y
  <2>1. {a, b} \subseteq Int /\ {a, b} # {}
    OBVIOUS
  <2> QED
    BY <1>1, <2>1, LargestIs
<1>3. Min({a, b}) = a
  BY <1>2
<1>4. {b, a} = {a, b}
  OBVIOUS
<1> QED
  BY <1>3, <1>4

\* The agents' shares are the net of all fills.
LEMMA AgentsOwn ==
  ASSUME LotsInv, Owned, ~ SoldForeignShares, \A o \in DOMAIN orders : orders[o].seen = Done(o)
  PROVE  /\ EntrySide \in {1, -1} /\ AgentQty = EntrySide * Net(Executed) /\ AgentQty > 0
         /\ Net(Executed) \in Int
<1> DEFINE net == Net(Executed)
<1>1. net \in Int /\ external \in Nat
  BY NetOf DEF LotsInv, HistoryTyped
<1>2. Own = Sign(Position) * net /\ Own > 0 /\ Position # 0
  BY RowsAreNet DEF Own, Owned
<1>3. Position = external + net
  BY DEF Position
<1>4. Position > 0 \/ external = 0
  <2> SUFFICES ASSUME ~ Position > 0, external # 0 PROVE FALSE
    OBVIOUS
  <2>1. net < 0 /\ external > 0
    BY <1>1, <1>3
  <2>2. Executed = 1..Len(fills) /\ Len(fills) \in Nat
    BY ExecutedIsFinite DEF LotsInv
  <2>3. Executed # {}
    BY <2>1, NetOfNone
  <2>4. Len(fills) \in Executed
    BY <2>2, <2>3
  <2>5. Net(1..Len(fills)) < 0
    BY <2>1, <2>2
  <2> QED
    BY <2>1, <2>4, <2>5 DEF SoldForeignShares
<1> HIDE DEF net
<1>5. CASE Position > 0
  <2>1. Sign(Position) = 1 /\ EntrySide = 1 /\ Abs(Position) = Position
    BY <1>1, <1>3, <1>5 DEF Sign, Abs, EntrySide
  <2>2. Own = net /\ net > 0 /\ net <= Abs(Position) /\ Abs(Position) \in Int
    BY <1>1, <1>2, <1>3, <2>1
  <2>3. Min({Abs(Position), Own}) = net
    BY <1>1, <2>2, SmallerIs
  <2> QED
    BY <1>1, <2>1, <2>2, <2>3 DEF AgentQty, net
<1>6. CASE ~ Position > 0
  <2>1. Position = net /\ net < 0
    BY <1>1, <1>2, <1>3, <1>4, <1>6
  <2>2. Sign(Position) = -1 /\ EntrySide = -1 /\ Abs(Position) = - net
    BY <1>1, <2>1 DEF Sign, Abs, EntrySide
  <2>3. Own = - net /\ - net \in Int /\ - net > 0
    BY <1>1, <1>2, <2>1, <2>2
  <2>4. Min({Abs(Position), Own}) = - net
    BY <2>2, <2>3, SmallerIs
  <2> QED
    BY <1>1, <2>2, <2>3, <2>4 DEF AgentQty, net
<1> QED
  BY <1>5, <1>6

-----------------------------------------------------------------------------
(* Where the open lot began.                                               *)

UpTo(t) == {i \in Recorded : fills[i].at <= t}

LEMMA RecordedIsExecuted == Recorded \in SUBSET Executed
BY DEF Recorded

LEMMA UpToIs ==
  ASSUME LotsInv, NEW t \in Nat
  PROVE  /\ At(t) \in SUBSET Executed /\ Before(t) \in SUBSET Executed /\ UpTo(t) \in SUBSET Executed
         /\ Before(t) \cup At(t) = UpTo(t) /\ Before(t) \cap At(t) = {}
<1>1. \A i \in Recorded : fills[i].at \in Nat
  BY FillsAre, RecordedIsExecuted
<1>2. \A i \in Recorded : (fills[i].at <= t <=> fills[i].at < t \/ fills[i].at = t) /\ ~ (fills[i].at < t /\ fills[i].at = t)
  BY <1>1
<1> QED
  BY <1>2, RecordedIsExecuted DEF At, Before, UpTo

\* The last recorded moment at which the agents had nothing.
LEMMA LotStartIs ==
  ASSUME LotsInv
  PROVE  /\ LotStart \in Nat /\ (LotStart = 0 \/ (LotStart \in Moments /\ Flat(LotStart)))
         /\ \A t \in Moments : Flat(t) => t <= LotStart
<1> DEFINE flat == {t \in Moments : Flat(t)}
           S == flat \cup {0}
<1>1. IsFiniteSet(Recorded)
  BY NetOf, RecordedIsExecuted
<1>2. IsFiniteSet(Moments)
  <2>1. Moments = {fills[i].at : i \in Recorded}
    BY DEF Moments
  <2> DEFINE at == [i \in Recorded |-> fills[i].at]
  <2>2. at \in Surjection(Recorded, Moments)
    BY <2>1 DEF Surjection
  <2> QED
    BY <1>1, <2>2, FS_Surjection
<1>3. Moments \subseteq Nat
  BY FillsAre, RecordedIsExecuted DEF Moments
<1>4. IsFiniteSet(S) /\ S # {} /\ S \subseteq Int
  <2>1. flat \in SUBSET Moments
    OBVIOUS
  <2>2. IsFiniteSet(flat)
    BY <1>2, <2>1, FS_Subset
  <2>3. IsFiniteSet(S)
    BY <2>2, FS_AddElement
  <2>4. flat \subseteq Int
    <3> SUFFICES ASSUME NEW t \in flat PROVE t \in Int
      OBVIOUS
    <3>1. t \in Moments
      OBVIOUS
    <3>2. t \in Nat
      BY <1>3, <3>1
    <3> QED
      BY <3>2
  <2>5. S \subseteq Int /\ S # {}
    <3> HIDE DEF flat
    <3> QED
      BY <2>4
  <2> QED
    BY <2>3, <2>5
<1>5. LotStart = Max(S)
  BY DEF LotStart
<1>6. LotStart \in S /\ \A t \in S : LotStart >= t
  <2> HIDE DEF S
  <2> QED
    BY <1>4, <1>5, LargestIs
<1>7. LotStart \in Nat
  BY <1>3, <1>6
<1>8. \A t \in Moments : Flat(t) => t <= LotStart
  BY <1>3, <1>6, <1>7
<1>9. LotStart = 0 \/ (LotStart \in Moments /\ Flat(LotStart))
  BY <1>6
<1> QED
  BY <1>7, <1>8, <1>9

\* What the fills of the lot come to is what all recorded fills come to.
LEMMA LotIsNet ==
  ASSUME LotsInv, ~ AmbiguousLot
  PROVE  LotFills \in SUBSET Executed /\ Net(LotFills) = Net(Recorded)
<1>1. LotFills = {i \in Recorded : fills[i].at > LotStart}
  BY DEF LotFills
<1>2. LotStart \in Nat /\ UpTo(LotStart) \in SUBSET Executed
  BY LotStartIs, UpToIs
<1>3. Net(UpTo(LotStart)) = 0
  <2>1. CASE LotStart = 0
    <3>1. UpTo(LotStart) = {}
      <4>1. \A i \in Recorded : fills[i].at \in Nat \ {0}
        BY FillsAre, RecordedIsExecuted
      <4> QED
        BY <2>1, <4>1 DEF UpTo
    <3> QED
      BY <3>1, NetOfNone
  <2>2. CASE LotStart # 0
    <3>1. Flat(LotStart)
      BY <2>2, LotStartIs
    <3> QED
      BY <1>2, <3>1, UpToIs DEF Flat
  <2> QED
    BY <2>1, <2>2
<1>4. UpTo(LotStart) \cup LotFills = Recorded /\ UpTo(LotStart) \cap LotFills = {}
  <2>1. \A i \in Recorded : fills[i].at \in Nat
    BY FillsAre, RecordedIsExecuted
  <2>2. \A i \in Recorded : fills[i].at > LotStart <=> ~ fills[i].at <= LotStart
    BY <1>2, <2>1
  <2> QED
    BY <1>1, <2>2 DEF UpTo
<1>5. LotFills \in SUBSET Executed
  BY <1>1, RecordedIsExecuted
<1>6. Net(Recorded) = Net(UpTo(LotStart)) + Net(LotFills)
  BY <1>2, <1>4, <1>5, NetOfBoth
<1>7. Net(LotFills) \in Int
  BY <1>5, NetOf
<1> QED
  BY <1>3, <1>5, <1>6, <1>7

\* The last fill after which the agents really had nothing.
TrueStart == Max({i \in Executed : Net(1..i) = 0} \cup {0})

LEMMA TrueStartIs ==
  ASSUME LotsInv
  PROVE  /\ TrueStart \in Nat /\ (TrueStart = 0 \/ TrueStart \in Executed) /\ Net(1..TrueStart) = 0
         /\ 1..TrueStart \in SUBSET Executed
         /\ \A i \in Executed : Net(1..i) = 0 => i <= TrueStart
<1> DEFINE flat == {i \in Executed : Net(1..i) = 0}
           S == flat \cup {0}
<1>1. Executed = 1..Len(fills) /\ Len(fills) \in Nat
  BY ExecutedIsFinite DEF LotsInv
<1>2. IsFiniteSet(S) /\ S # {} /\ S \subseteq Nat
  <2>1. flat \in SUBSET Executed
    OBVIOUS
  <2>2. IsFiniteSet(flat)
    BY <2>1, NetOf
  <2>3. IsFiniteSet(S)
    BY <2>2, FS_AddElement
  <2> QED
    BY <1>1, <2>3
<1>3. TrueStart = Max(S)
  BY DEF TrueStart
<1>4. TrueStart \in S /\ \A i \in S : TrueStart >= i
  <2>1. S \subseteq Int
    BY <1>2
  <2> HIDE DEF S
  <2> QED
    BY <1>2, <1>3, <2>1, LargestIs
<1>5. TrueStart \in Nat
  BY <1>2, <1>4
<1>6. Net(1..TrueStart) = 0
  <2>1. 1..0 = {}
    OBVIOUS
  <2> QED
    BY <1>4, <2>1, NetOfNone
<1>7. \A i \in Executed : Net(1..i) = 0 => i <= TrueStart
  BY <1>1, <1>4, <1>5
<1>8. TrueStart = 0 \/ TrueStart \in Executed
  BY <1>4
<1>9. 1..TrueStart \subseteq Executed
  BY <1>1, <1>5, <1>8
<1> QED
  BY <1>5, <1>6, <1>7, <1>8, <1>9

\* If nothing is lost and the lot is clear, it begins where it really does.
LEMMA LotIsTrue ==
  ASSUME LotsInv, ~ AmbiguousLot, Recorded = Executed, NEW i \in Executed
  PROVE  i > TrueStart <=> fills[i].at > LotStart
<1>1. /\ \A j \in Executed : fills[j].at \in Nat \ {0} /\ j \in Nat \ {0}
      /\ \A j, k \in Executed : j <= k => fills[j].at <= fills[k].at
      /\ \A j, k \in Executed : fills[j].at < fills[k].at => j < k
      /\ Executed = 1..Len(fills) /\ Len(fills) \in Nat
  <2>1. \A j \in Executed : fills[j].at \in Nat \ {0} /\ j \in Nat \ {0}
    BY FillsAre
  <2>2. \A j, k \in Executed : j <= k => fills[j].at <= fills[k].at
    BY DEF LotsInv, InTime, Executed
  <2>3. \A j, k \in Executed : fills[j].at < fills[k].at => j < k
    BY <2>1, <2>2
  <2> QED
    BY <2>1, <2>2, <2>3, ExecutedIsFinite DEF LotsInv
<1>2. TrueStart \in Nat /\ LotStart \in Nat
  BY TrueStartIs, LotStartIs
<1>3. ASSUME i > TrueStart, ~ fills[i].at > LotStart PROVE FALSE
  <2> DEFINE old == UpTo(LotStart)
  <2>1. i \in old
    BY <1>1, <1>2, <1>3 DEF UpTo
  <2>2. Flat(LotStart)
    BY <1>1, <1>2, <1>3, LotStartIs
  <2>3. Net(old) = 0 /\ old \in SUBSET Executed
    BY <1>2, <2>2, UpToIs DEF Flat
  <2>4. PICK e \in old : \A j \in old : e >= j
    <3>1. IsFiniteSet(old) /\ old \subseteq Int /\ old # {}
      BY <1>1, <2>1, <2>3, NetOf
    <3> HIDE DEF old
    <3> QED
      BY <3>1, ExtremesExist
  <2>5. old = 1..e
    <3>1. e \in Executed /\ e \in Nat /\ fills[e].at <= LotStart
      BY <1>1, <2>3, <2>4 DEF UpTo
    <3>2. \A j \in 1..e : j \in Executed /\ j <= e /\ fills[j].at <= fills[e].at
      BY <1>1, <3>1
    <3>3. \A j \in 1..e : fills[j].at <= LotStart
      BY <1>1, <1>2, <3>1, <3>2
    <3>4. \A j \in 1..e : j \in old
      BY <3>2, <3>3 DEF UpTo
    <3>5. \A j \in old : j \in 1..e
      BY <1>1, <2>3, <2>4, <3>1
    <3> QED
      BY <3>4, <3>5
  <2>6. e <= TrueStart /\ e \in Nat
    BY <1>1, <2>3, <2>4, <2>5, TrueStartIs
  <2>7. i <= e
    BY <2>1, <2>4, <2>6, <1>1
  <2> QED
    BY <1>1, <1>2, <1>3, <2>6, <2>7
<1>4. ASSUME fills[i].at > LotStart, ~ i > TrueStart PROVE FALSE
  <2> DEFINE s == TrueStart
             t == fills[s].at
             G == {j \in At(t) : j <= s}
  <2>1. s \in Executed /\ i <= s /\ Net(1..s) = 0 /\ 1..s \in SUBSET Executed
    BY <1>1, <1>2, <1>4, TrueStartIs
  <2>2. t \in Nat /\ t > LotStart /\ s \in Nat
    BY <1>1, <1>2, <1>4, <2>1
  <2>3. t \in Moments /\ ~ Flat(t)
    <3>1. t \in Moments
      BY <2>1 DEF Moments
    <3> QED
      BY <1>2, <2>2, <3>1, LotStartIs
  <2>4. \A u \in Moments : u > t => ~ Flat(u)
    <3>1. \A u \in Moments : u \in Nat
      BY <1>1 DEF Moments
    <3> QED
      BY <1>2, <2>2, <3>1, LotStartIs
  <2>5. At(t) \in SUBSET Executed /\ Before(t) \in SUBSET Executed /\ Before(t) \cap At(t) = {}
    BY <2>2, UpToIs
  <2>6. Before(t) \cup G = 1..s /\ Before(t) \cap G = {} /\ G \in SUBSET Executed
    <3>1. \A j \in Before(t) : j \in 1..s
      <4>1. \A j \in Before(t) : j \in Executed /\ fills[j].at < t
        BY <2>5 DEF Before
      <4>2. \A j \in Before(t) : j < s /\ j \in Nat \ {0}
        BY <1>1, <2>1, <4>1
      <4> QED
        BY <2>2, <4>2
    <3>2. \A j \in G : j \in 1..s
      BY <1>1, <2>2, <2>5
    <3>3. \A j \in 1..s : j \in Before(t) \/ j \in G
      <4> SUFFICES ASSUME NEW j \in 1..s PROVE j \in Before(t) \/ j \in G
        OBVIOUS
      <4>1. j \in Executed /\ j <= s
        BY <2>1, <2>2
      <4>2. fills[j].at <= t /\ fills[j].at \in Nat
        BY <1>1, <2>1, <4>1
      <4>3. fills[j].at < t \/ fills[j].at = t
        BY <2>2, <4>2
      <4> QED
        BY <4>1, <4>3 DEF Before, At
    <3> QED
      BY <2>5, <3>1, <3>2, <3>3
  <2>7. Net(G) = - Net(Before(t))
    <3>1. Net(1..s) = Net(Before(t)) + Net(G)
      BY <2>5, <2>6, NetOfBoth
    <3>2. Net(Before(t)) \in Int /\ Net(G) \in Int
      BY <2>5, <2>6, NetOf
    <3> QED
      BY <2>1, <3>1, <3>2
  <2>8. G # {}
    <3>1. s \in At(t) /\ s <= s
      BY <2>1, <2>2 DEF At
    <3> QED
      BY <3>1
  <2>9. G # At(t)
    <3> SUFFICES ASSUME G = At(t) PROVE FALSE
      OBVIOUS
    <3>1. Net(Before(t) \cup At(t)) = Net(1..s)
      BY <2>6
    <3> QED
      BY <2>1, <2>3, <3>1 DEF Flat
  <2>10. HiddenZeroCrossing(t)
    <3>1. G \in SUBSET At(t)
      OBVIOUS
    <3> HIDE DEF G, t
    <3>2. G \notin {{}, At(t)}
      BY <2>8, <2>9
    <3>3. G \in (SUBSET At(t)) \ {{}, At(t)}
      BY <3>1, <3>2
    <3> QED
      BY <2>7, <3>3 DEF HiddenZeroCrossing
  <2> QED
    BY <2>3, <2>4, <2>10 DEF AmbiguousLot
<1> QED
  BY <1>3, <1>4

-----------------------------------------------------------------------------
(* What the average is of.                                                 *)

LEMMA ClearLot == Entries # {} => ~ AmbiguousLot /\ Entries = {i \in LotFills : Side(i) = EntrySide}
BY DEF Entries, LotFills

\* Losses on one side cannot balance.
LEMMA NothingLost ==
  ASSUME LotsInv, ~ LostOnBothSides, Net(Recorded) = Net(Executed)
  PROVE  Recorded = Executed
<1> DEFINE lost == Executed \ Recorded
<1>1. lost \in SUBSET Executed /\ Recorded \in SUBSET Executed /\ Recorded \cup lost = Executed
      /\ Recorded \cap lost = {}
  BY RecordedIsExecuted
<1>2. Net(Executed) = Net(Recorded) + Net(lost) /\ Net(lost) \in Int /\ Net(Recorded) \in Int
  BY <1>1, NetOf, NetOfBoth
<1>3. Net(lost) = 0
  BY <1>2
<1> SUFFICES ASSUME lost # {} PROVE FALSE
  BY <1>1
<1>4. PICK i \in lost : TRUE
  OBVIOUS
<1>5. Side(i) \in {1, -1} /\ \A j \in lost : Side(j) = Side(i)
  BY <1>4, FillsAre DEF LostOnBothSides
<1> HIDE DEF lost
<1>6. /\ Net(lost) = Side(i) * SumFunctionOnSet(Shares, lost)
      /\ SumFunctionOnSet(Shares, lost) \in Nat /\ SumFunctionOnSet(Shares, lost) > 0
  BY <1>1, <1>4, <1>5, NetOfSide
<1> QED
  BY <1>3, <1>5, <1>6

LEMMA AverageIsOfTheLot ==
  ASSUME LotsInv, Owned, Current, ByFills, ~ SoldForeignShares, ~ LostOnBothSides
  PROVE  Entries = TrueEntries /\ Recorded = Executed /\ Entries # {}
<1>1. EntrySide \in {1, -1} /\ AgentQty = EntrySide * Net(Executed) /\ Net(Executed) \in Int
  BY AgentsOwn DEF Current
<1>2. Entries # {} /\ EntrySide * Net(LotFills) = AgentQty
  BY DEF ByFills
<1>3. ~ AmbiguousLot /\ Entries = {i \in LotFills : Side(i) = EntrySide}
  BY <1>2, ClearLot
<1>4. Net(LotFills) = Net(Recorded) /\ Net(Recorded) \in Int
  BY <1>3, LotIsNet, NetOf, RecordedIsExecuted
<1>5. Net(Recorded) = Net(Executed)
  BY <1>1, <1>2, <1>4
<1>6. Recorded = Executed
  BY <1>5, NothingLost
<1>7. LotFills = {i \in Executed : fills[i].at > LotStart}
  BY <1>3, <1>6 DEF LotFills
<1>8. TrueEntries = {i \in Executed : i > TrueStart /\ Side(i) = EntrySide}
  BY DEF TrueEntries, TrueStart
<1>9. \A i \in Executed : i > TrueStart <=> fills[i].at > LotStart
  BY <1>3, <1>6, LotIsTrue
<1>10. Entries = TrueEntries
  BY <1>3, <1>7, <1>8, <1>9
<1> QED
  BY <1>2, <1>6, <1>10

LEMMA OrderlyIsVerified == LotsInv => OrderlyFillsAreVerified
<1> SUFFICES ASSUME LotsInv, Owned, Recorded = Executed, ~ SoldForeignShares,
                    \A i, j \in Executed : fills[i].at = fills[j].at => i = j
             PROVE  ByFills
  BY DEF OrderlyFillsAreVerified
<1>1. \A o \in DOMAIN orders : orders[o].seen = Done(o)
  BY DEF LotsInv, SeenUnlessLost, Recorded, Executed
<1>2. /\ EntrySide \in {1, -1} /\ AgentQty = EntrySide * Net(Executed) /\ AgentQty > 0
      /\ Net(Executed) \in Int
  BY <1>1, AgentsOwn
<1>3. Uncovered = {}
  BY DEF Uncovered, Covered, LotsInv, FillsOfOrders, Executed
<1>4. ASSUME NEW t PROVE ~ HiddenZeroCrossing(t)
  <2>1. \A i, j \in At(t) : i = j
    BY DEF At
  <2>2. \A G \in SUBSET At(t) : G = {} \/ G = At(t)
    BY <2>1
  <2> QED
    BY <2>2 DEF HiddenZeroCrossing
<1>5. ~ AmbiguousLot
  BY <1>3, <1>4 DEF AmbiguousLot
<1>6. LotFills \in SUBSET Executed /\ Net(LotFills) = Net(Executed)
  BY <1>5, LotIsNet
<1>7. EntrySide * Net(LotFills) > 0
  BY <1>2, <1>6
<1>8. \E i \in LotFills : Side(i) = EntrySide
  BY <1>2, <1>6, <1>7, HasSide
<1> QED
  BY <1>2, <1>6, <1>8 DEF ByFills, Entries

\* An average the exit job takes from fills is that of the open lot, and of all
\* of it (exits.py:313-403), for any fills, moments and losses, but for the two
\* histories BasisIsOfTheLot names.
THEOREM AveragesAreOfTheLot == LotsSpec => []BasisIsOfTheLot
<1>1. LotsInit => LotsInv
  BY LotsInitial
<1>2. LotsInv /\ [LotsNext]_lotVars => LotsInv'
  BY LotsStep
<1>3. LotsInv => BasisIsOfTheLot
  BY AverageIsOfTheLot DEF BasisIsOfTheLot
<1> QED
  BY <1>1, <1>2, <1>3, PTL DEF LotsSpec

\* Fills that are complete and of moments of their own always tell the cost
\* (exits.py:404-423), however often the agents bought and sold before.
THEOREM OrderlyFillsTell == LotsSpec => []OrderlyFillsAreVerified
<1>1. LotsInit => LotsInv
  BY LotsInitial
<1>2. LotsInv /\ [LotsNext]_lotVars => LotsInv'
  BY LotsStep
<1>3. LotsInv => OrderlyFillsAreVerified
  BY OrderlyIsVerified
<1> QED
  BY <1>1, <1>2, <1>3, PTL DEF LotsSpec

-----------------------------------------------------------------------------
(* What a loss of every entry is for their average.                        *)

\* At a quote, a price is below (or above, for a short) by the stop or more.
Stopped(qty, cost, quote) == EntrySide * 100 * (quote * qty - cost) <= - StopPct * cost

LEMMA StoppedWith ==
  ASSUME EntrySide \in {1, -1}, StopPct \in Nat, NEW quote \in Nat,
         NEW price \in Nat, NEW n \in Nat, NEW qty \in Nat, NEW cost \in Nat,
         EntrySide * 100 * (quote - price) <= - StopPct * price, Stopped(qty, cost, quote)
  PROVE  Stopped(n + qty, n * price + cost, quote)
<1> DEFINE s == StopPct
<1>1. s \in Nat
  OBVIOUS
<1> HIDE DEF s
<1>2. /\ n * price \in Nat /\ n * quote \in Nat /\ quote * qty \in Nat
      /\ s * price \in Nat /\ s * cost \in Nat /\ s * (n * price) \in Nat
  BY <1>1, SMTT(30)
<1>3. /\ quote * (n + qty) = n * quote + quote * qty
      /\ s * (n * price + cost) = s * (n * price) + s * cost
      /\ n * (s * price) = s * (n * price)
  <2>1. quote * (n + qty) = n * quote + quote * qty
    OBVIOUS
  <2>2. s * (n * price + cost) = s * (n * price) + s * cost
    BY <1>1, <1>2
  <2>3. n * (s * price) = s * (n * price)
    BY <1>1
  <2> QED
    BY <2>1, <2>2, <2>3
<1>4. ASSUME NEW a \in Int, NEW b \in Int, a <= b PROVE n * a <= n * b
  BY <1>4
<1>5. CASE EntrySide = 1
  <2>1. 100 * quote + s * price <= 100 * price
    BY <1>1, <1>2, <1>5 DEF s
  <2>2. n * (100 * quote + s * price) <= n * (100 * price)
    BY <1>2, <1>4, <2>1
  <2>3. n * (100 * quote + s * price) = 100 * (n * quote) + s * (n * price)
    BY <1>2, <1>3
  <2>4. n * (100 * price) = 100 * (n * price)
    OBVIOUS
  <2>5. 100 * (n * quote) + s * (n * price) <= 100 * (n * price)
    BY <2>2, <2>3, <2>4
  <2>6. 100 * (quote * qty) + s * cost <= 100 * cost
    BY <1>2, <1>5 DEF Stopped, s
  <2>7. 100 * (n * quote + quote * qty - (n * price + cost)) <= - (s * (n * price) + s * cost)
    BY <1>2, <2>5, <2>6
  <2> QED
    BY <1>2, <1>3, <1>5, <2>7 DEF Stopped, s
<1>6. CASE EntrySide = -1
  <2>1. 100 * price + s * price <= 100 * quote
    BY <1>1, <1>2, <1>6 DEF s
  <2>2. n * (100 * price + s * price) <= n * (100 * quote)
    BY <1>2, <1>4, <2>1
  <2>3. n * (100 * price + s * price) = 100 * (n * price) + s * (n * price)
    BY <1>2, <1>3
  <2>4. n * (100 * quote) = 100 * (n * quote)
    OBVIOUS
  <2>5. 100 * (n * price) + s * (n * price) <= 100 * (n * quote)
    BY <2>2, <2>3, <2>4
  <2>6. 100 * cost + s * cost <= 100 * (quote * qty)
    BY <1>2, <1>6 DEF Stopped, s
  <2>7. (-100) * (n * quote + quote * qty - (n * price + cost)) <= - (s * (n * price) + s * cost)
    BY <1>2, <2>5, <2>6
  <2> QED
    BY <1>2, <1>3, <1>6, <2>7 DEF Stopped, s
<1> QED
  BY <1>5, <1>6

Loss(i, quote) == EntrySide * 100 * (quote - fills[i].price) <= - StopPct * fills[i].price

LEMMA AverageIsStopped ==
  ASSUME LotsInv, EntrySide \in {1, -1}, NEW I \in SUBSET Executed, NEW quote \in Nat,
         \A i \in I : Loss(i, quote)
  PROVE  LET average == Average(I) IN Stopped(average.qty, average.cost, quote)
<1> DEFINE costs == [i \in Executed |-> fills[i].qty * fills[i].price]
           Q(s) == SumFunctionOnSet(Shares, s)
           C(s) == SumFunctionOnSet(costs, s)
           P == {s \in SUBSET I : Stopped(Q(s), C(s), quote)}
<1>1. IsFiniteSet(I) /\ StopPct \in Nat
  BY NetOf, LotsAssumption
<1>2. \A i \in Executed : Shares[i] \in Nat \ {0} /\ costs[i] \in Nat \ {0}
                          /\ costs[i] = Shares[i] * fills[i].price
  <2>1. \A i \in Executed : fills[i].qty \in Nat \ {0} /\ fills[i].price \in Nat \ {0}
    BY FillsAre
  <2>2. \A n, p \in Nat \ {0} : n * p \in Nat \ {0}
    OBVIOUS
  <2> QED
    BY <2>1, <2>2 DEF Shares
<1> HIDE DEF costs
<1>3. ASSUME NEW s \in SUBSET I PROVE IsFiniteSet(s) /\ Q(s) \in Nat /\ C(s) \in Nat
  <2>1. IsFiniteSet(s)
    BY <1>1, FS_Subset
  <2>2. (\A i \in s : Shares[i] \in Nat \ {0}) /\ \A i \in s : costs[i] \in Nat \ {0}
    BY <1>2
  <2> QED
    BY <2>1, <2>2, SumOfPositive
<1>4. {} \in P
  <2>1. Q({}) = 0 /\ C({}) = 0
    BY SumOfNone
  <2>2. Stopped(0, 0, quote)
    BY <1>1 DEF Stopped
  <2> QED
    BY <2>1, <2>2
<1>5. ASSUME NEW s \in SUBSET I, NEW i \in s, s \ {i} \in P PROVE s \in P
  <2> DEFINE rest == s \ {i}
  <2>1. IsFiniteSet(s) /\ Q(rest) \in Nat /\ C(rest) \in Nat
    BY <1>3
  <2>2. (\A j \in s : Shares[j] \in Int) /\ \A j \in s : costs[j] \in Int
    BY <1>2
  <2>3. Q(s) = Shares[i] + Q(rest) /\ C(s) = costs[i] + C(rest)
    BY <2>1, <2>2, SumWithout
  <2>4. /\ Shares[i] \in Nat /\ fills[i].price \in Nat /\ costs[i] = Shares[i] * fills[i].price
        /\ Loss(i, quote)
    BY <1>2, FillsAre
  <2>5. Stopped(Q(rest), C(rest), quote)
    BY <1>5
  <2> HIDE DEF Q, C, rest
  <2>6. Stopped(Shares[i] + Q(rest), Shares[i] * fills[i].price + C(rest), quote)
    BY <1>1, <2>1, <2>4, <2>5, StoppedWith DEF Loss
  <2> QED
    BY <2>3, <2>4, <2>6
<1>6. I \in P
  <2> HIDE DEF P
  <2> QED
    BY <1>1, <1>4, <1>5, SubsetInduction
<1> QED
  BY <1>6 DEF Average, costs

\* The open lot has an entry, and a first and a last price.
LEMMA LotIsEntered ==
  ASSUME LotsInv, EntrySide \in {1, -1}, EntrySide * Net(Executed) > 0
  PROVE  LET entered == {fills[i].price : i \in TrueEntries}
         IN  Min(entered) \in entered /\ Max(entered) \in entered
<1> DEFINE entered == {fills[i].price : i \in TrueEntries}
           old == 1..TrueStart
           lot == Executed \ old
<1>1. TrueEntries = {i \in Executed : i > TrueStart /\ Side(i) = EntrySide}
  BY DEF TrueEntries, TrueStart
<1>2. old \in SUBSET Executed /\ Net(old) = 0 /\ TrueStart \in Nat
  BY TrueStartIs
<1>3. Net(lot) = Net(Executed)
  <2>1. old \cup lot = Executed /\ old \cap lot = {}
    BY <1>2
  <2>2. Net(Executed) = Net(old) + Net(lot) /\ Net(lot) \in Int
    BY <1>2, <2>1, NetOfBoth, NetOf
  <2> QED
    BY <1>2, <2>2
<1>4. PICK i \in lot : Side(i) = EntrySide
  <2> HIDE DEF lot
  <2>1. lot \in SUBSET Executed
    BY DEF lot
  <2> QED
    BY <1>3, <2>1, HasSide
<1>5. i \in TrueEntries
  <2>1. i \in Nat \ {0}
    BY <1>4, FillsAre
  <2> QED
    BY <1>1, <1>2, <1>4, <2>1
<1>6. IsFiniteSet(entered)
  <2>1. IsFiniteSet(TrueEntries)
    BY <1>1, NetOf
  <2> DEFINE price == [j \in TrueEntries |-> fills[j].price]
  <2>2. price \in Surjection(TrueEntries, entered)
    BY DEF Surjection
  <2> QED
    BY <2>1, <2>2, FS_Surjection
<1>7. entered \subseteq Int /\ entered # {}
  <2>1. \A j \in TrueEntries : fills[j].price \in Int
    BY <1>1, FillsAre
  <2> QED
    BY <1>5, <2>1
<1> HIDE DEF entered
<1>8. Min(entered) \in entered /\ Max(entered) \in entered
  BY <1>6, <1>7, LargestIs
<1> QED
  BY <1>8 DEF entered

LEMMA BrokerIsStopped ==
  ASSUME LotsInv, EntrySide \in {1, -1}, EntrySide * Net(Executed) > 0, NEW quote \in Nat \ {0},
         \A i \in TrueEntries : Loss(i, quote), NEW basis \in BrokerAverages
  PROVE  Stopped(basis.qty, basis.cost, quote)
<1> DEFINE entered == {fills[i].price : i \in TrueEntries}
           s == StopPct
<1>1. PICK p \in Range(Market) : /\ Min(entered) <= p /\ p <= Max(entered)
                                 /\ basis = [qty |-> 1, cost |-> p]
  BY DEF BrokerAverages
<1>2. p \in Nat \ {0} /\ s \in Nat
  BY LotsAssumption DEF Range
<1>3. PICK i \in TrueEntries : Min(entered) = fills[i].price
  BY LotIsEntered
<1>4. PICK j \in TrueEntries : Max(entered) = fills[j].price
  BY LotIsEntered
<1> DEFINE low == fills[i].price
           high == fills[j].price
<1>5. low \in Nat \ {0} /\ high \in Nat \ {0}
  <2>1. i \in Executed /\ j \in Executed
    BY <1>3, <1>4 DEF TrueEntries
  <2> QED
    BY <2>1, FillsAre
<1>6. low <= p /\ p <= high
  BY <1>1, <1>3, <1>4
<1>7. /\ EntrySide * 100 * (quote - low) <= - s * low
      /\ EntrySide * 100 * (quote - high) <= - s * high
  BY <1>3, <1>4 DEF Loss
<1> HIDE DEF low, high, s, entered
<1>8. s * low \in Nat /\ s * high \in Nat /\ s * p \in Nat
  BY <1>2, <1>5
<1>9. EntrySide * 100 * (quote - p) <= - s * p
  <2>1. CASE EntrySide = 1
    <3>1. 100 * quote + s * low <= 100 * low
      BY <1>2, <1>5, <1>7, <1>8, <2>1
    <3>2. s < 100
      <4> SUFFICES ASSUME ~ s < 100 PROVE FALSE
        OBVIOUS
      <4>1. s * low >= 100 * low
        BY <1>2, <1>5
      <4> QED
        BY <1>5, <1>8, <3>1, <4>1
    <3>3. (100 - s) * low <= (100 - s) * p
      BY <1>2, <1>5, <1>6, <3>2
    <3>4. (100 - s) * low = 100 * low - s * low /\ (100 - s) * p = 100 * p - s * p
      BY <1>2, <1>5
    <3>5. 100 * (quote - p) <= - (s * p)
      BY <1>2, <1>5, <1>8, <3>1, <3>3, <3>4
    <3> QED
      BY <1>2, <2>1, <3>5
  <2>2. CASE EntrySide = -1
    <3>1. 100 * high + s * high <= 100 * quote
      BY <1>2, <1>5, <1>7, <1>8, <2>2
    <3>2. s * p <= s * high
      BY <1>2, <1>5, <1>6
    <3>3. (-100) * (quote - p) <= - (s * p)
      BY <1>2, <1>5, <1>6, <1>8, <3>1, <3>2
    <3> QED
      BY <1>2, <2>2, <3>3
  <2> QED
    BY <2>1, <2>2
<1> QED
  BY <1>1, <1>2, <1>9 DEF Stopped, s

LEMMA LossStops == LotsInv => LossIsStopped
<1> SUFFICES ASSUME LotsInv, Owned, Current, ~ SoldForeignShares, ~ LostOnBothSides,
                    NEW quote \in Quotes, \A i \in TrueEntries : Loss(i, quote)
             PROVE  Reasons(Bases, quote) = {"stop_loss"}
  BY DEF LossIsStopped, Loss
<1>1. EntrySide \in {1, -1} /\ EntrySide * Net(Executed) > 0
  BY AgentsOwn DEF Current
<1>2. quote \in Nat \ {0}
  BY LotsAssumption
<1>3. ASSUME NEW basis \in Bases PROVE Stopped(basis.qty, basis.cost, quote)
  <2>1. CASE ByFills
    <3>1. basis = Average(Entries) /\ Entries = TrueEntries
      BY <1>3, <2>1, AverageIsOfTheLot DEF Bases
    <3>2. TrueEntries \in SUBSET Executed
      BY DEF TrueEntries
    <3> QED
      BY <1>1, <1>2, <3>1, <3>2, AverageIsStopped
  <2>2. CASE ~ ByFills
    <3>1. basis \in BrokerAverages
      BY <1>3, <2>2 DEF Bases
    <3> QED
      BY <1>1, <1>2, <3>1, BrokerIsStopped
  <2> QED
    BY <2>1, <2>2
<1>4. \A basis \in Bases : Reason(basis, quote) = "stop_loss"
  BY <1>3 DEF Stopped, Reason, Gain
<1> QED
  BY <1>4 DEF Reasons

\* A position that lost the stop at every price it was entered at is closed as a
\* stop-loss, whatever the fills leave open (exits.py:83-95, 404-435): an average
\* of the lot lies among its prices, the broker's as well, and no average means
\* stop.
THEOREM LossesAreStopped == LotsSpec => []LossIsStopped
<1>1. LotsInit => LotsInv
  BY LotsInitial
<1>2. LotsInv /\ [LotsNext]_lotVars => LotsInv'
  BY LotsStep
<1>3. LotsInv => LossIsStopped
  BY LossStops
<1> QED
  BY <1>1, <1>2, <1>3, PTL DEF LotsSpec

=============================================================================
