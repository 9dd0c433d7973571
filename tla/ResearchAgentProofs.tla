------------------------- MODULE ResearchAgentProofs -------------------------
(***************************************************************************)
(* Proofs about ResearchAgent, for any number of cycles, providers, symbols *)
(* and calls: a conversation has one provider; a proposal rests on evidence *)
(* of its own cycle; the log agrees with the orders.                        *)
(***************************************************************************)
EXTENDS ResearchAgent, FiniteSetTheorems, TLAPS

TradingStates == {"active", "winding_down", "halted"}

Ended == {"off", "done", "dead"}

Places == Ended \cup Handling \cup {"bound", "talking", "acting"}

ProposalSet == {NoProposal} \cup [order : Order, claims : SUBSET Claimed, last : BOOLEAN]

Cycle == [pc : Places, provider : Provider \cup {None}, turn : Nat, view : TradingStates,
          proposal : ProposalSet]

TypeOK ==
  /\ state \in TradingStates
  /\ healthy \subseteq Provider
  /\ cycle \in [Session -> Cycle]

Running(s) == cycle[s].pc \notin Ended

DecisionsOf(s) == {d \in decisions : d.session = s}

\* A cycle that has not started has left nothing, and one that runs has spoken with
\* the provider it holds, which may write.
Loyal(s) ==
  /\ cycle[s].pc = "off" => CallsOf(s) = {} /\ DecisionsOf(s) = {}
  /\ Running(s) =>
       /\ cycle[s].provider \in Provider \ ReadOnly
       /\ \A c \in CallsOf(s) : c.provider = cycle[s].provider
       /\ \A d \in DecisionsOf(s) : d.provider = cycle[s].provider

LoyalInv ==
  /\ TypeOK
  /\ \A d \in decisions : d.session \in Session
  /\ \A s \in Session : Loyal(s)
  /\ OneProvider

\* What a step may do to the tables of a cycle: add what its own provider says.
Speaks(s) ==
  /\ \A c \in calls' : c \in calls \/ (c.session = s /\ c.provider = cycle[s].provider)
  /\ \A d \in decisions' : \/ d \in decisions
                           \/ d.session = s /\ d.provider = cycle[s].provider
  /\ calls \subseteq calls'

\* How a step may change a cycle: it starts with a provider that may write, or keeps
\* the one it has, or is over.
Keeps(s) ==
  \/ cycle'[s] = cycle[s]
  \/ cycle'[s].pc \in {"done", "dead"}
  \/ cycle[s].pc = "off" /\ cycle'[s].pc = "off"
  \/ /\ cycle[s].pc = "off" /\ cycle'[s].pc \in Places
     /\ cycle'[s].provider \in Provider \ ReadOnly
  \/ Running(s) /\ Running(s)' /\ cycle'[s].provider = cycle[s].provider

-----------------------------------------------------------------------------

\* A step of one cycle that runs on, or ends.
LEMMA SpeakingIsLoyal ==
  ASSUME LoyalInv, TypeOK', NEW s \in Session, Running(s), Speaks(s), Keeps(s),
         \A t \in Session \ {s} : cycle'[t] = cycle[t]
  PROVE  LoyalInv'
<1>2. \A t \in Session \ {s} : CallsOf(t)' = CallsOf(t) /\ DecisionsOf(t)' \subseteq DecisionsOf(t)
  BY DEF CallsOf, DecisionsOf, Speaks
<1>3. \A c \in CallsOf(s)' : c.provider = cycle[s].provider
  BY DEF CallsOf, Speaks, LoyalInv, Loyal
<1>4. \A d \in DecisionsOf(s)' : d.provider = cycle[s].provider
  BY DEF DecisionsOf, Speaks, LoyalInv, Loyal
<1>5. cycle[s].provider \in Provider \ ReadOnly
  BY DEF LoyalInv, Loyal
<1>7. \A d \in decisions' : d.session \in Session
  BY DEF Speaks, LoyalInv
<1>8. \A t \in Session : Loyal(t)'
  <2> SUFFICES ASSUME NEW t \in Session PROVE Loyal(t)'
    OBVIOUS
  <2>1. CASE t = s
    BY <2>1, <1>3, <1>4, <1>5 DEF Loyal, Running, Keeps, Ended
  <2>2. CASE t # s
    BY <2>2, <1>2 DEF Loyal, Running, LoyalInv
  <2> QED BY <2>1, <2>2
<1>9. OneProvider'
  <2> SUFFICES ASSUME NEW d \in decisions'
               PROVE  d.provider \notin ReadOnly /\ \A c \in CallsOf(d.session)' : c.provider = d.provider
    BY DEF OneProvider
  <2>1. CASE d.session = s
    <3>1. d \in DecisionsOf(s)'
      BY <2>1 DEF DecisionsOf
    <3> QED BY <2>1, <3>1, <1>3, <1>4, <1>5
  <2>2. CASE d.session # s
    <3>1. d \in decisions /\ d.session \in Session \ {s}
      BY <2>2, <1>7 DEF Speaks
    <3>2. CallsOf(d.session)' = CallsOf(d.session)
      BY <1>2, <3>1
    <3> QED BY <3>1, <3>2 DEF LoyalInv, OneProvider
  <2> QED BY <2>1, <2>2
<1> QED BY <1>7, <1>8, <1>9 DEF LoyalInv

\* A step that leaves calls and decisions as they are.
LEMMA SilenceIsLoyal ==
  ASSUME LoyalInv, TypeOK', UNCHANGED <<calls, decisions>>, \A s \in Session : Keeps(s)
  PROVE  LoyalInv'
<1>1. \A s \in Session : CallsOf(s)' = CallsOf(s) /\ DecisionsOf(s)' = DecisionsOf(s)
  BY DEF CallsOf, DecisionsOf
<1>2. \A s \in Session : Loyal(s)'
  BY <1>1 DEF Loyal, LoyalInv, Running, Keeps, Ended
<1>3. OneProvider'
  BY <1>1 DEF OneProvider, LoyalInv
<1> QED BY <1>2, <1>3 DEF LoyalInv

-----------------------------------------------------------------------------
(* How the actions change a cycle. *)

\* The records of the cycles are used through these facts alone.
LEMMA Fields ==
  ASSUME NEW c \in Cycle, NEW p \in Places
  PROVE  /\ [c EXCEPT !.pc = p] \in Cycle
         /\ [c EXCEPT !.pc = p].pc = p
         /\ [c EXCEPT !.pc = p].provider = c.provider
BY DEF Cycle

LEMMA OffIsACycle == Off \in Cycle /\ Off.pc = "off" /\ Done \in Cycle /\ Done.pc = "done"
BY DEF Off, Done, Cycle, Places, Ended, ProposalSet, TradingStates

LEMMA BrokenIsOver ==
  ASSUME TypeOK, NEW s \in Session
  PROVE  /\ Broken(s) \in Cycle
         /\ Broken(s).pc \in Ended
         /\ Broken(s).pc = "off" <=> cycle[s].pc = "off"
<1>1. cycle[s].pc \in Places
  BY DEF TypeOK, Cycle
<1> DEFINE p == CASE cycle[s].pc = "off" -> "off"
                  [] cycle[s].pc \in Handling \cup {"dead"} -> "dead"
                  [] OTHER -> "done"
<1>2. p \in Ended /\ p \in Places /\ (p = "off" <=> cycle[s].pc = "off")
  BY <1>1 DEF Ended, Places, Handling
<1>3. Broken(s) = [Off EXCEPT !.pc = p]
  BY DEF Broken
<1> HIDE DEF p
<1> QED BY <1>2, <1>3, OffIsACycle, Fields

LEMMA GoesKeeps ==
  ASSUME TypeOK, NEW s \in Session, Running(s), NEW p \in Places \ Ended, Goes(s, p)
  PROVE  /\ cycle' \in [Session -> Cycle]
         /\ Keeps(s)
         /\ \A t \in Session \ {s} : cycle'[t] = cycle[t] /\ Keeps(t)
<1>1. cycle[s] \in Cycle
  BY DEF TypeOK
<1>2. cycle' = [cycle EXCEPT ![s] = [cycle[s] EXCEPT !.pc = p]]
  BY DEF Goes
<1>3. [cycle[s] EXCEPT !.pc = p] \in Cycle
  BY <1>1, Fields
<1>4. cycle'[s] = [cycle[s] EXCEPT !.pc = p]
  BY <1>2 DEF TypeOK
<1>5. cycle'[s].pc = p /\ cycle'[s].provider = cycle[s].provider
  BY <1>1, <1>4, Fields
<1>6. Keeps(s)
  BY <1>5 DEF Keeps, Running
<1> QED BY <1>2, <1>3, <1>6 DEF TypeOK, Keeps

\* The other changes of one cycle.
LEMMA BecomesKeeps ==
  ASSUME TypeOK, NEW s \in Session, NEW c \in Cycle, cycle' = [cycle EXCEPT ![s] = c],
         \/ c.pc \in {"done", "dead"}
         \/ cycle[s].pc = "off" /\ c.pc \in Places /\ c.provider \in Provider \ ReadOnly
         \/ Running(s) /\ c.pc \notin Ended /\ c.provider = cycle[s].provider
  PROVE  /\ cycle' \in [Session -> Cycle]
         /\ Keeps(s)
         /\ \A t \in Session \ {s} : cycle'[t] = cycle[t] /\ Keeps(t)
<1>1. cycle'[s] = c
  BY DEF TypeOK
<1>2. Keeps(s)
  BY <1>1 DEF Keeps, Running
<1> QED BY <1>1, <1>2 DEF TypeOK, Keeps

LEMMA ReturnsKeeps ==
  ASSUME TypeOK, NEW s \in Session, Running(s), NEW proposal, NEW ok, Returns(s, proposal, ok)
  PROVE  /\ cycle' \in [Session -> Cycle]
         /\ Keeps(s) /\ cycle'[s].pc \in {"talking", "acting"}
         /\ \A t \in Session \ {s} : cycle'[t] = cycle[t] /\ Keeps(t)
<1> DEFINE p == IF proposal.last THEN "talking" ELSE "acting"
           n == IF proposal.last THEN MaxTurns ELSE cycle[s].turn
           v == IF proposal.last THEN "active" ELSE cycle[s].view
           c == [cycle[s] EXCEPT !.pc = p, !.turn = n, !.view = v, !.proposal = NoProposal]
<1>1. cycle[s] \in Cycle
  BY DEF TypeOK
<1>2. /\ p \in Places \ Ended /\ n \in Nat /\ v \in TradingStates /\ NoProposal \in ProposalSet
      /\ p \in {"talking", "acting"}
  BY <1>1, ResearchAssumption DEF Places, Ended, Handling, TradingStates, ProposalSet, Cycle
<1>3. cycle' = [cycle EXCEPT ![s] = c]
  BY DEF Returns
<1> HIDE DEF p, n, v
<1>4. c \in Cycle /\ c.pc = p /\ c.provider = cycle[s].provider
  BY <1>1, <1>2 DEF Cycle
<1> HIDE DEF c
<1>5. cycle'[s] = c
  BY <1>3 DEF TypeOK
<1> QED BY <1>2, <1>3, <1>4, <1>5, BecomesKeeps

LEMMA CallSpeaks ==
  ASSUME NEW s, NEW tool, NEW symbol, NEW ok, NEW data,
         calls' = calls \cup {Call(s, tool, symbol, ok, data)},
         UNCHANGED decisions
  PROVE  Speaks(s)
BY DEF Speaks, Call

LEMMA DecisionSpeaks ==
  ASSUME NEW s, NEW proposal, NEW outcome,
         decisions' = decisions \cup {Decision(s, proposal, outcome)},
         \/ UNCHANGED calls
         \/ \E tool, symbol, ok, data : calls' = calls \cup {Call(s, tool, symbol, ok, data)}
  PROVE  Speaks(s)
BY DEF Speaks, Call, Decision

-----------------------------------------------------------------------------
(* The actions. *)

\* An action that says nothing, of one cycle.
LEMMA OneIsSilent ==
  ASSUME LoyalInv, NEW s \in Session, cycle' \in [Session -> Cycle], Keeps(s),
         \A t \in Session \ {s} : Keeps(t), UNCHANGED <<calls, decisions>>,
         state' \in TradingStates, healthy' \subseteq Provider
  PROVE  LoyalInv'
<1>1. TypeOK'
  BY DEF TypeOK
<1> QED BY <1>1, SilenceIsLoyal

\* An action that calls a tool or decides.
LEMMA OneSpeaks ==
  ASSUME LoyalInv, NEW s \in Session, Running(s), cycle' \in [Session -> Cycle], Keeps(s),
         \A t \in Session \ {s} : cycle'[t] = cycle[t], Speaks(s), UNCHANGED <<routerVars, state>>
  PROVE  LoyalInv'
<1>1. TypeOK'
  BY DEF TypeOK, LoyalInv, routerVars
<1> QED BY <1>1, SpeakingIsLoyal

LEMMA InitLoyal == ASSUME Init PROVE LoyalInv
<1>1. state \in TradingStates /\ healthy \subseteq Provider /\ cycle \in [Session -> Cycle]
  BY OffIsACycle DEF Init, RouterInit, TradingStates
<1>2. \A s \in Session : cycle[s].pc = "off" /\ CallsOf(s) = {} /\ DecisionsOf(s) = {}
  BY OffIsACycle DEF Init, CallsOf, DecisionsOf
<1> QED BY <1>1, <1>2 DEF LoyalInv, TypeOK, Loyal, Running, Ended, OneProvider, Init

LEMMA BindLoyal ==
  ASSUME LoyalInv, NEW s \in Session, Bind(s)
  PROVE  LoyalInv'
<1> DEFINE c == [Off EXCEPT !.pc = "bound", !.provider = active]
<1>1. cycle[s].pc = "off" /\ active \in Provider \ ReadOnly
  BY DEF Bind, LoyalInv, TypeOK
<1>2. c \in Cycle /\ c.pc = "bound" /\ c.provider = active
  BY <1>1, OffIsACycle DEF Off, Cycle, Places
<1>3. cycle' = [cycle EXCEPT ![s] = c]
  BY DEF Bind
<1> HIDE DEF c
<1>4. "bound" \in Places /\ TypeOK
  BY DEF Places, LoyalInv
<1>5. /\ cycle' \in [Session -> Cycle] /\ Keeps(s)
      /\ \A t \in Session \ {s} : cycle'[t] = cycle[t] /\ Keeps(t)
  BY <1>1, <1>2, <1>3, <1>4, BecomesKeeps
<1>6. UNCHANGED <<calls, decisions, state, healthy>>
  BY DEF Bind, routerVars, tables
<1> QED BY <1>5, <1>6, <1>4, OneIsSilent DEF TypeOK

\* The end of a cycle, whichever way.
LEMMA EndKeeps ==
  ASSUME TypeOK, NEW s \in Session, cycle' = [cycle EXCEPT ![s] = Done]
  PROVE  /\ cycle' \in [Session -> Cycle]
         /\ Keeps(s)
         /\ \A t \in Session \ {s} : cycle'[t] = cycle[t] /\ Keeps(t)
BY OffIsACycle, BecomesKeeps

LEMMA OpenLoyal ==
  ASSUME LoyalInv, NEW s \in Session, NEW selected, NEW closes, NEW is_open,
         Open(s, selected, closes, is_open)
  PROVE  LoyalInv'
<1>1. TypeOK /\ Running(s) /\ "talking" \in Places \ Ended
  BY DEF LoyalInv, Open, Running, Ended, Places
<1>2. Goes(s, "talking") \/ cycle' = [cycle EXCEPT ![s] = Done]
  BY DEF Open
<1>3. /\ cycle' \in [Session -> Cycle] /\ Keeps(s)
      /\ \A t \in Session \ {s} : Keeps(t)
  BY <1>1, <1>2, GoesKeeps, EndKeeps
<1>4. UNCHANGED <<calls, decisions, state, healthy>>
  BY DEF Open, routerVars, tables
<1> QED BY <1>1, <1>3, <1>4, OneIsSilent DEF TypeOK

LEMMA TalkLoyal ==
  ASSUME LoyalInv, NEW s \in Session, Answer(s) \/ EndTurn(s)
  PROVE  LoyalInv'
<1> DEFINE p == IF Answer(s) THEN "acting" ELSE "talking"
           n == IF Answer(s) THEN cycle[s].turn + 1 ELSE cycle[s].turn
           v == IF Answer(s) THEN state ELSE "active"
           c == [cycle[s] EXCEPT !.pc = p, !.turn = n, !.view = v]
<1>1. TypeOK /\ Running(s) /\ cycle[s] \in Cycle
  BY DEF LoyalInv, Answer, EndTurn, Running, Ended, TypeOK
<1>2. p \in Places \ Ended /\ n \in Nat /\ v \in TradingStates
  BY <1>1 DEF Places, Ended, Cycle, TypeOK, TradingStates
<1>3. cycle' = [cycle EXCEPT ![s] = c]
  <2>1. CASE Answer(s)
    BY <2>1, <1>1 DEF Answer, TypeOK, Cycle
  <2>2. CASE ~ Answer(s)
    <3>1. cycle' = [cycle EXCEPT ![s].pc = "talking", ![s].view = "active"]
      BY <2>2 DEF EndTurn
    <3>2. [cycle[s] EXCEPT !.pc = "talking", !.view = "active"] = c
      BY <2>2, <1>1 DEF Cycle
    <3> QED BY <3>1, <3>2
  <2> QED BY <2>1, <2>2
<1> HIDE DEF p, n, v
<1>4. c \in Cycle /\ c.pc = p /\ c.provider = cycle[s].provider
  BY <1>1, <1>2 DEF Cycle
<1> HIDE DEF c
<1>5. /\ cycle' \in [Session -> Cycle] /\ Keeps(s)
      /\ \A t \in Session \ {s} : Keeps(t)
  BY <1>1, <1>2, <1>3, <1>4, BecomesKeeps
<1>6. UNCHANGED <<calls, decisions, state, healthy>>
  BY DEF Answer, EndTurn, routerVars, tables
<1> QED BY <1>1, <1>5, <1>6, OneIsSilent DEF TypeOK

LEMMA ReportLoyal ==
  ASSUME LoyalInv, NEW s \in Session, EndCycle(s) \/ ModelFails(s)
  PROVE  LoyalInv'
<1>1. TypeOK /\ Running(s) /\ cycle' = [cycle EXCEPT ![s] = Done]
  BY DEF LoyalInv, EndCycle, ModelFails, Running, Ended
<1>2. cycle[s].provider \in Provider
  BY <1>1 DEF LoyalInv, Loyal
<1>3. healthy' \subseteq Provider
  <2>1. healthy' \in {healthy, healthy \ {cycle[s].provider}, healthy \cup {cycle[s].provider}}
    BY DEF EndCycle, ModelFails, RecordSuccess, RecordError
  <2> QED BY <2>1, <1>1, <1>2 DEF TypeOK
<1>4. UNCHANGED <<calls, decisions, state>>
  BY DEF EndCycle, ModelFails, tables
<1> QED BY <1>1, <1>3, <1>4, EndKeeps, OneIsSilent DEF TypeOK

LEMMA ToolLoyal ==
  ASSUME LoyalInv, NEW s \in Session, NEW tool, NEW symbol, NEW data,
         Read(s, tool, symbol, data) \/ ToolFails(s, tool, symbol)
  PROVE  LoyalInv'
<1>1. TypeOK /\ Running(s) /\ UNCHANGED <<routerVars, state, cycle, decisions>>
  BY DEF LoyalInv, Read, ToolFails, Running, Ended
<1>2. Speaks(s)
  BY <1>1, CallSpeaks DEF Read, ToolFails
<1> QED BY <1>1, <1>2, OneSpeaks DEF TypeOK, Keeps

LEMMA ProposeLoyal ==
  ASSUME LoyalInv, NEW s \in Session, Running(s), NEW seen, NEW cited,
         NEW proposal \in ProposalSet, Propose(s, seen, proposal, cited)
  PROVE  LoyalInv'
<1>1. TypeOK /\ UNCHANGED <<routerVars, state>>
  BY DEF LoyalInv, Propose
<1>2. ASSUME NEW outcome, decisions' = decisions \cup {Decision(s, proposal, outcome)},
             Returns(s, proposal, TRUE)
      PROVE  LoyalInv'
  <2>1. Speaks(s)
    BY <1>2, DecisionSpeaks DEF Returns
  <2> QED BY <1>1, <1>2, <2>1, ReturnsKeeps, OneSpeaks
<1>3. CASE cycle' = [cycle EXCEPT ![s].pc = "judging", ![s].proposal = proposal]
           /\ UNCHANGED <<calls, decisions>>
  <2> DEFINE c == [cycle[s] EXCEPT !.pc = "judging", !.proposal = proposal]
  <2>1. cycle[s] \in Cycle /\ "judging" \in Places \ Ended
    BY <1>1 DEF TypeOK, Places, Ended, Handling
  <2>2. c \in Cycle /\ c.pc = "judging" /\ c.provider = cycle[s].provider
    BY <2>1 DEF Cycle
  <2>3. cycle' = [cycle EXCEPT ![s] = c]
    BY <1>3
  <2> HIDE DEF c
  <2> QED BY <1>1, <1>3, <2>1, <2>2, <2>3, BecomesKeeps, OneSpeaks DEF Speaks
<1> QED BY <1>2, <1>3 DEF Propose

LEMMA ProposalsAreTyped ==
  ASSUME NEW last \in BOOLEAN, NEW proposal \in Proposals(last)
  PROVE  proposal \in ProposalSet
BY DEF Proposals, ProposalSet

LEMMA JudgeLoyal ==
  ASSUME LoyalInv, NEW s \in Session, NEW outcome \in {"risk_rejected", "awaiting_approval", "executed"},
         Judge(s, outcome)
  PROVE  LoyalInv'
<1>1. /\ TypeOK /\ Running(s) /\ UNCHANGED <<routerVars, state>>
      /\ decisions' = decisions \cup {Decision(s, cycle[s].proposal, outcome)}
      /\ {"asking", "executing"} \subseteq Places \ Ended
  BY DEF LoyalInv, Judge, Running, Ended, Places, Handling
<1>2. CASE Returns(s, cycle[s].proposal, TRUE)
  BY <1>1, <1>2, DecisionSpeaks, ReturnsKeeps, OneSpeaks DEF Returns
<1>3. CASE \E p \in {"asking", "executing"} : Goes(s, p) /\ UNCHANGED calls
  BY <1>1, <1>3, DecisionSpeaks, GoesKeeps, OneSpeaks
<1> QED BY <1>2, <1>3 DEF Judge

LEMMA HandleLoyal ==
  ASSUME LoyalInv, NEW s \in Session, NEW how,
         JudgeUnreachable(s) \/ Ask(s) \/ Submit(s, how)
  PROVE  LoyalInv'
<1>1. TypeOK /\ Running(s) /\ UNCHANGED <<routerVars, state, decisions>>
  BY DEF LoyalInv, JudgeUnreachable, Ask, Submit, Running, Ended
<1>2. ASSUME NEW ok \in BOOLEAN, Returns(s, cycle[s].proposal, ok)
      PROVE  LoyalInv'
  <2>1. Speaks(s)
    BY <1>1, <1>2, CallSpeaks DEF Returns
  <2> QED BY <1>1, <1>2, <2>1, ReturnsKeeps, OneSpeaks
<1>3. CASE Goes(s, "failing") /\ UNCHANGED calls
  <2>1. "failing" \in Places \ Ended /\ Speaks(s)
    BY <1>1, <1>3 DEF Places, Ended, Handling, Speaks
  <2> QED BY <1>1, <1>3, <2>1, GoesKeeps, OneSpeaks
<1> QED BY <1>2, <1>3 DEF JudgeUnreachable, Ask, Submit

LEMMA FailLoyal ==
  ASSUME LoyalInv, NEW s \in Session, Fail(s)
  PROVE  LoyalInv'
<1>1. TypeOK /\ Running(s) /\ UNCHANGED <<routerVars, state>> /\ Returns(s, cycle[s].proposal, TRUE)
  BY DEF LoyalInv, Fail, Running, Ended
<1>2. Speaks(s)
  <2>1. \A d \in decisions' : \/ d \in decisions
                              \/ \E e \in Current(s) : d = [e EXCEPT !.outcome = "order_failed"]
    BY DEF Fail
  <2>2. \A e \in Current(s) : e.session = s /\ e.provider = cycle[s].provider
    BY <1>1 DEF Current, LoyalInv, Loyal, DecisionsOf
  <2>3. \A e : /\ [e EXCEPT !.outcome = "order_failed"].session = e.session
               /\ [e EXCEPT !.outcome = "order_failed"].provider = e.provider
    OBVIOUS
  <2> QED BY <1>1, <2>1, <2>2, <2>3 DEF Speaks, Returns, Call
<1> QED BY <1>1, <1>2, ReturnsKeeps, OneSpeaks

LEMMA AbortLoyal ==
  ASSUME LoyalInv, NEW s \in Session, Abort(s)
  PROVE  LoyalInv'
<1>1. TypeOK /\ Broken(s) \in Cycle /\ Broken(s).pc \in {"done", "dead"}
  BY BrokenIsOver DEF LoyalInv, Abort, Ended
<1>2. cycle' = [cycle EXCEPT ![s] = Broken(s)] /\ UNCHANGED <<calls, decisions, state, healthy>>
  BY DEF Abort, routerVars, tables
<1>3. /\ cycle' \in [Session -> Cycle] /\ Keeps(s)
      /\ \A t \in Session \ {s} : Keeps(t)
  BY <1>1, <1>2, BecomesKeeps
<1> QED BY <1>1, <1>2, <1>3, OneIsSilent DEF TypeOK

LEMMA OutsideLoyal ==
  ASSUME LoyalInv,
         Router \/ Restart \/ \E to \in {"active", "winding_down", "halted"} : ChangeState(to)
  PROVE  LoyalInv'
<1>1. UNCHANGED <<calls, decisions>> /\ state' \in TradingStates /\ healthy' \subseteq Provider
  BY DEF Router, RouterNext, Switch, LogSwitch, OtherProcessSwitches, FollowSwitch, Restart,
         RouterRestart, ChangeState, LoyalInv, TypeOK, TradingStates, tables, routerVars
<1>2. cycle' \in [Session -> Cycle] /\ \A s \in Session : Keeps(s)
  <2>1. CASE UNCHANGED cycle
    BY <2>1 DEF Keeps, LoyalInv, TypeOK
  <2>2. CASE cycle' = [s \in Session |-> Broken(s)]
    BY <2>2, BrokenIsOver DEF Keeps, LoyalInv, Ended
  <2> QED BY <2>1, <2>2 DEF Router, Restart, ChangeState
<1>3. TypeOK'
  BY <1>1, <1>2 DEF TypeOK
<1> QED BY <1>1, <1>2, <1>3, SilenceIsLoyal

LEMMA NextLoyal ==
  ASSUME LoyalInv, [Next]_vars
  PROVE  LoyalInv'
<1>1. CASE UNCHANGED vars
  BY <1>1, SilenceIsLoyal
     DEF vars, tables, routerVars, LoyalInv, TypeOK, Keeps
<1>2. ASSUME NEW s \in Session, Talks(s) PROVE LoyalInv'
  BY <1>2, BindLoyal, OpenLoyal, TalkLoyal, ReportLoyal DEF Talks
<1>3. ASSUME NEW s \in Session, Calls(s) PROVE LoyalInv'
  <2>1. ASSUME NEW seen, NEW proposal, NEW cited, NEW last \in BOOLEAN,
               proposal \in Proposals(last), Running(s), Propose(s, seen, proposal, cited)
        PROVE  LoyalInv'
    BY <2>1, ProposeLoyal, ProposalsAreTyped
  <2>2. ASSUME NEW tool, NEW symbol, NEW data, Read(s, tool, symbol, data) PROVE LoyalInv'
    BY <2>2, ToolLoyal
  <2>3. ASSUME NEW tool, NEW symbol, ToolFails(s, tool, symbol) PROVE LoyalInv'
    BY <2>3, ToolLoyal
  <2>4. ASSUME NEW seen, NEW proposal \in Proposals(FALSE), NEW cited,
               ProposeByCall(s, seen, proposal, cited)
        PROVE  LoyalInv'
    BY <2>4, <2>1 DEF ProposeByCall, Running, Ended
  <2>5. ASSUME NEW named, NEW proposal \in Proposals(TRUE), ProposeByText(s, named, proposal)
        PROVE  LoyalInv'
    BY <2>5, <2>1 DEF ProposeByText, Running, Ended
  <2> QED BY <1>3, <2>2, <2>3, <2>4, <2>5 DEF Calls
<1>4. ASSUME NEW s \in Session, Handles(s) PROVE LoyalInv'
  BY <1>4, JudgeLoyal, HandleLoyal, FailLoyal DEF Handles
<1> QED BY <1>1, <1>2, <1>3, <1>4, AbortLoyal, OutsideLoyal DEF Next

-----------------------------------------------------------------------------

\* The provider that made the calls of a cycle is the one its decisions are logged
\* with, and one that may write, for any number of cycles, providers, switches,
\* failures and restarts (runner.py binds it once; gateway.py hands it on).
THEOREM ResearchOneProvider == Spec => []OneProvider
<1>1. Init => LoyalInv
  BY InitLoyal
<1>2. LoyalInv /\ [Next]_vars => LoyalInv'
  BY NextLoyal
<1>3. LoyalInv => OneProvider
  BY DEF LoyalInv
<1> QED BY <1>1, <1>2, <1>3, PTL DEF Spec

-----------------------------------------------------------------------------
(* What the log of a cycle says of its evidence and of its orders.  Both    *)
(* rest on numbering: the calls of a cycle are numbered as they come, and a *)
(* decision has the number of the call it is made in, so that at most one   *)
(* is current.                                                              *)

Accepted == {"awaiting_approval", "executed", "order_failed"}

\* Each claim was reported to the cycle, by a call that is evidence for it.
Evidence(s, order, claims) ==
  \A claim \in claims :
    \E c \in CallsOf(s) :
      /\ c.ok /\ c.tool \in NUMERIC_EVIDENCE_TOOLS
      /\ \E r \in c.data : r.about \in {Account, order.symbol} /\ Found(claim, {r.n})

\* The number of the next call, which is that of the current decision.
NextN(s) == Cardinality(CallsOf(s)) + 1

Numbered(s) ==
  /\ IsFiniteSet(CallsOf(s))
  /\ \A c \in CallsOf(s) : c.n \in Nat /\ c.n < NextN(s)
  /\ \A d \in DecisionsOf(s) : d.n \in Nat /\ d.n <= NextN(s)

Undecided == {"bound", "talking", "acting", "judging"}

Decided == {"asking", "executing", "failing"}

\* What is current in a cycle.
Currently(s) ==
  /\ cycle[s].pc \in Undecided => Current(s) = {}
  /\ cycle[s].pc \in Handling =>
       /\ cycle[s].proposal.order \in Order
       /\ Evidence(s, cycle[s].proposal.order, cycle[s].proposal.claims)
  /\ cycle[s].pc \in Decided =>
       \A d \in Current(s) :
         /\ d.order = cycle[s].proposal.order /\ d.claims = cycle[s].proposal.claims
         /\ d.outcome = IF cycle[s].pc = "asking" THEN "awaiting_approval" ELSE "executed"

EvidenceInv ==
  /\ LoyalInv
  /\ \A s \in Session : Numbered(s) /\ Currently(s)
  /\ EvidenceIsOwn

\* At most one call is added, and it has the next number.
AddsCall(s) == \E tool, symbol, ok, data : calls' = calls \cup {Call(s, tool, symbol, ok, data)}

Grows(s) == UNCHANGED calls \/ AddsCall(s)

-----------------------------------------------------------------------------
(* Numbers.                                                                *)

LEMMA CallIs ==
  ASSUME NEW s, NEW tool, NEW symbol, NEW ok, NEW data
  PROVE  /\ Call(s, tool, symbol, ok, data).session = s
         /\ Call(s, tool, symbol, ok, data).n = NextN(s)
BY DEF Call, NextN

LEMMA NextIsNat ==
  ASSUME NEW s, Numbered(s)
  PROVE  NextN(s) \in Nat /\ Cardinality(CallsOf(s)) \in Nat
<1>1. Cardinality(CallsOf(s)) \in Nat
  BY FS_CardinalityType DEF Numbered
<1> QED
  BY <1>1 DEF NextN

LEMMA CallAdded ==
  ASSUME NEW s, Numbered(s), AddsCall(s)
  PROVE  /\ calls \subseteq calls'
         /\ \A t : t # s => CallsOf(t)' = CallsOf(t)
         /\ IsFiniteSet(CallsOf(s)')
         /\ NextN(s)' = NextN(s) + 1
         /\ \A c \in CallsOf(s)' : c.n \in Nat /\ c.n < NextN(s)'
<1>1. PICK c : calls' = calls \cup {c} /\ c.session = s /\ c.n = NextN(s)
  BY CallIs DEF AddsCall
<1>2. CallsOf(s)' = CallsOf(s) \cup {c} /\ \A t : t # s => CallsOf(t)' = CallsOf(t)
  BY <1>1 DEF CallsOf
<1>3. NextN(s) \in Nat /\ Cardinality(CallsOf(s)) \in Nat
  BY NextIsNat
<1>4. c \notin CallsOf(s)
  BY <1>1, <1>3 DEF Numbered
<1>5. IsFiniteSet(CallsOf(s)') /\ Cardinality(CallsOf(s)') = Cardinality(CallsOf(s)) + 1
  BY <1>2, <1>4, FS_AddElement DEF Numbered
<1>6. NextN(s)' = NextN(s) + 1
  BY <1>5 DEF NextN
<1>7. \A b \in CallsOf(s)' : b.n \in Nat /\ b.n < NextN(s)'
  BY <1>1, <1>2, <1>3, <1>6 DEF Numbered
<1> QED
  BY <1>1, <1>2, <1>5, <1>6, <1>7

LEMMA GrowsIs ==
  ASSUME NEW s, Numbered(s), Grows(s)
  PROVE  /\ calls \subseteq calls'
         /\ \A t : t # s => CallsOf(t)' = CallsOf(t)
         /\ IsFiniteSet(CallsOf(s)')
         /\ NextN(s)' \in Nat /\ NextN(s) <= NextN(s)'
         /\ \A c \in CallsOf(s)' : c.n \in Nat /\ c.n < NextN(s)'
<1>1. NextN(s) \in Nat
  BY NextIsNat
<1>2. CASE AddsCall(s)
  BY <1>1, <1>2, CallAdded
<1>3. CASE UNCHANGED calls
  <2>1. \A t : CallsOf(t)' = CallsOf(t)
    BY <1>3 DEF CallsOf
  <2>2. NextN(s)' = NextN(s)
    BY <2>1 DEF NextN
  <2> QED
    BY <1>1, <1>3, <2>1, <2>2 DEF Numbered
<1> QED
  BY <1>2, <1>3 DEF Grows

\* A call that comes back is not current any more, nor is its decision.
LEMMA NothingCurrent ==
  ASSUME NEW s, Numbered(s), AddsCall(s),
         \A d \in decisions' : d \in decisions \/ d.session # s \/ d.n = NextN(s)
  PROVE  Current(s)' = {}
<1>1. NextN(s) \in Nat /\ NextN(s)' = NextN(s) + 1
  BY NextIsNat, CallAdded
<1>2. \A d \in decisions' : d.session = s => d.n \in Nat /\ d.n <= NextN(s)
  BY <1>1 DEF Numbered, DecisionsOf
<1>3. \A d \in decisions' : d.session = s => d.n # NextN(s)'
  BY <1>1, <1>2
<1> QED
  BY <1>3 DEF Current, NextN

\* Evidence is never lost.
LEMMA EvidenceStays ==
  ASSUME NEW s, NEW order, NEW claims, Evidence(s, order, claims), calls \subseteq calls'
  PROVE  Evidence(s, order, claims)'
BY DEF Evidence, CallsOf

-----------------------------------------------------------------------------
(* What the check of numbers finds.                                        *)

LEMMA FoundIn ==
  ASSUME NEW claim, NEW haystack, Found(claim, haystack)
  PROVE  \E n \in haystack : Found(claim, {n})
BY DEF Found

LEMMA NarrowedIs ==
  ASSUME NEW c, NEW symbol, NEW n \in Narrowed(c, symbol)
  PROVE  \E r \in c.data : r.about \in {Account, symbol} /\ r.n = n
BY DEF Narrowed

LEMMA GroundedIs ==
  ASSUME NEW s, NEW proposal, NEW cited \in SUBSET calls, Grounded(s, proposal, cited)
  PROVE  Evidence(s, proposal.order, proposal.claims)
<1> SUFFICES ASSUME NEW claim \in proposal.claims
             PROVE  \E c \in CallsOf(s) :
                      /\ c.ok /\ c.tool \in NUMERIC_EVIDENCE_TOOLS
                      /\ \E r \in c.data : /\ r.about \in {Account, proposal.order.symbol}
                                           /\ Found(claim, {r.n})
  BY DEF Evidence
<1>1. Missing(s, cited) = {} /\ Found(claim, Haystack(s, proposal.order.symbol, cited))
  BY DEF Grounded
<1>2. PICK n \in Haystack(s, proposal.order.symbol, cited) : Found(claim, {n})
  BY <1>1, FoundIn
<1>3. PICK c \in cited : /\ c.tool \in NUMERIC_EVIDENCE_TOOLS /\ c.ok
                         /\ n \in Narrowed(c, proposal.order.symbol)
  BY <1>2 DEF Haystack
<1>4. c \in CallsOf(s)
  BY <1>1, <1>3 DEF Missing, CallsOf
<1>5. PICK r \in c.data : r.about \in {Account, proposal.order.symbol} /\ r.n = n
  BY <1>3, NarrowedIs
<1> QED
  BY <1>2, <1>3, <1>4, <1>5

-----------------------------------------------------------------------------
(* The steps.                                                              *)

LEMMA CurrentStays ==
  ASSUME NEW s, Currently(s), CallsOf(s)' = CallsOf(s), cycle'[s] = cycle[s],
         Current(s)' \subseteq Current(s)
  PROVE  Currently(s)'
<1>1. cycle[s].pc \in Undecided => Current(s)' = {}
  BY DEF Currently
<1>2. ASSUME cycle[s].pc \in Handling
      PROVE  cycle[s].proposal.order \in Order
             /\ Evidence(s, cycle[s].proposal.order, cycle[s].proposal.claims)'
  <2>1. cycle[s].proposal.order \in Order
        /\ Evidence(s, cycle[s].proposal.order, cycle[s].proposal.claims)
    BY <1>2 DEF Currently
  <2> QED
    BY <2>1 DEF Evidence
<1>3. ASSUME cycle[s].pc \in Decided, NEW d \in Current(s)'
      PROVE  /\ d.order = cycle[s].proposal.order /\ d.claims = cycle[s].proposal.claims
             /\ d.outcome = IF cycle[s].pc = "asking" THEN "awaiting_approval" ELSE "executed"
  BY <1>3 DEF Currently
<1> QED
  BY <1>1, <1>2, <1>3 DEF Currently, Evidence

\* A step of one cycle: what it adds is its own and is backed.
Adds(s) ==
  \A d \in decisions' :
    \/ d \in decisions
    \/ /\ d.session = s /\ d.n = NextN(s)
       /\ d.outcome \in Accepted => Evidence(s, d.order, d.claims)

LEMMA StepKept ==
  ASSUME EvidenceInv, LoyalInv', NEW s \in Session, Grows(s), Adds(s), Currently(s)',
         \A t \in Session \ {s} : cycle'[t] = cycle[t]
  PROVE  EvidenceInv'
<1>1. Numbered(s) /\ \A d \in decisions : d.session \in Session
  BY DEF EvidenceInv, LoyalInv
<1>2. /\ calls \subseteq calls'
      /\ \A t : t # s => CallsOf(t)' = CallsOf(t)
      /\ IsFiniteSet(CallsOf(s)')
      /\ NextN(s)' \in Nat /\ NextN(s) <= NextN(s)'
      /\ \A c \in CallsOf(s)' : c.n \in Nat /\ c.n < NextN(s)'
  BY <1>1, GrowsIs
<1>3. NextN(s) \in Nat
  BY <1>1, NextIsNat
<1>4. Numbered(s)'
  <2>1. ASSUME NEW d \in DecisionsOf(s)'
        PROVE  d.n \in Nat /\ d.n <= NextN(s)'
    <3>1. d \in DecisionsOf(s) \/ d.n = NextN(s)
      BY DEF DecisionsOf, Adds
    <3>2. d.n \in Nat /\ d.n <= NextN(s)
      BY <1>1, <1>3, <3>1 DEF Numbered
    <3> QED
      BY <1>2, <1>3, <3>2
  <2> QED
    BY <1>2, <2>1 DEF Numbered
<1>5. ASSUME NEW t \in Session, t # s
      PROVE  Numbered(t)' /\ Currently(t)'
  <2>1. /\ CallsOf(t)' = CallsOf(t) /\ NextN(t)' = NextN(t) /\ cycle'[t] = cycle[t]
        /\ DecisionsOf(t)' \subseteq DecisionsOf(t) /\ Current(t)' \subseteq Current(t)
    BY <1>2, <1>5 DEF NextN, DecisionsOf, Current, Adds
  <2>2. Numbered(t) /\ Currently(t)
    BY DEF EvidenceInv
  <2>3. Numbered(t)'
    BY <2>1, <2>2 DEF Numbered
  <2>4. Currently(t)'
    BY <2>1, <2>2, CurrentStays
  <2> QED
    BY <2>3, <2>4
<1>6. EvidenceIsOwn'
  <2> SUFFICES ASSUME NEW d \in decisions', d.outcome \in Accepted, NEW claim \in d.claims
               PROVE  \E c \in calls' :
                        /\ c.session = d.session /\ c.ok /\ c.tool \in NUMERIC_EVIDENCE_TOOLS /\ c.n < d.n
                        /\ \E r \in c.data : r.about \in {Account, d.order.symbol} /\ Found(claim, {r.n})
    BY DEF EvidenceIsOwn, Accepted
  <2>1. CASE d \in decisions
    <3>1. PICK c \in calls :
            /\ c.session = d.session /\ c.ok /\ c.tool \in NUMERIC_EVIDENCE_TOOLS /\ c.n < d.n
            /\ \E r \in c.data : r.about \in {Account, d.order.symbol} /\ Found(claim, {r.n})
      BY <2>1 DEF EvidenceInv, EvidenceIsOwn, Accepted
    <3> QED
      BY <1>2, <3>1
  <2>2. CASE d.session = s /\ d.n = NextN(s) /\ Evidence(s, d.order, d.claims)
    <3>1. PICK c \in CallsOf(s) :
            /\ c.ok /\ c.tool \in NUMERIC_EVIDENCE_TOOLS
            /\ \E r \in c.data : r.about \in {Account, d.order.symbol} /\ Found(claim, {r.n})
      BY <2>2 DEF Evidence
    <3>2. c.n < d.n /\ c.session = s /\ c \in calls
      BY <1>1, <2>2 DEF Numbered, CallsOf
    <3> QED
      BY <1>2, <2>2, <3>1, <3>2
  <2> QED
    BY <2>1, <2>2 DEF Adds
<1> QED
  BY <1>4, <1>5, <1>6 DEF EvidenceInv

\* A step that leaves the tables of calls and decisions alone.
LEMMA QuietKept ==
  ASSUME EvidenceInv, LoyalInv', UNCHANGED <<calls, decisions>>,
         \A s \in Session : cycle'[s] = cycle[s] \/ Currently(s)'
  PROVE  EvidenceInv'
<1>1. \A s : CallsOf(s)' = CallsOf(s) /\ DecisionsOf(s)' = DecisionsOf(s)
  BY DEF CallsOf, DecisionsOf
<1>2. \A s : NextN(s)' = NextN(s)
  BY <1>1 DEF NextN
<1>3. \A s : Current(s)' = Current(s)
  BY <1>2 DEF Current, NextN
<1>4. ASSUME NEW s \in Session
      PROVE  Numbered(s)' /\ Currently(s)'
  <2>1. Numbered(s)'
    BY <1>1, <1>2 DEF EvidenceInv, Numbered
  <2>2. CASE cycle'[s] = cycle[s]
    <3>1. /\ Currently(s) /\ CallsOf(s)' = CallsOf(s) /\ cycle'[s] = cycle[s]
          /\ Current(s)' \subseteq Current(s)
      BY <1>1, <1>3, <2>2 DEF EvidenceInv
    <3> QED
      BY <2>1, <3>1, CurrentStays
  <2>3. CASE Currently(s)'
    BY <2>1, <2>3
  <2> QED
    BY <2>2, <2>3
<1>5. EvidenceIsOwn'
  BY DEF EvidenceInv, EvidenceIsOwn
<1> QED
  BY <1>4, <1>5 DEF EvidenceInv

LEMMA OverIsCurrent ==
  ASSUME NEW s, cycle'[s].pc \in Ended
  PROVE  Currently(s)'
BY DEF Currently, Ended, Undecided, Decided, Handling

\* A cycle that talks on has nothing current.
LEMMA TalkingIsCurrent ==
  ASSUME NEW s, cycle'[s].pc \in Undecided \ Handling, Current(s)' = {}
  PROVE  Currently(s)'
BY DEF Currently, Undecided, Decided, Handling

\* The handler returns.
LEMMA ReturnsKept ==
  ASSUME EvidenceInv, LoyalInv', NEW s \in Session, Running(s), NEW proposal, NEW ok,
         Returns(s, proposal, ok), Adds(s)
  PROVE  EvidenceInv'
<1>1. Numbered(s) /\ TypeOK
  BY DEF EvidenceInv, LoyalInv
<1>2. AddsCall(s)
  BY DEF Returns, AddsCall
<1>3. cycle'[s].pc \in Undecided \ Handling /\ \A t \in Session \ {s} : cycle'[t] = cycle[t]
  BY <1>1, ReturnsKeeps DEF Undecided, Handling
<1>4. Current(s)' = {}
  BY <1>1, <1>2, NothingCurrent DEF Adds
<1> QED
  BY <1>2, <1>3, <1>4, TalkingIsCurrent, StepKept DEF Grows

LEMMA InitEvidence == ASSUME Init PROVE EvidenceInv
<1>1. \A s \in Session : CallsOf(s) = {} /\ DecisionsOf(s) = {} /\ cycle[s].pc = "off"
  BY OffIsACycle DEF Init, CallsOf, DecisionsOf
<1>2. ASSUME NEW s \in Session
      PROVE  Numbered(s) /\ Currently(s)
  <2>1. Numbered(s)
    BY <1>1, FS_EmptySet DEF Numbered
  <2>2. Currently(s)
    BY <1>1 DEF Currently, Undecided, Handling, Decided
  <2> QED
    BY <2>1, <2>2
<1>3. EvidenceIsOwn
  BY DEF Init, EvidenceIsOwn
<1> QED
  BY <1>2, <1>3, InitLoyal DEF EvidenceInv

\* Bind, Open, Answer, EndTurn, EndCycle, ModelFails.
LEMMA TalkIs ==
  ASSUME TypeOK, NEW s \in Session, Talks(s)
  PROVE  /\ UNCHANGED tables
         /\ \A t \in Session \ {s} : cycle'[t] = cycle[t]
         /\ \/ cycle'[s].pc = "done" /\ cycle[s].pc \in Undecided
            \/ cycle'[s].pc \in Undecided \ Handling /\ cycle[s].pc \in {"off"} \cup Undecided
<1>1. UNCHANGED tables
  BY DEF Talks, Bind, Open, Answer, EndTurn, EndCycle, ModelFails, tables
<1>2. CASE Bind(s)
  <2>1. [Off EXCEPT !.pc = "bound", !.provider = active].pc = "bound"
    BY DEF Off
  <2>2. cycle'[s].pc = "bound" /\ \A t \in Session \ {s} : cycle'[t] = cycle[t]
    BY <1>2, <2>1 DEF Bind, TypeOK
  <2> QED
    BY <1>1, <1>2, <2>2 DEF Bind, Undecided, Handling
<1>3. CASE Answer(s) \/ EndTurn(s) \/ (Goes(s, "talking") /\ cycle[s].pc = "bound")
  <2>1. cycle[s] \in Cycle /\ cycle[s].pc \in Undecided
    BY <1>3 DEF TypeOK, Answer, EndTurn, Undecided
  <2>2. cycle'[s].pc \in {"acting", "talking"} /\ \A t \in Session \ {s} : cycle'[t] = cycle[t]
    BY <1>3, <2>1 DEF Answer, EndTurn, Goes, TypeOK, Cycle
  <2> QED
    BY <1>1, <2>1, <2>2 DEF Undecided, Handling
<1>4. CASE cycle' = [cycle EXCEPT ![s] = Done] /\ cycle[s].pc \in {"bound", "talking"}
  BY <1>1, <1>4, OffIsACycle DEF TypeOK, Undecided
<1> QED
  BY <1>2, <1>3, <1>4 DEF Talks, Open, EndCycle, ModelFails

\* Nothing is current before, and nothing after.
LEMMA TalkEvidence ==
  ASSUME EvidenceInv, LoyalInv', NEW s \in Session, Talks(s)
  PROVE  EvidenceInv'
<1>1. /\ UNCHANGED <<calls, decisions>>
      /\ \A t \in Session \ {s} : cycle'[t] = cycle[t]
      /\ \/ cycle'[s].pc \in Ended
         \/ cycle'[s].pc \in Undecided \ Handling /\ cycle[s].pc \in {"off"} \cup Undecided
  BY TalkIs DEF EvidenceInv, LoyalInv, tables, Ended
<1>2. Current(s)' = Current(s)
  BY <1>1 DEF Current, CallsOf
<1>3. cycle[s].pc \in {"off"} \cup Undecided => Current(s) = {}
  BY DEF EvidenceInv, LoyalInv, Loyal, Currently, DecisionsOf, Current
<1>4. Currently(s)'
  BY <1>1, <1>2, <1>3, OverIsCurrent, TalkingIsCurrent
<1> QED
  BY <1>1, <1>4, QuietKept

LEMMA AbortEvidence ==
  ASSUME EvidenceInv, LoyalInv', NEW s \in Session, Abort(s)
  PROVE  EvidenceInv'
<1>1. TypeOK /\ UNCHANGED <<calls, decisions>> /\ cycle' = [cycle EXCEPT ![s] = Broken(s)]
  BY DEF EvidenceInv, LoyalInv, Abort, tables
<1>2. Currently(s)' /\ \A t \in Session \ {s} : cycle'[t] = cycle[t]
  BY <1>1, BrokenIsOver, OverIsCurrent DEF TypeOK
<1> QED
  BY <1>1, <1>2, QuietKept

LEMMA OutsideEvidence ==
  ASSUME EvidenceInv, LoyalInv',
         \/ Router \/ Restart \/ UNCHANGED vars
         \/ \E to \in {"active", "winding_down", "halted"} : ChangeState(to)
  PROVE  EvidenceInv'
<1>1. UNCHANGED <<calls, decisions>> /\ TypeOK
  BY DEF Router, Restart, ChangeState, EvidenceInv, LoyalInv, tables, vars
<1>2. UNCHANGED cycle \/ cycle' = [s \in Session |-> Broken(s)]
  BY DEF Router, Restart, ChangeState, vars
<1>3. ASSUME NEW s \in Session
      PROVE  cycle'[s] = cycle[s] \/ Currently(s)'
  <2>1. CASE cycle' = [t \in Session |-> Broken(t)]
    BY <1>1, <2>1, BrokenIsOver, OverIsCurrent
  <2> QED
    BY <1>2, <2>1
<1> QED
  BY <1>1, <1>3, QuietKept

\* A tool is called.
LEMMA ToolEvidence ==
  ASSUME EvidenceInv, LoyalInv', NEW s \in Session, NEW tool, NEW symbol, NEW data,
         Read(s, tool, symbol, data) \/ ToolFails(s, tool, symbol)
  PROVE  EvidenceInv'
<1>1. AddsCall(s) /\ UNCHANGED <<cycle, decisions>> /\ cycle[s].pc = "acting"
  BY DEF AddsCall, Read, ToolFails
<1>2. Adds(s) /\ Numbered(s)
  BY <1>1 DEF Adds, EvidenceInv
<1>3. Current(s)' = {}
  BY <1>1, <1>2, NothingCurrent DEF Adds
<1>4. Currently(s)'
  BY <1>1, <1>3, TalkingIsCurrent DEF Undecided, Handling
<1> QED
  BY <1>1, <1>2, <1>4, StepKept DEF Grows

LEMMA DecisionIs ==
  ASSUME NEW s, NEW proposal, NEW outcome
  PROVE  LET d == Decision(s, proposal, outcome) IN
         /\ d.session = s /\ d.n = NextN(s) /\ d.outcome = outcome
         /\ d.order = proposal.order /\ d.claims = proposal.claims
BY DEF Decision, NextN

\* A proposal is made: what is wrong is decided at once, the rest is backed.
LEMMA ProposeEvidence ==
  ASSUME EvidenceInv, LoyalInv', NEW s \in Session, cycle[s].pc \in Undecided, NEW seen,
         NEW cited \in SUBSET calls, NEW proposal \in ProposalSet, proposal.order \in Order,
         Propose(s, seen, proposal, cited)
  PROVE  EvidenceInv'
<1>0. TypeOK /\ Running(s) /\ cycle[s] \in Cycle
  BY DEF EvidenceInv, LoyalInv, Running, Undecided, Ended, TypeOK
<1>1. ASSUME NEW outcome \in {"risk_rejected", "grounding_failed"}, Returns(s, proposal, TRUE),
             decisions' = decisions \cup {Decision(s, proposal, outcome)}
      PROVE  EvidenceInv'
  <2>1. Adds(s)
    BY <1>1, DecisionIs DEF Adds, Accepted
  <2> QED
    BY <1>0, <1>1, <2>1, ReturnsKept
<1>2. CASE /\ Grounded(s, proposal, cited) /\ UNCHANGED <<calls, decisions>>
           /\ cycle' = [cycle EXCEPT ![s].pc = "judging", ![s].proposal = proposal]
  <2>1. cycle'[s] = [cycle[s] EXCEPT !.pc = "judging", !.proposal = proposal]
        /\ \A t \in Session \ {s} : cycle'[t] = cycle[t]
    BY <1>0, <1>2 DEF TypeOK
  <2>2. cycle'[s].pc = "judging" /\ cycle'[s].proposal = proposal
    BY <1>0, <2>1 DEF Cycle
  <2>3. Evidence(s, proposal.order, proposal.claims)'
    BY <1>2, GroundedIs, EvidenceStays
  <2>4. Current(s)' = {}
    <3>1. Current(s) = {}
      BY DEF EvidenceInv, Currently
    <3> QED
      BY <1>2, <3>1 DEF Current, CallsOf
  <2>5. Currently(s)'
    BY <2>2, <2>3, <2>4 DEF Currently, Evidence, Decided
  <2> QED
    BY <1>2, <2>1, <2>5, QuietKept
<1> QED
  BY <1>1, <1>2 DEF Propose

\* A cycle moves on with its proposal.
LEMMA GoesIs ==
  ASSUME TypeOK, NEW s \in Session, NEW p \in Places, Goes(s, p)
  PROVE  /\ cycle'[s].pc = p /\ cycle'[s].proposal = cycle[s].proposal
         /\ \A t \in Session \ {s} : cycle'[t] = cycle[t]
<1>1. cycle[s] \in Cycle /\ cycle'[s] = [cycle[s] EXCEPT !.pc = p]
  BY DEF TypeOK, Goes
<1>2. cycle'[s].pc = p /\ cycle'[s].proposal = cycle[s].proposal
  BY <1>1 DEF Cycle
<1> QED
  BY <1>2 DEF Goes, TypeOK

LEMMA JudgeEvidence ==
  ASSUME EvidenceInv, LoyalInv', NEW s \in Session,
         NEW outcome \in {"risk_rejected", "awaiting_approval", "executed"}, Judge(s, outcome)
  PROVE  EvidenceInv'
<1>1. PICK proposal : proposal = cycle[s].proposal
  OBVIOUS
<1>2. /\ TypeOK /\ Running(s) /\ Current(s) = {} /\ proposal.order \in Order
      /\ Evidence(s, proposal.order, proposal.claims)
  <2>1. cycle[s].pc = "judging"
    BY DEF Judge
  <2> QED
    BY <1>1, <2>1 DEF EvidenceInv, LoyalInv, Running, Ended, Currently, Undecided, Handling, Evidence
<1>3. decisions' = decisions \cup {Decision(s, proposal, outcome)}
  BY <1>1 DEF Judge
<1>4. Adds(s)
  BY <1>2, <1>3, DecisionIs DEF Adds
<1>5. CASE Returns(s, proposal, TRUE)
  BY <1>2, <1>4, <1>5, ReturnsKept
<1>6. ASSUME NEW p \in {"asking", "executing"}, Goes(s, p), UNCHANGED calls,
             outcome = IF p = "asking" THEN "awaiting_approval" ELSE "executed"
      PROVE  EvidenceInv'
  <2>1. /\ cycle'[s].pc = p /\ cycle'[s].proposal = proposal
        /\ \A t \in Session \ {s} : cycle'[t] = cycle[t]
    BY <1>1, <1>2, <1>6, GoesIs DEF Places, Handling
  <2>2. Current(s)' \subseteq {Decision(s, proposal, outcome)}
    BY <1>2, <1>3, <1>6 DEF Current, CallsOf
  <2>3. Evidence(s, proposal.order, proposal.claims)'
    BY <1>2, <1>6, EvidenceStays
  <2>4. \A d \in Current(s)' : d.order = proposal.order /\ d.claims = proposal.claims /\ d.outcome = outcome
    BY <2>2, DecisionIs
  <2>5. Currently(s)'
    BY <1>2, <1>6, <2>1, <2>3, <2>4 DEF Currently, Evidence, Undecided
  <2> QED
    BY <1>4, <1>6, <2>1, <2>5, StepKept DEF Grows
<1> QED
  BY <1>1, <1>5, <1>6 DEF Judge

\* JudgeUnreachable, Ask, Submit: no decision is made, and the proposal stays the
\* same until the handler returns.
LEMMA HandleEvidence ==
  ASSUME EvidenceInv, LoyalInv', NEW s \in Session, NEW how,
         JudgeUnreachable(s) \/ Ask(s) \/ Submit(s, how)
  PROVE  EvidenceInv'
<1>1. TypeOK /\ Running(s) /\ UNCHANGED decisions /\ Adds(s)
  BY DEF EvidenceInv, LoyalInv, Running, Ended, JudgeUnreachable, Ask, Submit, Adds
<1>2. ASSUME NEW ok \in BOOLEAN, Returns(s, cycle[s].proposal, ok)
      PROVE  EvidenceInv'
  <2>1. PICK proposal : proposal = cycle[s].proposal
    OBVIOUS
  <2>2. Returns(s, proposal, ok)
    BY <1>2, <2>1
  <2> QED
    BY <1>1, <2>2, ReturnsKept
<1>3. CASE cycle[s].pc = "executing" /\ Goes(s, "failing") /\ UNCHANGED calls
  <2>1. PICK proposal : proposal = cycle[s].proposal
    OBVIOUS
  <2>2. /\ cycle'[s].pc = "failing" /\ cycle'[s].proposal = proposal
        /\ \A t \in Session \ {s} : cycle'[t] = cycle[t]
    BY <1>1, <1>3, <2>1, GoesIs DEF Places, Handling
  <2>3. Current(s)' = Current(s)
    BY <1>1, <1>3 DEF Current, CallsOf
  <2>4. /\ proposal.order \in Order /\ Evidence(s, proposal.order, proposal.claims)
        /\ \A d \in Current(s) : /\ d.order = proposal.order /\ d.claims = proposal.claims
                                 /\ d.outcome = "executed"
    BY <1>3, <2>1 DEF EvidenceInv, Currently, Handling, Decided, Evidence
  <2>5. Evidence(s, proposal.order, proposal.claims)'
    BY <1>3, <2>4, EvidenceStays
  <2>6. Currently(s)'
    BY <2>2, <2>3, <2>4, <2>5 DEF Currently, Evidence, Undecided
  <2> QED
    BY <1>1, <1>3, <2>2, <2>6, QuietKept
<1> QED
  BY <1>2, <1>3 DEF JudgeUnreachable, Ask, Submit

\* The decision that is taken back is the current one, of the same order and claims.
LEMMA FailEvidence ==
  ASSUME EvidenceInv, LoyalInv', NEW s \in Session, Fail(s)
  PROVE  EvidenceInv'
<1>1. PICK proposal : proposal = cycle[s].proposal
  OBVIOUS
<1>2. /\ Running(s) /\ Evidence(s, proposal.order, proposal.claims)
      /\ \A d \in Current(s) : d.order = proposal.order /\ d.claims = proposal.claims
  <2>1. cycle[s].pc = "failing"
    BY DEF Fail
  <2> QED
    BY <1>1, <2>1 DEF EvidenceInv, Currently, Handling, Decided, Evidence, Running, Ended
<1>3. Adds(s)
  <2>1. ASSUME NEW d \in Current(s), NEW e, e = [d EXCEPT !.outcome = "order_failed"]
        PROVE  e.session = s /\ e.n = NextN(s) /\ Evidence(s, e.order, e.claims)
    <3>1. e.session = d.session /\ e.n = d.n /\ e.order = d.order /\ e.claims = d.claims
      BY <2>1
    <3>2. d.session = s /\ d.n = NextN(s)
      BY DEF Current, NextN
    <3> QED
      BY <1>2, <3>1, <3>2 DEF Evidence
  <2> QED
    BY <2>1 DEF Fail, Adds
<1>4. Returns(s, proposal, TRUE)
  BY <1>1 DEF Fail
<1> QED
  BY <1>2, <1>3, <1>4, ReturnsKept

LEMMA CitationsAreCalls ==
  ASSUME NEW s, NEW symbol
  PROVE  Citations(s, symbol) \in SUBSET calls
BY DEF Citations, CallsOf

LEMMA CallEvidence ==
  ASSUME EvidenceInv, LoyalInv', NEW s \in Session, Calls(s)
  PROVE  EvidenceInv'
<1>1. ASSUME NEW tool, NEW symbol, NEW data, Read(s, tool, symbol, data)
      PROVE  EvidenceInv'
  BY <1>1, ToolEvidence
<1>2. ASSUME NEW tool, NEW symbol, ToolFails(s, tool, symbol)
      PROVE  EvidenceInv'
  BY <1>2, ToolEvidence
<1>3. ASSUME NEW seen, NEW proposal \in Proposals(FALSE), NEW cited \in Cited,
             ProposeByCall(s, seen, proposal, cited)
      PROVE  EvidenceInv'
  <2>1. /\ proposal \in ProposalSet /\ proposal.order \in Order /\ cited \in SUBSET calls
        /\ cycle[s].pc \in Undecided
    BY <1>3, ProposalsAreTyped DEF Proposals, Cited, ProposeByCall, Undecided
  <2> QED
    BY <1>3, <2>1, ProposeEvidence DEF ProposeByCall
<1>4. ASSUME NEW named, NEW proposal \in Proposals(TRUE), ProposeByText(s, named, proposal)
      PROVE  EvidenceInv'
  <2>1. /\ proposal \in ProposalSet /\ proposal.order \in Order
        /\ cycle[s].pc \in Undecided
    BY <1>4, ProposalsAreTyped DEF Proposals, ProposeByText, Undecided
  <2>2. PICK cited : cited = Citations(s, proposal.order.symbol)
    OBVIOUS
  <2>3. PICK seen : seen = state
    OBVIOUS
  <2>4. cited \in SUBSET calls /\ Propose(s, seen, proposal, cited)
    BY <1>4, <2>2, <2>3, CitationsAreCalls DEF ProposeByText
  <2> QED
    BY <2>1, <2>4, ProposeEvidence
<1> QED
  BY <1>1, <1>2, <1>3, <1>4 DEF Calls

LEMMA NextEvidence ==
  ASSUME EvidenceInv, [Next]_vars
  PROVE  EvidenceInv'
<1>0. LoyalInv'
  BY NextLoyal DEF EvidenceInv
<1>1. ASSUME NEW s \in Session, Talks(s) \/ Calls(s) \/ Handles(s) \/ Abort(s)
      PROVE  EvidenceInv'
  BY <1>0, <1>1, TalkEvidence, CallEvidence, JudgeEvidence, HandleEvidence, FailEvidence,
     AbortEvidence DEF Handles
<1>2. CASE \/ Router \/ Restart \/ UNCHANGED vars
           \/ \E to \in {"active", "winding_down", "halted"} : ChangeState(to)
  BY <1>0, <1>2, OutsideEvidence
<1> QED
  BY <1>1, <1>2 DEF Next

\* What comes past the check of numbers rests on numbers that this very cycle was
\* told, about the symbol or the account, by a call that succeeded, whatever a model
\* cites and however cycles overlap (grounding.py, _cited_payloads, _narrowed).
THEOREM ResearchEvidence == Spec => []EvidenceIsOwn
<1>1. Init => EvidenceInv
  BY InitEvidence
<1>2. EvidenceInv /\ [Next]_vars => EvidenceInv'
  BY NextEvidence
<1>3. EvidenceInv => EvidenceIsOwn
  BY DEF EvidenceInv
<1> QED
  BY <1>1, <1>2, <1>3, PTL DEF Spec

-----------------------------------------------------------------------------
(* The log and the orders.                                                 *)

\* A decision of the cycle says that this order failed, before number n.
FailedBefore(s, order, n) ==
  \E e \in DecisionsOf(s) : e.order = order /\ e.outcome = "order_failed" /\ e.n < n

\* Submissions that failed; what is "lost" the broker may have.
Unsent == {"failed", "lost"}

SentIsLogged(s) ==
  \A o \in Order : orders[<<s, o>>] = "sent" =>
    \E d \in DecisionsOf(s) : d.order = o /\ d.outcome = "executed"

LostIsLogged(s) ==
  \A o \in Order : orders[<<s, o>>] = "lost" =>
    \E d \in DecisionsOf(s) : d.order = o /\ d.outcome \in {"executed", "order_failed"}

FailedIsUnsent(s) ==
  \A d \in DecisionsOf(s) : d.outcome = "order_failed" => orders[<<s, d.order>>] \in Unsent

\* What holds at every place of the cycle.
Recorded(s) == SentIsLogged(s) /\ LostIsLogged(s) /\ FailedIsUnsent(s)

FailedIsLogged(s) ==
  \A o \in Order : orders[<<s, o>>] \in Unsent =>
    \/ cycle[s].pc = "failing" /\ cycle[s].proposal.order = o
    \/ cycle[s].pc = "dead"
    \/ FailedBefore(s, o, NextN(s))

UnsentIsExplained(s) ==
  \A d \in DecisionsOf(s) : d.outcome = "executed" /\ orders[<<s, d.order>>] # "sent" =>
    \/ cycle[s].pc \in {"executing", "failing"} /\ d \in Current(s)
    \/ cycle[s].pc = "dead"
    \/ FailedBefore(s, d.order, d.n)

Told(s) ==
  /\ cycle[s].pc \in {"executing", "failing"} => Current(s) # {}
  /\ cycle[s].pc = "failing" => orders[<<s, cycle[s].proposal.order>>] \in Unsent
  /\ Recorded(s) /\ FailedIsLogged(s) /\ UnsentIsExplained(s)

Asked ==
  \A a \in approvals :
    \E d \in decisions : <<d.session, d.n>> = a /\ d.outcome = "awaiting_approval"

TablesTyped ==
  /\ orders \in [Session \X Order -> {"none", "sent"} \cup Unsent]
  /\ \A d \in decisions : d.order \in Order /\ "outcome" \in DOMAIN d

LogInv ==
  /\ EvidenceInv
  /\ TablesTyped /\ Asked
  /\ \A s \in Session : Told(s)

LEMMA LogIsRight ==
  ASSUME LogInv
  PROVE  LogTellsTheOrders
<1>1. ASSUME NEW s \in Session, NEW o \in Order, orders[<<s, o>>] = "sent"
      PROVE  \E d \in decisions : d.session = s /\ d.order = o /\ d.outcome = "executed"
  <2>1. SentIsLogged(s)
    BY DEF LogInv, Told, Recorded
  <2>2. PICK d \in DecisionsOf(s) : d.order = o /\ d.outcome = "executed"
    BY <1>1, <2>1 DEF Recorded, SentIsLogged, LostIsLogged, FailedIsUnsent
  <2> QED
    BY <2>2 DEF DecisionsOf
<1>2. ASSUME NEW d \in decisions, d.outcome = "executed", orders[<<d.session, d.order>>] # "sent"
      PROVE  \/ cycle[d.session].pc \in {"executing", "failing", "dead"}
             \/ \E e \in decisions : /\ e.session = d.session /\ e.order = d.order
                                     /\ e.n < d.n /\ e.outcome = "order_failed"
  <2>1. d.session \in Session /\ d \in DecisionsOf(d.session)
    BY DEF LogInv, EvidenceInv, LoyalInv, DecisionsOf
  <2>2. UnsentIsExplained(d.session)
    BY <2>1 DEF LogInv, Told
  <2> QED
    BY <1>2, <2>1, <2>2 DEF UnsentIsExplained, FailedBefore, DecisionsOf
<1>3. ASSUME NEW s \in Session, NEW o \in Order, orders[<<s, o>>] = "lost"
      PROVE  \E d \in decisions :
               d.session = s /\ d.order = o /\ d.outcome \in {"executed", "order_failed"}
  <2>1. LostIsLogged(s)
    BY DEF LogInv, Told, Recorded
  <2>2. PICK d \in DecisionsOf(s) : d.order = o /\ d.outcome \in {"executed", "order_failed"}
    BY <1>3, <2>1 DEF LostIsLogged
  <2> QED
    BY <2>2 DEF DecisionsOf
<1>4. ASSUME NEW d \in decisions, d.outcome = "order_failed"
      PROVE  orders[<<d.session, d.order>>] \in Unsent
  <2>1. d.session \in Session /\ d \in DecisionsOf(d.session)
    BY DEF LogInv, EvidenceInv, LoyalInv, DecisionsOf
  <2>2. FailedIsUnsent(d.session)
    BY <2>1 DEF LogInv, Told, Recorded
  <2> QED
    BY <1>4, <2>1, <2>2 DEF FailedIsUnsent
<1> QED
  BY <1>1, <1>2, <1>3, <1>4 DEF LogTellsTheOrders, LogInv, Asked, Unsent

LEMMA InitLog == ASSUME Init PROVE LogInv
<1>1. EvidenceInv
  BY InitEvidence
<1>2. orders \in [Session \X Order -> {"none", "sent"} \cup Unsent] /\ decisions = {} /\ approvals = {}
  BY DEF Init
<1>3. ASSUME NEW s \in Session
      PROVE  Told(s)
  <2>1. cycle[s].pc = "off" /\ \A o \in Order : orders[<<s, o>>] = "none"
    BY OffIsACycle DEF Init
  <2> QED
    BY <1>2, <2>1 DEF Told, Recorded, SentIsLogged, LostIsLogged, FailedIsUnsent, Unsent, FailedIsLogged, UnsentIsExplained, DecisionsOf
<1> QED
  BY <1>1, <1>2, <1>3 DEF LogInv, TablesTyped, Asked

\* What another cycle does.
LEMMA ToldStays ==
  ASSUME NEW t, Told(t), cycle'[t] = cycle[t], CallsOf(t)' = CallsOf(t),
         DecisionsOf(t)' = DecisionsOf(t), \A o \in Order : orders'[<<t, o>>] = orders[<<t, o>>],
         \A d \in DecisionsOf(t) : d.order \in Order,
         cycle[t].pc = "failing" => cycle[t].proposal.order \in Order
  PROVE  Told(t)'
<1>1. NextN(t)' = NextN(t)
  BY DEF NextN
<1>2. Current(t)' = Current(t)
  BY <1>1 DEF Current, NextN, DecisionsOf
<1>3. \A order, n : FailedBefore(t, order, n)' <=> FailedBefore(t, order, n)
  BY DEF FailedBefore
<1>4. Recorded(t)'
  BY DEF Told, Recorded, SentIsLogged, LostIsLogged, FailedIsUnsent
<1>5. FailedIsLogged(t)'
  <2> SUFFICES ASSUME NEW o \in Order, orders'[<<t, o>>] \in Unsent
               PROVE  \/ cycle'[t].pc = "failing" /\ cycle'[t].proposal.order = o
                      \/ cycle'[t].pc = "dead"
                      \/ FailedBefore(t, o, NextN(t))'
    BY DEF FailedIsLogged
  <2>1. PICK n : n = NextN(t)
    OBVIOUS
  <2>2. FailedBefore(t, o, n) => FailedBefore(t, o, NextN(t))'
    BY <1>1, <2>1 DEF FailedBefore
  <2>3. \/ cycle[t].pc = "failing" /\ cycle[t].proposal.order = o
        \/ cycle[t].pc = "dead"
        \/ FailedBefore(t, o, n)
    BY <2>1 DEF Told, FailedIsLogged, FailedBefore
  <2> QED
    BY <2>2, <2>3
<1>6. UnsentIsExplained(t)'
  BY <1>2, <1>3 DEF Told, UnsentIsExplained
<1> QED
  BY <1>2, <1>4, <1>5, <1>6 DEF Told

\* A step of one cycle.
LEMMA OneTold ==
  ASSUME LogInv, EvidenceInv', NEW s \in Session, Grows(s), Told(s)', TablesTyped', Asked',
         \A t \in Session \ {s} :
           /\ cycle'[t] = cycle[t] /\ DecisionsOf(t)' = DecisionsOf(t)
           /\ \A o \in Order : orders'[<<t, o>>] = orders[<<t, o>>]
  PROVE  LogInv'
<1>1. \A t : t # s => CallsOf(t)' = CallsOf(t)
  BY GrowsIs DEF LogInv, EvidenceInv
<1>2. ASSUME NEW t \in Session, t # s
      PROVE  Told(t)'
  <2>1. /\ Told(t) /\ cycle'[t] = cycle[t] /\ CallsOf(t)' = CallsOf(t)
        /\ DecisionsOf(t)' = DecisionsOf(t)
        /\ \A o \in Order : orders'[<<t, o>>] = orders[<<t, o>>]
    BY <1>1, <1>2 DEF LogInv
  <2>2. \A d \in DecisionsOf(t) : d.order \in Order
    BY DEF LogInv, TablesTyped, DecisionsOf
  <2>3. cycle[t].pc = "failing" => cycle[t].proposal.order \in Order
    BY DEF LogInv, EvidenceInv, Currently, Handling
  <2> QED
    BY <2>1, <2>2, <2>3, ToldStays
<1> QED
  BY <1>2 DEF LogInv

\* A step that leaves all tables alone: where an order was under way, the cycle is
\* dead now, or goes on as it was.
LEMMA QuietTold ==
  ASSUME LogInv, EvidenceInv', UNCHANGED tables,
         \A s \in Session :
           \/ cycle'[s] = cycle[s]
           \/ cycle'[s].pc = "dead"
           \/ /\ cycle[s].pc \notin {"executing", "failing", "dead"}
              /\ cycle'[s].pc \notin {"executing", "failing"}
  PROVE  LogInv'
<1>1. \A s : CallsOf(s)' = CallsOf(s) /\ DecisionsOf(s)' = DecisionsOf(s)
  BY DEF CallsOf, DecisionsOf, tables
<1>2. UNCHANGED <<orders, decisions, approvals>>
  BY DEF tables
<1>3. TablesTyped' /\ Asked'
  BY <1>2 DEF LogInv, TablesTyped, Asked
<1>4. ASSUME NEW s \in Session
      PROVE  Told(s)'
  <2>1. /\ Told(s) /\ \A d \in DecisionsOf(s) : d.order \in Order
        /\ cycle[s].pc = "failing" => cycle[s].proposal.order \in Order
    BY DEF LogInv, TablesTyped, DecisionsOf, EvidenceInv, Currently, Handling
  <2>2. CASE cycle'[s] = cycle[s]
    BY <1>1, <1>2, <2>1, <2>2, ToldStays
  <2>3. Recorded(s)'
    BY <1>1, <1>2, <2>1 DEF Told, Recorded, SentIsLogged, LostIsLogged, FailedIsUnsent
  <2>4. CASE cycle'[s].pc = "dead"
    BY <2>3, <2>4 DEF Told, FailedIsLogged, UnsentIsExplained
  <2>5. CASE /\ cycle[s].pc \notin {"executing", "failing", "dead"}
             /\ cycle'[s].pc \notin {"executing", "failing"}
    <3>1. PICK n : n = NextN(s)
      OBVIOUS
    <3>2. n = NextN(s)'
      BY <1>1, <3>1 DEF NextN
    <3>3. \A o \in Order : orders[<<s, o>>] \in Unsent => FailedBefore(s, o, n)
      BY <2>1, <2>5, <3>1 DEF Told, FailedIsLogged, FailedBefore
    <3>4. \A o, m : FailedBefore(s, o, m)' <=> FailedBefore(s, o, m)
      BY <1>1 DEF FailedBefore
    <3>5. FailedIsLogged(s)'
      BY <1>2, <3>2, <3>3, <3>4 DEF FailedIsLogged, FailedBefore
    <3>6. UnsentIsExplained(s)'
      BY <1>1, <1>2, <2>1, <2>5, <3>4 DEF Told, UnsentIsExplained
    <3> QED
      BY <2>3, <2>5, <3>5, <3>6 DEF Told
  <2> QED
    BY <2>2, <2>4, <2>5
<1> QED
  BY <1>3, <1>4 DEF LogInv

\* What holds of the tables where no order is under way.
SettledFailed(s) ==
  \A o \in Order : orders[<<s, o>>] \in Unsent =>
    \E e \in DecisionsOf(s) : e.order = o /\ e.outcome = "order_failed"

SettledUnsent(s) ==
  \A d \in DecisionsOf(s) : d.outcome = "executed" /\ orders[<<s, d.order>>] # "sent" =>
    FailedBefore(s, d.order, d.n)

\* A step that adds a call: what it leaves is settled.
LEMMA CallTold ==
  ASSUME LogInv, EvidenceInv', NEW s \in Session, AddsCall(s),
         Adds(s), cycle'[s].pc \notin {"executing", "failing"},
         Recorded(s)', SettledFailed(s)', SettledUnsent(s)', TablesTyped', Asked',
         \A t \in Session \ {s} :
           /\ cycle'[t] = cycle[t] /\ DecisionsOf(t)' = DecisionsOf(t)
           /\ \A o \in Order : orders'[<<t, o>>] = orders[<<t, o>>]
  PROVE  LogInv'
<1>1. Numbered(s)
  BY DEF LogInv, EvidenceInv
<1>2. NextN(s) \in Nat /\ NextN(s)' = NextN(s) + 1
  BY <1>1, NextIsNat, CallAdded
<1>3. \A d \in DecisionsOf(s)' : d.n < NextN(s)'
  <2> SUFFICES ASSUME NEW d \in DecisionsOf(s)'
               PROVE  d.n < NextN(s)'
    OBVIOUS
  <2>1. d \in DecisionsOf(s) \/ d.n = NextN(s)
    BY DEF Adds, DecisionsOf
  <2>2. d.n \in Nat /\ d.n <= NextN(s)
    BY <1>1, <1>2, <2>1 DEF Numbered
  <2> QED
    BY <1>2, <2>2
<1>4. FailedIsLogged(s)'
  BY <1>3 DEF SettledFailed, FailedIsLogged, FailedBefore
<1>5. UnsentIsExplained(s)'
  BY DEF SettledUnsent, UnsentIsExplained
<1>6. Told(s)'
  BY <1>4, <1>5 DEF Told
<1> QED
  BY <1>6, OneTold DEF Grows

\* A cycle with no order under way.
LEMMA SettledIs ==
  ASSUME LogInv, NEW s \in Session, cycle[s].pc \notin {"executing", "failing", "dead"}
  PROVE  SettledFailed(s) /\ SettledUnsent(s) /\ Recorded(s)
<1>1. Told(s)
  BY DEF LogInv
<1>2. SettledFailed(s)
  BY <1>1 DEF Told, FailedIsLogged, FailedBefore, SettledFailed
<1>3. SettledUnsent(s)
  BY <1>1 DEF Told, UnsentIsExplained, SettledUnsent
<1> QED
  BY <1>1, <1>2, <1>3 DEF Told

-----------------------------------------------------------------------------
(* The steps, and the orders.                                              *)

LEMMA BrokenIsDead ==
  ASSUME TypeOK, NEW s \in Session
  PROVE  \/ Broken(s).pc = "dead"
         \/ /\ cycle[s].pc \notin {"executing", "failing", "dead"}
            /\ Broken(s).pc \notin {"executing", "failing"}
<1> DEFINE p == CASE cycle[s].pc = "off" -> "off"
                  [] cycle[s].pc \in Handling \cup {"dead"} -> "dead"
                  [] OTHER -> "done"
<1>1. p = "dead" \/ cycle[s].pc \notin Handling \cup {"dead"}
  BY DEF Handling
<1>2. Broken(s) = [Off EXCEPT !.pc = p] /\ Broken(s).pc \in Ended
  BY BrokenIsOver DEF Broken
<1> HIDE DEF p
<1>3. Broken(s).pc = p
  BY <1>2 DEF Off
<1> QED
  BY <1>1, <1>2, <1>3 DEF Handling, Ended

LEMMA QuietStepTold ==
  ASSUME LogInv, EvidenceInv',
         \/ \E s \in Session : Talks(s) \/ Abort(s)
         \/ Router \/ Restart \/ UNCHANGED vars
         \/ \E to \in {"active", "winding_down", "halted"} : ChangeState(to)
  PROVE  LogInv'
<1>1. TypeOK
  BY DEF LogInv, EvidenceInv, LoyalInv
<1>2. ASSUME NEW s \in Session, Talks(s)
      PROVE  LogInv'
  BY <1>1, <1>2, TalkIs, QuietTold DEF Undecided, Handling
<1>3. ASSUME NEW s \in Session, Abort(s)
      PROVE  LogInv'
  <2>1. UNCHANGED tables /\ cycle' = [cycle EXCEPT ![s] = Broken(s)]
    BY <1>3 DEF Abort
  <2>2. cycle'[s] = Broken(s) /\ \A t \in Session \ {s} : cycle'[t] = cycle[t]
    BY <1>1, <2>1 DEF TypeOK
  <2> QED
    BY <1>1, <2>1, <2>2, BrokenIsDead, QuietTold
<1>4. CASE Restart
  <2>1. UNCHANGED tables /\ \A s \in Session : cycle'[s] = Broken(s)
    BY <1>4 DEF Restart
  <2> QED
    BY <1>1, <2>1, BrokenIsDead, QuietTold
<1>5. CASE UNCHANGED <<tables, cycle>>
  BY <1>5, QuietTold
<1> QED
  BY <1>2, <1>3, <1>4, <1>5 DEF Router, ChangeState, vars, tables

\* New decisions of a cycle that say nothing of an order at the broker.
LEMMA SettledStays ==
  ASSUME NEW s, SettledFailed(s), SettledUnsent(s), Recorded(s), UNCHANGED orders,
         decisions \subseteq decisions',
         \A d \in decisions' : d \in decisions \/ (d.session = s /\ d.outcome \notin {"executed", "order_failed"})
  PROVE  /\ SettledFailed(s)' /\ SettledUnsent(s)' /\ Recorded(s)'
         /\ \A t : t # s => DecisionsOf(t)' = DecisionsOf(t)
<1>1. DecisionsOf(s) \subseteq DecisionsOf(s)' /\ \A t : t # s => DecisionsOf(t)' = DecisionsOf(t)
  BY DEF DecisionsOf
<1>2. SettledFailed(s)' /\ SentIsLogged(s)' /\ LostIsLogged(s)'
  BY <1>1 DEF SettledFailed, Recorded, SentIsLogged, LostIsLogged
<1>3. \A d \in DecisionsOf(s)' : d.outcome \in {"executed", "order_failed"} => d \in DecisionsOf(s)
  BY DEF DecisionsOf
<1>4. FailedIsUnsent(s)'
  BY <1>3 DEF Recorded, FailedIsUnsent
<1>5. \A o, n : FailedBefore(s, o, n) => FailedBefore(s, o, n)'
  BY <1>1 DEF FailedBefore
<1>6. SettledUnsent(s)'
  BY <1>3, <1>5 DEF SettledUnsent
<1> QED
  BY <1>1, <1>2, <1>4, <1>6 DEF Recorded

\* A call that reads, fails or is refused, and one that asks for an approval.
LEMMA HarmlessTold ==
  ASSUME LogInv, EvidenceInv', NEW s \in Session,
         cycle[s].pc \notin {"executing", "failing", "dead"}, AddsCall(s),
         cycle'[s].pc \notin {"executing", "failing"}, UNCHANGED orders, Asked',
         NEW new, decisions' = decisions \cup new,
         \A d \in new : /\ d.session = s /\ d.n = NextN(s) /\ d.outcome \notin {"executed"} \cup Accepted
                       /\ d.order \in Order /\ "outcome" \in DOMAIN d,
         \A t \in Session \ {s} : cycle'[t] = cycle[t]
  PROVE  LogInv'
<1>1. /\ SettledFailed(s)' /\ SettledUnsent(s)' /\ Recorded(s)'
      /\ \A t : t # s => DecisionsOf(t)' = DecisionsOf(t)
  BY SettledIs, SettledStays DEF Accepted
<1>2. TablesTyped' /\ Adds(s)
  BY DEF LogInv, TablesTyped, Adds
<1> QED
  BY <1>1, <1>2, CallTold

LEMMA AskedStays ==
  ASSUME LogInv, decisions \subseteq decisions', UNCHANGED approvals
  PROVE  Asked'
BY DEF LogInv, Asked

LEMMA DecisionTyped ==
  ASSUME NEW s, NEW proposal, NEW outcome
  PROVE  "outcome" \in DOMAIN Decision(s, proposal, outcome)
BY DEF Decision

LEMMA ToolTold ==
  ASSUME LogInv, EvidenceInv', NEW s \in Session, NEW tool, NEW symbol, NEW data,
         Read(s, tool, symbol, data) \/ ToolFails(s, tool, symbol)
  PROVE  LogInv'
<1>1. /\ AddsCall(s) /\ UNCHANGED <<cycle, decisions, orders, approvals>> /\ cycle[s].pc = "acting"
  BY DEF AddsCall, Read, ToolFails
<1>2. PICK new : new = {}
  OBVIOUS
<1>3. Asked' /\ decisions' = decisions \cup new /\ cycle'[s].pc = "acting"
      /\ (\A t \in Session \ {s} : cycle'[t] = cycle[t])
  BY <1>1, <1>2, AskedStays
<1>4. \A d \in new : /\ d.session = s /\ d.n = NextN(s) /\ d.outcome \notin {"executed"} \cup Accepted
                    /\ d.order \in Order /\ "outcome" \in DOMAIN d
  BY <1>2
<1> QED
  BY <1>1, <1>3, <1>4, HarmlessTold

LEMMA ProposeTold ==
  ASSUME LogInv, EvidenceInv', NEW s \in Session, cycle[s].pc \in Undecided, NEW seen, NEW cited,
         NEW proposal \in ProposalSet, proposal.order \in Order, Propose(s, seen, proposal, cited)
  PROVE  LogInv'
<1>1. /\ TypeOK /\ Running(s) /\ UNCHANGED <<orders, approvals>>
      /\ cycle[s].pc \notin {"executing", "failing", "dead"}
  BY DEF LogInv, EvidenceInv, LoyalInv, Running, Undecided, Ended, Propose
<1>2. ASSUME NEW outcome \in {"risk_rejected", "grounding_failed"}, Returns(s, proposal, TRUE),
             decisions' = decisions \cup {Decision(s, proposal, outcome)}
      PROVE  LogInv'
  <2>1. AddsCall(s) /\ Asked'
    BY <1>1, <1>2, AskedStays DEF Returns, AddsCall
  <2>2. cycle'[s].pc \in {"talking", "acting"} /\ \A t \in Session \ {s} : cycle'[t] = cycle[t]
    BY <1>1, <1>2, ReturnsKeeps
  <2>3. PICK d : d = Decision(s, proposal, outcome)
    OBVIOUS
  <2>4. /\ d.session = s /\ d.n = NextN(s) /\ d.outcome \notin {"executed"} \cup Accepted
        /\ d.order \in Order /\ "outcome" \in DOMAIN d
    BY <1>2, <2>3, DecisionIs, DecisionTyped DEF Accepted
  <2>5. PICK new : new = {d}
    OBVIOUS
  <2>6. decisions' = decisions \cup new
    BY <1>2, <2>3, <2>5
  <2>7. \A e \in new : /\ e.session = s /\ e.n = NextN(s) /\ e.outcome \notin {"executed"} \cup Accepted
                      /\ e.order \in Order /\ "outcome" \in DOMAIN e
    BY <2>4, <2>5
  <2> QED
    BY <1>1, <2>1, <2>2, <2>6, <2>7, HarmlessTold
<1>3. CASE /\ UNCHANGED <<calls, decisions>>
           /\ cycle' = [cycle EXCEPT ![s].pc = "judging", ![s].proposal = proposal]
  <2>1. cycle'[s].pc = "judging" /\ \A t \in Session \ {s} : cycle'[t] = cycle[t]
    <3>1. cycle[s] \in Cycle
      BY <1>1 DEF TypeOK
    <3>2. cycle'[s] = [cycle[s] EXCEPT !.pc = "judging", !.proposal = proposal]
      BY <1>1, <1>3 DEF TypeOK
    <3>3. cycle'[s].pc = "judging"
      BY <3>1, <3>2 DEF Cycle
    <3> QED
      BY <1>1, <1>3, <3>3 DEF TypeOK
  <2> QED
    BY <1>1, <1>3, <2>1, QuietTold DEF tables
<1> QED
  BY <1>2, <1>3 DEF Propose

LEMMA JudgeTold ==
  ASSUME LogInv, EvidenceInv', NEW s \in Session,
         NEW outcome \in {"risk_rejected", "awaiting_approval", "executed"}, Judge(s, outcome)
  PROVE  LogInv'
<1>1. PICK proposal, d : proposal = cycle[s].proposal /\ d = Decision(s, proposal, outcome)
  OBVIOUS
<1>2. /\ TypeOK /\ Running(s) /\ cycle[s].pc = "judging" /\ proposal.order \in Order
      /\ decisions' = decisions \cup {d} /\ UNCHANGED <<orders, approvals>>
  BY <1>1 DEF LogInv, EvidenceInv, LoyalInv, Running, Ended, Judge, Currently, Handling
<1>3. /\ d.session = s /\ d.n = NextN(s) /\ d.outcome = outcome /\ d.order = proposal.order
      /\ "outcome" \in DOMAIN d
  BY <1>1, DecisionIs, DecisionTyped
<1>4. TablesTyped' /\ Asked'
  BY <1>2, <1>3, AskedStays DEF LogInv, TablesTyped
<1>5. CASE Returns(s, proposal, TRUE) /\ outcome = "risk_rejected"
  <2>1. AddsCall(s) /\ cycle'[s].pc \in {"talking", "acting"}
        /\ \A t \in Session \ {s} : cycle'[t] = cycle[t]
    BY <1>2, <1>5, ReturnsKeeps DEF Returns, AddsCall
  <2>2. PICK new : new = {d}
    OBVIOUS
  <2>3. decisions' = decisions \cup new
    BY <1>2, <2>2
  <2>4. \A e \in new : /\ e.session = s /\ e.n = NextN(s) /\ e.outcome \notin {"executed"} \cup Accepted
                      /\ e.order \in Order /\ "outcome" \in DOMAIN e
    BY <1>2, <1>3, <1>5, <2>2 DEF Accepted
  <2> QED
    BY <1>2, <1>4, <2>1, <2>3, <2>4, HarmlessTold
<1>6. ASSUME NEW p \in {"asking", "executing"}, Goes(s, p), UNCHANGED calls,
             outcome = "executed" => p = "executing"
      PROVE  LogInv'
  <2>1. cycle'[s].pc = p /\ \A t \in Session \ {s} : cycle'[t] = cycle[t]
    BY <1>2, <1>6, GoesIs DEF Places, Handling
  <2>2. /\ DecisionsOf(s)' = DecisionsOf(s) \cup {d}
        /\ \A t : t # s => DecisionsOf(t)' = DecisionsOf(t)
    BY <1>2, <1>3 DEF DecisionsOf
  <2>3. NextN(s)' = NextN(s) /\ d \in Current(s)'
    BY <1>2, <1>3, <1>6 DEF NextN, Current, CallsOf
  <2>4. SettledUnsent(s) /\ Recorded(s) /\ FailedIsLogged(s)
    BY <1>2, SettledIs DEF LogInv, Told
  <2>5. \A o, n : FailedBefore(s, o, n) => FailedBefore(s, o, n)'
    BY <2>2 DEF FailedBefore
  <2>6. Recorded(s)'
    <3>1. SentIsLogged(s)' /\ LostIsLogged(s)'
      BY <1>2, <2>2, <2>4 DEF Recorded, SentIsLogged, LostIsLogged
    <3>2. d.outcome # "order_failed"
      BY <1>3
    <3>3. FailedIsUnsent(s)'
      BY <1>2, <2>2, <2>4, <3>2 DEF Recorded, FailedIsUnsent
    <3> QED
      BY <3>1, <3>3 DEF Recorded
  <2>7. FailedIsLogged(s)'
    <3>1. PICK n : n = NextN(s)
      OBVIOUS
    <3>2. \A o \in Order : orders[<<s, o>>] \in Unsent => FailedBefore(s, o, n)
      BY <1>2, <2>4, <3>1 DEF FailedIsLogged, FailedBefore
    <3> QED
      BY <1>2, <2>3, <2>5, <3>1, <3>2 DEF FailedIsLogged, FailedBefore
  <2>8. UnsentIsExplained(s)'
    <3> SUFFICES ASSUME NEW e \in DecisionsOf(s)', e.outcome = "executed", orders[<<s, e.order>>] # "sent"
                 PROVE  \/ cycle'[s].pc \in {"executing", "failing"} /\ e \in Current(s)'
                        \/ FailedBefore(s, e.order, e.n)'
      BY <1>2 DEF UnsentIsExplained
    <3>1. CASE e = d
      BY <1>3, <1>6, <2>1, <2>3, <3>1
    <3>2. CASE e \in DecisionsOf(s)
      <4>1. PICK o, n : o = e.order /\ n = e.n
        OBVIOUS
      <4>2. FailedBefore(s, o, n)
        BY <2>4, <3>2, <4>1 DEF SettledUnsent, FailedBefore
      <4> QED
        BY <2>5, <4>1, <4>2
    <3> QED
      BY <2>2, <3>1, <3>2
  <2>9. Told(s)'
    BY <1>6, <2>1, <2>3, <2>6, <2>7, <2>8 DEF Told
  <2> QED
    BY <1>4, <1>6, <2>1, <2>2, <2>9, <1>2, OneTold DEF Grows
<1> QED
  BY <1>1, <1>5, <1>6 DEF Judge

LEMMA UnreachableTold ==
  ASSUME LogInv, EvidenceInv', NEW s \in Session, JudgeUnreachable(s) \/ Ask(s)
  PROVE  LogInv'
<1>1. PICK proposal, new : proposal = cycle[s].proposal /\ new = {}
  OBVIOUS
<1>2. /\ TypeOK /\ Running(s) /\ cycle[s].pc \in {"judging", "asking"}
      /\ UNCHANGED <<orders, decisions>>
  BY DEF LogInv, EvidenceInv, LoyalInv, Running, Ended, JudgeUnreachable, Ask
<1>3. PICK ok : Returns(s, proposal, ok)
  BY <1>1 DEF JudgeUnreachable, Ask
<1>4. AddsCall(s) /\ cycle'[s].pc \in {"talking", "acting"}
      /\ \A t \in Session \ {s} : cycle'[t] = cycle[t]
  <2>1. AddsCall(s)
    BY <1>3 DEF Returns, AddsCall
  <2> QED
    BY <1>2, <1>3, <2>1, ReturnsKeeps
<1>5. Asked'
  <2>1. CASE JudgeUnreachable(s)
    BY <2>1, AskedStays DEF JudgeUnreachable
  <2>2. CASE Ask(s)
    <3>1. \A d \in Current(s) : d \in decisions /\ d.outcome = "awaiting_approval"
      BY <2>2 DEF Ask, LogInv, EvidenceInv, Currently, Decided, Current
    <3>2. approvals' = approvals \cup {<<d.session, d.n>> : d \in Current(s)}
      BY <2>2 DEF Ask
    <3> QED
      BY <1>2, <3>1, <3>2 DEF LogInv, Asked
  <2> QED
    BY <2>1, <2>2
<1>6. decisions' = decisions \cup new
  BY <1>1, <1>2
<1>7. \A d \in new : /\ d.session = s /\ d.n = NextN(s) /\ d.outcome \notin {"executed"} \cup Accepted
                    /\ d.order \in Order /\ "outcome" \in DOMAIN d
  BY <1>1
<1> QED
  BY <1>2, <1>4, <1>5, <1>6, <1>7, HarmlessTold

\* ExecutionAgent.submit: an order that was tried before is not tried again.
LEMMA SubmitTold ==
  ASSUME LogInv, EvidenceInv', NEW s \in Session, NEW how \in {"sent", "failed", "lost"}, Submit(s, how)
  PROVE  LogInv'
<1>1. PICK proposal, order : proposal = cycle[s].proposal /\ order = proposal.order
  OBVIOUS
<1>2. /\ TypeOK /\ Running(s) /\ cycle[s].pc = "executing" /\ order \in Order
      /\ \A d \in Current(s) : d.order = order /\ d.outcome = "executed"
      /\ UNCHANGED <<decisions, approvals>>
  BY <1>1 DEF LogInv, EvidenceInv, LoyalInv, Running, Ended, Submit, Currently, Handling, Decided
<1>3. PICK now : now = IF orders[<<s, order>>] # "none" THEN orders[<<s, order>>] ELSE how
  OBVIOUS
<1>4. orders' = [orders EXCEPT ![<<s, order>>] = now]
  BY <1>1, <1>3 DEF Submit
<1>5. /\ orders \in [Session \X Order -> {"none", "sent"} \cup Unsent] /\ now \in {"sent"} \cup Unsent
      /\ <<s, order>> \in Session \X Order
  BY <1>2, <1>3 DEF LogInv, TablesTyped, Unsent
<1>6. /\ orders'[<<s, order>>] = now
      /\ \A o \in Order : o # order => orders'[<<s, o>>] = orders[<<s, o>>]
      /\ \A t \in Session \ {s}, o \in Order : orders'[<<t, o>>] = orders[<<t, o>>]
      /\ orders' \in [Session \X Order -> {"none", "sent"} \cup Unsent]
  BY <1>4, <1>5
<1>7. TablesTyped' /\ Asked' /\ Adds(s)
  BY <1>2, <1>6, AskedStays DEF LogInv, TablesTyped, Adds
<1>8. /\ Current(s) # {} /\ Recorded(s) /\ FailedIsLogged(s) /\ UnsentIsExplained(s)
      /\ \A t : DecisionsOf(t)' = DecisionsOf(t)
      /\ Current(s) \subseteq DecisionsOf(s)
  BY <1>2 DEF LogInv, Told, DecisionsOf, Current
<1>9. \A o, n : FailedBefore(s, o, n)' <=> FailedBefore(s, o, n)
  BY <1>8 DEF FailedBefore
<1>10. Recorded(s)'
  <2>1. \A o \in Order : o # order => (orders'[<<s, o>>] = orders[<<s, o>>])
    BY <1>6
  <2>2. PICK d \in DecisionsOf(s) : d.order = order /\ d.outcome = "executed"
    BY <1>2, <1>8
  <2>3. SentIsLogged(s)' /\ LostIsLogged(s)'
    BY <1>8, <2>1, <2>2 DEF Recorded, SentIsLogged, LostIsLogged
  <2>4. ASSUME NEW e \in DecisionsOf(s), e.outcome = "order_failed"
        PROVE  orders'[<<s, e.order>>] \in Unsent
    <3>1. e.order \in Order
      BY DEF LogInv, TablesTyped, DecisionsOf
    <3>2. orders[<<s, e.order>>] \in Unsent
      BY <1>8, <2>4 DEF Recorded, FailedIsUnsent
    <3>3. CASE e.order = order
      BY <1>3, <1>6, <3>2, <3>3 DEF Unsent
    <3>4. CASE e.order # order
      BY <2>1, <3>1, <3>2, <3>4
    <3> QED
      BY <3>3, <3>4
  <2>5. FailedIsUnsent(s)'
    BY <1>8, <2>4 DEF FailedIsUnsent
  <2> QED
    BY <2>3, <2>5 DEF Recorded
<1>11. PICK next : next = NextN(s)
  OBVIOUS
<1>12. \A o \in Order : orders[<<s, o>>] \in Unsent => FailedBefore(s, o, next)
  BY <1>2, <1>8, <1>11 DEF FailedIsLogged, FailedBefore
<1>13. \A d \in Current(s) : d.n = next
  BY <1>11 DEF Current, NextN
\* What is executed and not sent, and is not current, has failed before.
<1>14. ASSUME NEW d \in DecisionsOf(s), d.outcome = "executed", orders'[<<s, d.order>>] # "sent"
       PROVE  (d \in Current(s) /\ now \in Unsent) \/ FailedBefore(s, d.order, d.n)
  <2>1. PICK o, n : o = d.order /\ n = d.n
    OBVIOUS
  <2>2. o \in Order
    BY <2>1 DEF LogInv, TablesTyped, DecisionsOf
  <2>3. CASE d \in Current(s)
    BY <1>2, <1>5, <1>6, <1>14, <2>3
  <2>4. CASE d \notin Current(s)
    <3>1. orders[<<s, o>>] # "sent"
      BY <1>3, <1>6, <1>14, <2>1, <2>2
    <3>2. FailedBefore(s, o, n)
      BY <1>2, <1>8, <1>14, <2>1, <2>4, <3>1 DEF UnsentIsExplained, FailedBefore
    <3> QED
      BY <2>1, <3>2 DEF FailedBefore
  <2> QED
    BY <2>3, <2>4
<1>15. CASE Returns(s, proposal, TRUE) /\ (orders[<<s, order>>] # "none" \/ how = "sent")
  <2>1. cycle'[s].pc \in {"talking", "acting"} /\ \A t \in Session \ {s} : cycle'[t] = cycle[t]
    BY <1>2, <1>15, ReturnsKeeps
  <2>2. AddsCall(s)
    BY <1>15 DEF Returns, AddsCall
  <2>3. now \in Unsent => orders[<<s, order>>] \in Unsent
    BY <1>3, <1>15 DEF Unsent
  <2>4. SettledFailed(s)'
    <3>1. \A o \in Order : orders'[<<s, o>>] \in Unsent => orders[<<s, o>>] \in Unsent
      BY <1>6, <2>3
    <3> QED
      BY <1>8, <1>12, <3>1 DEF SettledFailed, FailedBefore
  <2>5. SettledUnsent(s)'
    <3> SUFFICES ASSUME NEW d \in DecisionsOf(s), d.outcome = "executed", orders'[<<s, d.order>>] # "sent"
                 PROVE  FailedBefore(s, d.order, d.n)
      BY <1>8, <1>9 DEF SettledUnsent
    <3>1. CASE d \in Current(s) /\ now \in Unsent
      <4>1. d.order = order /\ d.n = next /\ FailedBefore(s, order, next)
        BY <1>2, <1>12, <1>13, <2>3, <3>1
      <4> QED
        BY <4>1 DEF FailedBefore
    <3> QED
      BY <1>14, <3>1
  <2> QED
    BY <1>6, <1>7, <1>8, <1>10, <2>1, <2>2, <2>4, <2>5, CallTold
<1>16. CASE Goes(s, "failing") /\ UNCHANGED calls /\ orders[<<s, order>>] = "none" /\ how # "sent"
  <2>1. /\ cycle'[s].pc = "failing" /\ cycle'[s].proposal = proposal
        /\ \A t \in Session \ {s} : cycle'[t] = cycle[t]
    BY <1>1, <1>2, <1>16, GoesIs DEF Places, Handling
  <2>2. now \in Unsent /\ next = NextN(s)' /\ Current(s)' = Current(s)
    BY <1>2, <1>3, <1>11, <1>16 DEF NextN, Current, CallsOf, Unsent
  <2>3. FailedIsLogged(s)'
    <3> SUFFICES ASSUME NEW o \in Order, orders'[<<s, o>>] \in Unsent, o # order
                 PROVE  FailedBefore(s, o, NextN(s))'
      BY <1>1, <2>1 DEF FailedIsLogged
    <3>1. FailedBefore(s, o, next)
      BY <1>6, <1>12
    <3> QED
      BY <1>9, <2>2, <3>1 DEF FailedBefore
  <2>4. UnsentIsExplained(s)'
    BY <1>8, <1>9, <1>14, <2>1, <2>2 DEF UnsentIsExplained
  <2>5. Told(s)'
    BY <1>1, <1>6, <1>8, <1>10, <2>1, <2>2, <2>3, <2>4 DEF Told
  <2> QED
    BY <1>6, <1>7, <1>8, <1>16, <2>1, <2>5, OneTold DEF Grows
<1> QED
  BY <1>1, <1>15, <1>16 DEF Submit

\* The current decision is taken back: it was executed, and its order failed.
LEMMA FailTold ==
  ASSUME LogInv, EvidenceInv', NEW s \in Session, Fail(s)
  PROVE  LogInv'
<1>1. PICK proposal, order, next : /\ proposal = cycle[s].proposal /\ order = proposal.order
                                   /\ next = NextN(s)
  OBVIOUS
<1>2. /\ TypeOK /\ Running(s) /\ cycle[s].pc = "failing" /\ order \in Order
      /\ \A d \in Current(s) : d.order = order /\ d.outcome = "executed"
      /\ UNCHANGED <<orders, approvals>> /\ Returns(s, proposal, TRUE)
  BY <1>1 DEF LogInv, EvidenceInv, LoyalInv, Running, Ended, Fail, Currently, Handling, Decided
<1>3. PICK back : back = {[d EXCEPT !.outcome = "order_failed"] : d \in Current(s)}
  OBVIOUS
<1>4. decisions' = (decisions \ Current(s)) \cup back
  BY <1>3 DEF Fail
<1>5. /\ TablesTyped /\ Told(s) /\ Current(s) # {} /\ orders[<<s, order>>] \in Unsent
  BY <1>1, <1>2 DEF LogInv, Told
<1>6. \A e \in back : /\ e.session = s /\ e.n = next /\ e.order = order
                     /\ e.outcome = "order_failed" /\ "outcome" \in DOMAIN e
  <2> SUFFICES ASSUME NEW d \in Current(s), NEW e, e = [d EXCEPT !.outcome = "order_failed"]
               PROVE  /\ e.session = s /\ e.n = next /\ e.order = order
                      /\ e.outcome = "order_failed" /\ "outcome" \in DOMAIN e
    BY <1>3
  <2>1. /\ d.session = s /\ d.n = next /\ d.order = order /\ "outcome" \in DOMAIN d
    BY <1>1, <1>2, <1>5 DEF Current, NextN, TablesTyped
  <2> QED
    BY <2>1
<1>7. back # {}
  BY <1>3, <1>5
<1>8. /\ DecisionsOf(s)' = (DecisionsOf(s) \ Current(s)) \cup back
      /\ \A t : t # s => DecisionsOf(t)' = DecisionsOf(t)
  <2>1. \A d \in Current(s) : d.session = s
    BY DEF Current
  <2> QED
    BY <1>4, <1>6, <2>1 DEF DecisionsOf
<1>9. TablesTyped'
  BY <1>2, <1>4, <1>5, <1>6 DEF TablesTyped
<1>10. Asked'
  BY <1>2, <1>4 DEF LogInv, Asked
<1>11. Recorded(s)'
  <2>1. /\ SentIsLogged(s) /\ LostIsLogged(s) /\ FailedIsUnsent(s)
    BY <1>5 DEF Told, Recorded
  <2>2. SentIsLogged(s)'
    <3> SUFFICES ASSUME NEW o \in Order, orders[<<s, o>>] = "sent"
                 PROVE  \E d \in DecisionsOf(s)' : d.order = o /\ d.outcome = "executed"
      BY <1>2 DEF SentIsLogged
    <3>1. PICK d \in DecisionsOf(s) : d.order = o /\ d.outcome = "executed"
      BY <2>1 DEF SentIsLogged
    <3>2. d \notin Current(s)
      BY <1>2, <1>5, <3>1 DEF Unsent
    <3> QED
      BY <1>8, <3>1, <3>2
  <2>3. LostIsLogged(s)'
    <3> SUFFICES ASSUME NEW o \in Order, orders[<<s, o>>] = "lost"
                 PROVE  \E d \in DecisionsOf(s)' :
                          d.order = o /\ d.outcome \in {"executed", "order_failed"}
      BY <1>2 DEF LostIsLogged
    <3>1. PICK d \in DecisionsOf(s) : d.order = o /\ d.outcome \in {"executed", "order_failed"}
      BY <2>1 DEF LostIsLogged
    <3>2. CASE d \in Current(s)
      BY <1>2, <1>6, <1>7, <1>8, <3>1, <3>2
    <3>3. CASE d \notin Current(s)
      BY <1>8, <3>1, <3>3
    <3> QED
      BY <3>2, <3>3
  <2>4. FailedIsUnsent(s)'
    <3> SUFFICES ASSUME NEW e \in DecisionsOf(s)', e.outcome = "order_failed"
                 PROVE  orders[<<s, e.order>>] \in Unsent
      BY <1>2 DEF FailedIsUnsent
    <3>1. CASE e \in back
      BY <1>5, <1>6, <3>1
    <3>2. CASE e \in DecisionsOf(s)
      BY <2>1, <3>2 DEF FailedIsUnsent
    <3> QED
      BY <1>8, <3>1, <3>2
  <2> QED
    BY <2>2, <2>3, <2>4 DEF Recorded
<1>12. \A o, n : FailedBefore(s, o, n) => FailedBefore(s, o, n)'
  BY <1>2, <1>8 DEF FailedBefore
<1>13. SettledFailed(s)'
  <2> SUFFICES ASSUME NEW o \in Order, orders[<<s, o>>] \in Unsent
               PROVE  \E e \in DecisionsOf(s)' : e.order = o /\ e.outcome = "order_failed"
    BY <1>2 DEF SettledFailed
  <2>1. CASE o = order
    BY <1>6, <1>7, <1>8, <2>1
  <2>2. CASE o # order
    <3>1. FailedBefore(s, o, next)
      BY <1>1, <1>2, <1>5, <2>2 DEF Told, FailedIsLogged, FailedBefore
    <3> QED
      BY <1>12, <3>1 DEF FailedBefore
  <2> QED
    BY <2>1, <2>2
<1>14. SettledUnsent(s)'
  <2> SUFFICES ASSUME NEW d \in DecisionsOf(s)', d.outcome = "executed", orders[<<s, d.order>>] # "sent"
               PROVE  FailedBefore(s, d.order, d.n)'
    BY <1>2 DEF SettledUnsent
  <2>1. d \in DecisionsOf(s) /\ d \notin Current(s)
    BY <1>6, <1>8
  <2>2. PICK o, n : o = d.order /\ n = d.n
    OBVIOUS
  <2>3. FailedBefore(s, o, n)
    BY <1>2, <1>5, <2>1, <2>2 DEF Told, UnsentIsExplained, FailedBefore
  <2> QED
    BY <1>12, <2>2, <2>3
<1>15. Adds(s)
  <2>1. LogInv => Currently(s)
    BY DEF LogInv, EvidenceInv
  <2>2. Evidence(s, order, proposal.claims)
    BY <1>1, <1>2, <2>1 DEF Currently, Handling, Evidence
  <2>3. \A d \in Current(s) : d.claims = proposal.claims
    BY <1>1, <1>2, <2>1 DEF Currently, Decided
  <2>4. \A e \in back : e.claims = proposal.claims
    <3> SUFFICES ASSUME NEW d \in Current(s), NEW e, e = [d EXCEPT !.outcome = "order_failed"]
                 PROVE  e.claims = proposal.claims
      BY <1>3
    <3>1. e.claims = d.claims
      OBVIOUS
    <3> QED
      BY <2>3, <3>1
  <2> QED
    BY <1>1, <1>4, <1>6, <2>2, <2>4 DEF Adds, Evidence
<1>16. AddsCall(s) /\ cycle'[s].pc \in {"talking", "acting"}
       /\ \A t \in Session \ {s} : cycle'[t] = cycle[t]
  <2>1. AddsCall(s)
    BY <1>2 DEF Returns, AddsCall
  <2> QED
    BY <1>2, <2>1, ReturnsKeeps
<1> QED
  BY <1>2, <1>8, <1>9, <1>10, <1>11, <1>13, <1>14, <1>15, <1>16, CallTold

LEMMA CallsTold ==
  ASSUME LogInv, EvidenceInv', NEW s \in Session, Calls(s)
  PROVE  LogInv'
<1>1. ASSUME NEW tool, NEW symbol, NEW data, Read(s, tool, symbol, data) \/ ToolFails(s, tool, symbol)
      PROVE  LogInv'
  BY <1>1, ToolTold
<1>2. ASSUME NEW seen, NEW proposal \in Proposals(FALSE), NEW cited,
             ProposeByCall(s, seen, proposal, cited)
      PROVE  LogInv'
  <2>1. proposal \in ProposalSet /\ proposal.order \in Order /\ cycle[s].pc \in Undecided
    BY <1>2, ProposalsAreTyped DEF Proposals, ProposeByCall, Undecided
  <2> QED
    BY <1>2, <2>1, ProposeTold DEF ProposeByCall
<1>3. ASSUME NEW named, NEW proposal \in Proposals(TRUE), ProposeByText(s, named, proposal)
      PROVE  LogInv'
  <2>1. proposal \in ProposalSet /\ proposal.order \in Order /\ cycle[s].pc \in Undecided
    BY <1>3, ProposalsAreTyped DEF Proposals, ProposeByText, Undecided
  <2>2. PICK seen, cited : seen = state /\ cited = Citations(s, proposal.order.symbol)
    OBVIOUS
  <2>3. Propose(s, seen, proposal, cited)
    BY <1>3, <2>2 DEF ProposeByText
  <2> QED
    BY <2>1, <2>3, ProposeTold
<1>4. \A tool, symbol, data : Read(s, tool, symbol, data) => LogInv'
  BY <1>1
<1>5. \A tool, symbol : ToolFails(s, tool, symbol) => LogInv'
  BY <1>1
<1> QED
  BY <1>2, <1>3, <1>4, <1>5 DEF Calls

\* What the log can be relied on for, wherever a cycle breaks off and whatever other
\* cycles do: an order that is at the broker, or may be, and a request for approval
\* have their decision; one that says "order_failed" has an order that was never
\* answered, though it may live; one that says "executed" is true, or its cycle is
\* still at it or broke off, or the same order had failed before (tools.py,
\* propose_order).
THEOREM ResearchLog == Spec => []LogTellsTheOrders
<1>1. Init => LogInv
  BY InitLog
<1>2. LogInv /\ [Next]_vars => LogInv'
  <2> SUFFICES ASSUME LogInv, [Next]_vars
               PROVE  LogInv'
    OBVIOUS
  <2>1. EvidenceInv'
    BY NextEvidence DEF LogInv
  <2>2. ASSUME NEW s \in Session, Calls(s) \/ Handles(s)
        PROVE  LogInv'
    BY <2>1, <2>2, CallsTold, JudgeTold, UnreachableTold, SubmitTold, FailTold DEF Handles
  <2>3. CASE \/ \E s \in Session : Talks(s) \/ Abort(s)
             \/ Router \/ Restart \/ UNCHANGED vars
             \/ \E to \in {"active", "winding_down", "halted"} : ChangeState(to)
    BY <2>1, <2>3, QuietStepTold
  <2> QED
    BY <2>2, <2>3 DEF Next
<1>3. LogInv => LogTellsTheOrders
  BY LogIsRight
<1> QED
  BY <1>1, <1>2, <1>3, PTL DEF Spec

=============================================================================
