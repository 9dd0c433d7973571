---------------------------- MODULE ResearchAgent ----------------------------
(***************************************************************************)
(* The research agent: cycles (agents/runner.py) in which a language model   *)
(* calls tools through the gateway (agents/gateway.py), and a proposal       *)
(* (agents/tools.py) that passes the trading state, the check of its numbers *)
(* against what the tools returned (agents/grounding.py) and the risk rules  *)
(* before it becomes an order or a request for approval.  Cycles of the      *)
(* scheduler and of "run now" overlap.  What the model says is arbitrary.    *)
(***************************************************************************)
EXTENDS Providers, Integers, FiniteSets

CONSTANTS
  Session,       \* cycles, each with a session id of its own
  Symbol,        \* what can be traded
  Crypto,        \* symbols that trade at any hour
  Number,        \* numbers that the broker reports
  Claimed,       \* numbers that a rationale names
  Order,         \* orders that are proposed: [symbol, increases]
  Reading,       \* reading tools that are called
  Failing,       \* those of them that can fail
  Holdings,      \* sets of symbols with a position
  Vendor,        \* vendor of each provider
  Configured,    \* vendors with a key or an address in the settings
  Watchlists,    \* what the operator selects
  Closes,        \* the last closed trades of each symbol: [pl, hours], newest first
  Tolerance,     \* GROUNDING_TOLERANCE, in percent
  MaxTurns,      \* RESEARCH_MAX_TOOL_TURNS
  MaxCalls,      \* bound: tool calls of all cycles
  MaxEvents      \* bound: changes of the trading state, restarts, exceptions

ASSUME ResearchAssumption ==
  /\ Crypto \subseteq Symbol /\ Number \cup Claimed \subseteq Int
  /\ Order \subseteq [symbol : Symbol, increases : BOOLEAN]
  /\ Failing \subseteq Reading /\ Holdings \subseteq SUBSET Symbol
  /\ Reading \subseteq {"get_account", "get_positions", "get_quote", "get_bars", "get_news"}
  /\ Vendor \in [Provider -> {"anthropic", "local", "other"}]
  /\ {Tolerance, MaxTurns, MaxCalls, MaxEvents} \subseteq Nat

\* What a call reports is about a symbol, or about the account.
Account == "account"
NUMERIC_EVIDENCE_TOOLS == {"get_account", "get_positions", "get_quote", "get_bars"}

\* What a tool is asked about.
Subjects(tool) == IF tool \in {"get_quote", "get_bars"} THEN Symbol ELSE {Account}

VARIABLES
  state,     \* the trading state
  cycle,     \* where each cycle is
  calls,     \* the table tool_calls
  decisions, \* the table agent_decisions
  orders,    \* <<session, order>>, which give the client_order_id -> how it went
  approvals, \* decisions that ask for an approval
  events     \* how often something interfered with the cycles

vars == <<routerVars, state, cycle, calls, decisions, orders, approvals, events>>

tables == <<calls, decisions, orders, approvals>>

NoProposal == [order |-> [symbol |-> Account, increases |-> FALSE], claims |-> {}, last |-> FALSE]

Off == [pc |-> "off", provider |-> None, turn |-> 0, view |-> "active", proposal |-> NoProposal]

Init ==
  /\ RouterInit
  /\ state = "active"
  /\ cycle = [s \in Session |-> Off]
  /\ calls = {}
  /\ decisions = {}
  /\ orders = [x \in Session \X Order |-> "none"]
  /\ approvals = {}
  /\ events = 0

-----------------------------------------------------------------------------
(* Which symbols a cycle considers. *)

\* Two losing closes in a row, the last one within a day.
Benched(closes) ==
  {s \in Symbol :
     /\ Len(closes[s]) >= 2
     /\ closes[s][1].hours <= 24
     /\ closes[s][1].pl + closes[s][2].pl < 0}

\* All of them rather than none.
ActiveSymbols(selected, closes) ==
  LET left == (IF selected = {} THEN Symbol ELSE selected \cap Symbol) \ Benched(closes)
  IN  IF left = {} THEN Symbol ELSE left

-----------------------------------------------------------------------------
(* A cycle starts, talks and ends. *)

Goes(s, pc) == cycle' = [cycle EXCEPT ![s].pc = pc]

Done == [Off EXCEPT !.pc = "done"]

\* A proposal is under way.
Handling == {"judging", "asking", "executing", "failing"}

\* Broken off by an exception or a restart, "dead" where a proposal was under way.
Broken(s) == [Off EXCEPT !.pc = CASE cycle[s].pc = "off" -> "off"
                                  [] cycle[s].pc \in Handling \cup {"dead"} -> "dead"
                                  [] OTHER -> "done"]

\* The provider is taken once; later switches do not reach this cycle.
Bind(s) ==
  /\ cycle[s].pc = "off"
  /\ active \in healthy \ ReadOnly
  /\ Vendor[active] \in Configured \ {"other"}
  /\ cycle' = [cycle EXCEPT ![s] = [Off EXCEPT !.pc = "bound", !.provider = active]]
  /\ UNCHANGED <<routerVars, tables, state, events>>

\* The clock is asked for only where no symbol trades at any hour.
Open(s, selected, closes, is_open) ==
  LET symbols == ActiveSymbols(selected, closes)
      goes == /\ symbols \cap Crypto # {} \/ is_open
              /\ state = "active"
              /\ AnyWritable
  IN  /\ cycle[s].pc = "bound"
      /\ IF goes THEN Goes(s, "talking") ELSE cycle' = [cycle EXCEPT ![s] = Done]
      /\ UNCHANGED <<routerVars, tables, state, events>>

\* The model answers with calls of tools; the state they all report is read now.
Answer(s) ==
  /\ cycle[s].pc = "talking" /\ cycle[s].turn < MaxTurns
  /\ cycle' = [cycle EXCEPT ![s].pc = "acting", ![s].turn = @ + 1, ![s].view = state]
  /\ UNCHANGED <<routerVars, tables, state, events>>

\* The calls of this answer are done: the next turn, or no more of them.
EndTurn(s) ==
  /\ cycle[s].pc = "acting"
  /\ cycle' = [cycle EXCEPT ![s].pc = "talking", ![s].view = "active"]
  /\ UNCHANGED <<routerVars, tables, state, events>>

\* An answer without a call, or with another stop_reason, or the last turn.
EndCycle(s) ==
  /\ cycle[s].pc = "talking"
  /\ cycle' = [cycle EXCEPT ![s] = Done]
  /\ RecordSuccess(cycle[s].provider)
  /\ UNCHANGED <<tables, state, events>>

\* httpx.HTTPError: the call of the model fails or takes too long.
ModelFails(s) ==
  /\ cycle[s].pc = "talking" /\ cycle[s].turn < MaxTurns
  /\ cycle' = [cycle EXCEPT ![s] = Done]
  /\ RecordError(cycle[s].provider)
  /\ UNCHANGED <<tables, state, events>>

-----------------------------------------------------------------------------
(* Calls of tools. *)

CallsOf(s) == {c \in calls : c.session = s}

\* A row of tool_calls.  The provider is the one the gateway was made with.
Call(s, tool, symbol, ok, data) ==
  [session |-> s, n |-> Cardinality(CallsOf(s)) + 1, tool |-> tool, symbol |-> symbol,
   ok |-> ok, data |-> data, provider |-> cycle[s].provider]

\* What a tool can report: numbers about the account, or about symbols.
Reports(tool, symbol) ==
  CASE tool \in {"get_account", "get_news"} -> {{[about |-> Account, n |-> n]} : n \in Number}
    [] tool \in {"get_quote", "get_bars"} -> {{[about |-> symbol, n |-> n]} : n \in Number}
    [] tool = "get_positions" ->
         UNION {{{[about |-> x, n |-> f[x]] : x \in held} : f \in [held -> Number]} :
                  held \in Holdings}

Read(s, tool, symbol, data) ==
  /\ cycle[s].pc = "acting"
  /\ calls' = calls \cup {Call(s, tool, symbol, TRUE, data)}
  /\ UNCHANGED <<routerVars, state, cycle, decisions, orders, approvals, events>>

\* A broker that cannot be reached, a stale quote, nothing found, arguments that are
\* not of the schema: the row says so and has no data.
ToolFails(s, tool, symbol) ==
  /\ cycle[s].pc = "acting"
  /\ calls' = calls \cup {Call(s, tool, symbol, FALSE, {})}
  /\ UNCHANGED <<routerVars, state, cycle, decisions, orders, approvals, events>>

\* The newest successful reads of the local loop, the quote of this symbol alone.
Citations(s, symbol) ==
  LET own(tool) == {c \in CallsOf(s) : c.ok /\ c.tool = tool /\ (tool = "get_quote" => c.symbol = symbol)}
  IN  {c \in own("get_account") \cup own("get_positions") \cup own("get_quote") :
         \A d \in own(c.tool) : d.n <= c.n}

\* _narrowed: positions of other symbols are left out; any other mention of one spoils it all.
Narrowed(c, symbol) ==
  LET data == IF c.tool = "get_positions" THEN {d \in c.data : d.about = symbol} ELSE c.data
  IN  IF \E d \in data : d.about \notin {Account, symbol} THEN {} ELSE {d.n : d \in data}

\* Fault: a call of another session is as good.
MissingNone(s, cited) == {}

\* Citations that are no calls of this session.
Missing(s, cited) == {c \in cited : c.session # s}

\* The numbers of the cited calls that are evidence at all, for this symbol.
Haystack(s, symbol, cited) ==
  UNION {Narrowed(c, symbol) :
           c \in {c \in cited \ Missing(s, cited) : c.tool \in NUMERIC_EVIDENCE_TOOLS /\ c.ok}}

Abs(n) == IF n < 0 THEN -n ELSE n

\* tolerance is a percentage of the number that was reported.
Found(claim, haystack) ==
  \/ claim \in haystack
  \/ /\ Tolerance > 0
     /\ \E n \in haystack : n # 0 /\ Abs(n - claim) * 100 <= Tolerance * Abs(n)

\* Without claims there is nothing to check; a missing citation fails the proposal.
Grounded(s, proposal, cited) ==
  /\ \A claim \in proposal.claims : Found(claim, Haystack(s, proposal.order.symbol, cited))
  /\ Missing(s, cited) = {}

-----------------------------------------------------------------------------
(* A proposal. *)

\* Fault: the provider that is active by now.
DecisionOfActive(s, proposal, outcome) ==
  [session |-> s, n |-> Cardinality(CallsOf(s)) + 1, provider |-> active,
   order |-> proposal.order, claims |-> proposal.claims, outcome |-> outcome]

Decision(s, proposal, outcome) ==
  [session |-> s, n |-> Cardinality(CallsOf(s)) + 1, provider |-> cycle[s].provider,
   order |-> proposal.order, claims |-> proposal.claims, outcome |-> outcome]

Current(s) == {d \in decisions : d.session = s /\ d.n = Cardinality(CallsOf(s)) + 1}

\* The handler returns: its row of tool_calls is filled in.  Nothing is asked of the
\* model after a proposal that came as text.
Returns(s, proposal, ok) ==
  /\ calls' = calls \cup {Call(s, "propose_order", proposal.order.symbol, ok, {})}
  /\ cycle' = [cycle EXCEPT ![s].pc = IF proposal.last THEN "talking" ELSE "acting",
                            ![s].turn = IF proposal.last THEN MaxTurns ELSE @,
                            ![s].view = IF proposal.last THEN "active" ELSE @,
                            ![s].proposal = NoProposal]

\* The trading state, then the numbers: what fails here never comes to the rules.
Propose(s, seen, proposal, cited) ==
  LET refused == seen = "halted" \/ (seen = "winding_down" /\ proposal.order.increases)
      outcome == IF refused THEN "risk_rejected" ELSE "grounding_failed"
  IN  /\ IF refused \/ ~ Grounded(s, proposal, cited)
         THEN /\ decisions' = decisions \cup {Decision(s, proposal, outcome)}
              /\ Returns(s, proposal, TRUE)
         ELSE /\ cycle' = [cycle EXCEPT ![s].pc = "judging", ![s].proposal = proposal]
              /\ UNCHANGED <<calls, decisions>>
      /\ UNCHANGED <<routerVars, state, orders, approvals, events>>

\* The model of the vendor "anthropic" cites what it likes; for a local one the loop cites.
\* The state may come from the cache, as old as this turn.
ProposeByCall(s, seen, proposal, cited) ==
  /\ cycle[s].pc = "acting" /\ ~ proposal.last
  /\ Vendor[cycle[s].provider] = "local" => cited = Citations(s, proposal.order.symbol)
  /\ Propose(s, seen, proposal, cited)

\* Symbols in the newest positions that were read.
Held(s) == UNION {{d.about : d \in c.data} : c \in {c \in Citations(s, Account) : c.tool = "get_positions"}}

\* A local model wrote the proposal as text.  A symbol it left out is the only one held.
ProposeByText(s, named, proposal) ==
  /\ cycle[s].pc = "talking" /\ cycle[s].turn < MaxTurns
  /\ Vendor[cycle[s].provider] = "local" /\ proposal.last
  /\ IF named THEN TRUE ELSE Held(s) = {proposal.order.symbol}
  /\ Propose(s, state, proposal, Citations(s, proposal.order.symbol))

\* What the rules say of it: RiskGate has how they come to it.  The decision is
\* committed before the approval or the order it leads to.
Judge(s, outcome) ==
  /\ cycle[s].pc = "judging"
  /\ decisions' = decisions \cup {Decision(s, cycle[s].proposal, outcome)}
  /\ CASE outcome = "risk_rejected" -> Returns(s, cycle[s].proposal, TRUE)
       [] outcome = "awaiting_approval" -> Goes(s, "asking") /\ UNCHANGED calls
       [] outcome = "executed" -> Goes(s, "executing") /\ UNCHANGED calls
  /\ UNCHANGED <<routerVars, state, orders, approvals, events>>

\* The broker cannot be asked for what the rules need: nothing is decided.
JudgeUnreachable(s) ==
  /\ cycle[s].pc = "judging"
  /\ Returns(s, cycle[s].proposal, FALSE)
  /\ UNCHANGED <<routerVars, state, decisions, orders, approvals, events>>

Ask(s) ==
  /\ cycle[s].pc = "asking"
  /\ approvals' = approvals \cup {<<d.session, d.n>> : d \in Current(s)}
  /\ Returns(s, cycle[s].proposal, TRUE)
  /\ UNCHANGED <<routerVars, state, decisions, orders, events>>

\* ExecutionAgent.submit, which OrderExecution has in its steps: an order of the same
\* session and the same fields is not sent again, whatever became of it; a halt that
\* came meanwhile is seen.  The broker takes the order ("sent"), or refuses it or was
\* never reached ("failed"); or it may have it although the submission fails, since
\* nobody answered twice, or the resend was refused as a duplicate ("lost").
Submit(s, how) ==
  LET o == <<s, cycle[s].proposal.order>>
  IN  /\ cycle[s].pc = "executing"
      /\ how # "failed" => state # "halted"
      /\ orders' = [orders EXCEPT ![o] = IF @ # "none" THEN @ ELSE how]
      /\ IF orders[o] # "none" \/ how = "sent" THEN Returns(s, cycle[s].proposal, TRUE)
                                               ELSE Goes(s, "failing") /\ UNCHANGED calls
      /\ UNCHANGED <<routerVars, state, decisions, approvals, events>>

\* Fault: the failure is told to the model alone.
FailQuietly(s) ==
  /\ cycle[s].pc = "failing"
  /\ Returns(s, cycle[s].proposal, TRUE)
  /\ UNCHANGED <<routerVars, state, decisions, orders, approvals, events>>

Fail(s) ==
  /\ cycle[s].pc = "failing"
  /\ decisions' = (decisions \ Current(s)) \cup {[d EXCEPT !.outcome = "order_failed"] : d \in Current(s)}
  /\ Returns(s, cycle[s].proposal, TRUE)
  /\ UNCHANGED <<routerVars, state, orders, approvals, events>>

-----------------------------------------------------------------------------
(* What happens meanwhile. *)

Interferes ==
  /\ events < MaxEvents
  /\ events' = events + 1

\* An exception nothing catches: arguments that are no JSON, a taken key of the
\* audit chain.  Neither a success nor an error of the provider.
Abort(s) ==
  /\ cycle[s].pc \notin {"off", "done", "dead"}
  /\ cycle' = [cycle EXCEPT ![s] = Broken(s)]
  /\ Interferes /\ UNCHANGED <<routerVars, tables, state>>

ChangeState(to) ==
  /\ <<state, to>> \in {<<"active", "winding_down">>, <<"active", "halted">>,
                        <<"winding_down", "halted">>, <<"halted", "active">>}
  /\ state' = to
  /\ Interferes /\ UNCHANGED <<routerVars, tables, cycle>>

Router == RouterNext /\ UNCHANGED <<tables, state, cycle, events>>

\* The process ends and is started again: its cycles are gone, the tables are not.
Restart ==
  /\ cycle' = [s \in Session |-> Broken(s)]
  /\ RouterRestart
  /\ Interferes /\ UNCHANGED <<tables, state>>

\* What a model can cite: some calls of any cycle.
Cited == {cited \in SUBSET calls : Cardinality(cited) <= 2}

Proposals(last) == [order : Order, claims : {{}} \cup {{n} : n \in Claimed}, last : {last}]

Talks(s) ==
  \/ Bind(s) \/ Answer(s) \/ EndTurn(s) \/ EndCycle(s) \/ ModelFails(s)
  \/ \E selected \in Watchlists, closes \in Closes, is_open \in BOOLEAN :
       Open(s, selected, closes, is_open)

Calls(s) ==
  /\ Cardinality(calls) + Cardinality({t \in Session : cycle[t].pc \in Handling}) < MaxCalls
  /\ \/ \E tool \in Reading : \E symbol \in Subjects(tool) :
          \E data \in Reports(tool, symbol) : Read(s, tool, symbol, data)
     \/ \E tool \in Failing : \E symbol \in Subjects(tool) : ToolFails(s, tool, symbol)
     \/ \E proposal \in Proposals(FALSE), cited \in Cited, seen \in {state, cycle[s].view} :
          ProposeByCall(s, seen, proposal, cited)
     \/ \E proposal \in Proposals(TRUE), named \in BOOLEAN : ProposeByText(s, named, proposal)

Handles(s) ==
  \/ \E outcome \in {"risk_rejected", "awaiting_approval", "executed"} : Judge(s, outcome)
  \/ JudgeUnreachable(s) \/ Ask(s) \/ Fail(s)
  \/ \E how \in {"sent", "failed", "lost"} : Submit(s, how)

Next ==
  \/ \E s \in Session : Talks(s) \/ Calls(s) \/ Handles(s) \/ Abort(s)
  \/ \E to \in {"active", "winding_down", "halted"} : ChangeState(to)
  \/ Router \/ Restart

Spec == Init /\ [][Next]_vars

-----------------------------------------------------------------------------

\* A number that the rationale of a decision names, which came past the check, was
\* reported, to this very cycle, by a call that succeeded and is evidence for numbers,
\* about the symbol of the order or about the account (grounding.py, _cited_payloads,
\* _narrowed).  A risk_rejected by the trading state is not past it.
EvidenceIsOwn ==
  \A d \in decisions : d.outcome \in {"awaiting_approval", "executed", "order_failed"} =>
    \A claim \in d.claims :
      \E c \in calls :
        /\ c.session = d.session /\ c.ok /\ c.tool \in NUMERIC_EVIDENCE_TOOLS /\ c.n < d.n
        /\ \E r \in c.data : r.about \in {Account, d.order.symbol} /\ Found(claim, {r.n})

\* One conversation has one model, and one that may write: the provider a decision is
\* logged with is the one that made every call of its cycle, whatever switches,
\* fallbacks and restarts there were (router.py:5-8, INV-5).
OneProvider ==
  \A d \in decisions :
    /\ d.provider \notin ReadOnly
    /\ \A c \in CallsOf(d.session) : c.provider = d.provider

\* What the log can be relied on for, wherever a cycle breaks off.  An order that was
\* sent has a decision "executed" that was committed before it; one that may live at
\* the broker without an answer has a decision too, "executed" or "order_failed", so
\* that "order_failed" does not say that there is no order, but does say that none was
\* ever answered (tools.py:541-567, agent.py:93-106).  A request for approval has its
\* decision, and one that says "executed" has an order that was sent, unless its cycle
\* is still at it or broke off, or the very order had failed before in this cycle.
LogTellsTheOrders ==
  /\ \A s \in Session, o \in Order : orders[<<s, o>>] = "sent" =>
       \E d \in decisions : d.session = s /\ d.order = o /\ d.outcome = "executed"
  /\ \A s \in Session, o \in Order : orders[<<s, o>>] = "lost" =>
       \E d \in decisions : d.session = s /\ d.order = o /\ d.outcome \in {"executed", "order_failed"}
  /\ \A d \in decisions :
       d.outcome = "order_failed" => orders[<<d.session, d.order>>] \in {"failed", "lost"}
  /\ \A a \in approvals :
       \E d \in decisions : <<d.session, d.n>> = a /\ d.outcome = "awaiting_approval"
  /\ \A d \in decisions :
       d.outcome = "executed" /\ orders[<<d.session, d.order>>] # "sent" =>
         \/ cycle[d.session].pc \in {"executing", "failing", "dead"}
         \/ \E e \in decisions : /\ e.session = d.session /\ e.order = d.order
                                 /\ e.n < d.n /\ e.outcome = "order_failed"

=============================================================================
