--------------------------- MODULE RiskGateProofs ---------------------------
(***************************************************************************)
(* Proofs about RiskGate, for any limits, orders, prices, positions and     *)
(* number of orders under way: what was read for an order is still true     *)
(* unless it was noted that it changed, and what the rules accept of it     *)
(* bounds what is filled.                                                   *)
(***************************************************************************)
EXTENDS RiskGate, Sums, TLAPS

Undecided == {"account", "positions", "quote", "decide"}

Accepted == {"submit", "open"}

Places == Undecided \cup Accepted \cup {"idle", "filled", "failed", "reject", "escalate", "error"}

Notes == {<<"capital">>} \cup {<<"fill", s>> : s \in Symbols} \cup {<<"price", s>> : s \in Symbols}

Context ==
  [state : States, equity : Int, last_equity : Int, day_trades : Nat,
   positions : [Symbols -> Int], values : [Symbols -> Int], exposure : Int, quote : Nat]

Request ==
  [pc : Places, order : Orders \cup {NoOrder}, confirmed : BOOLEAN, ctx : Context,
   since : SUBSET Notes]

\* What the positions say of a symbol.
Known(s) == IF s \in Unlisted THEN 0 ELSE held[s]

\* Nothing but the ledger has changed since the first read.
Calm(request) == request.since \subseteq {<<"capital">>}

\* A context is true of the world as far as it was read, while nothing is noted.
AccountRead(request) ==
  request.pc \in {"positions", "quote", "decide"} /\ Calm(request) =>
    request.ctx.equity = RawEquity(price) /\ request.ctx.last_equity = opening

PositionsRead(request) ==
  LET s == request.order.symbol IN
  request.pc \in {"quote", "decide"} \cup Accepted =>
    /\ <<"fill", s>> \notin request.since => request.ctx.positions[s] = Known(s)
    /\ Calm(request) =>
         /\ request.ctx.values[s] = Abs(Known(s)) * price[s]
         /\ request.ctx.exposure = Total(Value(held, price))

QuoteRead(request) ==
  request.pc \in {"decide"} \cup Accepted /\ Calm(request) =>
    request.ctx.quote \in {price[request.order.symbol], Unknown}

\* What goes to the broker was accepted, on the context it still carries.
Passed(request) ==
  request.pc \in Accepted => Evaluate(request.ctx, request.order, request.confirmed) = "execute"

RequestOK(request) ==
  /\ request \in Request
  /\ request.pc # "idle" => request.order \in Orders
  /\ AccountRead(request) /\ PositionsRead(request) /\ QuoteRead(request)
  /\ Passed(request)

WorldOK ==
  /\ state \in States
  /\ held \in [Symbols -> Int]
  /\ price \in [Symbols -> Prices]
  /\ {cash, opening, withdrawn} \subseteq Int

\* The inductive invariant.
GateInv ==
  /\ WorldOK
  /\ requests \in [Requests -> Request]
  /\ \A r \in Requests : RequestOK(requests[r])

-----------------------------------------------------------------------------
(* Numbers.                                                                *)

LEMMA PricesHaveAMin == Min(Prices) \in Prices
<1> DEFINE UpTo(n) == 0..n
<1>1. PICK top \in Prices : TRUE
  BY GateAssumption
<1> DEFINE T == {s \in SUBSET UpTo(top) : \E n \in Prices : s = UpTo(n)}
<1>2. IsFiniteSet(UpTo(top)) /\ T \subseteq SUBSET UpTo(top) /\ Prices \subseteq Nat
  <2>1. top \in Int /\ 0 \in Int /\ Prices \subseteq Nat
    BY GateAssumption
  <2> QED
    BY <2>1, FS_Interval
<1>3. UpTo(top) \in T
  BY <1>1
<1>4. PICK s \in T : \A t \in SUBSET s : t # s => t \notin T
  <2> HIDE DEF T, UpTo
  <2> QED
    BY <1>2, <1>3, SmallestSubset
<1>5. PICK n \in Prices : s = UpTo(n)
  BY <1>4
<1>6. \A m \in Prices : n <= m
  <2> SUFFICES ASSUME NEW m \in Prices, m < n PROVE FALSE
    BY <1>2
  <2>1. m \in Nat /\ n \in Nat
    BY <1>2
  <2>2. UpTo(m) \in SUBSET s /\ n \in s /\ n \notin UpTo(m)
    BY <1>5, <2>1
  <2>3. UpTo(m) \in T
    BY <1>4, <2>2
  <2> QED
    BY <1>4, <2>2, <2>3
<1>7. \E x \in Prices : \A y \in Prices : x <= y
  BY <1>6
<1> HIDE DEF T, UpTo
<1> QED
  BY <1>7 DEF Min

LEMMA MaxOfTwo ==
  ASSUME NEW a \in Int, NEW b \in Int
  PROVE  Max({a, b}) = IF a < b THEN b ELSE a
<1>1. \E x \in {a, b} : \A y \in {a, b} : x >= y
  OBVIOUS
<1>2. Max({a, b}) \in {a, b} /\ \A y \in {a, b} : Max({a, b}) >= y
  BY <1>1 DEF Max
<1> QED
  BY <1>2

LEMMA NotesDiffer ==
  \A s, t : /\ <<"fill", s>> # <<"capital">> /\ <<"price", s>> # <<"capital">>
            /\ <<"fill", s>> # <<"price", t>>
            /\ <<"fill", s>> = <<"fill", t>> => s = t
  OBVIOUS

LEMMA WorldIsTyped ==
  ASSUME WorldOK
  PROVE  /\ \A s \in Symbols : /\ held[s] \in Int /\ Abs(held[s]) \in Nat
                               /\ price[s] \in Nat \ {0}
                               /\ Known(s) \in Int /\ Abs(Known(s)) * price[s] \in Nat
         /\ RawEquity(price) \in Int
         /\ Total(Value(held, price)) \in Int
<1> DEFINE worth == [s \in Symbols |-> held[s] * price[s]]
           value == Value(held, price)
<1>1. /\ \A s \in Symbols : held[s] \in Int /\ price[s] \in Nat \ {0} /\ Abs(held[s]) \in Nat
      /\ IsFiniteSet(Symbols)
  <2>1. \A s \in Symbols : held[s] \in Int /\ price[s] \in Prices
    BY DEF WorldOK
  <2>2. \A s \in Symbols : Abs(held[s]) \in Nat
    BY <2>1 DEF Abs
  <2> QED
    BY <2>1, <2>2, GateAssumption
<1>2. \A s \in Symbols : Known(s) \in Int /\ Abs(Known(s)) \in Nat
  BY <1>1 DEF Known, Abs
<1>3. \A s \in Symbols : Abs(Known(s)) * price[s] \in Nat
  BY <1>1, <1>2
<1>4. \A s \in Symbols : worth[s] \in Int
  BY <1>1
<1>5. \A s \in Symbols : value[s] \in Int
  BY <1>1 DEF Value
<1>6. RawEquity(price) = cash + SumFunctionOnSet(worth, Symbols)
  BY DEF RawEquity
<1>7. Total(value) = SumFunctionOnSet(value, Symbols)
  BY DEF Total
<1> HIDE DEF worth, value
<1>8. SumFunctionOnSet(worth, Symbols) \in Int /\ SumFunctionOnSet(value, Symbols) \in Int
  BY <1>1, <1>4, <1>5, SumIsInt
<1>9. cash \in Int
  BY DEF WorldOK
<1> QED
  BY <1>1, <1>2, <1>3, <1>6, <1>7, <1>8, <1>9 DEF value

-----------------------------------------------------------------------------
(* Steps.                                                                  *)

LEMMA IdleIsARequest == Idle \in Request /\ Idle.pc = "idle"
<1>1. NoContext \in Context
  BY DEF NoContext, Context, States, Unknown
<1> QED
  BY <1>1 DEF Idle, Request, Places

LEMMA IdleIsOK == \A request \in Request :
  request.pc \in {"idle"} => RequestOK(request)
  BY DEF RequestOK, AccountRead, PositionsRead, QuoteRead, Passed, Accepted

\* An order that is over, one way or another, is nobody's business.
LEMMA OverIsOK == \A request \in Request :
  request.pc \in {"filled", "failed", "reject", "escalate", "error"} /\ request.order \in Orders
    => RequestOK(request)
  BY DEF RequestOK, AccountRead, PositionsRead, QuoteRead, Passed, Accepted

LEMMA InitGate == Init => GateInv
<1> SUFFICES ASSUME Init PROVE GateInv
  OBVIOUS
<1>1. state \in States /\ held \in [Symbols -> Int] /\ price \in [Symbols -> Prices]
      /\ cash \in Int /\ withdrawn \in Int
  BY GateAssumption, PricesHaveAMin DEF Init, States
<1>2. ASSUME NEW s \in Symbols
      PROVE  held[s] * price[s] \in Int
  <2>1. held[s] \in Int /\ price[s] \in Prices
    BY <1>1
  <2>2. Prices \subseteq Int
    BY GateAssumption
  <2>3. price[s] \in Int
    BY <2>1, <2>2
  <2> QED
    BY <2>1, <2>3
<1> DEFINE worth == [s \in Symbols |-> held[s] * price[s]]
<1>3. \A s \in Symbols : worth[s] \in Int
  BY <1>2
<1>4. opening = cash + SumFunctionOnSet(worth, Symbols)
  BY DEF Init, RawEquity
<1>5. IsFiniteSet(Symbols)
  BY GateAssumption
<1> HIDE DEF worth
<1>6. opening \in Int
  BY <1>1, <1>3, <1>4, <1>5, SumIsInt
<1>7. WorldOK
  BY <1>1, <1>6 DEF WorldOK
<1>8. requests = [r \in Requests |-> Idle]
  BY DEF Init
<1> QED
  BY <1>7, <1>8, IdleIsARequest, IdleIsOK DEF GateInv

\* One order goes on, and the world stays as it is.
LEMMA OneGoesOn ==
  ASSUME GateInv, UNCHANGED <<state, held, price, cash, opening, withdrawn>>,
         NEW r \in Requests, NEW request \in Request, RequestOK(request),
         requests' = [requests EXCEPT ![r] = request]
  PROVE  GateInv'
<1>1. /\ requests' \in [Requests -> Request]
      /\ \A k \in Requests : requests'[k] = IF k = r THEN request ELSE requests[k]
  BY DEF GateInv
<1>2. WorldOK'
  BY DEF GateInv, WorldOK
<1>3. \A k \in Requests : RequestOK(requests'[k])
  BY <1>1 DEF GateInv
<1>4. RawEquity(price)' = RawEquity(price) /\ Total(Value(held, price))' = Total(Value(held, price))
      /\ \A s : Known(s)' = Known(s)
  BY DEF RawEquity, Total, Value, Known
<1>5. (\A k \in Requests : RequestOK(requests[k]))'
  BY <1>3, <1>4 DEF RequestOK, AccountRead, PositionsRead, QuoteRead, Passed, Calm
<1> QED
  BY <1>1, <1>2, <1>5 DEF GateInv

\* What changes behind the back of an order is noted.
LEMMA NotedIsOK ==
  ASSUME GateInv, NEW r \in Requests, NEW what \in Notes,
         requests'[r] = IF Waiting(r) THEN [requests[r] EXCEPT !.since = @ \cup {what}] ELSE requests[r],
         \A s \in Symbols : what = <<"fill", s>> \/ held'[s] = held[s],
         what = <<"capital">> => UNCHANGED <<held, price, cash, opening>>
  PROVE  requests'[r] \in Request /\ RequestOK(requests[r])'
<1> DEFINE request == requests[r]
           next == requests'[r]
<1>1. request \in Request /\ RequestOK(request)
  BY DEF GateInv
<1>2. CASE ~ Waiting(r)
  <2>1. next = request /\ request.pc \notin {"account", "positions", "quote", "decide"} \cup Accepted
    BY <1>2 DEF Waiting, Accepted
  <2> QED
    BY <1>1, <2>1 DEF RequestOK, AccountRead, PositionsRead, QuoteRead, Passed
<1>3. CASE Waiting(r)
  <2>1. /\ next \in Request
        /\ next.pc = request.pc /\ next.order = request.order /\ next.ctx = request.ctx
        /\ next.confirmed = request.confirmed /\ next.since = request.since \cup {what}
    BY <1>1, <1>3 DEF Request
  <2>2. request.pc # "idle" /\ request.order \in Orders /\ request.order.symbol \in Symbols
    BY <1>1, <1>3, GateAssumption DEF Waiting, RequestOK
  <2> DEFINE s == request.order.symbol
  <2>3. Calm(next) => what = <<"capital">> /\ Calm(request)
    BY <2>1 DEF Calm
  <2>4. what = <<"capital">> =>
          /\ RawEquity(price)' = RawEquity(price) /\ opening' = opening /\ price' = price
          /\ Total(Value(held, price))' = Total(Value(held, price)) /\ Known(s)' = Known(s)
    BY DEF RawEquity, Total, Value, Known
  <2>5. <<"fill", s>> \notin next.since => <<"fill", s>> \notin request.since /\ Known(s)' = Known(s)
    BY <2>1, <2>2 DEF Known
  <2>6. AccountRead(requests[r])'
    BY <1>1, <2>1, <2>3, <2>4 DEF AccountRead, RequestOK, Calm
  <2>7. PositionsRead(requests[r])'
    BY <1>1, <2>1, <2>2, <2>3, <2>4, <2>5 DEF PositionsRead, RequestOK, Calm
  <2>8. QuoteRead(requests[r])' /\ Passed(requests[r])'
    BY <1>1, <2>1, <2>3, <2>4 DEF QuoteRead, Passed, RequestOK, Calm
  <2> QED
    BY <2>1, <2>2, <2>6, <2>7, <2>8 DEF RequestOK
<1> QED
  BY <1>2, <1>3

LEMMA OverIsOKNext ==
  ASSUME NEW r \in Requests, requests'[r] \in Request, requests'[r].order \in Orders,
         requests'[r].pc = "filled"
  PROVE  RequestOK(requests[r])'
  BY DEF RequestOK, AccountRead, PositionsRead, QuoteRead, Passed, Accepted

\* A part of the context is read.
LEMMA ReadSteps ==
  ASSUME GateInv, NEW r \in Requests,
         \/ \E order \in Orders, confirmed \in BOOLEAN : ReadState(r, order, confirmed)
         \/ ReadAccount(r) \/ ReadPositions(r) \/ ReadQuote(r)
  PROVE  GateInv'
<1> DEFINE request == requests[r]
           s == request.order.symbol
<1>1. /\ request \in Request /\ RequestOK(request) /\ WorldOK
      /\ request.ctx \in Context /\ state \in States
  BY DEF GateInv, Request, WorldOK
<1>2. UNCHANGED <<state, held, price, cash, opening, withdrawn>>
  BY DEF ReadState, ReadAccount, ReadPositions, ReadQuote
<1>3. request.pc # "idle" => request.order \in Orders /\ s \in Symbols
  BY <1>1, GateAssumption DEF RequestOK
<1>4. ASSUME NEW order \in Orders, NEW confirmed \in BOOLEAN, ReadState(r, order, confirmed)
      PROVE  GateInv'
  <2> DEFINE e == [Idle EXCEPT !.pc = "account", !.order = order, !.confirmed = confirmed,
                               !.ctx.state = state]
  <2>1. NoContext \in Context
    BY DEF NoContext, Context, States, Unknown
  <2>2. e \in Request /\ e.pc = "account" /\ e.order = order
    BY <1>1, <2>1 DEF Idle, Request, Places, Undecided, Context
  <2>3. requests' = [requests EXCEPT ![r] = e]
    BY <1>4 DEF ReadState
  <2> HIDE DEF e
  <2>4. RequestOK(e)
    BY <2>2 DEF RequestOK, AccountRead, PositionsRead, QuoteRead, Passed, Accepted
  <2> QED
    BY <1>2, <2>2, <2>3, <2>4, OneGoesOn
\* What the three others have in common.
<1>5. ASSUME NEW pc \in Places, NEW ctx \in Context, requests' = Goes(r, pc, ctx),
             request.order \in Orders
      PROVE  LET e == [request EXCEPT !.pc = pc, !.ctx = ctx] IN
             /\ e \in Request /\ requests' = [requests EXCEPT ![r] = e]
             /\ e.pc = pc /\ e.ctx = ctx /\ e.order = request.order
             /\ e.confirmed = request.confirmed /\ e.since = request.since
  BY <1>1, <1>5 DEF Goes, Request
<1>6. CASE ReadAccount(r)
  <2>1. PICK day_trades \in {0, MaxDayTrades + 1} :
          requests' = Goes(r, "positions",
            [request.ctx EXCEPT !.equity = RawEquity(price), !.last_equity = opening,
                                !.day_trades = day_trades])
    BY <1>6 DEF ReadAccount
  <2> DEFINE ctx == [request.ctx EXCEPT !.equity = RawEquity(price), !.last_equity = opening,
                                        !.day_trades = day_trades]
             e == [request EXCEPT !.pc = "positions", !.ctx = ctx]
  <2>2. request.order \in Orders /\ "positions" \in Places
    BY <1>3, <1>6 DEF ReadAccount, Places, Undecided
  <2>3. opening \in Int /\ RawEquity(price) \in Int /\ day_trades \in Nat
    BY <1>1, WorldIsTyped, LimitsAssumption DEF WorldOK
  <2>4. ctx \in Context /\ ctx.equity = RawEquity(price) /\ ctx.last_equity = opening
    BY <1>1, <2>3 DEF Context
  <2>7. requests' = Goes(r, "positions", ctx)
    BY <2>1
  <2> HIDE DEF ctx
  <2>5. /\ e \in Request /\ requests' = [requests EXCEPT ![r] = e]
        /\ e.pc = "positions" /\ e.ctx = ctx /\ e.order = request.order
    BY <1>5, <2>2, <2>4, <2>7
  <2> HIDE DEF e
  <2>6. RequestOK(e)
    BY <2>2, <2>4, <2>5 DEF RequestOK, AccountRead, PositionsRead, QuoteRead, Passed, Accepted
  <2> QED
    BY <1>2, <2>5, <2>6, OneGoesOn
<1>7. CASE ReadPositions(r)
  <2> DEFINE known == [t \in Symbols |-> IF t \in Unlisted THEN 0 ELSE held[t]]
             ctx == [request.ctx EXCEPT !.positions = known, !.values = Value(known, price),
                                        !.exposure = Total(Value(held, price))]
             e == [request EXCEPT !.pc = "quote", !.ctx = ctx]
  <2>1. requests' = Goes(r, "quote", ctx) /\ request.pc = "positions"
    BY <1>7 DEF ReadPositions
  <2>2. request.order \in Orders /\ s \in Symbols /\ "quote" \in Places
    BY <1>3, <2>1 DEF Places, Undecided
  <2>3. known \in [Symbols -> Int] /\ \A t \in Symbols : known[t] = Known(t)
    BY <1>1, WorldIsTyped DEF Known
  <2> HIDE DEF known
  <2>4. Value(known, price) \in [Symbols -> Int]
        /\ \A t \in Symbols : Value(known, price)[t] = Abs(Known(t)) * price[t]
    BY <1>1, <2>3, WorldIsTyped DEF Value
  <2>5. Total(Value(held, price)) \in Int
    BY <1>1, WorldIsTyped
  <2>6. /\ ctx \in Context /\ ctx.positions = known /\ ctx.values = Value(known, price)
        /\ ctx.exposure = Total(Value(held, price))
        /\ ctx.equity = request.ctx.equity /\ ctx.last_equity = request.ctx.last_equity
    BY <1>1, <2>3, <2>4, <2>5 DEF Context
  <2> HIDE DEF ctx
  <2>7. /\ e \in Request /\ requests' = [requests EXCEPT ![r] = e]
        /\ e.pc = "quote" /\ e.ctx = ctx /\ e.order = request.order /\ e.since = request.since
    BY <1>5, <2>1, <2>2, <2>6
  <2> HIDE DEF e
  <2>8. AccountRead(e)
    BY <1>1, <2>1, <2>6, <2>7 DEF RequestOK, AccountRead, Calm
  <2>9. PositionsRead(e)
    BY <2>2, <2>3, <2>4, <2>6, <2>7 DEF PositionsRead
  <2>10. RequestOK(e)
    BY <2>2, <2>7, <2>8, <2>9 DEF RequestOK, QuoteRead, Passed, Accepted
  <2> QED
    BY <1>2, <2>7, <2>10, OneGoesOn
<1>8. CASE ReadQuote(r)
  <2>1. PICK quote \in {price[s], Unknown} :
          requests' = Goes(r, "decide", [request.ctx EXCEPT !.quote = quote])
    BY <1>8 DEF ReadQuote
  <2> DEFINE ctx == [request.ctx EXCEPT !.quote = quote]
             e == [request EXCEPT !.pc = "decide", !.ctx = ctx]
  <2>2. request.pc = "quote" /\ request.order \in Orders /\ s \in Symbols /\ "decide" \in Places
    BY <1>3, <1>8 DEF ReadQuote, Places, Undecided
  <2>3. quote \in Nat
    BY <1>1, <2>2, WorldIsTyped DEF Unknown
  <2>4. /\ ctx \in Context /\ ctx.quote = quote
        /\ ctx.positions = request.ctx.positions /\ ctx.values = request.ctx.values
        /\ ctx.exposure = request.ctx.exposure
        /\ ctx.equity = request.ctx.equity /\ ctx.last_equity = request.ctx.last_equity
    BY <1>1, <2>3 DEF Context
  <2>10. requests' = Goes(r, "decide", ctx)
    BY <2>1
  <2> HIDE DEF ctx
  <2>5. /\ e \in Request /\ requests' = [requests EXCEPT ![r] = e]
        /\ e.pc = "decide" /\ e.ctx = ctx /\ e.order = request.order /\ e.since = request.since
    BY <1>5, <2>2, <2>4, <2>10
  <2> HIDE DEF e
  <2>6. AccountRead(e)
    BY <1>1, <2>2, <2>4, <2>5 DEF RequestOK, AccountRead, Calm
  <2>7. PositionsRead(e)
    BY <1>1, <2>2, <2>4, <2>5 DEF RequestOK, PositionsRead, Calm
  <2>8. QuoteRead(e)
    BY <2>4, <2>5 DEF QuoteRead
  <2>9. RequestOK(e)
    BY <2>2, <2>5, <2>6, <2>7, <2>8 DEF RequestOK, Passed, Accepted
  <2> QED
    BY <1>2, <2>5, <2>9, OneGoesOn
<1> QED
  BY <1>4, <1>6, <1>7, <1>8

\* A decision, and what comes of it.
LEMMA DecisionSteps ==
  ASSUME GateInv, NEW r \in Requests, Decide(r) \/ Submit(r) \/ BrokerLetsGo(r)
  PROVE  GateInv'
<1> DEFINE request == requests[r]
           s == request.order.symbol
<1>1. /\ request \in Request /\ RequestOK(request) /\ WorldOK
      /\ request.ctx \in Context /\ withdrawn \in Int
  BY DEF GateInv, Request, WorldOK
<1>2. UNCHANGED <<state, held, price, cash, opening, withdrawn>>
  BY DEF Decide, Submit, BrokerLetsGo
<1>3. request.order \in Orders
  BY <1>1 DEF RequestOK, Decide, Submit, BrokerLetsGo
<1>4. CASE Decide(r)
  <2> DEFINE ctx == Effective(request.ctx)
             decision == Evaluate(ctx, request.order, request.confirmed)
             pc == IF decision = "execute" THEN "submit" ELSE decision
             e == [request EXCEPT !.pc = pc, !.ctx = ctx]
  <2>1. /\ ctx \in Context
        /\ ctx.positions = request.ctx.positions /\ ctx.values = request.ctx.values
        /\ ctx.exposure = request.ctx.exposure /\ ctx.quote = request.ctx.quote
    <3>1. /\ request.ctx.equity \in Int /\ request.ctx.last_equity \in Int
          /\ request.ctx.equity - withdrawn \in Int /\ request.ctx.last_equity - withdrawn \in Int
      BY <1>1 DEF Context
    <3> QED
      BY <1>1, <3>1 DEF Effective, Context
  <2>2. decision \in {"error", "reject", "escalate", "execute"}
    BY DEF Evaluate
  <2>3. requests' = [requests EXCEPT ![r] = e] /\ request.pc = "decide"
    BY <1>4 DEF Decide, Goes
  <2> HIDE DEF ctx, decision
  <2>4. pc \in Places
    BY <2>2 DEF Places, Accepted
  <2>5. /\ e \in Request /\ e.pc = pc /\ e.ctx = ctx /\ e.order = request.order
        /\ e.since = request.since /\ e.confirmed = request.confirmed
    BY <1>1, <2>1, <2>4 DEF Request
  <2> HIDE DEF e
  <2>6. pc \in {"submit", "error", "reject", "escalate"} /\ (pc = "submit" => decision = "execute")
    BY <2>2
  <2>7. RequestOK(e)
    <3>1. CASE pc = "submit"
      <4>1. PositionsRead(e) /\ QuoteRead(e)
        BY <1>1, <2>1, <2>3, <2>5, <3>1 DEF RequestOK, PositionsRead, QuoteRead, Calm, Accepted
      <4>2. Passed(e) /\ AccountRead(e)
        BY <2>5, <2>6, <3>1 DEF Passed, AccountRead, decision
      <4> QED
        BY <1>3, <2>5, <4>1, <4>2 DEF RequestOK
    <3>2. CASE pc # "submit"
      BY <1>3, <2>5, <2>6, <3>2, OverIsOK
    <3> QED
      BY <3>1, <3>2
  <2> QED
    BY <1>2, <2>3, <2>5, <2>7, OneGoesOn
<1>5. CASE Submit(r)
  <2> DEFINE pc == IF state = "halted" THEN "failed" ELSE "open"
             e == [request EXCEPT !.pc = pc]
  <2>1. requests' = [requests EXCEPT ![r] = e] /\ request.pc = "submit"
    BY <1>5 DEF Submit
  <2>2. /\ e \in Request /\ e.pc = pc /\ e.ctx = request.ctx /\ e.order = request.order
        /\ e.since = request.since /\ e.confirmed = request.confirmed
    BY <1>1 DEF Request, Places, Accepted
  <2> HIDE DEF e
  <2>3. CASE pc = "open"
    <3>1. RequestOK(e)
      BY <1>1, <1>3, <2>1, <2>2, <2>3
         DEF RequestOK, AccountRead, PositionsRead, QuoteRead, Passed, Calm, Accepted
    <3> QED
      BY <1>2, <2>1, <2>2, <3>1, OneGoesOn
  <2>4. CASE pc = "failed"
    <3>1. RequestOK(e)
      BY <1>3, <2>2, <2>4, OverIsOK
    <3> QED
      BY <1>2, <2>1, <2>2, <3>1, OneGoesOn
  <2> QED
    BY <2>3, <2>4
<1>6. CASE BrokerLetsGo(r)
  <2> DEFINE e == [request EXCEPT !.pc = "failed"]
  <2>1. requests' = [requests EXCEPT ![r] = e]
    BY <1>6 DEF BrokerLetsGo
  <2>2. e \in Request /\ e.pc = "failed" /\ e.order = request.order
    BY <1>1 DEF Request, Places
  <2> HIDE DEF e
  <2>3. RequestOK(e)
    BY <1>3, <2>2, OverIsOK
  <2> QED
    BY <1>2, <2>1, <2>2, <2>3, OneGoesOn
<1> QED
  BY <1>4, <1>5, <1>6

\* The world moves on, and every order under way takes note.
LEMMA NotedSteps ==
  ASSUME GateInv, NEW what \in Notes, requests' = Noted(what, requests), WorldOK',
         \A s \in Symbols : what = <<"fill", s>> \/ held'[s] = held[s],
         what = <<"capital">> => UNCHANGED <<held, price, cash, opening>>
  PROVE  GateInv'
<1>1. \A r \in Requests :
        requests'[r] = IF Waiting(r) THEN [requests[r] EXCEPT !.since = @ \cup {what}] ELSE requests[r]
  BY DEF Noted
<1>2. \A r \in Requests : requests'[r] \in Request /\ RequestOK(requests[r])'
  BY <1>1, NotedIsOK
<1>3. requests' \in [Requests -> Request]
  BY <1>2 DEF Noted
<1> QED
  BY <1>2, <1>3 DEF GateInv

LEMMA TradedIsTyped ==
  ASSUME WorldOK, NEW s \in Symbols, NEW qty \in Int,
         held' = [held EXCEPT ![s] = @ + qty], cash' = cash - qty * price[s],
         UNCHANGED <<state, price, opening, withdrawn>>
  PROVE  WorldOK' /\ held'[s] = held[s] + qty /\ \A t \in Symbols : t = s \/ held'[t] = held[t]
<1>1. held[s] \in Int /\ price[s] \in Int /\ cash \in Int
  BY WorldIsTyped DEF WorldOK
<1>2. held[s] + qty \in Int /\ cash - qty * price[s] \in Int
  BY <1>1
<1> QED
  BY <1>2 DEF WorldOK

LEMMA WorldSteps ==
  ASSUME GateInv,
         \/ \E trade \in Trades : OthersTrade(trade)
         \/ \E s \in Symbols, to \in Prices : PriceMoves(s, to)
         \/ \E amount \in Int : Withdraw(amount)
         \/ \E to \in States : StateChanges(to)
  PROVE  GateInv'
<1>1. WorldOK
  BY DEF GateInv
<1>2. ASSUME NEW trade \in Trades, OthersTrade(trade) PROVE GateInv'
  <2>1. trade.symbol \in Symbols /\ trade.qty \in Int
    BY GateAssumption
  <2>2. WorldOK' /\ \A t \in Symbols : t = trade.symbol \/ held'[t] = held[t]
    BY <1>1, <1>2, <2>1, TradedIsTyped DEF OthersTrade
  <2>3. requests' = Noted(<<"fill", trade.symbol>>, requests)
    BY <1>2 DEF OthersTrade
  <2>4. <<"fill", trade.symbol>> \in Notes
    BY <2>1 DEF Notes
  <2> QED
    BY <2>2, <2>3, <2>4, NotesDiffer, NotedSteps
<1>3. ASSUME NEW s \in Symbols, NEW to \in Prices, PriceMoves(s, to) PROVE GateInv'
  <2>1. requests' = Noted(<<"price", s>>, requests) /\ held' = held /\ WorldOK'
    BY <1>1, <1>3 DEF PriceMoves, WorldOK
  <2>2. <<"price", s>> \in Notes
    BY DEF Notes
  <2> QED
    BY <2>1, <2>2, NotesDiffer, NotedSteps
<1>4. ASSUME NEW amount \in Int, Withdraw(amount) PROVE GateInv'
  <2>1. requests' = Noted(<<"capital">>, requests) /\ UNCHANGED <<held, price, cash, opening>> /\ WorldOK'
    BY <1>1, <1>4 DEF Withdraw, WorldOK
  <2>2. <<"capital">> \in Notes
    BY DEF Notes
  <2> QED
    BY <2>1, <2>2, NotedSteps
<1>5. ASSUME NEW to \in States, StateChanges(to) PROVE GateInv'
  BY <1>5 DEF StateChanges, GateInv, WorldOK, RequestOK, AccountRead, PositionsRead, QuoteRead,
              Passed, Calm, Known, RawEquity, Total, Value
<1> QED
  BY <1>2, <1>3, <1>4, <1>5

LEMMA FillStep ==
  ASSUME GateInv, NEW r \in Requests, BrokerFills(r)
  PROVE  /\ GateInv'
         /\ LET order == requests[r].order
                s     == order.symbol
            IN  /\ held'[s] = held[s] + order.side * order.qty
                /\ \A t \in Symbols : t = s \/ held'[t] = held[t]
         /\ UNCHANGED price
         /\ \A k \in Requests : k # r => requests'[k].pc = requests[k].pc
<1> DEFINE order == requests[r].order
           s == order.symbol
           what == <<"fill", s>>
           filled == [requests[r] EXCEPT !.pc = "filled"]
           side == order.side
           qty == order.qty
<1>1. /\ requests \in [Requests -> Request] /\ requests[r] \in Request /\ RequestOK(requests[r])
      /\ WorldOK /\ requests[r].pc = "open"
  BY DEF GateInv, BrokerFills
<1>2. order \in Orders
  BY <1>1 DEF RequestOK
<1>3. s \in Symbols /\ side \in {1, -1} /\ qty \in Nat
  BY <1>2, GateAssumption
<1>4. side * qty \in Int
  BY <1>3
<1>5. /\ WorldOK' /\ held'[s] = held[s] + side * qty
      /\ \A t \in Symbols : t = s \/ held'[t] = held[t]
  BY <1>1, <1>3, <1>4, TradedIsTyped DEF BrokerFills
<1>6. requests' = [Noted(what, requests) EXCEPT ![r] = filled]
  BY DEF BrokerFills
<1>7. what \in Notes
  BY <1>3 DEF Notes
<1>8. filled \in Request /\ filled.pc = "filled" /\ filled.order = order
  BY <1>1 DEF Request, Places
<1> HIDE DEF filled
<1>9. requests'[r] = filled
  BY <1>6 DEF Noted
<1>10. \A k \in Requests : k # r =>
         requests'[k] = IF Waiting(k) THEN [requests[k] EXCEPT !.since = @ \cup {what}] ELSE requests[k]
  BY <1>6 DEF Noted
<1>11. \A k \in Requests : k # r => requests'[k] \in Request /\ RequestOK(requests[k])'
  BY <1>5, <1>7, <1>10, NotesDiffer, NotedIsOK
<1>12. requests'[r] \in Request /\ RequestOK(requests[r])'
  BY <1>2, <1>8, <1>9, OverIsOKNext
<1>13. requests' \in [Requests -> Request]
  BY <1>6, <1>11, <1>12 DEF Noted
<1>14. GateInv'
  BY <1>5, <1>11, <1>12, <1>13 DEF GateInv
<1>15. \A k \in Requests : k # r => requests'[k].pc = requests[k].pc
  BY <1>1, <1>10 DEF Request
<1> QED
  BY <1>5, <1>14, <1>15 DEF BrokerFills

LEMMA NextGate == GateInv /\ [Next]_vars => GateInv'
<1> SUFFICES ASSUME GateInv, [Next]_vars PROVE GateInv'
  OBVIOUS
<1>1. ASSUME NEW r \in Requests,
             \/ \E order \in Orders, confirmed \in BOOLEAN : ReadState(r, order, confirmed)
             \/ ReadAccount(r) \/ ReadPositions(r) \/ ReadQuote(r)
      PROVE  GateInv'
  BY <1>1, ReadSteps
<1>2. ASSUME NEW r \in Requests, Decide(r) \/ Submit(r) \/ BrokerLetsGo(r) PROVE GateInv'
  BY <1>2, DecisionSteps
<1>3. ASSUME NEW r \in Requests, BrokerFills(r) PROVE GateInv'
  BY <1>3, FillStep
<1>4. ASSUME NEW pct \in Percents, Withdraw((RawEquity(price) * pct) \div 100) PROVE GateInv'
  <2>1. RawEquity(price) \in Int /\ pct \in Int
    BY WorldIsTyped, GateAssumption DEF GateInv
  <2>2. (RawEquity(price) * pct) \in Int
    BY <2>1
  <2>3. (RawEquity(price) * pct) \div 100 \in Int
    BY <2>2
  <2> QED
    BY <1>4, <2>3, WorldSteps
<1>5. ASSUME NEW amount \in Amounts, Withdraw(amount) PROVE GateInv'
  BY <1>5, WorldSteps, GateAssumption
<1>6. CASE UNCHANGED vars
  BY <1>6 DEF vars, GateInv, WorldOK, RequestOK, AccountRead, PositionsRead, QuoteRead,
              Passed, Calm, Known, RawEquity, Total, Value
<1> QED
  BY <1>1, <1>2, <1>3, <1>4, <1>5, <1>6, WorldSteps DEF Next

THEOREM GateInvariant == Spec => []GateInv
  BY InitGate, NextGate, PTL DEF Spec

-----------------------------------------------------------------------------
(* What the rules say of an order that is filled.                          *)

\* Only the broker fills, and only a decision refuses.
LEMMA WhoFills ==
  ASSUME GateInv, [Next]_vars, NEW r \in Requests, Fills(r)
  PROVE  BrokerFills(r)
<1>1. requests \in [Requests -> Request] /\ requests[r].pc = "open" /\ requests'[r].pc = "filled"
  BY DEF GateInv, Fills
<1>2. ASSUME NEW k \in Requests, NEW pc \in Places \ {"filled"}, NEW ctx, requests' = Goes(k, pc, ctx)
      PROVE  FALSE
  BY <1>1, <1>2 DEF Goes, Request
<1>3. ASSUME NEW what, requests' = Noted(what, requests)
      PROVE  FALSE
  BY <1>1, <1>3 DEF Noted, Request
<1>4. ASSUME NEW k \in Requests,
             \/ \E order \in Orders, confirmed \in BOOLEAN : ReadState(k, order, confirmed)
             \/ ReadAccount(k) \/ ReadPositions(k) \/ ReadQuote(k)
      PROVE  FALSE
  <2>1. CASE \E order \in Orders, confirmed \in BOOLEAN : ReadState(k, order, confirmed)
    <3>1. PICK order \in Orders, confirmed \in BOOLEAN : ReadState(k, order, confirmed)
      BY <2>1
    <3> DEFINE e == [Idle EXCEPT !.pc = "account", !.order = order, !.confirmed = confirmed,
                                 !.ctx.state = state]
    <3>2. requests' = [requests EXCEPT ![k] = e] /\ e.pc = "account"
      BY <3>1 DEF ReadState, Idle
    <3> HIDE DEF e
    <3> QED
      BY <1>1, <3>2
  <2>2. CASE ReadAccount(k) \/ ReadPositions(k) \/ ReadQuote(k)
    <3>1. "positions" \in Places \ {"filled"} /\ "quote" \in Places \ {"filled"}
          /\ "decide" \in Places \ {"filled"}
      BY DEF Places, Undecided
    <3> QED
      BY <1>2, <2>2, <3>1 DEF ReadAccount, ReadPositions, ReadQuote
  <2> QED
    BY <1>4, <2>1, <2>2
<1>5. ASSUME NEW k \in Requests, Decide(k) \/ Submit(k) \/ BrokerLetsGo(k)
      PROVE  FALSE
  <2>1. CASE Decide(k)
    <3>1. \A ctx, order, confirmed :
            (IF Evaluate(ctx, order, confirmed) = "execute" THEN "submit"
             ELSE Evaluate(ctx, order, confirmed)) \in Places \ {"filled"}
      BY DEF Evaluate, Places, Accepted
    <3> QED
      BY <1>2, <2>1, <3>1 DEF Decide
  <2>2. CASE Submit(k) \/ BrokerLetsGo(k)
    BY <1>1, <2>2 DEF Submit, BrokerLetsGo, Request
  <2> QED
    BY <1>5, <2>1, <2>2
<1>6. ASSUME NEW k \in Requests, BrokerFills(k), k # r
      PROVE  FALSE
  BY <1>1, <1>6, FillStep
<1>7. ~ UNCHANGED requests
  BY <1>1
<1>8. /\ ~ \E trade \in Trades : OthersTrade(trade)
      /\ ~ \E s \in Symbols, to \in Prices : PriceMoves(s, to)
      /\ ~ \E amount : Withdraw(amount)
      /\ ~ \E to \in States : StateChanges(to)
  BY <1>3, <1>7 DEF OthersTrade, PriceMoves, Withdraw, StateChanges
<1> QED
  BY <1>4, <1>5, <1>6, <1>7, <1>8 DEF Next, vars

LEMMA WhoRefuses ==
  ASSUME GateInv, [Next]_vars, NEW r \in Requests, Refused(r)
  PROVE  /\ Decide(r)
         /\ requests'[r].ctx = Effective(requests[r].ctx)
<1>1. requests \in [Requests -> Request] /\ requests[r].pc = "decide" /\ requests'[r].pc = "reject"
  BY DEF GateInv, Refused
<1>2. ASSUME NEW k \in Requests, NEW pc, NEW ctx, requests' = Goes(k, pc, ctx), k # r \/ pc # "reject"
      PROVE  FALSE
  BY <1>1, <1>2 DEF Goes, Request
<1>3. ASSUME NEW what, requests' = Noted(what, requests)
      PROVE  FALSE
  BY <1>1, <1>3 DEF Noted, Request
<1>4. ASSUME NEW k \in Requests,
             \/ \E order \in Orders, confirmed \in BOOLEAN : ReadState(k, order, confirmed)
             \/ ReadAccount(k) \/ ReadPositions(k) \/ ReadQuote(k)
      PROVE  FALSE
  <2>1. CASE \E order \in Orders, confirmed \in BOOLEAN : ReadState(k, order, confirmed)
    <3>1. PICK order \in Orders, confirmed \in BOOLEAN : ReadState(k, order, confirmed)
      BY <2>1
    <3> DEFINE e == [Idle EXCEPT !.pc = "account", !.order = order, !.confirmed = confirmed,
                                 !.ctx.state = state]
    <3>2. requests' = [requests EXCEPT ![k] = e] /\ e.pc = "account"
      BY <3>1 DEF ReadState, Idle
    <3> HIDE DEF e
    <3> QED
      BY <1>1, <3>2
  <2>2. CASE ReadAccount(k) \/ ReadPositions(k) \/ ReadQuote(k)
    BY <1>2, <2>2 DEF ReadAccount, ReadPositions, ReadQuote
  <2> QED
    BY <1>4, <2>1, <2>2
<1>5. ASSUME NEW k \in Requests, Submit(k) \/ BrokerLetsGo(k)
      PROVE  FALSE
  BY <1>1, <1>5 DEF Submit, BrokerLetsGo, Request
<1>6. ASSUME NEW k \in Requests, BrokerFills(k)
      PROVE  FALSE
  <2>1. k # r
    BY <1>1, <1>6 DEF BrokerFills
  <2> QED
    BY <1>1, <1>6, <2>1, FillStep
<1>7. ASSUME NEW k \in Requests, k # r, Decide(k)
      PROVE  FALSE
  BY <1>2, <1>7 DEF Decide
<1>8. ~ UNCHANGED requests
  BY <1>1
<1>9. /\ ~ \E trade \in Trades : OthersTrade(trade)
      /\ ~ \E s \in Symbols, to \in Prices : PriceMoves(s, to)
      /\ ~ \E amount : Withdraw(amount)
      /\ ~ \E to \in States : StateChanges(to)
  BY <1>3, <1>8 DEF OthersTrade, PriceMoves, Withdraw, StateChanges
<1>10. Decide(r)
  BY <1>4, <1>5, <1>6, <1>7, <1>8, <1>9 DEF Next, vars
<1>11. requests'[r].ctx = Effective(requests[r].ctx)
  BY <1>1, <1>10 DEF Decide, Goes, Request
<1> QED
  BY <1>10, <1>11

\* What is known of an order that is filled.
LEMMA FilledOrder ==
  ASSUME GateInv, [Next]_vars, NEW r \in Requests, Fills(r)
  PROVE  LET order == requests[r].order
             s     == order.symbol
         IN  /\ order \in Orders /\ s \in Symbols /\ order.side \in {1, -1}
             /\ order.qty \in Nat \ {0} /\ order.limit \in Nat
             /\ held[s] \in Int /\ price[s] \in Nat \ {0}
             /\ held'[s] = held[s] + order.side * order.qty /\ price' = price
             /\ \A t \in Symbols : t = s \/ held'[t] = held[t]
             /\ requests[r].ctx \in Context
             /\ PositionsRead(requests[r]) /\ QuoteRead(requests[r])
             /\ requests[r].pc = "open"
             /\ Evaluate(requests[r].ctx, order, requests[r].confirmed) = "execute"
<1>1. BrokerFills(r)
  BY WhoFills
<1>2. requests[r] \in Request /\ RequestOK(requests[r]) /\ WorldOK /\ requests[r].pc = "open"
  BY DEF GateInv, Fills
<1>3. requests[r].order \in Orders /\ requests[r].ctx \in Context
  BY <1>2 DEF RequestOK, Request
<1>4. requests[r].order.symbol \in Symbols /\ requests[r].order.side \in {1, -1}
      /\ requests[r].order.qty \in Nat \ {0} /\ requests[r].order.limit \in Nat
  BY <1>3, GateAssumption
<1> QED
  BY <1>1, <1>2, <1>3, <1>4, FillStep, WorldIsTyped DEF RequestOK, Passed, Accepted

\* An order that goes out passed every rule that rejects.
LEMMA Executed ==
  ASSUME NEW ctx, NEW order, NEW confirmed, Evaluate(ctx, order, confirmed) = "execute"
  PROVE  /\ r2_wind_down_direction(ctx, order) /\ r4_price_sanity(ctx, order)
         /\ r6_position_pct(ctx, order) /\ r7_total_exposure_pct(ctx, order)
         /\ (r9_order_notional(ctx, order) \/ confirmed)
  BY DEF Evaluate, REJECTING_RULES

\* What a trade makes of a position.
LEMMA TradeBounds ==
  ASSUME NEW h \in Int, NEW side \in {1, -1}, NEW qty \in Nat \ {0}
  PROVE  /\ Abs(h + side * qty) <= Abs(h) + qty
         /\ Abs(h + side * qty) \in Nat /\ Abs(h) \in Nat
         /\ h # 0 /\ ~ (h * side > 0) /\ ~ (qty > Abs(h)) =>
              /\ Abs(h + side * qty) = Abs(h) - qty
              /\ (h > 0 => h + side * qty >= 0) /\ (h < 0 => h + side * qty <= 0)
<1>1. CASE side = 1
  BY <1>1 DEF Abs
<1>2. CASE side = -1
  BY <1>2 DEF Abs
<1> QED
  BY <1>1, <1>2

\* A limit is off the price by its slack.
LEMMA SlackBounds ==
  ASSUME NEW qty \in Nat \ {0}, NEW limit \in Nat, NEW p \in Nat \ {0}
  PROVE  LET reference == IF limit # Unknown THEN limit ELSE p
             slack     == IF limit = Unknown THEN 0 ELSE qty * Abs(limit - p)
         IN  /\ slack \in Nat /\ qty * reference \in Nat /\ qty * p \in Nat
             /\ qty * p <= qty * reference + slack /\ qty * reference <= qty * p + slack
<1>1. qty * p \in Nat /\ qty * limit \in Nat /\ qty * (limit - p) = qty * limit - qty * p
      /\ qty * (p - limit) = qty * p - qty * limit
  OBVIOUS
<1>2. CASE limit = Unknown
  BY <1>1, <1>2 DEF Unknown
<1>3. CASE limit # Unknown /\ limit >= p
  <2>1. Abs(limit - p) = limit - p /\ limit - p \in Nat
    BY <1>3 DEF Abs
  <2>2. qty * (limit - p) \in Nat
    BY <2>1
  <2> QED
    BY <1>1, <1>3, <2>1, <2>2
<1>4. CASE limit # Unknown /\ limit < p
  <2>1. Abs(limit - p) = p - limit /\ p - limit \in Nat
    BY <1>4 DEF Abs
  <2>2. qty * (p - limit) \in Nat
    BY <2>1
  <2> QED
    BY <1>1, <1>4, <2>1, <2>2
<1> QED
  BY <1>2, <1>3, <1>4

\* What R6 and R7 make of an order against a position that is known.
Projection(existing, notional, known, order) ==
  IF IncreasesExposure(known, order) THEN existing + notional ELSE Max({0, existing - notional})

LEMMA ProjectionIs ==
  ASSUME NEW existing, NEW notional, NEW known, NEW order
  PROVE  /\ IncreasesExposure(known, order) =>
              Projection(existing, notional, known, order) = existing + notional
         /\ ~ IncreasesExposure(known, order) =>
              Projection(existing, notional, known, order) = Max({0, existing - notional})
  BY DEF Projection

\* What the rules project is no less than what the fill comes to, but for the
\* slack: rest is what other positions are worth, known what the rules were told.
LEMMA ProjectionBounds ==
  ASSUME NEW h \in Int, NEW known \in {0, h}, NEW order,
         order.side \in {1, -1}, order.qty \in Nat \ {0},
         NEW p \in Nat \ {0}, NEW rest \in Int, NEW notional \in Nat, NEW slack \in Nat,
         order.qty * p <= notional + slack, notional <= order.qty * p + slack
  PROVE  LET projected == Projection(rest + Abs(h) * p, notional, known, order)
         IN  /\ projected \in Int
             /\ rest + Abs(h + order.side * order.qty) * p - slack <= projected
<1> DEFINE qty == order.qty
           side == order.side
           now == Abs(h) * p
           then == Abs(h + side * qty) * p
           more == qty * p
<1>1. /\ Abs(h + side * qty) \in Nat /\ Abs(h) \in Nat /\ qty \in Nat
      /\ Abs(h + side * qty) <= Abs(h) + qty
  BY TradeBounds
<1>2. now \in Nat /\ then \in Nat /\ more \in Nat
  BY <1>1
<1>3. then <= now + more
  <2>1. Abs(h + side * qty) * p <= (Abs(h) + qty) * p
    BY <1>1
  <2>2. (Abs(h) + qty) * p = Abs(h) * p + qty * p
    BY <1>1
  <2> QED
    BY <2>1, <2>2
<1>4. CASE IncreasesExposure(known, order)
  <2>1. Projection(rest + now, notional, known, order) = rest + now + notional
    BY <1>4, ProjectionIs
  <2> HIDE DEF now, then, more
  <2>2. more <= notional + slack
    BY DEF more
  <2>3. rest + now + notional \in Int /\ rest + then - slack <= rest + now + notional
    BY <1>2, <1>3, <2>2
  <2> QED
    BY <2>1, <2>3 DEF now, then
<1>5. CASE ~ IncreasesExposure(known, order)
  <2>4. Projection(rest + now, notional, known, order) = Max({0, (rest + now) - notional})
    BY <1>5, ProjectionIs
  <2>1. known = h /\ h # 0 /\ ~ (h * side > 0) /\ ~ (qty > Abs(h))
    BY <1>5 DEF IncreasesExposure
  <2>2. Abs(h + side * qty) = Abs(h) - qty
    BY <2>1, TradeBounds
  <2>3. then = now - more
    <3>1. (Abs(h) - qty) * p = Abs(h) * p - qty * p
      BY <1>1
    <3> QED
      BY <2>2, <3>1
  <2> HIDE DEF now, then, more
  <2>5. (rest + now) - notional \in Int
    BY <1>2
  <2>6. /\ Max({0, (rest + now) - notional}) \in Int
        /\ (rest + now) - notional <= Max({0, (rest + now) - notional})
    BY <2>5, MaxOfTwo
  <2>7. notional <= more + slack
    BY DEF more
  <2>8. rest + then - slack <= (rest + now) - notional
    BY <1>2, <2>3, <2>7
  <2>9. rest + then - slack <= Max({0, (rest + now) - notional})
    BY <1>2, <2>5, <2>6, <2>8
  <2> QED
    BY <2>4, <2>6, <2>9 DEF now, then
<1> QED
  BY <1>4, <1>5

\* A position is a part of the whole, before a fill and after it.
LEMMA TotalSplits ==
  ASSUME WorldOK, WorldOK', NEW s \in Symbols, UNCHANGED price,
         \A t \in Symbols : t = s \/ held'[t] = held[t]
  PROVE  \E rest \in Int :
           /\ Total(Value(held, price)) = rest + Abs(held[s]) * price[s]
           /\ Total(Value(held, price))' = rest + Abs(held'[s]) * price[s]
<1> DEFINE now == [t \in Symbols |-> Abs(held[t]) * price[t]]
           then == [t \in Symbols |-> Abs(held'[t]) * price[t]]
           others == Symbols \ {s}
           rest == SumFunctionOnSet(now, others)
<1>1. IsFiniteSet(Symbols) /\ IsFiniteSet(others) /\ others \subseteq Symbols
  BY GateAssumption, FS_Subset
<1>2. ASSUME NEW t \in Symbols
      PROVE  now[t] \in Int /\ then[t] \in Int
  <2>1. held[t] \in Int /\ held'[t] \in Int
    BY DEF WorldOK
  <2>2. price[t] \in Int
    BY WorldIsTyped
  <2>3. Abs(held[t]) \in Int /\ Abs(held'[t]) \in Int
    BY <2>1 DEF Abs
  <2> QED
    BY <2>2, <2>3
<1>3. \A t \in others : now[t] = then[t]
  OBVIOUS
<1>4. now[s] = Abs(held[s]) * price[s] /\ then[s] = Abs(held'[s]) * price[s]
  OBVIOUS
<1>5. Total(Value(held, price)) = SumFunctionOnSet(now, Symbols)
      /\ Total(Value(held, price))' = SumFunctionOnSet(then, Symbols)
  BY DEF Total, Value
<1> HIDE DEF now, then, others
<1>6. SumFunctionOnSet(now, Symbols) = now[s] + SumFunctionOnSet(now, others)
      /\ SumFunctionOnSet(then, Symbols) = then[s] + SumFunctionOnSet(then, others)
  BY <1>1, <1>2, SumWithout DEF others
<1>7. SumFunctionOnSet(then, others) = SumFunctionOnSet(now, others)
  BY <1>1, <1>3, SumOfSame
<1>8. rest \in Int
  BY <1>1, <1>2, SumIsInt
<1> HIDE DEF rest
<1>9. SumFunctionOnSet(now, Symbols) = rest + now[s] /\ SumFunctionOnSet(then, Symbols) = rest + then[s]
  BY <1>2, <1>6, <1>7, <1>8 DEF rest
<1> QED
  BY <1>4, <1>5, <1>8, <1>9

-----------------------------------------------------------------------------
(* The properties.                                                         *)

\* rules.py:42-51, 69-89: an order decided while winding down makes its position
\* smaller and never turns it, whatever else happens in between, as long as no
\* other order of the symbol was filled after the positions had been read.
THEOREM WindingDownShrinks == Spec => WindDownShrinks
<1>1. ASSUME GateInv, [Next]_vars, NEW r \in Requests, Fills(r),
             requests[r].ctx.state = "winding_down",
             <<"fill", requests[r].order.symbol>> \notin requests[r].since
      PROVE  LET s == requests[r].order.symbol
             IN  Abs(held'[s]) < Abs(held[s]) /\ held'[s] * held[s] >= 0
  <2> DEFINE order == requests[r].order
             s == order.symbol
             h == held[s]
             ctx == requests[r].ctx
  <2>1. /\ order.side \in {1, -1} /\ order.qty \in Nat \ {0} /\ h \in Int
        /\ held'[s] = h + order.side * order.qty
        /\ PositionsRead(requests[r]) /\ requests[r].pc = "open"
        /\ Evaluate(ctx, order, requests[r].confirmed) = "execute"
    BY <1>1, FilledOrder
  <2>2. ctx.positions[s] = Known(s)
    BY <1>1, <2>1 DEF PositionsRead, Accepted
  <2>3. r2_wind_down_direction(ctx, order)
    BY <2>1, Executed
  <2>4. ~ IncreasesExposure(ctx.positions[s], order)
    BY <1>1, <2>3 DEF r2_wind_down_direction, Increases
  <2>5. Known(s) = h /\ h # 0 /\ ~ (h * order.side > 0) /\ ~ (order.qty > Abs(h))
    BY <2>2, <2>4 DEF Known, IncreasesExposure
  <2> HIDE DEF order, s, h, ctx
  <2>6. /\ Abs(h + order.side * order.qty) = Abs(h) - order.qty /\ Abs(h) \in Nat
        /\ (h > 0 => h + order.side * order.qty >= 0) /\ (h < 0 => h + order.side * order.qty <= 0)
    BY <2>1, <2>5, TradeBounds
  <2>7. held'[s] \in Int /\ (h > 0 => held'[s] >= 0) /\ (h < 0 => held'[s] <= 0)
    BY <2>1, <2>6
  <2>8. held'[s] * h >= 0
    BY <2>1, <2>5, <2>7
  <2>9. Abs(held'[s]) < Abs(h)
    BY <2>1, <2>6
  <2> QED
    BY <2>8, <2>9 DEF order, s, h
<1>2. GateInv /\ [Next]_vars =>
        [\A r \in Requests :
           LET s == requests[r].order.symbol IN
           /\ Fills(r)
           /\ requests[r].ctx.state = "winding_down"
           /\ <<"fill", s>> \notin requests[r].since
           => Abs(held'[s]) < Abs(held[s]) /\ held'[s] * held[s] >= 0]_vars
  BY <1>1
<1> QED
  BY <1>2, InitGate, NextGate, PTL DEF Spec, WindDownShrinks

\* rules.py:144-204, 227-245: what is filled of an order that nothing overtook
\* stays within the limits of the equity the operator left, its position for
\* itself and the account as a whole, but for the slack of its own limit, and it
\* is above the notional only if it was confirmed.
THEOREM TheLimitsHold == Spec => LimitsHold
<1>1. ASSUME GateInv, [Next]_vars, NEW r \in Requests, Fills(r), requests[r].since = {}
      PROVE  LET ctx == requests[r].ctx
                 s   == requests[r].order.symbol
             IN  /\ s \notin Unlisted =>
                      100 * (Value(held, price)'[s] - Slack(r)) <= ctx.equity * MaxPositionPct
                 /\ 100 * (Total(Value(held, price))' - Slack(r)) <= ctx.equity * MaxTotalPct
                 /\ requests[r].order.qty * price[s] - Slack(r) > MaxNotional => requests[r].confirmed
  <2> DEFINE order == requests[r].order
             s == order.symbol
             h == held[s]
             p == price[s]
             ctx == requests[r].ctx
             reference == IF order.limit # Unknown THEN order.limit ELSE p
             notional == order.qty * reference
  <2>1. /\ order.side \in {1, -1} /\ order.qty \in Nat \ {0} /\ order.limit \in Nat
        /\ h \in Int /\ p \in Nat \ {0} /\ s \in Symbols
        /\ held'[s] = h + order.side * order.qty /\ price' = price
        /\ \A t \in Symbols : t = s \/ held'[t] = held[t]
        /\ PositionsRead(requests[r]) /\ QuoteRead(requests[r]) /\ requests[r].pc = "open"
        /\ Evaluate(ctx, order, requests[r].confirmed) = "execute"
        /\ ctx \in Context
    BY <1>1, FilledOrder
  <2>2. Calm(requests[r]) /\ <<"fill", s>> \notin requests[r].since
    BY <1>1 DEF Calm
  <2>3. /\ ctx.positions[s] = Known(s) /\ ctx.values[s] = Abs(Known(s)) * p
        /\ ctx.exposure = Total(Value(held, price))
    BY <2>1, <2>2 DEF PositionsRead, Accepted
  <2>4. /\ r4_price_sanity(ctx, order) /\ r6_position_pct(ctx, order)
        /\ r7_total_exposure_pct(ctx, order)
        /\ (r9_order_notional(ctx, order) \/ requests[r].confirmed)
    BY <2>1, Executed
  <2>5. ctx.quote = p
    BY <2>1, <2>2, <2>4 DEF QuoteRead, Accepted, r4_price_sanity
  <2>6. /\ ReferencePrice(ctx, order) = reference /\ Notional(ctx, order) = notional
        /\ Increases(ctx, order) <=> IncreasesExposure(Known(s), order)
    BY <2>3, <2>5 DEF ReferencePrice, Notional, Increases
  <2>7. Slack(r) = IF order.limit = Unknown THEN 0 ELSE order.qty * Abs(order.limit - p)
    BY <2>5 DEF Slack
  <2>8. /\ Slack(r) \in Nat /\ notional \in Nat /\ order.qty * p \in Nat
        /\ order.qty * p <= notional + Slack(r) /\ notional <= order.qty * p + Slack(r)
    BY <2>1, <2>7, SlackBounds
  <2>9. ctx.equity \in Int /\ {MaxPositionPct, MaxTotalPct, MaxNotional} \subseteq Nat
        /\ ctx.equity * MaxPositionPct \in Int /\ ctx.equity * MaxTotalPct \in Int
    <3>1. ctx.equity \in Int /\ {MaxPositionPct, MaxTotalPct, MaxNotional} \subseteq Nat
      BY <2>1, LimitsAssumption DEF Context
    <3> QED
      BY <3>1
  <2>10. WorldOK /\ WorldOK'
    BY <1>1, NextGate DEF GateInv
  <2>11. /\ 100 * Projection(Abs(Known(s)) * p, notional, Known(s), order) <= ctx.equity * MaxPositionPct
         /\ 100 * Projection(Total(Value(held, price)), notional, Known(s), order)
              <= ctx.equity * MaxTotalPct
         /\ notional <= MaxNotional \/ requests[r].confirmed
    <3> DEFINE existing == Abs(Known(s)) * p
               exposure == Total(Value(held, price))
    <3> HIDE DEF reference, notional, existing, exposure
    <3>1. ctx.values[s] = existing /\ ctx.exposure = exposure
      BY <2>3 DEF existing, exposure
    <3>2. 100 * Projection(existing, notional, Known(s), order) <= ctx.equity * MaxPositionPct
      BY <2>4, <2>6, <3>1 DEF r6_position_pct, ProjectedValue, Projection
    <3>3. 100 * Projection(exposure, notional, Known(s), order) <= ctx.equity * MaxTotalPct
      BY <2>4, <2>6, <3>1 DEF r7_total_exposure_pct, ProjectedValue, Projection
    <3>4. notional <= MaxNotional \/ requests[r].confirmed
      BY <2>4, <2>6 DEF r9_order_notional
    <3> QED
      BY <3>2, <3>3, <3>4 DEF existing, exposure
  <2>12. Value(held, price)'[s] = Abs(held'[s]) * p
    BY <2>1 DEF Value
  <2>13. PICK rest \in Int :
           /\ Total(Value(held, price)) = rest + Abs(h) * p
           /\ Total(Value(held, price))' = rest + Abs(held'[s]) * p
    BY <2>1, <2>10, TotalSplits
  <2>14. Abs(held'[s]) * p \in Int /\ Abs(h) * p \in Int
    <3>1. Abs(held'[s]) \in Int /\ Abs(h) \in Int /\ p \in Int
      BY <2>1, TradeBounds
    <3> QED
      BY <3>1
  <2> HIDE DEF order, s, h, p, ctx, notional
  <2>15. s \notin Unlisted =>
           100 * (Value(held, price)'[s] - Slack(r)) <= ctx.equity * MaxPositionPct
    <3> SUFFICES ASSUME s \notin Unlisted
                 PROVE  100 * (Value(held, price)'[s] - Slack(r)) <= ctx.equity * MaxPositionPct
      OBVIOUS
    <3> DEFINE projected == Projection(0 + Abs(h) * p, notional, Known(s), order)
    <3>1. Known(s) = h
      BY DEF Known, h
    <3>2. projected \in Int /\ 0 + Abs(h + order.side * order.qty) * p - Slack(r) <= projected
      BY <2>1, <2>8, <3>1, ProjectionBounds
    <3>3. 0 + Abs(h) * p = Abs(h) * p
      BY <2>14
    <3>4. 100 * projected <= ctx.equity * MaxPositionPct
      BY <2>11, <3>1, <3>3
    <3> HIDE DEF projected
    <3>5. Abs(held'[s]) * p - Slack(r) <= projected
      BY <2>1, <2>8, <2>14, <3>2
    <3> QED
      BY <2>8, <2>9, <2>12, <2>14, <3>2, <3>4, <3>5
  <2>16. 100 * (Total(Value(held, price))' - Slack(r)) <= ctx.equity * MaxTotalPct
    <3> DEFINE projected == Projection(rest + Abs(h) * p, notional, Known(s), order)
    <3>1. Known(s) \in {0, h}
      BY DEF Known, h
    <3>2. projected \in Int /\ rest + Abs(h + order.side * order.qty) * p - Slack(r) <= projected
      BY <2>1, <2>8, <3>1, ProjectionBounds
    <3>3. 100 * projected <= ctx.equity * MaxTotalPct
      BY <2>11, <2>13
    <3> HIDE DEF projected
    <3>4. rest + Abs(held'[s]) * p - Slack(r) <= projected
      BY <2>1, <3>2
    <3> QED
      BY <2>8, <2>9, <2>13, <2>14, <3>2, <3>3, <3>4
  <2>17. order.qty * p - Slack(r) > MaxNotional => requests[r].confirmed
    BY <2>8, <2>9, <2>11
  <2> QED
    BY <2>15, <2>16, <2>17 DEF order, s, p, ctx
<1>2. GateInv /\ [Next]_vars =>
        [\A r \in Requests : Fills(r) /\ requests[r].since = {} =>
           LET ctx == requests[r].ctx
               s   == requests[r].order.symbol
           IN  /\ s \notin Unlisted =>
                    100 * (Value(held, price)'[s] - Slack(r)) <= ctx.equity * MaxPositionPct
               /\ 100 * (Total(Value(held, price))' - Slack(r)) <= ctx.equity * MaxTotalPct
               /\ requests[r].order.qty * price[s] - Slack(r) > MaxNotional => requests[r].confirmed]_vars
  BY <1>1
<1> QED
  BY <1>2, InitGate, NextGate, PTL DEF Spec, LimitsHold

\* rules.py:207-224, risk_context.py:57-68: an order is not refused for the loss of
\* the day unless the broker's own figures show that loss, whatever was withdrawn.
THEOREM WithdrawalsAreNoLoss == Spec => WithdrawalIsNoLoss
<1>1. ASSUME GateInv, [Next]_vars, NEW r \in Requests, Refused(r),
             requests[r].since \subseteq {<<"capital">>},
             RawEquity(price) - opening > DailyLossLimit
      PROVE  r8_daily_loss_limit(requests'[r].ctx, requests[r].order)
  <2> DEFINE ctx == requests[r].ctx
  <2>1. requests'[r].ctx = Effective(ctx)
    BY <1>1, WhoRefuses
  <2>2. /\ RequestOK(requests[r]) /\ ctx \in Context /\ requests[r].pc = "decide"
        /\ withdrawn \in Int /\ opening \in Int /\ RawEquity(price) \in Int
    BY <1>1, WorldIsTyped DEF GateInv, Request, Refused, WorldOK
  <2>3. ctx.equity = RawEquity(price) /\ ctx.last_equity = opening
    BY <1>1, <2>2 DEF RequestOK, AccountRead, Calm
  <2>4. Effective(ctx).equity = ctx.equity - withdrawn
        /\ Effective(ctx).last_equity = ctx.last_equity - withdrawn
    BY <2>2 DEF Effective, Context
  <2> HIDE DEF ctx
  <2>5. Effective(ctx).equity - Effective(ctx).last_equity = RawEquity(price) - opening
    BY <2>2, <2>3, <2>4
  <2> QED
    BY <1>1, <2>1, <2>5 DEF r8_daily_loss_limit
<1>2. GateInv /\ [Next]_vars =>
        [\A r \in Requests :
           Refused(r) /\ requests[r].since \subseteq {<<"capital">>}
             /\ RawEquity(price) - opening > DailyLossLimit
           => r8_daily_loss_limit(requests'[r].ctx, requests[r].order)]_vars
  BY <1>1
<1> QED
  BY <1>2, InitGate, NextGate, PTL DEF Spec, WithdrawalIsNoLoss

\* rules.py:144-151: an order at the market that closes the whole of a listed
\* position fails neither for its direction nor for the size of the position.
THEOREM TheWayOutIsOpen == Spec => ClosingIsNotBlocked
<1>1. ASSUME GateInv, [Next]_vars, NEW r \in Requests, Refused(r),
             requests[r].since \subseteq {<<"capital">>},
             requests[r].order.symbol \notin Unlisted,
             requests[r].order.side * requests[r].order.qty = - held[requests[r].order.symbol],
             requests[r].order.limit = Unknown,
             requests'[r].ctx.quote # Unknown, requests'[r].ctx.equity > 0
      PROVE  /\ r2_wind_down_direction(requests'[r].ctx, requests[r].order)
             /\ r6_position_pct(requests'[r].ctx, requests[r].order)
  <2> DEFINE order == requests[r].order
             s == order.symbol
             h == held[s]
             p == price[s]
             ctx == requests'[r].ctx
  <2>1. ctx = Effective(requests[r].ctx)
    BY <1>1, WhoRefuses
  <2>2. /\ RequestOK(requests[r]) /\ requests[r].ctx \in Context /\ requests[r].pc = "decide"
        /\ withdrawn \in Int /\ WorldOK
    BY <1>1 DEF GateInv, Request, Refused, WorldOK
  <2>3. /\ ctx.positions = requests[r].ctx.positions /\ ctx.values = requests[r].ctx.values
        /\ ctx.quote = requests[r].ctx.quote /\ ctx.equity = requests[r].ctx.equity - withdrawn
        /\ ctx.equity \in Int
    BY <2>1, <2>2 DEF Effective, Context
  <2>4. order \in Orders
    BY <2>2 DEF RequestOK
  <2>5. s \in Symbols /\ order.side \in {1, -1} /\ order.qty \in Nat \ {0}
    BY <2>4, GateAssumption
  <2>6. h \in Int /\ p \in Nat \ {0}
    BY <2>2, <2>5, WorldIsTyped
  <2>7. /\ ctx.positions[s] = h /\ ctx.values[s] = Abs(h) * p /\ ctx.quote = p
    <3>1. Known(s) = h
      BY <1>1 DEF Known
    <3>2. Calm(requests[r]) /\ <<"fill", s>> \notin requests[r].since
      BY <1>1, NotesDiffer DEF Calm
    <3>3. requests[r].ctx.quote \in {p, Unknown}
      BY <2>2, <3>2 DEF RequestOK, QuoteRead
    <3> QED
      BY <1>1, <2>2, <2>3, <3>1, <3>2, <3>3 DEF RequestOK, PositionsRead
  <2>8. h = - (order.side * order.qty) /\ Abs(h) = order.qty /\ h # 0 /\ ~ (h * order.side > 0)
    <3>1. CASE order.side = 1
      BY <1>1, <2>5, <2>6, <3>1 DEF Abs
    <3>2. CASE order.side = -1
      BY <1>1, <2>5, <2>6, <3>2 DEF Abs
    <3> QED
      BY <2>5, <3>1, <3>2
  <2>9. ~ Increases(ctx, order)
    <3>1. ~ (order.qty > Abs(h))
      BY <2>5, <2>8
    <3> QED
      BY <2>7, <2>8, <3>1 DEF Increases, IncreasesExposure
  <2>10. ReferencePrice(ctx, order) = p /\ Notional(ctx, order) = order.qty * p
    BY <1>1, <2>7 DEF ReferencePrice, Notional
  <2>11. ProjectedValue(ctx.values[s], Notional(ctx, order), Increases(ctx, order)) = 0
    <3>1. order.qty * p \in Int /\ order.qty * p - order.qty * p = 0
      BY <2>5, <2>6
    <3>2. Max({0, ctx.values[s] - Notional(ctx, order)}) = 0
      BY <2>7, <2>8, <2>10, <3>1, MaxOfTwo
    <3> QED
      BY <2>9, <3>2, Zenon DEF ProjectedValue
  <2>12. r2_wind_down_direction(ctx, order)
    BY <2>9 DEF r2_wind_down_direction
  <2>13. 0 <= ctx.equity * MaxPositionPct
    <3>1. MaxPositionPct \in Nat /\ ctx.equity \in Nat
      BY <1>1, <2>3, LimitsAssumption
    <3> HIDE DEF ctx
    <3>2. ctx.equity * MaxPositionPct \in Nat
      BY <3>1
    <3> QED
      BY <3>2
  <2>14. r6_position_pct(ctx, order)
    <3>1. ReferencePrice(ctx, order) # Unknown
      BY <2>6, <2>10 DEF Unknown
    <3> QED
      BY <2>11, <2>13, <3>1 DEF r6_position_pct
  <2> QED
    BY <2>12, <2>14
<1>2. GateInv /\ [Next]_vars =>
        [\A r \in Requests :
           LET ctx   == requests'[r].ctx
               order == requests[r].order
           IN  /\ Refused(r) /\ requests[r].since \subseteq {<<"capital">>}
               /\ order.symbol \notin Unlisted
               /\ order.side * order.qty = - held[order.symbol] /\ order.limit = Unknown
               /\ ctx.quote # Unknown /\ ctx.equity > 0
               => r2_wind_down_direction(ctx, order) /\ r6_position_pct(ctx, order)]_vars
  BY <1>1
<1> QED
  BY <1>2, InitGate, NextGate, PTL DEF Spec, ClosingIsNotBlocked

=============================================================================
