------------------------------- MODULE RiskGate ------------------------------
(***************************************************************************)
(* Orders on their way through the gate of RiskRules, with what             *)
(* api/risk_context.py and capital/ledger.py read for it: the trading       *)
(* state, the account, the positions, the quote and the withdrawals, one    *)
(* await after another, while the market moves, the operator withdraws or   *)
(* winds down, and other orders fill.  The submission is short here, its    *)
(* failures are those of OrderExecution; the broker may fill an order or    *)
(* let it go.                                                               *)
(***************************************************************************)
EXTENDS RiskRules, FiniteSets

CONSTANTS
  Requests,      \* orders under way at once
  Orders,        \* what may be asked for: symbol, side (1 or -1), qty, limit
  Unlisted,      \* crypto symbols the watch list does not have
  Prices,        \* prices of the market
  Worlds,        \* what is held at first, a quantity for every symbol
  Cash,          \* the cash at first
  Trades,        \* what others trade in the meantime: the exit jobs, the broker's web site
  Amounts,       \* amounts the operator may withdraw, and ...
  Percents,      \* ... percentages
  MaxMoves,      \* bound: moves of prices
  MaxTrades,     \* bound: trades of others
  MaxWithdrawals \* bound: withdrawals

ASSUME GateAssumption ==
  /\ IsFiniteSet(Symbols)
  /\ Orders \subseteq [symbol : Symbols, side : {1, -1}, qty : Nat \ {0}, limit : Nat]
  /\ Trades \subseteq [symbol : Symbols, qty : Int]
  /\ Unlisted \subseteq Symbols
  /\ Prices \subseteq Nat \ {0} /\ Prices # {}
  /\ Worlds \subseteq [Symbols -> Int]
  /\ {Cash, MaxMoves, MaxTrades, MaxWithdrawals} \subseteq Nat
  /\ Amounts \subseteq Nat \ {0} /\ Percents \subseteq 1..100

VARIABLES
  state,     \* the trading state
  held,      \* the shares of the account
  price,     \* the last price of each symbol
  cash,      \* the cash of the account
  opening,   \* last_equity: the equity at the last close
  withdrawn, \* what the operator took out, by the ledger
  requests,  \* where each order is, and what was read for it
  left       \* what remains of the bounds

vars == <<state, held, price, cash, opening, withdrawn, requests, left>>

States == {"active", "winding_down", "halted"}

Value(shares, at) == [s \in Symbols |-> Abs(shares[s]) * at[s]]

Total(value) == SumFunctionOnSet(value, Symbols)

\* What the broker reports as the equity: short shares count against it.
RawEquity(at) == cash + SumFunctionOnSet([s \in Symbols |-> held[s] * at[s]], Symbols)

NoContext ==
  [state |-> "active", equity |-> 0, last_equity |-> 0, day_trades |-> 0,
   positions |-> [s \in Symbols |-> 0], values |-> [s \in Symbols |-> 0],
   exposure |-> 0, quote |-> Unknown]

NoOrder == CHOOSE o \in Orders : TRUE

Idle == [pc |-> "idle", order |-> NoOrder, confirmed |-> FALSE, ctx |-> NoContext, since |-> {}]

Waiting(r) == requests[r].pc \in {"account", "positions", "quote", "decide", "submit", "open"}

\* Every request under way learns that something changed behind its back.
Noted(what, rs) ==
  [r \in Requests |-> IF Waiting(r) THEN [rs[r] EXCEPT !.since = @ \cup {what}] ELSE rs[r]]

Goes(r, pc, ctx) == [requests EXCEPT ![r].pc = pc, ![r].ctx = ctx]

Init ==
  /\ state = "active"
  /\ held \in Worlds
  /\ price \in [Symbols -> {Min(Prices)}]
  /\ cash = Cash
  /\ opening = RawEquity(price)
  /\ withdrawn = 0
  /\ requests = [r \in Requests |-> Idle]
  /\ left = [moves |-> MaxMoves, trades |-> MaxTrades, withdrawals |-> MaxWithdrawals]

-----------------------------------------------------------------------------
(* The context, in the order in which it is read.                          *)

\* The caller reads the state first; a halted system goes no further.
ReadState(r, order, confirmed) ==
  /\ requests[r].pc = "idle"
  /\ state # "halted"
  /\ requests' = [requests EXCEPT ![r] =
       [Idle EXCEPT !.pc = "account", !.order = order, !.confirmed = confirmed,
                    !.ctx.state = state]]
  /\ UNCHANGED <<state, held, price, cash, opening, withdrawn, left>>

ReadAccount(r) ==
  /\ requests[r].pc = "account"
  /\ \E day_trades \in {0, MaxDayTrades + 1} :
       requests' = Goes(r, "positions",
         [requests[r].ctx EXCEPT !.equity = RawEquity(price), !.last_equity = opening,
                                 !.day_trades = day_trades])
  /\ UNCHANGED <<state, held, price, cash, opening, withdrawn, left>>

\* The positions of crypto symbols come under another name, and only the watch
\* list translates it back; the exposure counts them all.
ReadPositions(r) ==
  LET known == [s \in Symbols |-> IF s \in Unlisted THEN 0 ELSE held[s]] IN
  /\ requests[r].pc = "positions"
  /\ requests' = Goes(r, "quote",
       [requests[r].ctx EXCEPT !.positions = known, !.values = Value(known, price),
                               !.exposure = Total(Value(held, price))])
  /\ UNCHANGED <<state, held, price, cash, opening, withdrawn, left>>

\* Without a quote the rules answer for themselves.
ReadQuote(r) ==
  /\ requests[r].pc = "quote"
  /\ \E quote \in {price[requests[r].order.symbol], Unknown} :
       requests' = Goes(r, "decide", [requests[r].ctx EXCEPT !.quote = quote])
  /\ UNCHANGED <<state, held, price, cash, opening, withdrawn, left>>

\* Fault: the equity at the last close is left as it is.
EffectiveRaw(ctx) == [ctx EXCEPT !.equity = @ - withdrawn]

\* What was withdrawn belongs neither to the equity nor to that of the last close.
Effective(ctx) == [ctx EXCEPT !.equity = @ - withdrawn, !.last_equity = @ - withdrawn]

\* The withdrawals are read last, then the rules are asked.
Decide(r) ==
  LET ctx      == Effective(requests[r].ctx)
      decision == Evaluate(ctx, requests[r].order, requests[r].confirmed)
  IN
  /\ requests[r].pc = "decide"
  /\ requests' = Goes(r, IF decision = "execute" THEN "submit" ELSE decision, ctx)
  /\ UNCHANGED <<state, held, price, cash, opening, withdrawn, left>>

\* The execution agent looks at the state again, but for a halt only.
Submit(r) ==
  /\ requests[r].pc = "submit"
  /\ requests' = [requests EXCEPT ![r].pc = IF state = "halted" THEN "failed" ELSE "open"]
  /\ UNCHANGED <<state, held, price, cash, opening, withdrawn, left>>

-----------------------------------------------------------------------------
(* The broker, the market and the operator.                                *)

Marketable(order) ==
  order.limit = Unknown \/ order.side * price[order.symbol] <= order.side * order.limit

BrokerFills(r) ==
  LET order == requests[r].order IN
  /\ requests[r].pc = "open"
  /\ Marketable(order)
  /\ held' = [held EXCEPT ![order.symbol] = @ + order.side * order.qty]
  /\ cash' = cash - order.side * order.qty * price[order.symbol]
  /\ requests' = [Noted(<<"fill", order.symbol>>, requests) EXCEPT
                    ![r] = [requests[r] EXCEPT !.pc = "filled"]]
  /\ UNCHANGED <<state, price, opening, withdrawn, left>>

BrokerLetsGo(r) ==
  /\ requests[r].pc = "open"
  /\ requests' = [requests EXCEPT ![r].pc = "failed"]
  /\ UNCHANGED <<state, held, price, cash, opening, withdrawn, left>>

OthersTrade(trade) ==
  /\ left.trades > 0
  /\ left' = [left EXCEPT !.trades = @ - 1]
  /\ held' = [held EXCEPT ![trade.symbol] = @ + trade.qty]
  /\ cash' = cash - trade.qty * price[trade.symbol]
  /\ requests' = Noted(<<"fill", trade.symbol>>, requests)
  /\ UNCHANGED <<state, price, opening, withdrawn>>

PriceMoves(s, to) ==
  /\ left.moves > 0 /\ to # price[s]
  /\ left' = [left EXCEPT !.moves = @ - 1]
  /\ price' = [price EXCEPT ![s] = to]
  /\ requests' = Noted(<<"price", s>>, requests)
  /\ UNCHANGED <<state, held, cash, opening, withdrawn>>

\* capital/ledger.py: an amount or a share of the raw equity, never compared
\* with what was withdrawn before.  The equity is read before the row is
\* written; a price that moves in between counts as moving before.
Withdraw(amount) ==
  /\ left.withdrawals > 0
  /\ left' = [left EXCEPT !.withdrawals = @ - 1]
  /\ withdrawn' = withdrawn + amount
  /\ requests' = Noted(<<"capital">>, requests)
  /\ UNCHANGED <<state, held, price, cash, opening>>

StateChanges(to) ==
  /\ to # state
  /\ state' = to
  /\ UNCHANGED <<held, price, cash, opening, withdrawn, requests, left>>

Next ==
  \/ \E r \in Requests :
       \/ \E order \in Orders, confirmed \in BOOLEAN : ReadState(r, order, confirmed)
       \/ ReadAccount(r) \/ ReadPositions(r) \/ ReadQuote(r) \/ Decide(r) \/ Submit(r)
       \/ BrokerFills(r) \/ BrokerLetsGo(r)
  \/ \E trade \in Trades : OthersTrade(trade)
  \/ \E s \in Symbols, to \in Prices : PriceMoves(s, to)
  \/ \E amount \in Amounts : Withdraw(amount)
  \/ \E pct \in Percents : Withdraw((RawEquity(price) * pct) \div 100)
  \/ \E to \in States : StateChanges(to)

Spec == Init /\ [][Next]_vars

-----------------------------------------------------------------------------

Fills(r) == requests[r].pc = "open" /\ requests'[r].pc = "filled"

\* What the fill is worth, less what the rules were told: a limit may be off
\* the price it is filled at by no more than the sanity rule lets it.
Slack(r) ==
  LET order == requests[r].order IN
  IF order.limit = Unknown THEN 0 ELSE order.qty * Abs(order.limit - requests[r].ctx.quote)

\* An order that nothing overtook leaves its position and the whole account
\* within the limits of the equity the operator left (rules.py:144-204, 227-245,
\* risk_context.py:50-79), and is above the notional only if it was confirmed:
\* also when it turns a position, closes a part of it or names a price of its
\* own, but for positions of symbols off the list.
LimitsHold ==
  [][\A r \in Requests : Fills(r) /\ requests[r].since = {} =>
       LET ctx == requests[r].ctx
           s   == requests[r].order.symbol
       IN  /\ s \notin Unlisted =>
                100 * (Value(held, price)'[s] - Slack(r)) <= ctx.equity * MaxPositionPct
           /\ 100 * (Total(Value(held, price))' - Slack(r)) <= ctx.equity * MaxTotalPct
           /\ requests[r].order.qty * price[s] - Slack(r) > MaxNotional => requests[r].confirmed]_vars

\* An order decided while winding down makes the position smaller and never
\* turns it (rules.py:42-51, 69-89), unless another order of the symbol was
\* filled after the positions had been read.
WindDownShrinks ==
  [][\A r \in Requests :
       LET s == requests[r].order.symbol IN
       /\ Fills(r)
       /\ requests[r].ctx.state = "winding_down"
       /\ <<"fill", s>> \notin requests[r].since
       => Abs(held'[s]) < Abs(held[s]) /\ held'[s] * held[s] >= 0]_vars

Refused(r) == requests[r].pc = "decide" /\ requests'[r].pc = "reject"

\* A withdrawal is no loss: an order is not refused for the day's loss unless
\* the broker's own figures show it (rules.py:207-224, risk_context.py:57-68).
WithdrawalIsNoLoss ==
  [][\A r \in Requests :
       Refused(r) /\ requests[r].since \subseteq {<<"capital">>}
         /\ RawEquity(price) - opening > DailyLossLimit
       => r8_daily_loss_limit(requests'[r].ctx, requests[r].order)]_vars

\* The way out stays open (rules.py:144-151): an order at the market that closes
\* the whole of a listed position fails neither for its direction nor for the
\* size of the position, in any state, as long as there is any equity left.
ClosingIsNotBlocked ==
  [][\A r \in Requests :
       LET ctx   == requests'[r].ctx
           order == requests[r].order
       IN  /\ Refused(r) /\ requests[r].since \subseteq {<<"capital">>}
           /\ order.symbol \notin Unlisted
           /\ order.side * order.qty = - held[order.symbol] /\ order.limit = Unknown
           /\ ctx.quote # Unknown /\ ctx.equity > 0
           => r2_wind_down_direction(ctx, order) /\ r6_position_pct(ctx, order)]_vars

=============================================================================
