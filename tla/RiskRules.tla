------------------------------ MODULE RiskRules ------------------------------
(***************************************************************************)
(* The deterministic gate in front of every order that is not an exit:      *)
(* risk/rules.py, one operator per rule, and evaluate() of risk/agent.py.   *)
(* A context holds what was read of the world before, an order what is      *)
(* asked for; prices are whole numbers, 0 stands for a price nobody knows   *)
(* and a position of 0 for none.                                            *)
(***************************************************************************)
EXTENDS Integers, FiniteSetsExt

CONSTANTS
  Symbols,
  Restricted,      \* RESTRICTED_SYMBOLS
  MaxNotional,     \* MAX_ORDER_NOTIONAL
  MaxPositionPct,  \* MAX_POSITION_PCT
  MaxTotalPct,     \* MAX_TOTAL_EXPOSURE_PCT
  DailyLossLimit,  \* DAILY_LOSS_LIMIT, a negative amount
  MaxDayTrades,    \* MAX_DAY_TRADES
  SanityPct,       \* PRICE_SANITY_PCT
  PdtFloor         \* PDT_EQUITY_FLOOR

ASSUME LimitsAssumption ==
  /\ Restricted \subseteq Symbols
  /\ {MaxNotional, MaxPositionPct, MaxTotalPct, MaxDayTrades, SanityPct, PdtFloor} \subseteq Nat
  /\ DailyLossLimit \in Int

Abs(n) == IF n < 0 THEN -n ELSE n

Unknown == 0

ReferencePrice(ctx, req) == IF req.limit # Unknown THEN req.limit ELSE ctx.quote

Notional(ctx, req) == req.qty * ReferencePrice(ctx, req)

\* Fault: an order against the position reduces it, however large it is.
IncreasesExposureNever(position, req) == position = 0 \/ position * req.side > 0

\* Fault: closing the whole position counts as turning it.
IncreasesExposureAll(position, req) ==
  position = 0 \/ position * req.side > 0 \/ req.qty >= Abs(position)

\* A new position, more of the old one, or so much against it that it turns.
IncreasesExposure(position, req) ==
  \/ position = 0
  \/ position * req.side > 0
  \/ req.qty > Abs(position)

Increases(ctx, req) == IncreasesExposure(ctx.positions[req.symbol], req)

\* Fault: an order that turns the position counts as its rest only.
ProjectedValueNet(existing, notional, increases) == Abs(existing - notional)

\* The exposure after the order; one that turns the position is overrated.
ProjectedValue(existing, notional, increases) ==
  IF increases THEN existing + notional ELSE Max({0, existing - notional})

r1_system_state(ctx, req) == ctx.state # "halted"

r2_wind_down_direction(ctx, req) == ctx.state = "winding_down" => ~ Increases(ctx, req)

r3_restricted_symbol(ctx, req) == req.symbol \notin Restricted

\* A limit may be off the last price by SanityPct percent.
r4_price_sanity(ctx, req) ==
  /\ ctx.quote # Unknown
  /\ req.limit # Unknown => 100 * Abs(req.limit - ctx.quote) <= SanityPct * ctx.quote

r5_pdt_day_trades(ctx, req) == ~ (ctx.equity < PdtFloor /\ ctx.day_trades > MaxDayTrades)

r6_position_pct(ctx, req) ==
  /\ ReferencePrice(ctx, req) # Unknown
  /\ 100 * ProjectedValue(ctx.values[req.symbol], Notional(ctx, req), Increases(ctx, req))
       <= ctx.equity * MaxPositionPct

r7_total_exposure_pct(ctx, req) ==
  /\ ReferencePrice(ctx, req) # Unknown
  /\ 100 * ProjectedValue(ctx.exposure, Notional(ctx, req), Increases(ctx, req))
       <= ctx.equity * MaxTotalPct

r8_daily_loss_limit(ctx, req) == ctx.equity - ctx.last_equity > DailyLossLimit

r9_order_notional(ctx, req) ==
  /\ ReferencePrice(ctx, req) # Unknown
  /\ Notional(ctx, req) <= MaxNotional

\* R6 and R7 report the projected exposure as a share of the equity.
Raises(ctx, req) == ctx.equity = 0 /\ ReferencePrice(ctx, req) # Unknown

REJECTING_RULES(ctx, req) ==
  /\ r1_system_state(ctx, req) /\ r2_wind_down_direction(ctx, req)
  /\ r3_restricted_symbol(ctx, req) /\ r4_price_sanity(ctx, req)
  /\ r5_pdt_day_trades(ctx, req)
  /\ r6_position_pct(ctx, req) /\ r7_total_exposure_pct(ctx, req)
  /\ r8_daily_loss_limit(ctx, req)

\* All rules are asked; a rejection outweighs an escalation, and a confirmation
\* opens the escalation only.
Evaluate(ctx, req, escalation_confirmed) ==
  IF Raises(ctx, req) THEN "error"
  ELSE IF ~ REJECTING_RULES(ctx, req) THEN "reject"
  ELSE IF ~ r9_order_notional(ctx, req) /\ ~ escalation_confirmed THEN "escalate"
  ELSE "execute"

=============================================================================
