-------------------------------- MODULE Lots ---------------------------------
(***************************************************************************)
(* At which price does the exit job sell what the agents own?  The table    *)
(* of orders knows how many shares an order has filled, the table of fills  *)
(* at what price and when, and neither says which of two fills of the same  *)
(* moment came first.  execution/exits.py finds in these fills the moment   *)
(* the current lot began, averages the entries since, and gives up the      *)
(* average wherever the fills leave the lot open; a position whose cost     *)
(* cannot be told is closed as a stop-loss.                                 *)
(*                                                                         *)
(* The variables are the history the broker executed, one symbol of it;     *)
(* what the job concludes is a set of operators over that history.  A fill  *)
(* the stream lost has no row, and the order learns of it later, by another *)
(* update or by the reconciliation, which both bring the shares but not the *)
(* prices.                                                                  *)
(***************************************************************************)
EXTENDS Integers, Sequences, FiniteSetsExt, Functions

CONSTANTS
  Qtys,        \* shares of a fill
  Market,      \* the price of each moment, and with it of the fills of that moment
  Quotes,      \* prices the exit job may be quoted
  StopPct,     \* STOP_LOSS_PCT
  TakePct,     \* TAKE_PROFIT_PCT
  MaxHold,     \* MAX_HOLD_HOURS
  MaxOrders,   \* bound: orders of the agents
  MaxFills,    \* bound: fills
  MaxLost,     \* bound: fills the stream loses
  MaxExternal  \* bound: shares bought without a row

ASSUME LotsAssumption ==
  /\ Qtys \subseteq Nat \ {0}
  /\ Market \in Seq(Nat \ {0}) /\ Market # <<>>
  /\ Quotes \subseteq Nat \ {0}
  /\ {StopPct, TakePct, MaxHold, MaxOrders, MaxFills, MaxLost, MaxExternal} \subseteq Nat

VARIABLES
  orders,   \* the agents' rows: side, filled_qty, submitted_at and filled_at
  fills,    \* every execution at the broker, in its order, and whether it has a row
  clock,    \* the time
  external  \* shares of somebody else

lotVars == <<orders, fills, clock, external>>

Executed == DOMAIN fills

Recorded == {i \in Executed : fills[i].recorded}

Side(i) == orders[fills[i].order].side

Shares == [i \in Executed |-> fills[i].qty]

\* Shares bought less shares sold.
Net(I) == SumFunctionOnSet([i \in Executed |-> Side(i) * fills[i].qty], I)

Done(o) == SumFunctionOnSet(Shares, {i \in Executed : fills[i].order = o})

Sign(n) == IF n > 0 THEN 1 ELSE -1

Abs(n) == IF n < 0 THEN -n ELSE n

Position == external + Net(Executed)

-----------------------------------------------------------------------------
(* What the exit job concludes from the tables.                            *)

\* The agents' shares, by filled_qty of rows of every status.
Own ==
  Sign(Position) * SumFunction([o \in DOMAIN orders |-> orders[o].side * orders[o].seen])

Owned == Position # 0 /\ Own > 0

AgentQty == Min({Abs(Position), Own})

EntrySide == Sign(Position)

Covered == {fills[i].order : i \in Recorded}

\* _is_real_agent_fill, but no fill tells when.
Uncovered == {o \in DOMAIN orders : orders[o].seen > 0} \ Covered

At(t) == {i \in Recorded : fills[i].at = t}

Before(t) == {i \in Recorded : fills[i].at < t}

\* Fault: the order of the fills of one moment is not doubted.
HiddenZeroCrossingNever(t) == FALSE

\* Some of the fills of a moment, in whatever order, may have closed the lot.
HiddenZeroCrossing(t) ==
  \E G \in (SUBSET At(t)) \ {{}, At(t)} : Net(G) = - Net(Before(t))

Flat(t) == Net(Before(t) \cup At(t)) = 0

Moments == {fills[i].at : i \in Recorded}

\* A lot that surely ended at a moment leaves every earlier doubt behind.
AmbiguousLot ==
  \/ Uncovered # {}
  \/ \E t \in Moments :
       /\ ~ Flat(t) /\ HiddenZeroCrossing(t)
       /\ \A u \in Moments : u > t => ~ Flat(u)

LotStart == Max({t \in Moments : Flat(t)} \cup {0})

LotFills == IF AmbiguousLot THEN {} ELSE {i \in Recorded : fills[i].at > LotStart}

Entries == {i \in LotFills : Side(i) = EntrySide}

\* Fault: what was bought is compared, not what is left of it.
ByFillsGross ==
  /\ Entries # {}
  /\ SumFunctionOnSet(Shares, Entries) = AgentQty

\* The fills of the lot add up to the shares the agents own.
ByFills ==
  /\ Entries # {}
  /\ EntrySide * Net(LotFills) = AgentQty

\* Otherwise the broker's average will do if the position is all ours.
ByBroker == ~ ByFills /\ AgentQty = Abs(Position)

Average(I) ==
  [qty  |-> SumFunctionOnSet(Shares, I),
   cost |-> SumFunctionOnSet([i \in Executed |-> fills[i].qty * fills[i].price], I)]

\* The entries of the lot that is really open.
TrueEntries ==
  LET start == Max({i \in Executed : Net(1..i) = 0} \cup {0})
  IN  {i \in Executed : i > start /\ Side(i) = EntrySide}

\* Whatever the broker calls the average of a position lies between the
\* prices it was entered at.
BrokerAverages ==
  LET entered == {fills[i].price : i \in TrueEntries}
  IN  {[qty |-> 1, cost |-> p] :
         p \in {q \in Range(Market) : Min(entered) <= q /\ q <= Max(entered)}}

\* No average at all: the symbol is unverifiable.
Bases == IF ByFills THEN {Average(Entries)} ELSE IF ByBroker THEN BrokerAverages ELSE {}

\* The times of entries: of fills, and of orders no fill tells about.
EntryTimes ==
  {fills[i].at : i \in {j \in Recorded : Side(j) = EntrySide}}
    \cup {IF orders[o].filledAt > 0 THEN orders[o].filledAt ELSE orders[o].submitted :
            o \in {p \in Uncovered : orders[p].side = EntrySide}}

EntryTime == Max(EntryTimes \cup {0})

\* The gain or loss of a basis at a quote, in percent times the cost.
Gain(basis, quote) == EntrySide * 100 * (quote * basis.qty - basis.cost)

\* evaluate_exits with a cost: the reason to close at a quote, if there is one.
Reason(basis, quote) ==
  IF Gain(basis, quote) <= - StopPct * basis.cost THEN "stop_loss"
  ELSE IF Gain(basis, quote) >= TakePct * basis.cost THEN "take_profit"
  ELSE IF clock - EntryTime >= MaxHold THEN "max_hold"
  ELSE "none"

\* Fault: what cannot be verified is left alone.
ReasonsVerified(bases, quote) == {Reason(b, quote) : b \in bases} \cup {"none"}

\* evaluate_exits: without a cost, the safest side is a stop-loss.
Reasons(bases, quote) ==
  IF bases = {} THEN {"stop_loss"} ELSE {Reason(b, quote) : b \in bases}

-----------------------------------------------------------------------------
(* What happens to the orders.                                             *)

LotsInit ==
  /\ orders = <<>>
  /\ fills = <<>>
  /\ clock = 1
  /\ external \in 0..MaxExternal

\* The broker fills an order, a new one perhaps, and the stream tells or does not.
\* It never takes a position through zero in one fill.
Execute(o, side, qty, recorded) ==
  LET net  == Position + side * qty
      done == qty + IF o \in DOMAIN orders THEN Done(o) ELSE 0
      row  == [side |-> side,
               seen |-> IF recorded THEN done ELSE IF o \in DOMAIN orders THEN orders[o].seen ELSE 0,
               submitted |-> IF o \in DOMAIN orders THEN orders[o].submitted ELSE clock,
               filledAt |-> IF o \in DOMAIN orders THEN orders[o].filledAt ELSE 0]
  IN
  /\ Len(fills) < MaxFills
  /\ o \in DOMAIN orders => side = orders[o].side
  /\ recorded \/ Cardinality(Executed \ Recorded) < MaxLost
  /\ (Position >= 0 /\ net >= 0) \/ (Position <= 0 /\ net <= 0)
  /\ fills' = Append(fills, [order |-> o, qty |-> qty, price |-> Market[clock], at |-> clock,
                             recorded |-> recorded])
  /\ orders' = IF o \in DOMAIN orders THEN [orders EXCEPT ![o] = row] ELSE Append(orders, row)
  /\ UNCHANGED <<clock, external>>

\* A later update, or the reconciliation, brings the shares, and perhaps a time.
CatchUp(o) ==
  /\ orders[o].seen < Done(o)
  /\ \E at \in {orders[o].filledAt, clock} :
       orders' = [orders EXCEPT ![o].seen = Done(o), ![o].filledAt = at]
  /\ UNCHANGED <<fills, clock, external>>

Tick ==
  /\ clock < Len(Market)
  /\ clock' = clock + 1
  /\ UNCHANGED <<orders, fills, external>>

LotsNext ==
  \/ \E o \in 1..Min({Len(orders) + 1, MaxOrders}), side \in {1, -1}, qty \in Qtys,
        recorded \in BOOLEAN : Execute(o, side, qty, recorded)
  \/ \E o \in DOMAIN orders : CatchUp(o)
  \/ Tick

LotsSpec == LotsInit /\ [][LotsNext]_lotVars

-----------------------------------------------------------------------------

\* The rows of orders know every share that was filled.
Current == \A o \in DOMAIN orders : orders[o].seen = Done(o)

\* The agents sold shares of somebody else: their own net went below zero while
\* the position did not, and may have gone through zero within a fill.
SoldForeignShares == external > 0 /\ \E i \in Executed : Net(1..i) < 0

\* Fills without a row on both sides: their sum may look as if none were missing.
LostOnBothSides ==
  \E i, j \in Executed \ Recorded : Side(i) # Side(j)

\* An average that is taken from fills is that of all entries of the lot that
\* is really open, and of no other (exits.py:313-403), for fills of one moment
\* in any order and for orders recorded in part, but for the two histories
\* named above.
BasisIsOfTheLot ==
  Owned /\ Current /\ ByFills => Entries = TrueEntries \/ SoldForeignShares \/ LostOnBothSides

\* As long as no fill is lost and no two share a moment, the fills tell the cost
\* (exits.py:404-423): no healthy position is closed as one nobody can verify,
\* however often the agents bought and sold before.
OrderlyFillsAreVerified ==
  /\ Owned
  /\ Recorded = Executed
  /\ \A i, j \in Executed : fills[i].at = fills[j].at => i = j
  /\ ~ SoldForeignShares
  => ByFills

\* A position that stands below every price it was entered at by the stop is closed
\* as a stop-loss, whatever was lost or cannot be ordered, but for the same two
\* histories: the agents sold shares of somebody else (SoldForeignShares), or fills
\* were lost on both sides (LostOnBothSides).  (exits.py:83-95, 404-435)
LossIsStopped ==
  Owned /\ Current /\ ~ SoldForeignShares /\ ~ LostOnBothSides
  => LET entries == TrueEntries
         bases   == Bases
     IN \A quote \in Quotes :
          (\A i \in entries :
             EntrySide * 100 * (quote - fills[i].price) <= - StopPct * fills[i].price)
          => Reasons(bases, quote) = {"stop_loss"}

=============================================================================
