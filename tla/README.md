# A verification development of the PERSONAL-3 trading backend

TLA+ modules, TLC configurations and TLAPS proofs for the operator backend in
`src/backend/app`: a single asyncio process (FastAPI, APScheduler, SQLAlchemy on
PostgreSQL) that lets language-model agents and an operator place orders at
Alpaca, under a kill switch, a circuit breaker, risk rules and an approval queue.
`PROJECT.json` lists the components, the runs, the deliberate faults, the lines
each definition translates, the findings, the hazards and the theorems.

## The system

One process, one database, many overlapping sessions. Every request handler and
every scheduler job opens a session of its own, and awaits (database, Alpaca,
Redis) are the points where they interleave. PostgreSQL runs at READ COMMITTED
(`docker-compose.yml`, the engine sets no isolation level). Two facts shape most
of what follows:

* `SELECT ... ORDER BY seq DESC LIMIT 1 FOR UPDATE` fixes the row to lock by the
  snapshot of the statement. A transaction that waits for that lock is handed the
  same row afterwards, not a row inserted in between.
* The ORM updates only the columns whose value differs from the one it loaded, by
  primary key and without a version check (`expire_on_commit=False`, no
  `version_id_col`): the last writer of a column wins.

| Component | State it keeps | Operations | What makes it correct |
|---|---|---|---|
| Trading state machine (`system/state.py`, `api/routes_system.py`, `main.py`) | append-only `system_state` rows, the deadline of a wind-down, an in-memory date job | kill switch, wind-down, activate, grace sweep, breaker, start of the process | the transition table; row and audit entry together; commit before publish; the scheduler halts what it saw expire, and nothing else but what the operator began meanwhile; a grace period ends; restart keeps the state |
| Circuit breaker (`risk/breaker.py`) | `breaker_events` | measure, enforce, record | a tripped metric halts |
| Execution (`execution/agent.py`, `execution/idempotency.py`, `broker/alpaca.py`) | `orders` rows, orders at Alpaca | submit, resend, fail | recorded before sent; one order per key; nothing sent by a halted system |
| Ingestion (`stream/ingest.py`) | `orders`, `fills`, channel health | apply, reconnect, staleness sweep | rows follow the broker |
| Reconciliation (`broker/reconcile.py`) | `orders`, audit | compare, correct, halt | what the stream lost is made up for |
| Approvals (`approvals/`, `api/routes_approvals.py`) | `approvals` rows | create, approve, reject, expire | one resolution; one broker call; a rejection is final |
| Manual orders (`api/routes_orders.py`, `api/confirm.py`) | confirmation tokens | two-step confirmation, submission, cancel | a token is used once, for the body it was issued for |
| Risk rules (`risk/rules.py`, `risk/agent.py`, `api/risk_context.py`) | none (pure) | read the context, evaluate R1..R9 | what fills stays within the limits; escalation opens only the escalation gate; a wind-down only shrinks exposure; the way out stays open |
| Capital ledger (`capital/ledger.py`) | `capital_withdrawals` | withdraw an amount or a percentage | a withdrawal is no loss |
| Research agent (`agents/`) | decisions, tool calls, provider health | a cycle: bind, turns, tools, propose order; switch provider | every number is grounded in the cycle's own evidence; one provider speaks for a cycle; what the log says of an order can be relied on |
| Exits, manual take-profit (`execution/exits.py`, `execution/manual_take_profit.py`) | none of their own | close positions | never sell what the agents do not own; one close at a time; the cost is that of the open lot; a loss is stopped |
| Event bus, web socket (`stream/bus.py`, `api/ws.py`, `frontend/src/hooks`) | subscriber queues, the page's cache | publish, deliver, bridge, connect, refetch | system messages are never dropped and come first; a page at rest is right |
| Streams (`stream/ingest.py`, `broker/alpaca.py`) | channel health, attempt counters | connect, consume, sweep, back off | refused connections wait longer; silence is announced |
| Tuning (`tuning/`, `api/routes_tuning.py`) | `tuning_history`, tokens | search; record; promote | a proposal is within the grid, held up and better; no promotion without evidence and confirmation |
| Audit (`audit/`) | hash-chained `audit_log` | append, verify, replay | no gap, no fork |

They interact through the database (every writer of `orders`, `approvals` and
`system_state` is a transaction of its own, and all of them append to one audit
chain), through calls (approve, agents, exits and manual orders all end in
`ExecutionAgent.submit`), through the trading state (read again right before the
broker is called) and through the bus.

The hard behaviour is in the interleavings of transactions that lock too little
or too early, in orders whose submission died half-way (timeout, crash, lost
answer), in updates the stream lost, and in writes computed from stale copies.
The `hazards` of `PROJECT.json` list them at their lines.

## Modules

`TradingState` is what the users of the trading state may rely on;
`Feed` is what a web-socket connection is promised. The other modules are the
code, one action per await of a handler or a job, so that every database
statement, broker call and commit is a point where another session can come in;
`RiskRules` and `WalkForward` are pure, and `Providers` is the part of
`ResearchAgent` that belongs to the router. `MC...` modules hold what
only TLC needs; `...Proofs` modules hold the theorems.

**`TradingState`** (abstract). One value, three states, requests that may
overlap. A request is decided by the table of `StateMachine._validate` on the
state it found when it began (`seen`). While no other request takes effect, that
is the current state; one that was overtaken may take effect over a state it
never saw, or be recorded without any effect (its row has the smaller number).

**`SystemState`**. `rows` are the committed `system_state` rows by sequence
number, `newest` is the row `ORDER BY seq DESC LIMIT 1` finds, `lastSeq` the
sequence generator, `audit` the chain (only its length and what each entry
announces matter). A slot of `txn` is a running handler: `Select` fixes the row
to lock (`base`), `Lock` is granted once no other transaction holds that row and runs
`_validate`, `Insert` is the flush, `ReadTip` reads the chain's tip, `Commit`
succeeds iff the tip is still the tip, otherwise `AuditCollision` rolls
everything back; `Publish`/`PublishFails` come after the commit. The operator's
requests (`KillSwitch`, `WindDown`, `Activate`, `ActivateMeasure`), the grace
sweep and its one-shot date job, the breaker (`EnforceMeasure`, `EnforceRead`)
and `Startup` all run through it. A halt of the scheduler carries the row it was
decided on (`saw`), which was read without a lock. `Crash` rolls open transactions back and loses
the date job.

**`OrderExecution`**. An order is a pair of idempotency key and body, because
`derive_client_order_id` hashes both. `rows` is the `orders` table, `broker`
what Alpaca holds, `wire` the POSTs under way. `flows` are submissions:
`Request` (look-up of the key), `Insert` (commit of the row), `Check` (trading
state, read again), `Post`, `Timeout` (one resend), `NetworkError`, `Fail`,
`Finish`. The stream (`events`, `ingest`) and the reconciliation (`recon`) are
separate writers of the same rows. `Updated` is the ORM's write: only the
columns that differ from the loaded copy. Alpaca's side (accept, reject, fill,
cancel, lose a request) is modelled from how the adapter and its tests use it.
An update for an order without a row cannot arise here: `RecordedBeforeSent`
excludes it. Closing statuses other than `filled` behave alike in every line
read here and are one value.

**`Approvals`**. `rows` (state, version), `due` (TTL passed), `decisions`,
`orders` (status only), `calls` (broker calls per approval, a history counter),
`resolved` (resolutions committed per approval, a history counter), `lock` (row
locks). `flows` are `post_approve`/`post_reject`: `Lock`, `Refuse` (halted,
re-evaluation says no), `Evaluate` (look-up of the deterministic
`client_order_id`), `Insert` (the commit inside `submit`, which ends the row
lock), `Check`, `Call`, `Answer`, `Finish`/`Fail`, `Write`. `expire_due` is
`ReaperLoads` and `ReaperWrites`.

**`Exits`**. One symbol, its `orders` (each row together with what the broker
makes of it: `status` and `filled` are the row, `remote` and `done` the broker),
shares that came without a row (`external`), and for each of the two jobs where
it is and what it has read. `run_exits` is `ExitsBegin` (state, position),
`ExitsRows` (one SELECT: net fills per origin, live rows), `ExitsOpenOrders`,
`ExitsHold` (no trigger) or `Submit`; `run_manual_take_profit` is `MtpBegin`,
`MtpOrigins`, `MtpRows`, `MtpOpenOrders`, `Submit`. A submission is shorter than
in `OrderExecution`: `Send` (trading state, read again), an answer, a refusal,
`Unanswered`, or `ResendRefused` (the POST timed out and its resend is refused, as a
duplicate or otherwise: the row fails as rejected and the order may live); the
answer and its commit are one step, the stream (`Deliver`) may
come at any time or never. `late` is a history variable: the order was given up
and reached the broker when its job was past its look at the open orders, or had
another order there. Whether a stop, target or holding time is reached, whether
a profit is reported and whether the toggle is on are open choices, so the
lots and the cost basis play no role here.

**`Lots`**. Which price the exit job takes for the cost of what it holds. The
variables are the history the broker executed (`fills`, in its order, each with
its moment, its price and whether it has a row) and the agents' rows. What
`run_exits` concludes is a set of operators over it: `Flat`,
`HiddenZeroCrossing`, `AmbiguousLot`, `LotFills` find the current lot from rows
that carry times but no order, `ByFills` and `ByBroker` are the two sources of
an average, `Bases` is empty where the position is unverifiable, `Reasons` is
`evaluate_exits`. `TrueEntries` is the reference: it sees the order of the
executions. `Execute` loses fills (no row, the shares come later by `CatchUp`,
their price never).

**`RiskRules`** and **`RiskGate`**. R1 to R9 one operator each, `Evaluate` as
`risk/agent.py` puts them together (an equity of zero raises). `RiskGate` is an
order on its way: `ReadState`, `ReadAccount`, `ReadPositions`, `ReadQuote`,
`Decide` (which reads the withdrawals), `Submit`, and then `BrokerFills`, while
prices move, others trade, the operator withdraws and the state changes.
`since` notes what changed behind the back of a request, so that the properties
can say precisely which staleness they excuse. Two rules are asked for more than
the table of limits shows: the broker names crypto positions differently, and
only symbols of the watch list are translated back (`Unlisted`).

**`EventBus`**, implementing **`Feed`**. Per process a bus, and per connection
three queues (`Queued`: two without a bound, ticks with one), `Pump` (which
class comes next), the bridge (`Bridge`, `BridgeDies`), publications that first
deliver locally and then await Redis (`Publish`, `PublishRedis`), and the page:
`Connect` (subscribe first), `Snapshot`, `Refetch`. `Feed` speaks of what was
offered and what is gone of it; the mapping counts what the queues no longer
hold.

**`Streams`**. The two loops of `stream/ingest.py` over the adapter's
generators: a connection is opened (`Open`) and `Accepted`, brings messages
(`Consume`), `Breaks` or `Closes`; `Record` writes the circuit breaker's event;
then `Sweep` goes over
the monitor's dictionary with an await after each announcement, so that the
other loop may add a channel meanwhile (`Surprised`); `Sleep` or `Overflow`.

**`WalkForward`**. `grid`, `held_up`, `best` and `search` are the pure search; what a
value scores on a fold is any function, and the current value any within the bounds,
since nothing keeps it on the grid. `SearchSpec` runs it once on every such input.

**`Tuning`** is the history, confirmation tokens (`Issue`, `ReadToken`,
`CommitToken`, two transactions without a lock) and the promotion (`Promote`, which
checks the evidence again, and `CommitPromotion`, which rolls back if somebody else
appended to the audit chain). `Record` takes any value with its evidence: nothing in
the code ties `record_tuning` to the search, so nothing here does.

**`Providers`** and **`ResearchAgent`**. The router's `active` provider, the
health of each, the audit log a restart reads, and the channel by which other
processes switch. A cycle is `Bind` (provider taken once), `Open` (watch list,
market hours, state), turns of `Answer` and tool calls (`Read`, `ToolFails`),
and proposals: `ProposeByCall` (through the gateway) or `ProposeByText` (a local
model's JSON), the check of the numbers (`Citations`, `Narrowed`, `Grounded`),
`Judge`, then `Ask` or `Submit`/`Fail`. A submission is "sent", "failed", or
"lost": it failed without an answer, or its resend was refused as a duplicate, and
the broker may have the order. What a model says is any choice: any
tool, any citation of any session, any claim. The rules and the submission are
one step each here; `RiskGate` and `OrderExecution` have theirs.

Definitions whose comment begins with "Fault:" are not part of any
specification. Each is a definition of the model with one plausible mistake put
in; used in place of the definition it stands beside, it makes the property that
`PROJECT.json` pairs it with fail, which shows that the property can.

## Runs

All runs are exhaustive over the stated bounds. `orders` and `tuning` each hold two
modules that share no variable (orders and the lots of their fills; the search and the
promotion): there each moves while the other stands at its beginning, which is all a
property of one can tell.

| Run | Shows | Bounds |
|---|---|---|
| `state` | rows, audit and announcements agree (`AuditMatchesRows`, `OnlyCommittedIsPublished`); a restart keeps the state (`RestartKeepsState`); a halt is ended by the operator, or by a wind-down that overlapped it (`HaltEndsByOperator`); every step is one of the table for overlapping requests (`ImplementsTable`); an expired grace period ends (`GraceEnds`); a tripped breaker halts (`BreakerHalts`) | two handlers at a time, two operator requests, one foreign audit entry, one crash; sweeps, enforcements and starts unbounded but for what they find |
| `overlaps` | the scheduler halts the wind-down it saw expire, or what the operator began after it looked (`ScheduledHaltIsDue`), with an activation, a wind-down that expires, and an activation and a second wind-down between a sweep's read and its transition | two handlers, four requests, no crash |
| `orders` | no order unrecorded at the broker, one per key, no live order shown as closed, nothing sent for a row that failed as halted. `Lots`: an average taken from fills is that of the lot that is really open (`BasisIsOfTheLot`), orderly fills are never doubted (`OrderlyFillsAreVerified`), a loss is stopped whatever is missing, but for two named histories (`LossIsStopped`) | one key with two bodies, two submissions, one fault, one crash, one share; two orders, four fills of one or two shares at three moments, one of them lost, one share of somebody else |
| `orders_live` | every outcome ends up in the table and no row stays `pending_risk` | one submission, one fault, one crash |
| `approvals` | at most one broker call per approval, begun only for a pending row; rows past their TTL are resolved, requests end | two approvals, two requests, one fault, one crash |
| `exits` | a job has one close under way (`OneCloseAtATime`), the exit job does not sell more than the agents own (`AgentNeverOversells`, unless others sell for them or a written-off order is filled after all), a stop-loss is looked at again (`StopLossIsEvaluated`) | both jobs, the agents and the operator buying single shares, three orders (a share without a row counts as one), one fault or crash |
| `risk` | what fills is within the limits (`LimitsHold`), a wind-down shrinks (`WindDownShrinks`), a withdrawal does not look like a loss (`WithdrawalIsNoLoss`), closing is not refused for its direction or size (`ClosingIsNotBlocked`) | one order of one or two shares with and without a limit, long, short and flat, two prices, one price move, one trade of others, one withdrawal |
| `bus` | each connection keeps the promise of the bus (`PromiseKept`), a page at rest is right (`QuietPageIsRight`) | two processes, one page, two state rows, two updates, a buffer of one tick, one failure of Redis |
| `streams` | refused connections wait longer (`RefusalsWaitLonger`), the end of a stream announces what has changed (`EndFindsSilence`) | both loops, delays up to the second attempt, three refusals |
| `tuning` | a live row is what a row on paper is and was confirmed (`LiveIsConfirmed`), a confirmation nobody raced for works once (`ConfirmedOnce`). `WalkForward`: what the search proposes is on the grid, held up and better than a current value on the grid (`ProposalIsProven`) | two values, two requests, two tokens, three rows, lists of one or two ids, one foreign audit entry; a grid of two values and one between them, two folds, four scores of either sign: every table of scores and every current value |
| `research` | `EvidenceIsOwn`, `OneProvider`, `LogTellsTheOrders` (see `ResearchAgent`) | two overlapping cycles, three providers of which one may not write, a stock and a coin, two tool calls, two turns, one switch, one restart, exception or change of state |
| `rejected_sent` | expects a violation, see Findings | one approval, two requests |

The bounds let everything interesting happen once and race with everything else:
two is the smallest number of handlers that overlap, and every hazard of
`PROJECT.json` involves at most two of them and one failure. A second fault or
crash starts from a state a first one reaches: handlers hold nothing but what
their slot holds. The safety properties of the passing runs do not depend on the
bounds at all where a theorem below states them. Orders of several shares, which
only matter to intermediate fills, are covered by the proofs (`Qty` is any
positive number there). Liveness is checked without symmetry.

Two fills of one moment are the smallest history whose order is hidden, and three
with one lost the smallest where a sum comes out right by accident; four fills
contain both. One concurrent order is enough for `risk`, since what another one
does to it (a fill between two of its reads) is `OthersTrade`. A buffer of one
tick overflows at the second, the shortest queue that drops. In `streams` an
attempt beyond which no delay can be computed is the second instead of the
1024th. The system starts halted, so a
sweep that meets an activation takes three requests and one that meets a newer wind-down
than it read takes four: `overlaps`, whose process does not crash; what the start of a
process may halt is `RestartKeepsState` in `state`. In `WalkForward`, two values on the grid and one between
them are the smallest current value off it; two folds are those the code asks for at
least, and scores of -3, -2, 1 and 2 lie on the edge of the band of half the score on
either side of zero. In `research`, citing another cycle's number takes one read there and
one proposal here.

Deadlock is checked in `state`, `overlaps`, `orders`, `orders_live`, `approvals` and
`exits`: time, the market, the jobs or the trading state can always take a step.
(In `orders` a full history of fills may stay as it is.) The instances of the other modules end when their histories are full (the moves of the
market, the updates, the calls) or, in `streams`, when both loops have died, which
the code lets happen.

## Fairness

Fairness is weak and stated per actor, for what the program itself drives:

* a handler that runs goes on (`Proceed`): the event loop serves every task, and
  every await ends, with an answer, an error or a timeout of the adapter;
* the jobs of the scheduler fire again and again while the process runs
  (`system/scheduler.py:126-153`): the grace sweep, the breaker, the approval
  reaper, the daily reconciliation;
* an update in hand is applied, and a POST reaches Alpaca or is lost;
* in `Streams`, each loop goes on by itself (`Loop`); the broker may be silent for
  ever, and the end of a connection is not owed;
* in `Exits`, the broker handles what it was sent and ends the market orders of
  the jobs. The limit orders of others may stay open.

Nothing is owed by the operator, the clock, the market, the trading state, the
stream (it may stay closed) or whoever starts a dead process (the compose file
has no restart policy): an order may never fill, a grace period may never run
out. `SystemState` has the process as a variable, and its liveness holds while it
runs; in the other modules `Crash` is a crash with the start after it.

Several alternatives of one actor stand under one fairness condition, so no
particular outcome (success rather than collision or failure) is assumed; what
bounds the failures are the named bounds: the liveness results say "after the
last fault".

## Proofs

TLAPS checks every theorem for arbitrary sets of slots, keys, bodies and
approvals and arbitrary bounds; the only assumptions are the named ASSUMEs of
the modules (the bounds are numbers, quantities and prices are positive, the placeholder
values differ from the real ones; in `RiskGate` there are finitely many symbols, and
at least one price, all positive; the limits are whole numbers).

**`Sums`** holds what the models' sums need. The proof system has no induction over
data, so the lemmas go by least counterexample: the subsets of a finite set are
well-founded under strict inclusion, and of the subsets for which something fails
one is smallest (`SmallestSubset`). From it come the existence of the function the
fold of the community modules is defined by (`SolutionExists`) and with it what a sum
is: the sum of nothing is 0, any element may be taken first, a sum of integers is an
integer and grows with what is summed. With `SubsetInduction`, where the property is
a set, follow the sum of two sets, of multiples and part by part (`SumOfBoth`,
`SumOfMultiples`, `SumByParts`), and that a finite set has a best element and, of
integers, a least and a greatest (`BestExists`, `ExtremesExist`).

**`SystemStateProofs`**. `TypeOK` and the properties are not inductive. What is
missing is what a running transaction owns: the row it picked is committed, the
number it took is its own, not yet in the table, and greater than the number of
the row it picked; a sweep or start in flight saw a row whose deadline has passed,
and picked that row or a later one; a transition that holds the lock is accepted from the state of
its row. With these, `Init => IInv` and one step per action give `Invariant`;
`TypeCorrect`, `AuditComplete` and `PublishedIsCommitted` follow. `GraceIsKept` needs
that what comes after a row the sweep saw winding down is halted, or was begun by the
operator, and that a start is alone (`StartsAlone`, below), so that it picks the row
it saw. `HaltsAreLeftByOperator` follows from `Commit`, the only action that moves
`newest`: what is not a halt was accepted from the row it picked. `Implements`
is the refinement of `TradingState`: `Select` maps to `Begin`, `Commit` to
`Transition` (effective iff its number is the greatest), refusals, collisions and
crashes to `Abort`, everything else stutters. It needs that numbers grow: a
transaction that was not overtaken holds a number above the newest row.
`RestartIsHarmless` needs `StartsAlone`: while the process is not up nothing runs but
the halt its start began, on a current row whose deadline had passed, so that the
only commit there can be is of that halt.

**`OrderExecutionProofs`**. The invariant says, for every step of a submission,
what its row and the broker can be at that point, that at most one submission of
an order is between insert and end, that requests on the wire belong to
recorded orders, and, for each of the three stale copies (submission, stream,
reconciliation), that a closing status in the copy is the broker's.
`TerminalIsTrue` rests on a broker order never leaving a closing status;
`AtMostOneOrder` on the two unique columns, whatever the look-up missed;
`HaltedNeverSent` on `Check` being the last step before the POST.

Its second part is about `Lots`, what the fills of these orders tell the exit job.
The invariant of the history is short (`LotsInv`: every fill is of an order and
every order has one, moments never run back, an order whose fills all have rows
knows all its shares); the work is in what the job concludes from it. The rows add
up to the net of the executions (`RowsAreNet`), so the agents' shares are that net
(`AgentsOwn`). Up to the start of a lot the recorded fills come to nothing
(`LotIsNet`), so a lot that adds up to the agents' shares says that the lost fills
come to nothing, and losses on one side that do are none (`NothingLost`). Then
the lot begins where it really does (`LotIsTrue`): a crossing of zero after its
start would be one within a moment, and `HiddenZeroCrossing` had doubted it.
`AveragesAreOfTheLot` follows, and `OrderlyFillsTell` with a moment of one fill,
which has nothing to doubt. `LossesAreStopped` is an inequality about averages: what
is lost at every entry is lost at their average, by induction over the entries
(`AverageIsStopped`), and at any price between the least and the greatest
(`BrokerIsStopped`).

**`ApprovalsProofs`**. The invariant follows the row lock: a request in
`evaluate` holds the lock of a row that is pending, one past `insert` holds none
and is the only one that will ever call the broker for that approval, because
its order exists and every later approve finds it. `AtMostOneCall` and
`BegunOnlyForPending` follow, and `TypeCorrect`, which no run repeats.

The second part is about the other thing the operator consents to, a tuned value.
A promotion takes each place of its list that is on paper, and once (`PapersAre`). From
there `ConsentInv` follows the rows (the source of a live one stays, on paper, with its
evidence) and the token a request goes on with, which confirms the request's own
list: `LiveRowsAreConfirmed`. For `TokensAreUsedOnce` a token that nobody raced for is
held by at most one request (`OneUse`): until that commits the use it is unused,
from then on nobody can read it, and what is made live with it is made in the step
that lets it go, one row for each place of the list (`MadeAtMost`, an injection).
`ProposalsAreProven` is about the search: the grid is finite, so there is a best value
on it (`BestExists` of `Sums`), and what is proposed passes the conditions.

**`ExitsProofs`**. `ClosesOnce` needs to know what a job past its look at the open
orders can rely on: none of its own is at the broker, unless it is marked late,
and none of its own is being submitted, since the job itself awaits that. This part
leaves quantities open (`Rows(Q)`). `NeverOversells` adds them: no row says more than
the broker did (`Honest`), so what the agents have for certain (`Secure`: every
purchase as far as it is filled, less every sale as far as it may still be) is no
more than what they own by the broker's books, no less than what a read of the rows
says when the job goes on after it, and covers what the exit job has made up its mind
to sell (`Committed`) until its row is inserted and counts itself. An order of the
exit job that was written off takes nothing from the agents as long as nothing of it
was filled; once something is, the promise ends (`Excused`), and it never begins anew.

**`RiskGateProofs`**. `GateInv` says of every order under way that each of the five
reads is still true of the world unless a change was noted (`since`), and that what
was accepted passed the rules on the context it carries. `TheLimitsHold` then takes
two steps. What R6 and R7 project is no less than what the fill comes to, also for
an order that turns or reduces the position (`ProjectionBounds`); and the exposure of
the account is that of one symbol plus that of the rest, which the fill leaves alone
(`TotalSplits`, by `Sums`). `WindingDownShrinks` is the arithmetic of a trade against
the position, `WithdrawalsAreNoLoss` the cancelling of the withdrawn amount in both
equities, `TheWayOutIsOpen` the projection of a complete closing, which is 0.

**`ResearchAgentProofs`**. `OneProvider` compares a decision with every call of its
cycle, and both are taken from the cycle, so the invariant is about cycles: a
cycle that goes on has the provider of every row it has left in the tables, one
that has not begun has left none, a cycle under way has a provider that may
write, and one that ended or broke off leaves no more rows. Switches, fallbacks
and restarts only change what the next `Bind` takes.

The second part is about the log. The calls of a cycle are numbered as they come, and a
decision has the number of the call it is made in, so at most one is current and
its proposal is the one under way. A proposal under way is backed by calls of its
own cycle, which never lose a row: `EvidenceIsOwn`. For `LogTellsTheOrders`
the invariant follows an order from the proposal to the log: what is sent, lost, failed
or unsent has, at each step of its cycle, the decision that can be told of it (`Unsent`,
`LostIsLogged`, `FailedIsUnsent`, `Recorded`).

**`EventBusProofs`**. What waits in a queue is the end of what was offered to its
connection. With it each step of `EventBus` is one of `Feed`, or none:
`Deliver` is `Offer`, connecting and disconnecting `Subscribe`, `Pump` is
`Receive`, and the rest stutters (`BusKeepsPromise`). `PageIsRight` needs, as long
as there was no fault and all bridges are up, that a page that is open and shows
an old state still has the news before it: not yet published, on the wire, or in
its queue of system messages, which has no bound and so drops none.

The last part is about `Streams`, whose news the bus carries (the definitions of
the two modules have different names, so one module of proofs can extend both). A
loop has waited at least as often as it was refused, but for the refusal it has not
paid for yet; a delay starts anew only at the end of a connection that was accepted,
and that ends the count of refusals too.

Model-checked only: all liveness (`GraceEnds`, `BreakerHalts`,
`OutcomeIsRecorded`, `NothingStaysPending`, `DueIsResolved`, `RequestsEnd`,
`StopLossIsEvaluated`, `EndFindsSilence`), which is beyond the proof system.

## Findings

`rejected_sent` is a counterexample TLC finds on the faithful model, against a
sentence the repository states (`PROJECT.json` quotes it): `submit` commits the
session of `post_approve`, the row lock is gone, a rejection goes through, and
the broker is called afterwards.

### Observed without a run of its own

What follows was seen while modelling; the models contain the behaviour, and
where a property would be broken by it, the property names the exception.

State and approvals:

* A wind-down that waits for the row lock behind a kill switch is handed the row
  it had picked, still active, and inserts `winding_down` after `halted`, which
  `system/state.py:4` rules out. The same overlap lets two wind-downs restart the
  grace period and an activation pass over a breaker's halt (`HaltEndsByOperator`
  names the wind-down, `TradingState` has all of them).
* The sweep reads an expired wind-down without a lock and halts whatever is newest when
  its transition gets there: a system the operator has activated meanwhile, or wound
  down anew, is halted as if that grace had run out (`system/state.py:229`;
  `lld.md:347` has the scheduler end an expired wind-down only). `overlaps` contains it,
  and `ScheduledHaltIsDue` names it.
* Any audit entry committed between the kill switch's read of the chain and its
  commit takes the sequence number; the transaction rolls back and nothing
  retries (`audit/chain.py:69`; `system/state.py:195` calls the halt unconditional).
* The metrics of an activation are measured before the state row is locked, so it
  may pass on numbers that have tripped since; the next enforcement halts again.
* Approve and reject, or approve and the reaper, both write one approval and both
  leave an audit entry; the version is compared at the beginning only
  (`approvals/queue.py:7` promises a 409).

Orders:

* A submission that timed out twice and lives at Alpaca comes back by the
  reconciliation without `broker_order_id`; the cancel endpoint refuses the open
  order (`broker/reconcile.py:168`, `api/routes_orders.py:241`).
* A resend that Alpaca refuses as a duplicate fails the row as `broker_rejected` while
  the first order lives, and counts as a rejection for the breaker
  (`alpaca.py:392-394`, `agent.py:95-103`); the decision of an agent says
  `order_failed` then, and after two timeouts (`tools.py:557-561`).
* `submit` may write `accepted` over a `filled` the stream has recorded
  (`execution/agent.py:109`); the next reconciliation repairs the row.
* A second submission of the same order returns the failed row of the first one,
  and its decision is marked executed (`execution/agent.py:53`, after an approve or
  a repeated proposal of one cycle).
* A submission the reconciliation meets half-way counts as drift.

Exits:

* The manual take-profit sells as `research_agent` (`manual_take_profit.py:133`):
  after a round trip of the operator the net fills of the operator stay positive,
  and `run_exits` skips every later position of the agents in that symbol
  (`exits.py:223-225` says that must not happen).
* An exit has a detail of its own, so the agents' next lot counts as mixed, and the
  manual take-profit closes it at any profit (`manual_take_profit.py:12-14`). When
  `run_exits` does so at the same time, the position is reversed.
* Lost fills on both sides can cancel out, and agents that sell somebody else's
  shares pass through zero within one fill: an average of two lots looks verified
  (`LostOnBothSides`, `SoldForeignShares` in `Lots`).
* An operator's limit order that stays open keeps the exit job away from the symbol.

Risk:

* An equity of zero (everything withdrawn) raises in R6 and R7 instead of filling
  `checks[]` (`rules.py:4`); below zero every order is refused, closing ones too.
* A partial closing of a position that is too large is refused by R6 and R7
  (`rules.py:154`); open orders count for no rule (`rules.py:167`); the position of a
  crypto symbol off the watch list does not exist for R2 and R6
  (`risk_context.py:41`).
* A wind-down between the read of the state and the submission is not seen: the
  execution agent asks again for a halt only.

Streams and bus:

* A stream that stays open and silent is noticed only when one of the two ends
  (`ingest.py:4-6` says that silence is noticed by the last message).
* A sweep during which the other channel is heard for the first time ends its loop
  (`ingest.py:94`), and so do an error of Redis in the sweep, a failing database in
  the error path, and the 1024th failure in a row (`ingest.py:45`); nothing restarts
  a background task (`main.py:196-208`), the bridge included.

Research and tuning:

* A provider given up never becomes healthy again unless another cycle still
  succeeds with it; `adopt` makes an unhealthy one active (`router.py:117-154`).
* A process follows its own switch as a message, too, which can undo a newer switch
  or a fallback; two processes that switch at once may disagree for good.
* The decision is committed as executed before the order is submitted
  (`tools.py:542`): a process that ends in between leaves it so. A decision that
  awaits approval is committed before the approval exists.
* Arguments that are not JSON abort a cycle without counting as an error of the
  provider (`runner.py:429`); "run now" does not look whether a cycle is running
  (`routes_research.py:73`).
* With every symbol benched the watch list falls back to all of them
  (`watchlist.py:60`), and `propose_order` never asks the watch list
  (`watchlist.py:25-26` says a benched symbol is out of reach).
* A second confirmation makes a row live a second time (`promote.py:140` looks at the
  row that was tried, which stays `paper`).
* Two requests that read one token before either commits its use both pass
  (`confirm.py:60`; `confirm.py:4` says it is used once): `raced` in `Tuning`.
* A current value off the grid is not run, so a worse one may be proposed in its place
  (`search.py:65`; `search.py:9` asks for a better one): `ProposalIsProven` excepts it.
* Nothing in the application calls `search` or `record_tuning`, nothing connects
  the two (a value that was never searched is recorded and becomes live like any
  other), and nothing reads the live values.

## Not modelled

Left out of the modelled parts: the text of audit entries and their hashes, HTTP
and authentication, payload mappings of the broker adapter, the wording of
prompts, the refresh of caches with no influence on state (`system/state.py`
reads past its cache before an order is sent). `expired` and `rejected` at
Alpaca are not told apart, since no line read here does. A cancellation by the
operator writes no row of its own: at the broker it is `BrokerCancels`. A stop
price counts for R4 as the limit does. The page's read of the state is one step.
The adapter's reading of `done_for_day` as a closed order (`alpaca.py:76`), the exit
job's look at the watch list before it closes (`exits.py:260-263`) and the stream of
order updates being closed before it is authorised (`alpaca.py:577-597`, which unlike
the tick stream has no check for it) are left out. In `EventBus` a writer does not die
between its commit and its publication, and bridges are subscribed from the start. The
series is not cut into folds: their scores are any. Nothing is said of instances
agreeing on the active provider; they need not. The tools
`propose_tuning_change`, `get_backtest_result` and `get_tuning_bounds`
change nothing but the log of calls. The operator's edits of the watch list and
of the take-profit toggle are choices the readers find made.

Components without a model:

* the circuit breaker's four metrics (`risk/breaker.py` `measure`) are one truth
  value that may change at any time; their arithmetic over rows of the last
  minutes is not modelled;
* the equity snapshots of the scheduler append rows for a chart;
* `audit/verifier.py`, `audit/replay.py` and `audit/redact.py` read the chain and
  decide nothing; that the chain has no gap and no fork is the collision of
  `Commit` in `SystemState`;
* `system/proving.py` is a report no part of the application calls;
* the reading API, serialisers, settings, migrations and the frontend's display
  change no state; the tables of `models.py` are the variables of the modules;
* deployment files, prompts, documents.

Next, in this order: the metrics of the breaker as operators over windows of rows,
composed with `SystemState`; `ResearchAgent` composed with `RiskGate`, in place of
the one step `Judge`.
