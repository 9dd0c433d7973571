---------------------------- MODULE SystemState ----------------------------
(***************************************************************************)
(* The trading state machine of the backend (app/system/state.py) together *)
(* with everything that drives it: the operator's three requests           *)
(* (api/routes_system.py), the grace sweep and its date job                *)
(* (system/scheduler.py), the circuit breaker's enforcement                 *)
(* (risk/breaker.py) and the start of the process (main.py).               *)
(*                                                                         *)
(* system_state is append-only and the current state is the row with the   *)
(* highest sequence number.  A transition is one database transaction of    *)
(* several awaits: it picks the newest row with SELECT ... FOR UPDATE,      *)
(* validates against that row, inserts its own, appends to the audit chain, *)
(* commits, and only then publishes.  The database is PostgreSQL at READ    *)
(* COMMITTED, as docker-compose.yml deploys it: a transaction that waited   *)
(* for the row lock is handed the row it had picked, not a newer one.       *)
(***************************************************************************)
EXTENDS Integers, Sequences, FiniteSets

CONSTANTS
  Txn,         \* slots for handlers and jobs that run at the same time
  MaxRequests, \* bound: operator requests in a behaviour
  MaxForeign,  \* bound: audit rows appended by other components
  MaxCrashes   \* bound: process crashes

ASSUME BoundsAssumption ==
  /\ MaxRequests \in Nat
  /\ MaxForeign \in Nat
  /\ MaxCrashes \in Nat

VARIABLES
  rows,      \* committed system_state rows: seq -> what the row says
  newest,    \* ORDER BY seq DESC LIMIT 1 over the committed rows
  lastSeq,   \* the sequence generator of the primary key (never rolled back)
  audit,     \* the committed audit chain: state row announced, or 0 (other event)
  published, \* rows announced on the system channel
  due,       \* winding_down rows whose deadline has passed
  tripped,   \* would CircuitBreaker.tripped() report a metric now?
  dateJob,   \* row whose deadline the one-shot date job waits for, or 0
  txn,       \* what each slot is doing
  proc,      \* the process: "up", "starting" (lifespan) or "down"
  left       \* what remains of the bounds

vars == <<rows, newest, lastSeq, audit, published, due, tripped, dateJob, txn, proc, left>>

\* A transition that has picked its row and is not decided yet.
Undecided(t) == txn[t].pc \in {"wait", "insert", "append", "commit"}

\* What a transition found, and whether the current row is another one by now.
Seen == [t \in Txn |->
           IF Undecided(t)
           THEN [state |-> rows[txn[t].base].state, overtaken |-> newest # txn[t].base]
           ELSE [state |-> "none", overtaken |-> FALSE]]

\* The states and the transition table are those of the abstract machine.
Table == INSTANCE TradingState WITH Client <- Txn, state <- rows[newest].state, seen <- Seen

Operations == {"kill_switch", "wind_down", "activate", "sweep", "breaker", "startup"}

Target(op) ==
  CASE op = "activate" -> "active"
    [] op = "wind_down" -> "winding_down"
    [] OTHER -> "halted"

\* measured: post_activate passed its check of the state, the breaker is next.
\* tripping: enforce() saw a tripped metric, the state is read next.
Steps == {"idle", "measured", "tripping", "select", "wait", "insert", "append", "commit", "publish"}

Idle == [op |-> "none", pc |-> "idle", saw |-> 0, base |-> 0, seq |-> 0, tip |-> 0]

Running(op, pc) == [op |-> op, pc |-> pc, saw |-> 0, base |-> 0, seq |-> 0, tip |-> 0]

\* A halt of the scheduler, which the row it has read without a lock calls for.
Scheduled(op) == [Running(op, "select") EXCEPT !.saw = newest]

Current == rows[newest].state

\* The grace period of the row that is current has run out.
GraceOver == Current = "winding_down" /\ newest \in due

\* The row lock of SELECT ... FOR UPDATE is held until commit or rollback.
HoldsLock(t) == txn[t].pc \in {"insert", "append", "commit"}

InFlight(op) == \E t \in Txn : txn[t].op = op

Init ==
  /\ rows = [s \in {1} |-> [state |-> "halted", op |-> "deploy", base |-> 0]]
  /\ newest = 1
  /\ lastSeq = 1
  /\ audit = <<1>>
  /\ published = {}
  /\ due = {}
  /\ tripped = FALSE
  /\ dateJob = 0
  /\ txn = [t \in Txn |-> Idle]
  /\ proc = "up"
  /\ left = [requests |-> MaxRequests, foreign |-> MaxForeign, crashes |-> MaxCrashes]

-----------------------------------------------------------------------------
(* The operator's requests.                                                *)

Request(t) ==
  /\ proc = "up"
  /\ txn[t].pc = "idle"
  /\ left.requests > 0
  /\ left' = [left EXCEPT !.requests = @ - 1]
  /\ UNCHANGED <<rows, newest, lastSeq, audit, published, due, tripped, dateJob, proc>>

KillSwitch(t) ==
  /\ Request(t)
  /\ txn' = [txn EXCEPT ![t] = Running("kill_switch", "select")]

WindDown(t) ==
  /\ Request(t)
  /\ txn' = [txn EXCEPT ![t] = Running("wind_down", "select")]

\* post_activate refuses an active system before it measures anything.
Activate(t) ==
  /\ Request(t)
  /\ Current # "active"
  /\ txn' = [txn EXCEPT ![t] = Running("activate", "measured")]

\* The metrics are measured again; the confirmation token is consumed (and
\* committed) afterwards, so the transition starts a transaction of its own.
ActivateMeasure(t) ==
  /\ txn[t].pc = "measured"
  /\ txn' = [txn EXCEPT ![t] = IF tripped THEN Idle ELSE Running("activate", "select")]
  /\ UNCHANGED <<rows, newest, lastSeq, audit, published, due, tripped, dateJob, proc, left>>

-----------------------------------------------------------------------------
(* The jobs of the scheduler.                                              *)

\* Fault: the interval sweep relies on the one-shot date job being registered.
SweepWithDateJob(t) ==
  /\ proc = "up"
  /\ txn[t].pc = "idle"
  /\ dateJob # 0
  /\ GraceOver
  /\ txn' = [txn EXCEPT ![t] = Scheduled("sweep")]
  /\ UNCHANGED <<rows, newest, lastSeq, audit, published, due, tripped, dateJob, proc, left>>

\* One instance of the interval job at a time, APScheduler's default.
Sweep(t) ==
  /\ proc = "up"
  /\ txn[t].pc = "idle"
  /\ ~ InFlight("sweep")
  /\ GraceOver
  /\ txn' = [txn EXCEPT ![t] = Scheduled("sweep")]
  /\ UNCHANGED <<rows, newest, lastSeq, audit, published, due, tripped, dateJob, proc, left>>

\* Fault: the date job halts what it finds, expired or not.
DeadlineHalts(t) ==
  /\ proc = "up"
  /\ txn[t].pc = "idle"
  /\ dateJob \in due
  /\ dateJob' = 0
  /\ txn' = [txn EXCEPT ![t] = Scheduled("sweep")]
  /\ UNCHANGED <<rows, newest, lastSeq, audit, published, due, tripped, proc, left>>

\* The date job fires once at the deadline and runs the same sweep.
DeadlineJob(t) ==
  /\ proc = "up"
  /\ txn[t].pc = "idle"
  /\ dateJob \in due
  /\ dateJob' = 0
  /\ txn' = IF GraceOver THEN [txn EXCEPT ![t] = Scheduled("sweep")] ELSE txn
  /\ UNCHANGED <<rows, newest, lastSeq, audit, published, due, tripped, proc, left>>

EnforceMeasure(t) ==
  /\ proc = "up"
  /\ txn[t].pc = "idle"
  /\ ~ InFlight("breaker")
  /\ tripped
  /\ txn' = [txn EXCEPT ![t] = Running("breaker", "tripping")]
  /\ UNCHANGED <<rows, newest, lastSeq, audit, published, due, tripped, dateJob, proc, left>>

\* Fault: the breaker leaves a winding-down system alone.
EnforceActiveOnly(t) ==
  /\ txn[t].pc = "tripping"
  /\ txn' = [txn EXCEPT ![t] =
               IF Current # "active" THEN Idle ELSE Running("breaker", "select")]
  /\ UNCHANGED <<rows, newest, lastSeq, audit, published, due, tripped, dateJob, proc, left>>

EnforceRead(t) ==
  /\ txn[t].pc = "tripping"
  /\ txn' = [txn EXCEPT ![t] =
               IF Current = "halted" THEN Idle ELSE Running("breaker", "select")]
  /\ UNCHANGED <<rows, newest, lastSeq, audit, published, due, tripped, dateJob, proc, left>>

-----------------------------------------------------------------------------
(* StateMachine.transition, one action per await.                          *)

\* The statement's snapshot fixes the row to lock: the newest one committed.
Select(t) ==
  /\ txn[t].pc = "select"
  /\ txn' = [txn EXCEPT ![t].base = newest, ![t].pc = "wait"]
  /\ UNCHANGED <<rows, newest, lastSeq, audit, published, due, tripped, dateJob, proc, left>>

\* Fault: the transition is not validated against the locked row.
LockUnchecked(t) ==
  /\ txn[t].pc = "wait"
  /\ \A u \in Txn : HoldsLock(u) => txn[u].base # txn[t].base
  /\ txn' = [txn EXCEPT ![t].pc = "insert"]
  /\ UNCHANGED <<rows, newest, lastSeq, audit, published, due, tripped, dateJob, proc, left>>

\* The lock is granted and _validate decides on the locked row.  A refused
\* request ends there; a repeated wind-down returns the row it found, and its
\* handler registers that row's deadline again.
Lock(t) ==
  LET found == rows[txn[t].base].state
      accepted == Table!Accepts(found, Target(txn[t].op))
  IN
  /\ txn[t].pc = "wait"
  /\ \A u \in Txn : HoldsLock(u) => txn[u].base # txn[t].base
  /\ txn' = [txn EXCEPT ![t] = IF accepted THEN [@ EXCEPT !.pc = "insert"] ELSE Idle]
  /\ dateJob' = IF txn[t].op = "wind_down" /\ found = "winding_down"
                THEN txn[t].base ELSE dateJob
  /\ UNCHANGED <<rows, newest, lastSeq, audit, published, due, tripped, proc, left>>

\* Fault: the sequence number is read without being taken.
InsertUncounted(t) ==
  /\ txn[t].pc = "insert"
  /\ txn' = [txn EXCEPT ![t].seq = lastSeq + 1, ![t].pc = "append"]
  /\ UNCHANGED <<rows, newest, lastSeq, audit, published, due, tripped, dateJob, proc, left>>

\* Fault: the new state is announced before it is committed.
InsertAndPublish(t) ==
  /\ txn[t].pc = "insert"
  /\ lastSeq' = lastSeq + 1
  /\ published' = published \cup {lastSeq + 1}
  /\ txn' = [txn EXCEPT ![t].seq = lastSeq + 1, ![t].pc = "append"]
  /\ UNCHANGED <<rows, newest, audit, due, tripped, dateJob, proc, left>>

\* flush(): the row gets its sequence number, still uncommitted.
Insert(t) ==
  /\ txn[t].pc = "insert"
  /\ lastSeq' = lastSeq + 1
  /\ txn' = [txn EXCEPT ![t].seq = lastSeq + 1, ![t].pc = "append"]
  /\ UNCHANGED <<rows, newest, audit, published, due, tripped, dateJob, proc, left>>

\* AuditChain._tip: the entry to follow is read before it is written.
ReadTip(t) ==
  /\ txn[t].pc = "append"
  /\ txn' = [txn EXCEPT ![t].tip = Len(audit), ![t].pc = "commit"]
  /\ UNCHANGED <<rows, newest, lastSeq, audit, published, due, tripped, dateJob, proc, left>>

\* Fault: the state row is committed on its own, the audit row when it fits.
CommitApart(t) ==
  LET n == txn[t].seq
      row == [state |-> Target(txn[t].op), op |-> txn[t].op, base |-> txn[t].base]
  IN
  /\ txn[t].pc = "commit"
  /\ rows' = [s \in DOMAIN rows \cup {n} |-> IF s = n THEN row ELSE rows[s]]
  /\ newest' = IF n > newest THEN n ELSE newest
  /\ audit' = IF txn[t].tip = Len(audit) THEN Append(audit, n) ELSE audit
  /\ txn' = [txn EXCEPT ![t].pc = "publish"]
  /\ UNCHANGED <<lastSeq, published, due, tripped, dateJob, proc, left>>

\* The audit row and the state row become visible together.
Commit(t) ==
  LET n == txn[t].seq
      row == [state |-> Target(txn[t].op), op |-> txn[t].op, base |-> txn[t].base]
  IN
  /\ txn[t].pc = "commit"
  /\ txn[t].tip = Len(audit)
  /\ rows' = [s \in DOMAIN rows \cup {n} |-> IF s = n THEN row ELSE rows[s]]
  /\ newest' = IF n > newest THEN n ELSE newest
  /\ audit' = Append(audit, n)
  /\ txn' = [txn EXCEPT ![t].pc = "publish"]
  /\ UNCHANGED <<lastSeq, published, due, tripped, dateJob, proc, left>>

\* Another transaction has taken the audit sequence number: its primary key
\* is unique, the whole transaction rolls back and the caller gets an error.
AuditCollision(t) ==
  /\ txn[t].pc = "commit"
  /\ txn[t].tip < Len(audit)
  /\ txn' = [txn EXCEPT ![t] = Idle]
  /\ proc' = IF txn[t].op = "startup" THEN "down" ELSE proc
  /\ UNCHANGED <<rows, newest, lastSeq, audit, published, due, tripped, dateJob, left>>

\* The publisher returns; post_wind_down then registers the date job.
Publish(t) ==
  /\ txn[t].pc = "publish"
  /\ published' = published \cup {txn[t].seq}
  /\ dateJob' = IF txn[t].op = "wind_down" THEN txn[t].seq ELSE dateJob
  /\ proc' = IF txn[t].op = "startup" THEN "up" ELSE proc
  /\ txn' = [txn EXCEPT ![t] = Idle]
  /\ UNCHANGED <<rows, newest, lastSeq, audit, due, tripped, left>>

\* Redis is down: the local subscribers have the event, the caller an exception.
PublishFails(t) ==
  /\ txn[t].pc = "publish"
  /\ published' = published \cup {txn[t].seq}
  /\ proc' = IF txn[t].op = "startup" THEN "down" ELSE proc
  /\ txn' = [txn EXCEPT ![t] = Idle]
  /\ UNCHANGED <<rows, newest, lastSeq, audit, due, tripped, dateJob, left>>

-----------------------------------------------------------------------------
(* The process and its environment.                                        *)

\* Open transactions roll back and the in-memory date job is gone.
Crash ==
  /\ proc # "down"
  /\ left.crashes > 0
  /\ left' = [left EXCEPT !.crashes = @ - 1]
  /\ proc' = "down"
  /\ txn' = [t \in Txn |-> Idle]
  /\ dateJob' = 0
  /\ UNCHANGED <<rows, newest, lastSeq, audit, published, due, tripped>>

\* Fault: the start of the process initialises the state instead of reading it.
StartupInitialises(t) ==
  /\ proc = "down"
  /\ txn[t].pc = "idle"
  /\ lastSeq' = lastSeq + 1
  /\ newest' = lastSeq + 1
  /\ rows' = [s \in DOMAIN rows \cup {lastSeq + 1} |->
                IF s > lastSeq THEN [state |-> "halted", op |-> "deploy", base |-> 0]
                ELSE rows[s]]
  /\ audit' = Append(audit, lastSeq + 1)
  /\ proc' = "up"
  /\ UNCHANGED <<published, due, tripped, dateJob, txn, left>>

\* ensure_initialised reads the state; it halts only an expired wind-down.
Startup(t) ==
  /\ proc = "down"
  /\ txn[t].pc = "idle"
  /\ IF GraceOver
     THEN /\ proc' = "starting"
          /\ txn' = [txn EXCEPT ![t] = Scheduled("startup")]
     ELSE /\ proc' = "up"
          /\ UNCHANGED txn
  /\ UNCHANGED <<rows, newest, lastSeq, audit, published, due, tripped, dateJob, left>>

DeadlinePasses ==
  /\ \E s \in DOMAIN rows \ due :
       /\ rows[s].state = "winding_down"
       /\ due' = due \cup {s}
  /\ UNCHANGED <<rows, newest, lastSeq, audit, published, tripped, dateJob, txn, proc, left>>

MetricsChange ==
  /\ tripped' = ~ tripped
  /\ UNCHANGED <<rows, newest, lastSeq, audit, published, due, dateJob, txn, proc, left>>

\* Any other component appends to the same chain.
ForeignAudit ==
  /\ proc = "up"
  /\ left.foreign > 0
  /\ left' = [left EXCEPT !.foreign = @ - 1]
  /\ audit' = Append(audit, 0)
  /\ UNCHANGED <<rows, newest, lastSeq, published, due, tripped, dateJob, txn, proc>>

-----------------------------------------------------------------------------

\* The awaits of a handler that is already running.
Proceed(t) ==
  \/ ActivateMeasure(t)
  \/ EnforceRead(t)
  \/ Select(t)
  \/ Lock(t)
  \/ Insert(t)
  \/ ReadTip(t)
  \/ Commit(t)
  \/ AuditCollision(t)
  \/ Publish(t)
  \/ PublishFails(t)

Next ==
  \/ \E t \in Txn :
       \/ KillSwitch(t)
       \/ WindDown(t)
       \/ Activate(t)
       \/ Sweep(t)
       \/ DeadlineJob(t)
       \/ EnforceMeasure(t)
       \/ Startup(t)
       \/ Proceed(t)
  \/ Crash
  \/ DeadlinePasses
  \/ MetricsChange
  \/ ForeignAudit

Spec == Init /\ [][Next]_vars

\* A running handler goes on and the interval jobs keep firing while the process
\* runs; nothing obliges the operator, the clock, the market or whoever starts it.
Fairness ==
  /\ \A t \in Txn : WF_vars(Proceed(t))
  /\ WF_vars(\E t \in Txn : Sweep(t))
  /\ WF_vars(\E t \in Txn : EnforceMeasure(t))

FairSpec == Spec /\ Fairness

-----------------------------------------------------------------------------
(* Properties.                                                             *)

RowsTyped ==
  /\ lastSeq \in Nat
  /\ DOMAIN rows \subseteq 1..lastSeq
  /\ \A s \in DOMAIN rows :
       rows[s] \in [state : Table!States, op : Operations \cup {"deploy"}, base : 0..lastSeq]
  /\ newest \in DOMAIN rows
  /\ audit \in Seq(0..lastSeq)
  /\ published \subseteq 1..lastSeq
  /\ due \subseteq DOMAIN rows
  /\ dateJob \in 0..lastSeq

TxnTyped ==
  txn \in [Txn -> [op : Operations \cup {"none"}, pc : Steps,
                  saw : 0..lastSeq, base : 0..lastSeq, seq : 0..lastSeq, tip : Nat]]

EnvironmentTyped ==
  /\ tripped \in BOOLEAN
  /\ proc \in {"up", "starting", "down"}
  /\ left \in [requests : Nat, foreign : Nat, crashes : Nat]

\* Type invariant: sequence numbers stay below the generator, the current row
\* is a committed one and deadlines belong to committed rows.
TypeOK == RowsTyped /\ TxnTyped /\ EnvironmentTyped

\* A committed state row and its audit entry appear together or not at all
\* (_insert: "row and audit in one transaction"), whatever crashed or collided:
\* every row is announced by exactly one entry, and entries announce only rows.
AuditMatchesRows ==
  /\ \A i \in 1..Len(audit) : audit[i] # 0 => audit[i] \in DOMAIN rows
  /\ \A s \in DOMAIN rows : \E i \in 1..Len(audit) : audit[i] = s
  /\ \A i, j \in 1..Len(audit) : audit[i] = audit[j] /\ audit[i] # 0 => i = j

\* Subscribers never hear of a state the database does not hold: commit first,
\* publish afterwards, also when the handler dies in between.
OnlyCommittedIsPublished == published \subseteq DOMAIN rows

\* The scheduler halts the wind-down whose deadline it saw pass and no other row,
\* unless another transition was committed between the sweep's read and its pick
\* (sweep_expired_grace reads without a lock): only an operator's activation or
\* new wind-down is halted early by that, and never by the start of the process.
ScheduledHaltIsDue ==
  \A t \in Txn : txn[t].op \in {"sweep", "startup"} /\ Undecided(t) =>
    /\ txn[t].saw \in due
    /\ \/ txn[t].base = txn[t].saw
       \/ /\ txn[t].op = "sweep"
          /\ txn[t].base > txn[t].saw
          /\ rows[txn[t].base].state # "halted" =>
               rows[txn[t].base].op \in {"activate", "wind_down"}

\* Only the operator ends a halt, with an activation; a wind-down does it only if
\* it had picked its row, an active one, before the halt was committed.  Neither a
\* job nor the start of the process ever does.
HaltEndsByOperator ==
  [][Current = "halted" /\ Current' # "halted" =>
       LET row == rows'[newest'] IN
         \/ row.op = "activate"
         \/ /\ row.op = "wind_down"
            /\ row.base < newest
            /\ rows[row.base].state = "active"]_vars

\* Starting the process changes nothing but an expired wind-down, which it halts
\* (ensure_initialised): no other state is lost or invented while it is down.
RestartKeepsState ==
  [][proc # "up" => \/ newest' = newest
                    \/ /\ Current = "winding_down" /\ newest \in due
                       /\ Current' = "halted"]_vars

\* An expired grace period ends in a halt or in an operator's later decision,
\* even when the date job was lost with the process (sweep_expired_grace); only a
\* process that is not started again leaves it open.
GraceEnds == GraceOver ~> ~ GraceOver \/ proc = "down"

\* A tripped metric halts the system or recovers, also when the enforcement
\* races requests and loses a transaction to an audit collision, as long as the
\* process runs.
BreakerHalts == tripped ~> ~ tripped \/ Current = "halted" \/ proc = "down"

\* lld.md 6.1: rows, locks, jobs, collisions and crashes come to nothing more
\* than the transition table, applied to what each request found when it began.
ImplementsTable == Table!Spec

=============================================================================
