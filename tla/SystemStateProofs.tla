-------------------------- MODULE SystemStateProofs --------------------------
(***************************************************************************)
(* Theorems about SystemState, for any number of slots and any bounds.      *)
(* IInv is the inductive invariant: what every transition in progress knows *)
(* about the row it has locked, the sequence number it was given and the    *)
(* audit entry it means to follow.  StartsAlone adds what the start of the  *)
(* process can rely on.                                                     *)
(***************************************************************************)
EXTENDS SystemState, TLAPS

\* A transition between its SELECT and its commit has picked a committed row.
Picked == {"wait", "insert", "append", "commit"}

RowsInOrder == \A s \in DOMAIN rows : s <= newest

\* The row that is being inserted is new, and no two transactions insert the same.
InsertsFresh ==
  /\ \A t \in Txn : txn[t].pc \in {"append", "commit"} =>
       /\ txn[t].seq \in 1..lastSeq
       /\ txn[t].seq \notin DOMAIN rows
  /\ \A t, u \in Txn :
       /\ txn[t].pc \in {"append", "commit"}
       /\ txn[u].pc \in {"append", "commit"}
       /\ txn[t].seq = txn[u].seq
       => t = u
  /\ \A t \in Txn : txn[t].pc = "publish" => txn[t].seq \in DOMAIN rows

\* Sequence numbers are taken in order: a row comes after the row it was decided on.
NumberedAfterBase ==
  \A t \in Txn : txn[t].pc \in {"append", "commit"} => txn[t].base < txn[t].seq

PicksCommitted ==
  \A t \in Txn : txn[t].pc \in Picked => txn[t].op \in Operations /\ txn[t].base \in DOMAIN rows

\* _validate has accepted the transition from the row that is locked.
ValidatedOnBase ==
  \A t \in Txn : txn[t].pc \in {"insert", "append", "commit"} =>
    Table!Accepts(rows[txn[t].base].state, Target(txn[t].op))

\* A scheduled halt has seen an expired deadline before it picked its row.
SawDeadline ==
  \A t \in Txn : txn[t].op \in {"sweep", "startup"} =>
    /\ txn[t].pc \in {"select"} \cup Picked \cup {"publish"}
    /\ txn[t].saw \in due
    /\ txn[t].pc \in Picked => txn[t].saw <= txn[t].base

\* A row holds the state its author asked for.
WrittenAsAsked ==
  \A s \in DOMAIN rows :
    rows[s].state = IF rows[s].op = "deploy" THEN "halted" ELSE Target(rows[s].op)

IInv ==
  /\ TypeOK
  /\ RowsInOrder
  /\ InsertsFresh
  /\ NumberedAfterBase
  /\ PicksCommitted
  /\ ValidatedOnBase
  /\ SawDeadline
  /\ AuditMatchesRows
  /\ OnlyCommittedIsPublished
  /\ WrittenAsAsked

-----------------------------------------------------------------------------
(* Preservation of IInv, action by action.                                 *)

LEMMA Bounds ==
  ASSUME RowsTyped
  PROVE  lastSeq \in Nat /\ newest \in 0..lastSeq /\ Len(audit) \in Nat
BY DEF RowsTyped

\* A slot that begins a halt of the scheduler.
LEMMA ScheduledTyped ==
  ASSUME RowsTyped, NEW op \in Operations
  PROVE  Scheduled(op) \in [op : Operations \cup {"none"}, pc : Steps, saw : 0..lastSeq,
                            base : 0..lastSeq, seq : 0..lastSeq, tip : Nat]
<1>1. Scheduled(op) = [op |-> op, pc |-> "select", saw |-> newest,
                       base |-> 0, seq |-> 0, tip |-> 0]
  BY DEF Scheduled, Running
<1>2. newest \in 0..lastSeq /\ 0 \in 0..lastSeq /\ 0 \in Nat /\ "select" \in Steps
  BY Bounds DEF Steps
<1> QED
  BY <1>1, <1>2

LEMMA EnvironmentStep ==
  ASSUME EnvironmentTyped,
         tripped' \in BOOLEAN,
         proc' \in {"up", "starting", "down"},
         left' \in [requests : Nat, foreign : Nat, crashes : Nat]
  PROVE  EnvironmentTyped'
BY DEF EnvironmentTyped

\* Handlers that only begin, are refused or end; a sweep begins on a row whose
\* deadline has passed.
Calm(u) ==
  \/ txn'[u] = txn[u]
  \/ /\ txn'[u].op \notin {"sweep", "startup"}
     /\ txn'[u].pc \in {"idle", "measured", "tripping", "select"}
  \/ txn'[u].pc = "select" /\ GraceOver /\ txn'[u].saw = newest

\* A step that leaves the tables alone and only starts or ends handlers.
LEMMA CalmStep ==
  ASSUME IInv,
         UNCHANGED <<rows, newest, lastSeq, audit, published, due>>,
         dateJob' \in 0..lastSeq,
         TxnTyped', EnvironmentTyped',
         \A u \in Txn : Calm(u)
  PROVE  IInv'
<1> USE DEF IInv, Calm
<1>1. RowsTyped'
  BY DEF TypeOK, RowsTyped
<1>2. RowsInOrder' /\ OnlyCommittedIsPublished'
  BY DEF RowsInOrder, OnlyCommittedIsPublished
<1>3. InsertsFresh' /\ NumberedAfterBase'
  BY DEF TypeOK, TxnTyped, InsertsFresh, NumberedAfterBase
<1>4. PicksCommitted' /\ ValidatedOnBase'
  BY DEF PicksCommitted, ValidatedOnBase, Picked
<1>5. SawDeadline'
  BY DEF TypeOK, RowsTyped, SawDeadline, Picked, GraceOver, RowsInOrder
<1>6. AuditMatchesRows'
  BY DEF AuditMatchesRows
<1>7. WrittenAsAsked'
  BY DEF WrittenAsAsked, Target
<1> QED
  BY <1>1, <1>2, <1>3, <1>4, <1>5, <1>6, <1>7 DEF TypeOK

LEMMA KillSwitchStep ==
  ASSUME IInv, NEW t \in Txn, KillSwitch(t)
  PROVE  IInv'
<1>1. RowsTyped /\ TxnTyped /\ EnvironmentTyped
  BY DEF IInv, TypeOK
<1>2. TxnTyped'
  BY <1>1, Bounds DEF TxnTyped, KillSwitch, Request, Running, Idle, Operations, Steps
<1>3. EnvironmentTyped'
  <2>1. tripped' \in BOOLEAN
    BY <1>1 DEF EnvironmentTyped, KillSwitch, Request
  <2>2. proc' \in {"up", "starting", "down"}
    BY <1>1 DEF EnvironmentTyped, KillSwitch, Request
  <2>3. left' \in [requests : Nat, foreign : Nat, crashes : Nat]
    BY <1>1 DEF EnvironmentTyped, KillSwitch, Request
  <2> QED
    BY <1>1, <2>1, <2>2, <2>3, EnvironmentStep
<1>4. dateJob' \in 0..lastSeq /\ UNCHANGED <<rows, newest, lastSeq, audit, published, due>>
  BY <1>1 DEF RowsTyped, KillSwitch, Request
<1>5. \A u \in Txn : Calm(u)
  BY <1>1 DEF Calm, TxnTyped, KillSwitch, Request, Running, Idle
<1> QED
  BY <1>2, <1>3, <1>4, <1>5, CalmStep

LEMMA WindDownStep ==
  ASSUME IInv, NEW t \in Txn, WindDown(t)
  PROVE  IInv'
<1>1. RowsTyped /\ TxnTyped /\ EnvironmentTyped
  BY DEF IInv, TypeOK
<1>2. TxnTyped'
  BY <1>1, Bounds DEF TxnTyped, WindDown, Request, Running, Idle, Operations, Steps
<1>3. EnvironmentTyped'
  <2>1. tripped' \in BOOLEAN
    BY <1>1 DEF EnvironmentTyped, WindDown, Request
  <2>2. proc' \in {"up", "starting", "down"}
    BY <1>1 DEF EnvironmentTyped, WindDown, Request
  <2>3. left' \in [requests : Nat, foreign : Nat, crashes : Nat]
    BY <1>1 DEF EnvironmentTyped, WindDown, Request
  <2> QED
    BY <1>1, <2>1, <2>2, <2>3, EnvironmentStep
<1>4. dateJob' \in 0..lastSeq /\ UNCHANGED <<rows, newest, lastSeq, audit, published, due>>
  BY <1>1 DEF RowsTyped, WindDown, Request
<1>5. \A u \in Txn : Calm(u)
  BY <1>1 DEF Calm, TxnTyped, WindDown, Request, Running, Idle
<1> QED
  BY <1>2, <1>3, <1>4, <1>5, CalmStep

LEMMA ActivateStep ==
  ASSUME IInv, NEW t \in Txn, Activate(t)
  PROVE  IInv'
<1>1. RowsTyped /\ TxnTyped /\ EnvironmentTyped
  BY DEF IInv, TypeOK
<1>2. TxnTyped'
  BY <1>1, Bounds DEF TxnTyped, Activate, Request, Running, Idle, Operations, Steps
<1>3. EnvironmentTyped'
  <2>1. tripped' \in BOOLEAN
    BY <1>1 DEF EnvironmentTyped, Activate, Request
  <2>2. proc' \in {"up", "starting", "down"}
    BY <1>1 DEF EnvironmentTyped, Activate, Request
  <2>3. left' \in [requests : Nat, foreign : Nat, crashes : Nat]
    BY <1>1 DEF EnvironmentTyped, Activate, Request
  <2> QED
    BY <1>1, <2>1, <2>2, <2>3, EnvironmentStep
<1>4. dateJob' \in 0..lastSeq /\ UNCHANGED <<rows, newest, lastSeq, audit, published, due>>
  BY <1>1 DEF RowsTyped, Activate, Request
<1>5. \A u \in Txn : Calm(u)
  BY <1>1 DEF Calm, TxnTyped, Activate, Request, Running, Idle
<1> QED
  BY <1>2, <1>3, <1>4, <1>5, CalmStep

LEMMA SweepStep ==
  ASSUME IInv, NEW t \in Txn, Sweep(t)
  PROVE  IInv'
<1>1. RowsTyped /\ TxnTyped /\ EnvironmentTyped
  BY DEF IInv, TypeOK
<1>2. TxnTyped'
  <2>1. Scheduled("sweep") \in [op : Operations \cup {"none"}, pc : Steps, saw : 0..lastSeq,
                                base : 0..lastSeq, seq : 0..lastSeq, tip : Nat]
    BY <1>1, ScheduledTyped DEF Operations
  <2> QED
    BY <1>1, <2>1 DEF TxnTyped, Sweep
<1>3. EnvironmentTyped'
  <2>1. tripped' \in BOOLEAN
    BY <1>1 DEF EnvironmentTyped, Sweep
  <2>2. proc' \in {"up", "starting", "down"}
    BY <1>1 DEF EnvironmentTyped, Sweep
  <2>3. left' \in [requests : Nat, foreign : Nat, crashes : Nat]
    BY <1>1 DEF EnvironmentTyped, Sweep
  <2> QED
    BY <1>1, <2>1, <2>2, <2>3, EnvironmentStep
<1>4. dateJob' \in 0..lastSeq /\ UNCHANGED <<rows, newest, lastSeq, audit, published, due>>
  BY <1>1 DEF RowsTyped, Sweep
<1>5. \A u \in Txn : Calm(u)
  BY <1>1 DEF Calm, TxnTyped, Sweep, Scheduled, Running, Idle
<1> QED
  BY <1>2, <1>3, <1>4, <1>5, CalmStep

LEMMA DeadlineJobStep ==
  ASSUME IInv, NEW t \in Txn, DeadlineJob(t)
  PROVE  IInv'
<1>1. RowsTyped /\ TxnTyped /\ EnvironmentTyped
  BY DEF IInv, TypeOK
<1>2. TxnTyped'
  <2>1. Scheduled("sweep") \in [op : Operations \cup {"none"}, pc : Steps, saw : 0..lastSeq,
                                base : 0..lastSeq, seq : 0..lastSeq, tip : Nat]
    BY <1>1, ScheduledTyped DEF Operations
  <2> QED
    BY <1>1, <2>1 DEF TxnTyped, DeadlineJob
<1>3. EnvironmentTyped'
  <2>1. tripped' \in BOOLEAN
    BY <1>1 DEF EnvironmentTyped, DeadlineJob
  <2>2. proc' \in {"up", "starting", "down"}
    BY <1>1 DEF EnvironmentTyped, DeadlineJob
  <2>3. left' \in [requests : Nat, foreign : Nat, crashes : Nat]
    BY <1>1 DEF EnvironmentTyped, DeadlineJob
  <2> QED
    BY <1>1, <2>1, <2>2, <2>3, EnvironmentStep
<1>4. dateJob' \in 0..lastSeq /\ UNCHANGED <<rows, newest, lastSeq, audit, published, due>>
  BY <1>1 DEF RowsTyped, DeadlineJob
<1>5. \A u \in Txn : Calm(u)
  BY <1>1 DEF Calm, TxnTyped, DeadlineJob, Scheduled, Running, Idle
<1> QED
  BY <1>2, <1>3, <1>4, <1>5, CalmStep

LEMMA EnforceMeasureStep ==
  ASSUME IInv, NEW t \in Txn, EnforceMeasure(t)
  PROVE  IInv'
<1>1. RowsTyped /\ TxnTyped /\ EnvironmentTyped
  BY DEF IInv, TypeOK
<1>2. TxnTyped'
  BY <1>1, Bounds DEF TxnTyped, EnforceMeasure, Running, Idle, Operations, Steps
<1>3. EnvironmentTyped'
  <2>1. tripped' \in BOOLEAN
    BY <1>1 DEF EnvironmentTyped, EnforceMeasure
  <2>2. proc' \in {"up", "starting", "down"}
    BY <1>1 DEF EnvironmentTyped, EnforceMeasure
  <2>3. left' \in [requests : Nat, foreign : Nat, crashes : Nat]
    BY <1>1 DEF EnvironmentTyped, EnforceMeasure
  <2> QED
    BY <1>1, <2>1, <2>2, <2>3, EnvironmentStep
<1>4. dateJob' \in 0..lastSeq /\ UNCHANGED <<rows, newest, lastSeq, audit, published, due>>
  BY <1>1 DEF RowsTyped, EnforceMeasure
<1>5. \A u \in Txn : Calm(u)
  BY <1>1 DEF Calm, TxnTyped, EnforceMeasure, Running, Idle
<1> QED
  BY <1>2, <1>3, <1>4, <1>5, CalmStep

LEMMA StartupStep ==
  ASSUME IInv, NEW t \in Txn, Startup(t)
  PROVE  IInv'
<1>1. RowsTyped /\ TxnTyped /\ EnvironmentTyped
  BY DEF IInv, TypeOK
<1>2. TxnTyped'
  <2>1. Scheduled("startup") \in [op : Operations \cup {"none"}, pc : Steps, saw : 0..lastSeq,
                                  base : 0..lastSeq, seq : 0..lastSeq, tip : Nat]
    BY <1>1, ScheduledTyped DEF Operations
  <2> QED
    BY <1>1, <2>1 DEF TxnTyped, Startup
<1>3. EnvironmentTyped'
  <2>1. tripped' \in BOOLEAN
    BY <1>1 DEF EnvironmentTyped, Startup
  <2>2. proc' \in {"up", "starting", "down"}
    BY <1>1 DEF EnvironmentTyped, Startup
  <2>3. left' \in [requests : Nat, foreign : Nat, crashes : Nat]
    BY <1>1 DEF EnvironmentTyped, Startup
  <2> QED
    BY <1>1, <2>1, <2>2, <2>3, EnvironmentStep
<1>4. dateJob' \in 0..lastSeq /\ UNCHANGED <<rows, newest, lastSeq, audit, published, due>>
  BY <1>1 DEF RowsTyped, Startup
<1>5. \A u \in Txn : Calm(u)
  BY <1>1 DEF Calm, TxnTyped, Startup, Scheduled, Running, Idle
<1> QED
  BY <1>2, <1>3, <1>4, <1>5, CalmStep

LEMMA ActivateMeasureStep ==
  ASSUME IInv, NEW t \in Txn, ActivateMeasure(t)
  PROVE  IInv'
<1>1. RowsTyped /\ TxnTyped /\ EnvironmentTyped
  BY DEF IInv, TypeOK
<1>2. TxnTyped'
  BY <1>1, Bounds DEF TxnTyped, ActivateMeasure, Running, Idle, Operations, Steps
<1>3. EnvironmentTyped'
  <2>1. tripped' \in BOOLEAN
    BY <1>1 DEF EnvironmentTyped, ActivateMeasure
  <2>2. proc' \in {"up", "starting", "down"}
    BY <1>1 DEF EnvironmentTyped, ActivateMeasure
  <2>3. left' \in [requests : Nat, foreign : Nat, crashes : Nat]
    BY <1>1 DEF EnvironmentTyped, ActivateMeasure
  <2> QED
    BY <1>1, <2>1, <2>2, <2>3, EnvironmentStep
<1>4. dateJob' \in 0..lastSeq /\ UNCHANGED <<rows, newest, lastSeq, audit, published, due>>
  BY <1>1 DEF RowsTyped, ActivateMeasure
<1>5. \A u \in Txn : Calm(u)
  BY <1>1 DEF Calm, TxnTyped, ActivateMeasure, Running, Idle
<1> QED
  BY <1>2, <1>3, <1>4, <1>5, CalmStep

LEMMA EnforceReadStep ==
  ASSUME IInv, NEW t \in Txn, EnforceRead(t)
  PROVE  IInv'
<1>1. RowsTyped /\ TxnTyped /\ EnvironmentTyped
  BY DEF IInv, TypeOK
<1>2. TxnTyped'
  BY <1>1, Bounds DEF TxnTyped, EnforceRead, Running, Idle, Operations, Steps
<1>3. EnvironmentTyped'
  <2>1. tripped' \in BOOLEAN
    BY <1>1 DEF EnvironmentTyped, EnforceRead
  <2>2. proc' \in {"up", "starting", "down"}
    BY <1>1 DEF EnvironmentTyped, EnforceRead
  <2>3. left' \in [requests : Nat, foreign : Nat, crashes : Nat]
    BY <1>1 DEF EnvironmentTyped, EnforceRead
  <2> QED
    BY <1>1, <2>1, <2>2, <2>3, EnvironmentStep
<1>4. dateJob' \in 0..lastSeq /\ UNCHANGED <<rows, newest, lastSeq, audit, published, due>>
  BY <1>1 DEF RowsTyped, EnforceRead
<1>5. \A u \in Txn : Calm(u)
  BY <1>1 DEF Calm, TxnTyped, EnforceRead, Running, Idle
<1> QED
  BY <1>2, <1>3, <1>4, <1>5, CalmStep

LEMMA AuditCollisionStep ==
  ASSUME IInv, NEW t \in Txn, AuditCollision(t)
  PROVE  IInv'
<1>1. RowsTyped /\ TxnTyped /\ EnvironmentTyped
  BY DEF IInv, TypeOK
<1>2. TxnTyped'
  BY <1>1, Bounds DEF TxnTyped, AuditCollision, Running, Idle, Operations, Steps
<1>3. EnvironmentTyped'
  <2>1. tripped' \in BOOLEAN
    BY <1>1 DEF EnvironmentTyped, AuditCollision
  <2>2. proc' \in {"up", "starting", "down"}
    BY <1>1 DEF EnvironmentTyped, AuditCollision
  <2>3. left' \in [requests : Nat, foreign : Nat, crashes : Nat]
    BY <1>1 DEF EnvironmentTyped, AuditCollision
  <2> QED
    BY <1>1, <2>1, <2>2, <2>3, EnvironmentStep
<1>4. dateJob' \in 0..lastSeq /\ UNCHANGED <<rows, newest, lastSeq, audit, published, due>>
  BY <1>1 DEF RowsTyped, AuditCollision
<1>5. \A u \in Txn : Calm(u)
  BY <1>1 DEF Calm, TxnTyped, AuditCollision, Running, Idle
<1> QED
  BY <1>2, <1>3, <1>4, <1>5, CalmStep

LEMMA CrashStep ==
  ASSUME IInv, Crash
  PROVE  IInv'
<1>1. RowsTyped /\ TxnTyped /\ EnvironmentTyped
  BY DEF IInv, TypeOK
<1>2. TxnTyped'
  BY <1>1, Bounds DEF TxnTyped, Crash, Running, Idle, Operations, Steps
<1>3. EnvironmentTyped'
  <2>1. tripped' \in BOOLEAN
    BY <1>1 DEF EnvironmentTyped, Crash
  <2>2. proc' \in {"up", "starting", "down"}
    BY <1>1 DEF EnvironmentTyped, Crash
  <2>3. left' \in [requests : Nat, foreign : Nat, crashes : Nat]
    BY <1>1 DEF EnvironmentTyped, Crash
  <2> QED
    BY <1>1, <2>1, <2>2, <2>3, EnvironmentStep
<1>4. dateJob' \in 0..lastSeq /\ UNCHANGED <<rows, newest, lastSeq, audit, published, due>>
  BY <1>1 DEF RowsTyped, Crash
<1>5. \A u \in Txn : Calm(u)
  BY <1>1 DEF Calm, TxnTyped, Crash, Running, Idle
<1> QED
  BY <1>2, <1>3, <1>4, <1>5, CalmStep

LEMMA MetricsChangeStep ==
  ASSUME IInv, MetricsChange
  PROVE  IInv'
<1>1. RowsTyped /\ TxnTyped /\ EnvironmentTyped
  BY DEF IInv, TypeOK
<1>2. TxnTyped'
  BY <1>1, Bounds DEF TxnTyped, MetricsChange, Running, Idle, Operations, Steps
<1>3. EnvironmentTyped'
  <2>1. tripped' \in BOOLEAN
    BY <1>1 DEF EnvironmentTyped, MetricsChange
  <2>2. proc' \in {"up", "starting", "down"}
    BY <1>1 DEF EnvironmentTyped, MetricsChange
  <2>3. left' \in [requests : Nat, foreign : Nat, crashes : Nat]
    BY <1>1 DEF EnvironmentTyped, MetricsChange
  <2> QED
    BY <1>1, <2>1, <2>2, <2>3, EnvironmentStep
<1>4. dateJob' \in 0..lastSeq /\ UNCHANGED <<rows, newest, lastSeq, audit, published, due>>
  BY <1>1 DEF RowsTyped, MetricsChange
<1>5. \A u \in Txn : Calm(u)
  BY <1>1 DEF Calm, TxnTyped, MetricsChange, Running, Idle
<1> QED
  BY <1>2, <1>3, <1>4, <1>5, CalmStep

LEMMA SelectStep ==
  ASSUME IInv, NEW t \in Txn, Select(t)
  PROVE  IInv'
<1>1. RowsTyped /\ TxnTyped /\ EnvironmentTyped
  BY DEF IInv, TypeOK
<1>2. TxnTyped'
  BY <1>1, Bounds DEF TxnTyped, Select, Idle, Operations, Steps
<1>3. EnvironmentTyped'
  <2>1. tripped' \in BOOLEAN
    BY <1>1 DEF EnvironmentTyped, Select
  <2>2. proc' \in {"up", "starting", "down"}
    BY <1>1 DEF EnvironmentTyped, Select
  <2>3. left' \in [requests : Nat, foreign : Nat, crashes : Nat]
    BY <1>1 DEF EnvironmentTyped, Select
  <2> QED
    BY <1>1, <2>1, <2>2, <2>3, EnvironmentStep
<1>4. RowsTyped'
  BY <1>1 DEF IInv, RowsTyped, TxnTyped, InsertsFresh, PicksCommitted, Picked, Select, Target,
              Table!States, Operations
<1>5. RowsInOrder'
  BY <1>1 DEF IInv, RowsTyped, RowsInOrder, InsertsFresh, Select
<1>6. InsertsFresh'
  BY <1>1 DEF IInv, RowsTyped, TxnTyped, InsertsFresh, Select, Idle
<1>7. PicksCommitted'
  BY <1>1 DEF IInv, RowsTyped, TxnTyped, PicksCommitted, Picked, Select, Idle
<1>8. ValidatedOnBase'
  BY <1>1 DEF IInv, RowsTyped, TxnTyped, ValidatedOnBase, PicksCommitted, Picked, InsertsFresh, Select, Idle
<1>9. SawDeadline'
  BY <1>1 DEF IInv, RowsTyped, TxnTyped, SawDeadline, Picked, Select, Idle
<1>10. AuditMatchesRows'
  BY <1>1 DEF IInv, RowsTyped, AuditMatchesRows, Select
<1>11. OnlyCommittedIsPublished'
  BY <1>1 DEF IInv, RowsTyped, InsertsFresh, OnlyCommittedIsPublished, Select
<1>12. WrittenAsAsked'
  BY <1>1 DEF IInv, RowsTyped, TxnTyped, WrittenAsAsked, InsertsFresh, PicksCommitted, Picked, Operations, Select
<1>13. NumberedAfterBase'
  BY <1>1 DEF IInv, RowsTyped, TxnTyped, NumberedAfterBase, PicksCommitted, Picked, Select, Idle
<1> QED
  BY <1>2, <1>3, <1>4, <1>5, <1>6, <1>7, <1>8, <1>9, <1>10, <1>11, <1>12,
     <1>13 DEF IInv, TypeOK

LEMMA LockStep ==
  ASSUME IInv, NEW t \in Txn, Lock(t)
  PROVE  IInv'
<1>1. RowsTyped /\ TxnTyped /\ EnvironmentTyped
  BY DEF IInv, TypeOK
<1>2. TxnTyped'
  BY <1>1, Bounds DEF TxnTyped, Lock, Idle, Operations, Steps
<1>3. EnvironmentTyped'
  <2>1. tripped' \in BOOLEAN
    BY <1>1 DEF EnvironmentTyped, Lock
  <2>2. proc' \in {"up", "starting", "down"}
    BY <1>1 DEF EnvironmentTyped, Lock
  <2>3. left' \in [requests : Nat, foreign : Nat, crashes : Nat]
    BY <1>1 DEF EnvironmentTyped, Lock
  <2> QED
    BY <1>1, <2>1, <2>2, <2>3, EnvironmentStep
<1>4. RowsTyped'
  BY <1>1 DEF IInv, RowsTyped, TxnTyped, InsertsFresh, PicksCommitted, Picked, Lock, Target,
              Table!States, Operations
<1>5. RowsInOrder'
  BY <1>1 DEF IInv, RowsTyped, RowsInOrder, InsertsFresh, Lock
<1>6. InsertsFresh'
  BY <1>1 DEF IInv, RowsTyped, TxnTyped, InsertsFresh, Lock, Idle
<1>7. PicksCommitted'
  BY <1>1 DEF IInv, RowsTyped, TxnTyped, PicksCommitted, Picked, Lock, Idle
<1>8. ValidatedOnBase'
  BY <1>1 DEF IInv, RowsTyped, TxnTyped, ValidatedOnBase, PicksCommitted, Picked, InsertsFresh, Lock, Idle
<1>9. SawDeadline'
  BY <1>1 DEF IInv, RowsTyped, TxnTyped, SawDeadline, Picked, Lock, Idle
<1>10. AuditMatchesRows'
  BY <1>1 DEF IInv, RowsTyped, AuditMatchesRows, Lock
<1>11. OnlyCommittedIsPublished'
  BY <1>1 DEF IInv, RowsTyped, InsertsFresh, OnlyCommittedIsPublished, Lock
<1>12. WrittenAsAsked'
  BY <1>1 DEF IInv, RowsTyped, TxnTyped, WrittenAsAsked, InsertsFresh, PicksCommitted, Picked, Operations, Lock
<1>13. NumberedAfterBase'
  BY <1>1 DEF IInv, RowsTyped, TxnTyped, NumberedAfterBase, PicksCommitted, Picked, Lock, Idle
<1> QED
  BY <1>2, <1>3, <1>4, <1>5, <1>6, <1>7, <1>8, <1>9, <1>10, <1>11, <1>12,
     <1>13 DEF IInv, TypeOK

LEMMA InsertStep ==
  ASSUME IInv, NEW t \in Txn, Insert(t)
  PROVE  IInv'
<1>1. RowsTyped /\ TxnTyped /\ EnvironmentTyped
  BY DEF IInv, TypeOK
<1>2. TxnTyped'
  <2>1. lastSeq \in Nat /\ lastSeq' = lastSeq + 1 /\ "append" \in Steps
    BY <1>1, Bounds DEF Insert, Steps
  <2>2. txn \in [Txn -> [op : Operations \cup {"none"}, pc : Steps,
                        saw : 0..lastSeq', base : 0..lastSeq', seq : 0..lastSeq', tip : Nat]]
    BY <1>1, <2>1 DEF TxnTyped
  <2> QED
    BY <2>1, <2>2 DEF TxnTyped, Insert
<1>3. EnvironmentTyped'
  <2>1. tripped' \in BOOLEAN
    BY <1>1 DEF EnvironmentTyped, Insert
  <2>2. proc' \in {"up", "starting", "down"}
    BY <1>1 DEF EnvironmentTyped, Insert
  <2>3. left' \in [requests : Nat, foreign : Nat, crashes : Nat]
    BY <1>1 DEF EnvironmentTyped, Insert
  <2> QED
    BY <1>1, <2>1, <2>2, <2>3, EnvironmentStep
<1>4. RowsTyped'
  BY <1>1 DEF IInv, RowsTyped, TxnTyped, InsertsFresh, PicksCommitted, Picked, Insert, Target,
              Table!States, Operations
<1>5. RowsInOrder'
  BY <1>1 DEF IInv, RowsTyped, RowsInOrder, InsertsFresh, Insert
<1>14. /\ txn[t].pc = "insert" /\ txn'[t].pc = "append" /\ txn'[t].seq = lastSeq + 1
       /\ txn'[t].base = txn[t].base /\ txn'[t].op = txn[t].op
       /\ \A u \in Txn : u # t => txn'[u] = txn[u]
  BY <1>1 DEF TxnTyped, Insert
<1>15. lastSeq \in Nat /\ lastSeq' = lastSeq + 1 /\ rows' = rows /\ DOMAIN rows \subseteq 1..lastSeq
  BY <1>1 DEF RowsTyped, Insert
<1>6. InsertsFresh'
  BY <1>14, <1>15 DEF IInv, InsertsFresh
<1>7. PicksCommitted'
  BY <1>1 DEF IInv, RowsTyped, TxnTyped, PicksCommitted, Picked, Insert, Idle
<1>8. ValidatedOnBase'
  BY <1>1 DEF IInv, RowsTyped, TxnTyped, ValidatedOnBase, PicksCommitted, Picked, InsertsFresh, Insert, Idle
<1>9. SawDeadline'
  BY <1>1 DEF IInv, RowsTyped, TxnTyped, SawDeadline, Picked, Insert, Idle
<1>10. AuditMatchesRows'
  BY <1>1 DEF IInv, RowsTyped, AuditMatchesRows, Insert
<1>11. OnlyCommittedIsPublished'
  BY <1>1 DEF IInv, RowsTyped, InsertsFresh, OnlyCommittedIsPublished, Insert
<1>12. WrittenAsAsked'
  BY <1>1 DEF IInv, RowsTyped, TxnTyped, WrittenAsAsked, InsertsFresh, PicksCommitted, Picked, Operations, Insert
<1>13. NumberedAfterBase'
  <2>1. txn[t].base \in DOMAIN rows
    BY <1>14 DEF IInv, PicksCommitted, Picked
  <2>2. txn'[t].base < txn'[t].seq
    BY <2>1, <1>14, <1>15
  <2>3. ASSUME NEW u \in Txn, u # t, txn'[u].pc \in {"append", "commit"}
        PROVE  txn'[u].base < txn'[u].seq
    BY <2>3, <1>14 DEF IInv, NumberedAfterBase
  <2> QED
    BY <2>2, <2>3 DEF NumberedAfterBase
<1> QED
  BY <1>2, <1>3, <1>4, <1>5, <1>6, <1>7, <1>8, <1>9, <1>10, <1>11, <1>12,
     <1>13 DEF IInv, TypeOK

LEMMA ReadTipStep ==
  ASSUME IInv, NEW t \in Txn, ReadTip(t)
  PROVE  IInv'
<1>1. RowsTyped /\ TxnTyped /\ EnvironmentTyped
  BY DEF IInv, TypeOK
<1>2. TxnTyped'
  <2>1. Len(audit) \in Nat /\ "commit" \in Steps /\ UNCHANGED lastSeq
    BY <1>1, Bounds DEF ReadTip, Steps
  <2>2. PICK set : /\ set = [op : Operations \cup {"none"}, pc : Steps, saw : 0..lastSeq,
                           base : 0..lastSeq, seq : 0..lastSeq, tip : Nat]
                  /\ txn \in [Txn -> set]
    BY <1>1 DEF TxnTyped
  <2>3. PICK new : new = [txn[t] EXCEPT !.tip = Len(audit), !.pc = "commit"]
    OBVIOUS
  <2>4. new \in set
    BY <2>1, <2>2, <2>3
  <2>5. txn' = [txn EXCEPT ![t] = new]
    BY <2>2, <2>3 DEF ReadTip
  <2>6. txn' \in [Txn -> set]
    BY <2>2, <2>4, <2>5
  <2> QED
    BY <2>1, <2>2, <2>6 DEF TxnTyped
<1>3. EnvironmentTyped'
  <2>1. tripped' \in BOOLEAN
    BY <1>1 DEF EnvironmentTyped, ReadTip
  <2>2. proc' \in {"up", "starting", "down"}
    BY <1>1 DEF EnvironmentTyped, ReadTip
  <2>3. left' \in [requests : Nat, foreign : Nat, crashes : Nat]
    BY <1>1 DEF EnvironmentTyped, ReadTip
  <2> QED
    BY <1>1, <2>1, <2>2, <2>3, EnvironmentStep
<1>4. RowsTyped'
  BY <1>1 DEF IInv, RowsTyped, TxnTyped, InsertsFresh, PicksCommitted, Picked, ReadTip, Target,
              Table!States, Operations
<1>5. RowsInOrder'
  BY <1>1 DEF IInv, RowsTyped, RowsInOrder, InsertsFresh, ReadTip
<1>6. InsertsFresh'
  <2>1. /\ txn[t].pc = "append" /\ UNCHANGED <<rows, lastSeq>>
        /\ \A u \in Txn : u # t => txn'[u] = txn[u]
        /\ txn'[t].seq = txn[t].seq
    BY <1>1 DEF ReadTip, TxnTyped
  <2>2. ASSUME NEW u \in Txn, txn'[u].pc \in {"append", "commit"}
        PROVE  txn[u].pc \in {"append", "commit"} /\ txn'[u].seq = txn[u].seq
    BY <2>1, <2>2
  <2>3. InsertsFresh /\ lastSeq' = lastSeq /\ DOMAIN rows' = DOMAIN rows
    BY <2>1 DEF IInv
  <2>4. \A u \in Txn : txn'[u].pc = "publish" => txn[u].pc = "publish" /\ txn'[u] = txn[u]
    <3>1. txn'[t].pc = "commit"
      BY <1>1 DEF ReadTip, TxnTyped
    <3> QED
      BY <2>1, <3>1
  <2> QED
    BY <2>2, <2>3, <2>4 DEF InsertsFresh
<1>7. PicksCommitted'
  BY <1>1 DEF IInv, RowsTyped, TxnTyped, PicksCommitted, Picked, ReadTip, Idle
<1>8. ValidatedOnBase'
  BY <1>1 DEF IInv, RowsTyped, TxnTyped, ValidatedOnBase, PicksCommitted, Picked, InsertsFresh, ReadTip, Idle
<1>9. SawDeadline'
  BY <1>1 DEF IInv, RowsTyped, TxnTyped, SawDeadline, Picked, ReadTip, Idle
<1>10. AuditMatchesRows'
  BY <1>1 DEF IInv, RowsTyped, AuditMatchesRows, ReadTip
<1>11. OnlyCommittedIsPublished'
  BY <1>1 DEF IInv, RowsTyped, InsertsFresh, OnlyCommittedIsPublished, ReadTip
<1>12. WrittenAsAsked'
  BY <1>1 DEF IInv, RowsTyped, TxnTyped, WrittenAsAsked, InsertsFresh, PicksCommitted, Picked, Operations, ReadTip
<1>13. NumberedAfterBase'
  BY <1>1 DEF IInv, RowsTyped, TxnTyped, NumberedAfterBase, PicksCommitted, Picked, ReadTip, Idle
<1> QED
  BY <1>2, <1>3, <1>4, <1>5, <1>6, <1>7, <1>8, <1>9, <1>10, <1>11, <1>12,
     <1>13 DEF IInv, TypeOK

LEMMA CommitStep ==
  ASSUME IInv, NEW t \in Txn, Commit(t)
  PROVE  IInv'
<1>1. RowsTyped /\ TxnTyped /\ EnvironmentTyped
  BY DEF IInv, TypeOK
<1>2. TxnTyped'
  <2>1. txn' = [txn EXCEPT ![t].pc = "publish"] /\ "publish" \in Steps /\ UNCHANGED lastSeq
    BY DEF Commit, Steps
  <2> QED
    BY <1>1, <2>1 DEF TxnTyped
<1>3. EnvironmentTyped'
  <2>1. tripped' \in BOOLEAN
    BY <1>1 DEF EnvironmentTyped, Commit
  <2>2. proc' \in {"up", "starting", "down"}
    BY <1>1 DEF EnvironmentTyped, Commit
  <2>3. left' \in [requests : Nat, foreign : Nat, crashes : Nat]
    BY <1>1 DEF EnvironmentTyped, Commit
  <2> QED
    BY <1>1, <2>1, <2>2, <2>3, EnvironmentStep
<1>4. RowsTyped'
  BY <1>1 DEF IInv, RowsTyped, TxnTyped, InsertsFresh, PicksCommitted, Picked, Commit, Target,
              Table!States, Operations
<1>5. RowsInOrder'
  BY <1>1 DEF IInv, RowsTyped, RowsInOrder, InsertsFresh, Commit
<1>6. InsertsFresh'
  BY <1>1 DEF IInv, RowsTyped, TxnTyped, InsertsFresh, Commit, Idle
<1>7. PicksCommitted'
  BY <1>1 DEF IInv, RowsTyped, TxnTyped, PicksCommitted, Picked, Commit, Idle
<1>8. ValidatedOnBase'
  BY <1>1 DEF IInv, RowsTyped, TxnTyped, ValidatedOnBase, PicksCommitted, Picked, InsertsFresh, Commit, Idle
<1>9. SawDeadline'
  BY <1>1 DEF IInv, RowsTyped, TxnTyped, SawDeadline, Picked, Commit, Idle
<1>10. AuditMatchesRows'
  <2> DEFINE n == txn[t].seq
  <2>1. n \in 1..lastSeq /\ n \notin DOMAIN rows /\ DOMAIN rows' = DOMAIN rows \cup {n}
    BY DEF IInv, InsertsFresh, Commit
  <2>2. /\ Len(audit) \in Nat /\ Len(audit') = Len(audit) + 1
        /\ audit'[Len(audit) + 1] = n
        /\ \A i \in 1..Len(audit) : audit'[i] = audit[i]
    BY <1>1, <2>1 DEF RowsTyped, Commit
  <2>3. \A i \in 1..Len(audit) : audit[i] # n
    BY <1>1, <2>1 DEF IInv, AuditMatchesRows, RowsTyped
  <2>4. /\ \A i \in 1..Len(audit) : audit[i] # 0 => audit[i] \in DOMAIN rows
        /\ \A m \in DOMAIN rows : \E i \in 1..Len(audit) : audit[i] = m
        /\ \A i, j \in 1..Len(audit) : audit[i] = audit[j] /\ audit[i] # 0 => i = j
    BY DEF IInv, AuditMatchesRows
  <2> HIDE DEF n
  <2>5. PICK k : k = Len(audit)
    OBVIOUS
  <2>6. k \in Nat /\ 1..Len(audit') = 1..k \cup {k + 1} /\ k + 1 \notin 1..k
    BY <2>2, <2>5
  <2>7. audit'[k + 1] = n /\ \A i \in 1..k : audit'[i] = audit[i] /\ audit[i] # n
    BY <2>2, <2>3, <2>5
  <2>8. \A i \in 1..Len(audit') : audit'[i] # 0 => audit'[i] \in DOMAIN rows'
    BY <2>1, <2>4, <2>5, <2>6, <2>7
  <2>9. \A m \in DOMAIN rows' : \E i \in 1..Len(audit') : audit'[i] = m
    BY <2>1, <2>4, <2>5, <2>6, <2>7
  <2>10. \A i, j \in 1..Len(audit') : audit'[i] = audit'[j] /\ audit'[i] # 0 => i = j
    BY <2>4, <2>5, <2>6, <2>7
  <2> QED
    BY <2>8, <2>9, <2>10 DEF AuditMatchesRows
<1>11. OnlyCommittedIsPublished'
  BY <1>1 DEF IInv, RowsTyped, InsertsFresh, OnlyCommittedIsPublished, Commit
<1>12. WrittenAsAsked'
  BY <1>1 DEF IInv, RowsTyped, TxnTyped, WrittenAsAsked, InsertsFresh, PicksCommitted, Picked, Operations, Commit
<1>13. NumberedAfterBase'
  BY <1>1 DEF IInv, RowsTyped, TxnTyped, NumberedAfterBase, PicksCommitted, Picked, Commit, Idle
<1> QED
  BY <1>2, <1>3, <1>4, <1>5, <1>6, <1>7, <1>8, <1>9, <1>10, <1>11, <1>12,
     <1>13 DEF IInv, TypeOK

LEMMA PublishStep ==
  ASSUME IInv, NEW t \in Txn, Publish(t)
  PROVE  IInv'
<1>1. RowsTyped /\ TxnTyped /\ EnvironmentTyped
  BY DEF IInv, TypeOK
<1>2. TxnTyped'
  BY <1>1, Bounds DEF TxnTyped, Publish, Idle, Operations, Steps
<1>3. EnvironmentTyped'
  <2>1. tripped' \in BOOLEAN
    BY <1>1 DEF EnvironmentTyped, Publish
  <2>2. proc' \in {"up", "starting", "down"}
    BY <1>1 DEF EnvironmentTyped, Publish
  <2>3. left' \in [requests : Nat, foreign : Nat, crashes : Nat]
    BY <1>1 DEF EnvironmentTyped, Publish
  <2> QED
    BY <1>1, <2>1, <2>2, <2>3, EnvironmentStep
<1>4. RowsTyped'
  BY <1>1 DEF IInv, RowsTyped, TxnTyped, InsertsFresh, PicksCommitted, Picked, Publish, Target,
              Table!States, Operations
<1>5. RowsInOrder'
  BY <1>1 DEF IInv, RowsTyped, RowsInOrder, InsertsFresh, Publish
<1>6. InsertsFresh'
  BY <1>1 DEF IInv, RowsTyped, TxnTyped, InsertsFresh, Publish, Idle
<1>7. PicksCommitted'
  BY <1>1 DEF IInv, RowsTyped, TxnTyped, PicksCommitted, Picked, Publish, Idle
<1>8. ValidatedOnBase'
  BY <1>1 DEF IInv, RowsTyped, TxnTyped, ValidatedOnBase, PicksCommitted, Picked, InsertsFresh, Publish, Idle
<1>9. SawDeadline'
  BY <1>1 DEF IInv, RowsTyped, TxnTyped, SawDeadline, Picked, Publish, Idle
<1>10. AuditMatchesRows'
  BY <1>1 DEF IInv, RowsTyped, AuditMatchesRows, Publish
<1>11. OnlyCommittedIsPublished'
  BY <1>1 DEF IInv, RowsTyped, InsertsFresh, OnlyCommittedIsPublished, Publish
<1>12. WrittenAsAsked'
  BY <1>1 DEF IInv, RowsTyped, TxnTyped, WrittenAsAsked, InsertsFresh, PicksCommitted, Picked, Operations, Publish
<1>13. NumberedAfterBase'
  BY <1>1 DEF IInv, RowsTyped, TxnTyped, NumberedAfterBase, PicksCommitted, Picked, Publish, Idle
<1> QED
  BY <1>2, <1>3, <1>4, <1>5, <1>6, <1>7, <1>8, <1>9, <1>10, <1>11, <1>12,
     <1>13 DEF IInv, TypeOK

LEMMA PublishFailsStep ==
  ASSUME IInv, NEW t \in Txn, PublishFails(t)
  PROVE  IInv'
<1>1. RowsTyped /\ TxnTyped /\ EnvironmentTyped
  BY DEF IInv, TypeOK
<1>2. TxnTyped'
  BY <1>1, Bounds DEF TxnTyped, PublishFails, Idle, Operations, Steps
<1>3. EnvironmentTyped'
  <2>1. tripped' \in BOOLEAN
    BY <1>1 DEF EnvironmentTyped, PublishFails
  <2>2. proc' \in {"up", "starting", "down"}
    BY <1>1 DEF EnvironmentTyped, PublishFails
  <2>3. left' \in [requests : Nat, foreign : Nat, crashes : Nat]
    BY <1>1 DEF EnvironmentTyped, PublishFails
  <2> QED
    BY <1>1, <2>1, <2>2, <2>3, EnvironmentStep
<1>4. RowsTyped'
  BY <1>1 DEF IInv, RowsTyped, TxnTyped, InsertsFresh, PicksCommitted, Picked, PublishFails, Target,
              Table!States, Operations
<1>5. RowsInOrder'
  BY <1>1 DEF IInv, RowsTyped, RowsInOrder, InsertsFresh, PublishFails
<1>6. InsertsFresh'
  BY <1>1 DEF IInv, RowsTyped, TxnTyped, InsertsFresh, PublishFails, Idle
<1>7. PicksCommitted'
  BY <1>1 DEF IInv, RowsTyped, TxnTyped, PicksCommitted, Picked, PublishFails, Idle
<1>8. ValidatedOnBase'
  BY <1>1 DEF IInv, RowsTyped, TxnTyped, ValidatedOnBase, PicksCommitted, Picked, InsertsFresh, PublishFails, Idle
<1>9. SawDeadline'
  BY <1>1 DEF IInv, RowsTyped, TxnTyped, SawDeadline, Picked, PublishFails, Idle
<1>10. AuditMatchesRows'
  BY <1>1 DEF IInv, RowsTyped, AuditMatchesRows, PublishFails
<1>11. OnlyCommittedIsPublished'
  BY <1>1 DEF IInv, RowsTyped, InsertsFresh, OnlyCommittedIsPublished, PublishFails
<1>12. WrittenAsAsked'
  BY <1>1 DEF IInv, RowsTyped, TxnTyped, WrittenAsAsked, InsertsFresh, PicksCommitted, Picked, Operations, PublishFails
<1>13. NumberedAfterBase'
  BY <1>1 DEF IInv, RowsTyped, TxnTyped, NumberedAfterBase, PicksCommitted, Picked, PublishFails, Idle
<1> QED
  BY <1>2, <1>3, <1>4, <1>5, <1>6, <1>7, <1>8, <1>9, <1>10, <1>11, <1>12,
     <1>13 DEF IInv, TypeOK

LEMMA DeadlinePassesStep ==
  ASSUME IInv, DeadlinePasses
  PROVE  IInv'
<1>1. RowsTyped /\ TxnTyped /\ EnvironmentTyped
  BY DEF IInv, TypeOK
<1>2. TxnTyped'
  BY <1>1, Bounds DEF TxnTyped, DeadlinePasses, Idle, Operations, Steps
<1>3. EnvironmentTyped'
  <2>1. tripped' \in BOOLEAN
    BY <1>1 DEF EnvironmentTyped, DeadlinePasses
  <2>2. proc' \in {"up", "starting", "down"}
    BY <1>1 DEF EnvironmentTyped, DeadlinePasses
  <2>3. left' \in [requests : Nat, foreign : Nat, crashes : Nat]
    BY <1>1 DEF EnvironmentTyped, DeadlinePasses
  <2> QED
    BY <1>1, <2>1, <2>2, <2>3, EnvironmentStep
<1>4. RowsTyped'
  BY <1>1 DEF IInv, RowsTyped, TxnTyped, InsertsFresh, PicksCommitted, Picked, DeadlinePasses, Target,
              Table!States, Operations
<1>5. RowsInOrder'
  BY <1>1 DEF IInv, RowsTyped, RowsInOrder, InsertsFresh, DeadlinePasses
<1>6. InsertsFresh'
  BY <1>1 DEF IInv, RowsTyped, TxnTyped, InsertsFresh, DeadlinePasses, Idle
<1>7. PicksCommitted'
  BY <1>1 DEF IInv, RowsTyped, TxnTyped, PicksCommitted, Picked, DeadlinePasses, Idle
<1>8. ValidatedOnBase'
  BY <1>1 DEF IInv, RowsTyped, TxnTyped, ValidatedOnBase, PicksCommitted, Picked, InsertsFresh, DeadlinePasses, Idle
<1>9. SawDeadline'
  BY <1>1 DEF IInv, RowsTyped, TxnTyped, SawDeadline, Picked, DeadlinePasses, Idle
<1>10. AuditMatchesRows'
  BY <1>1 DEF IInv, RowsTyped, AuditMatchesRows, DeadlinePasses
<1>11. OnlyCommittedIsPublished'
  BY <1>1 DEF IInv, RowsTyped, InsertsFresh, OnlyCommittedIsPublished, DeadlinePasses
<1>12. WrittenAsAsked'
  BY <1>1 DEF IInv, RowsTyped, TxnTyped, WrittenAsAsked, InsertsFresh, PicksCommitted, Picked, Operations, DeadlinePasses
<1>13. NumberedAfterBase'
  BY <1>1 DEF IInv, RowsTyped, TxnTyped, NumberedAfterBase, PicksCommitted, Picked, DeadlinePasses, Idle
<1> QED
  BY <1>2, <1>3, <1>4, <1>5, <1>6, <1>7, <1>8, <1>9, <1>10, <1>11, <1>12,
     <1>13 DEF IInv, TypeOK

LEMMA ForeignAuditStep ==
  ASSUME IInv, ForeignAudit
  PROVE  IInv'
<1>1. RowsTyped /\ TxnTyped /\ EnvironmentTyped
  BY DEF IInv, TypeOK
<1>2. TxnTyped'
  BY <1>1, Bounds DEF TxnTyped, ForeignAudit, Idle, Operations, Steps
<1>3. EnvironmentTyped'
  <2>1. tripped' \in BOOLEAN
    BY <1>1 DEF EnvironmentTyped, ForeignAudit
  <2>2. proc' \in {"up", "starting", "down"}
    BY <1>1 DEF EnvironmentTyped, ForeignAudit
  <2>3. left' \in [requests : Nat, foreign : Nat, crashes : Nat]
    BY <1>1 DEF EnvironmentTyped, ForeignAudit
  <2> QED
    BY <1>1, <2>1, <2>2, <2>3, EnvironmentStep
<1>4. RowsTyped'
  BY <1>1 DEF IInv, RowsTyped, TxnTyped, InsertsFresh, PicksCommitted, Picked, ForeignAudit, Target,
              Table!States, Operations
<1>5. RowsInOrder'
  BY <1>1 DEF IInv, RowsTyped, RowsInOrder, InsertsFresh, ForeignAudit
<1>6. InsertsFresh'
  BY <1>1 DEF IInv, RowsTyped, TxnTyped, InsertsFresh, ForeignAudit, Idle
<1>7. PicksCommitted'
  BY <1>1 DEF IInv, RowsTyped, TxnTyped, PicksCommitted, Picked, ForeignAudit, Idle
<1>8. ValidatedOnBase'
  BY <1>1 DEF IInv, RowsTyped, TxnTyped, ValidatedOnBase, PicksCommitted, Picked, InsertsFresh, ForeignAudit, Idle
<1>9. SawDeadline'
  BY <1>1 DEF IInv, RowsTyped, TxnTyped, SawDeadline, Picked, ForeignAudit, Idle
<1>10. AuditMatchesRows'
  <2>1. /\ Len(audit) \in Nat /\ Len(audit') = Len(audit) + 1
        /\ audit'[Len(audit) + 1] = 0
        /\ \A i \in 1..Len(audit) : audit'[i] = audit[i]
    BY <1>1 DEF RowsTyped, ForeignAudit
  <2>2. DOMAIN rows' = DOMAIN rows /\ 0 \notin DOMAIN rows
    BY <1>1 DEF RowsTyped, ForeignAudit
  <2> QED
    BY <2>1, <2>2 DEF IInv, AuditMatchesRows
<1>11. OnlyCommittedIsPublished'
  BY <1>1 DEF IInv, RowsTyped, InsertsFresh, OnlyCommittedIsPublished, ForeignAudit
<1>12. WrittenAsAsked'
  BY <1>1 DEF IInv, RowsTyped, TxnTyped, WrittenAsAsked, InsertsFresh, PicksCommitted, Picked, Operations, ForeignAudit
<1>13. NumberedAfterBase'
  BY <1>1 DEF IInv, RowsTyped, TxnTyped, NumberedAfterBase, PicksCommitted, Picked, ForeignAudit, Idle
<1> QED
  BY <1>2, <1>3, <1>4, <1>5, <1>6, <1>7, <1>8, <1>9, <1>10, <1>11, <1>12,
     <1>13 DEF IInv, TypeOK

-----------------------------------------------------------------------------

LEMMA InitIInv == Init => IInv
<1> SUFFICES ASSUME Init PROVE IInv
  OBVIOUS
<1>1. DOMAIN rows = {1} /\ rows[1] = [state |-> "halted", op |-> "deploy", base |-> 0]
  BY DEF Init
<1>2. audit \in Seq(0..lastSeq) /\ Len(audit) = 1 /\ audit[1] = 1
  BY DEF Init
<1>3. RowsTyped /\ RowsInOrder
  BY <1>1, <1>2 DEF Init, RowsTyped, RowsInOrder, Operations, Table!States
<1>4. TxnTyped
  BY DEF Init, TxnTyped, Idle, Steps
<1>5. EnvironmentTyped
  BY BoundsAssumption DEF Init, EnvironmentTyped
<1>6. InsertsFresh /\ NumberedAfterBase /\ PicksCommitted /\ ValidatedOnBase /\ SawDeadline
  BY DEF Init, InsertsFresh, NumberedAfterBase, PicksCommitted, ValidatedOnBase, SawDeadline, Idle, Picked
<1>7. AuditMatchesRows /\ OnlyCommittedIsPublished
  BY <1>1, <1>2 DEF Init, AuditMatchesRows, OnlyCommittedIsPublished
<1>8. WrittenAsAsked
  BY <1>1 DEF WrittenAsAsked
<1> QED
  BY <1>3, <1>4, <1>5, <1>6, <1>7, <1>8 DEF IInv, TypeOK

LEMMA StutterStep == ASSUME IInv, UNCHANGED vars PROVE IInv'
<1>1. TypeOK'
  BY DEF IInv, vars, TypeOK, RowsTyped, TxnTyped, EnvironmentTyped
<1>2. /\ RowsInOrder' /\ InsertsFresh' /\ NumberedAfterBase'
      /\ PicksCommitted' /\ ValidatedOnBase' /\ SawDeadline'
  BY DEF IInv, vars, RowsInOrder, InsertsFresh, NumberedAfterBase, PicksCommitted, ValidatedOnBase, SawDeadline
<1>3. AuditMatchesRows' /\ OnlyCommittedIsPublished' /\ WrittenAsAsked'
  BY DEF IInv, vars, AuditMatchesRows, OnlyCommittedIsPublished, WrittenAsAsked, Target
<1> QED
  BY <1>1, <1>2, <1>3 DEF IInv

LEMMA NextIInv == IInv /\ [Next]_vars => IInv'
<1> SUFFICES ASSUME IInv, [Next]_vars PROVE IInv'
  OBVIOUS
<1>1. ASSUME NEW t \in Txn, Proceed(t) PROVE IInv'
  BY <1>1, ActivateMeasureStep, EnforceReadStep, SelectStep, LockStep, InsertStep, ReadTipStep,
     CommitStep, AuditCollisionStep, PublishStep, PublishFailsStep DEF Proceed
<1> QED
  BY <1>1, KillSwitchStep, WindDownStep, ActivateStep, SweepStep, DeadlineJobStep,
     EnforceMeasureStep, StartupStep, CrashStep, DeadlinePassesStep, MetricsChangeStep,
     ForeignAuditStep, StutterStep DEF Next

\* The invariant of every reachable state, from which the theorems follow.
THEOREM Invariant == Spec => []IInv
BY InitIInv, NextIInv, PTL DEF Spec

\* The type invariant: sequence numbers stay below the generator and the
\* current row is always a committed one.
THEOREM TypeCorrect == Spec => []TypeOK
<1>1. IInv => TypeOK
  BY DEF IInv
<1> QED
  BY <1>1, Invariant, PTL

\* A state row and its audit entry are committed together (_insert), for any
\* number of concurrent transitions, crashes and collisions on the chain.
THEOREM AuditComplete == Spec => []AuditMatchesRows
<1>1. IInv => AuditMatchesRows
  BY DEF IInv
<1> QED
  BY <1>1, Invariant, PTL

\* Commit first, publish afterwards: no subscriber is ahead of the database.
THEOREM PublishedIsCommitted == Spec => []OnlyCommittedIsPublished
<1>1. IInv => OnlyCommittedIsPublished
  BY DEF IInv
<1> QED
  BY <1>1, Invariant, PTL

\* The current row stays what it is while it is the current one.
LEMMA NewestStays ==
  ASSUME IInv, [Next]_vars
  PROVE  newest \in DOMAIN rows /\ rows'[newest] = rows[newest]
<1>1. newest \in DOMAIN rows
  BY DEF IInv, TypeOK, RowsTyped
<1>2. CASE \E t \in Txn : Commit(t)
  <2>1. PICK t \in Txn : Commit(t)
    BY <1>2
  <2>2. txn[t].seq \notin DOMAIN rows
    BY <2>1 DEF Commit, IInv, InsertsFresh
  <2> QED
    BY <1>1, <2>1, <2>2 DEF Commit
<1>3. CASE ~ \E t \in Txn : Commit(t)
  <2>1. UNCHANGED rows
    BY <1>3 DEF vars, Next, Proceed, KillSwitch, WindDown, Activate, Request, Sweep, DeadlineJob,
       EnforceMeasure, Startup, ActivateMeasure, EnforceRead, Select, Lock, Insert, ReadTip,
       AuditCollision, Publish, PublishFails, Crash, DeadlinePasses, MetricsChange, ForeignAudit
  <2> QED
    BY <1>1, <2>1
<1> QED
  BY <1>2, <1>3

\* A change of the current state follows the transition table, or its author
\* had locked an older row than the current one.
LEMMA CommitFollowsTable ==
  ASSUME IInv, [Next]_vars, newest' # newest
  PROVE  \E t \in Txn :
           /\ Commit(t)
           /\ txn[t].base = newest => Table!Accepts(Current, Current')
<1>1. PICK t \in Txn : Commit(t)
  BY DEF vars, Next, Proceed, KillSwitch, WindDown, Activate, Request, Sweep, DeadlineJob,
     EnforceMeasure, Startup, ActivateMeasure, EnforceRead, Select, Lock, Insert, ReadTip,
     AuditCollision, Publish, PublishFails, Crash, DeadlinePasses, MetricsChange, ForeignAudit
<1>2. newest' = txn[t].seq
  BY <1>1 DEF Commit
<1>3. Current' = Target(txn[t].op)
  BY <1>1, <1>2 DEF Commit, Current
<1>4. txn[t].pc = "commit"
  BY <1>1 DEF Commit
<1>5. Table!Accepts(rows[txn[t].base].state, Target(txn[t].op))
  BY <1>4 DEF IInv, ValidatedOnBase
<1> QED
  BY <1>1, <1>3, <1>5 DEF Current

\* Only the operator ends a halt, and with a wind-down only if that had picked an
\* active row before the halt was committed, for any number of handlers that
\* overlap and whatever the jobs, crashes and collisions did (_validate).
THEOREM HaltsAreLeftByOperator == Spec => HaltEndsByOperator
<1>1. ASSUME IInv, [Next]_vars, Current = "halted", Current' # "halted"
      PROVE  LET row == rows'[newest'] IN
               \/ row.op = "activate"
               \/ /\ row.op = "wind_down"
                  /\ row.base < newest
                  /\ rows[row.base].state = "active"
  <2>1. newest' # newest
    <3>1. SUFFICES ASSUME newest' = newest PROVE FALSE
      OBVIOUS
    <3>2. newest \in DOMAIN rows /\ rows'[newest] = rows[newest]
      BY <1>1, <3>1, NewestStays
    <3> QED
      BY <1>1, <3>1, <3>2 DEF Current
  <2>2. PICK t \in Txn : Commit(t) /\ (txn[t].base = newest => Table!Accepts(Current, Current'))
    BY <1>1, <2>1, CommitFollowsTable
  <2>3. txn[t].pc = "commit" /\ newest' = txn[t].seq
    BY <2>1, <2>2 DEF Commit
  <2>4. rows'[newest'] = [state |-> Target(txn[t].op), op |-> txn[t].op, base |-> txn[t].base]
    BY <2>2, <2>3 DEF Commit
  <2>5. txn[t].op \in Operations /\ txn[t].base \in DOMAIN rows
    BY <1>1, <2>3 DEF IInv, PicksCommitted, Picked
  <2>6. Target(txn[t].op) # "halted"
    BY <1>1, <2>4 DEF Current
  <2>7. CASE txn[t].op = "wind_down"
    <3>1. Table!Accepts(rows[txn[t].base].state, "winding_down")
      BY <1>1, <2>3, <2>7 DEF IInv, ValidatedOnBase, Target
    <3>2. rows[txn[t].base].state = "active"
      BY <3>1 DEF Table!Accepts
    <3>3. txn[t].base # newest
      BY <1>1, <3>2 DEF Current
    <3>4. txn[t].base <= newest /\ txn[t].base \in Nat /\ newest \in Nat
      BY <1>1, <2>5 DEF IInv, RowsInOrder, TypeOK, RowsTyped
    <3> QED
      BY <2>4, <2>7, <3>2, <3>3, <3>4
  <2>8. CASE txn[t].op = "activate"
    BY <2>4, <2>8
  <2> QED
    BY <2>5, <2>6, <2>7, <2>8 DEF Operations, Target
<1>2. IInv /\ [Next]_vars =>
        [Current = "halted" /\ Current' # "halted" =>
           LET row == rows'[newest'] IN
             \/ row.op = "activate"
             \/ /\ row.op = "wind_down"
                /\ row.base < newest
                /\ rows[row.base].state = "active"]_vars
  BY <1>1
<1> QED
  BY <1>2, Invariant, PTL DEF Spec, HaltEndsByOperator

-----------------------------------------------------------------------------
(* What the start of the process does to the state.                        *)

\* While the process is not up nothing runs but the halt of an expired wind-down
\* that its start found, and that halt has the current row locked.
StartsAlone ==
  /\ proc = "down" => \A t \in Txn : txn[t].pc = "idle"
  /\ proc = "starting" => \A t \in Txn : txn[t].pc # "idle" => txn[t].op = "startup"
  /\ \A t, u \in Txn : txn[t].op = "startup" /\ txn[u].op = "startup" => t = u
  /\ \A t \in Txn : txn[t].op = "startup" => proc = "starting"
  /\ \A t \in Txn : txn[t].op = "startup" /\ txn[t].pc # "publish" => GraceOver
  /\ \A t \in Txn : txn[t].op = "startup" /\ txn[t].pc # "publish" => txn[t].saw = newest
  /\ \A t \in Txn : txn[t].op = "startup" /\ txn[t].pc \in Picked => txn[t].base = newest

\* Handlers that begin, go on or end before anything is committed.
LEMMA AloneStep ==
  ASSUME IInv, StartsAlone, NEW t \in Txn, UNCHANGED <<rows, newest, due>>,
         \A u \in Txn : u # t => txn'[u] = txn[u],
         proc' = proc,
         \/ txn'[t].pc = "idle" /\ txn'[t].op # "startup"
         \/ txn'[t].op # "startup" /\ (proc = "up" \/ (txn[t].pc # "idle" /\ txn[t].op # "startup"))
         \/ /\ txn[t].pc # "idle" /\ txn'[t].op = txn[t].op
            /\ txn[t].op = "startup" =>
                 /\ txn[t].pc # "publish"
                 /\ txn'[t].saw = txn[t].saw
                 /\ txn'[t].pc \in Picked => txn'[t].base = newest
  PROVE  StartsAlone'
<1>1. GraceOver' = GraceOver
  BY DEF GraceOver, Current
<1>2. StartsAlone!1'
  BY DEF StartsAlone
<1>3. StartsAlone!2'
  BY DEF StartsAlone
<1>4. StartsAlone!3' /\ StartsAlone!4'
  BY DEF StartsAlone
<1>5. StartsAlone!5' /\ StartsAlone!6' /\ StartsAlone!7'
  BY <1>1 DEF StartsAlone
<1> QED
  BY <1>2, <1>3, <1>4, <1>5 DEF StartsAlone

\* A step of a handler of the process, by what it does to its own slot.
LEMMA ProceedAlone ==
  ASSUME IInv, StartsAlone, NEW t \in Txn, Proceed(t)
  PROVE  StartsAlone'
<1> USE DEF Running, Idle, Scheduled
<1>1. TxnTyped
  BY DEF IInv, TypeOK
<1>2. CASE ActivateMeasure(t) \/ EnforceRead(t)
  <2>1. txn[t].op # "startup" /\ txn[t].pc # "idle"
    BY <1>2 DEF IInv, SawDeadline, Picked, ActivateMeasure, EnforceRead
  <2>2. txn'[t].op # "startup" /\ (\A u \in Txn : u # t => txn'[u] = txn[u])
    BY <1>1, <1>2 DEF TxnTyped, ActivateMeasure, EnforceRead
  <2>3. UNCHANGED <<rows, newest, due, proc>>
    BY <1>2 DEF ActivateMeasure, EnforceRead
  <2> QED
    BY <2>1, <2>2, <2>3, AloneStep
<1>3. CASE Select(t)
  <2>1. txn[t].pc = "select" /\ txn'[t].op = txn[t].op /\ txn'[t].base = newest
        /\ txn'[t].saw = txn[t].saw
    BY <1>1, <1>3 DEF TxnTyped, Select
  <2>2. \A u \in Txn : u # t => txn'[u] = txn[u]
    BY <1>1, <1>3 DEF TxnTyped, Select
  <2>3. UNCHANGED <<rows, newest, due, proc>>
    BY <1>3 DEF Select
  <2> QED
    BY <2>1, <2>2, <2>3, AloneStep
<1>4. CASE Lock(t) \/ Insert(t) \/ ReadTip(t)
  <2>1. /\ txn[t].pc \in Picked
        /\ \/ txn'[t].pc = "idle" /\ txn'[t].op # "startup"
           \/ txn'[t].op = txn[t].op /\ txn'[t].base = txn[t].base /\ txn'[t].saw = txn[t].saw
    BY <1>1, <1>4 DEF TxnTyped, Picked, Lock, Insert, ReadTip
  <2>2. \A u \in Txn : u # t => txn'[u] = txn[u]
    BY <1>1, <1>4 DEF TxnTyped, Lock, Insert, ReadTip
  <2>3. UNCHANGED <<rows, newest, due, proc>>
    BY <1>4 DEF Lock, Insert, ReadTip
  <2>4. txn[t].op = "startup" => txn[t].base = newest
    BY <2>1 DEF StartsAlone
  <2>5. txn[t].pc \notin {"idle", "publish"}
    BY <2>1 DEF Picked
  <2> QED
    BY <2>1, <2>2, <2>3, <2>4, <2>5, AloneStep
<1>5. CASE Commit(t)
  <2>1. /\ txn[t].pc = "commit" /\ txn'[t].pc = "publish" /\ txn'[t].op = txn[t].op
        /\ \A u \in Txn : u # t => txn'[u] = txn[u]
    BY <1>1, <1>5 DEF TxnTyped, Commit
  <2>2. proc' = proc
    BY <1>5 DEF Commit
  <2>3. \A u \in Txn : txn[u].op = "startup" => u = t
    BY <2>1 DEF StartsAlone
  <2>4. \A u \in Txn : txn'[u].op = "startup" => u = t
    BY <2>1, <2>3
  <2> QED
    BY <2>1, <2>2, <2>4 DEF StartsAlone, Picked
<1>6. CASE AuditCollision(t) \/ Publish(t) \/ PublishFails(t)
  <2>1. /\ txn'[t].pc = "idle" /\ txn'[t].op = "none" /\ txn[t].pc # "idle"
        /\ \A u \in Txn : u # t => txn'[u] = txn[u]
    BY <1>1, <1>6 DEF TxnTyped, AuditCollision, Publish, PublishFails
  <2>2. UNCHANGED <<rows, newest, due>>
    BY <1>6 DEF AuditCollision, Publish, PublishFails
  <2>3. CASE txn[t].op # "startup"
    <3>1. proc' = proc
      BY <1>6, <2>3 DEF AuditCollision, Publish, PublishFails
    <3> QED
      BY <2>1, <2>2, <3>1, AloneStep
  <2>4. CASE txn[t].op = "startup"
    <3>1. proc = "starting" /\ \A u \in Txn : u # t => txn[u].pc = "idle" /\ txn[u].op # "startup"
      BY <2>4 DEF StartsAlone
    <3>2. \A u \in Txn : txn'[u].pc = "idle" /\ txn'[u].op # "startup"
      BY <2>1, <3>1
    <3>3. proc' # "starting"
      BY <1>6, <2>4 DEF AuditCollision, Publish, PublishFails
    <3> QED
      BY <3>2, <3>3 DEF StartsAlone
  <2> QED
    BY <2>3, <2>4
<1> QED
  BY <1>2, <1>3, <1>4, <1>5, <1>6 DEF Proceed

LEMMA NextAlone ==
  ASSUME IInv, StartsAlone, [Next]_vars
  PROVE  StartsAlone'
<1> USE DEF Running, Idle, Scheduled
<1>1. TxnTyped
  BY DEF IInv, TypeOK
<1>2. ASSUME NEW t \in Txn,
             \/ KillSwitch(t) \/ WindDown(t) \/ Activate(t)
             \/ Sweep(t) \/ DeadlineJob(t) \/ EnforceMeasure(t)
      PROVE  StartsAlone'
  <2>1. proc = "up" /\ txn[t].pc = "idle" /\ UNCHANGED <<rows, newest, due, proc>>
    BY <1>2 DEF KillSwitch, WindDown, Activate, Request, Sweep, DeadlineJob, EnforceMeasure
  <2>2. txn[t].op # "startup"
    BY <2>1 DEF StartsAlone
  <2>3. txn'[t].op # "startup" /\ (\A u \in Txn : u # t => txn'[u] = txn[u])
    BY <1>1, <1>2, <2>2 DEF TxnTyped, KillSwitch, WindDown, Activate, Sweep, DeadlineJob, EnforceMeasure
  <2> QED
    BY <2>1, <2>3, AloneStep
<1>3. ASSUME NEW t \in Txn, Startup(t) PROVE StartsAlone'
  <2>1. proc = "down" /\ UNCHANGED <<rows, newest, due>>
    BY <1>3 DEF Startup
  <2>2. \A u \in Txn : txn[u].pc = "idle" /\ txn[u].op # "startup"
    BY <2>1 DEF StartsAlone
  <2>3. CASE GraceOver
    <3>1. /\ proc' = "starting" /\ txn'[t].op = "startup" /\ txn'[t].pc = "select"
          /\ txn'[t].saw = newest
          /\ \A u \in Txn : u # t => txn'[u] = txn[u]
      BY <1>1, <1>3, <2>3 DEF TxnTyped, Startup
    <3>2. \A u \in Txn : u # t => txn'[u].pc = "idle" /\ txn'[u].op # "startup"
      BY <2>2, <3>1
    <3>3. GraceOver'
      BY <2>1, <2>3 DEF GraceOver, Current
    <3>4. newest' = newest
      BY <2>1
    <3>5. \A u \in Txn : txn'[u].op = "startup" => u = t
      BY <3>2
    <3>6. txn'[t].pc \notin Picked
      BY <3>1 DEF Picked
    <3> HIDE DEF Running, Idle, Scheduled
    <3> QED
      BY <3>1, <3>2, <3>3, <3>4, <3>5, <3>6 DEF StartsAlone
  <2>4. CASE ~ GraceOver
    <3>1. proc' = "up" /\ txn' = txn
      BY <1>3, <2>4 DEF Startup
    <3> QED
      BY <2>2, <3>1 DEF StartsAlone
  <2> QED
    BY <2>3, <2>4
<1>4. ASSUME Crash PROVE StartsAlone'
  <2>1. proc' = "down" /\ \A u \in Txn : txn'[u].pc = "idle" /\ txn'[u].op # "startup"
    BY <1>4 DEF Crash
  <2> QED
    BY <2>1 DEF StartsAlone
<1>5. ASSUME DeadlinePasses \/ MetricsChange \/ ForeignAudit \/ UNCHANGED vars PROVE StartsAlone'
  <2>1. UNCHANGED <<rows, newest, txn, proc>> /\ due \subseteq due'
    BY <1>5 DEF DeadlinePasses, MetricsChange, ForeignAudit, vars
  <2>2. GraceOver => GraceOver'
    BY <2>1 DEF GraceOver, Current
  <2> QED
    BY <2>1, <2>2 DEF StartsAlone
<1> QED
  BY <1>2, <1>3, <1>4, <1>5, ProceedAlone DEF Next

\* Only the commit of that halt changes the state before the process is up.
LEMMA HaltsExpired ==
  ASSUME IInv, StartsAlone, [Next]_vars, proc # "up", newest' # newest
  PROVE  Current = "winding_down" /\ newest \in due /\ Current' = "halted"
<1>1. PICK t \in Txn : Commit(t)
  BY CommitFollowsTable
<1>2. txn[t].pc = "commit"
  BY <1>1 DEF Commit
<1>3. proc \in {"down", "starting"}
  BY DEF IInv, TypeOK, EnvironmentTyped
<1>4. txn[t].op = "startup"
  BY <1>2, <1>3 DEF StartsAlone
<1>5. GraceOver
  BY <1>2, <1>4 DEF StartsAlone
<1>6. newest' = txn[t].seq
  BY <1>1 DEF Commit
<1>7. Current' = "halted"
  BY <1>1, <1>4, <1>6 DEF Commit, Current, Target
<1> QED
  BY <1>5, <1>7 DEF GraceOver

LEMMA AlwaysStartsAlone == Spec => []StartsAlone
<1>1. Init => StartsAlone
  BY DEF Init, StartsAlone, Idle
<1>2. IInv /\ StartsAlone /\ [Next]_vars => StartsAlone'
  BY NextAlone
<1> QED
  BY <1>1, <1>2, Invariant, PTL DEF Spec

\* The start of the process loses no state and invents none (ensure_initialised):
\* it halts a wind-down whose deadline passed, and nothing else commits before it
\* is up, whatever crashed or collided.
THEOREM RestartIsHarmless == Spec => RestartKeepsState
<1>1. IInv /\ StartsAlone /\ [Next]_vars =>
        [proc # "up" => \/ newest' = newest
                        \/ /\ Current = "winding_down" /\ newest \in due
                           /\ Current' = "halted"]_vars
  BY HaltsExpired
<1> QED
  BY <1>1, AlwaysStartsAlone, Invariant, PTL DEF Spec, RestartKeepsState

\* The scheduler halts what it saw expire; a sweep halts another row only if that was
\* committed after its read (sweep_expired_grace), the start of the process never.
THEOREM GraceIsKept == Spec => []ScheduledHaltIsDue
<1>1. IInv /\ StartsAlone => ScheduledHaltIsDue
  <2> SUFFICES ASSUME IInv, StartsAlone, NEW t \in Txn,
                      txn[t].op \in {"sweep", "startup"}, Undecided(t)
               PROVE  /\ txn[t].saw \in due
                      /\ \/ txn[t].base = txn[t].saw
                         \/ /\ txn[t].op = "sweep"
                            /\ txn[t].base > txn[t].saw
                            /\ rows[txn[t].base].state # "halted" =>
                                 rows[txn[t].base].op \in {"activate", "wind_down"}
    BY DEF ScheduledHaltIsDue
  <2>1. txn[t].pc \in Picked /\ txn[t].pc # "publish"
    BY DEF Undecided, Picked
  <2>2. txn[t].saw \in due /\ txn[t].saw <= txn[t].base
    BY <2>1 DEF IInv, SawDeadline
  <2>3. txn[t].op = "startup" => txn[t].base = txn[t].saw
    BY <2>1 DEF StartsAlone
  <2>4. txn[t].saw \in Nat /\ txn[t].base \in Nat /\ txn[t].base \in DOMAIN rows
    BY <2>1 DEF IInv, TypeOK, RowsTyped, TxnTyped, PicksCommitted
  <2>5. rows[txn[t].base].op \in Operations \cup {"deploy"}
    BY <2>4 DEF IInv, TypeOK, RowsTyped
  <2>6. rows[txn[t].base].state # "halted" => rows[txn[t].base].op \in {"activate", "wind_down"}
    BY <2>4, <2>5 DEF IInv, WrittenAsAsked, Operations, Target
  <2> QED
    BY <2>2, <2>3, <2>4, <2>6
<1> QED
  BY <1>1, AlwaysStartsAlone, Invariant, PTL

-----------------------------------------------------------------------------
(* SystemState implements TradingState.                                    *)

LEMMA InitImplements == Init => Table!Init
BY DEF Init, Idle, Table!Init, Table!Nothing, Seen, Undecided

\* A step that leaves the rows alone and picks none stutters in the table, but
\* for the transitions that end with it.
LEMMA QuietImplements ==
  ASSUME UNCHANGED <<rows, newest>>,
         NEW E \in SUBSET Txn,
         \A u \in E : txn'[u].pc \notin Picked,
         \A u \in Txn \ E :
           \/ txn[u].pc \in Picked /\ txn'[u].pc \in Picked /\ txn'[u].base = txn[u].base
           \/ txn[u].pc \notin Picked /\ txn'[u].pc \notin Picked
  PROVE  Table!Abort(E)
<1>1. \A u \in Txn : Seen'[u] = IF u \in E THEN Table!Nothing ELSE Seen[u]
  BY DEF Seen, Undecided, Picked, Table!Nothing
<1>2. Seen' = [u \in Txn |-> Seen'[u]]
  BY DEF Seen
<1> QED
  BY <1>1, <1>2 DEF Table!Abort

LEMMA SelectImplements ==
  ASSUME IInv, NEW t \in Txn, Select(t)
  PROVE  Table!Begin(t)
<1>1. TxnTyped
  BY DEF IInv, TypeOK
<1>2. txn' = [txn EXCEPT ![t] = [txn[t] EXCEPT !.base = newest, !.pc = "wait"]]
  BY <1>1 DEF Select, TxnTyped
<1>3. txn'[t].pc = "wait" /\ txn'[t].base = newest /\ txn[t].pc = "select"
  BY <1>1, <1>2 DEF Select, TxnTyped
<1>4. \A u \in Txn \ {t} : txn'[u] = txn[u]
  BY <1>1, <1>2 DEF TxnTyped
<1>5. UNCHANGED <<rows, newest>>
  BY DEF Select
<1>6. Seen[t] = Table!Nothing
  BY <1>3 DEF Seen, Undecided, Table!Nothing
<1>7. Seen' = [Seen EXCEPT ![t] = [state |-> rows[newest].state, overtaken |-> FALSE]]
  BY <1>3, <1>4, <1>5 DEF Seen, Undecided
<1> QED
  BY <1>5, <1>6, <1>7 DEF Table!Begin

LEMMA Overtake ==
  ASSUME NEW s, NEW b \in BOOLEAN, NEW e \in BOOLEAN
  PROVE  [[state |-> s, overtaken |-> b] EXCEPT !.overtaken = @ \/ e] =
           [state |-> s, overtaken |-> b \/ e]
OBVIOUS

LEMMA CommitImplements ==
  ASSUME IInv, NEW t \in Txn, Commit(t)
  PROVE  Table!Transition(t, Target(txn[t].op), txn[t].seq > newest)
<1> DEFINE n == txn[t].seq
           effective == n > newest
<1>1. RowsTyped /\ TxnTyped /\ txn[t].pc = "commit"
  BY DEF IInv, TypeOK, Commit
<1>2. n \in Nat /\ n \notin DOMAIN rows /\ newest \in DOMAIN rows /\ newest \in Nat
  BY <1>1, Bounds DEF IInv, InsertsFresh, RowsTyped
<1>3. \A s \in DOMAIN rows : rows'[s] = rows[s]
  BY <1>2 DEF Commit
<1>4. newest' = IF effective THEN n ELSE newest
  BY DEF Commit
<1>5. rows'[newest'].state = IF effective THEN Target(txn[t].op) ELSE rows[newest].state
  BY <1>2, <1>3, <1>4 DEF Commit
<1>6. txn'[t].pc = "publish" /\ \A u \in Txn \ {t} : txn'[u] = txn[u]
  BY <1>1 DEF Commit, TxnTyped
<1>7. \A u \in Txn : Undecided(u) => txn[u].base \in DOMAIN rows
  BY DEF IInv, PicksCommitted, Picked, Undecided
<1>8. Undecided(t) /\ Seen[t] # Table!Nothing
  BY <1>1, <1>7 DEF Undecided, Seen, Table!Nothing, RowsTyped, Table!States
<1>9. Table!Accepts(Seen[t].state, Target(txn[t].op))
  BY <1>1, <1>8 DEF IInv, ValidatedOnBase, Seen
<1>10. ~ effective => Seen[t].overtaken
  <2>1. txn[t].base < n
    BY <1>1 DEF IInv, NumberedAfterBase
  <2>2. txn[t].base \in DOMAIN rows /\ txn[t].base \in Nat
    BY <1>1, <1>7, <1>8 DEF RowsTyped
  <2>3. n <= newest => txn[t].base # newest
    BY <1>2, <2>1, <2>2
  <2>4. ~ effective => n <= newest
    BY <1>2
  <2> QED
    BY <1>8, <2>3, <2>4 DEF Seen
<1>11. \A u \in Txn : (Seen[u] = Table!Nothing) <=> ~ Undecided(u)
  BY <1>1, <1>7 DEF Undecided, Seen, Table!Nothing, RowsTyped, Table!States
<1>12. ASSUME NEW u \in Txn
       PROVE  Seen'[u] = IF u = t \/ Seen[u] = Table!Nothing THEN Table!Nothing
                         ELSE [Seen[u] EXCEPT !.overtaken = @ \/ effective]
  <2>1. CASE u = t
    BY <1>6, <2>1 DEF Seen, Undecided, Table!Nothing
  <2>2. CASE u # t /\ ~ Undecided(u)
    BY <1>6, <1>11, <2>2 DEF Seen, Undecided, Table!Nothing
  <2>3. CASE u # t /\ Undecided(u)
    <3>1. txn'[u] = txn[u] /\ txn[u].base \in DOMAIN rows /\ Seen[u] # Table!Nothing
      BY <1>6, <1>7, <1>11, <2>3
    <3>2. rows'[txn[u].base] = rows[txn[u].base]
      BY <1>3, <3>1
    <3>3. (newest' # txn[u].base) = ((newest # txn[u].base) \/ effective)
      BY <1>2, <1>4, <3>1
    <3>4. Seen[u] = [state |-> rows[txn[u].base].state, overtaken |-> newest # txn[u].base]
      BY <2>3 DEF Seen
    <3>5. Seen'[u] = [state |-> rows[txn[u].base].state,
                      overtaken |-> (newest # txn[u].base) \/ effective]
      BY <2>3, <3>1, <3>2, <3>3 DEF Seen, Undecided
    <3>6. [Seen[u] EXCEPT !.overtaken = @ \/ effective] =
            [state |-> rows[txn[u].base].state,
             overtaken |-> (newest # txn[u].base) \/ effective]
      <4> DEFINE found == rows[txn[u].base].state
                 over == newest # txn[u].base
      <4>1. over \in BOOLEAN /\ effective \in BOOLEAN
        OBVIOUS
      <4>2. Seen[u] = [state |-> found, overtaken |-> over]
        BY <3>4
      <4> HIDE DEF found, over, effective
      <4>3. [Seen[u] EXCEPT !.overtaken = @ \/ effective] =
              [state |-> found, overtaken |-> over \/ effective]
        BY <4>1, <4>2, Overtake
      <4> QED
        BY <4>3 DEF found, over
    <3>7. Seen'[u] = [Seen[u] EXCEPT !.overtaken = @ \/ effective]
      BY <3>5, <3>6
    <3> QED
      BY <2>3, <3>1, <3>7
  <2> QED
    BY <2>1, <2>2, <2>3
<1>13. Seen' = [u \in Txn |-> Seen'[u]]
  BY DEF Seen
<1>14. Seen' = [d \in Txn |-> IF d = t \/ Seen[d] = Table!Nothing THEN Table!Nothing
                              ELSE [Seen[d] EXCEPT !.overtaken = @ \/ effective]]
  BY <1>12, <1>13
<1> QED
  BY <1>5, <1>8, <1>9, <1>10, <1>14 DEF Table!Transition

\* The other awaits of a transition: it goes on undecided, or ends.
LEMMA ProceedQuietly ==
  ASSUME IInv, NEW t \in Txn,
         Lock(t) \/ Insert(t) \/ ReadTip(t) \/ AuditCollision(t)
  PROVE  \E E \in SUBSET Txn : Table!Abort(E)
<1>1. TxnTyped
  BY DEF IInv, TypeOK
<1>2. UNCHANGED <<rows, newest>> /\ \A u \in Txn \ {t} : txn'[u] = txn[u]
  BY <1>1 DEF Lock, Insert, ReadTip, AuditCollision, TxnTyped
<1>3. txn[t].pc \in Picked
  BY DEF Lock, Insert, ReadTip, AuditCollision, Picked
<1>4. \/ txn'[t].pc \in Picked /\ txn'[t].base = txn[t].base
      \/ txn'[t].pc \notin Picked
  BY <1>1 DEF Lock, Insert, ReadTip, AuditCollision, TxnTyped, Picked, Idle
<1>5. CASE txn'[t].pc \in Picked
  BY <1>2, <1>3, <1>4, <1>5, QuietImplements, {} \in SUBSET Txn
<1>6. CASE txn'[t].pc \notin Picked
  BY <1>2, <1>6, QuietImplements, {t} \in SUBSET Txn
<1> QED
  BY <1>5, <1>6

\* Steps before a transition has picked its row, after it is decided, and of
\* the environment.
LEMMA OutsideImplements ==
  ASSUME IInv,
         UNCHANGED <<rows, newest>>,
         \A u \in Txn :
           \/ txn'[u] = txn[u]
           \/ txn[u].pc \notin Picked /\ txn'[u].pc \notin Picked
  PROVE  Table!Abort({})
<1>1. {} \in SUBSET Txn
  OBVIOUS
<1> QED
  BY <1>1, QuietImplements

LEMMA StepImplements == IInv /\ [Next]_vars => [Table!Next]_(Table!vars)
<1> SUFFICES ASSUME IInv, [Next]_vars PROVE Table!Next
  OBVIOUS
<1>1. TxnTyped
  BY DEF IInv, TypeOK
<1>2. (\E E \in SUBSET Txn : Table!Abort(E)) => Table!Next
  BY DEF Table!Next
<1>3. Table!Abort({}) => Table!Next
  BY <1>2
<1>4. ASSUME NEW t \in Txn, Select(t) PROVE Table!Next
  BY <1>4, SelectImplements DEF Table!Next
<1>5. ASSUME NEW t \in Txn, Commit(t) PROVE Table!Next
  <2>1. Target(txn[t].op) \in Table!States
    BY DEF Target, Table!States
  <2>2. (txn[t].seq > newest) \in BOOLEAN
    OBVIOUS
  <2> QED
    BY <1>5, <2>1, <2>2, CommitImplements DEF Table!Next
<1>6. ASSUME NEW t \in Txn, Lock(t) \/ Insert(t) \/ ReadTip(t) \/ AuditCollision(t)
      PROVE  Table!Next
  BY <1>2, <1>6, ProceedQuietly
<1>7. ASSUME NEW t \in Txn, KillSwitch(t) \/ WindDown(t) \/ Activate(t)
      PROVE  Table!Next
  BY <1>1, <1>3, <1>7, OutsideImplements
     DEF KillSwitch, WindDown, Activate, Request, Running, TxnTyped, Picked
<1>8. ASSUME NEW t \in Txn, Sweep(t) \/ DeadlineJob(t) \/ EnforceMeasure(t) \/ Startup(t)
      PROVE  Table!Next
  BY <1>1, <1>3, <1>8, OutsideImplements
     DEF Sweep, DeadlineJob, EnforceMeasure, Startup, Scheduled, Running, TxnTyped, Picked
<1>9. ASSUME NEW t \in Txn, ActivateMeasure(t) \/ EnforceRead(t) \/ Publish(t) \/ PublishFails(t)
      PROVE  Table!Next
  BY <1>1, <1>3, <1>9, OutsideImplements
     DEF ActivateMeasure, EnforceRead, Publish, PublishFails, Running, Idle, TxnTyped, Picked
<1>10. ASSUME Crash PROVE Table!Next
  <2>1. Table!Abort(Txn)
    BY <1>10, QuietImplements, Txn \in SUBSET Txn DEF Crash, Idle, Picked
  <2> QED
    BY <1>2, <2>1
<1>11. ASSUME DeadlinePasses \/ MetricsChange \/ ForeignAudit \/ UNCHANGED vars
       PROVE  Table!Next
  BY <1>3, <1>11, OutsideImplements DEF DeadlinePasses, MetricsChange, ForeignAudit, vars
<1> QED
  BY <1>4, <1>5, <1>6, <1>7, <1>8, <1>9, <1>10, <1>11 DEF Next, Proceed

\* The transaction of several awaits, with its locks, its jobs, its collisions
\* and its crashes, implements the transition table for overlapping requests.
THEOREM Implements == Spec => ImplementsTable
<1>1. Init => Table!Init
  BY InitImplements
<1>2. IInv /\ [Next]_vars => [Table!Next]_(Table!vars)
  BY StepImplements
<1> QED
  BY <1>1, <1>2, Invariant, PTL DEF Spec, ImplementsTable, Table!Spec

=============================================================================
