------------------------------- MODULE Streams -------------------------------
(***************************************************************************)
(* The two streams of the broker: the updates of orders and the ticks.      *)
(* Each is a loop that connects, introduces itself, consumes what comes,    *)
(* waits and connects again (stream/ingest.py, broker/alpaca.py); after     *)
(* each connection it sweeps over the channels for one that has fallen      *)
(* silent.  Both loops are tasks of one process and share the monitor:      *)
(* whatever is said takes an await for Redis, in which the other runs.      *)
(***************************************************************************)
EXTENDS Naturals, Sequences

CONSTANTS
  MaxAttempt,  \* the first attempt whose delay is too large to compute (1024)
  MaxRefusals  \* bound: how far refusals in a row are counted

ASSUME StreamsAssumption == {MaxAttempt, MaxRefusals} \subseteq Nat

Ingestors == {"orders", "ticks"}

VARIABLES
  loops,   \* run_forever of each stream
  heard,   \* the monitor's channels, in the order in which they were first heard
  health,  \* of each: was it last heard too long ago, and what was announced?
  refused  \* history: connections for ticks in a row that were never accepted

streamVars == <<loops, heard, health, refused>>

StreamsInit ==
  /\ loops = [l \in Ingestors |-> [pc |-> "closed", accepted |-> FALSE, attempt |-> 0,
                                at |-> 0, size |-> 0]]
  /\ heard = <<>>
  /\ health = [l \in Ingestors |-> [old |-> TRUE, stale |-> TRUE]]
  /\ refused = 0

Goto(l, pc) == loops' = [loops EXCEPT ![l].pc = pc]

Dies(l) ==
  /\ Goto(l, "dead")
  /\ UNCHANGED <<heard, health, refused>>

-----------------------------------------------------------------------------
(* A connection.                                                           *)

\* consume() raises, or returns; only then the delay starts anew.
Finish(l, how) ==
  /\ loops' = [loops EXCEPT ![l].pc = IF how = "raises" THEN "failed" ELSE "ended",
                            ![l].attempt = IF how = "raises" THEN @ ELSE 0]
  /\ refused' = IF l = "orders" THEN refused
                ELSE IF loops[l].accepted THEN 0
                ELSE IF refused < MaxRefusals THEN refused + 1 ELSE refused

Open(l) ==
  /\ loops[l].pc = "closed"
  /\ loops' = [loops EXCEPT ![l].pc = "open", ![l].accepted = FALSE]
  /\ UNCHANGED <<heard, health, refused>>

\* "authorized" is answered by "listen", "authenticated" by "subscribe".
Accepted(l) ==
  /\ loops[l].pc = "open"
  /\ loops' = [loops EXCEPT ![l].accepted = TRUE]
  /\ UNCHANGED <<heard, health, refused>>

\* No keys, no connection, an error frame, another answer to "auth", or a
\* connection that breaks.
Breaks(l) ==
  /\ loops[l].pc = "open"
  /\ Finish(l, "raises")
  /\ UNCHANGED <<heard, health>>

\* Fault: both streams take an orderly close for an end.
ClosesQuietly(l) ==
  /\ loops[l].pc = "open"
  /\ Finish(l, "returns")
  /\ UNCHANGED <<heard, health>>

\* The broker closes in order; of ticks that were never accepted this is an error.
Closes(l) ==
  /\ loops[l].pc = "open"
  /\ Finish(l, IF l = "ticks" /\ ~ loops[l].accepted THEN "raises" ELSE "returns")
  /\ UNCHANGED <<heard, health>>

Tracked == {heard[k] : k \in DOMAIN heard}

\* The channel is heard: the ticks now, an update of an order at its own time,
\* which may be long past.  Then it is stored and published.
Consume(l) ==
  /\ loops[l].pc = "open"
  /\ heard' = IF l \in Tracked THEN heard ELSE Append(heard, l)
  /\ \E old \in (IF l = "orders" THEN BOOLEAN ELSE {FALSE}) :
       health' = [health EXCEPT ![l].old = old]
  /\ Goto(l, "message")
  /\ UNCHANGED refused

Handled(l) ==
  /\ loops[l].pc = "message"
  /\ Goto(l, "open")
  /\ UNCHANGED <<heard, health, refused>>

\* An error of the database or of Redis counts as one of the stream.
HandlingFails(l) ==
  /\ loops[l].pc = "message"
  /\ Finish(l, "raises")
  /\ UNCHANGED <<heard, health>>

-----------------------------------------------------------------------------
(* Between two connections.                                                *)

\* Of the orders, a failure is recorded for the circuit breaker.
Record(l) ==
  /\ loops[l].pc = "failed"
  /\ Goto(l, "ended")
  /\ UNCHANGED <<heard, health, refused>>

\* If the database is away at that moment, the error leaves the loop.
RecordFails(l) ==
  /\ l = "orders" /\ loops[l].pc = "failed"
  /\ Dies(l)

\* Fault: a channel that is heard again is not announced.
ChangedToStale == {l \in Tracked : health[l].old /\ ~ health[l].stale}

Changed == {l \in Tracked : health[l].old # health[l].stale}

\* The places of the sweep that are still to come and have something to say.
Ahead(l) == {k \in DOMAIN heard : k > loops[l].at /\ heard[k] \in Changed}

\* StalenessMonitor.sweep: a change is noted first, then published ...
Sweep(l) ==
  \E k \in Ahead(l) :
    /\ loops[l].pc = "ended"
    /\ \A other \in Ahead(l) : k <= other
    /\ health' = [health EXCEPT ![heard[k]].stale = ~ @]
    /\ loops' = [loops EXCEPT ![l].pc = "publish", ![l].at = k,
                              ![l].size = IF loops[l].at = 0 THEN Len(heard) ELSE @]
    /\ UNCHANGED <<heard, refused>>

\* ... and the next change is looked for.
Published(l) ==
  /\ loops[l].pc = "publish"
  /\ loops[l].size = Len(heard)
  /\ Goto(l, "ended")
  /\ UNCHANGED <<heard, health, refused>>

\* The other stream was heard for the first time meanwhile: "dictionary changed
\* size during iteration".
Surprised(l) ==
  /\ loops[l].pc = "publish"
  /\ loops[l].size # Len(heard)
  /\ Goto(l, "dead")
  /\ UNCHANGED <<heard, health, refused>>

\* Nothing catches an error of Redis here.
PublishFails(l) ==
  /\ loops[l].pc = "publish"
  /\ Dies(l)

SweepDone(l) ==
  /\ loops[l].pc = "ended" /\ Ahead(l) = {}
  /\ loops' = [loops EXCEPT ![l].pc = "sleep", ![l].at = 0, ![l].size = 0]
  /\ UNCHANGED <<heard, health, refused>>

\* backoff_delay: beyond some attempt the power is no float any more.
Overflow(l) ==
  /\ loops[l].pc = "sleep" /\ loops[l].attempt >= MaxAttempt
  /\ Goto(l, "dead")
  /\ UNCHANGED <<heard, health, refused>>

Sleep(l) ==
  /\ loops[l].pc = "sleep" /\ loops[l].attempt < MaxAttempt
  /\ loops' = [loops EXCEPT ![l].pc = "closed", ![l].attempt = @ + 1]
  /\ UNCHANGED <<heard, health, refused>>

\* STALE_AFTER_SECONDS have passed since the channel was heard.
GrowsOld(channel) ==
  /\ ~ health[channel].old
  /\ health' = [health EXCEPT ![channel].old = TRUE]
  /\ UNCHANGED <<loops, heard, refused>>

-----------------------------------------------------------------------------

\* What the loop does by itself, the broker being silent.
Loop(l) ==
  \/ Open(l) \/ Handled(l) \/ Record(l)
  \/ Sweep(l) \/ Published(l) \/ Surprised(l) \/ SweepDone(l) \/ Overflow(l) \/ Sleep(l)

StreamsNext ==
  \E l \in Ingestors :
    \/ Loop(l)
    \/ Accepted(l) \/ Consume(l) \/ Breaks(l) \/ Closes(l) \/ GrowsOld(l)
    \/ HandlingFails(l) \/ RecordFails(l) \/ PublishFails(l)

StreamsSpec == StreamsInit /\ [][StreamsNext]_streamVars

\* Both tasks go on; nobody promises that the broker says anything or closes.
FairSpec == StreamsSpec /\ \A l \in Ingestors : WF_streamVars(Loop(l))

-----------------------------------------------------------------------------

\* The ticks are never asked for again without a growing delay while the broker
\* refuses them, in whatever way it does (alpaca.py:544, ingest.py:322-344).
RefusalsWaitLonger ==
  LET ticks == loops["ticks"] IN
  ticks.pc \in {"closed", "open"} => refused <= ticks.attempt

\* The end of a stream finds what has changed on both channels, and says so, be it
\* by another sweep that comes before (ingest.py:90-114, 342).
EndFindsSilence ==
  \A l, channel \in Ingestors :
    LET unsaid == channel \in Tracked /\ health[channel].old # health[channel].stale IN
    (loops[l].pc = "ended" /\ loops[l].at = 0 /\ unsaid) ~> (~ unsaid \/ loops[l].pc = "dead")

=============================================================================
