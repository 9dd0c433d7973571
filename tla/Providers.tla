------------------------------ MODULE Providers ------------------------------
(***************************************************************************)
(* The model that does the research, and who may change it (agents/router.py *)
(* and POST /providers/{role}/switch).  The choice is one variable of a      *)
(* process; it is repeated in the audit log, which a restart reads back, and *)
(* on the system channel, which every process follows, its own messages      *)
(* included.  A provider that fails too often is replaced in memory alone.   *)
(***************************************************************************)
EXTENDS Naturals, Sequences

CONSTANTS
  Provider,       \* the adapters of default_router
  Default,        \* the one that is active where no switch was ever logged
  Fallback,       \* the one that takes over from a failing one
  Wanted,         \* those an operator switches to
  ReadOnly,       \* adapters whose schema has no writing tool
  ErrorThreshold, \* PROVIDER_ERROR_THRESHOLD
  None,           \* no provider
  MaxSwitches     \* bound: switches requested, here and of another process

ASSUME ProviderAssumption ==
  /\ {Default, Fallback} \subseteq Provider /\ ReadOnly \cup Wanted \subseteq Provider
  /\ None \notin Provider
  /\ ErrorThreshold \in Nat \ {0} /\ MaxSwitches \in Nat

VARIABLES
  active,    \* _active["research"]
  errors,    \* consecutive_errors of each adapter
  healthy,   \* adapters whose last calls did not fail too often
  switching, \* what a request has switched to and not yet logged
  audited,   \* new_provider_id of the newest provider_switched of the audit log
  channel,   \* switches published to the system channel and not yet followed
  switches   \* how many were requested

routerVars == <<active, errors, healthy, switching, audited, channel, switches>>

Resting == None

\* A process that starts: new adapters, and restore_active.
Fresh(latest) == IF latest = None THEN Default ELSE latest

RouterInit ==
  /\ active = Default
  /\ errors = [p \in Provider |-> 0]
  /\ healthy = Provider
  /\ switching = Resting
  /\ audited = None
  /\ channel = <<>>
  /\ switches = 0

-----------------------------------------------------------------------------

\* An unhealthy provider is refused with 422.  A read-only one is not.
Switch(p) ==
  /\ switching = Resting /\ switches < MaxSwitches
  /\ p \in healthy
  /\ active' = p
  /\ switching' = p
  /\ switches' = switches + 1
  /\ UNCHANGED <<errors, healthy, audited, channel>>

\* The audit log first, then the channel: what a crash between the two loses is lost
\* to a restart of this process anyway.
LogSwitch ==
  /\ switching # Resting
  /\ audited' = switching
  /\ channel' = Append(channel, switching)
  /\ switching' = Resting
  /\ UNCHANGED <<active, errors, healthy, switches>>

\* The same in another process, whose adapters have a health of their own.
OtherProcessSwitches(p) ==
  /\ switches < MaxSwitches
  /\ switches' = switches + 1
  /\ audited' = p
  /\ channel' = Append(channel, p)
  /\ UNCHANGED <<active, errors, healthy, switching>>

\* follow_switches and adopt: no question about its health.
FollowSwitch ==
  /\ channel # <<>>
  /\ active' = Head(channel)
  /\ channel' = Tail(channel)
  /\ UNCHANGED <<errors, healthy, switching, audited, switches>>

\* A new process: what was on its way through the channel is gone.
RouterRestart ==
  /\ active' = Fresh(audited)
  /\ errors' = [p \in Provider |-> 0]
  /\ healthy' = Provider
  /\ switching' = Resting
  /\ channel' = <<>>
  /\ UNCHANGED <<audited, switches>>

RouterNext ==
  \/ \E p \in Wanted : Switch(p) \/ OtherProcessSwitches(p)
  \/ LogSwitch \/ FollowSwitch

-----------------------------------------------------------------------------

\* record_error: the fallback takes the place of an active provider that is given up.
RecordError(p) ==
  LET given_up == errors[p] + 1 >= ErrorThreshold
  IN  /\ errors' = [errors EXCEPT ![p] = @ + 1]
      /\ healthy' = IF given_up THEN healthy \ {p} ELSE healthy
      /\ active' = IF p \notin healthy' /\ p # Fallback /\ active = p THEN Fallback ELSE active
      /\ UNCHANGED <<switching, audited, channel, switches>>

RecordSuccess(p) ==
  /\ errors' = [errors EXCEPT ![p] = 0]
  /\ healthy' = healthy \cup {p}
  /\ UNCHANGED <<active, switching, audited, channel, switches>>

AnyWritable == active \in healthy \ ReadOnly

=============================================================================
