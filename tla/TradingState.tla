---------------------------- MODULE TradingState ----------------------------
(***************************************************************************)
(* The trading state as its users see it: one of three values, changed by  *)
(* requests that may overlap.  A request is decided by the table of         *)
(* StateMachine._validate on the state it found when it began.  Unless      *)
(* another one took effect in the meantime that is the current state and    *)
(* the request takes effect; one that was overtaken may still do so, over   *)
(* a state it never saw, or be recorded without any effect.                 *)
(***************************************************************************)
CONSTANT Client

VARIABLES
  state, \* the current state
  seen   \* what each request found when it began, or Nothing

vars == <<state, seen>>

States == {"active", "winding_down", "halted"}

\* Fault: a halted system can be wound down.
AcceptsAnyWindDown(from, to) ==
  \/ to = "halted"
  \/ to = "winding_down" /\ from # "winding_down"
  \/ to = "active" /\ from # "active"

\* A halted system cannot be wound down, a winding-down one is not wound down
\* again, an active one not activated again; halting is unconditional.
Accepts(from, to) ==
  \/ to = "halted"
  \/ to = "winding_down" /\ from = "active"
  \/ to = "active" /\ from # "active"

Nothing == [state |-> "none", overtaken |-> FALSE]

\* A first deployment starts in the safest state.
Init ==
  /\ state = "halted"
  /\ seen = [c \in Client |-> Nothing]

Begin(c) ==
  /\ seen[c] = Nothing
  /\ seen' = [seen EXCEPT ![c] = [state |-> state, overtaken |-> FALSE]]
  /\ UNCHANGED state

\* A request that was not overtaken takes effect.
Transition(c, to, effective) ==
  /\ seen[c] # Nothing
  /\ Accepts(seen[c].state, to)
  /\ ~ effective => seen[c].overtaken
  /\ state' = IF effective THEN to ELSE state
  /\ seen' = [d \in Client |->
                IF d = c \/ seen[d] = Nothing THEN Nothing
                ELSE [seen[d] EXCEPT !.overtaken = @ \/ effective]]

\* Requests are refused, fail or die with the process.
Abort(C) ==
  /\ seen' = [c \in Client |-> IF c \in C THEN Nothing ELSE seen[c]]
  /\ UNCHANGED state

Next ==
  \/ \E c \in Client : Begin(c)
  \/ \E c \in Client, to \in States, effective \in BOOLEAN : Transition(c, to, effective)
  \/ \E C \in SUBSET Client : Abort(C)

Spec == Init /\ [][Next]_vars

=============================================================================
