------------------------------ MODULE MCEventBus -----------------------------
(* Instances of EventBus for TLC: a page at the process without the streams. *)
EXTENDS EventBus

Pages == [c \in {"page"} |-> "two"]

=============================================================================
