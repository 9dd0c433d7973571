-------------------------- MODULE MCOrderExecution --------------------------
(* Instances of OrderExecution for TLC: keys, bodies and slots are           *)
(* interchangeable.                                                          *)
EXTENDS OrderExecution, TLC

Symmetry == Permutations(Key) \cup Permutations(Body) \cup Permutations(Flow)

=============================================================================
