---------------------------- MODULE MCSystemState ----------------------------
(* Instances of SystemState for TLC: slots are interchangeable.             *)
EXTENDS SystemState, TLC

Symmetry == Permutations(Txn)

=============================================================================
