----------------------------- MODULE MCApprovals -----------------------------
(* Instances of Approvals for TLC: approvals and request slots are           *)
(* interchangeable.                                                          *)
EXTENDS Approvals, TLC

Symmetry == Permutations(Approval) \cup Permutations(Flow)

=============================================================================
