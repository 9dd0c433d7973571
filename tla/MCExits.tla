------------------------------- MODULE MCExits -------------------------------
(* Instances of Exits for TLC: the agents and the operator buy a share.      *)
EXTENDS Exits

Buys == {[by |-> "trader", side |-> 1, qty |-> 1], [by |-> "operator", side |-> 1, qty |-> 1]}

=============================================================================
