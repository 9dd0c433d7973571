------------------------------ MODULE MCRiskGate -----------------------------
(* Instances of RiskGate for TLC: a share on the watch list and one off it.  *)
EXTENDS RiskGate

LossLimit == -3

Asked ==
  {[symbol |-> "listed", side |-> d, qty |-> q, limit |-> l] :
     d \in {1, -1}, q \in {1, 2}, l \in {0, 11}}
    \cup {[symbol |-> "unlisted", side |-> 1, qty |-> 1, limit |-> 0]}

Others == [symbol : {"listed"}, qty : {1, -1}]

Holdings ==
  {[s \in Symbols |-> IF s = "listed" THEN l ELSE u] : l \in {-1, 0, 2}, u \in {0, 1}}

=============================================================================
