--------------------------- MODULE MCResearchAgent ---------------------------
(* An instance of ResearchAgent for TLC: two cycles, a stock and a coin, a    *)
(* provider of each kind.                                                     *)
EXTENDS ResearchAgent, TLC

CONSTANTS claude, local, fallback, stock, coin

Vendors == claude :> "anthropic" @@ local :> "local" @@ fallback :> "local"

Losing == <<[pl |-> -3, hours |-> 5], [pl |-> 1, hours |-> 30]>>

Old == <<[pl |-> -3, hours |-> 25], [pl |-> -1, hours |-> 30]>>

Traded == {[x \in Symbol |-> <<>>], [x \in Symbol |-> IF x = coin THEN Losing ELSE Old],
           [x \in Symbol |-> Losing]}

Selections == {{}, {coin}}

Proposed == {[symbol |-> stock, increases |-> TRUE], [symbol |-> coin, increases |-> FALSE]}

Portfolios == {{stock, coin}, {coin}}

Symmetry == Permutations(Session)

=============================================================================
