----------------------------- MODULE WalkForward -----------------------------
(***************************************************************************)
(* How a new value of a tuned parameter is looked for: the grid of          *)
(* tuning/whitelist.py, the folds of tuning/walkforward.py and the four     *)
(* conditions of tuning/search.py.  A score is a whole number; what a value *)
(* scores on a part of the series is for the caller to say, and the value   *)
(* in use may be any within the bounds: nothing keeps it on the grid.       *)
(***************************************************************************)
EXTENDS Integers, Sequences, Functions

CONSTANTS
  Minimum, Maximum, Step, Default,  \* the entry of tuning_whitelist.yaml
  Folds,                            \* folds asked for, at least MIN_FOLDS
  Scores                            \* scores of a value on a part of the series

ASSUME WhitelistAssumption ==
  /\ {Minimum, Maximum, Default} \subseteq Nat /\ Step \in Nat \ {0}
  /\ Minimum <= Default /\ Default <= Maximum
  /\ (Default - Minimum) % Step = 0

ASSUME FoldsAssumption == Folds \in Nat /\ Folds >= 2

ASSUME ScoresAssumption == Scores \subseteq Int

VARIABLES
  inUse,     \* the current value of the parameter
  measured,  \* what each value scores on each fold
  proposed   \* what the search proposed, if it has run

searchVars == <<inUse, measured, proposed>>

\* ParameterSpec.contains: 2.55 is within 1.0 and 5.0 but on no step of 0.1.
contains(value) == value \in Minimum..Maximum /\ (value - Minimum) % Step = 0

grid == {value \in Minimum..Maximum : contains(value)}

Fold == 0..(Folds - 1)

AbsScore(n) == IF n < 0 THEN -n ELSE n

\* COLLAPSE_BAND: out of sample at most half of the size of the score is lost.
held_up(fold) == 2 * fold.out_of_sample >= 2 * fold.in_sample - AbsScore(fold.in_sample)

\* Over the same number of folds the sum ranks as the average does.
score(folds) == SumFunctionOnSet([i \in Fold |-> folds[i].out_of_sample], Fold)

NoProposal == Minimum - 1

\* The first of the values with the highest score, which sorting keeps in front.
best(results) ==
  CHOOSE v \in grid : \A w \in grid :
    \/ score(results[v]) > score(results[w])
    \/ score(results[v]) = score(results[w]) /\ v <= w

\* Fault: the folds of the best value are not looked at.
searchUnheld(results, current) ==
  IF best(results) = current \/ score(results[best(results)]) <= score(results[current])
  THEN NoProposal ELSE best(results)

\* Only the best value is tried; a current value off the grid has no baseline:
\* it is not run, and there is nothing to beat.
search(results, current) ==
  LET top == best(results) IN
  IF \/ top = current
     \/ current \in grid /\ score(results[top]) <= score(results[current])
     \/ \E i \in Fold : ~ held_up(results[top][i])
  THEN NoProposal ELSE top

NotSearched == Minimum - 2

\* Only what is on the grid is run.
Measured == [grid -> [Fold -> [in_sample : Scores, out_of_sample : Scores]]]

SearchInit ==
  /\ inUse \in Minimum..Maximum
  /\ measured \in Measured
  /\ proposed = NotSearched

Search ==
  /\ proposed = NotSearched
  /\ proposed' = search(measured, inUse)
  /\ UNCHANGED <<inUse, measured>>

SearchSpec == SearchInit /\ [][Search]_searchVars

-----------------------------------------------------------------------------

Proposing == proposed \notin {NotSearched, NoProposal}

\* The four conditions as they are documented: a proposed value is within the
\* bounds and on a step, no fold collapsed (with its sign, not by the absolute
\* value), and it is better out of sample than the current value, also when values
\* tie (search.py:7-11); but for a current value that was recorded off the grid,
\* which is not run, so that nobody knows which is better (search.py:65).
ProposalIsProven ==
  Proposing =>
    /\ proposed \in Minimum..Maximum /\ \E k \in 0..Maximum : proposed = Minimum + k * Step
    /\ \A i \in Fold :
         LET in == measured[proposed][i].in_sample
             out == measured[proposed][i].out_of_sample
         IN  IF in >= 0 THEN 2 * out >= in ELSE 2 * out >= 3 * in
    /\ inUse \in grid => score(measured[proposed]) > score(measured[inUse])

=============================================================================
