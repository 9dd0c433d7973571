------------------------------- MODULE MCTuning ------------------------------
(***************************************************************************)
(* The search and the promotion for TLC: scores of either sign, some on the *)
(* edge of the band; requests, tokens and values are interchangeable.  As   *)
(* in the code nothing connects the two, and they share no variable: each   *)
(* moves while the other stands at its beginning, the promotion beside one  *)
(* search of many.                                                          *)
(***************************************************************************)
EXTENDS Tuning, WalkForward, TLC

Signed == {-3, -2, 1, 2}

Flat == [value \in grid |-> [i \in Fold |-> [in_sample |-> 2, out_of_sample |-> 2]]]

ConsentInit == TuningInit /\ SearchInit

ConsentNext ==
  \/ TuningInit /\ Search /\ UNCHANGED tuningVars
  \/ /\ proposed = NotSearched /\ inUse = Default /\ measured = Flat
     /\ TuningNext /\ UNCHANGED searchVars

ConsentSpec == ConsentInit /\ [][ConsentNext]_<<tuningVars, searchVars>>

Symmetry == Permutations(Requests) \cup Permutations(Tokens) \cup Permutations(Values)

=============================================================================
