---------------------------- MODULE MCRuleCheck -----------------------------
EXTENDS RuleCheck

(* Trigger windows that hold part of the clock, all of it, and a forced     *)
(* close that allows a whole extension, part of one, less than a minute of  *)
(* one, and none.                                                           *)
MCTerms ==
    [close : {4}, forced : {4, 5, 8}, window : {1, 2}, ext : {1, 2},
     trigger : TriggerType]

(* The rules compare suppliers only with each other. *)
Symmetry == Permutations(Suppliers)
============================================================================
