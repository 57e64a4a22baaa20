------------------------------ MODULE Ordering ------------------------------
(***************************************************************************)
(* ORDER BY, sort and filter, without recursion: what comes out has at      *)
(* place i the element that i - 1 others precede.                           *)
(***************************************************************************)
EXTENDS Integers, FiniteSets

(* A finite set as a sequence, in an order of its elements. *)
InOrder(S, precedes(_, _)) ==
    [i \in 1..Cardinality(S) |->
        CHOOSE x \in S : Cardinality({y \in S : precedes(y, x)}) = i - 1]

(* The rows of a list at some of its places, in the list's order. *)
RowsAt(list, places) ==
    LET order == InOrder(places, <)
    IN  [k \in DOMAIN order |-> list[order[k]]]
=============================================================================
