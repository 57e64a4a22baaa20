------------------------------- MODULE MCNode -------------------------------
EXTENDS NodeSerialInvariant

CONSTANTS s1, s2, c1, c2, c3

Bid(s, p, c) == [supplier |-> s, price |-> p, client |-> c]

(* Two suppliers: s1 bids and improves, s2 undercuts s1's first bid... *)
Improving == {Bid(s1, 3, c1), Bid(s1, 1, c2)}
ThreeBids == Improving \cup {Bid(s2, 2, c3)}

(* ... or does so without a client id, or bids the same price. *)
OneAnonymous == Improving \cup {Bid(s2, 2, NoClientId)}
WithATie     == Improving \cup {Bid(s2, 3, c3)}

Rfq(start, close, forced, trigger) ==
    [start |-> start, close |-> close, forced |-> forced, window |-> 1, ext |-> 1,
     trigger |-> trigger]

(* One extension of a minute, or two. *)
AnyBid == {Rfq(0, 1, 2, "ANY_BID")}
Later  == {Rfq(1, 2, 3, "ANY_BID")}

(* With two ticks a minute: a whole extension, then one the forced close    *)
(* cuts to half a minute; the auction starts late.                          *)
FineClock == {Rfq(1, 3, 6, t) : t \in TriggerType}

Symmetry == Permutations(Bidders)
=============================================================================
