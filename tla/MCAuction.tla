----------------------------- MODULE MCAuction ------------------------------
EXTENDS SerialInvariant

CONSTANTS s1, s2, c1, c2, c3

Bid(s, p, c) == [supplier |-> s, price |-> p, client |-> c]

(* Two suppliers: s1 bids and improves, s2 undercuts s1's first bid... *)
Improving == {Bid(s1, 3, c1), Bid(s1, 1, c2)}
ThreeBids == Improving \cup {Bid(s2, 2, c3)}

(* ... or does so without a client id. *)
OneAnonymous == Improving \cup {Bid(s2, 2, NoClientId)}

(* And s1 repeats its best price under a new client id. *)
FourBids == OneAnonymous \cup {Bid(s1, 1, c3)}

Rfq(close, forced, trigger) ==
    [close |-> close, forced |-> forced, window |-> 1, ext |-> 1, trigger |-> trigger]

(* Room for two extensions of one minute, under ANY_BID. *)
AnyBid  == {Rfq(1, 3, "ANY_BID")}

(* With two ticks a minute: a whole extension, then one the forced close    *)
(* cuts to half a minute.  The first tick is before the trigger window.     *)
FineClock == {Rfq(3, 6, t) : t \in TriggerType}

Symmetry == Permutations(Bidders)
============================================================================
