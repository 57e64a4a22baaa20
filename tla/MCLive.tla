------------------------------- MODULE MCLive -------------------------------
EXTENDS LiveInvariant

CONSTANTS s1, s2, c1, c2

Bid(s, p, c) == [supplier |-> s, price |-> p, client |-> c]

(* The page's supplier bids, and a rival undercuts it... *)
TwoBids == {Bid(s1, 2, c1), Bid(s2, 1, c2)}

(* ... or the supplier does so itself: with one client id, one of the two   *)
(* is accepted.                                                             *)
SelfOrRival == TwoBids \cup {Bid(s1, 1, c2)}

MCTerms == {[close |-> 1, forced |-> 2]}

(* Any bid may extend the auction by a tick, up to the forced close. *)
MayExtend(close_, terms_, request, ledger_, seen) ==
    {close_} \cup {c \in {close_ + 1} : c <= terms_.forced}

(* Every bid extends it while the forced close allows. *)
AlwaysExtends(close_, terms_, request, ledger_, seen) ==
    {IF close_ < terms_.forced THEN close_ + 1 ELSE close_}

(* What the Go hub understands, and a server that has no leave.  The Node   *)
(* backend understands neither message: its pages live on the refetch.      *)
Subscribing == {{"join_rfq"}, {"join_rfq", "leave_rfq"}}
MCProtocols == {{}} \cup Subscribing
=============================================================================
