--------------------------- MODULE LiveInvariant ----------------------------
(***************************************************************************)
(* The inductive invariant behind what a live page shows: the auction's     *)
(* history only grows, every event under way and every answer under way is  *)
(* part of it, and the rooms of the sockets follow the page.                *)
(***************************************************************************)
EXTENDS LiveProperties

(* The rules may leave the close time alone or move it forward, as those of *)
(* both backends do.                                                        *)
RuleExtends ==
    \A c, seen \in Nat, t \in Terms, r \in Requests : \A rows :
        \A d \in CloseRule(c, t, r, rows, seen) : d \in Nat /\ c <= d

(* The ledger is numbered. *)
LedgerNumbered ==
    /\ IsFiniteSet(ledger)
    /\ \A b \in ledger : b.id \in 1..Cardinality(ledger) /\ b.price \in Nat
    /\ \A b, c \in ledger : b.id = c.id => b = c

(* The trail only holds later close times, and an open auction's close time *)
(* is the first one or on it.                                               *)
TrailExplains ==
    /\ now \in Nat /\ close \in Nat /\ terms \in Terms
    /\ status \in {"NONE", "ACTIVE", "CLOSED"}
    /\ trail \in Seq(Nat)
    /\ \A c \in ToSet(trail) : terms.close <= c
    /\ status = "ACTIVE" => close \in {terms.close} \cup ToSet(trail)

(* Nobody knows of an RFQ that does not exist. *)
NothingBeforeOpening ==
    status = "NONE" => ledger = {} /\ outbox = {} /\ cache = NoData /\ query = Quiet

(* What there is to tell. *)
News ==
    {BidPlaced(b) : b \in ledger} \cup {Extended(c) : c \in ToSet(trail)}
        \cup {e \in {Closed} : status = "CLOSED"}

Once(bids) == \A i, j \in DOMAIN bids : bids[i].id = bids[j].id => i = j

(* The data a page may have been given or may have made of it. *)
Histories ==
    {data \in [status : {"ACTIVE", "CLOSED"}, close : CloseTimes,
               bids : Seq(ledger), trail : Seq(Nat)] :
        /\ data.status = "CLOSED" => status = "CLOSED"
        /\ IsPrefix(data.trail, trail)
        /\ role = "supplier" => Once(data.bids)}

EverythingIsHistory ==
    /\ outbox \subseteq News
    /\ cache \in {NoData} \cup Histories
    /\ IF query.at = "idle" THEN query = Quiet ELSE query.data \in Histories

(* The countdown ended when there was a reason. *)
OverWhenDue == over => now >= terms.close \/ status = "CLOSED"

(* Every listener is of a visit. *)
Sockets ==
    /\ visits \in Nat /\ mounted \in BOOLEAN
    /\ sockets \in Seq([open : BOOLEAN, room : BOOLEAN, listeners : SUBSET (1..visits)])
    /\ mounted => sockets # <<>>

(* The socket of the page that is there is the only one to be in the room.  *)
RoomFollowsPage ==
    protocol = {"join_rfq", "leave_rfq"} =>
        \A s \in DOMAIN sockets : sockets[s].room => mounted /\ s = Len(sockets)

LiveInv ==
    /\ LedgerNumbered
    /\ TrailExplains
    /\ NothingBeforeOpening
    /\ EverythingIsHistory
    /\ OverWhenDue
    /\ Sockets
    /\ RoomFollowsPage
=============================================================================
