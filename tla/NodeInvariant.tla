--------------------------- MODULE NodeInvariant ----------------------------
(***************************************************************************)
(* The inductive invariant behind what the Node backend keeps however calls *)
(* overlap.  What a call will write depends on two reads of a row that      *)
(* other calls change in between; each part below says what a call in       *)
(* flight carries, by the step it is at.                                    *)
(***************************************************************************)
EXTENDS NodeProperties

(* The ids of the ledger are those its size has handed out. *)
IdsHandedOut == \A x \in bids : 1 <= x.id /\ x.id <= Cardinality(bids)

(* There are no bids, and no bid is judged, before there is an RFQ. *)
NothingBeforeRow ==
    rfq.status = "NONE" =>
        /\ bids = {}
        /\ \A p \in Procs : call[p].at \notin {"best", "reread", "rank", "commit"}

(* A bid on its way to the ledger is one a supplier asked for. *)
CarriesRequest ==
    \A p \in Procs : call[p].at \in {"read", "best", "reread", "rank", "commit"} =>
        call[p].req \in Requests

(* The close time of the first read was the RFQ's while it was ACTIVE.      *)
CarriesFirstRead ==
    \A p \in Procs : call[p].at \in {"best", "reread", "rank", "commit"} =>
        call[p].read \in CloseTimesBefore(NewId)

(* The second read, which does not look at the status, admitted the bid;    *)
(* if the RFQ is still open it saw a close time the RFQ had.                *)
CarriesSecondRead ==
    \A p \in Procs : call[p].at \in {"rank", "commit"} =>
        /\ terms.start <= call[p].stamp /\ call[p].stamp <= call[p].seen
        /\ rfq.status = "ACTIVE" => call[p].seen \in CloseTimesBefore(NewId)

(* The verdict leaves the close time of the second read or extends it.      *)
CarriesVerdict ==
    \A p \in Procs : call[p].at = "commit" =>
        \/ call[p].new = call[p].seen
        \/ call[p].seen < call[p].new /\ call[p].new <= terms.forced

(* What is about to be announced is committed. *)
CarriesCommitted ==
    \A b \in Bidders : call[b].at \in {"remove", "add"} =>
        /\ \E x \in bids : x.id = call[b].id
        /\ ResultClose(b) \in CloseTimesBefore(NewId)

TypeInv == TypeOK /\ CarriesRequest

LedgerInv == IdsHandedOut /\ NothingBeforeRow /\ OneBidPerClientId

CloseInv ==
    BidsInTime /\ CloseTimesExplained /\ CarriesFirstRead /\ CarriesSecondRead /\ CarriesVerdict

FeedInv == FeedFollowsLedger /\ CarriesCommitted

Inv == TypeInv /\ LedgerInv /\ CloseInv /\ FeedInv
=============================================================================
