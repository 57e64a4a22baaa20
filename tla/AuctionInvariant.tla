-------------------------- MODULE AuctionInvariant --------------------------
(***************************************************************************)
(* The inductive invariant behind the properties that hold however calls    *)
(* overlap.  They are not inductive alone: what a call will write depends   *)
(* on what it has read, so each part below says what a call in flight       *)
(* carries, by the step it is at.                                           *)
(***************************************************************************)
EXTENDS AuctionProperties

(* The ids of the ledger are those its size has handed out. *)
IdsHandedOut == \A x \in bids : 1 <= x.id /\ x.id <= Cardinality(bids)

(* A bid on its way to the ledger is one a supplier asked for. *)
CarriesRequest ==
    \A p \in Procs : call[p].at \in {"read", "best", "rank", "commit"} =>
        call[p].req \in Requests

Explained(close) == close = terms.close \/ \E l \in logs : l.new = close

(* The copy of the row inside a transaction is of an ACTIVE RFQ, and its    *)
(* close time, however old, was the RFQ's.                                  *)
CarriesActiveRow ==
    \A p \in Procs : call[p].at \in {"best", "rank", "commit"} =>
        call[p].row.status = "ACTIVE" /\ Explained(call[p].row.close)

(* The close time about to be written is the copy's own or a granted        *)
(* extension of it.                                                         *)
CarriesGrant ==
    \A p \in Procs : call[p].at = "commit" =>
        \/ call[p].newClose = call[p].row.close
        \/ call[p].row.close < call[p].newClose /\ call[p].newClose <= terms.forced

(* What is about to be announced is committed. *)
CarriesCommitted ==
    \A p \in Procs :
        /\ call[p].at = "placed" => \E x \in bids : x.id = call[p].id
        /\ call[p].at \in {"placed", "extended"} /\ call[p].newClose > call[p].row.close =>
              \E l \in logs : l.new = call[p].newClose
        /\ call[p].at = "extended" => call[p].newClose > call[p].row.close

(* The closed row about to be saved is due, and stays so. *)
CarriesDueClosure ==
    \A p \in Procs : call[p].at = "save" =>
        /\ call[p].row.status = "CLOSED"
        /\ call[p].row.close <= now \/ terms.forced <= now

(* A closing call that has saved its row is undone only by an extension. *)
CarriesClosure ==
    \A p \in Procs : call[p].at \in {"cancel", "closed"} => ClosedOrExtended

TypeInv == TypeOK /\ CarriesRequest

LedgerInv == IdsHandedOut /\ OneBidPerClientId

LogInv == ExtensionsExplained /\ CloseTimeExplained /\ CarriesActiveRow /\ CarriesGrant

FeedInv == FeedFollowsLedger /\ CarriesCommitted

ClosureInv == ClosedFeedUndoneOnlyByExtension /\ CarriesClosure /\ CarriesDueClosure

Inv == TypeInv /\ LedgerInv /\ LogInv /\ FeedInv /\ ClosureInv
============================================================================
