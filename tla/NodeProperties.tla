--------------------------- MODULE NodeProperties ---------------------------
(***************************************************************************)
(* What the Node backend promises.  The first group holds however calls     *)
(* overlap, whatever fails and whenever the process stops; the second of a  *)
(* service that handles one call at a time and meets no failure.            *)
(***************************************************************************)
EXTENDS NodeAuction

----------------------------------------------------------------------------
(* However calls overlap.                                                   *)

(* A retry can pass the idempotency lookup (bid.service.ts:28-36) while its *)
(* first try is in flight: still no client_bid_id is spent twice.           *)
OneBidPerClientId ==
    \A x, y \in bids :
        x.id = y.id \/ (x.client = y.client /\ x.client # NoClientId) => x = y

(* Closing is final: a bid that read the ACTIVE row may still commit, and   *)
(* move the close time of the closed row, but never its status              *)
(* (bid.service.ts:71-76 writes one column, where GORM saves the row).      *)
ClosedIsFinal == [][rfq.status = "CLOSED" => rfq'.status = "CLOSED"]_vars

(* The close times an ACTIVE RFQ has had before the bid with this id. *)
CloseTimesBefore(id) == {terms.close} \cup {l.new : l \in {k \in logs : k.bid < id}}

(* While the RFQ is open, every bid is stamped between its start and a      *)
(* close time the RFQ had before that bid (auction.service.ts:24-26),       *)
(* however long the bid took to commit.                                     *)
BidsInTime ==
    rfq.status = "ACTIVE" =>
        \A x \in bids : /\ terms.start <= x.at
                        /\ \E close \in CloseTimesBefore(x.id) : x.at <= close

(* Every log has its own bid, starts from a close time the RFQ had before   *)
(* that bid and stays within the forced close; an open RFQ's close time is  *)
(* the first one or one that was logged (bid.service.ts:71-110).  The two   *)
(* reads of the row in one transaction may disagree; this survives it.      *)
CloseTimesExplained ==
    /\ \A l \in logs :
          /\ \E x \in bids : x.id = l.bid
          /\ \A k \in logs : k.bid = l.bid => k = l
          /\ l.prev \in CloseTimesBefore(l.bid)
          /\ l.new <= terms.forced
    /\ rfq.status = "ACTIVE" =>
          /\ rfq.close \in CloseTimesBefore(NewId)
          /\ rfq.close <= terms.forced

(* Pages hear only of committed bids, of close times the RFQ had, and of a  *)
(* closure that has happened (bid.controller.ts:31-38, worker.ts:28,        *)
(* rfq.controller.ts:42), whatever the order events are sent in.            *)
FeedFollowsLedger ==
    /\ feed.placed \subseteq {x.id : x \in bids}
    /\ feed.close # 0 => feed.close \in CloseTimesBefore(NewId)
    /\ feed.closed => rfq.status = "CLOSED"

----------------------------------------------------------------------------
(* One call at a time.                                                      *)

(* Between calls an ACTIVE RFQ has a closure job that is not premature when *)
(* it runs, across graceful restarts too.                                   *)
JobPending ==
    InFlight = {} /\ rfq.status = "ACTIVE" =>
        /\ job.state = "delayed"
        /\ rfq.close <= IF job.due > now THEN job.due ELSE now

(* Between calls a page that heard every event agrees with the database.    *)
FeedIsCurrent ==
    InFlight = {} =>
        /\ feed.placed = {x.id : x \in bids}
        /\ feed.closed <=> rfq.status = "CLOSED"
        /\ rfq.status = "ACTIVE" /\ bids # {} => feed.close = rfq.close

(* An auction that opens is closed in the end, also when the process is     *)
(* asked to stop in between, or its shutdown never ends.                    *)
EventuallyClosed == rfq.status = "ACTIVE" ~> rfq.status = "CLOSED"

(* A bid as the abstract auction knows it: without its timestamp. *)
Untimed(x) == [id |-> x.id, supplier |-> x.supplier, price |-> x.price, client |-> x.client]

Promised == INSTANCE BritishAuction WITH
                status <- rfq.status, close <- rfq.close,
                ledger <- {Untimed(x) : x \in bids}, CloseRule <- NodeCloses

(* createBid, earlyClose and the closure job are then atomic: the Node      *)
(* backend implements the same British auction as the Go one, with its own  *)
(* rules in the place of Go's.                                              *)
ImplementsBritishAuction == Promised!Spec

----------------------------------------------------------------------------
(* A process that was told to stop exits: index.ts:128-130 calls it the     *)
(* failsafe, "Forcing exit due to hanging cleanup tasks (10s timeout)".     *)
ShutdownEnds == server = "draining" ~> server = "down"
=============================================================================
