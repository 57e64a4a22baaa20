------------------------- MODULE AuctionProperties --------------------------
(***************************************************************************)
(* What the auction promises.  The first group holds however calls overlap  *)
(* and whatever fails; the second only of a service that handles one call   *)
(* at a time (MaxInFlight = 1) and whose closure task is never early; the   *)
(* README says what breaks it otherwise.                                    *)
(***************************************************************************)
EXTENDS Auction

----------------------------------------------------------------------------
(* However calls overlap.                                                   *)

(* The idempotency check is outside the transaction (bid_service.go:38-46), *)
(* so a retry can pass it while its first try is still in flight.  Even so  *)
(* a client_bid_id is never spent twice, and ids are never reused.          *)
OneBidPerClientId ==
    \A x, y \in bids :
        x.id = y.id \/ (x.client = y.client /\ x.client # NoClientId) => x = y

(* Every logged extension (bid_service.go:98-121) was triggered by a bid    *)
(* that is in the ledger, triggered no other, moved the close time forward, *)
(* stayed within the forced close, and started from a close time that the   *)
(* RFQ had: the first one, or one an earlier bid's extension gave it.       *)
ExtensionsExplained ==
    \A l \in logs :
        /\ \E x \in bids : x.id = l.bid
        /\ \A k \in logs : k.bid = l.bid => k = l
        /\ l.prev < l.new /\ l.new <= terms.forced
        /\ \/ l.prev = terms.close
           \/ \E k \in logs : k.new = l.prev /\ k.bid < l.bid

(* Full-row saves of stale copies (bid_service.go:100-103, handler.go:63,   *)
(* rfq_service.go:91) can bring an old close time back, but never invent    *)
(* one: while the RFQ is ACTIVE its close time is the one it was created    *)
(* with or the result of a logged extension.                                *)
CloseTimeExplained ==
    rfq.status = "ACTIVE" =>
        rfq.close = terms.close \/ \E l \in logs : l.new = rfq.close

(* Pages hear only of what is committed (bid_service.go:140-151): every     *)
(* BID_PLACED is about a bid in the ledger, the last AUCTION_EXTENDED about *)
(* a logged extension.                                                      *)
FeedFollowsLedger ==
    /\ feed.placed \subseteq {x.id : x \in bids}
    /\ feed.close # 0 => \E l \in logs : l.new = feed.close

(* The RFQ is closed, or a logged extension gave it its close time. *)
ClosedOrExtended ==
    \/ rfq.status = "CLOSED"
    \/ rfq.status = "ACTIVE" /\ \E l \in logs : l.new = rfq.close

(* A page told AUCTION_CLOSED (rfq_service.go:100, handler.go:69) can find  *)
(* the auction open again only through the extension that set its close     *)
(* time: no other save of a stale row writes ACTIVE back.                   *)
ClosedFeedUndoneOnlyByExtension == feed.closed => ClosedOrExtended

(* Nobody closes an auction ahead of its time (handler.go:52-60): the row   *)
(* that becomes CLOSED carries a close time that has come, or the forced    *)
(* close has.  A task that fires early, late or twice does not matter, nor  *)
(* how stale the copy is that is saved.                                     *)
NeverClosedEarly ==
    [][rfq.status # "CLOSED" /\ rfq'.status = "CLOSED" =>
        rfq'.close <= now \/ terms.forced <= now]_vars

----------------------------------------------------------------------------
(* One call at a time.                                                      *)

NobodyInFlight == InFlight = {}

(* Each bid of a supplier is below all the supplier's earlier ones          *)
(* (bid_service.go:81-87).                                                  *)
StrictImprovement ==
    \A x, y \in bids : x.supplier = y.supplier /\ x.id < y.id => y.price < x.price

(* A closed auction never opens again: the closure really is the last       *)
(* transition of the status (handler.go:62-63, rfq_service.go:87-91).       *)
ClosedStaysClosed == [][rfq.status = "CLOSED" => rfq'.status = "CLOSED"]_vars

(* Closing locks in the bids that are there (the buyer's Force Finalize     *)
(* promises it, rfq/[id]/page.tsx:221): no bid or log is added afterwards.  *)
ClosedLedgerFrozen == [][rfq.status = "CLOSED" => UNCHANGED <<bids, logs>>]_vars

(* Read in order of their bids, the logs lead from the first close time to  *)
(* the current one with no gap and no fork.                                 *)
AuditTrailComplete ==
    LET earlier(l) == {k.new : k \in {m \in logs : m.bid < l.bid}}
        all        == {l.new : l \in logs} \cup {terms.close}
    IN  /\ \A l \in logs : l.prev = Max({terms.close} \cup earlier(l))
        /\ rfq.status = "ACTIVE" => rfq.close = Max(all)

(* Between calls an ACTIVE auction has its closure task, due no earlier     *)
(* than its close time unless the clock has passed that time already, so    *)
(* that it is not premature when it fires.                                  *)
ClosurePending ==
    NobodyInFlight /\ rfq.status = "ACTIVE" =>
        /\ task.state = "scheduled"
        /\ rfq.close <= Max({task.due, now})

(* Between calls a page that heard every event agrees with the database.    *)
FeedIsCurrent ==
    NobodyInFlight =>
        /\ feed.placed = {x.id : x \in bids}
        /\ feed.closed <=> rfq.status = "CLOSED"
        /\ rfq.status = "ACTIVE" /\ logs # {} => feed.close = rfq.close

(* An auction that opens is closed in the end. *)
EventuallyClosed == rfq.status = "ACTIVE" ~> rfq.status = "CLOSED"

(* The rules of ExtensionRules on the ledger, one close time for each bid.  *)
GoCloses(close, t, bid, ledger, seen) ==
    {CloseAfter(close, t, bid, Leaderboard(ledger), seen)}

Promised == INSTANCE BritishAuction WITH
                status <- rfq.status, close <- rfq.close, ledger <- bids,
                CloseRule <- GoCloses

(* PlaceBid, EarlyClose and the closure task are then atomic: the service   *)
(* implements the auction of BritishAuction, whose bids are judged by the   *)
(* very state they change.                                                  *)
ImplementsBritishAuction == Promised!Spec

============================================================================
