-------------------------- MODULE SerialInvariant ---------------------------
(***************************************************************************)
(* The inductive invariants behind what a Go service keeps that handles one *)
(* call at a time (MaxInFlight = 1).  SerialInv needs no more than that:    *)
(* what a call has read is still true when it writes.  FeedToldInv is for a *)
(* service that meets no failure either, TaskInv for one whose tasks are    *)
(* never early in addition: outlines of every call, step by step, of how    *)
(* far the feed and the closure task have followed the database.            *)
(***************************************************************************)
EXTENDS AuctionInvariant

(* An idle call carries nothing, and no two calls are under way. *)
OneAtATime ==
    /\ \A p \in Procs : call[p].at = "idle" => call[p] = Idle
    /\ \A p, q \in InFlight : p = q

(* What a bid has found is still so: the row, that it is ACTIVE, that the   *)
(* bid improves, and what the rules said of this very ledger.               *)
StillTrue(p) ==
    /\ call[p].at \in {"best", "rank", "commit"} =>
          rfq.status = "ACTIVE" /\ call[p].row = rfq
    /\ call[p].at \in {"rank", "commit"} => Improves(call[p].req)
    /\ call[p].at = "commit" =>
          \E seen \in 0..now : call[p].newClose =
              CloseAfter(rfq.close, terms, call[p].req, Leaderboard(bids), seen)

(* A closing call closes an open RFQ, the worker at its own close time and  *)
(* its buyer at a time that was the present.                                *)
ClosesOpenRow(p) ==
    call[p].at = "save" =>
        /\ rfq.status = "ACTIVE" /\ call[p].row.status = "CLOSED"
        /\ IF p = Worker THEN call[p].row.close = rfq.close
                         ELSE call[p].row.close \in 0..now

(* There are no bids before there is an RFQ. *)
NothingBeforeRow == rfq.status = "NONE" => bids = {} /\ logs = {}

(* The logs lead up to the close time, in the order of their bids. *)
LogsAscend ==
    /\ \A l \in logs :
          /\ terms.close <= l.prev
          /\ \A k \in logs : k.bid < l.bid => k.new <= l.prev
    /\ rfq.status = "ACTIVE" =>
          /\ terms.close <= rfq.close
          /\ \A l \in logs : l.new <= rfq.close

SerialInv ==
    /\ Inv
    /\ OneAtATime
    /\ \A p \in Procs : StillTrue(p) /\ ClosesOpenRow(p)
    /\ NothingBeforeRow
    /\ LogsAscend
    /\ StrictImprovement

----------------------------------------------------------------------------
(* How far the feed has followed the database. *)

AllBidsTold == feed.placed = {x.id : x \in bids}

CloseTold == rfq.status = "ACTIVE" /\ logs # {} => feed.close = rfq.close

FeedAgrees ==
    AllBidsTold /\ CloseTold /\ (feed.closed <=> rfq.status = "CLOSED")

(* A bid is committed and not announced. *)
BidUntold(b) ==
    /\ rfq.status = "ACTIVE" /\ ~feed.closed
    /\ feed.placed \cup {call[b].id} = {x.id : x \in bids}
    /\ IF Extended(b) THEN rfq.close = call[b].newClose ELSE CloseTold

(* ... and then its extension. *)
ExtensionUntold(b) ==
    /\ rfq.status = "ACTIVE" /\ ~feed.closed
    /\ AllBidsTold
    /\ rfq.close = call[b].newClose

(* A closure is saved and not announced. *)
ClosureUntold == rfq.status = "CLOSED" /\ ~feed.closed /\ AllBidsTold

FeedOutline(p) ==
    /\ call[p].at = "placed"   => BidUntold(p)
    /\ call[p].at = "extended" => ExtensionUntold(p)
    /\ call[p].at \in {"cancel", "closed"} => ClosureUntold
    /\ call[p].at \notin {"idle", "placed", "extended", "cancel", "closed"} => FeedAgrees

FeedToldInv ==
    /\ NobodyInFlight => FeedAgrees
    /\ \A p \in Procs : FeedOutline(p)

----------------------------------------------------------------------------
(* How far the closure task has.  Only the worker's call has an active one. *)

(* The task of an ACTIVE RFQ is there and will not find it premature. *)
TaskWaits ==
    /\ task.state # "active"
    /\ rfq.status = "ACTIVE" =>
          /\ task.state = "scheduled"
          /\ rfq.close <= task.due \/ rfq.close <= now

(* A task to be replaced, and one that is not there yet. *)
TaskToCome(p) ==
    /\ p # Worker
    /\ rfq.status = "ACTIVE" /\ rfq.close <= now + call[p].delay
    /\ task.state # "active"
    /\ call[p].at = "enqueue" => task.state = "none"

TaskOutline(p) ==
    /\ call[p].at \in {"read", "best", "rank", "commit"} => TaskWaits
    /\ call[p].at = "placed" =>
          /\ rfq.status = "ACTIVE" /\ task.state = "scheduled"
          /\ IF Extended(p) THEN rfq.close = call[p].newClose ELSE TaskWaits
    /\ call[p].at = "extended" =>
          /\ rfq.status = "ACTIVE" /\ task.state = "scheduled"
          /\ rfq.close = call[p].newClose
    /\ call[p].at \in {"unschedule", "enqueue"} => TaskToCome(p)
    /\ call[p].at \in {"save", "cancel", "closed"} => p = Worker \/ task.state # "active"
    /\ call[p].at \in {"cancel", "closed"} => rfq.status = "CLOSED"
    /\ call[p].at = "find" => (rfq.status = "ACTIVE" => rfq.close <= now)
    /\ call[p].at = "finish" => rfq.status # "ACTIVE"

TaskInv ==
    /\ NobodyInFlight => TaskWaits
    /\ \A p \in Procs : TaskOutline(p)

(* What ClosurePending asks of the terms: RFQs are created before they      *)
(* close, and the clock of the model does not end before they do.           *)
TermsInTime ==
    \A t \in Terms : LatestCreate < t.close /\ t.close <= MaxTime /\ t.forced <= MaxTime
============================================================================
