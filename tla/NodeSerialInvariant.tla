------------------------ MODULE NodeSerialInvariant -------------------------
(***************************************************************************)
(* The inductive invariants behind what a Node backend keeps that handles   *)
(* one call at a time (MaxInFlight = 1).  SerialInv needs no more than      *)
(* that.  FeedToldInv and JobInv are for a backend that meets no failure    *)
(* either and is told to stop at most once, ServerInv says what becomes of  *)
(* it then: outlines of every call, step by step, of how far the feed and   *)
(* the closure job have followed the database.                              *)
(***************************************************************************)
EXTENDS NodeInvariant

(* An idle call carries nothing, and no two calls are under way. *)
OneAtATime ==
    /\ \A p \in Procs : call[p].at = "idle" => call[p] = Idle
    /\ \A p, q \in InFlight : p = q

(* What a bid has found is still so: that the RFQ is ACTIVE, its close time *)
(* at both reads, that the bid improves, and the verdict on this ledger.    *)
StillTrue(p) ==
    /\ call[p].at \in {"read", "best", "reread", "rank", "commit"} => call[p].stamp <= now
    /\ call[p].at \in {"best", "reread", "rank", "commit"} =>
          rfq.status = "ACTIVE" /\ call[p].read = rfq.close
    /\ call[p].at \in {"reread", "rank", "commit"} => NodeImproves(call[p].req)
    /\ call[p].at \in {"rank", "commit"} => call[p].seen = rfq.close
    /\ call[p].at = "commit" =>
          call[p].new \in NodeCloses(rfq.close, terms, call[p].req, bids, call[p].stamp)

(* A closing call closes an open RFQ, its buyer at a time that was the      *)
(* present and the worker when it is due.                                   *)
ClosesOpenRow(p) ==
    /\ call[p].at = "update" => rfq.status = "ACTIVE" /\ call[p].new <= now
    /\ call[p].at = "close"  => rfq.status = "ACTIVE" /\ NodeDue

(* There is no closure job, nor a call about it, before there is an RFQ.    *)
NoJobBeforeRow ==
    rfq.status = "NONE" =>
        /\ job.state = "none"
        /\ call[Worker].at = "idle"
        /\ \A p \in Procs : call[p].at \in {"idle", "read"}

SerialInv ==
    /\ Inv
    /\ OneAtATime
    /\ \A p \in Procs : StillTrue(p) /\ ClosesOpenRow(p)
    /\ NoJobBeforeRow

----------------------------------------------------------------------------
(* A process that never fails and is told to stop once: it has its queue,   *)
(* and no request is under way when it exits.                               *)
ServerInv ==
    /\ online
    /\ server = "draining" => signals = MaxSignals
    /\ server \in {"closing", "down"} => NobodyServed

----------------------------------------------------------------------------
(* How far the feed has followed the database. *)

AllBidsTold == feed.placed = {x.id : x \in bids}

FeedAgrees ==
    /\ AllBidsTold
    /\ feed.closed <=> rfq.status = "CLOSED"
    /\ rfq.status = "ACTIVE" /\ bids # {} => feed.close = rfq.close

(* A bid is committed and not announced. *)
BidUntold(b) ==
    /\ rfq.status = "ACTIVE" /\ ~feed.closed
    /\ feed.placed \cup {call[b].id} = {x.id : x \in bids}
    /\ ResultClose(b) = rfq.close

FeedOutline(p) ==
    IF p \in Bidders /\ call[p].at \in {"remove", "add"} THEN BidUntold(p)
    ELSE call[p].at # "idle" => FeedAgrees

FeedToldInv ==
    /\ InFlight = {} => FeedAgrees
    /\ \A p \in Procs : FeedOutline(p)

----------------------------------------------------------------------------
(* How far the closure job has.  Only the worker's call has an active one.  *)

(* The job of an ACTIVE RFQ is there and will not find it premature. *)
JobWaits ==
    /\ job.state # "active"
    /\ rfq.status = "ACTIVE" =>
          /\ job.state = "delayed"
          /\ rfq.close <= job.due \/ rfq.close <= now

(* A job to be replaced, and one that is not there yet. *)
JobToCome(p) ==
    /\ rfq.status = "ACTIVE" /\ rfq.close <= now + call[p].delay
    /\ job.state # "active"
    /\ call[p].at = "add" => job.state = "none"

JobOutline(p) ==
    /\ call[p].at \in {"read", "best", "reread", "rank", "commit", "update"} => JobWaits
    /\ call[p].at \in {"remove", "add"} => JobToCome(p)
    /\ call[p].at \in {"find", "close", "finish"} => p = Worker
    /\ call[p].at = "find" => (rfq.status = "ACTIVE" => rfq.close <= now)
    /\ call[p].at = "finish" => rfq.status # "ACTIVE"

JobInv ==
    /\ InFlight = {} => JobWaits
    /\ \A p \in Procs : JobOutline(p)

(* The clock of the model does not end before an RFQ must close. *)
TermsInTime == \A t \in Terms : t.forced <= MaxTime
=============================================================================
