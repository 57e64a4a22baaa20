----------------------------- MODULE NodeAuction ----------------------------
(***************************************************************************)
(* One British auction in the Node backend (backend-node-deprecated/src),   *)
(* from the creation of its RFQ to its closure, and the life of the process *)
(* that serves it:                                                          *)
(*   services/rfq.service.ts, bid.service.ts, auction.service.ts            *)
(*   controllers/bid.controller.ts, rfq.controller.ts                       *)
(*   scheduler/queue.ts, worker.ts            index.ts                      *)
(*                                                                          *)
(* Every call in flight is a process.  A step is one call to Postgres or    *)
(* Redis and the local code that follows it, its clock readings and its     *)
(* broadcasts included, up to the next such call; anything may happen       *)
(* between two steps.  createBid's transaction runs at READ COMMITTED: each *)
(* SELECT sees what is committed, the writes come last and commit together. *)
(* Unlike GORM's Save, prisma.update writes only the columns it is given.   *)
(*                                                                          *)
(* Redis commands are retried for ever (maxRetriesPerRequest null), so they *)
(* do not fail; a query may, and the process may die.                       *)
(***************************************************************************)
EXTENDS NodeExtensionRules, BullQueue

CONSTANTS Bidders,       \* bid requests that may be in flight together
          Closers,       \* early-close requests that may be in flight together
          Creator,       \* the request that creates the RFQ
          Worker,        \* the BullMQ worker running the closure job
          Terms,         \* the RFQs the buyer may ask for
          Requests,      \* the bids suppliers may send, and send again
          NoRequest,
          NoClientId,    \* the client id of a request that sends none
          MaxInFlight,   \* bound on calls in flight; 1 is a serial service
          MaxFaults,     \* bound on failed queries, crashes and starts without Redis
          MaxSignals,    \* bound on SIGTERM and SIGINT
          MaxWatching,   \* bound on open WebSocket connections
          LatestCreate   \* the latest tick at which the RFQ is created

Procs == Bidders \cup Closers \cup {Creator, Worker}

(* createRfqSchema. *)
ValidTerms == {t \in [start : Nat, close : Nat, forced : Nat,
                      window : Nat \ {0}, ext : Nat \ {0}, trigger : TriggerType] :
                  t.start < t.close /\ t.close < t.forced}

ASSUME NodeTermsAssumption == Terms \subseteq ValidTerms

ASSUME NodeProcsAssumption ==
    /\ Creator # Worker
    /\ Bidders \cap Closers = {}
    /\ {Creator, Worker} \cap (Bidders \cup Closers) = {}

ASSUME NodeBoundAssumption ==
    {MaxInFlight, MaxFaults, MaxSignals, MaxWatching, LatestCreate} \subseteq Nat

VARIABLES rfq,       \* the row: its status and close time
          terms,     \* its other columns, and the close time first asked for
          bids,      \* the table bids: committed rows
          logs,      \* the table extension_logs
          feed,      \* what the broadcast events tell a page that hears them all
          call,      \* the calls in flight
          server,    \* the process: "up", "draining", "closing" or "down"
          online,    \* it found Redis when it started: it has a queue and a worker
          watching,  \* WebSocket connections open to it
          signals, faults

vars == <<now, job, rfq, terms, bids, logs, feed, call,
          server, online, watching, signals, faults>>
database == <<rfq, bids, logs>>
process  == <<server, online, watching, signals>>

NoRow == [status |-> "NONE", close |-> 0]

(* What a call carries: the request and its timestamp, the close time of    *)
(* the first read, of the second, and the evaluated one; the delay of the   *)
(* closure job to add.                                                      *)
Idle == [at |-> "idle", req |-> NoRequest, stamp |-> 0, read |-> 0, seen |-> 0,
         new |-> 0, id |-> 0, delay |-> 0]

----------------------------------------------------------------------------
(* Control of a call. *)

At(p, step)   == call[p].at = step
Goto(p, step) == call' = [call EXCEPT ![p].at = step]
Return(p)     == call' = [call EXCEPT ![p] = Idle]
InFlight      == {p \in Procs : call[p] # Idle}
MayStart(p)   == call[p] = Idle /\ Cardinality(InFlight) < MaxInFlight

(* A request is accepted only while the server listens. *)
MayArrive(p)  == server = "up" /\ MayStart(p)

Fault == faults < MaxFaults /\ faults' = faults + 1

----------------------------------------------------------------------------
(* scheduleClosure: the delay, then remove, then add. *)

(* Mutant: a delay that has passed is not raised to 0. *)
SignedDelay(close) == close - now

DelayUntil(close) == IF close > now THEN close - now ELSE 0

NodeRemoves(p) ==
    /\ At(p, "remove")
    /\ RemoveJob
    /\ Goto(p, "add")
    /\ UNCHANGED <<now, terms, database, feed, process, faults>>

(* rfqService.create, its input checked by createRfqSchema. *)
NodeCreates ==
    /\ MayArrive(Creator)
    /\ rfq.status = "NONE"
    /\ now <= LatestCreate
    /\ rfq' = [status |-> "ACTIVE", close |-> terms.close]
    /\ IF online
       THEN call' = [call EXCEPT ![Creator] =
                        [Idle EXCEPT !.at = "remove", !.delay = DelayUntil(terms.close)]]
       ELSE UNCHANGED call
    /\ UNCHANGED <<now, job, terms, bids, logs, feed, process, faults>>

----------------------------------------------------------------------------
(* createBidController and createBid. *)

(* A client_bid_id is optional, and NULLs are never equal. *)
SameClientId(x, r) == r.client # NoClientId /\ x.client = r.client

(* The rooms hear of a bid, and always of the close time that was scheduled *)
(* with it, moved or not.                                                   *)
WithBid(f, id)      == [f EXCEPT !.placed = @ \cup {id}]
WithClose(f, close) == [f EXCEPT !.close = close]

(* The timestamp, and the lookup of the idempotency key: the bid it finds   *)
(* is answered and announced again, and nothing else happens.               *)
NodeBidArrives(b, r) ==
    LET known == {x \in bids : SameClientId(x, r)}
    IN  /\ MayArrive(b)
        /\ IF known = {}
           THEN /\ call' = [call EXCEPT ![b] =
                               [Idle EXCEPT !.at = "read", !.req = r, !.stamp = now]]
                /\ UNCHANGED feed
           ELSE /\ \E x \in known : feed' = WithBid(feed, x.id)
                /\ UNCHANGED call
        /\ UNCHANGED <<now, job, terms, database, process, faults>>

(* Mutant: the status of the RFQ is not checked. *)
NodeReadsAnyRfq(b) ==
    /\ At(b, "read")
    /\ call' = [call EXCEPT ![b].at = "best", ![b].read = rfq.close]
    /\ UNCHANGED <<now, job, terms, database, feed, process, faults>>

NodeReadsRfq(b) ==
    /\ At(b, "read")
    /\ IF rfq.status = "ACTIVE"
       THEN call' = [call EXCEPT ![b].at = "best", ![b].read = rfq.close]
       ELSE Return(b)
    /\ UNCHANGED <<now, job, terms, database, feed, process, faults>>

(* findFirst by price: strictly below everything the supplier has bid. *)
NodeImproves(r) ==
    \A x \in bids : x.supplier = r.supplier => r.price < x.price

NodeChecksBest(b) ==
    /\ At(b, "best")
    /\ IF NodeImproves(call[b].req) THEN Goto(b, "reread") ELSE Return(b)
    /\ UNCHANGED <<now, job, terms, database, feed, process, faults>>

(* evaluateExtension reads the row again, and judges by that copy and by    *)
(* the bid's own timestamp.                                                 *)
NodeRereads(b) ==
    /\ At(b, "reread")
    /\ IF InAuctionTime(rfq.close, terms, call[b].stamp)
       THEN call' = [call EXCEPT ![b].at = "rank", ![b].seen = rfq.close]
       ELSE Return(b)
    /\ UNCHANGED <<now, job, terms, database, feed, process, faults>>

(* The groupBy and the verdict. *)
NodeEvaluates(b) ==
    LET c == call[b]
    IN  /\ At(b, "rank")
        /\ \E close \in NodeCloses(c.seen, terms, c.req, bids, c.stamp) :
              call' = [call EXCEPT ![b].at = "commit", ![b].new = close]
        /\ UNCHANGED <<now, job, terms, database, feed, process, faults>>

Extended(b) == call[b].new > call[b].seen

(* result.close_time: the extension, or the close time of the first read.   *)
ResultClose(b) == IF Extended(b) THEN call[b].new ELSE call[b].read

NewId == Cardinality(bids) + 1

(* The row a request becomes. *)
BidRow(b, id) ==
    LET r == call[b].req
    IN  [id |-> id, supplier |-> r.supplier, price |-> r.price, client |-> r.client,
         at |-> call[b].stamp]

(* Mutant: the extension is not logged. *)
NodeLogsNothing(b) == {}

(* The log takes its previous close from the first read. *)
NodeLog(b) ==
    IF Extended(b)
    THEN {[bid |-> NewId, prev |-> call[b].read, new |-> call[b].new,
           mins |-> NodeMins(call[b].read, call[b].new)]}
    ELSE {}

(* Mutant: bids.client_bid_id has no unique index. *)
NodeNeverDuplicate(r) == FALSE

(* The unique index on bids.client_bid_id. *)
NodeDuplicate(r) == \E x \in bids : SameClientId(x, r)

(* Mutant: the row is written whole, from the copy that was read. *)
NodeUpdatesRow(b) == [status |-> "ACTIVE", close |-> ResultClose(b)]

(* prisma.rfq.update of close_time alone. *)
NodeUpdates(b) == IF Extended(b) THEN [rfq EXCEPT !.close = call[b].new] ELSE rfq

(* The writes and the commit.  The controller then reschedules the closure, *)
(* and announces the bid at once if there is no queue.                      *)
NodeCommits(b) ==
    /\ At(b, "commit")
    /\ ~NodeDuplicate(call[b].req)
    /\ rfq' = NodeUpdates(b)
    /\ bids' = bids \cup {BidRow(b, NewId)}
    /\ logs' = logs \cup NodeLog(b)
    /\ IF online
       THEN /\ call' = [call EXCEPT ![b].at = "remove", ![b].id = NewId,
                                    ![b].delay = DelayUntil(ResultClose(b))]
            /\ UNCHANGED feed
       ELSE /\ Return(b)
            /\ feed' = WithBid(WithClose(feed, ResultClose(b)), NewId)
    /\ UNCHANGED <<now, job, terms, process, faults>>

(* The unique index refuses the bid: everything is rolled back, 400. *)
NodeIsDuplicate(b) ==
    /\ At(b, "commit")
    /\ NodeDuplicate(call[b].req)
    /\ Return(b)
    /\ UNCHANGED <<now, job, terms, database, feed, process, faults>>

(* Mutant: the event carries the close time of the first read. *)
AnnouncedReadClose(b) == call[b].read

AnnouncedClose(b) == ResultClose(b)

(* The closure job is added; a bid's AUCTION_EXTENDED and BID_PLACED follow. *)
NodeAdds(p) ==
    /\ At(p, "add")
    /\ AddJob(call[p].delay)
    /\ feed' = IF p = Creator THEN feed
               ELSE WithBid(WithClose(feed, AnnouncedClose(p)), call[p].id)
    /\ Return(p)
    /\ UNCHANGED <<now, terms, database, process, faults>>

----------------------------------------------------------------------------
(* Closing the RFQ. *)

(* rfqService.earlyClose finds an ACTIVE row; any other call is refused. *)
NodeEarlyCloses(c) ==
    /\ MayArrive(c)
    /\ rfq.status = "ACTIVE"
    /\ call' = [call EXCEPT ![c] = [Idle EXCEPT !.at = "update", !.new = now]]
    /\ UNCHANGED <<now, job, terms, database, feed, process, faults>>

(* Its update of status and close_time, and AUCTION_CLOSED.  The closure    *)
(* job stays.                                                               *)
NodeClosesEarly(c) ==
    /\ At(c, "update")
    /\ rfq' = [status |-> "CLOSED", close |-> call[c].new]
    /\ feed' = [feed EXCEPT !.closed = TRUE]
    /\ Return(c)
    /\ UNCHANGED <<now, job, terms, bids, logs, process, faults>>

(* The worker takes the job: until shutdown has stopped it. *)
NodeWorkerTakes ==
    /\ server \in {"up", "draining"} /\ online
    /\ MayStart(Worker)
    /\ TakeJob
    /\ call' = [call EXCEPT ![Worker] = [Idle EXCEPT !.at = "find"]]
    /\ UNCHANGED <<now, terms, database, feed, process, faults>>

(* It is time when either deadline has come. *)
NodeDue == now >= rfq.close \/ now >= terms.forced

(* Nothing to do unless the RFQ is not closed and it is time. *)
NodeWorkerFinds ==
    /\ At(Worker, "find")
    /\ IF rfq.status = "CLOSED" \/ ~NodeDue
       THEN Goto(Worker, "finish") ELSE Goto(Worker, "close")
    /\ UNCHANGED <<now, job, terms, database, feed, process, faults>>

(* The update of the status alone, and AUCTION_CLOSED. *)
NodeWorkerCloses ==
    /\ At(Worker, "close")
    /\ rfq' = [rfq EXCEPT !.status = "CLOSED"]
    /\ feed' = [feed EXCEPT !.closed = TRUE]
    /\ Goto(Worker, "finish")
    /\ UNCHANGED <<now, job, terms, bids, logs, process, faults>>

NodeWorkerFinishes ==
    /\ At(Worker, "finish")
    /\ FinishJob
    /\ Return(Worker)
    /\ UNCHANGED <<now, terms, database, feed, process, faults>>

(* BullMQ's check for stalled jobs, run by every worker. *)
NodeUnstalls ==
    /\ server \in {"up", "draining"} /\ online
    /\ call[Worker] = Idle
    /\ Unstall
    /\ UNCHANGED <<now, terms, database, feed, call, process, faults>>

----------------------------------------------------------------------------
(* The process (index.ts). *)

NobodyServed == \A p \in Procs \ {Worker} : call[p] = Idle

(* The first signal closes the listening server; a second one finds it not  *)
(* listening and does not wait for it.                                      *)
NodeIsSignalled ==
    /\ server \in {"up", "draining"}
    /\ signals < MaxSignals
    /\ server' = IF server = "up" THEN "draining" ELSE "closing"
    /\ signals' = signals + 1
    /\ UNCHANGED <<now, job, terms, database, feed, call, online, watching, faults>>

(* httpServer.close calls back when no connection is left: no request, and  *)
(* no WebSocket either, which only io.close would end.                      *)
HttpIsClosed == NobodyServed /\ watching = 0

NodeDrains ==
    /\ server = "draining"
    /\ HttpIsClosed
    /\ server' = "closing"
    /\ UNCHANGED <<now, job, terms, database, feed, call, online, watching, signals, faults>>

(* io.close; worker.close waits for the job it runs; process.exit. *)
NodeExits ==
    /\ server = "closing"
    /\ call[Worker] = Idle
    /\ server' = "down"
    /\ watching' = 0
    /\ call' = [p \in Procs |-> Idle]
    /\ UNCHANGED <<now, job, terms, database, feed, online, signals, faults>>

(* bootstrap: the queue and the worker exist only if Redis answers within   *)
(* two seconds; the HTTP server starts regardless.                          *)
NodeStarts ==
    /\ server = "down"
    /\ server' = "up"
    /\ \/ online' = TRUE  /\ UNCHANGED faults
       \/ online' = FALSE /\ Fault
    /\ UNCHANGED <<now, job, terms, database, feed, call, watching, signals>>

NodeCrashes ==
    /\ server # "down"
    /\ Fault
    /\ server' = "down"
    /\ watching' = 0
    /\ call' = [p \in Procs |-> Idle]
    /\ UNCHANGED <<now, job, terms, database, feed, online, signals>>

(* A page connects its WebSocket, or is closed. *)
PageConnects ==
    /\ server = "up"
    /\ watching < MaxWatching
    /\ watching' = watching + 1
    /\ UNCHANGED <<now, job, terms, database, feed, call, server, online, signals, faults>>

PageLeaves ==
    /\ watching > 0
    /\ watching' = watching - 1
    /\ UNCHANGED <<now, job, terms, database, feed, call, server, online, signals, faults>>

(* A query fails: the request is answered with an error, a job has failed.  *)
NodeQueryFails(p) ==
    /\ call[p].at \in {"read", "best", "reread", "rank", "commit", "update", "find", "close"}
    /\ Fault
    /\ IF p = Worker THEN Goto(p, "finish") ELSE Return(p)
    /\ UNCHANGED <<now, job, terms, database, feed, process>>

Tick ==
    /\ now < MaxTime
    /\ now' = now + 1
    /\ UNCHANGED <<job, terms, database, feed, call, process, faults>>

----------------------------------------------------------------------------
Init ==
    /\ now = 0
    /\ job = NoJob
    /\ rfq = NoRow
    /\ terms \in Terms
    /\ bids = {}
    /\ logs = {}
    /\ feed = [placed |-> {}, close |-> 0, closed |-> FALSE]
    /\ call = [p \in Procs |-> Idle]
    /\ server = "up"
    /\ online = TRUE
    /\ watching = 0
    /\ signals = 0
    /\ faults = 0

BidStep(b) ==
    \/ NodeReadsRfq(b)
    \/ NodeChecksBest(b)
    \/ NodeRereads(b)
    \/ NodeEvaluates(b)
    \/ NodeCommits(b)
    \/ NodeIsDuplicate(b)

ScheduleStep(p) == NodeRemoves(p) \/ NodeAdds(p)

WorkerStep == NodeWorkerFinds \/ NodeWorkerCloses \/ NodeWorkerFinishes

Arrival ==
    \/ NodeCreates
    \/ \E b \in Bidders, r \in Requests : NodeBidArrives(b, r)
    \/ \E c \in Closers : NodeEarlyCloses(c)

Step ==
    \/ \E b \in Bidders : BidStep(b)
    \/ \E p \in Bidders \cup {Creator} : ScheduleStep(p)
    \/ \E c \in Closers : NodeClosesEarly(c)
    \/ WorkerStep
    \/ NodeWorkerTakes
    \/ NodeUnstalls

Lifecycle ==
    \/ NodeIsSignalled \/ NodeDrains \/ NodeExits \/ NodeStarts \/ NodeCrashes
    \/ PageConnects \/ PageLeaves

Next ==
    \/ Arrival
    \/ Step
    \/ Lifecycle
    \/ \E p \in Procs : NodeQueryFails(p)
    \/ Tick

(* A call under way is driven to its end, the clock advances, the worker    *)
(* polls for due and stalled jobs, shutdown goes on when it can and the     *)
(* process is started again.  The fairness of taking a job is strong        *)
(* because MaxInFlight can make the worker wait, where BullMQ never does.   *)
(* Nobody has to bid, to close, to signal, or to leave a page.              *)
Fairness ==
    /\ \A b \in Bidders : WF_vars(BidStep(b))
    /\ \A p \in Bidders \cup {Creator} : WF_vars(ScheduleStep(p))
    /\ \A c \in Closers : WF_vars(NodeClosesEarly(c))
    /\ WF_vars(WorkerStep)
    /\ SF_vars(NodeWorkerTakes)
    /\ WF_vars(NodeUnstalls)
    /\ WF_vars(NodeDrains)
    /\ WF_vars(NodeExits)
    /\ WF_vars(NodeStarts)
    /\ WF_vars(Tick)

Spec == Init /\ [][Next]_vars

FairSpec == Spec /\ Fairness

----------------------------------------------------------------------------
(* Types. *)

Calls == [at : {"idle", "read", "best", "reread", "rank", "commit", "remove", "add",
                "update", "find", "close", "finish"},
          req : Requests \cup {NoRequest}, stamp : Nat, read : Nat, seen : Nat,
          new : Nat, id : Nat, delay : Nat]

TypeOK ==
    /\ now \in 0..MaxTime
    /\ job \in Jobs
    /\ rfq \in [status : {"NONE", "ACTIVE", "CLOSED"}, close : Nat]
    /\ terms \in Terms
    /\ IsFiniteSet(bids)
    /\ \A x \in bids : /\ x.id \in Nat /\ x.at \in Nat
                       /\ \E r \in Requests :
                             x = [id |-> x.id, supplier |-> r.supplier, price |-> r.price,
                                  client |-> r.client, at |-> x.at]
    /\ logs \subseteq [bid : Nat, prev : Nat, new : Nat, mins : Int]
    /\ feed \in [placed : SUBSET Nat, close : Nat, closed : BOOLEAN]
    /\ call \in [Procs -> Calls]
    /\ server \in {"up", "draining", "closing", "down"}
    /\ online \in BOOLEAN
    /\ watching \in 0..MaxWatching
    /\ signals \in 0..MaxSignals
    /\ faults \in 0..MaxFaults
=============================================================================
