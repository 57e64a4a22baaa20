------------------------------ MODULE Auction -------------------------------
(***************************************************************************)
(* One British auction in the Go backend, from CreateRfq to its closure:    *)
(*   BidService.PlaceBid           backend/internal/service/bid_service.go  *)
(*   RfqService.CreateRfq/EarlyClose            .../service/rfq_service.go  *)
(*   ClosureHandler.ProcessTask                   .../worker/handler.go     *)
(*   QueueService                                 .../worker/queue_impl.go  *)
(*                                                                          *)
(* Every call in flight is a process.  A step is one call to Postgres or    *)
(* Redis and the local code that follows it, its clock readings included,   *)
(* up to the next such call; anything may happen between two steps.         *)
(*                                                                          *)
(* PlaceBid's transaction runs at READ COMMITTED and takes no lock when it  *)
(* reads, so each SELECT is a step that sees what is committed.  Its writes *)
(* come last and are invisible until they commit, all at once; they wait    *)
(* for other writers (first the row of the RFQ, then the unique key) but    *)
(* never write anything but the values read before: one step, BidCommits.   *)
(*                                                                          *)
(* An RFQ row is written whole (GORM Save), from the copy its writer read.  *)
(* Only status and close_time ever differ between copies, so `rfq` and a    *)
(* call's `row` hold these two and `terms` holds the columns that stay.     *)
(***************************************************************************)
EXTENDS ExtensionRules, ClosureQueue

CONSTANTS Bidders,       \* bid requests that may be in flight together
          Closers,       \* early-close requests that may be in flight together
          Creator,       \* the request that creates the RFQ
          Worker,        \* the asynq worker running the closure task
          Terms,         \* the RFQs the buyer may ask for
          Requests,      \* the bids suppliers may send, and send again
          NoRequest,
          NoClientId,    \* the client id of a request that sends none
          MaxInFlight,   \* bound on calls in flight; 1 is a serial service
          MaxFaults,     \* bound on database, Redis and process failures
          LatestCreate   \* the latest tick at which the RFQ is created

Procs == Bidders \cup Closers \cup {Creator, Worker}

ASSUME TermsAssumption ==
    Terms \subseteq [close : Nat, forced : Nat, window : Nat, ext : Nat,
                     trigger : TriggerType]

ASSUME ProcsAssumption ==
    /\ Creator # Worker
    /\ Bidders \cap Closers = {}
    /\ {Creator, Worker} \cap (Bidders \cup Closers) = {}

ASSUME BoundAssumption == MaxInFlight \in Nat /\ MaxFaults \in Nat /\ LatestCreate \in Nat

VARIABLES rfq,      \* the row: its status and close time
          terms,    \* its other columns, and the close time first asked for
          bids,     \* the table bids: committed rows
          logs,     \* the table extension_logs
          feed,     \* what the published events tell a page that hears them all
          call,     \* the calls in flight
          faults    \* failures so far

vars == <<now, task, rfq, terms, bids, logs, feed, call, faults>>
database == <<rfq, bids, logs>>

NoRow == [status |-> "NONE", close |-> 0]

Idle == [at |-> "idle", row |-> NoRow, req |-> NoRequest, newClose |-> 0,
         id |-> 0, delay |-> 0]

----------------------------------------------------------------------------
(* Control of a call. *)

At(p, step)   == call[p].at = step
Goto(p, step) == call' = [call EXCEPT ![p].at = step]
Return(p)     == call' = [call EXCEPT ![p] = Idle]

InFlight  == {p \in Procs : call[p] # Idle}
MayStart(p) == call[p] = Idle /\ Cardinality(InFlight) < MaxInFlight

(* A failure the code meets: an error from Postgres or Redis, or a crash. *)
Fault == faults < MaxFaults /\ faults' = faults + 1

(* Hub.Publish: an error is logged and forgotten, the event is lost. *)
Publish(f) == \/ feed' = f    /\ UNCHANGED faults
              \/ feed' = feed /\ Fault

----------------------------------------------------------------------------
(* QueueService.ScheduleClosure: DeleteTask, then Enqueue.  Its callers     *)
(* drop the error, and it drops DeleteTask's: a call that fails in Redis    *)
(* goes on as one that worked.                                              *)

UnscheduleTask(p) ==
    /\ At(p, "unschedule")
    /\ \/ DeleteTask /\ UNCHANGED faults
       \/ UNCHANGED task /\ Fault
    /\ Goto(p, "enqueue")
    /\ UNCHANGED <<now, terms, database, feed>>

EnqueueTask(p) ==
    /\ At(p, "enqueue")
    /\ \/ Enqueue(call[p].delay) /\ UNCHANGED faults
       \/ UNCHANGED task /\ Fault
    /\ IF p = Worker THEN Goto(p, "finish") ELSE Return(p)
    /\ UNCHANGED <<now, terms, database, feed>>

(* Mutant: a closure already due is scheduled like any other. *)
AnyDelay(delay) == TRUE

(* The callers' `if delayMs > 0`. *)
WorthScheduling(delay) == delay > 0

----------------------------------------------------------------------------
(* RfqService.CreateRfq.  Neither it nor its handler compares the times     *)
(* with the clock or with each other.                                       *)

CreateRfq ==
    LET delay == terms.close - now
    IN  /\ MayStart(Creator)
        /\ rfq.status = "NONE"
        /\ now <= LatestCreate
        /\ rfq' = [status |-> "ACTIVE", close |-> terms.close]
        /\ IF WorthScheduling(delay)
           THEN call' = [call EXCEPT ![Creator] =
                            [Idle EXCEPT !.at = "unschedule", !.delay = delay]]
           ELSE UNCHANGED call
        /\ UNCHANGED <<now, task, terms, bids, logs, feed, faults>>

----------------------------------------------------------------------------
(* BidService.PlaceBid. *)

(* A client_bid_id is optional, and NULLs are never equal. *)
SameClientId(x, r) == r.client # NoClientId /\ x.client = r.client

(* FindByClientBidID, outside the transaction.  A request whose client id   *)
(* is already there is answered with that bid and changes nothing.          *)
BidArrives(b, r) ==
    /\ MayStart(b)
    /\ \A x \in bids : ~SameClientId(x, r)
    /\ call' = [call EXCEPT ![b] = [Idle EXCEPT !.at = "read", !.req = r]]
    /\ UNCHANGED <<now, task, terms, database, feed, faults>>

(* Mutant: the status of the RFQ is not checked. *)
AdmitsAnyStatus(row, r) ==
    row.status # "NONE" /\ now <= row.close /\ now <= terms.forced /\ r.price > 0

(* The row exists, is ACTIVE, and neither deadline has passed; the price,   *)
(* the sum of the three charges, is positive.                               *)
Admits(row, r) ==
    row.status = "ACTIVE" /\ now <= row.close /\ now <= terms.forced /\ r.price > 0

BidReadsRfq(b) ==
    /\ At(b, "read")
    /\ IF Admits(rfq, call[b].req)
       THEN call' = [call EXCEPT ![b].at = "best", ![b].row = rfq]
       ELSE Return(b)
    /\ UNCHANGED <<now, task, terms, database, feed, faults>>

(* Mutant: an equal price passes for an improvement. *)
ImprovesOrEquals(r) ==
    \A x \in bids : x.supplier = r.supplier => r.price <= x.price

(* FindPreviousBestTx: strictly below everything the supplier has bid. *)
Improves(r) ==
    \A x \in bids : x.supplier = r.supplier => r.price < x.price

BidChecksBest(b) ==
    /\ At(b, "best")
    /\ IF Improves(call[b].req) THEN Goto(b, "rank") ELSE Return(b)
    /\ UNCHANGED <<now, task, terms, database, feed, faults>>

(* GetLeaderboardTx and EvaluateExtension, which reads the clock again. *)
BidEvaluates(b) ==
    LET c == call[b]
    IN  /\ At(b, "rank")
        /\ call' = [call EXCEPT ![b].at = "commit", ![b].newClose =
                       CloseAfter(c.row.close, terms, c.req, Leaderboard(bids), now)]
        /\ UNCHANGED <<now, task, terms, database, feed, faults>>

Extended(b) == call[b].newClose > call[b].row.close

NewId == Cardinality(bids) + 1

(* The row a request becomes. *)
BidRow(r, id) == [id |-> id, supplier |-> r.supplier, price |-> r.price, client |-> r.client]

(* Mutant: the log starts from the close time first asked for. *)
LogFromFirstClose(b) ==
    IF Extended(b)
    THEN {[bid |-> NewId, prev |-> terms.close, new |-> call[b].newClose,
           mins |-> ExtendedMins(terms.close, call[b].newClose)]}
    ELSE {}

(* Mutant: the extension is not logged. *)
NoLog(b) == {}

ExtensionLog(b) ==
    IF Extended(b)
    THEN {[bid |-> NewId, prev |-> call[b].row.close, new |-> call[b].newClose,
           mins |-> ExtendedMins(call[b].row.close, call[b].newClose)]}
    ELSE {}

(* Mutant: bids.client_bid_id has no unique index. *)
NeverDuplicate(r) == FALSE

(* The unique index on bids.client_bid_id. *)
Duplicate(r) == \E x \in bids : SameClientId(x, r)

(* The writes and the commit: the RFQ row as it was read with the new close *)
(* time, if it is extended; the bid; the log.  A duplicate client id rolls  *)
(* everything back.                                                         *)
BidCommits(b) ==
    /\ At(b, "commit")
    /\ ~Duplicate(call[b].req)
    /\ rfq' = IF Extended(b)
              THEN [call[b].row EXCEPT !.close = call[b].newClose] ELSE rfq
    /\ bids' = bids \cup {BidRow(call[b].req, NewId)}
    /\ logs' = logs \cup ExtensionLog(b)
    /\ call' = [call EXCEPT ![b].at = "placed", ![b].id = NewId]
    /\ UNCHANGED <<now, task, terms, feed, faults>>

(* Mutant: the transaction's error is not looked at. *)
DuplicateIsAnnounced(b) ==
    /\ At(b, "commit")
    /\ Duplicate(call[b].req)
    /\ Goto(b, "placed")
    /\ UNCHANGED <<now, task, terms, database, feed, faults>>

(* ErrDuplicateKey: nothing is announced. *)
BidIsDuplicate(b) ==
    /\ At(b, "commit")
    /\ Duplicate(call[b].req)
    /\ Return(b)
    /\ UNCHANGED <<now, task, terms, database, feed, faults>>

(* BroadcastBidPlaced. *)
AnnounceBid(b) ==
    /\ At(b, "placed")
    /\ Publish([feed EXCEPT !.placed = @ \cup {call[b].id}])
    /\ IF Extended(b) THEN Goto(b, "extended") ELSE Return(b)
    /\ UNCHANGED <<now, task, terms, database>>

(* Mutant: the event repeats the agreed extension, whatever was granted. *)
AnnounceFullExtension(b) == call[b].row.close + terms.ext * Minute

AnnouncedClose(b) == call[b].newClose

(* BroadcastAuctionExtended, and the delay of the new closure task. *)
AnnounceExtension(b) ==
    LET delay == call[b].newClose - now
    IN  /\ At(b, "extended")
        /\ Publish([feed EXCEPT !.close = AnnouncedClose(b)])
        /\ IF WorthScheduling(delay)
           THEN call' = [call EXCEPT ![b].at = "unschedule", ![b].delay = delay]
           ELSE Return(b)
        /\ UNCHANGED <<now, task, terms, database>>

----------------------------------------------------------------------------
(* Closing the RFQ. *)

(* Mutant: the writer leaves the status alone. *)
StillActiveAt(close) == [status |-> "ACTIVE", close |-> close]

ClosedAt(close) == [status |-> "CLOSED", close |-> close]

(* RfqService.EarlyClose, called by the buyer of an ACTIVE RFQ; any other   *)
(* call is refused at once.                                                 *)
EarlyClose(c) ==
    /\ MayStart(c)
    /\ rfq.status = "ACTIVE"
    /\ call' = [call EXCEPT ![c] = [Idle EXCEPT !.at = "save", !.row = ClosedAt(now)]]
    /\ UNCHANGED <<now, task, terms, database, feed, faults>>

(* rfqRepo.Update, by EarlyClose and by the worker. *)
SaveClosed(p) ==
    /\ At(p, "save")
    /\ rfq' = call[p].row
    /\ Goto(p, IF p = Worker THEN "closed" ELSE "cancel")
    /\ UNCHANGED <<now, task, terms, bids, logs, feed, faults>>

(* CancelClosure; its error is dropped. *)
CancelClosure(c) ==
    /\ At(c, "cancel")
    /\ \/ DeleteTask /\ UNCHANGED faults
       \/ UNCHANGED task /\ Fault
    /\ Goto(c, "closed")
    /\ UNCHANGED <<now, terms, database, feed>>

(* BroadcastAuctionClosed. *)
AnnounceClosed(p) ==
    /\ At(p, "closed")
    /\ Publish([feed EXCEPT !.closed = TRUE])
    /\ IF p = Worker THEN Goto(p, "finish") ELSE Return(p)
    /\ UNCHANGED <<now, task, terms, database>>

----------------------------------------------------------------------------
(* ClosureHandler.ProcessTask. *)

WorkerFires ==
    /\ MayStart(Worker)
    /\ Fire
    /\ call' = [call EXCEPT ![Worker] = [Idle EXCEPT !.at = "find"]]
    /\ UNCHANGED <<now, terms, database, feed, faults>>

(* Mutant: the handler closes whenever it is called. *)
NeverPremature(row) == FALSE

Premature(row) == now < row.close /\ now < terms.forced

(* FindByID and the decision: nothing to close, too early, or close. *)
WorkerFinds ==
    /\ At(Worker, "find")
    /\ call' = [call EXCEPT ![Worker] =
           IF rfq.status # "ACTIVE" THEN [@ EXCEPT !.at = "finish"]
           ELSE IF Premature(rfq)
                THEN [@ EXCEPT !.at = "unschedule", !.delay = rfq.close - now]
                ELSE [@ EXCEPT !.at = "save", !.row = ClosedAt(rfq.close)]]
    /\ UNCHANGED <<now, task, terms, database, feed, faults>>

WorkerFinishes ==
    /\ At(Worker, "finish")
    /\ Complete
    /\ Return(Worker)
    /\ UNCHANGED <<now, terms, database, feed, faults>>

----------------------------------------------------------------------------
(* Failures and time. *)

DatabaseSteps == {"read", "best", "rank", "commit", "find", "save"}

(* A query fails: the transaction rolls back and the call ends with a 500,  *)
(* or the handler returns the error and its task will be retried.           *)
DatabaseFails(p) ==
    /\ call[p].at \in DatabaseSteps
    /\ Fault
    /\ Return(p)
    /\ IF p = Worker THEN Redeliver ELSE UNCHANGED task
    /\ UNCHANGED <<now, terms, database, feed>>

(* HTTP server and worker are one process (cmd/api/main.go): it takes every *)
(* call in flight down with it.                                             *)
Crash ==
    /\ InFlight # {}
    /\ Fault
    /\ call' = [p \in Procs |-> Idle]
    /\ Redeliver
    /\ UNCHANGED <<now, terms, database, feed>>

Tick ==
    /\ now < MaxTime
    /\ now' = now + 1
    /\ UNCHANGED <<task, terms, database, feed, call, faults>>

----------------------------------------------------------------------------
Init ==
    /\ now = 0
    /\ task = NoTask
    /\ rfq = NoRow
    /\ terms \in Terms
    /\ bids = {}
    /\ logs = {}
    /\ feed = [placed |-> {}, close |-> 0, closed |-> FALSE]
    /\ call = [p \in Procs |-> Idle]
    /\ faults = 0

BidStep(b) ==
    \/ BidReadsRfq(b) \/ BidChecksBest(b) \/ BidEvaluates(b)
    \/ BidCommits(b) \/ BidIsDuplicate(b)
    \/ AnnounceBid(b) \/ AnnounceExtension(b)

CloseStep(p) == SaveClosed(p) \/ AnnounceClosed(p)

ScheduleStep(p) == UnscheduleTask(p) \/ EnqueueTask(p)

Step ==
    \/ \E b \in Bidders : BidStep(b)
    \/ \E c \in Closers : CancelClosure(c)
    \/ \E p \in Closers \cup {Worker} : CloseStep(p)
    \/ \E p \in Bidders \cup {Creator, Worker} : ScheduleStep(p)
    \/ WorkerFinds
    \/ WorkerFinishes

Arrival ==
    \/ CreateRfq
    \/ \E b \in Bidders, r \in Requests : BidArrives(b, r)
    \/ \E c \in Closers : EarlyClose(c)

Failure == Crash \/ \E p \in Procs : DatabaseFails(p)

Next == Arrival \/ Step \/ WorkerFires \/ Failure \/ Tick

(* A call under way is driven to its end, the clock advances, and the       *)
(* server polls for due tasks for as long as it runs.  The last fairness is *)
(* strong because MaxInFlight can make the worker wait for its turn, again  *)
(* and again, where the code never does.  Nobody has to bid or to close.    *)
Fairness ==
    /\ \A b \in Bidders : WF_vars(BidStep(b))
    /\ \A c \in Closers : WF_vars(CancelClosure(c))
    /\ \A p \in Closers \cup {Worker} : WF_vars(CloseStep(p))
    /\ \A p \in Bidders \cup {Creator, Worker} : WF_vars(ScheduleStep(p))
    /\ WF_vars(WorkerFinds)
    /\ WF_vars(WorkerFinishes)
    /\ WF_vars(Tick)
    /\ SF_vars(WorkerFires)

Spec == Init /\ [][Next]_vars

FairSpec == Spec /\ Fairness

----------------------------------------------------------------------------
(* Types. *)

Status == {"NONE", "ACTIVE", "CLOSED"}

Rows == [status : Status, close : Nat]

Calls == [at : {"idle", "read", "best", "rank", "commit", "placed", "extended",
                "unschedule", "enqueue", "save", "cancel", "closed", "find", "finish"},
          row : Rows, req : Requests \cup {NoRequest}, newClose : Nat,
          id : Nat, delay : Nat]

TypeOK ==
    /\ now \in 0..MaxTime
    /\ task \in Tasks
    /\ rfq \in Rows
    /\ terms \in Terms
    /\ IsFiniteSet(bids)
    /\ \A x \in bids : x.id \in Nat /\ \E r \in Requests : x = BidRow(r, x.id)
    /\ logs \subseteq [bid : Nat, prev : Nat, new : Nat, mins : Nat]
    /\ feed \in [placed : SUBSET Nat, close : Nat, closed : BOOLEAN]
    /\ call \in [Procs -> Calls]
    /\ faults \in Nat
============================================================================
