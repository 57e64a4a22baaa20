# British auctions, specified

TLA+ specifications of the British-auction RFQ system in this repository, the TLC
runs that check them and the proofs TLAPS checks. Paths are relative to the
repository; `service/`, `worker/`, `repository/`, `domain/`, `websocket/` and `api/`
stand for `backend/internal/...`, `node/` for
`backend-node-deprecated/src/`, `src/` in a path of a page for `frontend/src/`.

A buyer opens an RFQ with a close time, a forced close time, a trigger window, an
extension and a rule. Suppliers bid prices downwards. A bid inside the trigger window
that satisfies the rule moves the close time, never past the forced close. A background
task closes the RFQ at its close time; the buyer may close it earlier.

## 1. Inventory

| component | state | operations | interacts with |
|---|---|---|---|
| **Extension rules** `service/auction_service.go`, `repository/bid_repository.go` | none | `EvaluateExtension`, `evaluateRankChange`, `GetLeaderboardTx` | called by the bid service |
| **Bid service** `service/bid_service.go` | tables `bids`, `extension_logs`, row `rfqs` | `PlaceBid` | Postgres (one transaction), hub, queue |
| **RFQ service** `service/rfq_service.go` | row `rfqs` | `CreateRfq`, `EarlyClose`, reads | Postgres, hub, queue |
| **Closure queue** `worker/queue_impl.go` | one asynq task per RFQ, in Redis | `ScheduleClosure`, `CancelClosure` | called by all the writers of the RFQ |
| **Closure worker** `worker/handler.go` | none of its own | `ProcessTask` | asynq calls it; Postgres, hub, queue |
| **WebSocket hub** `websocket/` | rooms, a send buffer per client | join, leave, broadcast, read and write pumps | Redis pub/sub between instances |
| **HTTP API** `api/` | none | routing, decoding, roles | the services |
| **Accounts** `service/auth_service.go`, `service/jwt.go`, `domain/user.go` | table `users` | register, login, Google login | API middleware |
| **Live pages** `frontend/src/app/*/rfq/[id]/page.tsx`, `lib/socket.ts` | query cache, socket, rooms, countdown | refetch, event handlers, submit, force finalize | API, sockets |
| **Browser session** `providers/auth-provider.tsx`, `lib/api-client.ts` | token and user in localStorage | login, logout, 401 event | API |
| **Deprecated Node backend** `backend-node-deprecated/src` | the same tables, BullMQ jobs, Socket.IO rooms | the same operations, in other orders | the frontend still uses its routes |

HTTP server, asynq worker and hub run in one process (`cmd/api/main.go`).

**What is hard.** In both backends a bid's transaction reads the RFQ, the supplier's best
bid and the leaderboard with plain SELECTs, decides, and writes; at Postgres' default READ
COMMITTED nothing stops other calls from committing in between. GORM's `Save` then writes
*every* column of the copy that was read, `prisma.update` only the ones it is given; the
Node backend reads the row twice. Events and queue calls come after the commit, one Redis
call at a time. Rescheduling is a delete and an add of a task with a fixed id, by four
different callers, one of which *is* that task. The Node process can start without a queue
and shuts down in stages that wait for each other. On the delivery side: full channels,
rooms, reconnects, listeners that pile up; in the browser: snapshots that arrive after newer
events, and answers that arrive after the session they belong to.

**What makes each part correct.** *Rules*: the leaderboard arithmetic decides exactly what
the three rules mean, ties included, within the forced close. *Bid services*: a client id
is spent once; a supplier's bids only go down; every extension is logged, triggered by a
bid in the ledger, and continues an earlier close time; calls act as if atomic. *RFQ
services and workers*: closed once and for all, never early, in the end always; a closed
ledger is frozen. *Queues*: an ACTIVE auction has its task, at its time. *Process*: told to
stop, it stops. *Hub*: what a browser gets has no gaps; a gone client leaves; nobody brings
the hub down by staying in one room. *Pages*: they may be behind but show history, and agree
with the server in the end. *Accounts*: one row per e-mail, whose role every token carries.
*Session*: a tab shows the session it sends, and does not stay expired.

As committed the Go backend does not compile (`service` uses its own `errors` package for
`errors.Is`, names `*APIError` unqualified). The models follow the evident meaning: the
mapped error to the client, any other a 500; none of it changes state.

## 2. Plan

| order | modules | model | proofs |
|---|---|---|---|
| 1 | `Ordering`, `ExtensionRules` (extends it), `NodeExtensionRules`, `RuleCheck` | the rules of both backends as operators, and a harness for them | `OrderingProofs`, `RuleProofs` |
| 2 | `ClosureQueue`, `BullQueue` | one closure task in asynq; one job in BullMQ | - |
| 3 | `Auction` (extends 1, 2), `AuctionProperties`, `AuctionInvariant`, `SerialInvariant` | one auction in the Go backend: its writers, failures, time | `AuctionProofs`, `SerialProofs` |
| 4 | `BritishAuction` | what either service promises, atomically | refinement in `SerialProofs`, `NodeProofs` |
| 5 | `NodeAuction` (extends 1, 2), `NodeProperties`, `NodeInvariant`, `NodeSerialInvariant` | the same auction in the Node backend, and its process | `NodeProofs` |
| 6 | `LiveView` (extends 4), `LiveProperties`, `LiveInvariant` | the live pages in front of the promised auction | `LiveProofs` |
| 7 | `Accounts`, `Session` (extends it), `SessionProperties`, `SessionInvariant` | accounts and tokens, and a browser tab in front of them | `SessionProofs` |
| 8 | `Hub`, `HubProperties` | rooms, channels and goroutines of the Go hub | `HubProofs` |

`MCRuleCheck`, `MCAuction`, `MCNode`, `MCLive`, `MCSession` and `MCHub` give the constants
values. All of this is done. Worth doing next: Redis between two hubs; what a serial Go service
still keeps when Redis fails; how far behind a page's parts may be from each other.

## 3. Modules

**`Ordering`** is ORDER BY, sort and filter written without recursion, so that they can be
proved about: what `InOrder` puts at place *i* is the element that *i* - 1 others precede.

**`ExtensionRules`** has no state. A leaderboard is the query's result: all rows at their
supplier's minimum, by price and then by timestamp. A row's timestamp is taken for the
same insert as its id, so `id` stands for both. Times are clock ticks, `Minute` ticks are a
minute; with more than one tick a minute the truncation of `ExtendedMins` shows.

**`NodeExtensionRules`** has what is different in `node/services/auction.service.ts`: the board
is a `groupBy` without an order, sorted by price alone, so there is a set of boards; a rank
is a place on it; a bid before the start or after the close time is refused.

**`RuleCheck`** grows a ledger of arbitrary bids and evaluates each; it does not ask bids to
improve, because concurrent ones may not. `RuleInv` says that what is asked about is a ledger.

**`ClosureQueue`** has the clock `now` and the task: `none`, `scheduled` (waiting until
`due`, also when pending or awaiting a retry) or `active`. asynq is external: what it does
with an id that exists, with deleting an active task, with a nil or non-nil result and with
a dead process is modelled as the calls in `queue_impl.go` meet it. `EarlyBy` is how early
a task may fire: asynq keeps process times in whole seconds and compares them with another
machine's clock. Not modelled: the retry limit and the archive (25 failures).

**`Auction`** is one RFQ and everything that can happen to it.

| variable | code |
|---|---|
| `rfq` | `status` and `close_time` of the row; `NoRow` before it exists |
| `terms` | the columns no code writes after creation, and the close time first asked for |
| `bids`, `logs` | the committed rows of `bids`, `extension_logs` |
| `feed` | what the published events tell a page that gets all of them |
| `call` | for each process the step it is at and its locals: `row` is the Go variable `rfq`, `newClose` the `ExtensionResult` (equal to `row.close` for nil) |
| `task`, `now` | from `ClosureQueue` |
| `faults` | failures so far |

| steps | code |
|---|---|
| `CreateRfq` | `CreateRfq`: insert and delay; then `UnscheduleTask`, `EnqueueTask` |
| `BidArrives` | idempotency check, `bid_service.go:38-46` |
| `BidReadsRfq` | SELECT of the row and the admission checks, `:54-75` |
| `BidChecksBest`, `BidEvaluates` | `:81-87`, `:90-95` |
| `BidCommits`, `BidIsDuplicate` | the writes and the commit, or the unique-key error, `:97-138` |
| `AnnounceBid`, `AnnounceExtension` | `:141`, `:144-151`; then `UnscheduleTask`, `EnqueueTask` |
| `EarlyClose`, `SaveClosed`, `CancelClosure`, `AnnounceClosed` | `rfq_service.go:70-103` |
| `WorkerFires`, `WorkerFinds`, `SaveClosed`, `AnnounceClosed`, `UnscheduleTask`, `EnqueueTask`, `WorkerFinishes` | `worker/handler.go:30-73` and asynq around it |
| `DatabaseFails`, `Crash` | any query's error path; the process dies |

A step is one call to Postgres or Redis with the local code after it. Three reductions:

* A SELECT and the clock reading right after it are one step. `time.Now` could only be
  later than in the model, which is the same as the SELECT being earlier: nothing that
  happened in between is seen by either.
* The writes of a transaction and its commit are one step. Nothing reads them before the
  commit, and what is written depends only on what was read. Two extending transactions
  wait for each other on the RFQ row, which they take before the unique key; one that does
  not extend takes only the unique key and a foreign-key lock on the row that conflicts
  with no update of it. So waiting cannot become a deadlock, and the waiter writes its old
  values afterwards, as the model's later `BidCommits` does. The row lock also makes the ids of extending
  bids follow the order of their commits. A bid that does not extend may in fact get a
  smaller id than one that commits before it; no property orders those.
* There is one RFQ. Calls for different RFQs share nothing but `client_bid_id`, which is
  unique across all of them.

Responses to clients are not modelled, nor the columns that no decision reads. A bid row
of the model has the price the three charges add up to. The buyer's identity check of
`EarlyClose` is a call that never starts. `start_time` is read by no code of this backend.

**`BritishAuction`** is the same auction with atomic operations: `Accept` adds a bid that is
below all its supplier's earlier ones and moves the close time by the rules *on the ledger
and close time it changes*; closing is final; the RFQ is closed on time or by its buyer. Its
operator constant `CloseRule` gives the close times a bid may leave: `GoCloses` and
`NodeCloses` where the backends are shown to implement it, `MayExtend` and `AlwaysExtends`
in front of the pages, which do not care when an auction is extended.

**`AuctionProperties`** states the properties, **`AuctionInvariant`** the inductive invariant
that holds however calls overlap, **`SerialInvariant`** those that one call at a time adds.

**`BullQueue`** is the closure job: `none`, `delayed`, `active`, `finished`. `queue.add` does
nothing when the id exists, in any state; `queue.remove` leaves a job whose lock is held; a
job whose worker died is given out once more. BullMQ is external, modelled from its use in
`node/scheduler/`.

**`NodeAuction`** follows `Auction`, step by step of the other code:

| steps | code |
|---|---|
| `NodeCreates` | `rfq.service.ts:9-26` |
| `NodeBidArrives` | the timestamp and the idempotency lookup, `bid.service.ts:21-36` |
| `NodeReadsRfq`, `NodeChecksBest` | `bid.service.ts:37-58` |
| `NodeRereads`, `NodeEvaluates` | `evaluateExtension`, `auction.service.ts:13-105` |
| `NodeCommits`, `NodeIsDuplicate` | the writes and the commit, or the unique index, `bid.service.ts:71-113` |
| `NodeRemoves`, `NodeAdds` | `scheduleClosure`, then the events of `bid.controller.ts:31-40` |
| `NodeEarlyCloses`, `NodeClosesEarly` | `rfq.service.ts:81-91` |
| `NodeWorkerTakes` ... `NodeWorkerFinishes`, `NodeUnstalls` | `scheduler/worker.ts`, and BullMQ around it |
| `NodeIsSignalled`, `NodeDrains`, `NodeExits`, `NodeStarts`, `NodeCrashes`, `PageConnects`, `PageLeaves` | `index.ts` |
| `NodeQueryFails` | any query's error path |

`server` is the process: listening, draining its connections, closing its worker, or down;
`online` whether it found Redis within two seconds of its start. Redis commands are retried
for ever (`maxRetriesPerRequest: null`), so they do not fail. The reductions of `Auction`
hold here too. **`NodeInvariant`** and **`NodeSerialInvariant`** are to it what
`AuctionInvariant` and `SerialInvariant` are to `Auction`.

**`LiveView`** is one visit after another of one RFQ's page, the supplier's or the buyer's,
in front of `BritishAuction`. `cache` is the query's data, `query` its fetch (the server
reads the row, and then the rest), `sockets` every socket the singleton ever made, each with
its room and the visits whose listeners have piled up on it, `outbox` the events under way. An event comes to all the page's
sockets in the room in one step, or is lost; events come in any order. A submission and its answer are
one step, because the page only waits. `protocol` is what the server understands: the Go hub
`join_rfq` and `leave_rfq`; the Node backend neither, since it listens for `join-rfq`
(`node/lib/socket.ts`). `trail` runs oldest first, the page lists it newest first. The page speaks
Socket.IO and the Go hub plain WebSockets (`socket.ts:14`, `hub_impl.go`): as deployed no event
of the Go hub arrives, which is the model with an empty `protocol`. **`LiveInvariant`** says
what is history, and that all that is under way or shown is.

**`Accounts`** is table `users` behind the API, with register, login and Google login in the
steps their queries are, `backend` choosing where the two differ; other people's requests come in
between. Tokens carry an id and a role and are believed until they expire. **`Session`** is
a tab in front of it: `storage` is localStorage, `tab` what the tab shows, `requests` what it
has under way: a form, the Google button, a query, a command. Writing both items
of localStorage is one step, as JavaScript makes it. A bound: no command is sent while a
login is under way.

**`Hub`** is one instance of the Go hub: `run`, serving joins, leaves and Redis messages one
at a time; each client a reader, a writer and a channel. A broadcast to a room is one step,
as `run` makes it. `due` is a history variable: what the hub had for a client's rooms while it was
in them. A client asks to leave only rooms it joined, as the pages do.

## 4. Runs

All runs may stop: when an auction is closed and nobody calls, nothing is left to do but
let time pass up to `MaxTime`, so no run checks deadlock.

| run | bounds | what it shows |
|---|---|---|
| `rules` | 3 suppliers, prices 1-3, up to 4 bids, 2 ticks a minute | both backends' rules mean what they say on every ledger, agree on prices, and the logged minutes match the move |
| `serial` | Go; 1 call at a time, no faults, tasks never early; 4 requests (two suppliers, an equal price, one without client id), 3 rules, 2 ticks a minute, close 3, forced 6, clock to 7, RFQ created at 0-2 | the service implements `BritishAuction`, closes every auction, freezes closed ledgers, and keeps logs, task and feed in agreement |
| `race` | Go; 2 calls at once of 2 bidders, 1 closer, creator, worker; 1 failure or crash anywhere; tasks up to 1 tick early; 3 requests, one without client id; room for two extensions | what holds without row locks and under failure |
| `node_serial` | Node; 1 call at a time, 1 signal, 1 page, restarts; a tie between suppliers, 3 rules, 2 ticks a minute, a late start | the Node service implements the same `BritishAuction`, keeps a job that is not premature, and closes every auction across graceful restarts |
| `node_race` | Node; 2 calls at once, 2 failures, crashes or starts without Redis | what holds there |
| `live` | 2 bids, 1 extension, 2 sockets, 2 visits, 1 fault, both roles, servers with and without leave | a page shows history, each bid once, the right rank, and is subscribed once |
| `live_heals` | 2 bids, extending or not, 1 visit, 1 fault, also a server that understands no room message | a page that stays agrees with the server in the end |
| `session` | 1 e-mail, 1 password, both roles, both backends, a token good for 1 tick, clock to 1; other people and other tabs | sessions are the accounts'; a tab shows what it sends; nobody stays expired |
| `hub` | 2 clients, 2 rooms, a channel for 1 message, 3 messages, 2 joins | gapless delivery; who can bring the hub down; gone clients leave |
| `reopened`, `premature_fire`, `node_shutdown_hangs` | the smallest instance with the behaviour | section 6 |

*Why the bounds are enough.* *Auctions.* Two bids are what it takes to race each other, or one
and the closer, the creator's scheduling or the worker; a step of a call only depends on the
database, the task and its own locals, so more calls repeat pairwise conflicts. Two
extensions are needed to see a chain of logs, and a capped one after a whole one (`serial`,
`node_serial`). The clock reaches the forced close in every run, so that every task fires.
Ids, client ids and prices are compared only for order and equality; three of each
distinguish first, better and rival. The theorems of section 5 remove these bounds for all
but liveness, except that what `serial` and `node_serial` check is about one call at a time. *Pages.* Two visits are needed for piled-up listeners, two
sockets for a join and a leave that go to different ones, and one fault for a lost event, a
lost response or a lost connection, each of which the refetch repairs by itself; two bids
for a rank, and an extension for a close time that moves. *Session.* One e-mail is where
accounts can collide; one tick separates a token's life from its death. Two
e-mails multiply states without a step that relates them, and the theorems remove the
bound. *Hub.* The real channel holds 256 messages; with one the full channel, the drop and
what was queued before it all happen. Two joins by one client, or one by each, are the cases
`CrashNeedsTwoJoins` tells apart.

`serial` and `node_serial` have to be serial: their properties are the ones that overlapping
calls break (section 6). Inside that restriction calls still meet time, the worker, and in
Node the life of the process in every order.

*Fairness.*
* `FairSpec` of both auctions: calls that have started go on to their end (goroutines and promises
  are scheduled, queries return), the clock advances, the worker polls as long as the
  process runs; in Node shutdown goes on when it can, and the process is started again.
  Taking a task is strongly fair because `MaxInFlight`, a bound of the model, can close the worker's
  turn again and again; in the code it waits for nobody. Nobody has to create, bid, close,
  signal or leave a page, and failures have none.
* `FairLiveSpec`: an event arrives or is lost; a page that is there goes on fetching, which
  `refetchInterval` justifies. A connection need not come back.
* `FairSessionSpec`: a page that is looked at fetches again and again; the server answers a
  query if it is asked often enough and not every answer is a failure. That is more
  than one fetch can count on, and less than a healthy server gives; the Node rate limiter
  (100 requests in 15 minutes) refuses some, but its window ends.
* `HubSpec`: every goroutine that can run does. The select of `run` chooses at random among ready
  channels, which is why a waiting leave is taken.

## 5. Proofs

Every invariant and action property that a run checks, and both refinements, are theorems of
these modules. Each component has an inductive invariant that implies the properties, TLC
found it to hold on the module's instance, and one lemma per part of it shows that every step
keeps it.

### The Go auction

`AuctionProofs` proves, for every set of bidders and closers, any requests and terms and
any bounds on time, overlap and failures:

| theorem | says |
|---|---|
| `TypeCorrect` | `Spec => []TypeOK` |
| `Invariance` | `Spec => []Inv` |
| `IdempotentBids` | `OneBidPerClientId` |
| `ExtensionsAreExplained` | `ExtensionsExplained` |
| `CloseTimeIsExplained` | `CloseTimeExplained` |
| `FeedIsFaithful` | `FeedFollowsLedger` |
| `ClosedFeedIsUndoneOnlyByExtension` | `ClosedFeedUndoneOnlyByExtension` |
| `NoEarlyClosure` | `NeverClosedEarly`, an action property |

*Assumptions*: a minute is at least one tick; the clock bound and the tolerance are natural
numbers; terms are records of naturals with one of the three rules; creator, worker,
bidders and closers are different processes; the bounds are naturals.

*Argument.* None of the properties is inductive alone, because what a call writes was
decided when it read. `Inv` says what a call in flight carries at each step: a copy inside
a transaction is of an ACTIVE row with an explained close time (`CarriesActiveRow`); the
close time to be written is the copy's or an extension of it within the forced close
(`CarriesGrant`); what is to be announced is committed (`CarriesCommitted`); a closed row
about to be saved is due, and time only adds to that (`CarriesDueClosure`); a saved closure
is undone only by an extension (`CarriesClosure`). `CallMoves` and `Writers` say once for
all which steps move a call and which write the database; each part of `Inv` then has a
lemma that looks only at the steps that touch it. `NoEarlyClosure` follows from
`CarriesDueClosure` and the fact that a bid's Save writes ACTIVE.

### The Node auction

`NodeProofs`, for every set of bidders and closers, any requests and terms, any bounds on
overlap, failures, signals and pages:

| theorem | says |
|---|---|
| `NodeTypeCorrect`, `NodeInvariance` | `[]TypeOK`, `[]Inv` |
| `NodeOneBidPerClientId` | `OneBidPerClientId` |
| `NodeBidsInTime` | `BidsInTime` |
| `NodeCloseTimesExplained` | `CloseTimesExplained` |
| `NodeFeedFollowsLedger` | `FeedFollowsLedger` |
| `NodeClosedIsFinal` | `ClosedIsFinal`, an action property; the Go backend violates its counterpart |

*Assumptions*: as above, and terms are what `createRfqSchema` accepts: they start before they
close and close before the forced close.

*Argument.* A bid reads the row twice and writes by both. The invariant says what each
read is worth: the first was of an ACTIVE row and its close time stays explained
(`CarriesFirstRead`); the second does not look at the status, but admitted the bid's stamp,
and while the RFQ is open what it saw is explained too (`CarriesSecondRead`); the verdict
leaves that or extends it within the forced close (`CarriesVerdict`, from
`NodeClosesBounds`). `NothingBeforeRow` keeps bids away from a row that is yet to be made.
An open row was open before (`OpenWasOpen`), because no step but creation writes ACTIVE.

### One call at a time

What overlapping calls break (section 6) holds of services that handle one call at a time,
`MaxInFlight = 1`, which both proofs take as a hypothesis. Everything else stays as free
as above: bidders, requests, terms, time and, where the table says so, failures and crashes
between any two steps of a call.

| Go, `SerialProofs` | Node, `NodeProofs` | says | also assumes |
|---|---|---|---|
| `SerialInvariance` | `NodeSerialInvariance` | `[]SerialInv` | - |
| `SerialImplementsBritishAuction` | `NodeImplementsBritishAuction` | `ImplementsBritishAuction` | - |
| `SerialBidsImprove`, `SerialAuditTrail` | - | `StrictImprovement`, `AuditTrailComplete` | - |
| `SerialClosedStaysClosed`, `SerialClosedLedgerFrozen` | (`NodeClosedIsFinal`, without the hypothesis) | `ClosedStaysClosed`, `ClosedLedgerFrozen` | - |
| `SerialFeedIsCurrent` | `NodeFeedIsCurrent` | `FeedIsCurrent` | no failures; Node: at most one signal |
| `SerialClosurePending` | `NodeJobPending` | `ClosurePending`, `JobPending` | the same, `TermsInTime`; Go: no task fires early |

*The extra assumptions* are what the properties are about: a failed publish leaves the feed
behind, a failed Redis command or a task that fires early leaves no task (`premature_fire`), a
second signal lets the Node process exit over the requests it is still serving. `TermsInTime` says that the clock of the model does
not end before the RFQ closes and, for Go, that the RFQ is saved before its close time, which
the service does not check (section 6).

*Argument.* `SerialInv` says that what a call has read is still true when it writes: the
row is still the copy (in Node, both copies), the bid still improves, the verdict is the
rules' verdict on this very ledger (`StillTrue`); a closing call closes an open row
(`ClosesOpenRow`). It is inductive because with one call under way nothing but the clock
moves in between, and the verdict quantifies over when the clock was read. The refinement then
is one step per writer: creation is `Open`, the commit of a bid `Accept`, the saved closure
`Finalize` or `ForceFinalize`, time `Tick`; every other step changes nothing that
`BritishAuction` shows (`Moves`, `Writers`). Both backends implement the same auction with
their own rules, `GoCloses` and `NodeCloses`. For the feed and the closure task the invariants are
outlines: for each step a call can be at, how far the events (`FeedOutline`) and the task
(`TaskOutline`, `JobOutline`) have followed the database; Node's rest on `ServerInv`, that a
process told to stop once keeps its queue and exits with nothing under way.

### The rules

`RuleProofs`, for every ledger of any length with any prices, ties and bids that do not
improve, any terms and any length of a minute:

| theorem | says |
|---|---|
| `L1RuleIsRight` | `L1RuleFollowsMarketBest` |
| `RankRuleIsRight` | `RankRuleIsOvertaking` |
| `NodeRankRuleIsRight` | `NodeRankRuleIsOvertaking` |
| `BackendsAgree` | `BackendsAgreeOnPrice` |
| `LoggedMinutesAreRight` | `LoggedMinutesMatchTheMove` |

*Assumption*: prices are natural numbers (`RuleCheckAssumption`). *Argument.* Nothing is proved by
induction over a list. In a finite ordered set the number of elements before one of them
is an injection into 0 .. n-1 and so takes every value (`OrderingProofs`, `Places`); that gives
`InOrder` its elements, its order and its length (`ListsInOrder`, `PlacesInOrder`). The two
boards of RANK_CHANGE share their order off the bidder's rows, and the
bidder's place moves past exactly the rivals the bid undercuts (`RanksByUndercutting`,
`NodeRanksByUndercutting`).

### The live pages

`LiveProofs`, for any requests, terms and rules that do not bring the close time forward,
any number of visits, sockets and faults, both roles and any server:

| theorem | says |
|---|---|
| `LiveInvariance` | `[]LiveInv` |
| `PagesWatchTheAuction` | `LiveSpec => Spec` of `BritishAuction` |
| `PageShowsHistory` | `ViewIsHistory` |
| `BidsShownOnce` | `SupplierSeesBidOnce` |
| `ShownRankIsRight` | `RankIsRight` |
| `OneSocketInRoom` | `OneSubscription` |

*Assumptions*: prices and close times are natural numbers (`LiveAssumption`); where bids are
involved, `RuleExtends`, that an accepted bid leaves the close time or moves it forward. It
holds of both backends' rules: `GoRuleExtends` in `AuctionProofs`, `NodeRuleExtends` in
`NodeProofs`.

*Argument.* History only grows (`HistoriesStay`, `NewsStay`), so what is under way or cached
stays part of it; an event and an answer make history of history (`HandledIsHistory`,
`AnsweredIsHistory`). That any number of listeners does follows from the least number that
would not. The rooms follow the page because a page's messages go to its last socket, and a
new one is made only when that has lost its room. `RankIsRight` needs no
invariant but that prices are numbers: the board has one row for each supplier at its
lowest price, in order (`BoardIs`), and suppliers ahead of the page's are counted by the
places before it (`BoardRanks`, with `AtMost` and `AtLeast`).

### The hub

`HubProofs`, for every set of clients and rooms, any capacity and any bounds:
`GaplessDelivery` (`DeliveryHasNoGaps`) and `CrashesNeedTwoJoins` (`CrashNeedsTwoJoins`).
*Argument.* `InOrder` says that what a browser got, followed by what its writer and channel still
hold, is exactly what was due as long as the client has not been dropped, and a prefix of it
after; `JoinsCount` that a client is on record for, in, or asking for no more rooms than it joined.

### Sessions

`SessionProofs`, for any e-mails and passwords, either backend, any number of accounts and
any token life: `SessionsBelongToAccounts` (`SessionsAreTheAccounts`) and
`TabShowsWhatItSends` (`ShownIsSent`). *Assumption*: null is neither a token nor a user
(`NoneAssumption`). *Argument.* An account keeps its id, e-mail and role whatever is registered or
taken over (`AccountsStay`), so what belongs to one goes on belonging (`BelongingStays`); a
grant is to a row of that moment (`GrantsBelong`), and the storage, what is shown and a
command's token all come from grants (`SessionsBelong`, `CommandsBelong`). `RequestMoves` and
`ScreenMoves` say once which steps move a request, the storage or the page.

### Only model-checked

Liveness: `EventuallyClosed` of both serial services, `EventuallyCurrent`,
`NobodyStaysExpired` and `GoneClientsLeave`. They rest on fairness, and ENABLED is outside the
prover. What the three runs of section 6 show are counterexamples, which need no proof.

## 6. Where code and documentation differ

Each has a run whose counterexample is the scenario.

* **A closed auction opens again** (`reopened`). `README.md:13`; a Go bid saves the ACTIVE row
  it read over the CLOSED one. The Node backend does not (`NodeClosedIsFinal`).
* **A task that fires early never closes the auction** (`premature_fire`).
  `backend/ARCHITECTURE.md:105` says it reschedules itself; `handler.go:58` enqueues an id
  that the running task still holds. The same happens without any clock drift when an
  extension commits just before its auction's task fires.
* **The shutdown failsafe is no failsafe** (`node_shutdown_hangs`). `node/index.ts:128-130` forces
  the exit "due to hanging cleanup tasks (10s timeout)", but the timer is only started after
  `httpServer.close` has waited for every WebSocket (`index.ts:93-100`).

Met while modelling, without a run of their own:

* *Go*: two overlapping bids of one supplier can leave the later one higher; two
  extensions can count as one; two reschedulings can interleave so that the later task is
  refused (`queue_impl.go:47-54`); an RFQ saved after its close time gets no task
  (`rfq_service.go:44`); Force Finalize can raise the close time past the forced close
  (`rfq_service.go:89`); a client that joined two rooms and was dropped makes the hub send
  on a closed channel (`CrashNeedsTwoJoins` is the most that holds).
* *Node*: a job taken just while an extending bid commits is neither removed nor replaced, and
  that auction is not closed by the queue.
* *Pages*: the buyer's page tells that finalizing "will lock in the current lowest bid"
  (`buyer/rfq/[id]/page.tsx:221`), while a bid in flight is still committed afterwards; a
  bid can show twice to the buyer until the next refetch; the countdown does not come back
  from zero when an extension arrives late; quick-bid rounding can propose the price to beat.
* *Session*: two tabs show and send different sessions; the 401 of an old request, or of a
  mistyped password, ends a session that was begun in between; the form and the Google
  button can both be under way; the pages themselves do not look whether anyone is signed in.

## 7. Not modelled

Responses beyond status, routing, decoding, validation messages, CORS, configuration,
database bootstrap, logging, search, filters and layout keep no state over time and are left
out. So are asynq's retry limit and archive, BullMQ's event stream, Postgres below READ
COMMITTED's visibility rule, clocks that go backwards, Redis pub/sub between two Go
instances (to one of them it is messages that come or do not), and floating point prices. The
Node rate limiter is a request that fails.
