---------------------------- MODULE SerialProofs ----------------------------
(***************************************************************************)
(* Proofs about the Go service that handles one call at a time.             *)
(***************************************************************************)
EXTENDS SerialInvariant, AuctionProofs

----------------------------------------------------------------------------
(* One call at a time. *)

(* A step starts or goes on with one call and leaves the others alone. *)
Steps(p) ==
    /\ call[p].at # "idle" \/ MayStart(p)
    /\ call'[p].at = "idle" => call'[p] = Idle
    /\ \A q \in Procs \ {p} : call'[q] = call[q]

(* A call that is given a new value. *)
LEMMA GivenSteps ==
    ASSUME TypeOK, NEW p \in Procs, NEW c, call' = [call EXCEPT ![p] = c],
           c.at = "idle" => c = Idle, call[p].at # "idle" \/ MayStart(p)
    PROVE  Steps(p)
  BY DEF TypeOK, Steps

(* A call that goes to its next step, or returns. *)
LEMMA GotoSteps ==
    ASSUME TypeOK, NEW p \in Procs, call[p].at # "idle",
           \/ Return(p)
           \/ \E at : at # "idle" /\ Goto(p, at)
    PROVE  Steps(p)
<1>1. CASE Return(p)
  BY <1>1, GivenSteps DEF Return
<1>2. ASSUME NEW at, at # "idle", Goto(p, at) PROVE Steps(p)
  BY <1>2 DEF Goto, Steps, TypeOK, Calls
<1> QED
  BY <1>1, <1>2

(* Every step of the auction is a step of one call, of all or of none. *)
LEMMA OneSteps ==
    ASSUME TypeOK, [Next]_vars
    PROVE  \/ UNCHANGED call
           \/ call' = [p \in Procs |-> Idle]
           \/ \E p \in Procs : Steps(p)
<1>0. /\ Bidders \subseteq Procs /\ Closers \subseteq Procs /\ Creator \in Procs /\ Worker \in Procs
      /\ \A p \in Procs : call[p] \in Calls
      /\ call \in [Procs -> Calls]
  BY DEF TypeOK, Procs
<1>1. CASE CreateRfq
  <2>1. [Idle EXCEPT !.at = "unschedule", !.delay = terms.close - now].at # "idle"
    BY DEF Idle
  <2> QED
    BY <1>0, <1>1, <2>1, GivenSteps DEF CreateRfq
<1>2. ASSUME NEW b \in Bidders, NEW r \in Requests, BidArrives(b, r) PROVE Steps(b)
  <2>1. [Idle EXCEPT !.at = "read", !.req = r].at # "idle"
    BY DEF Idle
  <2> QED
    BY <1>0, <1>2, <2>1, GivenSteps DEF BidArrives
<1>3. ASSUME NEW c \in Closers, EarlyClose(c) PROVE Steps(c)
  <2>1. [Idle EXCEPT !.at = "save", !.row = ClosedAt(now)].at # "idle"
    BY DEF Idle
  <2> QED
    BY <1>0, <1>3, <2>1, GivenSteps DEF EarlyClose
<1>4. ASSUME NEW b \in Bidders, BidStep(b) PROVE Steps(b)
  <2>0. b \in Procs /\ call[b] \in Calls
    BY <1>0
  <2>1. CASE BidReadsRfq(b)
    <3>1. [call[b] EXCEPT !.at = "best", !.row = rfq].at = "best"
      BY <2>0 DEF Calls
    <3>2. \/ Return(b)
          \/ call' = [call EXCEPT ![b] = [call[b] EXCEPT !.at = "best", !.row = rfq]]
      BY <1>0, <2>0, <2>1 DEF BidReadsRfq
    <3> QED
      BY <2>0, <2>1, <3>1, <3>2, GotoSteps, GivenSteps DEF BidReadsRfq, At
  <2>2. CASE BidChecksBest(b)
    BY <2>0, <2>2, GotoSteps DEF BidChecksBest, At
  <2>3. CASE BidEvaluates(b)
    BY <1>0, <2>0, <2>3 DEF BidEvaluates, At, Steps, Calls
  <2>4. CASE BidCommits(b)
    BY <1>0, <2>0, <2>4 DEF BidCommits, At, Steps, Calls
  <2>5. CASE BidIsDuplicate(b)
    BY <2>0, <2>5, GotoSteps DEF BidIsDuplicate, At
  <2>6. CASE AnnounceBid(b)
    BY <2>0, <2>6, GotoSteps DEF AnnounceBid, At
  <2>7. CASE AnnounceExtension(b)
    <3> DEFINE c == [call[b] EXCEPT !.at = "unschedule", !.delay = call[b].newClose - now]
    <3>1. c.at = "unschedule"
      BY <2>0 DEF Calls
    <3>2. Return(b) \/ call' = [call EXCEPT ![b] = c]
      BY <1>0, <2>0, <2>7 DEF AnnounceExtension
    <3> QED
      BY <2>0, <2>7, <3>1, <3>2, GotoSteps, GivenSteps DEF AnnounceExtension, At
  <2> QED
    BY <1>4, <2>1, <2>2, <2>3, <2>4, <2>5, <2>6, <2>7 DEF BidStep
<1>5. ASSUME NEW c \in Closers, CancelClosure(c) PROVE Steps(c)
  BY <1>0, <1>5, GotoSteps DEF CancelClosure, At
<1>6. ASSUME NEW p \in Closers \cup {Worker}, CloseStep(p) PROVE Steps(p)
  BY <1>0, <1>6, GotoSteps DEF CloseStep, SaveClosed, AnnounceClosed, At
<1>7. ASSUME NEW p \in Bidders \cup {Creator, Worker}, ScheduleStep(p) PROVE Steps(p)
  BY <1>0, <1>7, GotoSteps DEF ScheduleStep, UnscheduleTask, EnqueueTask, At
<1>8. CASE WorkerFires
  <2>1. [Idle EXCEPT !.at = "find"].at # "idle"
    BY DEF Idle
  <2> QED
    BY <1>0, <1>8, <2>1, GivenSteps DEF WorkerFires
<1>9. CASE WorkerFinds
  <2> DEFINE c == IF rfq.status # "ACTIVE" THEN [call[Worker] EXCEPT !.at = "finish"]
                  ELSE IF Premature(rfq)
                       THEN [call[Worker] EXCEPT !.at = "unschedule", !.delay = rfq.close - now]
                       ELSE [call[Worker] EXCEPT !.at = "save", !.row = ClosedAt(rfq.close)]
  <2>1. call' = [call EXCEPT ![Worker] = c]
    BY <1>0, <1>9 DEF WorkerFinds
  <2>2. c.at # "idle"
    BY <1>0 DEF Calls
  <2> HIDE DEF c
  <2> QED
    BY <1>0, <1>9, <2>1, <2>2, GivenSteps DEF WorkerFinds, At
<1>10. CASE WorkerFinishes
  BY <1>0, <1>10, GotoSteps DEF WorkerFinishes, At
<1>11. CASE Crash
  BY <1>11 DEF Crash
<1>12. ASSUME NEW p \in Procs, DatabaseFails(p) PROVE Steps(p)
  BY <1>12, GotoSteps DEF DatabaseFails, DatabaseSteps
<1>13. CASE Tick \/ UNCHANGED vars
  BY <1>13 DEF Tick, vars
<1> QED
  BY <1>0, <1>1, <1>2, <1>3, <1>4, <1>5, <1>6, <1>7, <1>8, <1>9, <1>10, <1>11, <1>12, <1>13
  DEF Next, Arrival, Step, Failure

(* A call only starts when nobody is in flight. *)
LEMMA StartsAlone ==
    ASSUME MaxInFlight = 1, OneAtATime, NEW p \in Procs, MayStart(p)
    PROVE  InFlight = {}
<1>1. SUFFICES ASSUME NEW q \in InFlight PROVE FALSE
  OBVIOUS
<1>2. InFlight = {q}
  BY <1>1 DEF OneAtATime
<1> QED
  BY <1>2, FS_Singleton DEF MayStart

(* While a call is under way all others are idle. *)
LEMMA OthersIdle ==
    ASSUME OneAtATime, NEW p \in Procs, call[p].at # "idle"
    PROVE  \A q \in Procs \ {p} : call[q] = Idle
<1>1. call[p] # Idle
  BY DEF Idle
<1> QED
  BY <1>1 DEF OneAtATime, InFlight

(* Calls stay one at a time. *)
LEMMA OneAtATimeStep ==
    ASSUME MaxInFlight = 1, TypeOK, OneAtATime, [Next]_vars
    PROVE  OneAtATime'
<1>1. CASE UNCHANGED call
  BY <1>1 DEF OneAtATime, InFlight
<1>2. CASE call' = [p \in Procs |-> Idle]
  BY <1>2 DEF OneAtATime, InFlight
<1>3. ASSUME NEW p \in Procs, Steps(p) PROVE OneAtATime'
  <2>1. \A q \in Procs \ {p} : call[q] = Idle
    BY <1>3, StartsAlone, OthersIdle DEF Steps, InFlight
  <2>2. \A q \in Procs \ {p} : call'[q] = Idle
    BY <1>3, <2>1 DEF Steps
  <2> QED
    BY <1>3, <2>2 DEF Steps, OneAtATime, InFlight
<1> QED
  BY <1>1, <1>2, <1>3, OneSteps

----------------------------------------------------------------------------
(* What a call has read stays true. *)

(* Nobody writes the database while a call sits between two of its steps.   *)
LEMMA DatabaseIsLeft ==
    ASSUME MaxInFlight = 1, TypeOK, OneAtATime, [Next]_vars,
           NEW p \in Procs, call[p].at # "idle", call'[p] = call[p]
    PROVE  UNCHANGED database
<1>1. \A q \in Procs \ {p} : call[q] = Idle
  BY OthersIdle
<1>2. ~CreateRfq
  BY StartsAlone DEF CreateRfq, InFlight, Idle, Procs
<1>3. call \in [Procs -> Calls] /\ Bidders \subseteq Procs /\ Closers \cup {Worker} \subseteq Procs
  BY DEF TypeOK, Procs
<1>4. ASSUME NEW b \in Bidders, BidCommits(b) PROVE FALSE
  <2>1. b = p
    BY <1>1, <1>3, <1>4 DEF BidCommits, At, Idle
  <2>2. call'[b].at = "placed" /\ call[b].at = "commit"
    BY <1>3, <1>4 DEF BidCommits, At, Calls
  <2> QED
    BY <2>1, <2>2
<1>5. ASSUME NEW q \in Closers \cup {Worker}, SaveClosed(q) PROVE FALSE
  <2>1. q = p
    BY <1>1, <1>3, <1>5 DEF SaveClosed, At, Idle
  <2>2. call'[q].at \in {"cancel", "closed"} /\ call[q].at = "save"
    BY <1>3, <1>5 DEF SaveClosed, At, Goto, Calls
  <2> QED
    BY <2>1, <2>2
<1> QED
  BY <1>2, <1>4, <1>5, Writers

(* What a bid has found stays so until it commits. *)
LEMMA StillTrueStep ==
    ASSUME MaxInFlight = 1, TypeOK, OneAtATime, [Next]_vars,
           NEW p \in Procs, StillTrue(p)
    PROVE  StillTrue(p)'
<1>1. UNCHANGED terms /\ now <= now' /\ now \in Nat /\ now' \in Nat
  BY Writers
<1>2. CASE call'[p] = call[p]
  <2>1. CASE call[p].at = "idle"
    BY <1>2, <2>1 DEF StillTrue
  <2>2. CASE call[p].at # "idle"
    <3>1. UNCHANGED <<rfq, bids, terms>> /\ 0..now \subseteq 0..now'
      BY <1>1, <1>2, <2>2, DatabaseIsLeft DEF database
    <3>2. Leaderboard(bids)' = Leaderboard(bids)
      BY <3>1
    <3>3. call[p].at = "commit" =>
             \E seen \in 0..now' : call[p].newClose =
                 CloseAfter(rfq.close, terms, call[p].req, Leaderboard(bids), seen)
      BY <3>1 DEF StillTrue
    <3> QED
      BY <1>2, <3>1, <3>2, <3>3 DEF StillTrue, Improves
  <2> QED
    BY <2>1, <2>2
<1>3. CASE Settles(p)
  BY <1>2, <1>3 DEF Settles, StillTrue
<1>4. CASE BidReadsRfq(p) /\ Admits(rfq, call[p].req)
           /\ call'[p] = [call[p] EXCEPT !.at = "best", !.row = rfq]
  <2>1. call[p] \in Calls
    BY DEF TypeOK
  <2>2. call'[p].at = "best" /\ call'[p].row = rfq /\ UNCHANGED rfq
    BY <1>4, <2>1 DEF BidReadsRfq, Calls, database
  <2> QED
    BY <1>4, <2>2 DEF StillTrue, Admits
<1>5. CASE BidChecksBest(p) /\ call'[p] = [call[p] EXCEPT !.at = "rank"]
  <2>1. call[p] \in Calls
    BY DEF TypeOK
  <2>2. /\ call'[p].at = "rank" /\ call[p].at = "best" /\ call'[p].row = call[p].row
        /\ call'[p].req = call[p].req /\ UNCHANGED <<rfq, bids>>
    BY <1>5, <2>1 DEF BidChecksBest, At, Calls, database
  <2>3. Improves(call[p].req)
    <3>1. SUFFICES ASSUME Return(p) PROVE FALSE
      BY <1>5 DEF BidChecksBest
    <3>2. call'[p] = Idle
      BY <3>1 DEF Return, TypeOK
    <3> QED
      BY <2>2, <3>2 DEF Idle
  <2> QED
    BY <2>2, <2>3 DEF StillTrue, Improves
<1>6. CASE BidEvaluates(p)
           /\ call'[p] = [call[p] EXCEPT !.at = "commit", !.newClose =
                            CloseAfter(call[p].row.close, terms, call[p].req,
                                       Leaderboard(bids), now)]
  <2> DEFINE after == CloseAfter(rfq.close, terms, call[p].req, Leaderboard(bids), now)
  <2>1. call[p] \in Calls
    BY DEF TypeOK
  <2>2. call[p].at = "rank" /\ UNCHANGED <<now, rfq, terms, bids>>
    BY <1>6 DEF BidEvaluates, At, database
  <2>3. rfq.status = "ACTIVE" /\ call[p].row = rfq /\ Improves(call[p].req)
    BY <2>2 DEF StillTrue
  <2>4. call'[p] = [call[p] EXCEPT !.at = "commit", !.newClose = after]
    BY <1>6, <2>3
  <2> HIDE DEF after
  <2>5. /\ call'[p].at = "commit" /\ call'[p].row = rfq /\ call'[p].req = call[p].req
        /\ call'[p].newClose = after
    BY <2>1, <2>3, <2>4 DEF Calls
  <2>6. call'[p].newClose =
          CloseAfter(rfq'.close, terms', call'[p].req, Leaderboard(bids)', now)
    BY <2>2, <2>5 DEF after
  <2>7. now \in 0..now'
    BY <1>1
  <2>8. Improves(call[p].req)'
    BY <2>2, <2>3, <2>5 DEF Improves
  <2> QED
    BY <2>2, <2>3, <2>5, <2>6, <2>7, <2>8 DEF StillTrue
<1>7. CASE call'[p].at \in {"placed", "extended", "save", "cancel", "closed"}
  BY <1>7 DEF StillTrue
<1>8. call[p] \in Calls
  BY DEF TypeOK
<1> QED
  BY <1>3, <1>4, <1>5, <1>6, <1>7, <1>8, CallMoves DEF Moves, Settles, Calls, Idle

(* A closing call closes an open RFQ. *)
LEMMA ClosesOpenRowStep ==
    ASSUME MaxInFlight = 1, TypeOK, OneAtATime, [Next]_vars,
           NEW p \in Procs, ClosesOpenRow(p)
    PROVE  ClosesOpenRow(p)'
<1>1. now <= now' /\ now \in Nat /\ now' \in Nat
  BY Writers
<1>2. call[p] \in Calls
  BY DEF TypeOK
<1>3. CASE call'[p] = call[p]
  <2>1. CASE call[p].at = "save"
    <3>1. UNCHANGED rfq
      BY <1>3, <2>1, DatabaseIsLeft DEF database
    <3> QED
      BY <1>1, <1>3, <3>1 DEF ClosesOpenRow
  <2>2. CASE call[p].at # "save"
    BY <1>3, <2>2 DEF ClosesOpenRow
  <2> QED
    BY <2>1, <2>2
<1>4. CASE p \in Closers /\ EarlyClose(p)
           /\ call'[p] = [Idle EXCEPT !.at = "save", !.row = ClosedAt(now)]
  <2>1. p # Worker /\ rfq.status = "ACTIVE" /\ UNCHANGED <<now, rfq>>
    BY <1>4, ProcsAssumption DEF EarlyClose, database
  <2>2. call'[p].row = ClosedAt(now)
    BY <1>4 DEF Idle
  <2> QED
    BY <1>1, <2>1, <2>2 DEF ClosesOpenRow, ClosedAt
<1>5. CASE p = Worker /\ WorkerFinds /\ ~Premature(rfq)
           /\ call'[p] = [call[p] EXCEPT !.at = "save", !.row = ClosedAt(rfq.close)]
  <2>1. call'[p].at = "save" /\ call'[p].row = ClosedAt(rfq.close) /\ UNCHANGED rfq
    BY <1>2, <1>5 DEF WorkerFinds, Calls, database
  <2>2. rfq.status = "ACTIVE"
    <3>1. rfq.status # "ACTIVE" => call'[p] = [call[p] EXCEPT !.at = "finish"]
      BY <1>5 DEF WorkerFinds, TypeOK
    <3> QED
      BY <1>2, <2>1, <3>1 DEF Calls
  <2> QED
    BY <1>5, <2>1, <2>2 DEF ClosesOpenRow, ClosedAt
<1>6. CASE call'[p].at # "save"
  BY <1>6 DEF ClosesOpenRow
<1> QED
  BY <1>2, <1>3, <1>4, <1>5, <1>6, CallMoves DEF Moves, Calls

----------------------------------------------------------------------------
(* The ledger and the logs. *)

(* A bid that commits was admitted to the RFQ as it still is.               *)
LEMMA CommitFacts ==
    ASSUME SerialInv, NEW b \in Bidders, BidCommits(b)
    PROVE  /\ b \in Procs /\ call[b] \in Calls
           /\ rfq.status = "ACTIVE" /\ call[b].row = rfq /\ rfq.close \in Nat
           /\ Improves(call[b].req)
           /\ NewId \in Nat /\ \A x \in bids : x.id < NewId
           /\ bids' = bids \cup {BidRow(call[b].req, NewId)}
           /\ BidRow(call[b].req, NewId).id = NewId
           /\ logs' = logs \cup ExtensionLog(b)
           /\ UNCHANGED terms
           /\ rfq' = [rfq EXCEPT !.close = IF Extended(b) THEN call[b].newClose ELSE rfq.close]
<1>1. TypeOK /\ IdsHandedOut /\ StillTrue(b) /\ b \in Procs
  BY DEF SerialInv, Inv, TypeInv, LedgerInv, Procs
<1>2. call[b].at = "commit"
  BY DEF BidCommits, At
<1>3. rfq.status = "ACTIVE" /\ call[b].row = rfq /\ Improves(call[b].req)
  BY <1>1, <1>2 DEF StillTrue
<1>4. rfq \in [status : Status, close : Nat] /\ call[b] \in Calls
  BY <1>1 DEF TypeOK, Rows
<1>5. Cardinality(bids) \in Nat /\ \A x \in bids : x.id \in Nat
  BY <1>1, FS_CardinalityType DEF TypeOK
<1>6. NewId \in Nat /\ \A x \in bids : x.id < NewId
  BY <1>1, <1>5 DEF IdsHandedOut, NewId
<1>7. rfq' = [rfq EXCEPT !.close = IF Extended(b) THEN call[b].newClose ELSE rfq.close]
  <2>1. CASE Extended(b)
    BY <1>3, <2>1 DEF BidCommits
  <2>2. CASE ~Extended(b)
    BY <1>4, <2>2 DEF BidCommits
  <2> QED
    BY <2>1, <2>2
<1> QED
  BY <1>1, <1>3, <1>4, <1>6, <1>7 DEF BidCommits, BidRow

(* Nobody's bids go up. *)
LEMMA StrictImprovementStep ==
    ASSUME SerialInv, [Next]_vars
    PROVE  StrictImprovement'
<1>1. TypeOK /\ StrictImprovement
  BY DEF SerialInv, Inv, TypeInv
<1>2. CASE UNCHANGED <<bids, logs>>
  BY <1>1, <1>2 DEF StrictImprovement
<1>3. ASSUME NEW b \in Bidders, BidCommits(b) PROVE StrictImprovement'
  <2> DEFINE row == BidRow(call[b].req, NewId)
  <2>1. row.supplier = call[b].req.supplier /\ row.price = call[b].req.price /\ row.id = NewId
    BY DEF BidRow
  <2>2. /\ bids' = bids \cup {row} /\ NewId \in Nat
        /\ \A x \in bids : x.id < NewId /\ x.id \in Nat
        /\ \A x \in bids : x.supplier = row.supplier => row.price < x.price
    BY <1>1, <1>3, <2>1, CommitFacts DEF Improves, TypeOK
  <2> HIDE DEF row
  <2>3. ASSUME NEW x \in bids', NEW y \in bids', x.supplier = y.supplier, x.id < y.id
        PROVE  y.price < x.price
    <3>1. CASE x \in bids /\ y \in bids
      BY <1>1, <2>3, <3>1 DEF StrictImprovement
    <3>2. CASE x \in bids /\ y = row
      BY <2>2, <2>3, <3>2
    <3>3. x # row
      BY <2>1, <2>2, <2>3
    <3> QED
      BY <2>2, <3>1, <3>2, <3>3
  <2> QED
    BY <2>3 DEF StrictImprovement
<1> QED
  BY <1>1, <1>2, <1>3, LedgerWriters

(* There are bids only once there is an RFQ. *)
LEMMA NothingBeforeRowStep ==
    ASSUME SerialInv, [Next]_vars
    PROVE  NothingBeforeRow'
<1>1. TypeOK /\ NothingBeforeRow
  BY DEF SerialInv, Inv, TypeInv
<1>2. CASE UNCHANGED database
  BY <1>1, <1>2 DEF NothingBeforeRow, database
<1>3. CASE CreateRfq
  BY <1>3 DEF CreateRfq, NothingBeforeRow
<1>4. ASSUME NEW b \in Bidders, BidCommits(b) PROVE NothingBeforeRow'
  <2>1. rfq'.status = "ACTIVE"
    BY <1>1, <1>4, CommitFacts DEF TypeOK, Rows
  <2> QED
    BY <2>1 DEF NothingBeforeRow
<1>5. ASSUME NEW p \in Closers \cup {Worker}, SaveClosed(p) PROVE NothingBeforeRow'
  <2>1. p \in Procs
    BY DEF Procs
  <2>2. rfq'.status = "CLOSED"
    BY <1>5, <2>1 DEF SaveClosed, At, SerialInv, ClosesOpenRow
  <2> QED
    BY <2>2 DEF NothingBeforeRow
<1> QED
  BY <1>1, <1>2, <1>3, <1>4, <1>5, Writers

(* The close time only moves forward while bids come in. *)
LEMMA LogsAscendStep ==
    ASSUME SerialInv, [Next]_vars
    PROVE  LogsAscend'
<1>1. TypeOK /\ LogsAscend /\ NothingBeforeRow /\ ExtensionsExplained
  BY DEF SerialInv, Inv, TypeInv, LogInv
<1>2. UNCHANGED terms
  BY <1>1, Writers
<1>3. CASE UNCHANGED database
  BY <1>1, <1>2, <1>3 DEF LogsAscend, database
<1>4. CASE CreateRfq
  <2>1. logs = {} /\ logs' = logs /\ rfq' = [status |-> "ACTIVE", close |-> terms.close]
    BY <1>1, <1>4 DEF CreateRfq, NothingBeforeRow
  <2>2. terms.close \in Nat
    BY <1>1, TermsAssumption DEF TypeOK
  <2> QED
    BY <1>2, <2>1, <2>2 DEF LogsAscend
<1>5. ASSUME NEW b \in Bidders, BidCommits(b) PROVE LogsAscend'
  <2>1. /\ rfq.status = "ACTIVE" /\ rfq.close \in Nat /\ call[b].row = rfq
        /\ NewId \in Nat /\ \A x \in bids : x.id < NewId
        /\ logs' = logs \cup ExtensionLog(b)
        /\ rfq' = [rfq EXCEPT !.close = IF Extended(b) THEN call[b].newClose ELSE rfq.close]
        /\ call[b].newClose \in Nat
    BY <1>5, CommitFacts DEF Calls
  <2>2. terms.close <= rfq.close /\ \A l \in logs : l.new <= rfq.close
    BY <1>1, <2>1 DEF LogsAscend
  <2>3. terms.close \in Nat
    BY <1>1, TermsAssumption DEF TypeOK
  <2>4. \A l \in logs : l.bid < NewId /\ l.new \in Nat /\ l.bid \in Nat
    BY <1>1, <2>1 DEF ExtensionsExplained, TypeOK
  <2>5. CASE ~Extended(b)
    <3>1. logs' = logs /\ rfq'.close = rfq.close
      BY <1>1, <2>1, <2>5 DEF ExtensionLog, TypeOK, Rows
    <3> QED
      BY <1>1, <1>2, <2>1, <2>2, <3>1 DEF LogsAscend
  <2>6. CASE Extended(b)
    <3> DEFINE new == [bid |-> NewId, prev |-> call[b].row.close, new |-> call[b].newClose,
                       mins |-> ExtendedMins(call[b].row.close, call[b].newClose)]
    <3>1. logs' = logs \cup {new} /\ rfq'.close = call[b].newClose /\ rfq.close < call[b].newClose
      BY <1>1, <2>1, <2>6 DEF ExtensionLog, Extended, TypeOK, Rows
    <3>2. new.bid = NewId /\ new.prev = rfq.close /\ new.new = call[b].newClose
      BY <2>1
    <3> HIDE DEF new
    <3>3. ASSUME NEW l \in logs' PROVE terms.close <= l.prev
      BY <1>1, <2>2, <3>1, <3>2 DEF LogsAscend
    <3>4. ASSUME NEW l \in logs', NEW k \in logs', k.bid < l.bid PROVE k.new <= l.prev
      <4>1. CASE l \in logs /\ k \in logs
        BY <1>1, <3>4, <4>1 DEF LogsAscend
      <4>2. CASE l = new /\ k \in logs
        BY <2>2, <3>2, <4>2
      <4>3. k # new
        BY <2>1, <2>4, <3>1, <3>2, <3>4
      <4> QED
        BY <3>1, <4>1, <4>2, <4>3
    <3>5. ASSUME NEW l \in logs' PROVE l.new <= rfq'.close
      BY <2>1, <2>2, <2>4, <3>1, <3>2
    <3>6. terms.close <= rfq'.close
      BY <2>1, <2>2, <2>3, <3>1
    <3> QED
      BY <1>2, <3>3, <3>4, <3>5, <3>6 DEF LogsAscend
  <2> QED
    BY <2>5, <2>6
<1>6. ASSUME NEW p \in Closers \cup {Worker}, SaveClosed(p) PROVE LogsAscend'
  <2>1. p \in Procs
    BY DEF Procs
  <2>2. rfq'.status = "CLOSED" /\ logs' = logs
    BY <1>6, <2>1 DEF SaveClosed, At, SerialInv, ClosesOpenRow
  <2> QED
    BY <1>1, <1>2, <2>2 DEF LogsAscend
<1> QED
  BY <1>1, <1>3, <1>4, <1>5, <1>6, Writers

----------------------------------------------------------------------------
(* The invariant of a service that handles one call at a time. *)

(* It holds before anything happens. *)
LEMMA SerialInvInit == Init => SerialInv
<1> SUFFICES ASSUME Init PROVE SerialInv
  OBVIOUS
<1>1. Inv
  BY InvInit
<1>2. OneAtATime
  BY DEF Init, OneAtATime, InFlight
<1>3. \A p \in Procs : StillTrue(p) /\ ClosesOpenRow(p)
  BY DEF Init, StillTrue, ClosesOpenRow, Idle
<1>4. NothingBeforeRow /\ LogsAscend /\ StrictImprovement
  BY DEF Init, NothingBeforeRow, LogsAscend, StrictImprovement, NoRow
<1> QED
  BY <1>1, <1>2, <1>3, <1>4 DEF SerialInv

(* And every step keeps it. *)
LEMMA SerialInvStep ==
    ASSUME MaxInFlight = 1, SerialInv, [Next]_vars
    PROVE  SerialInv'
<1>1. Inv' /\ TypeOK /\ OneAtATime
  BY InvStep DEF SerialInv, Inv, TypeInv
<1>2. OneAtATime'
  BY <1>1, OneAtATimeStep
<1>3. \A p \in Procs : StillTrue(p)' /\ ClosesOpenRow(p)'
  BY <1>1, StillTrueStep, ClosesOpenRowStep DEF SerialInv
<1> QED
  BY <1>1, <1>2, <1>3, NothingBeforeRowStep, LogsAscendStep, StrictImprovementStep
  DEF SerialInv

(* A service that handles one call at a time keeps its invariant, whatever  *)
(* fails and however early tasks fire.                                      *)
THEOREM SerialInvariance ==
    ASSUME MaxInFlight = 1
    PROVE  Spec => []SerialInv
<1>1. Init => SerialInv
  BY SerialInvInit
<1>2. SerialInv /\ [Next]_vars => SerialInv'
  BY SerialInvStep
<1> QED
  BY <1>1, <1>2, PTL DEF Spec

(* Handled one at a time, the bids of a supplier only go down               *)
(* (bid_service.go:81-87).                                                  *)
THEOREM SerialBidsImprove ==
    ASSUME MaxInFlight = 1
    PROVE  Spec => []StrictImprovement
<1>1. SerialInv => StrictImprovement
  BY DEF SerialInv
<1> QED
  BY <1>1, SerialInvariance, PTL

(* The maximum of a set of integers is the element all others are below.    *)
LEMMA MaxIs ==
    ASSUME NEW S, S \subseteq Int, NEW m \in S, \A x \in S : x <= m
    PROVE  Max(S) = m
<1>1. \A x \in S : (\A y \in S : x >= y) <=> x = m
  <2> SUFFICES ASSUME NEW x \in S PROVE (\A y \in S : x >= y) <=> x = m
    OBVIOUS
  <2>1. x \in Int /\ m \in Int /\ x <= m /\ \A y \in S : y \in Int
    OBVIOUS
  <2> QED
    BY <2>1
<1>2. Max(S) = CHOOSE x \in S : \A y \in S : x >= y
  BY DEF Max
<1> QED
  BY <1>1, <1>2

(* Handled one at a time, the extensions form one chain from the first      *)
(* close time to the current one (bid_service.go:98-121).                   *)
THEOREM SerialAuditTrail ==
    ASSUME MaxInFlight = 1
    PROVE  Spec => []AuditTrailComplete
<1>1. ASSUME SerialInv PROVE AuditTrailComplete
  <2> DEFINE earlier(l) == {k.new : k \in {m \in logs : m.bid < l.bid}}
             all        == {l.new : l \in logs} \cup {terms.close}
  <2>1. /\ TypeOK /\ LogsAscend /\ ExtensionsExplained /\ CloseTimeExplained
    BY <1>1 DEF SerialInv, Inv, TypeInv, LogInv
  <2>2. terms.close \in Nat /\ rfq.close \in Nat
        /\ \A l \in logs : l.prev \in Nat /\ l.new \in Nat /\ l.bid \in Nat
    BY <2>1, TermsAssumption DEF TypeOK, Rows
  <2>3. ASSUME NEW l \in logs PROVE l.prev = Max({terms.close} \cup earlier(l))
    <3> DEFINE S == {terms.close} \cup earlier(l)
    <3>1. \A x \in S : x = terms.close \/ \E k \in logs : k.bid < l.bid /\ x = k.new
      OBVIOUS
    <3>2. S \subseteq Int
      BY <2>2, <3>1
    <3>3. l.prev \in S
      BY <2>1 DEF ExtensionsExplained
    <3>4. \A x \in S : x <= l.prev
      BY <2>1, <3>1 DEF LogsAscend
    <3> HIDE DEF S
    <3>5. Max(S) = l.prev
      BY <3>2, <3>3, <3>4, MaxIs
    <3> QED
      BY <3>5 DEF S
  <2>4. ASSUME rfq.status = "ACTIVE" PROVE rfq.close = Max(all)
    <3>1. \A x \in all : x = terms.close \/ \E k \in logs : x = k.new
      OBVIOUS
    <3>2. all \subseteq Int
      BY <2>2, <3>1
    <3>3. rfq.close \in all
      BY <2>1, <2>4 DEF CloseTimeExplained
    <3>4. \A x \in all : x <= rfq.close
      BY <2>1, <2>4, <3>1 DEF LogsAscend
    <3> HIDE DEF all
    <3> QED
      BY <3>2, <3>3, <3>4, MaxIs
  <2> QED
    BY <2>3, <2>4 DEF AuditTrailComplete
<1> QED
  BY <1>1, SerialInvariance, PTL

----------------------------------------------------------------------------
(* Closing is final. *)

(* Nothing writes the database of a closed auction but its own closure      *)
(* again, and that changes no more than the close time.                     *)
LEMMA ClosedIsFinal ==
    ASSUME SerialInv, [Next]_vars, rfq.status = "CLOSED"
    PROVE  UNCHANGED database
<1>1. TypeOK
  BY DEF SerialInv, Inv, TypeInv
<1>2. ~CreateRfq
  BY DEF CreateRfq
<1>3. ASSUME NEW b \in Bidders, BidCommits(b) PROVE FALSE
  BY <1>3, CommitFacts
<1>4. ASSUME NEW p \in Closers \cup {Worker}, SaveClosed(p) PROVE FALSE
  BY <1>4 DEF SaveClosed, At, SerialInv, ClosesOpenRow, Procs
<1> QED
  BY <1>1, <1>2, <1>3, <1>4, Writers

(* Handled one at a time, a closed auction stays closed (handler.go:62-63,  *)
(* rfq_service.go:87-91).                                                   *)
THEOREM SerialClosedStaysClosed ==
    ASSUME MaxInFlight = 1
    PROVE  Spec => ClosedStaysClosed
<1>1. SerialInv /\ [Next]_vars => [rfq.status = "CLOSED" => rfq'.status = "CLOSED"]_vars
  BY ClosedIsFinal DEF database
<1> QED
  BY <1>1, SerialInvariance, PTL DEF Spec, ClosedStaysClosed

(* ... and its ledger is the one it closed with (rfq/[id]/page.tsx:221).    *)
THEOREM SerialClosedLedgerFrozen ==
    ASSUME MaxInFlight = 1
    PROVE  Spec => ClosedLedgerFrozen
<1>1. SerialInv /\ [Next]_vars => [rfq.status = "CLOSED" => UNCHANGED <<bids, logs>>]_vars
  BY ClosedIsFinal DEF database
<1> QED
  BY <1>1, SerialInvariance, PTL DEF Spec, ClosedLedgerFrozen

----------------------------------------------------------------------------
(* The auction the service promises. *)

(* Only the clock's own step moves it. *)
LEMMA NowMoves ==
    ASSUME [Next]_vars
    PROVE  UNCHANGED now \/ Tick
  BY DEF Next, Arrival, Step, Failure, vars, CreateRfq, BidArrives, EarlyClose, BidStep,
         BidReadsRfq, BidChecksBest, BidEvaluates, BidCommits, BidIsDuplicate, AnnounceBid,
         AnnounceExtension, CancelClosure, CloseStep, SaveClosed, AnnounceClosed,
         ScheduleStep, UnscheduleTask, EnqueueTask, WorkerFires, WorkerFinds,
         WorkerFinishes, Crash, DatabaseFails

(* Every call takes effect at its one write of the database.                *)
LEMMA PromisedStep ==
    ASSUME MaxInFlight = 1, SerialInv, [Next]_vars
    PROVE  [Promised!Next]_(Promised!vars)
<1>0. TypeOK /\ CarriesRequest /\ CarriesDueClosure
  BY DEF SerialInv, Inv, TypeInv, ClosureInv
<1>1. UNCHANGED terms
  BY <1>0, Writers
<1>2. CASE Tick
  BY <1>2 DEF Tick, database, Promised!Tick, Promised!Next
<1>3. CASE CreateRfq
  <2>1. Promised!Open
    BY <1>3 DEF CreateRfq, Promised!Open
  <2> QED
    BY <2>1 DEF Promised!Next
<1>4. ASSUME NEW b \in Bidders, BidCommits(b)
      PROVE  \E r \in Requests : Promised!Accept(r)
  <2> DEFINE r == call[b].req
  <2>1. /\ b \in Procs /\ call[b] \in Calls /\ call[b].at = "commit"
        /\ rfq \in [status : Status, close : Nat]
    BY <1>0, <1>4, CommitFacts DEF BidCommits, At, TypeOK, Rows
  <2>2. r \in Requests
    BY <1>0, <2>1 DEF CarriesRequest
  <2>3. \A x \in bids : x.client # r.client \/ r.client = NoClientId
    BY <1>4 DEF BidCommits, Duplicate, SameClientId
  <2>4. PICK seen \in 0..now :
             call[b].newClose = CloseAfter(rfq.close, terms, r, Leaderboard(bids), seen)
    BY <2>1 DEF SerialInv, StillTrue
  <2>5. rfq.close <= call[b].newClose
    <3> DEFINE board == Leaderboard(bids)
               after == CloseAfter(rfq.close, terms, r, board, seen)
    <3>1. after \in Nat /\ (after = rfq.close \/ rfq.close < after)
      BY <1>0, <2>1, CloseAfterBounds DEF TypeOK
    <3> QED
      BY <2>1, <2>4, <3>1
  <2>6. rfq'.status = rfq.status /\ rfq'.close = call[b].newClose
    BY <1>4, <2>1, <2>5, CommitFacts DEF Extended, Calls
  <2>7. rfq'.close \in GoCloses(rfq.close, terms, r, bids, seen)
    BY <2>4, <2>6 DEF GoCloses
  <2>8. bids' = bids \cup {[id |-> Cardinality(bids) + 1, supplier |-> r.supplier,
                             price |-> r.price, client |-> r.client]}
    BY <1>4 DEF BidCommits, BidRow, NewId
  <2>9. UNCHANGED <<now, terms, rfq.status>> /\ rfq.status = "ACTIVE"
    BY <1>4, <2>6, CommitFacts DEF BidCommits
  <2>10. \A x \in bids : x.supplier = r.supplier => r.price < x.price
    BY <1>4, CommitFacts DEF Improves
  <2>11. Promised!Accept(r)
    BY <2>3, <2>4, <2>7, <2>8, <2>9, <2>10
    DEF Promised!Accept, Promised!Cardinality, Cardinality
  <2> QED
    BY <2>2, <2>11
<1>5. ASSUME NEW p \in Closers \cup {Worker}, SaveClosed(p)
      PROVE  Promised!Finalize \/ Promised!ForceFinalize
  <2>1. /\ p \in Procs /\ call[p].at = "save" /\ rfq' = call[p].row
        /\ UNCHANGED <<now, terms, bids>>
    BY <1>5 DEF SaveClosed, At, Procs
  <2>2. /\ rfq.status = "ACTIVE" /\ rfq'.status = "CLOSED"
        /\ IF p = Worker THEN rfq'.close = rfq.close ELSE rfq'.close \in 0..now
        /\ rfq'.close <= now \/ terms.forced <= now
    BY <1>0, <2>1 DEF SerialInv, ClosesOpenRow, CarriesDueClosure
  <2>3. rfq'.close \in Nat /\ now \in Nat /\ terms.forced \in Nat
    BY <1>0, <2>1, TermsAssumption, ClockAssumption DEF TypeOK, Calls, Rows
  <2>4. CASE p = Worker
    BY <2>1, <2>2, <2>3, <2>4 DEF Promised!Finalize
  <2>5. CASE p # Worker
    BY <2>1, <2>2, <2>5 DEF Promised!ForceFinalize
  <2> QED
    BY <2>4, <2>5
<1>6. CASE UNCHANGED database /\ UNCHANGED now
  BY <1>1, <1>6 DEF database, Promised!vars
<1>7. UNCHANGED now \/ Tick
  BY NowMoves
<1> QED
  BY <1>0, <1>2, <1>3, <1>4, <1>5, <1>6, <1>7, Writers DEF Promised!Next

(* PlaceBid, EarlyClose and the closure task are atomic when calls are      *)
(* handled one at a time (bid_service.go:50-125, rfq_service.go:79-102,     *)
(* handler.go:41-70), for every bidder, request and terms, whatever fails.  *)
THEOREM SerialImplementsBritishAuction ==
    ASSUME MaxInFlight = 1
    PROVE  Spec => ImplementsBritishAuction
<1>1. Init => Promised!Init
  BY DEF Init, NoRow, Promised!Init
<1>2. SerialInv /\ [Next]_vars => [Promised!Next]_(Promised!vars)
  BY PromisedStep
<1> QED
  BY <1>1, <1>2, SerialInvariance, PTL DEF Spec, ImplementsBritishAuction, Promised!Spec

----------------------------------------------------------------------------
(* What the feed tells, when nothing fails. *)

(* The call a step changes is the only one, before and after.               *)
LEMMA ChangesAlone ==
    ASSUME MaxInFlight = 1, SerialInv, [Next]_vars,
           NEW p \in Procs, call'[p] # call[p]
    PROVE  /\ \A q \in Procs \ {p} : call[q] = Idle /\ call'[q] = Idle
           /\ call[p].at = "idle" => NobodyInFlight
           /\ NobodyInFlight' => call'[p].at = "idle"
<1>1. TypeOK /\ OneAtATime
  BY DEF SerialInv, Inv, TypeInv
<1>2. OneAtATime'
  BY <1>1, OneAtATimeStep
<1>3. \A q \in Procs \ {p} : call[q] = Idle /\ call'[q] = Idle
  <2>1. CASE call' = [q \in Procs |-> Idle]
    <3>1. call[p].at # "idle"
      BY <1>1, <2>1 DEF OneAtATime
    <3> QED
      BY <1>1, <2>1, <3>1, OthersIdle
  <2>2. ASSUME NEW o \in Procs, Steps(o)
        PROVE  \A q \in Procs \ {p} : call[q] = Idle /\ call'[q] = Idle
    <3>1. o = p
      BY <2>2 DEF Steps
    <3>2. \A q \in Procs \ {p} : call[q] = Idle
      BY <1>1, <2>2, <3>1, StartsAlone, OthersIdle DEF Steps, InFlight
    <3> QED
      BY <2>2, <3>1, <3>2 DEF Steps
  <2> QED
    BY <1>1, <2>1, <2>2, OneSteps
<1>4. call[p].at = "idle" => NobodyInFlight
  BY <1>1, <1>3 DEF OneAtATime, NobodyInFlight, InFlight
<1>5. NobodyInFlight' => call'[p].at = "idle"
  BY DEF NobodyInFlight, InFlight, Idle
<1> QED
  BY <1>3, <1>4, <1>5

(* What one call owes the feed, and the feed owes nobody.                   *)
Outlined(p) == FeedOutline(p) /\ (call[p].at = "idle" => FeedAgrees)

(* It is enough to follow the call that moves.                              *)
LEMMA FeedByOne ==
    ASSUME MaxInFlight = 1, SerialInv, FeedToldInv, [Next]_vars,
           NEW p \in Procs, call'[p] # call[p]
    PROVE  Outlined(p) /\ (Outlined(p)' => FeedToldInv')
<1>1. Outlined(p)
  BY ChangesAlone DEF Outlined, FeedToldInv
<1>2. ASSUME Outlined(p)' PROVE FeedToldInv'
  <2>1. NobodyInFlight' => FeedAgrees'
    BY <1>2, ChangesAlone DEF Outlined
  <2>2. FeedOutline(p)'
    BY <1>2 DEF Outlined
  <2>3. ASSUME NEW q \in Procs \ {p} PROVE FeedOutline(q)'
    <3>1. call'[q].at = "idle"
      BY ChangesAlone DEF Idle
    <3> QED
      BY <3>1 DEF FeedOutline
  <2> QED
    BY <2>1, <2>2, <2>3 DEF FeedToldInv
<1> QED
  BY <1>1, <1>2

(* Without failures every event is published. *)
LEMMA Published ==
    ASSUME TypeOK, MaxFaults = 0
    PROVE  ~Fault /\ \A f : Publish(f) => feed' = f
  BY DEF TypeOK, Fault, Publish

(* A step of the call p that leaves the database and the feed alone, from   *)
(* where they agree to where they must.                                     *)
LEMMA StillAgrees ==
    ASSUME TypeOK, NEW p \in Procs, FeedAgrees, UNCHANGED <<database, feed>>,
           call'[p].at \notin {"placed", "extended", "cancel", "closed"}
    PROVE  Outlined(p)'
<1>1. FeedAgrees'
  BY DEF FeedAgrees, AllBidsTold, CloseTold, database
<1> QED
  BY <1>1 DEF Outlined, FeedOutline

(* The bid's own steps. *)
LEMMA BidTold ==
    ASSUME MaxInFlight = 1, MaxFaults = 0, SerialInv, FeedToldInv, [Next]_vars,
           NEW b \in Bidders, BidStep(b)
    PROVE  FeedToldInv'
<1>0. /\ TypeOK /\ b \in Procs /\ call[b] \in Calls /\ call \in [Procs -> Calls]
      /\ feed \in [placed : SUBSET Nat, close : Nat, closed : BOOLEAN]
      /\ rfq \in [status : Status, close : Nat]
      /\ logs \subseteq [bid : Nat, prev : Nat, new : Nat, mins : Nat]
  BY DEF SerialInv, Inv, TypeInv, TypeOK, Procs, Rows
<1>1. SUFFICES ASSUME call'[b] # call[b] => Outlined(b)
               PROVE  call'[b] # call[b] /\ Outlined(b)'
  BY <1>0, FeedByOne
<1>2. CASE call[b].at \in {"read", "best", "rank"} \/ BidIsDuplicate(b)
  <2>1. /\ call[b].at \in {"read", "best", "rank", "commit"}
        /\ call'[b].at # call[b].at
        /\ call'[b].at \in {"idle", "best", "rank", "commit"}
        /\ UNCHANGED <<database, feed>>
    BY <1>0, <1>2 DEF BidStep, BidReadsRfq, BidChecksBest, BidEvaluates, BidCommits,
       BidIsDuplicate, AnnounceBid, AnnounceExtension, At, Goto, Return, Calls, Idle
  <2>2. FeedAgrees
    BY <1>1, <2>1 DEF Outlined, FeedOutline
  <2> QED
    BY <1>0, <2>1, <2>2, StillAgrees
<1>3. CASE BidCommits(b)
  <2>1. /\ call[b].at = "commit"
        /\ call' = [call EXCEPT ![b] = [call[b] EXCEPT !.at = "placed", !.id = NewId]]
        /\ UNCHANGED feed
    BY <1>0, <1>3 DEF BidCommits, At
  <2>2. /\ call'[b].at = "placed" /\ call'[b].id = NewId
        /\ call'[b].newClose = call[b].newClose /\ call'[b].row = call[b].row
    BY <1>0, <2>1 DEF Calls
  <2>3. FeedAgrees
    BY <1>1, <2>1, <2>2 DEF Outlined, FeedOutline
  <2>4. /\ rfq.status = "ACTIVE" /\ rfq'.status = "ACTIVE"
        /\ bids' = bids \cup {BidRow(call[b].req, NewId)}
        /\ BidRow(call[b].req, NewId).id = NewId
        /\ logs' = logs \cup ExtensionLog(b)
        /\ rfq'.close = IF Extended(b) THEN call[b].newClose ELSE rfq.close
    BY <1>0, <1>3, CommitFacts
  <2>5. {x.id : x \in bids'} = {x.id : x \in bids} \cup {NewId}
    BY <2>4
  <2>6. (feed.placed \cup {NewId}) = {x.id : x \in bids'}
    BY <2>3, <2>5 DEF FeedAgrees, AllBidsTold
  <2>7. IF Extended(b) THEN rfq'.close = call[b].newClose ELSE CloseTold'
    <3>1. ~Extended(b) => logs' = logs /\ rfq'.close = rfq.close
      BY <2>4 DEF ExtensionLog
    <3> QED
      BY <2>1, <2>3, <2>4, <3>1 DEF FeedAgrees, CloseTold
  <2>8. BidUntold(b)'
    BY <2>1, <2>2, <2>3, <2>4, <2>6, <2>7 DEF BidUntold, Extended, FeedAgrees
  <2> QED
    BY <2>1, <2>2, <2>8 DEF Outlined, FeedOutline
<1>4. CASE AnnounceBid(b)
  <2>1. /\ call[b].at = "placed" /\ UNCHANGED database
        /\ feed' = [feed EXCEPT !.placed = @ \cup {call[b].id}]
        /\ \/ Extended(b) /\ call' = [call EXCEPT ![b] = [call[b] EXCEPT !.at = "extended"]]
           \/ ~Extended(b) /\ call' = [call EXCEPT ![b] = Idle]
    BY <1>0, <1>4, Published DEF AnnounceBid, At, Goto, Return
  <2>2. \/ /\ Extended(b) /\ call'[b].at = "extended"
           /\ call'[b].newClose = call[b].newClose /\ call'[b].row = call[b].row
        \/ ~Extended(b) /\ call'[b].at = "idle"
    BY <1>0, <2>1 DEF Calls, Idle
  <2>3. BidUntold(b)
    BY <1>1, <2>1, <2>2 DEF Outlined, FeedOutline
  <2>4. /\ feed'.placed = {x.id : x \in bids} /\ feed'.close = feed.close
        /\ feed'.closed = feed.closed
    BY <1>0, <2>1, <2>3 DEF BidUntold
  <2>5. AllBidsTold'
    BY <2>1, <2>4 DEF AllBidsTold, database
  <2>6. CASE Extended(b)
    <3>1. ExtensionUntold(b)'
      BY <2>1, <2>2, <2>3, <2>4, <2>5, <2>6 DEF ExtensionUntold, BidUntold, database
    <3> QED
      BY <2>1, <2>2, <2>6, <3>1 DEF Outlined, FeedOutline
  <2>7. CASE ~Extended(b)
    <3>1. FeedAgrees'
      BY <2>1, <2>3, <2>4, <2>5, <2>7 DEF FeedAgrees, BidUntold, CloseTold, database
    <3> QED
      BY <2>1, <2>2, <2>7, <3>1 DEF Outlined, FeedOutline
  <2> QED
    BY <2>6, <2>7
<1>5. CASE AnnounceExtension(b)
  <2>1. /\ call[b].at = "extended" /\ UNCHANGED database
        /\ feed' = [feed EXCEPT !.close = call[b].newClose]
        /\ call'[b].at \in {"idle", "unschedule"}
    BY <1>0, <1>5, Published DEF AnnounceExtension, AnnouncedClose, At, Return, Calls, Idle
  <2>2. ExtensionUntold(b)
    BY <1>1, <2>1 DEF Outlined, FeedOutline
  <2>3. feed'.placed = feed.placed /\ feed'.close = rfq.close /\ feed'.closed = feed.closed
    BY <1>0, <2>1, <2>2 DEF ExtensionUntold
  <2>4. FeedAgrees'
    BY <2>1, <2>2, <2>3 DEF FeedAgrees, ExtensionUntold, AllBidsTold, CloseTold, database
  <2> QED
    BY <2>1, <2>4 DEF Outlined, FeedOutline
<1> QED
  BY <1>2, <1>3, <1>4, <1>5 DEF BidStep, BidReadsRfq, BidChecksBest, BidEvaluates, At

(* The steps of a closing call. *)
LEMMA ClosureTold ==
    ASSUME MaxInFlight = 1, MaxFaults = 0, SerialInv, FeedToldInv, [Next]_vars,
           NEW p \in Closers \cup {Worker}, CloseStep(p) \/ (p \in Closers /\ CancelClosure(p))
    PROVE  FeedToldInv'
<1>0. /\ TypeOK /\ p \in Procs /\ call[p] \in Calls /\ call \in [Procs -> Calls]
      /\ feed \in [placed : SUBSET Nat, close : Nat, closed : BOOLEAN]
  BY DEF SerialInv, Inv, TypeInv, TypeOK, Procs
<1>1. SUFFICES ASSUME call'[p] # call[p] => Outlined(p)
               PROVE  call'[p] # call[p] /\ Outlined(p)'
  BY <1>0, FeedByOne
<1>2. CASE SaveClosed(p)
  <2>1. /\ call[p].at = "save" /\ rfq' = call[p].row /\ UNCHANGED <<bids, feed>>
        /\ call'[p].at \in {"closed", "cancel"}
    BY <1>0, <1>2 DEF SaveClosed, At, Goto, Calls
  <2>2. FeedAgrees
    BY <1>1, <2>1 DEF Outlined, FeedOutline
  <2>3. rfq.status = "ACTIVE" /\ rfq'.status = "CLOSED"
    BY <1>0, <2>1 DEF SerialInv, ClosesOpenRow
  <2>4. ClosureUntold'
    BY <2>1, <2>2, <2>3 DEF ClosureUntold, FeedAgrees, AllBidsTold
  <2> QED
    BY <2>1, <2>4 DEF Outlined, FeedOutline
<1>3. CASE CancelClosure(p)
  <2>1. call[p].at = "cancel" /\ call'[p].at = "closed" /\ UNCHANGED <<database, feed>>
    BY <1>0, <1>3 DEF CancelClosure, At, Goto, Calls
  <2>2. ClosureUntold
    BY <1>1, <2>1 DEF Outlined, FeedOutline
  <2>3. ClosureUntold'
    BY <2>1, <2>2 DEF ClosureUntold, AllBidsTold, database
  <2> QED
    BY <2>1, <2>3 DEF Outlined, FeedOutline
<1>4. CASE AnnounceClosed(p)
  <2>1. /\ call[p].at = "closed" /\ call'[p].at \in {"idle", "finish"}
        /\ UNCHANGED database /\ feed' = [feed EXCEPT !.closed = TRUE]
    BY <1>0, <1>4, Published DEF AnnounceClosed, At, Goto, Return, Calls, Idle
  <2>2. ClosureUntold
    BY <1>1, <2>1 DEF Outlined, FeedOutline
  <2>3. feed'.placed = feed.placed /\ feed'.closed
    BY <1>0, <2>1
  <2>4. FeedAgrees'
    BY <2>1, <2>2, <2>3 DEF FeedAgrees, ClosureUntold, AllBidsTold, CloseTold, database
  <2> QED
    BY <2>1, <2>4 DEF Outlined, FeedOutline
<1> QED
  BY <1>2, <1>3, <1>4 DEF CloseStep

(* The steps that neither write the database nor publish.                   *)
LEMMA QuietTold ==
    ASSUME MaxInFlight = 1, MaxFaults = 0, SerialInv, FeedToldInv, [Next]_vars,
           NEW p \in Procs,
           \/ \E r \in Requests : BidArrives(p, r)
           \/ EarlyClose(p)
           \/ ScheduleStep(p)
           \/ p = Worker /\ (WorkerFires \/ WorkerFinds \/ WorkerFinishes)
    PROVE  FeedToldInv'
<1>0. TypeOK /\ call[p] \in Calls /\ call \in [Procs -> Calls]
  BY DEF SerialInv, Inv, TypeInv, TypeOK
<1>1. SUFFICES ASSUME call'[p] # call[p] => Outlined(p)
               PROVE  call'[p] # call[p] /\ Outlined(p)'
  BY <1>0, FeedByOne
<1>2. /\ call[p].at \in {"idle", "unschedule", "enqueue", "find", "finish"}
      /\ call'[p].at # call[p].at
      /\ call'[p].at \notin {"placed", "extended", "cancel", "closed"}
      /\ UNCHANGED <<database, feed>>
  <2>1. CASE (\E r \in Requests : BidArrives(p, r)) \/ EarlyClose(p) \/ (p = Worker /\ WorkerFires)
    <3>1. call[p] = Idle /\ UNCHANGED <<database, feed>>
      BY <2>1 DEF BidArrives, EarlyClose, WorkerFires, MayStart
    <3>2. \/ \E r \in Requests : call'[p] = [Idle EXCEPT !.at = "read", !.req = r]
          \/ call'[p] = [Idle EXCEPT !.at = "save", !.row = ClosedAt(now)]
          \/ call'[p] = [Idle EXCEPT !.at = "find"]
      BY <1>0, <2>1 DEF BidArrives, EarlyClose, WorkerFires
    <3>3. call'[p].at \in {"read", "save", "find"}
      BY <3>2 DEF Idle
    <3>4. call[p].at = "idle"
      BY <3>1 DEF Idle
    <3> QED
      BY <3>1, <3>3, <3>4
  <2>2. CASE ScheduleStep(p) \/ (p = Worker /\ WorkerFinishes)
    BY <1>0, <2>2 DEF ScheduleStep, UnscheduleTask, EnqueueTask, WorkerFinishes,
       At, Goto, Return, Calls, Idle
  <2>3. CASE p = Worker /\ WorkerFinds
    <3>1. call[p].at = "find" /\ UNCHANGED <<database, feed>>
      BY <2>3 DEF WorkerFinds, At
    <3>2. \/ call'[p] = [call[p] EXCEPT !.at = "finish"]
          \/ call'[p] = [call[p] EXCEPT !.at = "unschedule", !.delay = rfq.close - now]
          \/ call'[p] = [call[p] EXCEPT !.at = "save", !.row = ClosedAt(rfq.close)]
      BY <1>0, <2>3 DEF WorkerFinds
    <3> QED
      BY <1>0, <3>1, <3>2 DEF Calls
  <2> QED
    BY <2>1, <2>2, <2>3
<1>3. FeedAgrees
  BY <1>1, <1>2 DEF Outlined, FeedOutline
<1> QED
  BY <1>0, <1>2, <1>3, StillAgrees

(* Without failures every step keeps the feed told. *)
LEMMA FeedToldInvStep ==
    ASSUME MaxInFlight = 1, MaxFaults = 0, SerialInv, FeedToldInv, [Next]_vars
    PROVE  FeedToldInv'
<1>0. TypeOK /\ OneAtATime /\ NothingBeforeRow
  BY DEF SerialInv, Inv, TypeInv
<1>1. CASE CreateRfq
  <2>1. InFlight = {} /\ Creator \in Procs
    BY <1>0, <1>1, StartsAlone DEF CreateRfq, Procs
  <2>2. FeedAgrees
    BY <2>1 DEF FeedToldInv, NobodyInFlight
  <2>3. rfq.status = "NONE" /\ rfq'.status = "ACTIVE" /\ logs' = {} /\ UNCHANGED <<bids, feed>>
    BY <1>0, <1>1 DEF CreateRfq, NothingBeforeRow
  <2>4. FeedAgrees'
    BY <2>2, <2>3 DEF FeedAgrees, AllBidsTold, CloseTold
  <2>5. \A q \in Procs : call'[q].at \in {"idle", "unschedule"}
    <3> DEFINE c == [Idle EXCEPT !.at = "unschedule", !.delay = terms.close - now]
    <3>1. \A q \in Procs : call[q].at = "idle"
      BY <2>1 DEF InFlight, Idle
    <3>2. call' = call \/ call' = [call EXCEPT ![Creator] = c]
      BY <1>1 DEF CreateRfq
    <3>3. c.at = "unschedule"
      BY DEF Idle
    <3> HIDE DEF c
    <3> QED
      BY <1>0, <3>1, <3>2, <3>3 DEF TypeOK
  <2> QED
    BY <2>4, <2>5 DEF FeedToldInv, FeedOutline
<1>2. CASE Tick \/ UNCHANGED vars
  BY <1>2 DEF Tick, vars, database, FeedToldInv, FeedOutline, FeedAgrees, AllBidsTold, CloseTold,
     BidUntold, ExtensionUntold, ClosureUntold, NobodyInFlight, InFlight, Extended
<1>3. ~Failure
  BY <1>0, Published DEF Failure, Crash, DatabaseFails
<1>4. CASE \E b \in Bidders : BidStep(b)
  BY <1>4, BidTold
<1>5. CASE \/ \E p \in Closers \cup {Worker} : CloseStep(p)
           \/ \E c \in Closers : CancelClosure(c)
  BY <1>5, ClosureTold
<1>6. CASE \/ \E p \in Procs : (\E r \in Requests : BidArrives(p, r)) \/ EarlyClose(p) \/ ScheduleStep(p)
           \/ WorkerFires \/ WorkerFinds \/ WorkerFinishes
  BY <1>6, QuietTold DEF Procs
<1> QED
  BY <1>1, <1>2, <1>3, <1>4, <1>5, <1>6 DEF Next, Arrival, Step, Procs

(* A page that heard every event of a service that handled one call at a    *)
(* time, and met no failure, agrees with the database between two calls     *)
(* (bid_service.go:140-151, rfq_service.go:100, handler.go:69).             *)
THEOREM SerialFeedIsCurrent ==
    ASSUME MaxInFlight = 1, MaxFaults = 0
    PROVE  Spec => []FeedIsCurrent
<1>1. Init => FeedToldInv
  BY DEF Init, FeedToldInv, FeedOutline, FeedAgrees, AllBidsTold, CloseTold, NoRow, Idle
<1>2. SerialInv /\ FeedToldInv /\ [Next]_vars => FeedToldInv'
  BY FeedToldInvStep
<1>3. FeedToldInv => FeedIsCurrent
  BY DEF FeedToldInv, FeedAgrees, AllBidsTold, CloseTold, FeedIsCurrent
<1> QED
  BY <1>1, <1>2, <1>3, SerialInvariance, PTL DEF Spec

----------------------------------------------------------------------------
(* The closure task, when nothing fails and no task is early. *)

(* What one call owes the task, and the task owes nobody. *)
TaskKeptBy(p) == TaskOutline(p) /\ (call[p].at = "idle" => TaskWaits)

(* It is enough to follow the call that moves.                              *)
LEMMA TaskByOne ==
    ASSUME MaxInFlight = 1, SerialInv, TaskInv, [Next]_vars,
           NEW p \in Procs, call'[p] # call[p]
    PROVE  TaskKeptBy(p) /\ (TaskKeptBy(p)' => TaskInv')
<1>1. TaskKeptBy(p)
  BY ChangesAlone DEF TaskKeptBy, TaskInv
<1>2. ASSUME TaskKeptBy(p)' PROVE TaskInv'
  <2>1. NobodyInFlight' => TaskWaits'
    BY <1>2, ChangesAlone DEF TaskKeptBy
  <2>2. TaskOutline(p)'
    BY <1>2 DEF TaskKeptBy
  <2>3. ASSUME NEW q \in Procs \ {p} PROVE TaskOutline(q)'
    <3>1. call'[q].at = "idle"
      BY ChangesAlone DEF Idle
    <3> QED
      BY <3>1 DEF TaskOutline
  <2> QED
    BY <2>1, <2>2, <2>3 DEF TaskInv
<1> QED
  BY <1>1, <1>2

(* A step that leaves clock, row and task alone.                            *)
LEMMA StillWaits ==
    ASSUME TaskWaits, UNCHANGED <<now, rfq, task>>
    PROVE  TaskWaits'
  BY DEF TaskWaits

(* The close time of an open RFQ is within the clock of the model. *)
LEMMA CloseInTime ==
    ASSUME TermsInTime, SerialInv, rfq.status = "ACTIVE"
    PROVE  rfq.close <= MaxTime
<1>1. /\ TypeOK /\ CloseTimeExplained /\ ExtensionsExplained
      /\ logs \subseteq [bid : Nat, prev : Nat, new : Nat, mins : Nat]
  BY DEF SerialInv, Inv, TypeInv, LogInv, TypeOK
<1>2. terms \in Terms /\ terms.forced \in Nat /\ terms.close \in Nat
  BY <1>1, TermsAssumption DEF TypeOK
<1>3. terms.close <= MaxTime /\ terms.forced <= MaxTime
  BY <1>2 DEF TermsInTime
<1>4. \A l \in logs : l.new \in Nat /\ l.new <= terms.forced
  BY <1>1 DEF ExtensionsExplained
<1> QED
  BY <1>1, <1>2, <1>3, <1>4, ClockAssumption DEF CloseTimeExplained

(* The bid's own steps. *)
LEMMA BidKeepsTask ==
    ASSUME MaxInFlight = 1, MaxFaults = 0, SerialInv, TaskInv, [Next]_vars,
           NEW b \in Bidders, BidStep(b)
    PROVE  TaskInv'
<1>0. /\ TypeOK /\ b \in Procs /\ b # Worker /\ call[b] \in Calls /\ call \in [Procs -> Calls]
      /\ rfq \in [status : Status, close : Nat] /\ now \in Nat
  BY ProcsAssumption, ClockAssumption DEF SerialInv, Inv, TypeInv, TypeOK, Procs, Rows
<1>1. SUFFICES ASSUME call'[b] # call[b] => TaskKeptBy(b)
               PROVE  call'[b] # call[b] /\ TaskKeptBy(b)'
  BY <1>0, TaskByOne
<1>2. CASE call[b].at \in {"read", "best", "rank"} \/ BidIsDuplicate(b)
  <2>1. /\ call[b].at \in {"read", "best", "rank", "commit"}
        /\ call'[b].at # call[b].at
        /\ call'[b].at \in {"idle", "best", "rank", "commit"}
        /\ UNCHANGED <<now, rfq, task>>
    BY <1>0, <1>2 DEF BidStep, BidReadsRfq, BidChecksBest, BidEvaluates, BidCommits,
       BidIsDuplicate, AnnounceBid, AnnounceExtension, At, Goto, Return, Calls, Idle, database
  <2>2. TaskWaits'
    BY <1>1, <2>1, StillWaits DEF TaskKeptBy, TaskOutline
  <2> QED
    BY <2>1, <2>2 DEF TaskKeptBy, TaskOutline
<1>3. CASE BidCommits(b)
  <2>1. /\ call[b].at = "commit"
        /\ call' = [call EXCEPT ![b] = [call[b] EXCEPT !.at = "placed", !.id = NewId]]
        /\ UNCHANGED <<now, task>>
    BY <1>0, <1>3 DEF BidCommits, At
  <2>2. /\ call'[b].at = "placed"
        /\ call'[b].newClose = call[b].newClose /\ call'[b].row = call[b].row
    BY <1>0, <2>1 DEF Calls
  <2>3. TaskWaits
    BY <1>1, <2>1, <2>2 DEF TaskKeptBy, TaskOutline
  <2>4. /\ rfq.status = "ACTIVE" /\ rfq'.status = "ACTIVE"
        /\ rfq'.close = IF Extended(b) THEN call[b].newClose ELSE rfq.close
    BY <1>0, <1>3, CommitFacts
  <2>5. ~Extended(b) => TaskWaits'
    BY <2>1, <2>3, <2>4 DEF TaskWaits
  <2>6. Extended(b)' <=> Extended(b)
    BY <2>2 DEF Extended
  <2> QED
    BY <2>1, <2>2, <2>3, <2>4, <2>5, <2>6 DEF TaskKeptBy, TaskOutline, TaskWaits
<1>4. CASE AnnounceBid(b)
  <2>1. /\ call[b].at = "placed" /\ UNCHANGED <<now, rfq, task>>
        /\ \/ Extended(b) /\ call' = [call EXCEPT ![b] = [call[b] EXCEPT !.at = "extended"]]
           \/ ~Extended(b) /\ call' = [call EXCEPT ![b] = Idle]
    BY <1>0, <1>4 DEF AnnounceBid, At, Goto, Return, database
  <2>2. \/ /\ Extended(b) /\ call'[b].at = "extended" /\ call'[b].newClose = call[b].newClose
        \/ ~Extended(b) /\ call'[b].at = "idle"
    BY <1>0, <2>1 DEF Calls, Idle
  <2>3. /\ rfq.status = "ACTIVE" /\ task.state = "scheduled"
        /\ IF Extended(b) THEN rfq.close = call[b].newClose ELSE TaskWaits
    BY <1>1, <2>1, <2>2 DEF TaskKeptBy, TaskOutline
  <2>4. ~Extended(b) => TaskWaits'
    BY <2>1, <2>3, StillWaits
  <2> QED
    BY <2>1, <2>2, <2>3, <2>4 DEF TaskKeptBy, TaskOutline
<1>5. CASE AnnounceExtension(b)
  <2> DEFINE delay == call[b].newClose - now
  <2>1. /\ call[b].at = "extended" /\ UNCHANGED <<now, rfq, task>>
        /\ \/ /\ delay > 0
              /\ call' = [call EXCEPT ![b] = [call[b] EXCEPT !.at = "unschedule", !.delay = delay]]
           \/ ~(delay > 0) /\ call' = [call EXCEPT ![b] = Idle]
    BY <1>0, <1>5 DEF AnnounceExtension, WorthScheduling, At, Return, database
  <2>2. \/ delay > 0 /\ call'[b].at = "unschedule" /\ call'[b].delay = delay
        \/ ~(delay > 0) /\ call'[b].at = "idle"
    <3> HIDE DEF delay
    <3>1. CASE ~(delay > 0) /\ call' = [call EXCEPT ![b] = Idle]
      BY <1>0, <3>1 DEF Idle
    <3>2. CASE delay > 0 /\ call' = [call EXCEPT ![b] = [call[b] EXCEPT !.at = "unschedule", !.delay = delay]]
      BY <1>0, <3>2 DEF Calls
    <3> QED
      BY <2>1, <3>1, <3>2
  <2>3. rfq.status = "ACTIVE" /\ task.state = "scheduled" /\ rfq.close = call[b].newClose
    BY <1>1, <2>1, <2>2 DEF TaskKeptBy, TaskOutline
  <2>4. call[b].newClose \in Nat
    BY <1>0 DEF Calls
  <2>5. CASE delay > 0
    <3>1. TaskToCome(b)'
      BY <1>0, <2>1, <2>2, <2>3, <2>4, <2>5 DEF TaskToCome
    <3> QED
      BY <2>1, <2>2, <2>5, <3>1 DEF TaskKeptBy, TaskOutline
  <2>6. CASE ~(delay > 0)
    <3>1. TaskWaits'
      BY <1>0, <2>1, <2>3, <2>4, <2>6 DEF TaskWaits
    <3> QED
      BY <2>1, <2>2, <2>6, <3>1 DEF TaskKeptBy, TaskOutline
  <2> QED
    BY <2>5, <2>6
<1> QED
  BY <1>2, <1>3, <1>4, <1>5 DEF BidStep, BidReadsRfq, BidChecksBest, BidEvaluates, At

(* The steps of a closing call. *)
LEMMA ClosureKeepsTask ==
    ASSUME MaxInFlight = 1, MaxFaults = 0, SerialInv, TaskInv, [Next]_vars,
           NEW p \in Closers \cup {Worker}, CloseStep(p) \/ (p \in Closers /\ CancelClosure(p))
    PROVE  TaskInv'
<1>0. /\ TypeOK /\ p \in Procs /\ call[p] \in Calls /\ call \in [Procs -> Calls]
      /\ p \in Closers => p # Worker
  BY ProcsAssumption DEF SerialInv, Inv, TypeInv, TypeOK, Procs
<1>1. SUFFICES ASSUME call'[p] # call[p] => TaskKeptBy(p)
               PROVE  call'[p] # call[p] /\ TaskKeptBy(p)'
  BY <1>0, TaskByOne
<1>2. CASE SaveClosed(p)
  <2>1. /\ call[p].at = "save" /\ rfq' = call[p].row /\ UNCHANGED task
        /\ call'[p].at \in {"closed", "cancel"}
    BY <1>0, <1>2 DEF SaveClosed, At, Goto, Calls
  <2>2. rfq'.status = "CLOSED"
    BY <1>0, <2>1 DEF SerialInv, ClosesOpenRow
  <2>3. p = Worker \/ task.state # "active"
    BY <1>1, <2>1 DEF TaskKeptBy, TaskOutline
  <2> QED
    BY <2>1, <2>2, <2>3 DEF TaskKeptBy, TaskOutline
<1>3. CASE p \in Closers /\ CancelClosure(p)
  <2>1. /\ call[p].at = "cancel" /\ call'[p].at = "closed" /\ UNCHANGED rfq
        /\ task' = task \/ DeleteTask
    BY <1>0, <1>3 DEF CancelClosure, At, Goto, Calls, database
  <2>2. task.state # "active" /\ rfq.status = "CLOSED"
    BY <1>0, <1>1, <1>3, <2>1 DEF TaskKeptBy, TaskOutline
  <2>3. task'.state # "active"
    BY <2>1, <2>2 DEF DeleteTask, NoTask
  <2> QED
    BY <2>1, <2>2, <2>3 DEF TaskKeptBy, TaskOutline
<1>4. CASE AnnounceClosed(p)
  <2>1. /\ call[p].at = "closed" /\ UNCHANGED <<now, rfq, task>>
        /\ call'[p].at = IF p = Worker THEN "finish" ELSE "idle"
    BY <1>0, <1>4 DEF AnnounceClosed, At, Goto, Return, Calls, Idle, database
  <2>2. rfq.status = "CLOSED" /\ (p = Worker \/ task.state # "active")
    BY <1>1, <2>1 DEF TaskKeptBy, TaskOutline
  <2> QED
    BY <2>1, <2>2 DEF TaskKeptBy, TaskOutline, TaskWaits
<1> QED
  BY <1>2, <1>3, <1>4 DEF CloseStep

(* A task that has been deleted is enqueued again for the close time.       *)
LEMMA ScheduleKeepsTask ==
    ASSUME MaxInFlight = 1, MaxFaults = 0, TermsInTime, SerialInv, TaskInv, [Next]_vars,
           NEW p \in Bidders \cup {Creator, Worker}, ScheduleStep(p)
    PROVE  TaskInv'
<1>0. /\ TypeOK /\ p \in Procs /\ call[p] \in Calls /\ call \in [Procs -> Calls]
      /\ now \in Nat /\ rfq.close \in Nat
  BY ClockAssumption DEF SerialInv, Inv, TypeInv, TypeOK, Procs, Rows
<1>1. SUFFICES ASSUME call'[p] # call[p] => TaskKeptBy(p)
               PROVE  call'[p] # call[p] /\ TaskKeptBy(p)'
  BY <1>0, TaskByOne
<1>2. CASE UnscheduleTask(p)
  <2>1. /\ call[p].at = "unschedule" /\ DeleteTask /\ UNCHANGED <<now, rfq>>
        /\ call'[p].at = "enqueue" /\ call'[p].delay = call[p].delay
    BY <1>0, <1>2, Published DEF UnscheduleTask, At, Goto, Calls, database
  <2>2. TaskToCome(p)
    BY <1>1, <2>1 DEF TaskKeptBy, TaskOutline
  <2>3. TaskToCome(p)'
    BY <2>1, <2>2 DEF TaskToCome, DeleteTask, NoTask
  <2> QED
    BY <2>1, <2>3 DEF TaskKeptBy, TaskOutline
<1>3. CASE EnqueueTask(p)
  <2>1. /\ call[p].at = "enqueue" /\ Enqueue(call[p].delay) /\ UNCHANGED <<now, rfq>>
        /\ call'[p].at = IF p = Worker THEN "finish" ELSE "idle"
    BY <1>0, <1>3, Published DEF EnqueueTask, At, Goto, Return, Calls, Idle, database
  <2>2. TaskToCome(p)
    BY <1>1, <2>1 DEF TaskKeptBy, TaskOutline
  <2>3. /\ p # Worker /\ rfq.status = "ACTIVE" /\ rfq.close <= now + call[p].delay
        /\ task'.state = "scheduled"
        /\ task'.due = IF now + call[p].delay < MaxTime THEN now + call[p].delay ELSE MaxTime
    BY <2>1, <2>2 DEF TaskToCome, Enqueue
  <2>4. rfq.close <= task'.due
    BY <2>3, CloseInTime
  <2>5. TaskWaits'
    BY <2>1, <2>3, <2>4 DEF TaskWaits
  <2> QED
    BY <2>1, <2>3, <2>5 DEF TaskKeptBy, TaskOutline
<1> QED
  BY <1>2, <1>3 DEF ScheduleStep

(* The worker's task is due, so that it closes what it finds open.          *)
LEMMA WorkerKeepsTask ==
    ASSUME MaxInFlight = 1, EarlyBy = 0, SerialInv, TaskInv, [Next]_vars,
           WorkerFires \/ WorkerFinds \/ WorkerFinishes
    PROVE  TaskInv'
<1>0. /\ TypeOK /\ Worker \in Procs /\ call[Worker] \in Calls /\ call \in [Procs -> Calls]
      /\ now \in Nat /\ rfq.close \in Nat /\ task.due \in Nat
  BY ClockAssumption DEF SerialInv, Inv, TypeInv, TypeOK, Procs, Rows, Tasks
<1>1. SUFFICES ASSUME call'[Worker] # call[Worker] => TaskKeptBy(Worker)
               PROVE  call'[Worker] # call[Worker] /\ TaskKeptBy(Worker)'
  BY <1>0, TaskByOne
<1>2. CASE WorkerFires
  <2>1. /\ call[Worker].at = "idle" /\ task.state = "scheduled" /\ task.due <= now
        /\ call'[Worker] = [Idle EXCEPT !.at = "find"] /\ UNCHANGED <<now, rfq>>
    BY <1>0, <1>2 DEF WorkerFires, Fire, MayStart, Idle, database
  <2>2. call'[Worker].at = "find"
    BY <2>1 DEF Idle
  <2>3. TaskWaits
    BY <1>1, <2>1, <2>2 DEF TaskKeptBy
  <2>4. rfq'.status = "ACTIVE" => rfq'.close <= now'
    BY <1>0, <2>1, <2>3 DEF TaskWaits
  <2> QED
    BY <2>1, <2>2, <2>4 DEF TaskKeptBy, TaskOutline
<1>3. CASE WorkerFinds
  <2>1. call[Worker].at = "find" /\ UNCHANGED <<now, rfq, task>>
    BY <1>3 DEF WorkerFinds, At, database
  <2>2. \/ /\ rfq.status # "ACTIVE"
           /\ call'[Worker] = [call[Worker] EXCEPT !.at = "finish"]
        \/ /\ rfq.status = "ACTIVE" /\ Premature(rfq)
           /\ call'[Worker] = [call[Worker] EXCEPT !.at = "unschedule", !.delay = rfq.close - now]
        \/ call'[Worker] = [call[Worker] EXCEPT !.at = "save", !.row = ClosedAt(rfq.close)]
    BY <1>0, <1>3 DEF WorkerFinds
  <2>3. \/ rfq.status # "ACTIVE" /\ call'[Worker].at = "finish"
        \/ rfq.status = "ACTIVE" /\ Premature(rfq) /\ call'[Worker].at = "unschedule"
        \/ call'[Worker].at = "save"
    BY <1>0, <2>2 DEF Calls
  <2>4. rfq.status = "ACTIVE" => rfq.close <= now
    BY <1>1, <2>1, <2>3 DEF TaskKeptBy, TaskOutline
  <2>5. ~(rfq.status = "ACTIVE" /\ Premature(rfq))
    BY <1>0, <2>4 DEF Premature
  <2> QED
    BY <2>1, <2>3, <2>5 DEF TaskKeptBy, TaskOutline
<1>4. CASE WorkerFinishes
  <2>1. /\ call[Worker].at = "finish" /\ call'[Worker].at = "idle" /\ UNCHANGED <<now, rfq>>
        /\ task' = NoTask
    BY <1>0, <1>4 DEF WorkerFinishes, Complete, At, Return, Idle, database
  <2>2. rfq.status # "ACTIVE"
    BY <1>1, <2>1 DEF TaskKeptBy, TaskOutline
  <2>3. TaskWaits'
    BY <2>1, <2>2 DEF TaskWaits, NoTask
  <2> QED
    BY <2>1, <2>3 DEF TaskKeptBy, TaskOutline
<1> QED
  BY <1>2, <1>3, <1>4

(* Calls that arrive. *)
LEMMA ArrivalKeepsTask ==
    ASSUME MaxInFlight = 1, TermsInTime, SerialInv, TaskInv, [Next]_vars, Arrival
    PROVE  TaskInv'
<1>0. /\ TypeOK /\ call \in [Procs -> Calls] /\ now \in Nat /\ terms \in Terms
      /\ Bidders \subseteq Procs /\ Closers \subseteq Procs /\ Creator \in Procs
      /\ Creator # Worker /\ Worker \notin Closers
  BY ClockAssumption, ProcsAssumption DEF SerialInv, Inv, TypeInv, TypeOK, Procs
<1>1. CASE CreateRfq
  <2> DEFINE delay == terms.close - now
  <2>1. terms.close \in Nat /\ LatestCreate < terms.close /\ now <= LatestCreate
    BY <1>0, <1>1, TermsAssumption DEF TermsInTime, CreateRfq
  <2>2. delay \in Nat /\ delay > 0 /\ now + delay = terms.close
    BY <1>0, <2>1, BoundAssumption
  <2>3. /\ call[Creator].at = "idle" /\ UNCHANGED <<now, task>>
        /\ rfq' = [status |-> "ACTIVE", close |-> terms.close]
        /\ call'[Creator] = [Idle EXCEPT !.at = "unschedule", !.delay = delay]
    BY <1>0, <1>1, <2>2 DEF CreateRfq, WorthScheduling, MayStart, Idle
  <2>4. call'[Creator].at = "unschedule" /\ call'[Creator].delay = delay
    BY <2>3 DEF Idle
  <2>5. TaskWaits
    BY <1>0, <2>3, <2>4, TaskByOne DEF TaskKeptBy
  <2>6. TaskToCome(Creator)'
    <3>1. rfq'.close <= now' + delay
      BY <2>1, <2>2, <2>3
    <3> QED
      BY <1>0, <2>3, <2>4, <2>5, <3>1 DEF TaskToCome, TaskWaits
  <2>7. TaskKeptBy(Creator)'
    BY <2>4, <2>6 DEF TaskKeptBy, TaskOutline
  <2> QED
    BY <1>0, <2>3, <2>4, <2>7, TaskByOne
<1>2. ASSUME NEW b \in Bidders, NEW r \in Requests, BidArrives(b, r) PROVE TaskInv'
  <2>1. /\ call[b].at = "idle" /\ UNCHANGED <<now, rfq, task>>
        /\ call'[b] = [Idle EXCEPT !.at = "read", !.req = r]
    BY <1>0, <1>2 DEF BidArrives, MayStart, Idle, database
  <2>2. call'[b].at = "read"
    BY <2>1 DEF Idle
  <2>3. TaskWaits'
    BY <1>0, <2>1, <2>2, TaskByOne, StillWaits DEF TaskKeptBy
  <2>4. TaskKeptBy(b)'
    BY <2>2, <2>3 DEF TaskKeptBy, TaskOutline
  <2> QED
    BY <1>0, <2>1, <2>2, <2>4, TaskByOne
<1>3. ASSUME NEW c \in Closers, EarlyClose(c) PROVE TaskInv'
  <2>1. /\ call[c].at = "idle" /\ UNCHANGED <<now, rfq, task>>
        /\ call'[c] = [Idle EXCEPT !.at = "save", !.row = ClosedAt(now)]
    BY <1>0, <1>3 DEF EarlyClose, MayStart, Idle, database
  <2>2. call'[c].at = "save"
    BY <2>1 DEF Idle
  <2>3. TaskWaits
    BY <1>0, <2>1, <2>2, TaskByOne DEF TaskKeptBy
  <2>4. TaskKeptBy(c)'
    BY <2>1, <2>2, <2>3 DEF TaskKeptBy, TaskOutline, TaskWaits
  <2> QED
    BY <1>0, <2>1, <2>2, <2>4, TaskByOne
<1> QED
  BY <1>1, <1>2, <1>3 DEF Arrival

(* Time passes: what is due stays due. *)
LEMMA TickKeepsTask ==
    ASSUME SerialInv, TaskInv, Tick \/ UNCHANGED vars
    PROVE  TaskInv'
<1>1. /\ UNCHANGED <<rfq, call, task>>
      /\ now \in Nat /\ now' \in Nat /\ now <= now'
      /\ rfq.close \in Nat
      /\ \A p \in Procs : call[p].delay \in Nat
  <2>1. /\ now \in Nat /\ rfq.close \in Nat /\ \A p \in Procs : call[p] \in Calls
    BY ClockAssumption DEF SerialInv, Inv, TypeInv, TypeOK, Rows
  <2>2. UNCHANGED <<rfq, call, task>> /\ (now' = now \/ now' = now + 1)
    BY DEF Tick, vars, database
  <2> QED
    BY <2>1, <2>2 DEF Calls
<1>2. TaskWaits => TaskWaits'
  BY <1>1 DEF TaskWaits
<1>3. ASSUME NEW p \in Procs PROVE TaskOutline(p)'
  <2>1. TaskOutline(p)
    BY DEF TaskInv
  <2>2. TaskToCome(p) => TaskToCome(p)'
    BY <1>1 DEF TaskToCome
  <2>3. Extended(p)' <=> Extended(p)
    BY <1>1 DEF Extended
  <2> QED
    BY <1>1, <1>2, <2>1, <2>2, <2>3 DEF TaskOutline
<1> QED
  BY <1>1, <1>2, <1>3 DEF TaskInv, NobodyInFlight, InFlight

(* No step loses the task of an open auction. *)
LEMMA TaskInvStep ==
    ASSUME MaxInFlight = 1, MaxFaults = 0, EarlyBy = 0, TermsInTime,
           SerialInv, TaskInv, [Next]_vars
    PROVE  TaskInv'
<1>1. ~Failure
  BY Published DEF Failure, Crash, DatabaseFails, SerialInv, Inv, TypeInv
<1> QED
  BY <1>1, ArrivalKeepsTask, BidKeepsTask, ClosureKeepsTask, ScheduleKeepsTask,
     WorkerKeepsTask, TickKeepsTask DEF Next, Step

(* Between two calls an open auction has its closure task, due neither too  *)
(* early nor forgotten (queue_impl.go:34-60, handler.go:52-60), when calls  *)
(* are handled one at a time, nothing fails and asynq is on time.           *)
THEOREM SerialClosurePending ==
    ASSUME MaxInFlight = 1, MaxFaults = 0, EarlyBy = 0, TermsInTime
    PROVE  Spec => []ClosurePending
<1>1. Init => TaskInv
  BY DEF Init, TaskInv, TaskOutline, TaskWaits, NoTask, NoRow, Idle
<1>2. SerialInv /\ TaskInv /\ [Next]_vars => TaskInv'
  BY TaskInvStep
<1>3. ASSUME SerialInv, TaskInv PROVE ClosurePending
  <2>1. now \in Int /\ task.due \in Int /\ rfq.close \in Int
    BY <1>3, ClockAssumption DEF SerialInv, Inv, TypeInv, TypeOK, Tasks, Rows
  <2>2. Max({task.due, now}) = IF now <= task.due THEN task.due ELSE now
    BY <2>1, MaxIs
  <2> QED
    BY <1>3, <2>1, <2>2 DEF TaskInv, TaskWaits, ClosurePending
<1> QED
  BY <1>1, <1>2, <1>3, SerialInvariance, PTL DEF Spec

=============================================================================
