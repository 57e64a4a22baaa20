----------------------------- MODULE NodeProofs -----------------------------
(***************************************************************************)
(* Proofs about the Node backend.  However calls overlap: the invariant of  *)
(* NodeInvariant is inductive, and what the backend keeps follows from it.  *)
(* One call at a time: the invariants of NodeSerialInvariant are inductive, *)
(* the backend implements the British auction, and its feed and closure     *)
(* job keep up with the database.                                           *)
(***************************************************************************)
EXTENDS NodeSerialInvariant, FiniteSetTheorems, FunctionTheorems, TLAPS

----------------------------------------------------------------------------
(* However calls overlap. *)

(* The verdict leaves the close time alone or moves it forward, up to the   *)
(* forced close, whatever board the query and the sort give.                *)
LEMMA NodeClosesBounds ==
    ASSUME NEW close \in Nat, NEW t \in Terms, NEW bid, NEW ledger, NEW at,
           NEW after \in NodeCloses(close, t, bid, ledger, at)
    PROVE  /\ after \in Nat
           /\ after = close \/ (close < after /\ after <= t.forced)
<1> DEFINE wanted == close + t.ext * Minute
<1>1. t.ext \in Nat /\ t.forced \in Nat
  BY NodeTermsAssumption DEF ValidTerms
<1>2. wanted \in Nat
  BY <1>1, MinuteAssumption
<1>3. after = close \/ (after = ExtendedClose(close, t) /\ after > close)
  BY DEF NodeCloses
<1> QED
  BY <1>1, <1>2, <1>3 DEF ExtendedClose

(* No bid brings the close time forward: what LiveInvariant's RuleExtends   *)
(* asks of the rules.                                                       *)
LEMMA NodeRuleExtends ==
    \A close, seen \in Nat, t \in Terms, bid \in Requests : \A ledger :
        \A after \in NodeCloses(close, t, bid, ledger, seen) : after \in Nat /\ close <= after
<1>1. TAKE close, seen \in Nat, t \in Terms, bid \in Requests
<1>2. TAKE ledger
<1>3. TAKE after \in NodeCloses(close, t, bid, ledger, seen)
<1> QED
  BY NodeClosesBounds

(* The queue operations keep the job well formed. *)
LEMMA JobTypes ==
    ASSUME job \in Jobs, now \in 0..MaxTime
    PROVE  /\ RemoveJob => job' \in Jobs
           /\ \A delay \in Nat : AddJob(delay) => job' \in Jobs
           /\ TakeJob => job' \in Jobs
           /\ FinishJob => job' \in Jobs
           /\ Unstall => job' \in Jobs
  BY NodeClockAssumption DEF Jobs, NoJob, RemoveJob, AddJob, TakeJob, FinishJob, Unstall

(* A committed bid takes an id that is new, and the next one is one more.   *)
LEMMA NewIdFacts ==
    ASSUME TypeOK, NEW row, \A x \in bids : x # row
    PROVE  /\ Cardinality(bids) \in Nat
           /\ IsFiniteSet(bids \cup {row})
           /\ Cardinality(bids \cup {row}) = Cardinality(bids) + 1
  BY FS_AddElement, FS_CardinalityType DEF TypeOK

----------------------------------------------------------------------------
(* Types. *)

(* An idle call is a call. *)
LEMMA IdleType == Idle \in Calls
  BY DEF Idle, Calls

(* A step of one call changes that call alone.                              *)
LEMMA CallTypes ==
    ASSUME TypeInv, NEW p \in Procs, NEW c \in Calls,
           c.at \in {"read", "best", "reread", "rank", "commit"} => c.req \in Requests,
           call' = [call EXCEPT ![p] = c]
    PROVE  /\ call' \in [Procs -> Calls]
           /\ CarriesRequest'
  BY DEF TypeInv, TypeOK, CarriesRequest

(* So does one that goes on to a step outside the transaction. *)
LEMMA GotoType ==
    ASSUME TypeInv, NEW p \in Procs,
           NEW at \in {"remove", "add", "update", "find", "close", "finish"}, Goto(p, at)
    PROVE  /\ call' \in [Procs -> Calls]
           /\ CarriesRequest'
  BY DEF TypeInv, TypeOK, CarriesRequest, Goto, Calls

(* And one that returns. *)
LEMMA ReturnType ==
    ASSUME TypeInv, NEW p \in Procs, Return(p)
    PROVE  /\ call' \in [Procs -> Calls]
           /\ CarriesRequest'
  BY CallTypes, IdleType DEF Return, Idle

(* Delays are natural numbers. *)
LEMMA DelayType ==
    ASSUME now \in 0..MaxTime, NEW close \in Nat
    PROVE  DelayUntil(close) \in Nat
  BY NodeClockAssumption DEF DelayUntil

(* Announcing a bid keeps the feed well formed. *)
LEMMA FeedType ==
    ASSUME TypeOK, NEW close \in Nat, NEW id \in Nat
    PROVE  /\ WithBid(feed, id) \in [placed : SUBSET Nat, close : Nat, closed : BOOLEAN]
           /\ WithBid(WithClose(feed, close), id) \in
                 [placed : SUBSET Nat, close : Nat, closed : BOOLEAN]
           /\ [feed EXCEPT !.closed = TRUE] \in
                 [placed : SUBSET Nat, close : Nat, closed : BOOLEAN]
  BY DEF TypeOK, WithBid, WithClose

(* The minutes of a log are an integer. *)
LEMMA NodeMinsType ==
    ASSUME NEW prev \in Nat, NEW new \in Nat
    PROVE  NodeMins(prev, new) \in Int
  BY MinuteAssumption DEF NodeMins

(* Every auction starts well typed. *)
LEMMA TypeInvInit == Init => TypeInv
<1> SUFFICES ASSUME Init PROVE TypeInv
  OBVIOUS
<1>1. call \in [Procs -> Calls] /\ CarriesRequest
  BY IdleType DEF Init, CarriesRequest, Idle
<1>2. job \in Jobs /\ now \in 0..MaxTime
  BY NodeClockAssumption DEF Init, NoJob, Jobs
<1>3. rfq \in [status : {"NONE", "ACTIVE", "CLOSED"}, close : Nat]
  BY DEF Init, NoRow
<1>4. IsFiniteSet(bids) /\ bids = {} /\ logs = {}
  BY FS_EmptySet DEF Init
<1> QED
  BY <1>1, <1>2, <1>3, <1>4, NodeBoundAssumption DEF Init, TypeInv, TypeOK

(* The first steps of a call. *)
LEMMA ArrivalTypes == TypeInv /\ Arrival => TypeInv'
<1> SUFFICES ASSUME TypeInv, Arrival PROVE TypeInv'
  OBVIOUS
<1>1. TypeOK /\ now \in 0..MaxTime /\ now \in Nat
  BY NodeClockAssumption DEF TypeInv, TypeOK
<1>2. Creator \in Procs /\ Bidders \subseteq Procs /\ Closers \subseteq Procs
  BY DEF Procs
<1>3. CASE NodeCreates
  <2> DEFINE delay == DelayUntil(terms.close)
             c     == [Idle EXCEPT !.at = "remove", !.delay = delay]
  <2>1. terms.close \in Nat
    BY <1>1, NodeTermsAssumption DEF TypeOK, ValidTerms
  <2>2. delay \in Nat
    BY <1>1, <2>1, DelayType
  <2> HIDE DEF delay
  <2>3. c \in Calls /\ c.at = "remove"
    BY <2>2, IdleType DEF Calls, Idle
  <2>4. UNCHANGED call \/ call' = [call EXCEPT ![Creator] = c]
    BY <1>3 DEF NodeCreates, delay
  <2>5. call' \in [Procs -> Calls] /\ CarriesRequest'
    <3>1. CASE UNCHANGED call
      BY <3>1 DEF TypeInv, TypeOK, CarriesRequest
    <3>2. CASE call' = [call EXCEPT ![Creator] = c]
      BY <1>2, <2>3, <3>2, CallTypes
    <3> QED
      BY <2>4, <3>1, <3>2
  <2>6. rfq' \in [status : {"NONE", "ACTIVE", "CLOSED"}, close : Nat]
    BY <1>3, <2>1 DEF NodeCreates
  <2>7. UNCHANGED <<now, job, terms, bids, logs, feed, process, faults>>
    BY <1>3 DEF NodeCreates
  <2> QED
    BY <1>1, <2>5, <2>6, <2>7 DEF TypeInv, TypeOK, process
<1>4. ASSUME NEW b \in Bidders, NEW r \in Requests, NodeBidArrives(b, r) PROVE TypeInv'
  <2> DEFINE c == [Idle EXCEPT !.at = "read", !.req = r, !.stamp = now]
  <2>1. c \in Calls /\ c.req = r
    BY <1>1, IdleType DEF Calls, Idle
  <2>2. UNCHANGED call \/ call' = [call EXCEPT ![b] = c]
    BY <1>4 DEF NodeBidArrives
  <2>3. call' \in [Procs -> Calls] /\ CarriesRequest'
    <3>1. CASE UNCHANGED call
      BY <3>1 DEF TypeInv, TypeOK, CarriesRequest
    <3>2. CASE call' = [call EXCEPT ![b] = c]
      BY <1>2, <2>1, <3>2, CallTypes
    <3> QED
      BY <2>2, <3>1, <3>2
  <2>4. feed' \in [placed : SUBSET Nat, close : Nat, closed : BOOLEAN]
    <3>1. UNCHANGED feed \/ \E x \in bids : feed' = WithBid(feed, x.id)
      BY <1>4 DEF NodeBidArrives
    <3>2. \A x \in bids : x.id \in Nat
      BY <1>1 DEF TypeOK
    <3> QED
      BY <1>1, <3>1, <3>2, FeedType DEF TypeOK
  <2>5. UNCHANGED <<now, job, terms, database, process, faults>>
    BY <1>4 DEF NodeBidArrives
  <2> QED
    BY <1>1, <2>3, <2>4, <2>5 DEF TypeInv, TypeOK, process, database
<1>5. ASSUME NEW p \in Closers, NodeEarlyCloses(p) PROVE TypeInv'
  <2> DEFINE c == [Idle EXCEPT !.at = "update", !.new = now]
  <2>1. c \in Calls /\ c.at = "update"
    BY <1>1, IdleType DEF Calls, Idle
  <2>2. call' = [call EXCEPT ![p] = c]
    BY <1>5 DEF NodeEarlyCloses
  <2>3. call' \in [Procs -> Calls] /\ CarriesRequest'
    BY <1>2, <2>1, <2>2, CallTypes
  <2>4. UNCHANGED <<now, job, terms, database, feed, process, faults>>
    BY <1>5 DEF NodeEarlyCloses
  <2> QED
    BY <1>1, <2>3, <2>4 DEF TypeInv, TypeOK, process, database
<1> QED
  BY <1>3, <1>4, <1>5 DEF Arrival

(* The steps of a bid. *)
LEMMA BidTypes ==
    ASSUME TypeInv, NEW b \in Bidders, BidStep(b)
    PROVE  TypeInv'
<1>1. TypeOK /\ now \in 0..MaxTime /\ now \in Nat
  BY NodeClockAssumption DEF TypeInv, TypeOK
<1>2. b \in Procs /\ call[b] \in Calls /\ call \in [Procs -> Calls]
  BY DEF Procs, TypeInv, TypeOK
<1>3. call[b].at \in {"read", "best", "reread", "rank", "commit"} => call[b].req \in Requests
  BY <1>2 DEF TypeInv, CarriesRequest
<1>4. rfq.close \in Nat /\ terms \in Terms
  BY <1>1 DEF TypeOK
<1>5. ASSUME call' \in [Procs -> Calls], CarriesRequest',
             UNCHANGED <<now, job, terms, database, feed, process, faults>>
      PROVE  TypeInv'
  BY <1>1, <1>5 DEF TypeInv, TypeOK, process, database
<1>6. CASE Return(b) /\ UNCHANGED <<now, job, terms, database, feed, process, faults>>
  BY <1>2, <1>5, <1>6, ReturnType
<1>7. ASSUME NEW at \in {"best", "reread"}, NEW read \in Nat,
             call[b].req \in Requests,
             call' = [call EXCEPT ![b] = [call[b] EXCEPT !.at = at, !.read = read]]
      PROVE  call' \in [Procs -> Calls] /\ CarriesRequest'
  <2> DEFINE c == [call[b] EXCEPT !.at = at, !.read = read]
  <2>1. c \in Calls /\ c.req \in Requests
    BY <1>2, <1>7 DEF Calls
  <2> QED
    BY <1>2, <1>7, <2>1, CallTypes
<1>8. CASE NodeReadsRfq(b)
  <2>1. CASE rfq.status = "ACTIVE"
    <3>1. call' = [call EXCEPT ![b] = [call[b] EXCEPT !.at = "best", !.read = rfq.close]]
      BY <1>2, <1>8, <2>1 DEF NodeReadsRfq
    <3>2. call[b].req \in Requests
      BY <1>3, <1>8 DEF NodeReadsRfq, At
    <3>3. UNCHANGED <<now, job, terms, database, feed, process, faults>>
      BY <1>8 DEF NodeReadsRfq
    <3> QED
      BY <1>4, <1>5, <1>7, <3>1, <3>2, <3>3
  <2>2. CASE rfq.status # "ACTIVE"
    BY <1>6, <1>8, <2>2 DEF NodeReadsRfq
  <2> QED
    BY <2>1, <2>2
<1>9. CASE NodeChecksBest(b)
  <2>1. CASE NodeImproves(call[b].req)
    <3>1. call' = [call EXCEPT ![b] = [call[b] EXCEPT !.at = "reread", !.read = call[b].read]]
      BY <1>2, <1>9, <2>1 DEF NodeChecksBest, Goto, Calls
    <3>2. call[b].req \in Requests /\ call[b].read \in Nat
      BY <1>2, <1>3, <1>9 DEF NodeChecksBest, At, Calls
    <3>3. UNCHANGED <<now, job, terms, database, feed, process, faults>>
      BY <1>9 DEF NodeChecksBest
    <3> QED
      BY <1>5, <1>7, <3>1, <3>2, <3>3
  <2>2. CASE ~NodeImproves(call[b].req)
    BY <1>6, <1>9, <2>2 DEF NodeChecksBest
  <2> QED
    BY <2>1, <2>2
<1>10. CASE NodeRereads(b)
  <2>1. CASE Return(b)
    BY <1>6, <1>10, <2>1 DEF NodeRereads
  <2>2. CASE ~Return(b)
    <3> DEFINE c == [call[b] EXCEPT !.at = "rank", !.seen = rfq.close]
    <3>1. call' = [call EXCEPT ![b] = c]
      BY <1>2, <1>10, <2>2 DEF NodeRereads
    <3>2. c \in Calls /\ c.req \in Requests
      BY <1>2, <1>3, <1>4, <1>10 DEF NodeRereads, At, Calls
    <3>3. call' \in [Procs -> Calls] /\ CarriesRequest'
      BY <1>2, <3>1, <3>2, CallTypes
    <3>4. UNCHANGED <<now, job, terms, database, feed, process, faults>>
      BY <1>10 DEF NodeRereads
    <3> QED
      BY <1>5, <3>3, <3>4
  <2> QED
    BY <2>1, <2>2
<1>11. CASE NodeEvaluates(b)
  <2>1. PICK close \in NodeCloses(call[b].seen, terms, call[b].req, bids, call[b].stamp) :
             call' = [call EXCEPT ![b].at = "commit", ![b].new = close]
    BY <1>11 DEF NodeEvaluates
  <2> DEFINE c == [call[b] EXCEPT !.at = "commit", !.new = close]
  <2>2. close \in Nat
    <3>1. call[b].seen \in Nat
      BY <1>2 DEF Calls
    <3> QED
      BY <1>4, <2>1, <3>1, NodeClosesBounds
  <2>3. c \in Calls /\ c.req \in Requests
    BY <1>2, <1>3, <1>11, <2>2 DEF NodeEvaluates, At, Calls
  <2>4. call' = [call EXCEPT ![b] = c]
    BY <1>2, <2>1
  <2>5. call' \in [Procs -> Calls] /\ CarriesRequest'
    BY <1>2, <2>3, <2>4, CallTypes
  <2>6. UNCHANGED <<now, job, terms, database, feed, process, faults>>
    BY <1>11 DEF NodeEvaluates
  <2> QED
    BY <1>5, <2>5, <2>6
<1>12. CASE NodeCommits(b)
  <2> DEFINE row == BidRow(b, NewId)
             close == ResultClose(b)
             c == [call[b] EXCEPT !.at = "remove", !.id = NewId, !.delay = DelayUntil(close)]
  <2>1. /\ call[b].req \in Requests
        /\ {call[b].new, call[b].seen, call[b].read, call[b].stamp} \subseteq Nat
    BY <1>2, <1>3, <1>12 DEF NodeCommits, At, Calls
  <2>2. NewId \in Nat
    BY <1>1, FS_CardinalityType DEF TypeOK, NewId
  <2>3. close \in Nat
    BY <2>1 DEF ResultClose
  <2>4. call' \in [Procs -> Calls] /\ CarriesRequest'
    <3>1. CASE Return(b)
      BY <1>2, <3>1, ReturnType
    <3>2. CASE ~Return(b)
      <4>1. call' = [call EXCEPT ![b] = c]
        BY <1>2, <1>12, <3>2 DEF NodeCommits
      <4>2. DelayUntil(close) \in Nat
        BY <1>1, <2>3, DelayType
      <4>3. c \in Calls /\ c.at = "remove"
        BY <1>2, <2>2, <4>2 DEF Calls
      <4> QED
        BY <1>2, <4>1, <4>3, CallTypes
    <3> QED
      BY <3>1, <3>2
  <2>5. /\ IsFiniteSet(bids')
        /\ \A x \in bids' : /\ x.id \in Nat /\ x.at \in Nat
                            /\ \E r \in Requests :
                                  x = [id |-> x.id, supplier |-> r.supplier, price |-> r.price,
                                       client |-> r.client, at |-> x.at]
    <3>1. bids' = bids \cup {row}
      BY <1>12 DEF NodeCommits
    <3>2. IsFiniteSet(bids')
      BY <1>1, <3>1, FS_AddElement DEF TypeOK
    <3>3. /\ row.id = NewId /\ row.at = call[b].stamp
          /\ row = [id |-> row.id, supplier |-> call[b].req.supplier,
                    price |-> call[b].req.price, client |-> call[b].req.client, at |-> row.at]
      BY DEF BidRow
    <3> HIDE DEF row
    <3> QED
      BY <1>1, <2>1, <2>2, <3>1, <3>2, <3>3 DEF TypeOK
  <2>6. rfq' \in [status : {"NONE", "ACTIVE", "CLOSED"}, close : Nat]
    <3>1. rfq' = rfq \/ rfq' = [rfq EXCEPT !.close = call[b].new]
      BY <1>12 DEF NodeCommits, NodeUpdates
    <3> QED
      BY <1>1, <2>1, <3>1 DEF TypeOK
  <2>7. logs' \subseteq [bid : Nat, prev : Nat, new : Nat, mins : Int]
    <3>1. NodeMins(call[b].read, call[b].new) \in Int
      BY <2>1, NodeMinsType
    <3>2. NodeLog(b) \subseteq [bid : Nat, prev : Nat, new : Nat, mins : Int]
      BY <2>1, <2>2, <3>1 DEF NodeLog
    <3> QED
      BY <1>1, <1>12, <3>2 DEF NodeCommits, TypeOK
  <2>8. feed' \in [placed : SUBSET Nat, close : Nat, closed : BOOLEAN]
    <3>1. UNCHANGED feed \/ feed' = WithBid(WithClose(feed, close), NewId)
      BY <1>12 DEF NodeCommits
    <3> QED
      BY <1>1, <2>2, <2>3, <3>1, FeedType DEF TypeOK
  <2>9. UNCHANGED <<now, job, terms, process, faults>>
    BY <1>12 DEF NodeCommits
  <2> QED
    BY <1>1, <2>4, <2>5, <2>6, <2>7, <2>8, <2>9 DEF TypeInv, TypeOK, process
<1>13. CASE NodeIsDuplicate(b)
  BY <1>6, <1>13 DEF NodeIsDuplicate
<1> QED
  BY <1>8, <1>9, <1>10, <1>11, <1>12, <1>13 DEF BidStep

(* The other steps of calls, of the worker and of the process. *)
LEMMA OtherTypes ==
    ASSUME TypeInv,
           \/ \E p \in Bidders \cup {Creator} : ScheduleStep(p)
           \/ \E c \in Closers : NodeClosesEarly(c)
           \/ WorkerStep \/ NodeWorkerTakes \/ NodeUnstalls \/ Lifecycle
           \/ \E p \in Procs : NodeQueryFails(p)
           \/ Tick
    PROVE  TypeInv'
<1>1. TypeOK /\ job \in Jobs /\ now \in 0..MaxTime
  BY DEF TypeInv, TypeOK
<1>2. Bidders \cup {Creator} \subseteq Procs /\ Closers \subseteq Procs /\ Worker \in Procs
  BY DEF Procs
<1>3. \A p \in Procs : call[p] \in Calls
  BY <1>1 DEF TypeOK
<1>4. ASSUME NEW p \in Bidders \cup {Creator}, ScheduleStep(p) PROVE TypeInv'
  <2>1. CASE NodeRemoves(p)
    <3>1. call' \in [Procs -> Calls] /\ CarriesRequest'
      BY <1>2, <2>1, GotoType DEF NodeRemoves
    <3>2. job' \in Jobs
      BY <1>1, <2>1, JobTypes DEF NodeRemoves
    <3> QED
      BY <1>1, <2>1, <3>1, <3>2 DEF NodeRemoves, TypeInv, TypeOK, database, process
  <2>2. CASE NodeAdds(p)
    <3>1. /\ {call[p].delay, call[p].id, call[p].new, call[p].read} \subseteq Nat
      BY <1>2, <1>3 DEF Calls
    <3>2. job' \in Jobs
      BY <1>1, <2>2, <3>1, JobTypes DEF NodeAdds
    <3>3. call' \in [Procs -> Calls] /\ CarriesRequest'
      BY <1>2, <2>2, ReturnType DEF NodeAdds
    <3>4. AnnouncedClose(p) \in Nat
      BY <3>1 DEF AnnouncedClose, ResultClose
    <3>5. feed' \in [placed : SUBSET Nat, close : Nat, closed : BOOLEAN]
      <4>1. feed' = feed \/ feed' = WithBid(WithClose(feed, AnnouncedClose(p)), call[p].id)
        BY <2>2 DEF NodeAdds
      <4> QED
        BY <1>1, <3>1, <3>4, <4>1, FeedType DEF TypeOK
    <3> QED
      BY <1>1, <2>2, <3>2, <3>3, <3>5 DEF NodeAdds, TypeInv, TypeOK, database, process
  <2> QED
    BY <1>4, <2>1, <2>2 DEF ScheduleStep
<1>5. ASSUME NEW c \in Closers, NodeClosesEarly(c) PROVE TypeInv'
  <2>1. rfq' \in [status : {"NONE", "ACTIVE", "CLOSED"}, close : Nat]
    BY <1>2, <1>3, <1>5 DEF NodeClosesEarly, Calls
  <2>2. call' \in [Procs -> Calls] /\ CarriesRequest'
    BY <1>2, <1>5, ReturnType DEF NodeClosesEarly
  <2>3. feed' \in [placed : SUBSET Nat, close : Nat, closed : BOOLEAN]
    BY <1>1, <1>5 DEF NodeClosesEarly, TypeOK
  <2> QED
    BY <1>1, <1>5, <2>1, <2>2, <2>3 DEF NodeClosesEarly, TypeInv, TypeOK, process
<1>6. CASE WorkerStep
  <2>1. CASE NodeWorkerFinds
    <3>1. call' \in [Procs -> Calls] /\ CarriesRequest'
      BY <1>2, <2>1, GotoType DEF NodeWorkerFinds
    <3> QED
      BY <1>1, <2>1, <3>1 DEF NodeWorkerFinds, TypeInv, TypeOK, database, process
  <2>2. CASE NodeWorkerCloses
    <3>1. call' \in [Procs -> Calls] /\ CarriesRequest'
      BY <1>2, <2>2, GotoType DEF NodeWorkerCloses
    <3>2. rfq' \in [status : {"NONE", "ACTIVE", "CLOSED"}, close : Nat]
      BY <1>1, <2>2 DEF NodeWorkerCloses, TypeOK
    <3>3. feed' \in [placed : SUBSET Nat, close : Nat, closed : BOOLEAN]
      BY <1>1, <2>2 DEF NodeWorkerCloses, TypeOK
    <3> QED
      BY <1>1, <2>2, <3>1, <3>2, <3>3 DEF NodeWorkerCloses, TypeInv, TypeOK, process
  <2>3. CASE NodeWorkerFinishes
    <3>1. call' \in [Procs -> Calls] /\ CarriesRequest'
      BY <1>2, <2>3, ReturnType DEF NodeWorkerFinishes
    <3>2. job' \in Jobs
      BY <1>1, <2>3, JobTypes DEF NodeWorkerFinishes
    <3> QED
      BY <1>1, <2>3, <3>1, <3>2 DEF NodeWorkerFinishes, TypeInv, TypeOK, database, process
  <2> QED
    BY <1>6, <2>1, <2>2, <2>3 DEF WorkerStep
<1>7. CASE NodeWorkerTakes
  <2> DEFINE c == [Idle EXCEPT !.at = "find"]
  <2>1. c \in Calls /\ c.at = "find"
    BY IdleType DEF Calls, Idle
  <2>2. call' \in [Procs -> Calls] /\ CarriesRequest'
    BY <1>2, <1>7, <2>1, CallTypes DEF NodeWorkerTakes
  <2>3. job' \in Jobs
    BY <1>1, <1>7, JobTypes DEF NodeWorkerTakes
  <2> QED
    BY <1>1, <1>7, <2>2, <2>3 DEF NodeWorkerTakes, TypeInv, TypeOK, database, process
<1>8. CASE NodeUnstalls
  <2>1. job' \in Jobs
    BY <1>1, <1>8, JobTypes DEF NodeUnstalls
  <2>2. UNCHANGED <<now, terms, database, feed, call, process, faults>>
    BY <1>8 DEF NodeUnstalls
  <2> QED
    BY <1>1, <2>1, <2>2 DEF TypeInv, TypeOK, CarriesRequest, database, process
<1>9. CASE Lifecycle
  <2>1. call' \in [Procs -> Calls] /\ CarriesRequest'
    <3>1. call' = call \/ call' = [p \in Procs |-> Idle]
      BY <1>9 DEF Lifecycle, NodeIsSignalled, NodeDrains, NodeExits, NodeStarts, NodeCrashes,
         PageConnects, PageLeaves
    <3>2. Idle.at = "idle"
      BY DEF Idle
    <3>3. CASE call' = call
      BY <3>3 DEF TypeInv, TypeOK, CarriesRequest
    <3>4. CASE call' = [p \in Procs |-> Idle]
      BY <3>2, <3>4, IdleType DEF CarriesRequest
    <3> QED
      BY <3>1, <3>3, <3>4
  <2>2. UNCHANGED <<now, job, terms, database, feed>>
    BY <1>9 DEF Lifecycle, NodeIsSignalled, NodeDrains, NodeExits, NodeStarts, NodeCrashes,
       PageConnects, PageLeaves
  <2>3. server' \in {"up", "draining", "closing", "down"} /\ online' \in BOOLEAN
    BY <1>1, <1>9 DEF Lifecycle, NodeIsSignalled, NodeDrains, NodeExits, NodeStarts, NodeCrashes,
       PageConnects, PageLeaves, TypeOK
  <2>4. {MaxFaults, MaxSignals, MaxWatching} \subseteq Nat
    BY NodeBoundAssumption
  <2>5. watching' \in 0..MaxWatching
    BY <1>1, <1>9, <2>4 DEF Lifecycle, NodeIsSignalled, NodeDrains, NodeExits, NodeStarts,
       NodeCrashes, PageConnects, PageLeaves, TypeOK
  <2>6. signals' \in 0..MaxSignals
    BY <1>1, <1>9, <2>4 DEF Lifecycle, NodeIsSignalled, NodeDrains, NodeExits, NodeStarts,
       NodeCrashes, PageConnects, PageLeaves, TypeOK
  <2>7. faults' \in 0..MaxFaults
    BY <1>1, <1>9, <2>4 DEF Lifecycle, NodeIsSignalled, NodeDrains, NodeExits, NodeStarts,
       NodeCrashes, PageConnects, PageLeaves, TypeOK, Fault
  <2> QED
    BY <1>1, <2>1, <2>2, <2>3, <2>5, <2>6, <2>7 DEF TypeInv, TypeOK, database
<1>10. ASSUME NEW p \in Procs, NodeQueryFails(p) PROVE TypeInv'
  <2>1. call' \in [Procs -> Calls] /\ CarriesRequest'
    BY <1>10, ReturnType, GotoType DEF NodeQueryFails
  <2>2. faults' \in 0..MaxFaults
    BY <1>1, <1>10, NodeBoundAssumption DEF NodeQueryFails, Fault, TypeOK
  <2>3. UNCHANGED <<now, job, terms, database, feed, process>>
    BY <1>10 DEF NodeQueryFails
  <2> QED
    BY <1>1, <2>1, <2>2, <2>3 DEF TypeInv, TypeOK, database, process
<1>11. CASE Tick
  <2>1. now' \in 0..MaxTime
    BY <1>1, <1>11, NodeClockAssumption DEF Tick
  <2>2. UNCHANGED <<job, terms, database, feed, call, process, faults>>
    BY <1>11 DEF Tick
  <2> QED
    BY <1>1, <2>1, <2>2 DEF TypeInv, TypeOK, CarriesRequest, database, process
<1> QED
  BY <1>4, <1>5, <1>6, <1>7, <1>8, <1>9, <1>10, <1>11

(* Every step keeps the types and what a bid carries. *)
LEMMA TypeInvStep == TypeInv /\ [Next]_vars => TypeInv'
<1> SUFFICES ASSUME TypeInv, [Next]_vars PROVE TypeInv'
  OBVIOUS
<1>1. CASE UNCHANGED vars
  BY <1>1 DEF vars, TypeInv, TypeOK, CarriesRequest
<1>2. CASE Next
  BY <1>2, ArrivalTypes, BidTypes, OtherTypes DEF Next, Step
<1> QED
  BY <1>1, <1>2

----------------------------------------------------------------------------
(* Frames: which step can have changed what. *)

(* The moves that matter to no invariant. *)
Settles(p) ==
    \/ call'[p] = call[p]
    \/ call'[p].at \in {"idle", "read", "update", "find", "close", "finish"}

(* How the call of p comes to where it is after a step.                     *)
Moves(p) ==
    \/ Settles(p)
    \/ p = Creator /\ NodeCreates
    \/ At(p, "remove") /\ call'[p] = [call[p] EXCEPT !.at = "add"]
    \/ /\ NodeReadsRfq(p) /\ rfq.status = "ACTIVE"
       /\ call'[p] = [call[p] EXCEPT !.at = "best", !.read = rfq.close]
    \/ NodeChecksBest(p) /\ call'[p] = [call[p] EXCEPT !.at = "reread"]
    \/ /\ NodeRereads(p) /\ InAuctionTime(rfq.close, terms, call[p].stamp)
       /\ call'[p] = [call[p] EXCEPT !.at = "rank", !.seen = rfq.close]
    \/ /\ NodeEvaluates(p)
       /\ \E close \in NodeCloses(call[p].seen, terms, call[p].req, bids, call[p].stamp) :
             call'[p] = [call[p] EXCEPT !.at = "commit", !.new = close]
    \/ /\ NodeCommits(p)
       /\ call'[p] = [call[p] EXCEPT !.at = "remove", !.id = NewId,
                                     !.delay = DelayUntil(ResultClose(p))]

(* A call that returns matters to no invariant. *)
LEMMA ReturnSettles ==
    ASSUME TypeOK, NEW q \in Procs, Return(q), NEW p \in Procs
    PROVE  Settles(p)
  BY DEF TypeOK, Return, Idle, Settles

(* Nor does one that goes on outside a bid. *)
LEMMA GotoSettles ==
    ASSUME TypeOK, NEW q \in Procs, NEW at \in {"close", "finish"}, Goto(q, at),
           NEW p \in Procs
    PROVE  Settles(p)
  BY DEF Goto, Settles, TypeOK, Calls

(* Every step moves every call in one of the ways of Moves. *)
LEMMA CallMoves == TypeOK /\ [Next]_vars => \A p \in Procs : Moves(p)
<1> SUFFICES ASSUME TypeOK, [Next]_vars, NEW p \in Procs PROVE Moves(p)
  OBVIOUS
<1>0. /\ call \in [Procs -> Calls] /\ Bidders \subseteq Procs /\ Closers \subseteq Procs
      /\ Creator \in Procs /\ Worker \in Procs
  BY DEF TypeOK, Procs
<1>1. Settles(p) => Moves(p)
  BY DEF Moves
<1>2. CASE NodeCreates
  <2>1. p = Creator \/ call'[p] = call[p]
    BY <1>0, <1>2 DEF NodeCreates
  <2> QED
    BY <1>2, <2>1 DEF Moves, Settles
<1>3. ASSUME NEW b \in Bidders, NEW r \in Requests, NodeBidArrives(b, r) PROVE Moves(p)
  <2>1. call' = call \/ call' = [call EXCEPT ![b] =
                                   [Idle EXCEPT !.at = "read", !.req = r, !.stamp = now]]
    BY <1>3 DEF NodeBidArrives
  <2>2. call'[p] = call[p] \/ call'[p].at = "read"
    BY <1>0, <2>1 DEF Idle
  <2> QED
    BY <1>1, <2>2 DEF Settles
<1>4. ASSUME NEW c \in Closers, NodeEarlyCloses(c) PROVE Moves(p)
  <2>1. call'[p] = call[p] \/ call'[p].at = "update"
    BY <1>0, <1>4 DEF NodeEarlyCloses, Idle
  <2> QED
    BY <1>1, <2>1 DEF Settles
<1>5. ASSUME NEW b \in Bidders, BidStep(b) PROVE Moves(p)
  <2>1. CASE p # b
    <3>1. call'[p] = call[p]
      <4>1. CASE NodeReadsRfq(b) \/ NodeChecksBest(b) \/ NodeRereads(b)
        BY <1>0, <2>1, <4>1 DEF NodeReadsRfq, NodeChecksBest, NodeRereads, Goto, Return
      <4>2. CASE NodeEvaluates(b) \/ NodeIsDuplicate(b)
        BY <1>0, <2>1, <4>2 DEF NodeEvaluates, NodeIsDuplicate, Return
      <4>3. CASE NodeCommits(b)
        BY <1>0, <2>1, <4>3 DEF NodeCommits, Return
      <4> QED
        BY <1>5, <4>1, <4>2, <4>3 DEF BidStep
    <3> QED
      BY <1>1, <3>1 DEF Settles
  <2>2. CASE p = b
    <3>1. CASE Return(b)
      BY <1>0, <1>1, <3>1, ReturnSettles
    <3>2. CASE NodeReadsRfq(b) /\ ~Return(b)
      BY <1>0, <2>2, <3>2 DEF NodeReadsRfq, Moves
    <3>3. CASE NodeChecksBest(b) /\ ~Return(b)
      BY <1>0, <2>2, <3>3 DEF NodeChecksBest, Goto, Moves
    <3>4. CASE NodeRereads(b) /\ ~Return(b)
      BY <1>0, <2>2, <3>4 DEF NodeRereads, Moves
    <3>5. CASE NodeEvaluates(b)
      <4>1. PICK close \in NodeCloses(call[b].seen, terms, call[b].req, bids, call[b].stamp) :
                call' = [call EXCEPT ![b].at = "commit", ![b].new = close]
        BY <3>5 DEF NodeEvaluates
      <4>2. call'[b] = [call[b] EXCEPT !.at = "commit", !.new = close]
        BY <1>0, <4>1
      <4> QED
        BY <2>2, <3>5, <4>1, <4>2 DEF Moves
    <3>6. CASE NodeCommits(b) /\ ~Return(b)
      BY <1>0, <2>2, <3>6 DEF NodeCommits, Moves
    <3>7. NodeIsDuplicate(b) => Return(b)
      BY DEF NodeIsDuplicate
    <3> QED
      BY <1>5, <3>1, <3>2, <3>3, <3>4, <3>5, <3>6, <3>7 DEF BidStep
  <2> QED
    BY <2>1, <2>2
<1>6. ASSUME NEW q \in Bidders \cup {Creator}, ScheduleStep(q) PROVE Moves(p)
  <2>1. CASE NodeRemoves(q)
    <3>1. At(q, "remove") /\ call' = [call EXCEPT ![q].at = "add"]
      BY <2>1 DEF NodeRemoves, Goto
    <3>2. call'[p] = call[p] \/ (p = q /\ call'[p] = [call[p] EXCEPT !.at = "add"])
      BY <1>0, <3>1
    <3> QED
      BY <3>1, <3>2 DEF Moves, Settles
  <2>2. CASE NodeAdds(q)
    BY <1>0, <1>1, <2>2, ReturnSettles DEF NodeAdds
  <2> QED
    BY <1>6, <2>1, <2>2 DEF ScheduleStep
<1>7. ASSUME NEW c \in Closers, NodeClosesEarly(c) PROVE Moves(p)
  BY <1>0, <1>1, <1>7, ReturnSettles DEF NodeClosesEarly
<1>8. CASE WorkerStep
  BY <1>0, <1>1, <1>8, ReturnSettles, GotoSettles
  DEF WorkerStep, NodeWorkerFinds, NodeWorkerCloses, NodeWorkerFinishes
<1>9. CASE NodeWorkerTakes
  <2>1. call'[p] = call[p] \/ call'[p].at = "find"
    BY <1>0, <1>9 DEF NodeWorkerTakes, Idle
  <2> QED
    BY <1>1, <2>1 DEF Settles
<1>10. CASE NodeUnstalls \/ Lifecycle \/ Tick \/ UNCHANGED vars
  <2>1. call' = call \/ call' = [q \in Procs |-> Idle]
    BY <1>10 DEF NodeUnstalls, Lifecycle, NodeIsSignalled, NodeDrains, NodeExits, NodeStarts,
       NodeCrashes, PageConnects, PageLeaves, Tick, vars
  <2>2. call'[p] = call[p] \/ call'[p].at = "idle"
    BY <2>1 DEF Idle
  <2> QED
    BY <1>1, <2>2 DEF Settles
<1>11. ASSUME NEW q \in Procs, NodeQueryFails(q) PROVE Moves(p)
  BY <1>1, <1>11, ReturnSettles, GotoSettles DEF NodeQueryFails
<1> QED
  BY <1>2, <1>3, <1>4, <1>5, <1>6, <1>7, <1>8, <1>9, <1>10, <1>11 DEF Next, Arrival, Step

(* Who writes the database, who tells the pages, and what no step touches.  *)
LEMMA Writers ==
    ASSUME TypeOK, [Next]_vars
    PROVE  /\ \/ UNCHANGED database
              \/ NodeCreates
              \/ \E b \in Bidders : NodeCommits(b)
              \/ \E c \in Closers : NodeClosesEarly(c)
              \/ NodeWorkerCloses
           /\ \/ UNCHANGED feed
              \/ \E b \in Bidders, r \in Requests : NodeBidArrives(b, r)
              \/ \E b \in Bidders : NodeCommits(b) \/ NodeAdds(b)
              \/ \E c \in Closers : NodeClosesEarly(c)
              \/ NodeWorkerCloses
           /\ UNCHANGED terms
<1>1. CASE NodeCreates
  BY <1>1 DEF NodeCreates
<1>2. ASSUME NEW b \in Bidders, NEW r \in Requests, NodeBidArrives(b, r)
      PROVE  UNCHANGED <<database, terms>>
  BY <1>2 DEF NodeBidArrives
<1>3. ASSUME NEW c \in Closers, NodeEarlyCloses(c) PROVE UNCHANGED <<database, feed, terms>>
  BY <1>3 DEF NodeEarlyCloses
<1>4. ASSUME NEW b \in Bidders, BidStep(b), ~NodeCommits(b)
      PROVE  UNCHANGED <<database, feed, terms>>
  BY <1>4 DEF BidStep, NodeReadsRfq, NodeChecksBest, NodeRereads, NodeEvaluates, NodeIsDuplicate
<1>5. ASSUME NEW b \in Bidders, NodeCommits(b) PROVE UNCHANGED terms
  BY <1>5 DEF NodeCommits
<1>6. ASSUME NEW p \in Bidders \cup {Creator}, ScheduleStep(p)
      PROVE  UNCHANGED <<database, terms>> /\ (UNCHANGED feed \/ (p \in Bidders /\ NodeAdds(p)))
  BY <1>6 DEF ScheduleStep, NodeRemoves, NodeAdds
<1>7. ASSUME NEW c \in Closers, NodeClosesEarly(c) PROVE UNCHANGED terms
  BY <1>7 DEF NodeClosesEarly
<1>8. CASE WorkerStep
  BY <1>8 DEF WorkerStep, NodeWorkerFinds, NodeWorkerCloses, NodeWorkerFinishes
<1>9. CASE NodeWorkerTakes \/ NodeUnstalls
  BY <1>9 DEF NodeWorkerTakes, NodeUnstalls
<1>10. CASE Lifecycle
  BY <1>10 DEF Lifecycle, NodeIsSignalled, NodeDrains, NodeExits, NodeStarts,
     NodeCrashes, PageConnects, PageLeaves
<1>11. CASE Tick \/ UNCHANGED vars \/ \E p \in Procs : NodeQueryFails(p)
  BY <1>11 DEF Tick, vars, NodeQueryFails, database
<1> QED
  BY <1>1, <1>2, <1>3, <1>4, <1>5, <1>6, <1>7, <1>8, <1>9, <1>10, <1>11 DEF Next, Arrival, Step

(* What a commit writes: one row, with an id no bid has, and its log.       *)
LEMMA CommitFacts ==
    ASSUME TypeInv, LedgerInv, NEW b \in Bidders, NodeCommits(b)
    PROVE  /\ bids' = bids \cup {BidRow(b, NewId)}
           /\ logs' = logs \cup NodeLog(b)
           /\ BidRow(b, NewId).id = NewId
           /\ BidRow(b, NewId).at = call[b].stamp
           /\ BidRow(b, NewId).client = call[b].req.client
           /\ NewId \in Nat
           /\ NewId' = NewId + 1
           /\ \A x \in bids : x.id \in Nat /\ 1 <= x.id /\ x.id < NewId
<1> DEFINE row == BidRow(b, NewId)
<1>1. /\ row.id = NewId /\ row.at = call[b].stamp /\ row.client = call[b].req.client
      /\ bids' = bids \cup {row} /\ logs' = logs \cup NodeLog(b)
  BY DEF NodeCommits, BidRow
<1>2. Cardinality(bids) \in Nat /\ IsFiniteSet(bids)
  BY FS_CardinalityType DEF TypeInv, TypeOK
<1>3. \A x \in bids : x.id \in Nat /\ 1 <= x.id /\ x.id <= Cardinality(bids)
  BY DEF LedgerInv, IdsHandedOut, TypeInv, TypeOK
<1>4. \A x \in bids : x # row
  BY <1>1, <1>2, <1>3 DEF NewId
<1> HIDE DEF row
<1>5. Cardinality(bids') = Cardinality(bids) + 1
  BY <1>1, <1>4, NewIdFacts DEF TypeInv
<1>6. NewId \in Nat /\ NewId' = NewId + 1
  BY <1>2, <1>5 DEF NewId
<1>7. \A x \in bids : x.id < NewId
  BY <1>2, <1>3 DEF NewId
<1> QED
  BY <1>1, <1>3, <1>6, <1>7 DEF row

(* The ledger and its logs only grow, and so do the close times.            *)
LEMMA CloseTimesStay ==
    ASSUME TypeInv, LedgerInv, [Next]_vars
    PROVE  /\ terms' = terms /\ bids \subseteq bids' /\ logs \subseteq logs'
           /\ \A id : \A close \in CloseTimesBefore(id) : close \in CloseTimesBefore(id)'
           /\ \A close \in CloseTimesBefore(NewId) : close \in CloseTimesBefore(NewId)'
<1>1. terms' = terms
  BY Writers DEF TypeInv
<1>2. NewId \in Nat
  BY FS_CardinalityType DEF TypeInv, TypeOK, NewId
<1>3. bids \subseteq bids' /\ logs \subseteq logs' /\ NewId' \in Nat /\ NewId <= NewId'
  <2>1. CASE UNCHANGED <<bids, logs>>
    BY <1>2, <2>1 DEF NewId
  <2>2. CASE \E b \in Bidders : NodeCommits(b)
    BY <1>2, <2>2, CommitFacts
  <2> QED
    BY <2>1, <2>2, Writers DEF TypeInv, database, NodeCreates, NodeClosesEarly, NodeWorkerCloses
<1>4. \A l \in logs : l.bid \in Nat
  BY DEF TypeInv, TypeOK
<1>5. ASSUME NEW id, NEW close \in CloseTimesBefore(id) PROVE close \in CloseTimesBefore(id)'
  BY <1>1, <1>3, <1>5 DEF CloseTimesBefore
<1>6. ASSUME NEW close \in CloseTimesBefore(NewId) PROVE close \in CloseTimesBefore(NewId)'
  <2>1. CASE close = terms.close
    BY <1>1, <2>1 DEF CloseTimesBefore
  <2>2. CASE \E l \in logs : l.bid < NewId /\ l.new = close
    <3> PICK l \in logs : l.bid < NewId /\ l.new = close
      BY <2>2
    <3>1. l \in logs' /\ l.bid < NewId'
      BY <1>2, <1>3, <1>4
    <3> QED
      BY <3>1 DEF CloseTimesBefore
  <2> QED
    BY <1>6, <2>1, <2>2 DEF CloseTimesBefore
<1> QED
  BY <1>1, <1>3, <1>5, <1>6

----------------------------------------------------------------------------
(* The ledger. *)

(* No call is judged before there is an RFQ, after any step either.         *)
LEMMA NothingBeforeRowStep ==
    TypeInv /\ LedgerInv /\ [Next]_vars => NothingBeforeRow'
<1> SUFFICES ASSUME TypeInv, LedgerInv, [Next]_vars, rfq'.status = "NONE"
             PROVE  /\ bids' = {}
                    /\ \A p \in Procs :
                          call'[p].at \notin {"best", "reread", "rank", "commit"}
  BY DEF NothingBeforeRow
<1>0. rfq \in [status : {"NONE", "ACTIVE", "CLOSED"}, close : Nat]
  BY DEF TypeInv, TypeOK
<1>1. UNCHANGED database \/ \E b \in Bidders : NodeCommits(b) /\ rfq.status = "NONE"
  <2>1. NodeCreates => rfq'.status = "ACTIVE"
    BY DEF NodeCreates
  <2>2. \A b \in Bidders : NodeCommits(b) => rfq'.status = rfq.status
    BY <1>0 DEF NodeCommits, NodeUpdates
  <2>3. \A c \in Closers : NodeClosesEarly(c) => rfq'.status = "CLOSED"
    BY <1>0 DEF NodeClosesEarly
  <2>4. NodeWorkerCloses => rfq'.status = "CLOSED"
    BY <1>0 DEF NodeWorkerCloses
  <2> QED
    BY <2>1, <2>2, <2>3, <2>4, Writers DEF TypeInv
<1>2. ASSUME rfq.status = "NONE", NEW p \in Procs
      PROVE  bids = {} /\ call[p].at \notin {"best", "reread", "rank", "commit"}
  BY <1>2 DEF LedgerInv, NothingBeforeRow
<1>3. UNCHANGED database /\ rfq.status = "NONE"
  <2>1. \A b \in Bidders : NodeCommits(b) => b \in Procs /\ call[b].at = "commit"
    BY DEF NodeCommits, At, Procs
  <2> QED
    BY <1>1, <1>2, <2>1 DEF database
<1>4. ASSUME NEW p \in Procs PROVE call'[p].at \notin {"best", "reread", "rank", "commit"}
  <2>1. Moves(p) /\ call[p] \in Calls
    BY CallMoves DEF TypeInv, TypeOK
  <2>2. ~NodeCreates
    BY <1>3 DEF NodeCreates, database
  <2>3. At(p, "remove") /\ call'[p] = [call[p] EXCEPT !.at = "add"] => call'[p].at = "add"
    BY <2>1 DEF Calls
  <2>4. call[p].at \notin {"best", "reread", "rank", "commit"}
    BY <1>2, <1>3
  <2> QED
    BY <1>3, <2>1, <2>2, <2>3, <2>4
    DEF Moves, Settles, NodeChecksBest, NodeRereads, NodeEvaluates, NodeCommits, At
<1>5. bids' = {}
  <2>1. Creator \in Procs
    BY DEF Procs
  <2> QED
    BY <1>2, <1>3, <2>1 DEF database
<1> QED
  BY <1>4, <1>5

(* Only a commit adds to the ledger, and the unique index guards it.        *)
LEMMA LedgerInvStep == TypeInv /\ LedgerInv /\ [Next]_vars => LedgerInv'
<1> SUFFICES ASSUME TypeInv, LedgerInv, [Next]_vars PROVE LedgerInv'
  OBVIOUS
<1>1. NothingBeforeRow'
  BY NothingBeforeRowStep
<1>2. CASE UNCHANGED bids
  BY <1>1, <1>2 DEF LedgerInv, IdsHandedOut, OneBidPerClientId
<1>3. CASE \E b \in Bidders : NodeCommits(b)
  <2> PICK b \in Bidders : NodeCommits(b)
    BY <1>3
  <2> DEFINE row == BidRow(b, NewId)
  <2>1. /\ bids' = bids \cup {row} /\ row.id = NewId /\ row.client = call[b].req.client
        /\ NewId \in Nat /\ NewId' = NewId + 1
        /\ \A x \in bids : x.id \in Nat /\ 1 <= x.id /\ x.id < NewId
    BY CommitFacts
  <2>2. row.client # NoClientId => \A x \in bids : x.client # row.client
    BY <2>1 DEF NodeCommits, NodeDuplicate, SameClientId
  <2> HIDE DEF row
  <2>3. Cardinality(bids) \in Nat /\ NewId = Cardinality(bids) + 1
    BY FS_CardinalityType DEF TypeInv, TypeOK, NewId
  <2>4. Cardinality(bids') = NewId
    BY <2>1, <2>3, NewIdFacts DEF TypeInv
  <2>5. IdsHandedOut'
    BY <2>1, <2>3, <2>4 DEF IdsHandedOut
  <2>6. OneBidPerClientId'
    BY <2>1, <2>2 DEF LedgerInv, OneBidPerClientId
  <2> QED
    BY <1>1, <2>5, <2>6 DEF LedgerInv
<1> QED
  BY <1>2, <1>3, Writers DEF TypeInv, database, NodeCreates, NodeClosesEarly, NodeWorkerCloses

----------------------------------------------------------------------------
(* Close times. *)

(* An RFQ that is open after a step was open before it, or was created.     *)
LEMMA OpenWasOpen ==
    ASSUME TypeInv, [Next]_vars, rfq'.status = "ACTIVE", ~NodeCreates
    PROVE  /\ rfq.status = "ACTIVE"
           /\ \/ rfq' = rfq
              \/ \E b \in Bidders : NodeCommits(b) /\ Extended(b) /\ rfq'.close = call[b].new
<1>1. rfq \in [status : {"NONE", "ACTIVE", "CLOSED"}, close : Nat]
  BY DEF TypeInv, TypeOK
<1>2. ASSUME NEW b \in Bidders, NodeCommits(b)
      PROVE  /\ rfq'.status = rfq.status
             /\ rfq' = rfq \/ (Extended(b) /\ rfq'.close = call[b].new)
  BY <1>1, <1>2 DEF NodeCommits, NodeUpdates
<1>3. \A c \in Closers : NodeClosesEarly(c) => rfq'.status = "CLOSED"
  BY <1>1 DEF NodeClosesEarly
<1>4. NodeWorkerCloses => rfq'.status = "CLOSED"
  BY <1>1 DEF NodeWorkerCloses
<1> QED
  BY <1>2, <1>3, <1>4, Writers DEF TypeInv, database

(* The first read is taken from an ACTIVE row, whose close time is          *)
(* explained, and stays so.                                                 *)
LEMMA FirstReadStep ==
    TypeInv /\ LedgerInv /\ CloseInv /\ [Next]_vars => CarriesFirstRead'
<1> SUFFICES ASSUME TypeInv, LedgerInv, CloseInv, [Next]_vars, NEW p \in Procs,
                    call'[p].at \in {"best", "reread", "rank", "commit"}
             PROVE  call'[p].read \in CloseTimesBefore(NewId)'
  BY DEF CarriesFirstRead
<1>1. Moves(p) /\ call[p] \in Calls
  BY CallMoves DEF TypeInv, TypeOK
<1>2. \/ rfq.status = "ACTIVE" /\ call'[p].read = rfq.close
      \/ /\ call[p].at \in {"best", "reread", "rank", "commit"}
         /\ call'[p].read = call[p].read
  <2>1. CASE Settles(p)
    BY <2>1 DEF Settles
  <2>2. p = Creator /\ NodeCreates => Settles(p)
    <3> SUFFICES ASSUME p = Creator, NodeCreates PROVE call'[p] = call[p]
      BY DEF Settles
    <3> QED
      BY DEF NodeCreates, Idle, TypeInv, TypeOK
  <2>3. call'[p].at # "add" /\ call'[p].at # "remove"
    OBVIOUS
  <2> QED
    BY <1>1, <2>1, <2>2, <2>3
    DEF Moves, Calls, NodeChecksBest, NodeRereads, NodeEvaluates, At
<1>3. call'[p].read \in CloseTimesBefore(NewId)
  BY <1>2 DEF CloseInv, CarriesFirstRead, CloseTimesExplained
<1> QED
  BY <1>3, CloseTimesStay

(* An open RFQ has a close time that is explained, within the forced close. *)
LEMMA OpenCloseStep ==
    ASSUME TypeInv, LedgerInv, CloseInv, [Next]_vars, rfq'.status = "ACTIVE"
    PROVE  /\ rfq'.close \in CloseTimesBefore(NewId)'
           /\ rfq'.close <= terms'.forced
<1>1. terms' = terms /\ terms \in Terms
  BY CloseTimesStay DEF TypeInv, TypeOK
<1>2. CASE NodeCreates
  <2>1. rfq'.close = terms.close
    BY <1>2 DEF NodeCreates
  <2>2. terms.close <= terms.forced
    BY <1>1, NodeTermsAssumption DEF ValidTerms
  <2> QED
    BY <1>1, <2>1, <2>2 DEF CloseTimesBefore
<1>3. CASE ~NodeCreates /\ rfq' = rfq
  BY <1>1, <1>3, OpenWasOpen, CloseTimesStay DEF CloseInv, CloseTimesExplained
<1>4. CASE \E b \in Bidders : NodeCommits(b) /\ Extended(b) /\ rfq'.close = call[b].new
  <2> PICK b \in Bidders : NodeCommits(b) /\ Extended(b) /\ rfq'.close = call[b].new
    BY <1>4
  <2>1. b \in Procs /\ call[b] \in Calls /\ call[b].at = "commit"
    BY DEF NodeCommits, At, Procs, TypeInv, TypeOK
  <2>2. call[b].new <= terms.forced
    BY <2>1 DEF CloseInv, CarriesVerdict, Extended, Calls
  <2> DEFINE log == [bid |-> NewId, prev |-> call[b].read, new |-> call[b].new,
                     mins |-> NodeMins(call[b].read, call[b].new)]
  <2>3. log \in logs' /\ log.bid = NewId /\ log.new = call[b].new
    BY DEF NodeCommits, NodeLog
  <2> HIDE DEF log
  <2>4. log.bid < NewId'
    BY <2>3, CommitFacts
  <2> QED
    BY <1>1, <2>2, <2>3, <2>4 DEF CloseTimesBefore
<1> QED
  BY <1>2, <1>3, <1>4, OpenWasOpen

(* The second read admits the bid by the row it saw.                        *)
LEMMA SecondReadStep ==
    TypeInv /\ LedgerInv /\ CloseInv /\ [Next]_vars => CarriesSecondRead'
<1> SUFFICES ASSUME TypeInv, LedgerInv, CloseInv, [Next]_vars, NEW p \in Procs,
                    call'[p].at \in {"rank", "commit"}
             PROVE  /\ terms'.start <= call'[p].stamp /\ call'[p].stamp <= call'[p].seen
                    /\ rfq'.status = "ACTIVE" => call'[p].seen \in CloseTimesBefore(NewId)'
  BY DEF CarriesSecondRead
<1>1. Moves(p) /\ call[p] \in Calls
  BY CallMoves DEF TypeInv, TypeOK
<1>2. call[p].at \in {"reread", "rank", "commit"} => ~NodeCreates
  BY DEF LedgerInv, NothingBeforeRow, NodeCreates
<1>3. \/ /\ call[p].at = "reread" /\ InAuctionTime(rfq.close, terms, call[p].stamp)
         /\ call'[p].stamp = call[p].stamp /\ call'[p].seen = rfq.close
      \/ /\ call[p].at \in {"rank", "commit"}
         /\ call'[p].stamp = call[p].stamp /\ call'[p].seen = call[p].seen
  <2>1. CASE Settles(p)
    BY <2>1 DEF Settles
  <2>2. p = Creator /\ NodeCreates => Settles(p)
    <3> SUFFICES ASSUME p = Creator, NodeCreates PROVE call'[p] = call[p]
      BY DEF Settles
    <3> QED
      BY DEF NodeCreates, Idle, TypeInv, TypeOK
  <2>3. CASE ~Settles(p)
    BY <1>1, <2>2, <2>3 DEF Moves, Calls, NodeRereads, NodeEvaluates, At
  <2> QED
    BY <2>1, <2>3
<1>4. rfq'.status = "ACTIVE" => rfq.status = "ACTIVE"
  BY <1>2, <1>3, OpenWasOpen
<1>5. /\ terms.start <= call'[p].stamp /\ call'[p].stamp <= call'[p].seen
      /\ rfq.status = "ACTIVE" => call'[p].seen \in CloseTimesBefore(NewId)
  BY <1>3 DEF InAuctionTime, CloseInv, CarriesSecondRead, CloseTimesExplained
<1> QED
  BY <1>4, <1>5, CloseTimesStay

(* Only the evaluation of a bid decides a new close time.                   *)
LEMMA VerdictStep ==
    TypeInv /\ LedgerInv /\ CloseInv /\ [Next]_vars => CarriesVerdict'
<1> SUFFICES ASSUME TypeInv, LedgerInv, CloseInv, [Next]_vars, NEW p \in Procs,
                    call'[p].at = "commit"
             PROVE  \/ call'[p].new = call'[p].seen
                    \/ call'[p].seen < call'[p].new /\ call'[p].new <= terms'.forced
  BY DEF CarriesVerdict
<1>1. Moves(p) /\ call[p] \in Calls /\ terms' = terms /\ terms \in Terms
  BY CallMoves, CloseTimesStay DEF TypeInv, TypeOK
<1>2. CASE call'[p] = call[p]
  BY <1>1, <1>2 DEF CloseInv, CarriesVerdict
<1>3. CASE \E close \in NodeCloses(call[p].seen, terms, call[p].req, bids, call[p].stamp) :
              call'[p] = [call[p] EXCEPT !.at = "commit", !.new = close]
  <2> PICK close \in NodeCloses(call[p].seen, terms, call[p].req, bids, call[p].stamp) :
              call'[p] = [call[p] EXCEPT !.at = "commit", !.new = close]
    BY <1>3
  <2>1. call[p].seen \in Nat
    BY <1>1 DEF Calls
  <2>2. close = call[p].seen \/ (call[p].seen < close /\ close <= terms.forced)
    BY <1>1, <2>1, NodeClosesBounds
  <2>3. call'[p].new = close /\ call'[p].seen = call[p].seen
    BY <1>1 DEF Calls
  <2> QED
    BY <1>1, <2>2, <2>3
<1>4. p = Creator /\ NodeCreates => call'[p] = call[p]
  BY DEF NodeCreates, Idle, TypeInv, TypeOK
<1> QED
  BY <1>1, <1>2, <1>3, <1>4 DEF Moves, Settles, Calls

(* A bid that commits was admitted by a close time the RFQ had.             *)
LEMMA BidsInTimeStep ==
    TypeInv /\ LedgerInv /\ CloseInv /\ [Next]_vars => BidsInTime'
<1> SUFFICES ASSUME TypeInv, LedgerInv, CloseInv, [Next]_vars, rfq'.status = "ACTIVE",
                    NEW x \in bids'
             PROVE  /\ terms'.start <= x.at
                    /\ \E close \in CloseTimesBefore(x.id)' : x.at <= close
  BY DEF BidsInTime
<1>1. terms' = terms
  BY CloseTimesStay
<1>2. ~NodeCreates
  BY DEF NodeCreates, LedgerInv, NothingBeforeRow
<1>3. rfq.status = "ACTIVE"
  BY <1>2, OpenWasOpen
<1>4. /\ terms.start <= x.at
      /\ \E close \in CloseTimesBefore(x.id) : x.at <= close
  <2>1. CASE x \in bids
    BY <1>3, <2>1 DEF CloseInv, BidsInTime
  <2>2. CASE \E b \in Bidders : NodeCommits(b) /\ x \notin bids
    <3> PICK b \in Bidders : NodeCommits(b) /\ x \notin bids
      BY <2>2
    <3>1. x.id = NewId /\ x.at = call[b].stamp
      BY CommitFacts
    <3>2. /\ terms.start <= call[b].stamp /\ call[b].stamp <= call[b].seen
          /\ call[b].seen \in CloseTimesBefore(NewId)
      BY <1>3 DEF CloseInv, CarriesSecondRead, NodeCommits, At, Procs
    <3> QED
      BY <3>1, <3>2
  <2> QED
    BY <2>1, <2>2, Writers
    DEF TypeInv, database, NodeCreates, NodeClosesEarly, NodeWorkerCloses
<1>5. PICK close \in CloseTimesBefore(x.id) : x.at <= close
  BY <1>4
<1> QED
  BY <1>1, <1>4, <1>5, CloseTimesStay

(* A log is written with its bid, from a close time the RFQ had.            *)
LEMMA LogsExplainedStep ==
    ASSUME TypeInv, LedgerInv, CloseInv, [Next]_vars, NEW l \in logs'
    PROVE  /\ \E x \in bids' : x.id = l.bid
           /\ \A k \in logs' : k.bid = l.bid => k = l
           /\ l.prev \in CloseTimesBefore(l.bid)'
           /\ l.new <= terms'.forced
<1>1. terms' = terms /\ bids \subseteq bids' /\ logs \subseteq logs'
  BY CloseTimesStay
<1>2. ASSUME NEW k \in logs
      PROVE  /\ \E x \in bids' : x.id = k.bid
             /\ \A j \in logs : j.bid = k.bid => j = k
             /\ k.prev \in CloseTimesBefore(k.bid)'
             /\ k.new <= terms'.forced
  BY <1>1, <1>2, CloseTimesStay DEF CloseInv, CloseTimesExplained
<1>3. CASE logs' = logs
  BY <1>2, <1>3
<1>4. CASE \E b \in Bidders : NodeCommits(b)
  <2> PICK b \in Bidders : NodeCommits(b)
    BY <1>4
  <2> DEFINE row == BidRow(b, NewId)
             log == [bid |-> NewId, prev |-> call[b].read, new |-> call[b].new,
                     mins |-> NodeMins(call[b].read, call[b].new)]
  <2>1. /\ bids' = bids \cup {row} /\ row.id = NewId
        /\ logs' = logs \cup NodeLog(b)
        /\ NewId \in Nat /\ NewId' = NewId + 1
        /\ \A x \in bids : x.id < NewId
    BY CommitFacts
  <2>2. b \in Procs /\ call[b] \in Calls /\ call[b].at = "commit"
    BY DEF NodeCommits, At, Procs, TypeInv, TypeOK
  <2>3. \A k \in logs : k.bid # NewId
    BY <2>1 DEF CloseInv, CloseTimesExplained
  <2>4. NodeLog(b) = {} \/ (NodeLog(b) = {log} /\ Extended(b))
    BY DEF NodeLog
  <2>5. log.bid = NewId /\ log.prev = call[b].read /\ log.new = call[b].new
    OBVIOUS
  <2> HIDE DEF log, row
  <2>6. Extended(b) => call[b].new <= terms.forced
    BY <2>2 DEF CloseInv, CarriesVerdict, Extended, Calls
  <2>7. call[b].read \in CloseTimesBefore(NewId)
    BY <2>2 DEF CloseInv, CarriesFirstRead
  <2>8. CASE l \in logs
    BY <1>2, <2>1, <2>3, <2>4, <2>5, <2>8
  <2>9. CASE l \notin logs
    <3>1. l = log /\ Extended(b)
      BY <2>1, <2>4, <2>9
    <3>2. \E x \in bids' : x.id = l.bid
      BY <2>1, <2>5, <3>1
    <3>3. \A k \in logs' : k.bid = l.bid => k = l
      BY <2>1, <2>3, <2>4, <2>5, <3>1
    <3>4. l.prev \in CloseTimesBefore(l.bid)
      BY <2>5, <2>7, <3>1
    <3> QED
      BY <1>1, <2>5, <2>6, <3>1, <3>2, <3>3, <3>4, CloseTimesStay
  <2> QED
    BY <2>8, <2>9
<1> QED
  BY <1>3, <1>4, Writers DEF TypeInv, database, NodeCreates, NodeClosesEarly, NodeWorkerCloses

(* Every step keeps the close times explained.                              *)
LEMMA CloseInvStep ==
    TypeInv /\ LedgerInv /\ CloseInv /\ [Next]_vars => CloseInv'
<1> SUFFICES ASSUME TypeInv, LedgerInv, CloseInv, [Next]_vars PROVE CloseInv'
  OBVIOUS
<1>1. CarriesFirstRead' /\ CarriesSecondRead' /\ CarriesVerdict' /\ BidsInTime'
  BY FirstReadStep, SecondReadStep, VerdictStep, BidsInTimeStep
<1>2. CloseTimesExplained'
  BY OpenCloseStep, LogsExplainedStep DEF CloseTimesExplained
<1> QED
  BY <1>1, <1>2 DEF CloseInv

----------------------------------------------------------------------------
(* What the pages hear. *)

(* No step opens a closed RFQ again. *)
LEMMA ClosedStays ==
    TypeInv /\ [Next]_vars => (rfq.status = "CLOSED" => rfq'.status = "CLOSED")
<1> SUFFICES ASSUME TypeInv, [Next]_vars, rfq.status = "CLOSED" PROVE rfq'.status = "CLOSED"
  OBVIOUS
<1>1. rfq \in [status : {"NONE", "ACTIVE", "CLOSED"}, close : Nat]
  BY DEF TypeInv, TypeOK
<1>2. ASSUME NEW b \in Bidders, NodeCommits(b) PROVE rfq'.status = "CLOSED"
  BY <1>1, <1>2 DEF NodeCommits, NodeUpdates
<1>3. ASSUME NEW c \in Closers, NodeClosesEarly(c) PROVE rfq'.status = "CLOSED"
  BY <1>1, <1>3 DEF NodeClosesEarly
<1>4. NodeWorkerCloses => rfq'.status = "CLOSED"
  BY <1>1 DEF NodeWorkerCloses
<1>5. ~NodeCreates
  BY DEF NodeCreates
<1> QED
  BY <1>2, <1>3, <1>4, <1>5, Writers DEF TypeInv, database

(* The close time that is announced with a bid is explained by its commit.  *)
LEMMA ResultIsExplained ==
    ASSUME TypeInv, LedgerInv, CloseInv, [Next]_vars, NEW b \in Bidders, NodeCommits(b)
    PROVE  ResultClose(b) \in CloseTimesBefore(NewId)'
<1>1. CASE Extended(b)
  <2> DEFINE log == [bid |-> NewId, prev |-> call[b].read, new |-> call[b].new,
                     mins |-> NodeMins(call[b].read, call[b].new)]
  <2>1. log \in logs' /\ log.bid = NewId /\ log.new = call[b].new
    BY <1>1 DEF NodeCommits, NodeLog
  <2> HIDE DEF log
  <2>2. log.bid < NewId'
    BY <2>1, CommitFacts
  <2> QED
    BY <1>1, <2>1, <2>2 DEF ResultClose, CloseTimesBefore
<1>2. CASE ~Extended(b)
  <2>1. call[b].read \in CloseTimesBefore(NewId)
    BY DEF CloseInv, CarriesFirstRead, NodeCommits, At, Procs
  <2> QED
    BY <1>2, <2>1, CloseTimesStay DEF ResultClose
<1> QED
  BY <1>1, <1>2

(* What a call is about to announce is committed. *)
LEMMA CarriesCommittedStep ==
    TypeInv /\ LedgerInv /\ CloseInv /\ FeedInv /\ [Next]_vars => CarriesCommitted'
<1> SUFFICES ASSUME TypeInv, LedgerInv, CloseInv, FeedInv, [Next]_vars, NEW b \in Bidders,
                    call'[b].at \in {"remove", "add"}
             PROVE  /\ \E x \in bids' : x.id = call'[b].id
                    /\ ResultClose(b)' \in CloseTimesBefore(NewId)'
  BY DEF CarriesCommitted
<1>1. b \in Procs /\ Moves(b) /\ call[b] \in Calls
  BY CallMoves DEF TypeInv, TypeOK, Procs
<1>2. b # Creator
  BY NodeProcsAssumption
<1>3. \/ /\ call[b].at \in {"remove", "add"}
         /\ call'[b].id = call[b].id /\ ResultClose(b)' = ResultClose(b)
      \/ /\ NodeCommits(b)
         /\ call'[b].id = NewId /\ ResultClose(b)' = ResultClose(b)
  <2>1. CASE call'[b] = call[b]
    BY <2>1 DEF ResultClose, Extended
  <2>2. CASE At(b, "remove") /\ call'[b] = [call[b] EXCEPT !.at = "add"]
    BY <1>1, <2>2 DEF At, Calls, ResultClose, Extended
  <2>3. CASE /\ NodeCommits(b)
             /\ call'[b] = [call[b] EXCEPT !.at = "remove", !.id = NewId,
                                           !.delay = DelayUntil(ResultClose(b))]
    BY <1>1, <2>3 DEF Calls, ResultClose, Extended
  <2> QED
    BY <1>1, <1>2, <2>1, <2>2, <2>3 DEF Moves, Settles, Calls
<1>4. CASE call[b].at \in {"remove", "add"} /\ call'[b].id = call[b].id
             /\ ResultClose(b)' = ResultClose(b)
  BY <1>4, CloseTimesStay DEF FeedInv, CarriesCommitted
<1>5. CASE NodeCommits(b) /\ call'[b].id = NewId /\ ResultClose(b)' = ResultClose(b)
  <2>1. BidRow(b, NewId) \in bids' /\ BidRow(b, NewId).id = NewId
    BY <1>5, CommitFacts
  <2> QED
    BY <1>5, <2>1, ResultIsExplained
<1> QED
  BY <1>3, <1>4, <1>5

(* What is announced is committed. *)
LEMMA FeedFollowsLedgerStep ==
    TypeInv /\ LedgerInv /\ CloseInv /\ FeedInv /\ [Next]_vars => FeedFollowsLedger'
<1> SUFFICES ASSUME TypeInv, LedgerInv, CloseInv, FeedInv, [Next]_vars
             PROVE  FeedFollowsLedger'
  OBVIOUS
<1>1. /\ bids \subseteq bids'
      /\ \A close \in CloseTimesBefore(NewId) : close \in CloseTimesBefore(NewId)'
  BY CloseTimesStay
<1>2. feed \in [placed : SUBSET Nat, close : Nat, closed : BOOLEAN]
  BY DEF TypeInv, TypeOK
<1>3. /\ feed.placed \subseteq {x.id : x \in bids'}
      /\ feed.close # 0 => feed.close \in CloseTimesBefore(NewId)'
      /\ feed.closed => rfq'.status = "CLOSED"
  BY <1>1, ClosedStays DEF FeedInv, FeedFollowsLedger
<1>4. ASSUME NEW id, \E x \in bids' : x.id = id, NEW close \in CloseTimesBefore(NewId)',
             feed' = WithBid(feed, id) \/ feed' = WithBid(WithClose(feed, close), id)
      PROVE  FeedFollowsLedger'
  <2>1. /\ feed'.placed = feed.placed \cup {id} /\ feed'.closed = feed.closed
        /\ feed'.close \in {feed.close, close}
    BY <1>2, <1>4 DEF WithBid, WithClose
  <2> QED
    BY <1>3, <1>4, <2>1 DEF FeedFollowsLedger
<1>5. ASSUME NEW b \in Bidders, NEW r \in Requests, NodeBidArrives(b, r)
      PROVE  FeedFollowsLedger'
  <2>1. UNCHANGED feed \/ \E x \in bids : feed' = WithBid(feed, x.id)
    BY <1>5 DEF NodeBidArrives
  <2>2. terms.close \in CloseTimesBefore(NewId)'
    BY <1>1 DEF CloseTimesBefore
  <2> QED
    BY <1>1, <1>3, <1>4, <2>1, <2>2 DEF FeedFollowsLedger
<1>6. ASSUME NEW b \in Bidders, NodeCommits(b) PROVE FeedFollowsLedger'
  <2>1. UNCHANGED feed \/ feed' = WithBid(WithClose(feed, ResultClose(b)), NewId)
    BY <1>6 DEF NodeCommits
  <2>2. BidRow(b, NewId) \in bids' /\ BidRow(b, NewId).id = NewId
    BY <1>6, CommitFacts
  <2>3. ResultClose(b) \in CloseTimesBefore(NewId)'
    BY <1>6, ResultIsExplained
  <2> QED
    BY <1>3, <1>4, <2>1, <2>2, <2>3 DEF FeedFollowsLedger
<1>7. ASSUME NEW b \in Bidders, NodeAdds(b) PROVE FeedFollowsLedger'
  <2>1. feed' = WithBid(WithClose(feed, ResultClose(b)), call[b].id) \/ UNCHANGED feed
    BY <1>7 DEF NodeAdds, AnnouncedClose
  <2>2. /\ \E x \in bids : x.id = call[b].id
        /\ ResultClose(b) \in CloseTimesBefore(NewId)
    BY <1>7 DEF FeedInv, CarriesCommitted, NodeAdds, At
  <2> QED
    BY <1>1, <1>3, <1>4, <2>1, <2>2 DEF FeedFollowsLedger
<1>8. ASSUME rfq' = [rfq EXCEPT !.status = "CLOSED"] \/ rfq'.status = "CLOSED",
             feed' = [feed EXCEPT !.closed = TRUE]
      PROVE  FeedFollowsLedger'
  <2>1. rfq'.status = "CLOSED"
    BY <1>8 DEF TypeInv, TypeOK
  <2>2. feed'.placed = feed.placed /\ feed'.close = feed.close
    BY <1>2, <1>8
  <2> QED
    BY <1>3, <2>1, <2>2 DEF FeedFollowsLedger
<1>9. ASSUME NEW c \in Closers, NodeClosesEarly(c) PROVE FeedFollowsLedger'
  <2>1. rfq'.status = "CLOSED"
    BY <1>9 DEF NodeClosesEarly, TypeInv, TypeOK
  <2> QED
    BY <1>8, <1>9, <2>1 DEF NodeClosesEarly
<1>10. CASE NodeWorkerCloses
  BY <1>8, <1>10 DEF NodeWorkerCloses
<1>11. CASE UNCHANGED feed
  BY <1>3, <1>11 DEF FeedFollowsLedger
<1> QED
  BY <1>5, <1>6, <1>7, <1>9, <1>10, <1>11, Writers DEF TypeInv

(* Every step keeps the feed behind the ledger.                             *)
LEMMA FeedInvStep ==
    TypeInv /\ LedgerInv /\ CloseInv /\ FeedInv /\ [Next]_vars => FeedInv'
  BY CarriesCommittedStep, FeedFollowsLedgerStep DEF FeedInv

----------------------------------------------------------------------------
(* The theorems. *)

(* The invariant holds at first. *)
LEMMA InvInit == Init => Inv
<1> SUFFICES ASSUME Init PROVE Inv
  OBVIOUS
<1>1. \A p \in Procs : call[p].at = "idle"
  BY DEF Init, Idle
<1>2. bids = {} /\ logs = {} /\ rfq.status = "NONE"
  BY DEF Init, NoRow
<1>3. LedgerInv
  BY <1>1, <1>2 DEF LedgerInv, IdsHandedOut, NothingBeforeRow, OneBidPerClientId
<1>4. CloseInv
  BY <1>1, <1>2 DEF CloseInv, BidsInTime, CloseTimesExplained, CarriesFirstRead,
     CarriesSecondRead, CarriesVerdict
<1>5. FeedInv
  BY <1>1, <1>2 DEF Init, FeedInv, FeedFollowsLedger, CarriesCommitted, Procs
<1> QED
  BY <1>3, <1>4, <1>5, TypeInvInit DEF Inv

(* The invariant is inductive: it holds of the Node backend however calls   *)
(* overlap, whatever query fails and whenever the process stops or starts.  *)
THEOREM NodeInvariance == Spec => []Inv
<1>1. Inv /\ [Next]_vars => Inv'
  BY TypeInvStep, LedgerInvStep, CloseInvStep, FeedInvStep DEF Inv
<1> QED
  BY <1>1, InvInit, PTL DEF Spec

(* Every row, job, event and call stays well formed.                        *)
THEOREM NodeTypeCorrect == Spec => []TypeOK
<1>1. Inv => TypeOK
  BY DEF Inv, TypeInv
<1> QED
  BY <1>1, NodeInvariance, PTL

(* No client_bid_id is spent twice, though the lookup and the insert are    *)
(* two statements and a retry may come between them.                        *)
THEOREM NodeOneBidPerClientId == Spec => []OneBidPerClientId
<1>1. Inv => OneBidPerClientId
  BY DEF Inv, LedgerInv
<1> QED
  BY <1>1, NodeInvariance, PTL

(* While the RFQ is open every bid is stamped between its start and a close *)
(* time the RFQ had before that bid, however long the bid took to commit.   *)
THEOREM NodeBidsInTime == Spec => []BidsInTime
<1>1. Inv => BidsInTime
  BY DEF Inv, CloseInv
<1> QED
  BY <1>1, NodeInvariance, PTL

(* Every close time of an open RFQ, and every logged one, traces back to    *)
(* the first, though one transaction reads the row twice.                   *)
THEOREM NodeCloseTimesExplained == Spec => []CloseTimesExplained
<1>1. Inv => CloseTimesExplained
  BY DEF Inv, CloseInv
<1> QED
  BY <1>1, NodeInvariance, PTL

(* The events tell only of committed bids, of close times the RFQ had and   *)
(* of a closure that has happened.                                          *)
THEOREM NodeFeedFollowsLedger == Spec => []FeedFollowsLedger
<1>1. Inv => FeedFollowsLedger
  BY DEF Inv, FeedInv
<1> QED
  BY <1>1, NodeInvariance, PTL

(* Closing is final: a commit that read the ACTIVE row writes one column.   *)
THEOREM NodeClosedIsFinal == Spec => ClosedIsFinal
<1>1. Inv /\ [Next]_vars => [rfq.status = "CLOSED" => rfq'.status = "CLOSED"]_vars
  BY ClosedStays DEF Inv
<1> QED
  BY <1>1, NodeInvariance, PTL DEF Spec, ClosedIsFinal

----------------------------------------------------------------------------
(* One call at a time. *)

(* A step starts or goes on with one call and leaves the others alone. *)
Steps(p) ==
    /\ call[p].at # "idle" \/ MayStart(p)
    /\ call'[p].at = "idle" => call'[p] = Idle
    /\ \A q \in Procs \ {p} : call'[q] = call[q]

(* A call that is given a new value. *)
LEMMA GivenSteps ==
    ASSUME TypeOK, NEW p \in Procs, NEW c, call' = [call EXCEPT ![p] = c],
           c.at = "idle" => c = Idle, call[p].at # "idle" \/ MayStart(p)
    PROVE  Steps(p)
  BY DEF TypeOK, Steps

(* A call that goes to its next step, or returns. *)
LEMMA GotoSteps ==
    ASSUME TypeOK, NEW p \in Procs, call[p].at # "idle",
           \/ Return(p)
           \/ \E at : at # "idle" /\ Goto(p, at)
    PROVE  Steps(p)
<1>1. CASE Return(p)
  BY <1>1, GivenSteps DEF Return
<1>2. ASSUME NEW at, at # "idle", Goto(p, at) PROVE Steps(p)
  BY <1>2 DEF Goto, Steps, TypeOK, Calls
<1> QED
  BY <1>1, <1>2

(* A bid's steps are its own. *)
LEMMA BidSteps ==
    ASSUME TypeOK, NEW b \in Bidders, BidStep(b)
    PROVE  Steps(b)
<1>0. b \in Procs /\ call[b] \in Calls /\ call \in [Procs -> Calls]
  BY DEF TypeOK, Procs
<1>1. CASE NodeReadsRfq(b)
  <2>1. [call[b] EXCEPT !.at = "best", !.read = rfq.close].at = "best"
    BY <1>0 DEF Calls
  <2>2. \/ Return(b)
        \/ call' = [call EXCEPT ![b] = [call[b] EXCEPT !.at = "best", !.read = rfq.close]]
    BY <1>0, <1>1 DEF NodeReadsRfq
  <2> QED
    BY <1>0, <1>1, <2>1, <2>2, GotoSteps, GivenSteps DEF NodeReadsRfq, At
<1>2. CASE NodeChecksBest(b)
  BY <1>0, <1>2, GotoSteps DEF NodeChecksBest, At
<1>3. CASE NodeRereads(b)
  <2>1. [call[b] EXCEPT !.at = "rank", !.seen = rfq.close].at = "rank"
    BY <1>0 DEF Calls
  <2>2. \/ Return(b)
        \/ call' = [call EXCEPT ![b] = [call[b] EXCEPT !.at = "rank", !.seen = rfq.close]]
    BY <1>0, <1>3 DEF NodeRereads
  <2> QED
    BY <1>0, <1>3, <2>1, <2>2, GotoSteps, GivenSteps DEF NodeRereads, At
<1>4. CASE NodeEvaluates(b)
  <2>1. PICK close : call' = [call EXCEPT ![b] = [call[b] EXCEPT !.at = "commit", !.new = close]]
    BY <1>0, <1>4 DEF NodeEvaluates
  <2>2. [call[b] EXCEPT !.at = "commit", !.new = close].at = "commit"
    BY <1>0 DEF Calls
  <2> QED
    BY <1>0, <1>4, <2>1, <2>2, GivenSteps DEF NodeEvaluates, At
<1>5. CASE NodeCommits(b)
  <2> DEFINE c == [call[b] EXCEPT !.at = "remove", !.id = NewId,
                                  !.delay = DelayUntil(ResultClose(b))]
  <2>1. c.at = "remove"
    BY <1>0 DEF Calls
  <2>2. Return(b) \/ call' = [call EXCEPT ![b] = c]
    BY <1>0, <1>5 DEF NodeCommits
  <2> QED
    BY <1>0, <1>5, <2>1, <2>2, GotoSteps, GivenSteps DEF NodeCommits, At
<1>6. CASE NodeIsDuplicate(b)
  BY <1>0, <1>6, GotoSteps DEF NodeIsDuplicate, At
<1> QED
  BY <1>1, <1>2, <1>3, <1>4, <1>5, <1>6 DEF BidStep

(* Every step of the auction is a step of one call, of all or of none. *)
LEMMA OneSteps ==
    ASSUME TypeOK, [Next]_vars
    PROVE  \/ UNCHANGED call
           \/ call' = [p \in Procs |-> Idle]
           \/ \E p \in Procs : Steps(p)
<1>0. /\ Bidders \subseteq Procs /\ Closers \subseteq Procs
      /\ Creator \in Procs /\ Worker \in Procs
      /\ call \in [Procs -> Calls]
  BY DEF TypeOK, Procs
<1>1. CASE NodeCreates
  <2> DEFINE c == [Idle EXCEPT !.at = "remove", !.delay = DelayUntil(terms.close)]
  <2>1. c.at # "idle"
    BY DEF Idle
  <2>2. call' = call \/ call' = [call EXCEPT ![Creator] = c]
    BY <1>1 DEF NodeCreates
  <2> QED
    BY <1>0, <1>1, <2>1, <2>2, GivenSteps DEF NodeCreates, MayArrive
<1>2. ASSUME NEW b \in Bidders, NEW r \in Requests, NodeBidArrives(b, r)
      PROVE  UNCHANGED call \/ Steps(b)
  <2> DEFINE c == [Idle EXCEPT !.at = "read", !.req = r, !.stamp = now]
  <2>1. c.at # "idle"
    BY DEF Idle
  <2>2. call' = call \/ call' = [call EXCEPT ![b] = c]
    BY <1>2 DEF NodeBidArrives
  <2> QED
    BY <1>0, <1>2, <2>1, <2>2, GivenSteps DEF NodeBidArrives, MayArrive
<1>3. ASSUME NEW c \in Closers, NodeEarlyCloses(c) PROVE Steps(c)
  <2>1. [Idle EXCEPT !.at = "update", !.new = now].at # "idle"
    BY DEF Idle
  <2> QED
    BY <1>0, <1>3, <2>1, GivenSteps DEF NodeEarlyCloses, MayArrive
<1>4. ASSUME NEW c \in Closers, NodeClosesEarly(c) PROVE Steps(c)
  BY <1>0, <1>4, GotoSteps DEF NodeClosesEarly, At
<1>5. ASSUME NEW p \in Bidders \cup {Creator}, ScheduleStep(p) PROVE Steps(p)
  BY <1>0, <1>5, GotoSteps DEF ScheduleStep, NodeRemoves, NodeAdds, At
<1>6. CASE WorkerStep
  BY <1>0, <1>6, GotoSteps
  DEF WorkerStep, NodeWorkerFinds, NodeWorkerCloses, NodeWorkerFinishes, At
<1>7. CASE NodeWorkerTakes
  <2>1. [Idle EXCEPT !.at = "find"].at # "idle"
    BY DEF Idle
  <2> QED
    BY <1>0, <1>7, <2>1, GivenSteps DEF NodeWorkerTakes
<1>8. CASE Lifecycle \/ NodeUnstalls \/ Tick \/ UNCHANGED vars
  BY <1>8 DEF Lifecycle, NodeIsSignalled, NodeDrains, NodeExits, NodeStarts, NodeCrashes,
     PageConnects, PageLeaves, NodeUnstalls, Tick, vars
<1>9. ASSUME NEW p \in Procs, NodeQueryFails(p) PROVE Steps(p)
  BY <1>9, GotoSteps DEF NodeQueryFails
<1> QED
  BY <1>0, <1>1, <1>2, <1>3, <1>4, <1>5, <1>6, <1>7, <1>8, <1>9, BidSteps
  DEF Next, Arrival, Step

(* A call only starts when nobody is in flight. *)
LEMMA StartsAlone ==
    ASSUME MaxInFlight = 1, OneAtATime, NEW p \in Procs, MayStart(p)
    PROVE  InFlight = {}
<1>1. SUFFICES ASSUME NEW q \in InFlight PROVE FALSE
  OBVIOUS
<1>2. InFlight = {q}
  BY <1>1 DEF OneAtATime
<1> QED
  BY <1>2, FS_Singleton DEF MayStart

(* While a call is under way all others are idle. *)
LEMMA OthersIdle ==
    ASSUME OneAtATime, NEW p \in Procs, call[p].at # "idle"
    PROVE  \A q \in Procs \ {p} : call[q] = Idle
<1>1. call[p] # Idle
  BY DEF Idle
<1> QED
  BY <1>1 DEF OneAtATime, InFlight

(* Calls stay one at a time. *)
LEMMA OneAtATimeStep ==
    ASSUME MaxInFlight = 1, TypeOK, OneAtATime, [Next]_vars
    PROVE  OneAtATime'
<1>1. CASE UNCHANGED call
  BY <1>1 DEF OneAtATime, InFlight
<1>2. CASE call' = [p \in Procs |-> Idle]
  BY <1>2 DEF OneAtATime, InFlight
<1>3. ASSUME NEW p \in Procs, Steps(p) PROVE OneAtATime'
  <2>1. \A q \in Procs \ {p} : call[q] = Idle
    BY <1>3, StartsAlone, OthersIdle DEF Steps, InFlight
  <2>2. \A q \in Procs \ {p} : call'[q] = Idle
    BY <1>3, <2>1 DEF Steps
  <2> QED
    BY <1>3, <2>2 DEF Steps, OneAtATime, InFlight
<1> QED
  BY <1>1, <1>2, <1>3, OneSteps

(* The call a step changes is the only one, before and after.               *)
LEMMA ChangesAlone ==
    ASSUME MaxInFlight = 1, TypeOK, OneAtATime, [Next]_vars,
           NEW p \in Procs, call'[p] # call[p]
    PROVE  /\ \A q \in Procs \ {p} : call[q] = Idle /\ call'[q] = Idle
           /\ call[p].at = "idle" => InFlight = {}
           /\ InFlight' = {} => call'[p].at = "idle"
<1>2. OneAtATime'
  BY OneAtATimeStep
<1>3. \A q \in Procs \ {p} : call[q] = Idle /\ call'[q] = Idle
  <2>1. CASE call' = [q \in Procs |-> Idle]
    <3>1. call[p].at # "idle"
      BY <2>1 DEF OneAtATime
    <3> QED
      BY <2>1, <3>1, OthersIdle
  <2>2. ASSUME NEW o \in Procs, Steps(o)
        PROVE  \A q \in Procs \ {p} : call[q] = Idle /\ call'[q] = Idle
    <3>1. o = p
      BY <2>2 DEF Steps
    <3>2. \A q \in Procs \ {p} : call[q] = Idle
      BY <2>2, <3>1, StartsAlone, OthersIdle DEF Steps, InFlight
    <3> QED
      BY <2>2, <3>1, <3>2 DEF Steps
  <2> QED
    BY <2>1, <2>2, OneSteps
<1>4. call[p].at = "idle" => InFlight = {}
  BY <1>3 DEF OneAtATime, InFlight
<1>5. InFlight' = {} => call'[p].at = "idle"
  BY DEF InFlight, Idle
<1> QED
  BY <1>3, <1>4, <1>5
----------------------------------------------------------------------------
(* What a call has read stays true. *)

(* Only the clock's own step moves it, and forward. *)
LEMMA NowMoves ==
    ASSUME TypeOK, [Next]_vars
    PROVE  /\ UNCHANGED now \/ Tick
           /\ now \in Nat /\ now' \in Nat /\ now <= now'
<1>1. UNCHANGED now \/ Tick
  BY DEF Next, Arrival, Step, Lifecycle, vars, NodeCreates, NodeBidArrives, NodeEarlyCloses,
         BidStep, NodeReadsRfq, NodeChecksBest, NodeRereads, NodeEvaluates, NodeCommits,
         NodeIsDuplicate, ScheduleStep, NodeRemoves, NodeAdds, NodeClosesEarly, WorkerStep,
         NodeWorkerFinds, NodeWorkerCloses, NodeWorkerFinishes, NodeWorkerTakes, NodeUnstalls,
         NodeIsSignalled, NodeDrains, NodeExits, NodeStarts, NodeCrashes, PageConnects,
         PageLeaves, NodeQueryFails
<1>2. now \in Nat
  BY NodeClockAssumption DEF TypeOK
<1> QED
  BY <1>1, <1>2 DEF Tick

(* Nobody writes the database while a call sits between two of its steps.   *)
LEMMA DatabaseIsLeft ==
    ASSUME MaxInFlight = 1, TypeOK, OneAtATime, [Next]_vars,
           NEW p \in Procs, call[p].at # "idle", call'[p] = call[p]
    PROVE  UNCHANGED database
<1>1. \A q \in Procs \ {p} : call[q] = Idle
  BY OthersIdle
<1>2. ~NodeCreates
  BY StartsAlone DEF NodeCreates, MayArrive, InFlight, Idle, Procs
<1>3. /\ call \in [Procs -> Calls] /\ Bidders \subseteq Procs /\ Closers \subseteq Procs
      /\ Worker \in Procs
  BY DEF TypeOK, Procs
<1>4. ASSUME NEW b \in Bidders, NodeCommits(b) PROVE FALSE
  <2>1. b = p
    BY <1>1, <1>3, <1>4 DEF NodeCommits, At, Idle
  <2>2. call'[b].at \in {"remove", "idle"} /\ call[b].at = "commit"
    BY <1>3, <1>4 DEF NodeCommits, At, Return, Calls, Idle
  <2> QED
    BY <2>1, <2>2
<1>5. ASSUME NEW c \in Closers, NodeClosesEarly(c) PROVE FALSE
  <2>1. c = p
    BY <1>1, <1>3, <1>5 DEF NodeClosesEarly, At, Idle
  <2>2. call'[c].at = "idle" /\ call[c].at = "update"
    BY <1>3, <1>5 DEF NodeClosesEarly, At, Return, Idle
  <2> QED
    BY <2>1, <2>2
<1>6. ASSUME NodeWorkerCloses PROVE FALSE
  <2>1. Worker = p
    BY <1>1, <1>3, <1>6 DEF NodeWorkerCloses, At, Idle
  <2>2. call'[Worker].at = "finish" /\ call[Worker].at = "close"
    BY <1>3, <1>6 DEF NodeWorkerCloses, At, Goto, Calls
  <2> QED
    BY <2>1, <2>2
<1> QED
  BY <1>2, <1>4, <1>5, <1>6, Writers

(* How a call comes to be where Moves says nothing of it.                   *)
LEMMA OtherMoves ==
    ASSUME TypeOK, [Next]_vars, NEW p \in Procs, call'[p] # call[p]
    PROVE  /\ call'[p].at = "read" => call'[p].stamp = now
           /\ call'[p].at = "update" =>
                 rfq.status = "ACTIVE" /\ call'[p].new = now /\ UNCHANGED <<rfq, now>>
           /\ call'[p].at = "close" =>
                 /\ p = Worker /\ NodeWorkerFinds
                 /\ rfq.status # "CLOSED" /\ NodeDue
<1>0. /\ Bidders \subseteq Procs /\ Closers \subseteq Procs
      /\ Creator \in Procs /\ Worker \in Procs
      /\ call \in [Procs -> Calls] /\ call[p] \in Calls
  BY DEF TypeOK, Procs
<1> DEFINE Target == call'[p].at \in {"read", "update", "close"}
<1>1. CASE NodeCreates
  <2> DEFINE c == [Idle EXCEPT !.at = "remove", !.delay = DelayUntil(terms.close)]
  <2>1. c.at = "remove"
    BY DEF Idle
  <2>2. call' = call \/ call' = [call EXCEPT ![Creator] = c]
    BY <1>1 DEF NodeCreates
  <2> QED
    BY <1>0, <2>1, <2>2
<1>2. ASSUME NEW b \in Bidders, NEW r \in Requests, NodeBidArrives(b, r)
      PROVE  call'[p].at = "read" /\ call'[p].stamp = now
  <2> DEFINE c == [Idle EXCEPT !.at = "read", !.req = r, !.stamp = now]
  <2>1. c.at = "read" /\ c.stamp = now
    BY DEF Idle
  <2>2. call' = call \/ call' = [call EXCEPT ![b] = c]
    BY <1>2 DEF NodeBidArrives
  <2> HIDE DEF c
  <2> QED
    BY <1>0, <2>1, <2>2
<1>3. ASSUME NEW c \in Closers, NodeEarlyCloses(c)
      PROVE  /\ call'[p].at = "update" /\ call'[p].new = now
             /\ rfq.status = "ACTIVE" /\ UNCHANGED <<rfq, now>>
  <2> DEFINE d == [Idle EXCEPT !.at = "update", !.new = now]
  <2>1. d.at = "update" /\ d.new = now
    BY DEF Idle
  <2>2. call' = [call EXCEPT ![c] = d] /\ rfq.status = "ACTIVE" /\ UNCHANGED <<rfq, now>>
    BY <1>3 DEF NodeEarlyCloses, database
  <2> HIDE DEF d
  <2> QED
    BY <1>0, <2>1, <2>2
<1>5. ASSUME NEW b \in Bidders, BidStep(b) PROVE ~Target
  <2>1. Return(b) => call'[p].at = "idle"
    BY <1>0 DEF Return, Idle
  <2>2. \A at : Goto(b, at) => call'[p].at = at
    BY <1>0 DEF Goto, Calls
  <2>3. CASE NodeReadsRfq(b) \/ NodeRereads(b) \/ NodeEvaluates(b)
    BY <1>0, <2>1, <2>3 DEF NodeReadsRfq, NodeRereads, NodeEvaluates, Calls
  <2>4. CASE NodeChecksBest(b) \/ NodeIsDuplicate(b)
    BY <2>1, <2>2, <2>4 DEF NodeChecksBest, NodeIsDuplicate
  <2>5. CASE NodeCommits(b)
    BY <1>0, <2>1, <2>5 DEF NodeCommits, Calls
  <2> QED
    BY <1>5, <2>3, <2>4, <2>5 DEF BidStep
<1>6. ASSUME NEW q \in Procs,
             \/ Return(q)
             \/ \E at \in {"add", "finish"} : Goto(q, at)
      PROVE  ~Target
  <2>1. Return(q) => call'[p].at = "idle"
    BY <1>0 DEF Return, Idle
  <2>2. \A at : Goto(q, at) => call'[p].at = at
    BY <1>0 DEF Goto, Calls
  <2> QED
    BY <1>6, <2>1, <2>2
<1>7. CASE NodeWorkerFinds
  <2>1. call'[p].at = "close" => p = Worker /\ rfq.status # "CLOSED" /\ NodeDue
    BY <1>0, <1>7 DEF NodeWorkerFinds, Goto, Calls
  <2>2. call'[p].at \in {"close", "finish"}
    BY <1>0, <1>7 DEF NodeWorkerFinds, Goto, Calls
  <2> QED
    BY <1>7, <2>1, <2>2
<1>8. CASE NodeWorkerTakes
  <2>1. [Idle EXCEPT !.at = "find"].at = "find"
    BY DEF Idle
  <2> QED
    BY <1>0, <1>8, <2>1 DEF NodeWorkerTakes
<1>9. CASE Lifecycle \/ NodeUnstalls \/ Tick \/ UNCHANGED vars
  <2>1. call' = call \/ call' = [q \in Procs |-> Idle]
    BY <1>9 DEF Lifecycle, NodeIsSignalled, NodeDrains, NodeExits, NodeStarts, NodeCrashes,
       PageConnects, PageLeaves, NodeUnstalls, Tick, vars
  <2> QED
    BY <2>1 DEF Idle
<1>10. CASE \/ \E q \in Bidders \cup {Creator} : ScheduleStep(q)
            \/ \E c \in Closers : NodeClosesEarly(c)
            \/ NodeWorkerCloses \/ NodeWorkerFinishes
            \/ \E q \in Procs : NodeQueryFails(q)
  <2>1. \E q \in Procs : Return(q) \/ \E at \in {"add", "finish"} : Goto(q, at)
    BY <1>0, <1>10 DEF ScheduleStep, NodeRemoves, NodeAdds, NodeClosesEarly, NodeWorkerCloses,
       NodeWorkerFinishes, NodeQueryFails
  <2> QED
    BY <1>6, <2>1
<1> QED
  BY <1>1, <1>2, <1>3, <1>5, <1>7, <1>8, <1>9, <1>10 DEF Next, Arrival, Step, WorkerStep

(* What a bid has found stays so until it commits. *)
LEMMA StillTrueStep ==
    ASSUME MaxInFlight = 1, TypeOK, OneAtATime, [Next]_vars,
           NEW p \in Procs, StillTrue(p)
    PROVE  StillTrue(p)'
<1>0. call[p] \in Calls /\ UNCHANGED terms
  BY Writers DEF TypeOK
<1>1. now \in Nat /\ now' \in Nat /\ now <= now' /\ call[p].stamp \in Nat
  BY <1>0, NowMoves DEF Calls
<1>2. CASE call'[p] = call[p]
  <2>1. CASE call[p].at = "idle"
    BY <1>2, <2>1 DEF StillTrue
  <2>2. CASE call[p].at # "idle"
    <3>1. UNCHANGED <<rfq, bids>>
      BY <1>2, <2>2, DatabaseIsLeft DEF database
    <3>2. call[p].stamp <= now => call[p].stamp <= now'
      BY <1>1
    <3>3. \A c : NodeCloses(rfq'.close, terms', c.req, bids', c.stamp)
                   = NodeCloses(rfq.close, terms, c.req, bids, c.stamp)
      BY <1>0, <3>1
    <3> QED
      BY <1>2, <3>1, <3>2, <3>3 DEF StillTrue, NodeImproves
  <2> QED
    BY <2>1, <2>2
<1>3. CASE call'[p] # call[p] /\ Settles(p)
  <2>1. CASE call'[p].at = "read"
    <3>1. call'[p].stamp <= now'
      BY <1>1, <1>3, <2>1, OtherMoves
    <3> QED
      BY <2>1, <3>1 DEF StillTrue
  <2> QED
    BY <1>3, <2>1 DEF Settles, StillTrue
<1>4. CASE NodeReadsRfq(p) /\ rfq.status = "ACTIVE"
           /\ call'[p] = [call[p] EXCEPT !.at = "best", !.read = rfq.close]
  <2>1. /\ call[p].at = "read" /\ UNCHANGED rfq
        /\ call'[p].at = "best" /\ call'[p].read = rfq.close /\ call'[p].stamp = call[p].stamp
    BY <1>0, <1>4 DEF NodeReadsRfq, At, Calls, database
  <2> QED
    BY <1>1, <1>4, <2>1 DEF StillTrue
<1>5. CASE NodeChecksBest(p) /\ call'[p] = [call[p] EXCEPT !.at = "reread"]
  <2>1. /\ call[p].at = "best" /\ UNCHANGED <<rfq, bids>>
        /\ call'[p].at = "reread" /\ call'[p].read = call[p].read
        /\ call'[p].stamp = call[p].stamp /\ call'[p].req = call[p].req
    BY <1>0, <1>5 DEF NodeChecksBest, At, Calls, database
  <2>2. NodeImproves(call[p].req)
    <3>1. SUFFICES ASSUME Return(p) PROVE FALSE
      BY <1>5 DEF NodeChecksBest
    <3>2. call'[p] = Idle
      BY <3>1 DEF Return, TypeOK
    <3> QED
      BY <2>1, <3>2 DEF Idle
  <2> QED
    BY <1>1, <2>1, <2>2 DEF StillTrue, NodeImproves
<1>6. CASE NodeRereads(p)
           /\ call'[p] = [call[p] EXCEPT !.at = "rank", !.seen = rfq.close]
  <2>1. /\ call[p].at = "reread" /\ UNCHANGED <<rfq, bids>>
        /\ call'[p].at = "rank" /\ call'[p].read = call[p].read /\ call'[p].seen = rfq.close
        /\ call'[p].stamp = call[p].stamp /\ call'[p].req = call[p].req
    BY <1>0, <1>6 DEF NodeRereads, At, Calls, database
  <2> QED
    BY <1>1, <2>1 DEF StillTrue, NodeImproves
<1>7. ASSUME NodeEvaluates(p),
             NEW close \in NodeCloses(call[p].seen, terms, call[p].req, bids, call[p].stamp),
             call'[p] = [call[p] EXCEPT !.at = "commit", !.new = close]
      PROVE  StillTrue(p)'
  <2>1. /\ call[p].at = "rank" /\ UNCHANGED <<rfq, bids>>
        /\ call'[p].at = "commit" /\ call'[p].read = call[p].read /\ call'[p].seen = call[p].seen
        /\ call'[p].stamp = call[p].stamp /\ call'[p].req = call[p].req /\ call'[p].new = close
    BY <1>0, <1>7 DEF NodeEvaluates, At, Calls, database
  <2>2. call[p].seen = rfq.close
    BY <2>1 DEF StillTrue
  <2>3. call'[p].new \in NodeCloses(rfq'.close, terms', call'[p].req, bids', call'[p].stamp)
    BY <1>0, <1>7, <2>1, <2>2
  <2> QED
    BY <1>1, <2>1, <2>3 DEF StillTrue, NodeImproves
<1>8. CASE call'[p].at \in {"add", "remove"}
  BY <1>8 DEF StillTrue
<1>9. CASE p = Creator /\ NodeCreates
  <2>1. [Idle EXCEPT !.at = "remove", !.delay = DelayUntil(terms.close)].at = "remove"
    BY DEF Idle
  <2>2. call'[p].at = "remove" \/ call'[p] = call[p]
    BY <1>9, <2>1 DEF NodeCreates, TypeOK
  <2> QED
    BY <1>2, <1>8, <2>2
<1> QED
  BY <1>0, <1>2, <1>3, <1>4, <1>5, <1>6, <1>7, <1>8, <1>9, CallMoves DEF Moves, Calls
(* A closing call closes an open RFQ. *)
LEMMA ClosesOpenRowStep ==
    ASSUME MaxInFlight = 1, SerialInv, [Next]_vars, NEW p \in Procs
    PROVE  ClosesOpenRow(p)'
<1>0. TypeOK /\ OneAtATime /\ ClosesOpenRow(p) /\ NoJobBeforeRow
  BY DEF SerialInv, Inv, TypeInv
<1>1. now \in Nat /\ now' \in Nat /\ now <= now' /\ UNCHANGED terms
  BY <1>0, NowMoves, Writers
<1>2. /\ call[p] \in Calls /\ call[p].new \in Nat /\ rfq.close \in Nat /\ terms.forced \in Nat
      /\ rfq.status \in {"NONE", "ACTIVE", "CLOSED"}
  BY <1>0, NodeTermsAssumption DEF TypeOK, Calls, ValidTerms
<1>3. CASE call'[p] = call[p] /\ call[p].at \in {"update", "close"}
  <2>1. UNCHANGED rfq
    BY <1>0, <1>3, DatabaseIsLeft DEF database
  <2> QED
    BY <1>0, <1>1, <1>2, <1>3, <2>1 DEF ClosesOpenRow, NodeDue
<1>4. CASE call'[p] # call[p] /\ call'[p].at = "update"
  <2>1. rfq.status = "ACTIVE" /\ call'[p].new = now /\ UNCHANGED <<rfq, now>>
    BY <1>0, <1>4, OtherMoves
  <2> QED
    BY <1>1, <1>4, <2>1 DEF ClosesOpenRow
<1>5. CASE call'[p] # call[p] /\ call'[p].at = "close"
  <2>1. NodeWorkerFinds /\ p = Worker /\ rfq.status # "CLOSED" /\ NodeDue
    BY <1>0, <1>5, OtherMoves
  <2>2. call[p].at = "find" /\ UNCHANGED <<rfq, now>>
    BY <2>1 DEF NodeWorkerFinds, At, database
  <2>3. rfq.status = "ACTIVE"
    BY <1>0, <1>2, <2>1, <2>2 DEF NoJobBeforeRow
  <2> QED
    BY <1>1, <1>5, <2>1, <2>2, <2>3 DEF ClosesOpenRow, NodeDue
<1> QED
  BY <1>3, <1>4, <1>5 DEF ClosesOpenRow

(* Nothing is scheduled before there is an RFQ. *)
LEMMA NoJobBeforeRowStep ==
    ASSUME MaxInFlight = 1, SerialInv, [Next]_vars
    PROVE  NoJobBeforeRow'
<1> SUFFICES ASSUME rfq'.status = "NONE"
             PROVE  /\ job'.state = "none"
                    /\ call'[Worker].at = "idle"
                    /\ \A p \in Procs : call'[p].at \in {"idle", "read"}
  BY DEF NoJobBeforeRow
<1>0. /\ TypeOK /\ NothingBeforeRow /\ NoJobBeforeRow
      /\ \A p \in Procs : ClosesOpenRow(p)
      /\ Bidders \subseteq Procs /\ Closers \subseteq Procs
      /\ Creator \in Procs /\ Worker \in Procs
      /\ rfq \in [status : {"NONE", "ACTIVE", "CLOSED"}, close : Nat]
      /\ call \in [Procs -> Calls]
  BY DEF SerialInv, Inv, TypeInv, LedgerInv, Procs, TypeOK
<1>1. rfq.status = "NONE"
  <2>1. CASE UNCHANGED database
    BY <2>1 DEF database
  <2>2. ~NodeCreates
    BY DEF NodeCreates
  <2>3. ASSUME NEW b \in Bidders, NodeCommits(b) PROVE rfq'.status = rfq.status
    BY <1>0, <2>3 DEF NodeCommits, NodeUpdates
  <2>4. ASSUME NEW c \in Closers PROVE ~NodeClosesEarly(c)
    BY DEF NodeClosesEarly
  <2>5. ~NodeWorkerCloses
    BY <1>0 DEF NodeWorkerCloses
  <2> QED
    BY <1>0, <2>1, <2>2, <2>3, <2>4, <2>5, Writers
<1>2. /\ job.state = "none" /\ call[Worker].at = "idle"
      /\ \A p \in Procs : call[p].at \in {"idle", "read"}
  BY <1>0, <1>1 DEF NoJobBeforeRow
<1>3. ~NodeCreates
  BY DEF NodeCreates
<1>4. ASSUME NEW b \in Bidders, NEW r \in Requests, NodeBidArrives(b, r)
      PROVE  /\ job' = job /\ call'[Worker].at = "idle"
             /\ \A p \in Procs : call'[p].at \in {"idle", "read"}
  <2> DEFINE c == [Idle EXCEPT !.at = "read", !.req = r, !.stamp = now]
  <2>1. c.at = "read"
    BY DEF Idle
  <2>2. (call' = call \/ call' = [call EXCEPT ![b] = c]) /\ job' = job /\ b # Worker
    BY <1>4, NodeProcsAssumption DEF NodeBidArrives
  <2> HIDE DEF c
  <2> QED
    BY <1>0, <1>2, <2>1, <2>2
<1>5. ASSUME NEW q \in Procs, Return(q)
      PROVE  /\ call'[Worker].at = "idle"
             /\ \A p \in Procs : call'[p].at \in {"idle", "read"}
  BY <1>0, <1>2, <1>5 DEF Return, Idle
<1>6. ASSUME NEW b \in Bidders, BidStep(b) PROVE Return(b) /\ job' = job
  BY <1>0, <1>1, <1>2, <1>6 DEF BidStep, NodeReadsRfq, NodeChecksBest, NodeRereads,
     NodeEvaluates, NodeCommits, NodeIsDuplicate, At
<1>7. /\ \A c \in Closers : ~NodeEarlyCloses(c) /\ ~NodeClosesEarly(c)
      /\ ~WorkerStep /\ ~NodeWorkerTakes /\ ~NodeUnstalls
      /\ \A p \in Bidders \cup {Creator} : ~ScheduleStep(p)
  BY <1>0, <1>1, <1>2 DEF NodeEarlyCloses, NodeClosesEarly, WorkerStep, NodeWorkerFinds,
     NodeWorkerCloses, NodeWorkerFinishes, NodeWorkerTakes, TakeJob, NodeUnstalls, Unstall,
     ScheduleStep, NodeRemoves, NodeAdds, At
<1>8. CASE Lifecycle \/ Tick \/ UNCHANGED vars
  <2>1. job' = job /\ (call' = call \/ call' = [p \in Procs |-> Idle])
    BY <1>8 DEF Lifecycle, NodeIsSignalled, NodeDrains, NodeExits, NodeStarts, NodeCrashes,
       PageConnects, PageLeaves, Tick, vars
  <2> QED
    BY <1>0, <1>2, <2>1 DEF Idle
<1>9. ASSUME NEW q \in Procs, NodeQueryFails(q) PROVE Return(q) /\ job' = job
  <2>1. call[q].at = "read"
    BY <1>2, <1>9 DEF NodeQueryFails
  <2>2. q # Worker
    BY <1>2, <2>1
  <2> QED
    BY <1>9, <2>2 DEF NodeQueryFails
<1> QED
  BY <1>0, <1>2, <1>3, <1>4, <1>5, <1>6, <1>7, <1>8, <1>9 DEF Next, Arrival, Step
----------------------------------------------------------------------------
(* The invariant of a backend that handles one call at a time. *)

(* It holds before anything happens. *)
LEMMA SerialInvInit == Init => SerialInv
<1> SUFFICES ASSUME Init PROVE SerialInv
  OBVIOUS
<1>1. Inv
  BY InvInit
<1>2. \A p \in Procs : call[p] = Idle /\ call[p].at = "idle"
  BY DEF Init, Idle
<1>3. OneAtATime /\ \A p \in Procs : StillTrue(p) /\ ClosesOpenRow(p)
  BY <1>2 DEF OneAtATime, InFlight, StillTrue, ClosesOpenRow
<1>4. NoJobBeforeRow
  BY <1>2 DEF Init, NoJob, NoJobBeforeRow, Procs
<1> QED
  BY <1>1, <1>3, <1>4 DEF SerialInv

(* And every step keeps it. *)
LEMMA SerialInvStep ==
    ASSUME MaxInFlight = 1, SerialInv, [Next]_vars
    PROVE  SerialInv'
<1>1. Inv /\ TypeOK /\ OneAtATime
  BY DEF SerialInv, Inv, TypeInv
<1>2. Inv'
  BY <1>1, TypeInvStep, LedgerInvStep, CloseInvStep, FeedInvStep DEF Inv
<1>3. OneAtATime'
  BY <1>1, OneAtATimeStep
<1>4. \A p \in Procs : StillTrue(p)' /\ ClosesOpenRow(p)'
  BY <1>1, StillTrueStep, ClosesOpenRowStep DEF SerialInv
<1> QED
  BY <1>2, <1>3, <1>4, NoJobBeforeRowStep DEF SerialInv

(* A Node backend that handles one call at a time keeps its invariant,      *)
(* whatever fails and whenever its process stops.                           *)
THEOREM NodeSerialInvariance ==
    ASSUME MaxInFlight = 1
    PROVE  Spec => []SerialInv
<1>1. SerialInv /\ [Next]_vars => SerialInv'
  BY SerialInvStep
<1> QED
  BY <1>1, SerialInvInit, PTL DEF Spec

----------------------------------------------------------------------------
(* The auction the backend promises. *)

(* A ledger has as many rows with its timestamps as without them.           *)
LEMMA UntimedCount ==
    ASSUME TypeOK, OneBidPerClientId
    PROVE  Promised!Cardinality({Untimed(x) : x \in bids}) = Cardinality(bids)
<1> DEFINE S == {Untimed(x) : x \in bids}
           f == [x \in bids |-> Untimed(x)]
<1>1. \A x, y \in bids : f[x] = f[y] => x = y
  <2> SUFFICES ASSUME NEW x \in bids, NEW y \in bids, Untimed(x) = Untimed(y) PROVE x = y
    OBVIOUS
  <2>1. x.id = y.id
    BY DEF Untimed
  <2> QED
    BY <2>1 DEF OneBidPerClientId
<1>2. f \in Injection(bids, S)
  BY <1>1, Fun_IsInj
<1>3. f \in Surjection(bids, S)
  BY Fun_IsSurj
<1>4. Cardinality(S) = Cardinality(bids)
  BY <1>2, <1>3, FS_Surjection DEF TypeOK
<1>5. \A T : Promised!Cardinality(T) = Cardinality(T)
  BY DEF Promised!Cardinality, Cardinality
<1> QED
  BY <1>4, <1>5

(* The rules look at suppliers and prices only. *)
LEMMA UntimedCloses ==
    ASSUME NEW close, NEW t, NEW bid, NEW at
    PROVE  NodeCloses(close, t, bid, {Untimed(x) : x \in bids}, at)
             = NodeCloses(close, t, bid, bids, at)
<1> DEFINE S == {Untimed(x) : x \in bids}
           entry(b) == [supplier |-> b.supplier, price |-> b.price]
<1>1. \A x : Untimed(x).supplier = x.supplier /\ Untimed(x).price = x.price
  BY DEF Untimed
<1>2. \A x \in bids : x \in BestRows(bids) <=> Untimed(x) \in BestRows(S)
  BY <1>1 DEF BestRows
<1>3. BestRows(S) = {Untimed(x) : x \in BestRows(bids)}
  BY <1>2 DEF BestRows
<1>4. {entry(b) : b \in BestRows(S)} = {entry(b) : b \in BestRows(bids)}
  <2>1. \A x : entry(Untimed(x)) = entry(x)
    BY <1>1
  <2> HIDE DEF entry
  <2>2. ASSUME NEW e PROVE (\E b \in BestRows(S) : e = entry(b))
                            <=> (\E b \in BestRows(bids) : e = entry(b))
    BY <1>3, <2>1
  <2> QED
    BY <2>2
<1>5. NodeBoards(S) = NodeBoards(bids)
  BY <1>4 DEF NodeBoards
<1> QED
  BY <1>5 DEF NodeCloses

(* Every call takes effect at its one write of the database.                *)
LEMMA PromisedStep ==
    ASSUME MaxInFlight = 1, SerialInv, [Next]_vars
    PROVE  [Promised!Next]_(Promised!vars)
<1> DEFINE ledger == {Untimed(x) : x \in bids}
<1>0. /\ TypeOK /\ CarriesRequest /\ CarriesVerdict /\ OneBidPerClientId /\ NothingBeforeRow
      /\ rfq \in [status : {"NONE", "ACTIVE", "CLOSED"}, close : Nat]
      /\ Bidders \subseteq Procs /\ Closers \subseteq Procs /\ Worker \in Procs
  BY DEF SerialInv, Inv, TypeInv, LedgerInv, CloseInv, TypeOK, Procs
<1>1. UNCHANGED terms /\ now \in Nat
  BY <1>0, Writers, NowMoves
<1>2. CASE Tick
  BY <1>2 DEF Tick, database, Promised!Tick, Promised!Next
<1>3. CASE NodeCreates
  <2>1. Promised!Open
    BY <1>3 DEF NodeCreates, Promised!Open
  <2> QED
    BY <2>1 DEF Promised!Next
<1>4. ASSUME NEW b \in Bidders, NodeCommits(b)
      PROVE  \E r \in Requests : Promised!Accept(r)
  <2> DEFINE r == call[b].req
  <2>1. b \in Procs /\ call[b] \in Calls /\ call[b].at = "commit"
    BY <1>0, <1>4 DEF NodeCommits, At, TypeOK
  <2>2. r \in Requests
    BY <1>0, <2>1 DEF CarriesRequest
  <2>3. \A x \in bids : x.client # r.client \/ r.client = NoClientId
    BY <1>4 DEF NodeCommits, NodeDuplicate, SameClientId
  <2>4. /\ call[b].stamp \in 0..now /\ rfq.status = "ACTIVE" /\ call[b].seen = rfq.close
        /\ NodeImproves(r)
        /\ call[b].new \in NodeCloses(rfq.close, terms, r, bids, call[b].stamp)
    BY <1>0, <1>1, <2>1 DEF SerialInv, StillTrue, Calls
  <2>5. rfq'.status = "ACTIVE" /\ rfq'.close = call[b].new
    <3>1. call[b].new = rfq.close \/ rfq.close < call[b].new
      BY <1>0, <2>1, <2>4 DEF CarriesVerdict
    <3>2. call[b].new \in Nat /\ rfq.close \in Nat
      BY <1>0, <2>1 DEF Calls
    <3> QED
      BY <1>0, <1>4, <2>4, <3>1, <3>2 DEF NodeCommits, NodeUpdates, Extended
  <2>6. rfq'.close \in NodeCloses(rfq.close, terms, r, ledger, call[b].stamp)
    BY <2>4, <2>5, UntimedCloses
  <2> DEFINE bid == [id |-> Promised!Cardinality(ledger) + 1, supplier |-> r.supplier,
                     price |-> r.price, client |-> r.client]
  <2>7. ledger' = ledger \cup {bid}
    <3>1. bids' = bids \cup {BidRow(b, NewId)}
      BY <1>4 DEF NodeCommits
    <3>2. Untimed(BidRow(b, NewId)) = bid
      BY <1>0, UntimedCount DEF Untimed, BidRow, NewId
    <3> HIDE DEF bid
    <3> QED
      BY <3>1, <3>2
  <2>8. \A x \in ledger : x.client # r.client \/ r.client = NoClientId
    BY <2>3 DEF Untimed
  <2>9. \A x \in ledger : x.supplier = r.supplier => r.price < x.price
    BY <2>4 DEF Untimed, NodeImproves
  <2>10. UNCHANGED <<now, terms, rfq.status>>
    BY <1>4, <2>4, <2>5 DEF NodeCommits
  <2>11. Promised!Accept(r)
    BY <2>4, <2>6, <2>7, <2>8, <2>9, <2>10 DEF Promised!Accept
  <2> QED
    BY <2>2, <2>11
<1>5. ASSUME NEW c \in Closers, NodeClosesEarly(c) PROVE Promised!ForceFinalize
  <2>1. /\ call[c] \in Calls /\ call[c].at = "update"
        /\ rfq' = [status |-> "CLOSED", close |-> call[c].new]
        /\ UNCHANGED <<now, terms, bids>>
    BY <1>0, <1>5 DEF NodeClosesEarly, At, TypeOK
  <2>2. rfq.status = "ACTIVE" /\ call[c].new <= now /\ call[c].new \in Nat
    BY <1>0, <2>1 DEF SerialInv, ClosesOpenRow, Calls
  <2> QED
    BY <1>1, <2>1, <2>2 DEF Promised!ForceFinalize
<1>6. ASSUME NodeWorkerCloses PROVE Promised!Finalize
  <2>1. /\ call[Worker].at = "close" /\ rfq' = [rfq EXCEPT !.status = "CLOSED"]
        /\ UNCHANGED <<now, terms, bids>>
    BY <1>6 DEF NodeWorkerCloses, At
  <2>2. rfq.status = "ACTIVE" /\ NodeDue
    BY <1>0, <2>1 DEF SerialInv, ClosesOpenRow
  <2> QED
    BY <1>0, <2>1, <2>2 DEF Promised!Finalize, NodeDue
<1>7. CASE UNCHANGED database /\ UNCHANGED now
  BY <1>1, <1>7 DEF database, Promised!vars
<1> QED
  BY <1>0, <1>2, <1>3, <1>4, <1>5, <1>6, <1>7, Writers, NowMoves DEF Promised!Next

(* createBid, earlyClose and the closure job are atomic when calls are      *)
(* handled one at a time (bid.service.ts:26-112, rfq.service.ts, worker.ts) *)
(* for every bidder, request and terms, whatever fails and whenever the     *)
(* process stops: the auction is the one of Go, under Node's own rules.     *)
THEOREM NodeImplementsBritishAuction ==
    ASSUME MaxInFlight = 1
    PROVE  Spec => ImplementsBritishAuction
<1>1. Init => Promised!Init
  BY DEF Init, NoRow, Promised!Init
<1>2. SerialInv /\ [Next]_vars => [Promised!Next]_(Promised!vars)
  BY PromisedStep
<1> QED
  BY <1>1, <1>2, NodeSerialInvariance, PTL DEF Spec, ImplementsBritishAuction, Promised!Spec
----------------------------------------------------------------------------
(* A process that does not fail and is told to stop at most once. *)

(* It keeps its queue, and its shutdown waits for every request.            *)
LEMMA ServerInvStep ==
    ASSUME MaxFaults = 0, MaxSignals \in {0, 1}, TypeOK, ServerInv, [Next]_vars
    PROVE  ServerInv'
<1>0. /\ signals \in 0..MaxSignals /\ server \in {"up", "draining", "closing", "down"}
      /\ Bidders \subseteq Procs \ {Worker} /\ Closers \subseteq Procs \ {Worker}
      /\ Creator \in Procs \ {Worker} /\ Worker \in Procs
      /\ call \in [Procs -> Calls]
  BY NodeProcsAssumption DEF TypeOK, Procs
<1>1. ~Fault
  BY DEF Fault, TypeOK
<1>2. CASE NodeIsSignalled
  BY <1>0, <1>2 DEF NodeIsSignalled, ServerInv, NobodyServed
<1>3. CASE NodeDrains
  BY <1>3 DEF NodeDrains, HttpIsClosed, ServerInv, NobodyServed
<1>4. CASE NodeExits
  BY <1>4 DEF NodeExits, ServerInv, NobodyServed
<1>5. CASE NodeStarts
  BY <1>1, <1>5 DEF NodeStarts, ServerInv
<1>6. ~NodeCrashes /\ \A p \in Procs : ~NodeQueryFails(p)
  BY <1>1 DEF NodeCrashes, NodeQueryFails
<1>7. CASE PageConnects \/ PageLeaves \/ Tick \/ NodeUnstalls \/ UNCHANGED vars
  BY <1>7 DEF PageConnects, PageLeaves, Tick, NodeUnstalls, vars, process, ServerInv, NobodyServed
<1>8. CASE Arrival
  BY <1>8 DEF Arrival, NodeCreates, NodeBidArrives, NodeEarlyCloses, MayArrive, process, ServerInv
<1>9. ASSUME NEW p \in Procs \ {Worker}, call[p] # Idle, UNCHANGED process PROVE ServerInv'
  <2>1. server \notin {"closing", "down"}
    BY <1>0, <1>9 DEF ServerInv, NobodyServed
  <2> QED
    BY <1>9, <2>1 DEF process, ServerInv
<1>10. CASE \/ \E b \in Bidders : BidStep(b)
            \/ \E p \in Bidders \cup {Creator} : ScheduleStep(p)
            \/ \E c \in Closers : NodeClosesEarly(c)
  <2>1. UNCHANGED process
    BY <1>10 DEF BidStep, NodeReadsRfq, NodeChecksBest, NodeRereads, NodeEvaluates, NodeCommits,
       NodeIsDuplicate, ScheduleStep, NodeRemoves, NodeAdds, NodeClosesEarly
  <2>2. \E p \in Procs \ {Worker} : call[p].at # "idle"
    BY <1>0, <1>10 DEF BidStep, NodeReadsRfq, NodeChecksBest, NodeRereads, NodeEvaluates,
       NodeCommits, NodeIsDuplicate, ScheduleStep, NodeRemoves, NodeAdds, NodeClosesEarly, At
  <2> QED
    BY <1>9, <2>1, <2>2 DEF Idle
<1>11. CASE WorkerStep \/ NodeWorkerTakes
  <2>1. UNCHANGED process /\ \E c : call' = [call EXCEPT ![Worker] = c]
    BY <1>11 DEF WorkerStep, NodeWorkerFinds, NodeWorkerCloses, NodeWorkerFinishes,
       NodeWorkerTakes, Goto, Return
  <2> QED
    BY <1>0, <2>1 DEF process, ServerInv, NobodyServed
<1> QED
  BY <1>2, <1>3, <1>4, <1>5, <1>6, <1>7, <1>8, <1>10, <1>11 DEF Next, Step, Lifecycle

(* The steps of the process leave the auction alone: nobody is under way    *)
(* when it exits.                                                           *)
LEMMA LifecycleIsQuiet ==
    ASSUME MaxFaults = 0, TypeOK, OneAtATime, ServerInv, Lifecycle
    PROVE  UNCHANGED <<now, job, rfq, terms, bids, logs, feed, call>>
<1>1. ~NodeCrashes
  BY DEF NodeCrashes, Fault, TypeOK
<1>2. ASSUME NodeExits PROVE call' = call
  <2>1. \A p \in Procs : call[p] = Idle
    BY <1>2 DEF NodeExits, ServerInv, NobodyServed
  <2> QED
    BY <1>2, <2>1 DEF NodeExits, TypeOK
<1> QED
  BY <1>1, <1>2 DEF Lifecycle, NodeIsSignalled, NodeDrains, NodeExits, NodeStarts,
     PageConnects, PageLeaves, database

----------------------------------------------------------------------------
(* What the feed tells. *)

(* What one call owes the feed, and the feed owes nobody.                   *)
Outlined(p) == FeedOutline(p) /\ (call[p].at = "idle" => FeedAgrees)

(* It is enough to follow the call that moves.                              *)
LEMMA FeedByOne ==
    ASSUME MaxInFlight = 1, SerialInv, FeedToldInv, [Next]_vars,
           NEW p \in Procs, call'[p] # call[p]
    PROVE  Outlined(p) /\ (Outlined(p)' => FeedToldInv')
<1>0. TypeOK /\ OneAtATime
  BY DEF SerialInv, Inv, TypeInv
<1>1. Outlined(p)
  BY <1>0, ChangesAlone DEF Outlined, FeedToldInv
<1>2. ASSUME Outlined(p)' PROVE FeedToldInv'
  <2>1. InFlight' = {} => FeedAgrees'
    BY <1>0, <1>2, ChangesAlone DEF Outlined
  <2>2. FeedOutline(p)'
    BY <1>2 DEF Outlined
  <2>3. ASSUME NEW q \in Procs \ {p} PROVE FeedOutline(q)'
    <3>1. call'[q].at = "idle"
      BY <1>0, ChangesAlone DEF Idle
    <3> QED
      BY <3>1 DEF FeedOutline
  <2> QED
    BY <2>1, <2>2, <2>3 DEF FeedToldInv
<1> QED
  BY <1>1, <1>2

(* A step from where the feed agrees to where it must.                      *)
LEMMA StillAgrees ==
    ASSUME FeedAgrees, UNCHANGED <<rfq, bids, feed>>
    PROVE  FeedAgrees'
  BY DEF FeedAgrees, AllBidsTold

(* The bid's own steps. *)
LEMMA BidTold ==
    ASSUME MaxInFlight = 1, SerialInv, ServerInv, FeedToldInv, [Next]_vars,
           NEW b \in Bidders, BidStep(b)
    PROVE  FeedToldInv'
<1>0. /\ TypeOK /\ b \in Procs /\ call[b] \in Calls /\ call \in [Procs -> Calls]
      /\ rfq \in [status : {"NONE", "ACTIVE", "CLOSED"}, close : Nat]
      /\ TypeInv /\ LedgerInv
  BY DEF SerialInv, Inv, TypeInv, TypeOK, Procs
<1>1. SUFFICES ASSUME call'[b] # call[b] => Outlined(b)
               PROVE  call'[b] # call[b] /\ Outlined(b)'
  BY <1>0, FeedByOne
<1>2. CASE ~NodeCommits(b)
  <2>1. /\ call[b].at \in {"read", "best", "reread", "rank", "commit"}
        /\ UNCHANGED <<rfq, bids, feed>>
    BY <1>2 DEF BidStep, NodeReadsRfq, NodeChecksBest, NodeRereads, NodeEvaluates,
       NodeIsDuplicate, At, database
  <2>2. /\ call'[b].at \in {"idle", "best", "reread", "rank", "commit"}
        /\ call'[b].at # call[b].at
    <3>1. CASE NodeReadsRfq(b) \/ NodeRereads(b)
      BY <1>0, <3>1 DEF NodeReadsRfq, NodeRereads, At, Return, Calls, Idle
    <3>2. CASE NodeEvaluates(b)
      BY <1>0, <3>2 DEF NodeEvaluates, At, Calls
    <3>3. CASE NodeChecksBest(b) \/ NodeIsDuplicate(b)
      BY <1>0, <3>3 DEF NodeChecksBest, NodeIsDuplicate, At, Goto, Return, Calls, Idle
    <3> QED
      BY <1>2, <3>1, <3>2, <3>3 DEF BidStep
  <2>3. FeedAgrees'
    BY <1>1, <2>1, <2>2, StillAgrees DEF Outlined, FeedOutline
  <2> QED
    BY <2>2, <2>3 DEF Outlined, FeedOutline
<1>3. CASE NodeCommits(b)
  <2> DEFINE c == [call[b] EXCEPT !.at = "remove", !.id = NewId,
                                  !.delay = DelayUntil(ResultClose(b))]
  <2>1. call[b].at = "commit" /\ call' = [call EXCEPT ![b] = c] /\ UNCHANGED feed
    BY <1>0, <1>3 DEF NodeCommits, At, ServerInv
  <2>2. /\ c.at = "remove" /\ c.id = NewId /\ c.new = call[b].new
        /\ c.seen = call[b].seen /\ c.read = call[b].read
    BY <1>0 DEF Calls
  <2> HIDE DEF c
  <2>3. /\ call'[b].at = "remove" /\ call'[b].id = NewId /\ call'[b].new = call[b].new
        /\ call'[b].seen = call[b].seen /\ call'[b].read = call[b].read
    BY <1>0, <2>1, <2>2
  <2>4. FeedAgrees
    BY <1>1, <2>1, <2>3 DEF Outlined, FeedOutline
  <2>5. /\ rfq.status = "ACTIVE" /\ call[b].read = rfq.close /\ call[b].seen = rfq.close
    BY <1>0, <2>1 DEF SerialInv, StillTrue
  <2>6. ResultClose(b)' = ResultClose(b)
    BY <2>3 DEF ResultClose, Extended
  <2>7. rfq'.status = "ACTIVE" /\ rfq'.close = ResultClose(b)
    BY <1>0, <1>3, <2>5 DEF NodeCommits, NodeUpdates, ResultClose
  <2>8. {x.id : x \in bids'} = {x.id : x \in bids} \cup {NewId}
    BY <1>0, <1>3, CommitFacts
  <2>9. BidUntold(b)'
    BY <2>1, <2>3, <2>4, <2>5, <2>6, <2>7, <2>8 DEF BidUntold, FeedAgrees, AllBidsTold
  <2> QED
    BY <2>1, <2>3, <2>9 DEF Outlined, FeedOutline
<1> QED
  BY <1>2, <1>3

(* The steps that schedule a closure, and then tell of the bid.             *)
LEMMA ScheduleTold ==
    ASSUME MaxInFlight = 1, SerialInv, FeedToldInv, [Next]_vars,
           NEW p \in Bidders \cup {Creator}, ScheduleStep(p)
    PROVE  FeedToldInv'
<1>0. /\ TypeOK /\ p \in Procs /\ call[p] \in Calls /\ call \in [Procs -> Calls]
      /\ feed \in [placed : SUBSET Nat, close : Nat, closed : BOOLEAN]
      /\ Creator \notin Bidders
  BY NodeProcsAssumption DEF SerialInv, Inv, TypeInv, TypeOK, Procs
<1>1. SUFFICES ASSUME call'[p] # call[p] => Outlined(p)
               PROVE  call'[p] # call[p] /\ Outlined(p)'
  BY <1>0, FeedByOne
<1>2. CASE NodeRemoves(p)
  <2>1. /\ call[p].at = "remove" /\ UNCHANGED <<rfq, bids, feed>>
        /\ call'[p].at = "add" /\ call'[p].id = call[p].id /\ call'[p].new = call[p].new
        /\ call'[p].seen = call[p].seen /\ call'[p].read = call[p].read
    BY <1>0, <1>2 DEF NodeRemoves, At, Goto, Calls, database
  <2>2. CASE p \in Bidders
    <3>1. BidUntold(p)
      BY <1>1, <2>1, <2>2 DEF Outlined, FeedOutline
    <3>2. BidUntold(p)'
      BY <2>1, <3>1 DEF BidUntold, ResultClose, Extended
    <3> QED
      BY <2>1, <2>2, <3>2 DEF Outlined, FeedOutline
  <2>3. CASE p \notin Bidders
    <3>1. FeedAgrees'
      BY <1>1, <2>1, <2>3, StillAgrees DEF Outlined, FeedOutline
    <3> QED
      BY <2>1, <2>3, <3>1 DEF Outlined, FeedOutline
  <2> QED
    BY <2>2, <2>3
<1>3. CASE NodeAdds(p)
  <2>1. /\ call[p].at = "add" /\ UNCHANGED <<rfq, bids>> /\ call'[p].at = "idle"
        /\ feed' = IF p = Creator THEN feed
                   ELSE WithBid(WithClose(feed, ResultClose(p)), call[p].id)
    BY <1>0, <1>3 DEF NodeAdds, AnnouncedClose, At, Return, Idle, database
  <2>2. CASE p \in Bidders
    <3>1. BidUntold(p)
      BY <1>1, <2>1, <2>2 DEF Outlined, FeedOutline
    <3>2. /\ feed'.placed = feed.placed \cup {call[p].id} /\ feed'.close = ResultClose(p)
          /\ feed'.closed = feed.closed
      BY <1>0, <2>1, <2>2 DEF WithBid, WithClose
    <3>3. FeedAgrees'
      BY <2>1, <3>1, <3>2 DEF FeedAgrees, AllBidsTold, BidUntold
    <3> QED
      BY <2>1, <3>3 DEF Outlined, FeedOutline
  <2>3. CASE p \notin Bidders
    <3>1. FeedAgrees'
      BY <1>1, <2>1, <2>3, StillAgrees DEF Outlined, FeedOutline
    <3> QED
      BY <2>1, <3>1 DEF Outlined, FeedOutline
  <2> QED
    BY <2>2, <2>3
<1> QED
  BY <1>2, <1>3 DEF ScheduleStep

(* Calls that arrive. *)
LEMMA ArrivalTold ==
    ASSUME MaxInFlight = 1, SerialInv, ServerInv, FeedToldInv, [Next]_vars, Arrival
    PROVE  FeedToldInv'
<1>0. /\ TypeOK /\ OneAtATime /\ NothingBeforeRow /\ call \in [Procs -> Calls]
      /\ feed \in [placed : SUBSET Nat, close : Nat, closed : BOOLEAN]
      /\ Creator \in Procs /\ Bidders \subseteq Procs /\ Closers \subseteq Procs
      /\ Creator \notin Bidders
  BY NodeProcsAssumption DEF SerialInv, Inv, TypeInv, LedgerInv, TypeOK, Procs
<1>1. \A p \in Procs : MayStart(p) => InFlight = {}
  BY <1>0, StartsAlone
<1>2. InFlight = {}
  BY <1>0, <1>1 DEF Arrival, NodeCreates, NodeBidArrives, NodeEarlyCloses, MayArrive
<1>3. FeedAgrees /\ \A p \in Procs : call[p] = Idle /\ call[p].at = "idle"
  BY <1>2 DEF FeedToldInv, InFlight, Idle
<1>4. ASSUME FeedAgrees',
             \A p \in Procs : call'[p].at \in {"idle", "read", "update"}
                              \/ (p \notin Bidders /\ call'[p].at = "remove")
      PROVE  FeedToldInv'
  BY <1>4 DEF FeedToldInv, FeedOutline
<1>5. CASE NodeCreates
  <2> DEFINE c == [Idle EXCEPT !.at = "remove", !.delay = DelayUntil(terms.close)]
  <2>1. c.at = "remove"
    BY DEF Idle
  <2>2. /\ call' = [call EXCEPT ![Creator] = c]
        /\ rfq.status = "NONE" /\ rfq'.status = "ACTIVE" /\ UNCHANGED <<bids, feed>>
    BY <1>5 DEF NodeCreates, ServerInv
  <2> HIDE DEF c
  <2>3. FeedAgrees'
    BY <1>0, <1>3, <2>2 DEF FeedAgrees, AllBidsTold, NothingBeforeRow
  <2> QED
    BY <1>0, <1>3, <1>4, <2>1, <2>2, <2>3
<1>6. ASSUME NEW b \in Bidders, NEW r \in Requests, NodeBidArrives(b, r) PROVE FeedToldInv'
  <2> DEFINE c == [Idle EXCEPT !.at = "read", !.req = r, !.stamp = now]
  <2>1. c.at = "read"
    BY DEF Idle
  <2>2. \/ call' = [call EXCEPT ![b] = c] /\ UNCHANGED <<rfq, bids, feed>>
        \/ /\ UNCHANGED <<call, rfq, bids>>
           /\ \E x \in bids : feed' = WithBid(feed, x.id)
    BY <1>6 DEF NodeBidArrives, database
  <2> HIDE DEF c
  <2>3. FeedAgrees'
    <3>1. ASSUME NEW x \in bids, feed' = WithBid(feed, x.id), UNCHANGED <<rfq, bids>>
          PROVE  FeedAgrees'
      <4>1. /\ feed'.placed = feed.placed \cup {x.id} /\ feed'.close = feed.close
            /\ feed'.closed = feed.closed
        BY <1>0, <3>1 DEF WithBid
      <4> QED
        BY <1>3, <3>1, <4>1 DEF FeedAgrees, AllBidsTold
    <3> QED
      BY <1>3, <2>2, <3>1, StillAgrees
  <2>4. \A p \in Procs : call'[p].at \in {"idle", "read"}
    BY <1>0, <1>3, <2>1, <2>2
  <2> QED
    BY <1>4, <2>3, <2>4
<1>7. ASSUME NEW c \in Closers, NodeEarlyCloses(c) PROVE FeedToldInv'
  <2> DEFINE d == [Idle EXCEPT !.at = "update", !.new = now]
  <2>1. d.at = "update"
    BY DEF Idle
  <2>2. call' = [call EXCEPT ![c] = d] /\ UNCHANGED <<rfq, bids, feed>>
    BY <1>7 DEF NodeEarlyCloses, database
  <2> HIDE DEF d
  <2> QED
    BY <1>0, <1>3, <1>4, <2>1, <2>2, StillAgrees
<1> QED
  BY <1>5, <1>6, <1>7 DEF Arrival

(* The steps of a closing call. *)
LEMMA ClosureTold ==
    ASSUME MaxInFlight = 1, SerialInv, FeedToldInv, [Next]_vars,
           NEW p \in Procs \ Bidders,
           (p \in Closers /\ NodeClosesEarly(p)) \/ (p = Worker /\ (WorkerStep \/ NodeWorkerTakes))
    PROVE  FeedToldInv'
<1>0. /\ TypeOK /\ call[p] \in Calls /\ call \in [Procs -> Calls]
      /\ feed \in [placed : SUBSET Nat, close : Nat, closed : BOOLEAN]
      /\ rfq \in [status : {"NONE", "ACTIVE", "CLOSED"}, close : Nat]
  BY DEF SerialInv, Inv, TypeInv, TypeOK, Procs
<1>1. SUFFICES ASSUME call'[p] # call[p] => Outlined(p)
               PROVE  call'[p] # call[p] /\ Outlined(p)'
  BY <1>0, FeedByOne
<1>2. CASE NodeClosesEarly(p) \/ (p = Worker /\ NodeWorkerCloses)
  <2>1. /\ call[p].at \in {"update", "close"} /\ rfq'.status = "CLOSED" /\ UNCHANGED bids
        /\ feed' = [feed EXCEPT !.closed = TRUE] /\ call'[p].at \in {"idle", "finish"}
    BY <1>0, <1>2 DEF NodeClosesEarly, NodeWorkerCloses, At, Return, Goto, Calls, Idle
  <2>2. FeedAgrees
    BY <1>1, <2>1 DEF Outlined, FeedOutline
  <2>3. feed'.placed = feed.placed /\ feed'.closed
    BY <1>0, <2>1
  <2>4. FeedAgrees'
    BY <2>1, <2>2, <2>3 DEF FeedAgrees, AllBidsTold
  <2> QED
    BY <2>1, <2>4 DEF Outlined, FeedOutline
<1>3. CASE p = Worker /\ (NodeWorkerFinds \/ NodeWorkerFinishes \/ NodeWorkerTakes)
  <2>1. /\ call[p].at \in {"idle", "find", "finish"} /\ UNCHANGED <<rfq, bids, feed>>
        /\ call'[p].at # call[p].at /\ call'[p].at \in {"idle", "find", "close", "finish"}
    <3>1. CASE NodeWorkerTakes
      <4>1. [Idle EXCEPT !.at = "find"].at = "find" /\ Idle.at = "idle"
        BY DEF Idle
      <4> QED
        BY <1>0, <1>3, <3>1, <4>1 DEF NodeWorkerTakes, MayStart, database
    <3>2. CASE NodeWorkerFinds \/ NodeWorkerFinishes
      BY <1>0, <1>3, <3>2 DEF NodeWorkerFinds, NodeWorkerFinishes, At, Goto, Return, Calls, Idle,
         database
    <3> QED
      BY <1>3, <3>1, <3>2
  <2>2. FeedAgrees'
    BY <1>1, <2>1, StillAgrees DEF Outlined, FeedOutline
  <2> QED
    BY <2>1, <2>2 DEF Outlined, FeedOutline
<1> QED
  BY <1>2, <1>3 DEF WorkerStep

(* Without failures every step keeps the feed told. *)
LEMMA FeedToldInvStep ==
    ASSUME MaxInFlight = 1, MaxFaults = 0, SerialInv, ServerInv, FeedToldInv, [Next]_vars
    PROVE  FeedToldInv'
<1>0. TypeOK /\ OneAtATime /\ Worker \in Procs \ Bidders /\ Closers \subseteq Procs \ Bidders
  BY NodeProcsAssumption DEF SerialInv, Inv, TypeInv, Procs
<1>1. CASE UNCHANGED <<rfq, bids, feed, call>>
  BY <1>1 DEF FeedToldInv, FeedOutline, FeedAgrees, AllBidsTold, BidUntold, ResultClose, Extended,
     InFlight
<1>2. Lifecycle \/ Tick \/ NodeUnstalls \/ UNCHANGED vars => UNCHANGED <<rfq, bids, feed, call>>
  BY <1>0, LifecycleIsQuiet DEF Tick, NodeUnstalls, vars, database
<1>3. \A p \in Procs : ~NodeQueryFails(p)
  BY <1>0 DEF NodeQueryFails, Fault, TypeOK
<1> QED
  BY <1>0, <1>1, <1>2, <1>3, BidTold, ScheduleTold, ArrivalTold, ClosureTold DEF Next, Step

(* A page that heard every event of a backend that handled one call at a    *)
(* time and met no failure agrees with the database between two calls       *)
(* (bid.controller.ts:31-38, rfq.controller.ts:42, worker.ts:28), also      *)
(* across a graceful restart.                                               *)
THEOREM NodeFeedIsCurrent ==
    ASSUME MaxInFlight = 1, MaxFaults = 0, MaxSignals \in {0, 1}
    PROVE  Spec => []FeedIsCurrent
<1>1. Init => ServerInv
  BY DEF Init, ServerInv
<1>2. Init => FeedToldInv
  BY DEF Init, FeedToldInv, FeedOutline, FeedAgrees, AllBidsTold, NoRow, Idle
<1>3. SerialInv /\ ServerInv /\ [Next]_vars => ServerInv'
  BY ServerInvStep DEF SerialInv, Inv, TypeInv
<1>4. SerialInv /\ ServerInv /\ FeedToldInv /\ [Next]_vars => FeedToldInv'
  BY FeedToldInvStep
<1>5. FeedToldInv => FeedIsCurrent
  BY DEF FeedToldInv, FeedAgrees, AllBidsTold, FeedIsCurrent
<1> QED
  BY <1>1, <1>2, <1>3, <1>4, <1>5, NodeSerialInvariance, PTL DEF Spec
----------------------------------------------------------------------------
(* The closure job. *)

(* What one call owes the job, and the job owes nobody. *)
JobKeptBy(p) == JobOutline(p) /\ (call[p].at = "idle" => JobWaits)

(* It is enough to follow the call that moves.                              *)
LEMMA JobByOne ==
    ASSUME MaxInFlight = 1, SerialInv, JobInv, [Next]_vars,
           NEW p \in Procs, call'[p] # call[p]
    PROVE  JobKeptBy(p) /\ (JobKeptBy(p)' => JobInv')
<1>0. TypeOK /\ OneAtATime
  BY DEF SerialInv, Inv, TypeInv
<1>1. JobKeptBy(p)
  BY <1>0, ChangesAlone DEF JobKeptBy, JobInv
<1>2. ASSUME JobKeptBy(p)' PROVE JobInv'
  <2>1. InFlight' = {} => JobWaits'
    BY <1>0, <1>2, ChangesAlone DEF JobKeptBy
  <2>2. JobOutline(p)'
    BY <1>2 DEF JobKeptBy
  <2>3. ASSUME NEW q \in Procs \ {p} PROVE JobOutline(q)'
    <3>1. call'[q].at = "idle"
      BY <1>0, ChangesAlone DEF Idle
    <3> QED
      BY <3>1 DEF JobOutline
  <2> QED
    BY <2>1, <2>2, <2>3 DEF JobInv
<1> QED
  BY <1>1, <1>2

(* A step that leaves clock, row and job alone.                             *)
LEMMA StillWaits ==
    ASSUME JobWaits, UNCHANGED <<now, rfq, job>>
    PROVE  JobWaits'
  BY DEF JobWaits

(* The close time of an open RFQ is within the clock of the model. *)
LEMMA CloseInTime ==
    ASSUME TermsInTime, SerialInv, rfq.status = "ACTIVE"
    PROVE  rfq.close <= MaxTime
<1>1. TypeOK /\ rfq.close <= terms.forced
  BY DEF SerialInv, Inv, TypeInv, CloseInv, CloseTimesExplained
<1>2. /\ terms \in Terms /\ terms.forced \in Nat /\ terms.forced <= MaxTime
      /\ rfq.close \in Nat
  BY <1>1, NodeTermsAssumption DEF TypeOK, ValidTerms, TermsInTime
<1> QED
  BY <1>1, <1>2, NodeClockAssumption

(* A job added after this delay runs when the close time has come.          *)
LEMMA DelayReaches ==
    ASSUME NEW close \in Nat, now \in Nat
    PROVE  DelayUntil(close) \in Nat /\ close <= now + DelayUntil(close)
  BY DEF DelayUntil

(* The bid's own steps. *)
LEMMA BidKeepsJob ==
    ASSUME MaxInFlight = 1, SerialInv, ServerInv, JobInv, [Next]_vars,
           NEW b \in Bidders, BidStep(b)
    PROVE  JobInv'
<1>0. /\ TypeOK /\ b \in Procs /\ call[b] \in Calls /\ call \in [Procs -> Calls]
      /\ rfq \in [status : {"NONE", "ACTIVE", "CLOSED"}, close : Nat]
      /\ now \in Nat
  BY NodeClockAssumption DEF SerialInv, Inv, TypeInv, TypeOK, Procs
<1>1. SUFFICES ASSUME call'[b] # call[b] => JobKeptBy(b)
               PROVE  call'[b] # call[b] /\ JobKeptBy(b)'
  BY <1>0, JobByOne
<1>2. CASE ~NodeCommits(b)
  <2>1. /\ call[b].at \in {"read", "best", "reread", "rank", "commit"}
        /\ UNCHANGED <<now, rfq, job>>
    BY <1>2 DEF BidStep, NodeReadsRfq, NodeChecksBest, NodeRereads, NodeEvaluates,
       NodeIsDuplicate, At, database
  <2>2. /\ call'[b].at \in {"idle", "best", "reread", "rank", "commit"}
        /\ call'[b].at # call[b].at
    <3>1. CASE NodeReadsRfq(b) \/ NodeRereads(b)
      BY <1>0, <3>1 DEF NodeReadsRfq, NodeRereads, At, Return, Calls, Idle
    <3>2. CASE NodeEvaluates(b)
      BY <1>0, <3>2 DEF NodeEvaluates, At, Calls
    <3>3. CASE NodeChecksBest(b) \/ NodeIsDuplicate(b)
      BY <1>0, <3>3 DEF NodeChecksBest, NodeIsDuplicate, At, Goto, Return, Calls, Idle
    <3> QED
      BY <1>2, <3>1, <3>2, <3>3 DEF BidStep
  <2>3. JobWaits'
    BY <1>1, <2>1, <2>2, StillWaits DEF JobKeptBy, JobOutline
  <2> QED
    BY <2>2, <2>3 DEF JobKeptBy, JobOutline
<1>3. CASE NodeCommits(b)
  <2> DEFINE close == ResultClose(b)
             c == [call[b] EXCEPT !.at = "remove", !.id = NewId, !.delay = DelayUntil(close)]
  <2>1. /\ call[b].at = "commit" /\ call' = [call EXCEPT ![b] = c]
        /\ UNCHANGED <<now, job>>
    BY <1>0, <1>3 DEF NodeCommits, At, ServerInv
  <2>2. c.at = "remove" /\ c.delay = DelayUntil(close)
    BY <1>0 DEF Calls
  <2>3. call'[b].at = "remove" /\ call'[b].delay = DelayUntil(close)
    <3> HIDE DEF c
    <3> QED
      BY <1>0, <2>1, <2>2
  <2>4. JobWaits
    BY <1>1, <2>1, <2>3 DEF JobKeptBy, JobOutline
  <2>5. rfq.status = "ACTIVE" /\ call[b].read = rfq.close
    BY <1>0, <2>1 DEF SerialInv, StillTrue
  <2>6. rfq'.status = "ACTIVE" /\ rfq'.close = close
    BY <1>0, <1>3, <2>5 DEF NodeCommits, NodeUpdates, ResultClose
  <2>7. close \in Nat
    BY <1>0 DEF Calls, ResultClose
  <2>8. JobToCome(b)'
    BY <1>0, <2>1, <2>3, <2>4, <2>6, <2>7, DelayReaches DEF JobToCome, JobWaits
  <2> QED
    BY <2>1, <2>3, <2>8 DEF JobKeptBy, JobOutline
<1> QED
  BY <1>2, <1>3

(* A job that has been removed is added again for the close time.           *)
LEMMA ScheduleKeepsJob ==
    ASSUME MaxInFlight = 1, TermsInTime, SerialInv, JobInv, [Next]_vars,
           NEW p \in Bidders \cup {Creator}, ScheduleStep(p)
    PROVE  JobInv'
<1>0. /\ TypeOK /\ p \in Procs /\ call[p] \in Calls /\ call \in [Procs -> Calls]
      /\ now \in Nat /\ rfq.close \in Nat
  BY NodeClockAssumption DEF SerialInv, Inv, TypeInv, TypeOK, Procs
<1>1. SUFFICES ASSUME call'[p] # call[p] => JobKeptBy(p)
               PROVE  call'[p] # call[p] /\ JobKeptBy(p)'
  BY <1>0, JobByOne
<1>2. CASE NodeRemoves(p)
  <2>1. /\ call[p].at = "remove" /\ RemoveJob /\ UNCHANGED <<now, rfq>>
        /\ call'[p].at = "add" /\ call'[p].delay = call[p].delay
    BY <1>0, <1>2 DEF NodeRemoves, At, Goto, Calls, database
  <2>2. JobToCome(p)
    BY <1>1, <2>1 DEF JobKeptBy, JobOutline
  <2>3. JobToCome(p)'
    BY <2>1, <2>2 DEF JobToCome, RemoveJob, NoJob
  <2> QED
    BY <2>1, <2>3 DEF JobKeptBy, JobOutline
<1>3. CASE NodeAdds(p)
  <2>1. /\ call[p].at = "add" /\ AddJob(call[p].delay) /\ UNCHANGED <<now, rfq>>
        /\ call'[p].at = "idle"
    BY <1>0, <1>3 DEF NodeAdds, At, Return, Idle, database
  <2>2. JobToCome(p)
    BY <1>1, <2>1 DEF JobKeptBy, JobOutline
  <2>3. /\ rfq.status = "ACTIVE" /\ rfq.close <= now + call[p].delay
        /\ job'.state = "delayed"
        /\ job'.due = IF now + call[p].delay < MaxTime THEN now + call[p].delay ELSE MaxTime
    BY <2>1, <2>2 DEF JobToCome, AddJob
  <2>4. rfq.close <= job'.due
    BY <2>3, CloseInTime
  <2>5. JobWaits'
    BY <2>1, <2>3, <2>4 DEF JobWaits
  <2> QED
    BY <2>1, <2>5 DEF JobKeptBy, JobOutline
<1> QED
  BY <1>2, <1>3 DEF ScheduleStep

(* Calls that arrive. *)
LEMMA ArrivalKeepsJob ==
    ASSUME MaxInFlight = 1, SerialInv, ServerInv, JobInv, [Next]_vars, Arrival
    PROVE  JobInv'
<1>0. /\ TypeOK /\ NoJobBeforeRow /\ call \in [Procs -> Calls] /\ now \in Nat /\ terms \in Terms
      /\ Bidders \subseteq Procs /\ Closers \subseteq Procs /\ Creator \in Procs
      /\ terms.close \in Nat
  BY NodeClockAssumption, NodeTermsAssumption
  DEF SerialInv, Inv, TypeInv, TypeOK, Procs, ValidTerms
<1>1. CASE NodeCreates
  <2> DEFINE delay == DelayUntil(terms.close)
             c == [Idle EXCEPT !.at = "remove", !.delay = delay]
  <2>1. /\ call' = [call EXCEPT ![Creator] = c] /\ UNCHANGED <<now, job>>
        /\ job.state = "none" /\ call[Creator].at = "idle"
        /\ rfq' = [status |-> "ACTIVE", close |-> terms.close]
    BY <1>0, <1>1 DEF NodeCreates, MayArrive, MayStart, Idle, ServerInv, NoJobBeforeRow
  <2>2. c.at = "remove" /\ c.delay = delay
    BY DEF Idle
  <2>3. call'[Creator].at = "remove" /\ call'[Creator].delay = delay
    <3> HIDE DEF c
    <3> QED
      BY <1>0, <2>1, <2>2
  <2>4. JobToCome(Creator)'
    BY <1>0, <2>1, <2>3, DelayReaches DEF JobToCome
  <2>5. JobKeptBy(Creator)'
    BY <2>3, <2>4 DEF JobKeptBy, JobOutline
  <2> QED
    BY <1>0, <2>1, <2>3, <2>5, JobByOne
<1>2. ASSUME NEW b \in Bidders, NEW r \in Requests, NodeBidArrives(b, r) PROVE JobInv'
  <2> DEFINE c == [Idle EXCEPT !.at = "read", !.req = r, !.stamp = now]
  <2>1. /\ call[b].at = "idle" /\ UNCHANGED <<now, rfq, job>>
        /\ call' = call \/ call' = [call EXCEPT ![b] = c]
    BY <1>2 DEF NodeBidArrives, MayArrive, MayStart, Idle, database
  <2>2. c.at = "read"
    BY DEF Idle
  <2>3. CASE call' = call
    BY <2>1, <2>3 DEF JobInv, JobWaits, JobOutline, JobToCome, InFlight
  <2>4. CASE call' = [call EXCEPT ![b] = c]
    <3>1. call'[b].at = "read"
      <4> HIDE DEF c
      <4> QED
        BY <1>0, <2>2, <2>4
    <3>2. JobWaits'
      BY <1>0, <2>1, <3>1, JobByOne, StillWaits DEF JobKeptBy
    <3>3. JobKeptBy(b)'
      BY <3>1, <3>2 DEF JobKeptBy, JobOutline
    <3> QED
      BY <1>0, <2>1, <3>1, <3>3, JobByOne
  <2> QED
    BY <2>1, <2>3, <2>4
<1>3. ASSUME NEW c \in Closers, NodeEarlyCloses(c) PROVE JobInv'
  <2>1. /\ call[c].at = "idle" /\ UNCHANGED <<now, rfq, job>>
        /\ call'[c] = [Idle EXCEPT !.at = "update", !.new = now]
    BY <1>0, <1>3 DEF NodeEarlyCloses, MayArrive, MayStart, Idle, database
  <2>2. call'[c].at = "update"
    BY <2>1 DEF Idle
  <2>3. JobWaits'
    BY <1>0, <2>1, <2>2, JobByOne, StillWaits DEF JobKeptBy
  <2>4. JobKeptBy(c)'
    BY <2>2, <2>3 DEF JobKeptBy, JobOutline
  <2> QED
    BY <1>0, <2>1, <2>2, <2>4, JobByOne
<1> QED
  BY <1>1, <1>2, <1>3 DEF Arrival

(* The steps of a closing call: the worker's job is due, so that it closes  *)
(* what it finds open, and the buyer leaves the job to find nothing to do.  *)
LEMMA ClosureKeepsJob ==
    ASSUME MaxInFlight = 1, SerialInv, JobInv, [Next]_vars,
           NEW p \in Closers \cup {Worker},
           (p \in Closers /\ NodeClosesEarly(p)) \/ (p = Worker /\ (WorkerStep \/ NodeWorkerTakes))
    PROVE  JobInv'
<1>0. /\ TypeOK /\ p \in Procs /\ call[p] \in Calls /\ call \in [Procs -> Calls]
      /\ rfq \in [status : {"NONE", "ACTIVE", "CLOSED"}, close : Nat]
      /\ now \in Nat /\ job \in Jobs /\ job.due \in Nat
      /\ NoJobBeforeRow
  BY NodeClockAssumption DEF SerialInv, Inv, TypeInv, TypeOK, Procs, Jobs
<1>1. SUFFICES ASSUME call'[p] # call[p] => JobKeptBy(p)
               PROVE  call'[p] # call[p] /\ JobKeptBy(p)'
  BY <1>0, JobByOne
<1>2. CASE p \in Closers /\ NodeClosesEarly(p)
  <2>1. /\ call[p].at = "update" /\ rfq'.status = "CLOSED" /\ UNCHANGED job
        /\ call'[p].at = "idle"
    BY <1>0, <1>2 DEF NodeClosesEarly, At, Return, Idle
  <2>2. JobWaits'
    BY <1>1, <2>1 DEF JobKeptBy, JobOutline, JobWaits
  <2> QED
    BY <2>1, <2>2 DEF JobKeptBy, JobOutline
<1>3. CASE p = Worker /\ NodeWorkerTakes
  <2>1. /\ call[p].at = "idle" /\ job.state = "delayed" /\ job.due <= now
        /\ call'[p] = [Idle EXCEPT !.at = "find"] /\ UNCHANGED <<now, rfq>>
    BY <1>0, <1>3 DEF NodeWorkerTakes, TakeJob, MayStart, Idle, database
  <2>2. call'[p].at = "find"
    BY <2>1 DEF Idle
  <2>3. JobWaits
    BY <1>1, <2>1, <2>2 DEF JobKeptBy
  <2>4. rfq'.status = "ACTIVE" => rfq'.close <= now'
    <3>1. rfq.close \in Nat
      BY <1>0
    <3> QED
      BY <1>0, <2>1, <2>3, <3>1 DEF JobWaits
  <2> QED
    BY <1>3, <2>1, <2>2, <2>4 DEF JobKeptBy, JobOutline
<1>4. CASE p = Worker /\ NodeWorkerFinds
  <2>1. /\ call[p].at = "find" /\ UNCHANGED <<now, rfq, job>>
        /\ \/ (rfq.status = "CLOSED" \/ ~NodeDue) /\ call'[p].at = "finish"
           \/ call'[p].at = "close"
    BY <1>0, <1>4 DEF NodeWorkerFinds, At, Goto, Calls, database
  <2>2. rfq.status # "NONE"
    BY <1>0, <1>4, <2>1 DEF NoJobBeforeRow
  <2>3. rfq.status = "ACTIVE" => NodeDue
    BY <1>0, <1>1, <2>1 DEF JobKeptBy, JobOutline, NodeDue
  <2> QED
    BY <1>0, <1>4, <2>1, <2>2, <2>3 DEF JobKeptBy, JobOutline
<1>5. CASE p = Worker /\ NodeWorkerCloses
  <2>1. call'[p].at = "finish" /\ call[p].at = "close" /\ rfq'.status = "CLOSED"
    BY <1>0, <1>5 DEF NodeWorkerCloses, At, Goto, Calls
  <2> QED
    BY <1>5, <2>1 DEF JobKeptBy, JobOutline
<1>6. CASE p = Worker /\ NodeWorkerFinishes
  <2>1. /\ call[p].at = "finish" /\ call'[p].at = "idle" /\ UNCHANGED <<now, rfq>>
        /\ job'.state = "finished"
    BY <1>0, <1>6 DEF NodeWorkerFinishes, FinishJob, At, Return, Idle, database, Jobs
  <2>2. JobWaits'
    BY <1>1, <2>1 DEF JobKeptBy, JobOutline, JobWaits
  <2> QED
    BY <2>1, <2>2 DEF JobKeptBy, JobOutline
<1> QED
  BY <1>2, <1>3, <1>4, <1>5, <1>6 DEF WorkerStep

(* No job has stalled: only a worker that died leaves one active.           *)
LEMMA NothingStalls ==
    ASSUME SerialInv, JobInv, call[Worker] = Idle
    PROVE  job.state # "active"
<1>1. CASE InFlight = {}
  BY <1>1 DEF JobInv, JobWaits
<1>2. ASSUME NEW p \in InFlight PROVE job.state # "active"
  <2>1. p \in Procs /\ p # Worker /\ call[p].at # "idle" /\ call[p] \in Calls
    BY <1>2 DEF InFlight, SerialInv, OneAtATime, Inv, TypeInv, TypeOK
  <2>2. JobOutline(p)
    BY <2>1 DEF JobInv
  <2> QED
    BY <2>1, <2>2 DEF JobOutline, JobWaits, JobToCome, Calls
<1> QED
  BY <1>1, <1>2

(* Time passes: what is due stays due. *)
LEMMA TickKeepsJob ==
    ASSUME SerialInv, JobInv, UNCHANGED <<rfq, call, job>>, UNCHANGED now \/ Tick
    PROVE  JobInv'
<1>1. /\ now \in Nat /\ now' \in Nat /\ now <= now'
      /\ rfq.close \in Nat
      /\ \A p \in Procs : call[p].delay \in Nat
  <2>1. /\ now \in Nat /\ rfq.close \in Nat /\ \A p \in Procs : call[p] \in Calls
    BY NodeClockAssumption DEF SerialInv, Inv, TypeInv, TypeOK
  <2> QED
    BY <2>1 DEF Calls, Tick
<1>2. JobWaits => JobWaits'
  BY <1>1 DEF JobWaits
<1>3. ASSUME NEW p \in Procs PROVE JobOutline(p)'
  <2>1. JobOutline(p)
    BY DEF JobInv
  <2>2. JobToCome(p) => JobToCome(p)'
    BY <1>1 DEF JobToCome
  <2> QED
    BY <1>1, <1>2, <2>1, <2>2 DEF JobOutline
<1> QED
  BY <1>1, <1>2, <1>3 DEF JobInv, InFlight

(* No step loses the job of an open auction. *)
LEMMA JobInvStep ==
    ASSUME MaxInFlight = 1, MaxFaults = 0, TermsInTime,
           SerialInv, ServerInv, JobInv, [Next]_vars
    PROVE  JobInv'
<1>0. TypeOK /\ OneAtATime
  BY DEF SerialInv, Inv, TypeInv
<1>1. CASE Lifecycle \/ Tick \/ UNCHANGED vars
  <2>1. UNCHANGED <<rfq, call, job>> /\ (UNCHANGED now \/ Tick)
    BY <1>0, <1>1, LifecycleIsQuiet DEF Tick, vars, database
  <2> QED
    BY <2>1, TickKeepsJob
<1>2. ~NodeUnstalls
  BY NothingStalls DEF NodeUnstalls, Unstall
<1>3. \A p \in Procs : ~NodeQueryFails(p)
  BY <1>0 DEF NodeQueryFails, Fault, TypeOK
<1> QED
  BY <1>1, <1>2, <1>3, BidKeepsJob, ScheduleKeepsJob, ArrivalKeepsJob, ClosureKeepsJob
  DEF Next, Step

(* Between two calls an open auction has its closure job, which will not be *)
(* premature when it runs (queue.ts, worker.ts:13-31), across graceful      *)
(* restarts too, when calls are handled one at a time and nothing fails.    *)
THEOREM NodeJobPending ==
    ASSUME MaxInFlight = 1, MaxFaults = 0, MaxSignals \in {0, 1}, TermsInTime
    PROVE  Spec => []JobPending
<1>1. Init => ServerInv
  BY DEF Init, ServerInv
<1>2. Init => JobInv
  BY DEF Init, JobInv, JobOutline, JobWaits, NoJob, NoRow, Idle
<1>3. SerialInv /\ ServerInv /\ [Next]_vars => ServerInv'
  BY ServerInvStep DEF SerialInv, Inv, TypeInv
<1>4. SerialInv /\ ServerInv /\ JobInv /\ [Next]_vars => JobInv'
  BY JobInvStep
<1>5. ASSUME SerialInv, JobInv PROVE JobPending
  <2>1. now \in Int /\ job.due \in Int /\ rfq.close \in Int
    BY <1>5, NodeClockAssumption DEF SerialInv, Inv, TypeInv, TypeOK, Jobs
  <2> QED
    BY <1>5, <2>1 DEF JobInv, JobWaits, JobPending
<1> QED
  BY <1>1, <1>2, <1>3, <1>4, <1>5, NodeSerialInvariance, PTL DEF Spec
=============================================================================
