--------------------------- MODULE AuctionProofs ----------------------------
(***************************************************************************)
(* Proofs that the invariant of AuctionInvariant is inductive, and that the *)
(* properties which hold however calls overlap follow from it.              *)
(***************************************************************************)
EXTENDS AuctionInvariant, FiniteSetTheorems, TLAPS

(* EvaluateExtension leaves the close time alone or moves it forward, up to *)
(* the forced close (auction_service.go:59-70).                             *)
LEMMA CloseAfterBounds ==
    ASSUME NEW close \in Nat, NEW t \in Terms, NEW bid, NEW board, NEW clock
    PROVE  LET after == CloseAfter(close, t, bid, board, clock)
           IN  /\ after \in Nat
               /\ after = close \/ (close < after /\ after <= t.forced)
<1> DEFINE wanted == close + t.ext * Minute
<1>1. t.ext \in Nat /\ t.forced \in Nat
  BY TermsAssumption
<1>2. wanted \in Nat
  BY <1>1, MinuteAssumption
<1> QED
  BY <1>1, <1>2 DEF CloseAfter, Extends, ExtendedClose

(* No bid brings the close time forward: what LiveInvariant's RuleExtends   *)
(* asks of the rules.                                                       *)
LEMMA GoRuleExtends ==
    \A close, seen \in Nat, t \in Terms, bid \in Requests : \A ledger :
        \A after \in GoCloses(close, t, bid, ledger, seen) : after \in Nat /\ close <= after
<1>1. TAKE close, seen \in Nat, t \in Terms, bid \in Requests
<1>2. TAKE ledger
<1>3. TAKE after \in GoCloses(close, t, bid, ledger, seen)
<1>4. after = CloseAfter(close, t, bid, Leaderboard(ledger), seen)
  BY DEF GoCloses
<1> QED
  BY <1>4, CloseAfterBounds

(* The minutes of a log are a natural number. *)
LEMMA ExtendedMinsType ==
    ASSUME NEW prev \in Nat, NEW new \in Nat, prev <= new
    PROVE  ExtendedMins(prev, new) \in Nat
  BY MinuteAssumption DEF ExtendedMins

(* The queue operations keep the task well formed. *)
LEMMA QueueTypes ==
    ASSUME task \in Tasks, now \in 0..MaxTime
    PROVE  /\ DeleteTask => task' \in Tasks
           /\ \A delay \in Nat : Enqueue(delay) => task' \in Tasks
           /\ Fire => task' \in Tasks
           /\ Complete => task' \in Tasks
           /\ Redeliver => task' \in Tasks
  BY ClockAssumption DEF Tasks, NoTask, DeleteTask, Enqueue, Fire, Complete, Redeliver

(* A committed bid takes an id that is new, and the next one is one more.   *)
LEMMA NewIdFacts ==
    ASSUME TypeOK, NEW row, \A x \in bids : x # row
    PROVE  /\ Cardinality(bids) \in Nat
           /\ IsFiniteSet(bids \cup {row})
           /\ Cardinality(bids \cup {row}) = Cardinality(bids) + 1
  BY FS_AddElement, FS_CardinalityType DEF TypeOK

----------------------------------------------------------------------------
(* Types. *)

(* A step of one call changes that call alone.                              *)
LEMMA CallTypes ==
    ASSUME TypeInv, NEW p \in Procs, NEW c \in Calls,
           c.at \in {"read", "best", "rank", "commit"} => c.req \in Requests,
           call' = [call EXCEPT ![p] = c]
    PROVE  /\ call' \in [Procs -> Calls]
           /\ CarriesRequest'
  BY DEF TypeInv, TypeOK, CarriesRequest

(* An idle call is a call. *)
LEMMA IdleType == Idle \in Calls
  BY DEF Idle, NoRow, Calls, Rows, Status

(* The form in which the actions update a call, as an update of the whole.  *)
LEMMA GotoType ==
    ASSUME TypeInv, NEW p \in Procs,
           NEW at \in {"placed", "extended", "unschedule", "enqueue", "cancel",
                       "closed", "finish"}, Goto(p, at)
    PROVE  /\ call' \in [Procs -> Calls]
           /\ CarriesRequest'
  BY DEF TypeInv, TypeOK, CarriesRequest, Goto, Calls

(* A call that returns leaves well-formed calls. *)
LEMMA ReturnType ==
    ASSUME TypeInv, NEW p \in Procs, Return(p)
    PROVE  /\ call' \in [Procs -> Calls]
           /\ CarriesRequest'
  BY CallTypes, IdleType DEF Return, Idle

(* Every auction starts well typed. *)
LEMMA TypeInvInit == Init => TypeInv
  BY IdleType, FS_EmptySet, ClockAssumption
  DEF Init, TypeInv, TypeOK, CarriesRequest, Idle, NoRow, NoTask, Tasks, Rows, Status

(* Publishing changes the feed to the one given, or not at all. *)
LEMMA PublishType ==
    ASSUME TypeOK, NEW f \in [placed : SUBSET Nat, close : Nat, closed : BOOLEAN],
           Publish(f)
    PROVE  /\ feed' \in [placed : SUBSET Nat, close : Nat, closed : BOOLEAN]
           /\ faults' \in Nat
  BY BoundAssumption DEF TypeOK, Publish, Fault

(* Every step keeps the types and what a bid carries. *)
LEMMA TypeInvStep == TypeInv /\ [Next]_vars => TypeInv'
<1> SUFFICES ASSUME TypeInv, [Next]_vars PROVE TypeInv'
  OBVIOUS
<1> USE DEF TypeInv
<1>1. TypeOK /\ CarriesRequest
  OBVIOUS
<1>2. task \in Tasks /\ now \in 0..MaxTime
  BY DEF TypeOK
<1>3. \A p \in Procs : call[p] \in Calls
  BY DEF TypeOK
<1>4. Worker \in Procs /\ Creator \in Procs /\ Bidders \subseteq Procs /\ Closers \subseteq Procs
  BY DEF Procs
<1>5. CASE CreateRfq
  <2> DEFINE delay == terms.close - now
             c     == [Idle EXCEPT !.at = "unschedule", !.delay = delay]
  <2>1. terms.close \in Nat /\ delay \in Int
    BY <1>2, TermsAssumption DEF TypeOK
  <2>2. call' \in [Procs -> Calls] /\ CarriesRequest'
    <3>1. CASE WorthScheduling(delay)
      <4> HIDE DEF delay
      <4>0. delay \in Nat
        BY <2>1, <3>1 DEF WorthScheduling
      <4>1. c \in Calls /\ c.at = "unschedule"
        BY <4>0, IdleType DEF Calls, Idle
      <4>2. call' = [call EXCEPT ![Creator] = c]
        BY <1>5, <3>1 DEF CreateRfq, delay
      <4> QED
        BY <1>4, <4>1, <4>2, CallTypes
    <3>2. CASE ~WorthScheduling(delay)
      BY <1>5, <3>2 DEF CreateRfq, TypeOK, CarriesRequest
    <3> QED
      BY <3>1, <3>2
  <2>3. rfq' \in Rows
    BY <1>5, <2>1 DEF CreateRfq, Rows, Status
  <2> QED
    BY <1>5, <2>2, <2>3 DEF CreateRfq, TypeOK
<1>6. CASE \E b \in Bidders, r \in Requests : BidArrives(b, r)
  <2> PICK b \in Bidders, r \in Requests : BidArrives(b, r)
    BY <1>6
  <2> DEFINE c == [Idle EXCEPT !.at = "read", !.req = r]
  <2>1. c \in Calls /\ c.req = r
    BY IdleType DEF Calls, Idle
  <2>2. call' \in [Procs -> Calls] /\ CarriesRequest'
    BY <1>4, <2>1, CallTypes DEF BidArrives
  <2> QED
    BY <2>2 DEF BidArrives, TypeOK, database
<1>7. CASE \E c \in Closers : EarlyClose(c)
  <2> PICK p \in Closers : EarlyClose(p)
    BY <1>7
  <2> DEFINE c == [Idle EXCEPT !.at = "save", !.row = ClosedAt(now)]
  <2>0. ClosedAt(now) \in Rows
    BY <1>2, ClockAssumption DEF ClosedAt, Rows, Status
  <2>1. c \in Calls /\ c.at = "save"
    BY <2>0, IdleType DEF Calls, Idle
  <2>2. call' \in [Procs -> Calls] /\ CarriesRequest'
    BY <1>4, <2>1, CallTypes DEF EarlyClose
  <2> QED
    BY <2>2 DEF EarlyClose, TypeOK, database
<1>8. CASE \E b \in Bidders : BidStep(b)
  <2> PICK b \in Bidders : BidStep(b)
    BY <1>8
  <2>1. b \in Procs /\ call[b] \in Calls
    BY <1>3, <1>4
  <2>2. CASE BidReadsRfq(b)
    <3>1. CASE Admits(rfq, call[b].req)
      <4> DEFINE c == [call[b] EXCEPT !.at = "best", !.row = rfq]
      <4>1. c \in Calls /\ c.at = "best" /\ c.req = call[b].req
        BY <2>1 DEF Calls, TypeOK
      <4>2. call[b].req \in Requests
        BY <2>1, <2>2 DEF BidReadsRfq, At, CarriesRequest
      <4>3. call' = [call EXCEPT ![b] = c]
        BY <2>1, <2>2, <3>1 DEF BidReadsRfq
      <4>4. call' \in [Procs -> Calls] /\ CarriesRequest'
        BY <2>1, <4>1, <4>2, <4>3, CallTypes
      <4> QED
        BY <2>2, <4>4 DEF BidReadsRfq, TypeOK, database
    <3>2. CASE ~Admits(rfq, call[b].req)
      BY <2>1, <2>2, <3>2, ReturnType DEF BidReadsRfq, TypeOK, database
    <3> QED
      BY <3>1, <3>2
  <2>3. CASE BidChecksBest(b)
    <3>1. CASE Improves(call[b].req)
      <4> DEFINE c == [call[b] EXCEPT !.at = "rank"]
      <4>1. c \in Calls /\ c.req = call[b].req
        BY <2>1 DEF Calls
      <4>2. call[b].req \in Requests
        BY <2>1, <2>3 DEF BidChecksBest, At, CarriesRequest
      <4>3. call' = [call EXCEPT ![b] = c]
        BY <2>1, <2>3, <3>1 DEF BidChecksBest, Goto
      <4>4. call' \in [Procs -> Calls] /\ CarriesRequest'
        BY <2>1, <4>1, <4>2, <4>3, CallTypes
      <4> QED
        BY <2>3, <4>4 DEF BidChecksBest, TypeOK, database
    <3>2. CASE ~Improves(call[b].req)
      BY <2>1, <2>3, <3>2, ReturnType DEF BidChecksBest, TypeOK, database
    <3> QED
      BY <3>1, <3>2
  <2>4. CASE BidEvaluates(b)
    <3> DEFINE after == CloseAfter(call[b].row.close, terms, call[b].req,
                                   Leaderboard(bids), now)
               c == [call[b] EXCEPT !.at = "commit", !.newClose = after]
    <3>1. after \in Nat
      <4>1. call[b].row.close \in Nat /\ terms \in Terms
        BY <2>1 DEF Calls, Rows, TypeOK
      <4> QED
        BY <4>1, CloseAfterBounds
    <3> HIDE DEF after
    <3>2. c \in Calls /\ c.req = call[b].req
      BY <2>1, <3>1 DEF Calls
    <3>3. call[b].req \in Requests
      BY <2>1, <2>4 DEF BidEvaluates, At, CarriesRequest
    <3>4. call' = [call EXCEPT ![b] = c]
      BY <2>1, <2>4 DEF BidEvaluates, after
    <3>5. call' \in [Procs -> Calls] /\ CarriesRequest'
      BY <2>1, <3>2, <3>3, <3>4, CallTypes
    <3> QED
      BY <2>4, <3>5 DEF BidEvaluates, TypeOK, database
  <2>5. CASE BidCommits(b)
    <3> DEFINE row == BidRow(call[b].req, NewId)
               c   == [call[b] EXCEPT !.at = "placed", !.id = NewId]
    <3>1. call[b].req \in Requests /\ call[b].newClose \in Nat /\ call[b].row \in Rows
      BY <2>1, <2>5 DEF BidCommits, At, CarriesRequest, Calls
    <3>2. Cardinality(bids) \in Nat /\ NewId \in Nat
      BY FS_CardinalityType DEF TypeOK, NewId
    <3>3. call' \in [Procs -> Calls] /\ CarriesRequest'
      <4>1. c \in Calls /\ c.at = "placed"
        BY <2>1, <3>2 DEF Calls
      <4>2. call' = [call EXCEPT ![b] = c]
        BY <2>1, <2>5 DEF BidCommits
      <4> QED
        BY <2>1, <4>1, <4>2, CallTypes
    <3>4. IsFiniteSet(bids') /\ \A x \in bids' : x.id \in Nat /\ \E r \in Requests : x = BidRow(r, x.id)
      <4>1. bids' = bids \cup {row}
        BY <2>5 DEF BidCommits
      <4>2. IsFiniteSet(bids')
        BY <4>1, FS_AddElement DEF TypeOK
      <4>3. row.id = NewId
        BY DEF BidRow
      <4> QED
        BY <3>1, <3>2, <4>1, <4>2, <4>3 DEF TypeOK
    <3>5. rfq' \in Rows
      BY <2>5, <3>1 DEF BidCommits, TypeOK, Rows
    <3>6. ExtensionLog(b) \subseteq [bid : Nat, prev : Nat, new : Nat, mins : Nat]
      <4>1. CASE Extended(b)
        <5>1. call[b].row.close \in Nat /\ call[b].row.close <= call[b].newClose
          BY <3>1, <4>1 DEF Extended, Rows
        <5>2. ExtendedMins(call[b].row.close, call[b].newClose) \in Nat
          BY <3>1, <5>1, ExtendedMinsType
        <5> QED
          BY <3>1, <3>2, <4>1, <5>1, <5>2 DEF ExtensionLog
      <4>2. CASE ~Extended(b)
        BY <4>2 DEF ExtensionLog
      <4> QED
        BY <4>1, <4>2
    <3> QED
      BY <2>5, <3>3, <3>4, <3>5, <3>6 DEF BidCommits, TypeOK
  <2>6. CASE BidIsDuplicate(b)
    BY <2>1, <2>6, ReturnType DEF BidIsDuplicate, TypeOK, database
  <2>7. CASE AnnounceBid(b)
    <3>1. [feed EXCEPT !.placed = @ \cup {call[b].id}] \in
             [placed : SUBSET Nat, close : Nat, closed : BOOLEAN]
      BY <2>1 DEF TypeOK, Calls
    <3>2. call' \in [Procs -> Calls] /\ CarriesRequest'
      BY <2>1, <2>7, GotoType, ReturnType DEF AnnounceBid
    <3> QED
      BY <2>7, <3>1, <3>2, PublishType DEF AnnounceBid, TypeOK, database
  <2>8. CASE AnnounceExtension(b)
    <3> DEFINE delay == call[b].newClose - now
               c     == [call[b] EXCEPT !.at = "unschedule", !.delay = delay]
    <3>1. [feed EXCEPT !.close = AnnouncedClose(b)] \in
             [placed : SUBSET Nat, close : Nat, closed : BOOLEAN]
      BY <2>1 DEF TypeOK, Calls, AnnouncedClose
    <3>2. delay \in Int
      BY <2>1, <1>2, ClockAssumption DEF Calls
    <3>3. call' \in [Procs -> Calls] /\ CarriesRequest'
      <4>1. CASE WorthScheduling(delay)
        <5> HIDE DEF delay
        <5>0. delay \in Nat
          BY <3>2, <4>1 DEF WorthScheduling
        <5>1. c \in Calls /\ c.at = "unschedule"
          BY <2>1, <5>0 DEF Calls
        <5>2. call' = [call EXCEPT ![b] = c]
          BY <2>1, <2>8, <4>1 DEF AnnounceExtension, delay
        <5> QED
          BY <2>1, <5>1, <5>2, CallTypes
      <4>2. CASE ~WorthScheduling(delay)
        BY <2>1, <2>8, <4>2, ReturnType DEF AnnounceExtension
      <4> QED
        BY <4>1, <4>2
    <3> QED
      BY <2>8, <3>1, <3>3, PublishType DEF AnnounceExtension, TypeOK, database
  <2> QED
    BY <2>2, <2>3, <2>4, <2>5, <2>6, <2>7, <2>8 DEF BidStep
<1>9. CASE \E c \in Closers : CancelClosure(c)
  <2> PICK c \in Closers : CancelClosure(c)
    BY <1>9
  <2>1. call' \in [Procs -> Calls] /\ CarriesRequest'
    BY <1>4, GotoType DEF CancelClosure
  <2>2. task' \in Tasks /\ faults' \in Nat
    BY <1>2, QueueTypes DEF CancelClosure, Fault, TypeOK
  <2> QED
    BY <2>1, <2>2 DEF CancelClosure, TypeOK, database
<1>10. CASE \E p \in Closers \cup {Worker} : CloseStep(p)
  <2> PICK p \in Closers \cup {Worker} : CloseStep(p)
    BY <1>10
  <2>1. p \in Procs
    BY <1>4
  <2>2. CASE SaveClosed(p)
    <3>1. rfq' \in Rows
      BY <1>3, <2>1, <2>2 DEF SaveClosed, Calls
    <3>2. call' \in [Procs -> Calls] /\ CarriesRequest'
      BY <2>1, <2>2, GotoType DEF SaveClosed
    <3> QED
      BY <2>2, <3>1, <3>2 DEF SaveClosed, TypeOK
  <2>3. CASE AnnounceClosed(p)
    <3>1. [feed EXCEPT !.closed = TRUE] \in [placed : SUBSET Nat, close : Nat, closed : BOOLEAN]
      BY DEF TypeOK
    <3>2. call' \in [Procs -> Calls] /\ CarriesRequest'
      BY <2>1, <2>3, GotoType, ReturnType DEF AnnounceClosed
    <3> QED
      BY <2>3, <3>1, <3>2, PublishType DEF AnnounceClosed, TypeOK, database
  <2> QED
    BY <2>2, <2>3 DEF CloseStep
<1>11. CASE \E p \in Bidders \cup {Creator, Worker} : ScheduleStep(p)
  <2> PICK p \in Bidders \cup {Creator, Worker} : ScheduleStep(p)
    BY <1>11
  <2>1. p \in Procs /\ call[p].delay \in Nat
    BY <1>3, <1>4 DEF Calls
  <2>2. CASE UnscheduleTask(p)
    <3>1. call' \in [Procs -> Calls] /\ CarriesRequest'
      BY <2>1, <2>2, GotoType DEF UnscheduleTask
    <3>2. task' \in Tasks /\ faults' \in Nat
      BY <1>2, <2>2, QueueTypes DEF UnscheduleTask, Fault, TypeOK
    <3> QED
      BY <2>2, <3>1, <3>2 DEF UnscheduleTask, TypeOK, database
  <2>3. CASE EnqueueTask(p)
    <3>1. call' \in [Procs -> Calls] /\ CarriesRequest'
      BY <2>1, <2>3, GotoType, ReturnType DEF EnqueueTask
    <3>2. task' \in Tasks /\ faults' \in Nat
      BY <1>2, <2>1, <2>3, QueueTypes DEF EnqueueTask, Fault, TypeOK
    <3> QED
      BY <2>3, <3>1, <3>2 DEF EnqueueTask, TypeOK, database
  <2> QED
    BY <2>2, <2>3 DEF ScheduleStep

<1>12. CASE WorkerFires
  <2> DEFINE c == [Idle EXCEPT !.at = "find"]
  <2>1. c \in Calls /\ c.at = "find"
    BY IdleType DEF Calls, Idle
  <2>2. call' \in [Procs -> Calls] /\ CarriesRequest'
    BY <1>4, <1>12, <2>1, CallTypes DEF WorkerFires
  <2>3. task' \in Tasks
    BY <1>2, <1>12, QueueTypes DEF WorkerFires
  <2> QED
    BY <1>12, <2>2, <2>3 DEF WorkerFires, TypeOK, database
<1>13. CASE WorkerFinds
  <2> DEFINE c == call'[Worker]
  <2>1. call[Worker] \in Calls /\ call' = [call EXCEPT ![Worker] = c]
    BY <1>3, <1>4, <1>13 DEF WorkerFinds, TypeOK
  <2>2. c \in Calls /\ c.at \in {"finish", "unschedule", "save"}
    <3>1. CASE rfq.status # "ACTIVE"
      <4>1. c = [call[Worker] EXCEPT !.at = "finish"]
        BY <1>4, <1>13, <3>1 DEF WorkerFinds, TypeOK
      <4> QED
        BY <2>1, <4>1 DEF Calls
    <3>2. CASE rfq.status = "ACTIVE" /\ Premature(rfq)
      <4>1. c = [call[Worker] EXCEPT !.at = "unschedule", !.delay = rfq.close - now]
        BY <1>4, <1>13, <3>2 DEF WorkerFinds, TypeOK
      <4>2. rfq.close - now \in Nat
        BY <1>2, <3>2, ClockAssumption DEF Premature, TypeOK, Rows
      <4> QED
        BY <2>1, <4>1, <4>2 DEF Calls
    <3>3. CASE rfq.status = "ACTIVE" /\ ~Premature(rfq)
      <4>1. c = [call[Worker] EXCEPT !.at = "save", !.row = ClosedAt(rfq.close)]
        BY <1>4, <1>13, <3>3 DEF WorkerFinds, TypeOK
      <4>2. ClosedAt(rfq.close) \in Rows
        BY DEF ClosedAt, Rows, Status, TypeOK
      <4> QED
        BY <2>1, <4>1, <4>2 DEF Calls
    <3> QED
      BY <3>1, <3>2, <3>3
  <2> HIDE DEF c
  <2>3. call' \in [Procs -> Calls] /\ CarriesRequest'
    BY <1>4, <2>1, <2>2, CallTypes
  <2> QED
    BY <1>13, <2>3 DEF WorkerFinds, TypeOK, database
<1>14. CASE WorkerFinishes
  BY <1>2, <1>4, <1>14, ReturnType, QueueTypes DEF WorkerFinishes, TypeOK, database
<1>15. CASE Crash
  <2>1. call' \in [Procs -> Calls] /\ CarriesRequest'
    BY <1>15, IdleType DEF Crash, CarriesRequest, Idle
  <2>2. task' \in Tasks /\ faults' \in Nat
    BY <1>2, <1>15, QueueTypes DEF Crash, Fault, TypeOK
  <2> QED
    BY <1>15, <2>1, <2>2 DEF Crash, TypeOK, database
<1>16. CASE \E p \in Procs : DatabaseFails(p)
  <2> PICK p \in Procs : DatabaseFails(p)
    BY <1>16
  <2>1. call' \in [Procs -> Calls] /\ CarriesRequest'
    BY ReturnType DEF DatabaseFails
  <2>2. task' \in Tasks /\ faults' \in Nat
    BY <1>2, QueueTypes DEF DatabaseFails, Fault, TypeOK
  <2> QED
    BY <2>1, <2>2 DEF DatabaseFails, TypeOK, database
<1>17. CASE Tick
  BY <1>17, ClockAssumption DEF Tick, TypeOK, CarriesRequest, database
<1>18. CASE UNCHANGED vars
  BY <1>18 DEF vars, TypeOK, CarriesRequest
<1> QED
  BY <1>5, <1>6, <1>7, <1>8, <1>9, <1>10, <1>11, <1>12, <1>13, <1>14, <1>15, <1>16,
     <1>17, <1>18
  DEF Next, Arrival, Step, Failure

(* Type correctness needs to know that a bid carries a request. *)
LEMMA TypeInvariance == Spec => []TypeInv
<1>1. Init => TypeInv
  BY TypeInvInit
<1>2. TypeInv /\ [Next]_vars => TypeInv'
  BY TypeInvStep
<1> QED
  BY <1>1, <1>2, PTL DEF Spec

(* Type correctness of every behaviour, whatever the bidders, the requests, *)
(* the terms and the bounds on time, overlap and failures.                  *)
THEOREM TypeCorrect == Spec => []TypeOK
<1>1. TypeInv => TypeOK
  BY DEF TypeInv
<1> QED
  BY <1>1, TypeInvariance, PTL

----------------------------------------------------------------------------
(* Frames: which step can have changed what. *)

(* How the call of p comes to where it is after a step.                     *)
Moves(p) ==
    \/ call'[p] = call[p]
    \/ call'[p].at \in {"idle", "read", "unschedule", "enqueue", "find", "finish"}
    \/ /\ BidReadsRfq(p) /\ Admits(rfq, call[p].req)
       /\ call'[p] = [call[p] EXCEPT !.at = "best", !.row = rfq]
    \/ BidChecksBest(p) /\ call'[p] = [call[p] EXCEPT !.at = "rank"]
    \/ /\ BidEvaluates(p)
       /\ call'[p] = [call[p] EXCEPT !.at = "commit", !.newClose =
                        CloseAfter(call[p].row.close, terms, call[p].req,
                                   Leaderboard(bids), now)]
    \/ BidCommits(p) /\ call'[p] = [call[p] EXCEPT !.at = "placed", !.id = NewId]
    \/ AnnounceBid(p) /\ Extended(p) /\ call'[p] = [call[p] EXCEPT !.at = "extended"]
    \/ /\ p \in Closers /\ EarlyClose(p)
       /\ call'[p] = [Idle EXCEPT !.at = "save", !.row = ClosedAt(now)]
    \/ /\ p = Worker /\ WorkerFinds /\ ~Premature(rfq)
       /\ call'[p] = [call[p] EXCEPT !.at = "save", !.row = ClosedAt(rfq.close)]
    \/ SaveClosed(p) /\ call'[p].at \in {"cancel", "closed"}
    \/ At(p, "cancel") /\ CancelClosure(p) /\ call'[p].at = "closed"

(* A step that gives call p the value c changes no other call.              *)
LEMMA OnlyOneMoves ==
    ASSUME TypeOK, NEW p \in Procs, NEW c, call' = [call EXCEPT ![p] = c],
           NEW q \in Procs
    PROVE  call'[q] = IF q = p THEN c ELSE call[q]
  BY DEF TypeOK

(* The moves that matter to no invariant. *)
Settles(p) ==
    \/ call'[p] = call[p]
    \/ call'[p].at \in {"idle", "read", "unschedule", "enqueue", "find", "finish"}

(* A call that returns matters to no invariant. *)
LEMMA ReturnSettles ==
    ASSUME TypeOK, NEW q \in Procs, Return(q), NEW p \in Procs
    PROVE  Settles(p)
  BY OnlyOneMoves DEF Return, Idle, Settles

(* Nor does one that turns to the queue. *)
LEMMA GotoSettles ==
    ASSUME TypeOK, NEW q \in Procs,
           NEW at \in {"unschedule", "enqueue", "finish"}, Goto(q, at), NEW p \in Procs
    PROVE  Settles(p)
  BY DEF Goto, Settles, TypeOK, Calls

(* Every step moves every call in one of the ways of Moves. *)
LEMMA CallMoves == TypeOK /\ [Next]_vars => \A p \in Procs : Moves(p)
<1> SUFFICES ASSUME TypeOK, [Next]_vars, NEW p \in Procs PROVE Moves(p)
  OBVIOUS
<1>0. call \in [Procs -> Calls] /\ Bidders \subseteq Procs /\ Closers \subseteq Procs
      /\ Creator \in Procs /\ Worker \in Procs
  BY DEF TypeOK, Procs
<1>1. Settles(p) => Moves(p)
  BY DEF Settles, Moves
<1>2. CASE CreateRfq
  <2> DEFINE c == [Idle EXCEPT !.at = "unschedule", !.delay = terms.close - now]
  <2>1. c.at = "unschedule"
    BY DEF Idle
  <2>2. call' = call \/ call' = [call EXCEPT ![Creator] = c]
    BY <1>2 DEF CreateRfq
  <2> QED
    BY <1>0, <1>1, <2>1, <2>2, OnlyOneMoves DEF Settles
<1>3. CASE \E b \in Bidders, r \in Requests : BidArrives(b, r)
  BY <1>0, <1>1, <1>3, OnlyOneMoves DEF BidArrives, Settles, Idle
<1>4. CASE \E c \in Closers : EarlyClose(c)
  BY <1>0, <1>4 DEF EarlyClose, Moves
<1>5. CASE \E b \in Bidders : BidStep(b)
  <2> PICK b \in Bidders : BidStep(b)
    BY <1>5
  <2>1. CASE BidReadsRfq(b)
    <3>1. CASE Admits(rfq, call[b].req)
      BY <1>0, <2>1, <3>1 DEF BidReadsRfq, Moves
    <3>2. CASE ~Admits(rfq, call[b].req)
      BY <1>0, <1>1, <2>1, <3>2, ReturnSettles DEF BidReadsRfq
    <3> QED
      BY <3>1, <3>2
  <2>2. CASE BidChecksBest(b)
    <3>1. CASE Improves(call[b].req)
      BY <1>0, <2>2, <3>1 DEF BidChecksBest, Goto, Moves
    <3>2. CASE ~Improves(call[b].req)
      BY <1>0, <1>1, <2>2, <3>2, ReturnSettles DEF BidChecksBest
    <3> QED
      BY <3>1, <3>2
  <2>3. CASE BidEvaluates(b)
    BY <1>0, <2>3 DEF BidEvaluates, Moves
  <2>4. CASE BidCommits(b)
    BY <1>0, <2>4 DEF BidCommits, Moves
  <2>5. CASE BidIsDuplicate(b)
    BY <1>0, <1>1, <2>5, ReturnSettles DEF BidIsDuplicate
  <2>6. CASE AnnounceBid(b)
    <3>1. CASE Extended(b)
      BY <1>0, <2>6, <3>1 DEF AnnounceBid, Goto, Moves
    <3>2. CASE ~Extended(b)
      BY <1>0, <1>1, <2>6, <3>2, ReturnSettles DEF AnnounceBid
    <3> QED
      BY <3>1, <3>2
  <2>7. CASE AnnounceExtension(b)
    <3> DEFINE c == [call[b] EXCEPT !.at = "unschedule", !.delay = call[b].newClose - now]
    <3>1. c.at = "unschedule"
      BY <1>0 DEF Calls
    <3>2. call' = [call EXCEPT ![b] = c] \/ Return(b)
      BY <1>0, <2>7 DEF AnnounceExtension
    <3> QED
      BY <1>0, <1>1, <3>1, <3>2, OnlyOneMoves, ReturnSettles DEF Settles
  <2> QED
    BY <2>1, <2>2, <2>3, <2>4, <2>5, <2>6, <2>7 DEF BidStep
<1>6. CASE \E c \in Closers : CancelClosure(c)
  <2> PICK c \in Closers : CancelClosure(c)
    BY <1>6
  <2>1. At(c, "cancel") /\ call' = [call EXCEPT ![c].at = "closed"]
    BY DEF CancelClosure, Goto
  <2>2. call'[p] = call[p] \/ (p = c /\ call'[p].at = "closed")
    BY <1>0, <2>1 DEF Calls
  <2> QED
    BY <2>1, <2>2 DEF Moves
<1>7. CASE \E q \in Closers \cup {Worker} : CloseStep(q)
  <2> PICK q \in Closers \cup {Worker} : CloseStep(q)
    BY <1>7
  <2>1. CASE SaveClosed(q)
    <3>1. call' = [call EXCEPT ![q].at = "closed"] \/ call' = [call EXCEPT ![q].at = "cancel"]
      BY <2>1 DEF SaveClosed, Goto
    <3>2. call'[p] = call[p] \/ (p = q /\ call'[p].at \in {"cancel", "closed"})
      BY <1>0, <3>1 DEF Calls
    <3> QED
      BY <2>1, <3>2 DEF Moves
  <2>2. CASE AnnounceClosed(q)
    BY <1>0, <1>1, <2>2, GotoSettles, ReturnSettles DEF AnnounceClosed
  <2> QED
    BY <2>1, <2>2 DEF CloseStep
<1>8. CASE \E q \in Bidders \cup {Creator, Worker} : ScheduleStep(q)
  BY <1>0, <1>1, <1>8, GotoSettles, ReturnSettles DEF ScheduleStep, UnscheduleTask, EnqueueTask
<1>9. CASE WorkerFires
  BY <1>0, <1>1, <1>9, OnlyOneMoves DEF WorkerFires, Idle, Settles
<1>10. CASE WorkerFinds
  <2>1. CASE rfq.status = "ACTIVE" /\ ~Premature(rfq)
    BY <1>0, <1>10, <2>1 DEF WorkerFinds, Moves
  <2>2. CASE ~(rfq.status = "ACTIVE" /\ ~Premature(rfq))
    <3>1. call'[p] = call[p] \/ call'[p].at \in {"finish", "unschedule"}
      BY <1>0, <1>10, <2>2 DEF WorkerFinds, Calls
    <3> QED
      BY <1>1, <3>1 DEF Settles
  <2> QED
    BY <2>1, <2>2
<1>11. CASE WorkerFinishes
  BY <1>0, <1>1, <1>11, ReturnSettles DEF WorkerFinishes
<1>12. CASE Crash
  BY <1>1, <1>12 DEF Crash, Idle, Settles
<1>13. CASE \E q \in Procs : DatabaseFails(q)
  BY <1>1, <1>13, ReturnSettles DEF DatabaseFails
<1>14. CASE Tick \/ UNCHANGED vars
  BY <1>1, <1>14 DEF Tick, vars, Settles
<1> QED
  BY <1>2, <1>3, <1>4, <1>5, <1>6, <1>7, <1>8, <1>9, <1>10, <1>11, <1>12, <1>13, <1>14
  DEF Next, Arrival, Step, Failure

(* Who writes the database, who publishes, and what no step touches.        *)
LEMMA Writers ==
    ASSUME TypeOK, [Next]_vars
    PROVE  /\ \/ UNCHANGED database
              \/ CreateRfq
              \/ \E b \in Bidders : BidCommits(b)
              \/ \E p \in Closers \cup {Worker} : SaveClosed(p)
           /\ \/ UNCHANGED feed
              \/ \E b \in Bidders : AnnounceBid(b) \/ AnnounceExtension(b)
              \/ \E p \in Closers \cup {Worker} : AnnounceClosed(p)
           /\ UNCHANGED terms
           /\ now <= now' /\ now \in Nat /\ now' \in Nat
<1> DEFINE Frame == UNCHANGED terms /\ (UNCHANGED now \/ now' = now + 1)
<1>1. now \in Nat
  BY ClockAssumption DEF TypeOK
<1>2. Frame
  <2>1. CASE Arrival
    BY <2>1 DEF Arrival, CreateRfq, BidArrives, EarlyClose
  <2>2. CASE \E b \in Bidders : BidStep(b)
    BY <2>2 DEF BidStep, BidReadsRfq, BidChecksBest, BidEvaluates, BidCommits,
       BidIsDuplicate, AnnounceBid, AnnounceExtension
  <2>3. CASE Step /\ ~(\E b \in Bidders : BidStep(b))
    BY <2>3 DEF Step, CancelClosure, CloseStep, SaveClosed, AnnounceClosed,
       ScheduleStep, UnscheduleTask, EnqueueTask, WorkerFinds, WorkerFinishes
  <2>4. CASE WorkerFires \/ Failure \/ Tick \/ UNCHANGED vars
    BY <2>4 DEF WorkerFires, Failure, Crash, DatabaseFails, Tick, vars
  <2> QED
    BY <2>1, <2>2, <2>3, <2>4 DEF Next, Step
<1>3. \/ UNCHANGED database
      \/ CreateRfq
      \/ \E b \in Bidders : BidCommits(b)
      \/ \E p \in Closers \cup {Worker} : SaveClosed(p)
  <2>1. CASE Arrival
    BY <2>1 DEF Arrival, BidArrives, EarlyClose
  <2>2. CASE \E b \in Bidders : BidStep(b)
    BY <2>2 DEF BidStep, BidReadsRfq, BidChecksBest, BidEvaluates,
       BidIsDuplicate, AnnounceBid, AnnounceExtension
  <2>3. CASE Step /\ ~(\E b \in Bidders : BidStep(b))
    BY <2>3 DEF Step, CancelClosure, CloseStep, AnnounceClosed,
       ScheduleStep, UnscheduleTask, EnqueueTask, WorkerFinds, WorkerFinishes
  <2>4. CASE WorkerFires \/ Failure \/ Tick \/ UNCHANGED vars
    BY <2>4 DEF WorkerFires, Failure, Crash, DatabaseFails, Tick, vars, database
  <2> QED
    BY <2>1, <2>2, <2>3, <2>4 DEF Next, Step
<1>4. \/ UNCHANGED feed
      \/ \E b \in Bidders : AnnounceBid(b) \/ AnnounceExtension(b)
      \/ \E p \in Closers \cup {Worker} : AnnounceClosed(p)
  <2>1. CASE Arrival
    BY <2>1 DEF Arrival, CreateRfq, BidArrives, EarlyClose
  <2>2. CASE \E b \in Bidders : BidStep(b)
    BY <2>2 DEF BidStep, BidReadsRfq, BidChecksBest, BidEvaluates, BidCommits,
       BidIsDuplicate
  <2>3. CASE Step /\ ~(\E b \in Bidders : BidStep(b))
    BY <2>3 DEF Step, CancelClosure, CloseStep, SaveClosed,
       ScheduleStep, UnscheduleTask, EnqueueTask, WorkerFinds, WorkerFinishes
  <2>4. CASE WorkerFires \/ Failure \/ Tick \/ UNCHANGED vars
    BY <2>4 DEF WorkerFires, Failure, Crash, DatabaseFails, Tick, vars
  <2> QED
    BY <2>1, <2>2, <2>3, <2>4 DEF Next, Step
<1> QED
  BY <1>1, <1>2, <1>3, <1>4

----------------------------------------------------------------------------
(* The ledger. *)

(* Committing a bid is the only way the ledger or the logs change.          *)
LEMMA LedgerWriters ==
    ASSUME TypeOK, [Next]_vars
    PROVE  UNCHANGED <<bids, logs>> \/ \E b \in Bidders : BidCommits(b)
  BY Writers DEF database, CreateRfq, SaveClosed

(* The unique index keeps client ids apart, the next id bids. *)
LEMMA LedgerInvStep == TypeInv /\ LedgerInv /\ [Next]_vars => LedgerInv'
<1> SUFFICES ASSUME TypeInv, LedgerInv, [Next]_vars PROVE LedgerInv'
  OBVIOUS
<1>1. CASE UNCHANGED <<bids, logs>>
  BY <1>1 DEF LedgerInv, IdsHandedOut, OneBidPerClientId
<1>2. CASE \E b \in Bidders : BidCommits(b)
  <2> PICK b \in Bidders : BidCommits(b)
    BY <1>2
  <2> DEFINE row == BidRow(call[b].req, NewId)
  <2>1. bids' = bids \cup {row}
    BY DEF BidCommits
  <2>2. row.id = NewId /\ row.client = call[b].req.client
    BY DEF BidRow
  <2>3. row.client # NoClientId => \A x \in bids : x.client # row.client
    BY <2>2 DEF BidCommits, Duplicate, SameClientId
  <2>4. \A x \in bids : x.id \in Nat /\ 1 <= x.id /\ x.id <= Cardinality(bids)
    BY DEF LedgerInv, IdsHandedOut, TypeInv, TypeOK
  <2>5. Cardinality(bids) \in Nat
    BY FS_CardinalityType DEF TypeInv, TypeOK
  <2>6. \A x \in bids : x.id # row.id
    BY <2>2, <2>4, <2>5 DEF NewId
  <2> HIDE DEF row
  <2>7. Cardinality(bids') = Cardinality(bids) + 1
    BY <2>1, <2>6, NewIdFacts DEF TypeInv
  <2>8. IdsHandedOut'
    BY <2>1, <2>2, <2>4, <2>5, <2>7 DEF IdsHandedOut, NewId
  <2>9. OneBidPerClientId'
    BY <2>1, <2>3, <2>6 DEF LedgerInv, OneBidPerClientId
  <2> QED
    BY <2>8, <2>9 DEF LedgerInv
<1> QED
  BY <1>1, <1>2, LedgerWriters DEF TypeInv

----------------------------------------------------------------------------
(* The extension logs. *)

(* A close time stays explained. *)
LEMMA ExplainedStays ==
    ASSUME TypeOK, [Next]_vars, NEW close, Explained(close)
    PROVE  close = terms'.close \/ \E l \in logs' : l.new = close
<1>1. terms' = terms
  BY Writers
<1>2. logs \subseteq logs'
  BY LedgerWriters DEF BidCommits
<1> QED
  BY <1>1, <1>2 DEF Explained

(* A copy is read from an ACTIVE row and stays explained. *)
LEMMA CarriesActiveRowStep ==
    TypeInv /\ LogInv /\ [Next]_vars => CarriesActiveRow'
<1> SUFFICES ASSUME TypeInv, LogInv, [Next]_vars, NEW p \in Procs,
                    call'[p].at \in {"best", "rank", "commit"}
             PROVE  /\ call'[p].row.status = "ACTIVE"
                    /\ \/ call'[p].row.close = terms'.close
                       \/ \E l \in logs' : l.new = call'[p].row.close
  BY DEF CarriesActiveRow, Explained
<1>1. call[p] \in Calls /\ Moves(p)
  BY CallMoves DEF TypeInv, TypeOK
<1>2. \/ /\ call'[p].row = call[p].row
         /\ call[p].at \in {"best", "rank", "commit"}
      \/ call'[p].row = rfq /\ rfq.status = "ACTIVE"
  <2>1. CASE call'[p] = call[p]
    BY <2>1
  <2>2. CASE BidReadsRfq(p) /\ Admits(rfq, call[p].req)
             /\ call'[p] = [call[p] EXCEPT !.at = "best", !.row = rfq]
    BY <1>1, <2>2 DEF Admits, Calls
  <2>3. CASE BidChecksBest(p) /\ call'[p] = [call[p] EXCEPT !.at = "rank"]
    BY <1>1, <2>3 DEF BidChecksBest, At, Calls
  <2>4. CASE BidEvaluates(p) /\ call'[p].row = call[p].row
    BY <2>4 DEF BidEvaluates, At
  <2>5. BidEvaluates(p) => call'[p].row = call[p].row
    BY <1>1 DEF BidEvaluates, TypeInv, TypeOK, Calls
  <2>6. \/ call'[p] = call[p]
        \/ BidReadsRfq(p) /\ Admits(rfq, call[p].req)
             /\ call'[p] = [call[p] EXCEPT !.at = "best", !.row = rfq]
        \/ BidChecksBest(p) /\ call'[p] = [call[p] EXCEPT !.at = "rank"]
        \/ BidEvaluates(p)
    BY <1>1 DEF Moves, Calls, Idle
  <2> QED
    BY <2>1, <2>2, <2>3, <2>4, <2>5, <2>6
<1>3. PICK close : /\ close = call'[p].row.close
                   /\ call'[p].row.status = "ACTIVE"
                   /\ Explained(close)
  BY <1>2 DEF LogInv, CarriesActiveRow, CloseTimeExplained, Explained
<1> QED
  BY <1>3, ExplainedStays DEF TypeInv

(* An extension is committed together with its log. *)
LEMMA ExtensionIsLogged ==
    ASSUME NEW b, BidCommits(b), Extended(b)
    PROVE  \E l \in logs' : l.new = call[b].newClose
<1> DEFINE log == [bid |-> NewId, prev |-> call[b].row.close, new |-> call[b].newClose,
                   mins |-> ExtendedMins(call[b].row.close, call[b].newClose)]
<1>1. log \in logs'
  BY DEF BidCommits, ExtensionLog
<1>2. log.new = call[b].newClose
  OBVIOUS
<1> QED
  BY <1>1, <1>2

(* The bid's evaluation is the only step that decides a new close time.     *)
LEMMA CarriesGrantStep ==
    TypeInv /\ LogInv /\ [Next]_vars => CarriesGrant'
<1> SUFFICES ASSUME TypeInv, LogInv, [Next]_vars, NEW p \in Procs, call'[p].at = "commit"
             PROVE  \/ call'[p].newClose = call'[p].row.close
                    \/ /\ call'[p].row.close < call'[p].newClose
                       /\ call'[p].newClose <= terms'.forced
  BY DEF CarriesGrant
<1>1. call[p] \in Calls /\ Moves(p) /\ terms' = terms /\ terms \in Terms
  BY CallMoves, Writers DEF TypeInv, TypeOK
<1> DEFINE after == CloseAfter(call[p].row.close, terms, call[p].req, Leaderboard(bids), now)
<1>2. \/ call'[p] = call[p]
      \/ call'[p] = [call[p] EXCEPT !.at = "commit", !.newClose = after]
  BY <1>1 DEF Moves, Calls, Idle
<1>3. after = call[p].row.close \/ (call[p].row.close < after /\ after <= terms.forced)
  <2>1. call[p].row.close \in Nat
    BY <1>1 DEF Calls, Rows
  <2> QED
    BY <1>1, <2>1, CloseAfterBounds
<1> HIDE DEF after
<1>4. CASE call'[p] = call[p]
  BY <1>1, <1>4 DEF LogInv, CarriesGrant
<1>5. CASE call'[p] = [call[p] EXCEPT !.at = "commit", !.newClose = after]
  <2>1. call'[p].row = call[p].row /\ call'[p].newClose = after
    BY <1>1, <1>5 DEF Calls
  <2> QED
    BY <1>1, <1>3, <2>1
<1> QED
  BY <1>2, <1>4, <1>5

(* A log is written with its bid, from a close time the RFQ had.            *)
LEMMA ExtensionsExplainedStep ==
    TypeInv /\ LedgerInv /\ LogInv /\ [Next]_vars => ExtensionsExplained'
<1> SUFFICES ASSUME TypeInv, LedgerInv, LogInv, [Next]_vars PROVE ExtensionsExplained'
  OBVIOUS
<1>1. terms' = terms
  BY Writers DEF TypeInv
<1>2. CASE UNCHANGED <<bids, logs>>
  BY <1>1, <1>2 DEF LogInv, ExtensionsExplained
<1>3. CASE \E b \in Bidders : BidCommits(b)
  <2> PICK b \in Bidders : BidCommits(b)
    BY <1>3
  <2>1. /\ bids' = bids \cup {BidRow(call[b].req, NewId)}
        /\ logs' = logs \cup ExtensionLog(b)
        /\ b \in Procs /\ call[b].at = "commit"
    BY DEF BidCommits, At, Procs
  <2>2. BidRow(call[b].req, NewId).id = NewId
    BY DEF BidRow
  <2>3. \A l \in logs : \E x \in bids : x.id = l.bid
    BY DEF LogInv, ExtensionsExplained
  <2>4. /\ NewId \in Nat
        /\ \A x \in bids : x.id \in Nat /\ x.id < NewId
    <3>1. Cardinality(bids) \in Nat
      BY FS_CardinalityType DEF TypeInv, TypeOK
    <3> QED
      BY <3>1 DEF NewId, LedgerInv, IdsHandedOut, TypeInv, TypeOK
  <2>5. \A l \in logs : l.bid \in Nat /\ l.bid < NewId
    BY <2>3, <2>4
  <2>6. CASE ~Extended(b)
    <3>1. logs' = logs
      BY <2>1, <2>6 DEF ExtensionLog
    <3> QED
      BY <1>1, <2>1, <3>1 DEF LogInv, ExtensionsExplained
  <2>7. CASE Extended(b)
    <3> DEFINE prev == call[b].row.close
               new  == call[b].newClose
           log  == [bid |-> NewId, prev |-> prev, new |-> new,
                    mins |-> ExtendedMins(prev, new)]
    <3>1. /\ logs' = logs \cup {log}
          /\ log.bid = NewId /\ log.prev = prev /\ log.new = new
      BY <2>1, <2>7 DEF ExtensionLog
    <3>2. prev \in Nat /\ new \in Nat /\ prev < new /\ new <= terms.forced
      <4>1. prev \in Nat /\ new \in Nat
        BY <2>1 DEF TypeInv, TypeOK, Calls, Rows
      <4>2. new = prev \/ (prev < new /\ new <= terms.forced)
        BY <2>1 DEF LogInv, CarriesGrant
      <4> QED
        BY <2>7, <4>1, <4>2 DEF Extended
    <3>3. Explained(prev)
      BY <2>1 DEF LogInv, CarriesActiveRow
    <3> HIDE DEF prev, new, log
    <3>4. \E x \in bids' : x.id = log.bid
      BY <2>1, <2>2, <3>1
    <3>5. \A k \in logs : k.bid # log.bid
      BY <2>4, <2>5, <3>1
    <3>6. log.prev = terms.close \/ \E k \in logs : k.new = log.prev /\ k.bid < log.bid
      BY <2>5, <3>1, <3>3 DEF Explained
    <3>7. \A l \in logs : \E x \in bids' : x.id = l.bid
      BY <2>1, <2>3
    <3> QED
      BY <1>1, <3>1, <3>2, <3>4, <3>5, <3>6, <3>7 DEF LogInv, ExtensionsExplained
  <2> QED
    BY <2>6, <2>7
<1> QED
  BY <1>2, <1>3, LedgerWriters DEF TypeInv

(* Whoever writes the row writes an explained close time or CLOSED.         *)
LEMMA CloseTimeExplainedStep ==
    TypeInv /\ LogInv /\ CarriesDueClosure /\ [Next]_vars => CloseTimeExplained'
<1> SUFFICES ASSUME TypeInv, LogInv, CarriesDueClosure, [Next]_vars, rfq'.status = "ACTIVE"
             PROVE  rfq'.close = terms'.close \/ \E l \in logs' : l.new = rfq'.close
  BY DEF CloseTimeExplained
<1>1. terms' = terms
  BY Writers DEF TypeInv
<1>2. CASE UNCHANGED database
  BY <1>1, <1>2 DEF LogInv, CloseTimeExplained, database
<1>3. CASE CreateRfq
  BY <1>1, <1>3 DEF CreateRfq
<1>4. CASE \E b \in Bidders : BidCommits(b)
  <2> PICK b \in Bidders : BidCommits(b)
    BY <1>4
  <2>1. CASE Extended(b)
    <3>1. rfq'.close = call[b].newClose
      <4>1. call[b].row \in Rows
        BY DEF TypeInv, TypeOK, Calls, Procs
      <4>2. rfq' = [call[b].row EXCEPT !.close = call[b].newClose]
        BY <2>1 DEF BidCommits
      <4> QED
        BY <4>1, <4>2 DEF Rows
    <3>2. \E l \in logs' : l.new = call[b].newClose
      BY <2>1, ExtensionIsLogged
    <3> QED
      BY <3>1, <3>2
  <2>2. CASE ~Extended(b)
    BY <1>1, <2>2 DEF BidCommits, LogInv, CloseTimeExplained
  <2> QED
    BY <2>1, <2>2
<1>5. CASE \E p \in Closers \cup {Worker} : SaveClosed(p)
  BY <1>5 DEF SaveClosed, At, CarriesDueClosure, Procs
<1> QED
  BY <1>2, <1>3, <1>4, <1>5, Writers DEF TypeInv

(* The four parts about extensions, together. *)
LEMMA LogInvStep ==
    TypeInv /\ LedgerInv /\ LogInv /\ CarriesDueClosure /\ [Next]_vars => LogInv'
  BY CarriesActiveRowStep, CarriesGrantStep, ExtensionsExplainedStep,
     CloseTimeExplainedStep DEF LogInv

----------------------------------------------------------------------------
(* The feed. *)

(* A call announces what its own commit has written. *)
LEMMA CarriesCommittedStep ==
    TypeInv /\ FeedInv /\ [Next]_vars => CarriesCommitted'
<1> SUFFICES ASSUME TypeInv, FeedInv, [Next]_vars, NEW p \in Procs
             PROVE  /\ call'[p].at = "placed" => \E x \in bids' : x.id = call'[p].id
                    /\ call'[p].at \in {"placed", "extended"}
                          /\ call'[p].newClose > call'[p].row.close =>
                             \E l \in logs' : l.new = call'[p].newClose
                    /\ call'[p].at = "extended" => call'[p].newClose > call'[p].row.close
  BY DEF CarriesCommitted
<1>1. call[p] \in Calls /\ Moves(p)
  BY CallMoves DEF TypeInv, TypeOK
<1>2. bids \subseteq bids' /\ logs \subseteq logs'
  BY LedgerWriters DEF BidCommits, TypeInv
<1>3. CASE call'[p] = call[p]
  BY <1>2, <1>3 DEF FeedInv, CarriesCommitted
<1>4. CASE BidCommits(p) /\ call'[p] = [call[p] EXCEPT !.at = "placed", !.id = NewId]
  <2>1. /\ call'[p].at = "placed" /\ call'[p].id = NewId
        /\ call'[p].newClose = call[p].newClose /\ call'[p].row = call[p].row
    BY <1>1, <1>4 DEF Calls
  <2>2. \E x \in bids' : x.id = NewId
    <3> DEFINE row == BidRow(call[p].req, NewId)
    <3>1. row \in bids' /\ row.id = NewId
      BY <1>4 DEF BidCommits, BidRow
    <3> QED
      BY <3>1
  <2>3. Extended(p) => \E l \in logs' : l.new = call[p].newClose
    BY <1>4, ExtensionIsLogged
  <2> QED
    BY <2>1, <2>2, <2>3 DEF Extended
<1>5. CASE AnnounceBid(p) /\ Extended(p) /\ call'[p] = [call[p] EXCEPT !.at = "extended"]
  <2>1. /\ call'[p].at = "extended" /\ call[p].at = "placed"
        /\ call'[p].newClose = call[p].newClose /\ call'[p].row = call[p].row
    BY <1>1, <1>5 DEF Calls, AnnounceBid, At
  <2>2. \E l \in logs : l.new = call[p].newClose
    BY <1>5, <2>1 DEF FeedInv, CarriesCommitted, Extended
  <2> QED
    BY <1>2, <1>5, <2>1, <2>2 DEF Extended
<1>6. \/ call'[p] = call[p]
      \/ BidCommits(p) /\ call'[p] = [call[p] EXCEPT !.at = "placed", !.id = NewId]
      \/ AnnounceBid(p) /\ Extended(p) /\ call'[p] = [call[p] EXCEPT !.at = "extended"]
      \/ call'[p].at \notin {"placed", "extended"}
  BY <1>1 DEF Moves, Calls, Idle
<1>7. CASE call'[p].at \notin {"placed", "extended"}
  BY <1>7
<1> QED
  BY <1>3, <1>4, <1>5, <1>6, <1>7

(* What the feed repeats was committed, and stays so. *)
LEMMA FeedFollowsLedgerStep ==
    TypeInv /\ FeedInv /\ [Next]_vars => FeedFollowsLedger'
<1> SUFFICES ASSUME TypeInv, FeedInv, [Next]_vars PROVE FeedFollowsLedger'
  OBVIOUS
<1> DEFINE Ids == {x.id : x \in bids}
<1>1. bids \subseteq bids' /\ logs \subseteq logs'
  BY LedgerWriters DEF BidCommits, TypeInv
<1>2. /\ feed'.placed \subseteq Ids
      /\ feed'.close # 0 => \E l \in logs : l.new = feed'.close
  <2>1. feed \in [placed : SUBSET Nat, close : Nat, closed : BOOLEAN]
    BY DEF TypeInv, TypeOK
  <2>2. CASE UNCHANGED feed
    BY <2>2 DEF FeedInv, FeedFollowsLedger
  <2>3. CASE \E b \in Bidders : AnnounceBid(b)
    <3> PICK b \in Bidders : AnnounceBid(b)
      BY <2>3
    <3>1. call[b].id \in Ids
      BY DEF AnnounceBid, At, FeedInv, CarriesCommitted, Procs
    <3>2. feed' = feed \/ feed' = [feed EXCEPT !.placed = @ \cup {call[b].id}]
      BY DEF AnnounceBid, Publish
    <3>3. feed'.close = feed.close /\ feed'.placed \subseteq feed.placed \cup {call[b].id}
      BY <2>1, <3>2
    <3> QED
      BY <3>1, <3>3 DEF FeedInv, FeedFollowsLedger
  <2>4. CASE \E b \in Bidders : AnnounceExtension(b)
    <3> PICK b \in Bidders : AnnounceExtension(b)
      BY <2>4
    <3>1. \E l \in logs : l.new = call[b].newClose
      BY DEF AnnounceExtension, At, FeedInv, CarriesCommitted, Procs
    <3>2. feed' = feed \/ feed' = [feed EXCEPT !.close = call[b].newClose]
      BY DEF AnnounceExtension, Publish, AnnouncedClose
    <3>3. feed'.placed = feed.placed /\ feed'.close \in {feed.close, call[b].newClose}
      BY <2>1, <3>2
    <3> QED
      BY <3>1, <3>3 DEF FeedInv, FeedFollowsLedger
  <2>5. CASE \E p \in Closers \cup {Worker} : AnnounceClosed(p)
    <3>1. feed' = feed \/ feed' = [feed EXCEPT !.closed = TRUE]
      BY <2>5 DEF AnnounceClosed, Publish
    <3>2. feed'.placed = feed.placed /\ feed'.close = feed.close
      BY <2>1, <3>1
    <3> QED
      BY <3>2 DEF FeedInv, FeedFollowsLedger
  <2> QED
    BY <2>2, <2>3, <2>4, <2>5, Writers DEF TypeInv
<1> QED
  BY <1>1, <1>2 DEF FeedFollowsLedger

(* Both parts about the feed. *)
LEMMA FeedInvStep == TypeInv /\ FeedInv /\ [Next]_vars => FeedInv'
  BY CarriesCommittedStep, FeedFollowsLedgerStep DEF FeedInv

----------------------------------------------------------------------------
(* Closing. *)

(* A decision to close is made on time, and time only adds to it. *)
LEMMA CarriesDueClosureStep ==
    TypeInv /\ CarriesDueClosure /\ [Next]_vars => CarriesDueClosure'
<1> SUFFICES ASSUME TypeInv, CarriesDueClosure, [Next]_vars, NEW p \in Procs,
                    call'[p].at = "save"
             PROVE  /\ call'[p].row.status = "CLOSED"
                    /\ call'[p].row.close <= now' \/ terms'.forced <= now'
  BY DEF CarriesDueClosure
<1>1. /\ call[p] \in Calls /\ Moves(p) /\ rfq \in Rows
      /\ terms' = terms /\ terms \in Terms /\ now <= now' /\ now \in Nat /\ now' \in Nat
  BY CallMoves, Writers DEF TypeInv, TypeOK
<1>2. rfq.close \in Nat /\ call[p].row.close \in Nat /\ terms.forced \in Nat
  BY <1>1, TermsAssumption DEF Rows, Calls
<1>3. \/ call'[p] = call[p]
      \/ call'[p] = [Idle EXCEPT !.at = "save", !.row = ClosedAt(now)]
      \/ /\ ~Premature(rfq)
         /\ call'[p] = [call[p] EXCEPT !.at = "save", !.row = ClosedAt(rfq.close)]
  BY <1>1 DEF Moves, Calls
<1>4. CASE call'[p] = call[p]
  BY <1>1, <1>2, <1>4 DEF CarriesDueClosure
<1>5. CASE call'[p] = [Idle EXCEPT !.at = "save", !.row = ClosedAt(now)]
  <2>1. call'[p].row = ClosedAt(now)
    BY <1>5 DEF Idle
  <2> QED
    BY <1>1, <2>1 DEF ClosedAt
<1>6. CASE /\ ~Premature(rfq)
           /\ call'[p] = [call[p] EXCEPT !.at = "save", !.row = ClosedAt(rfq.close)]
  <2>1. call'[p].row = ClosedAt(rfq.close)
    BY <1>1, <1>6 DEF Calls
  <2> QED
    BY <1>1, <1>2, <1>6, <2>1 DEF ClosedAt, Premature
<1> QED
  BY <1>3, <1>4, <1>5, <1>6

(* Only a bid's extension writes ACTIVE over CLOSED, and it leaves its log. *)
LEMMA ClosureUndone ==
    ASSUME TypeInv, CarriesActiveRow, CarriesDueClosure, [Next]_vars, ClosedOrExtended
    PROVE  ClosedOrExtended'
<1>1. CASE UNCHANGED database
  BY <1>1 DEF database, ClosedOrExtended
<1>2. CASE CreateRfq
  BY <1>2 DEF CreateRfq, ClosedOrExtended
<1>3. CASE \E b \in Bidders : BidCommits(b)
  <2> PICK b \in Bidders : BidCommits(b)
    BY <1>3
  <2>1. CASE Extended(b)
    <3>1. call[b] \in Calls /\ call[b].row.status = "ACTIVE"
      BY DEF BidCommits, At, CarriesActiveRow, TypeInv, TypeOK, Procs
    <3>2. rfq' = [call[b].row EXCEPT !.close = call[b].newClose]
      BY <2>1 DEF BidCommits
    <3>3. rfq'.status = "ACTIVE" /\ rfq'.close = call[b].newClose
      BY <3>1, <3>2 DEF Calls, Rows
    <3> QED
      BY <2>1, <3>3, ExtensionIsLogged DEF ClosedOrExtended
  <2>2. CASE ~Extended(b)
    BY <2>2 DEF BidCommits, ClosedOrExtended
  <2> QED
    BY <2>1, <2>2
<1>4. CASE \E p \in Closers \cup {Worker} : SaveClosed(p)
  BY <1>4 DEF SaveClosed, At, CarriesDueClosure, Procs, ClosedOrExtended
<1> QED
  BY <1>1, <1>2, <1>3, <1>4, Writers DEF TypeInv

(* What a closing call has saved can only be undone by an extension. *)
LEMMA CarriesClosureStep ==
    TypeInv /\ CarriesActiveRow /\ ClosureInv /\ [Next]_vars => CarriesClosure'
<1> SUFFICES ASSUME TypeInv, CarriesActiveRow, ClosureInv, [Next]_vars,
                    NEW p \in Procs, call'[p].at \in {"cancel", "closed"}
             PROVE  ClosedOrExtended'
  BY DEF CarriesClosure
<1>1. call[p] \in Calls /\ Moves(p)
  BY CallMoves DEF TypeInv, TypeOK
<1>2. call[p].at \in {"cancel", "closed"} \/ SaveClosed(p)
  <2>1. \/ call'[p] = call[p]
        \/ SaveClosed(p)
        \/ At(p, "cancel")
    BY <1>1 DEF Moves, Calls, Idle
  <2> QED
    BY <2>1 DEF At
<1>3. CASE SaveClosed(p)
  BY <1>3 DEF SaveClosed, At, ClosureInv, CarriesDueClosure, ClosedOrExtended
<1>4. CASE call[p].at \in {"cancel", "closed"}
  BY <1>4, ClosureUndone DEF ClosureInv, CarriesClosure
<1> QED
  BY <1>2, <1>3, <1>4

(* The same once it is announced. *)
LEMMA ClosedFeedStep ==
    TypeInv /\ CarriesActiveRow /\ ClosureInv /\ [Next]_vars =>
        ClosedFeedUndoneOnlyByExtension'
<1> SUFFICES ASSUME TypeInv, CarriesActiveRow, ClosureInv, [Next]_vars, feed'.closed
             PROVE  ClosedOrExtended'
  BY DEF ClosedFeedUndoneOnlyByExtension
<1>1. feed \in [placed : SUBSET Nat, close : Nat, closed : BOOLEAN]
  BY DEF TypeInv, TypeOK
<1>2. feed.closed \/ \E p \in Closers \cup {Worker} : AnnounceClosed(p)
  <2>1. CASE UNCHANGED feed
    BY <2>1
  <2>2. CASE \E b \in Bidders : AnnounceBid(b) \/ AnnounceExtension(b)
    BY <1>1, <2>2 DEF AnnounceBid, AnnounceExtension, Publish
  <2> QED
    BY <2>1, <2>2, Writers DEF TypeInv
<1>3. ClosedOrExtended
  BY <1>2 DEF ClosureInv, ClosedFeedUndoneOnlyByExtension, CarriesClosure,
     AnnounceClosed, At, Procs
<1> QED
  BY <1>3, ClosureUndone DEF ClosureInv

(* The three parts about closing. *)
LEMMA ClosureInvStep ==
    TypeInv /\ CarriesActiveRow /\ ClosureInv /\ [Next]_vars => ClosureInv'
  BY CarriesDueClosureStep, CarriesClosureStep, ClosedFeedStep DEF ClosureInv

----------------------------------------------------------------------------
(* The theorems. *)

(* Nothing has happened yet. *)
LEMMA InvInit == Init => Inv
<1> SUFFICES ASSUME Init PROVE Inv
  OBVIOUS
<1>1. \A p \in Procs : call[p] = Idle /\ Idle.at = "idle"
  BY DEF Init, Idle
<1>2. LedgerInv
  BY DEF Init, LedgerInv, IdsHandedOut, OneBidPerClientId
<1>3. LogInv
  BY <1>1 DEF Init, NoRow, LogInv, ExtensionsExplained, CloseTimeExplained,
     CarriesActiveRow, CarriesGrant
<1>4. FeedInv
  BY <1>1 DEF Init, FeedInv, FeedFollowsLedger, CarriesCommitted
<1>5. ClosureInv
  BY <1>1 DEF Init, ClosureInv, ClosedFeedUndoneOnlyByExtension, CarriesClosure,
     CarriesDueClosure
<1> QED
  BY <1>2, <1>3, <1>4, <1>5, TypeInvInit DEF Inv

(* The parts are preserved together: each step lemma needs only its own    *)
(* part and the types.                                                      *)
LEMMA InvStep == Inv /\ [Next]_vars => Inv'
<1> SUFFICES ASSUME Inv, [Next]_vars PROVE Inv'
  OBVIOUS
<1>1. TypeInv'
  BY TypeInvStep DEF Inv
<1>2. LedgerInv'
  BY LedgerInvStep DEF Inv
<1>3. LogInv'
  BY LogInvStep DEF Inv, ClosureInv
<1>4. FeedInv'
  BY FeedInvStep DEF Inv
<1>5. ClosureInv'
  BY ClosureInvStep DEF Inv, LogInv
<1> QED
  BY <1>1, <1>2, <1>3, <1>4, <1>5 DEF Inv

(* The invariant of AuctionInvariant, for any number of bidders, requests,  *)
(* overlapping calls and failures.                                          *)
THEOREM Invariance == Spec => []Inv
<1> QED
  BY InvInit, InvStep, PTL DEF Spec

(* PlaceBid keeps a client bid id from being spent twice, although its      *)
(* idempotency check is outside the transaction.                            *)
THEOREM IdempotentBids == Spec => []OneBidPerClientId
<1>1. Inv => OneBidPerClientId
  BY DEF Inv, LedgerInv
<1> QED
  BY <1>1, Invariance, PTL

(* Every extension in the audit log is bounded by the forced close and      *)
(* traces back, log by log, to the close time the buyer asked for.          *)
THEOREM ExtensionsAreExplained == Spec => []ExtensionsExplained
<1>1. Inv => ExtensionsExplained
  BY DEF Inv, LogInv
<1> QED
  BY <1>1, Invariance, PTL

(* No interleaving of full-row saves gives an ACTIVE RFQ a close time that  *)
(* neither the buyer nor a logged extension set.                            *)
THEOREM CloseTimeIsExplained == Spec => []CloseTimeExplained
<1>1. Inv => CloseTimeExplained
  BY DEF Inv, LogInv
<1> QED
  BY <1>1, Invariance, PTL

(* BID_PLACED and AUCTION_EXTENDED are only ever about committed rows.      *)
THEOREM FeedIsFaithful == Spec => []FeedFollowsLedger
<1>1. Inv => FeedFollowsLedger
  BY DEF Inv, FeedInv
<1> QED
  BY <1>1, Invariance, PTL

(* What AUCTION_CLOSED announced is undone by nothing but the extension     *)
(* that gave the RFQ the close time it has.                                 *)
THEOREM ClosedFeedIsUndoneOnlyByExtension == Spec => []ClosedFeedUndoneOnlyByExtension
<1>1. Inv => ClosedFeedUndoneOnlyByExtension
  BY DEF Inv, ClosureInv
<1> QED
  BY <1>1, Invariance, PTL

(* No step closes an auction before the close time it writes, or before the *)
(* forced close, however early the task fires.                              *)
THEOREM NoEarlyClosure == Spec => NeverClosedEarly
<1>1. Inv /\ [Next]_vars =>
        [rfq.status # "CLOSED" /\ rfq'.status = "CLOSED" =>
            rfq'.close <= now \/ terms.forced <= now]_vars
  <2> SUFFICES ASSUME Inv, [Next]_vars, rfq.status # "CLOSED", rfq'.status = "CLOSED"
               PROVE  rfq'.close <= now \/ terms.forced <= now
    OBVIOUS
  <2>1. CASE UNCHANGED database \/ CreateRfq
    BY <2>1 DEF database, CreateRfq
  <2>2. CASE \E b \in Bidders : BidCommits(b)
    <3> PICK b \in Bidders : BidCommits(b)
      BY <2>2
    <3>1. call[b].row \in Rows /\ call[b].row.status = "ACTIVE"
      BY DEF BidCommits, At, Inv, LogInv, CarriesActiveRow, TypeInv, TypeOK, Calls, Procs
    <3>2. rfq' = rfq \/ rfq' = [call[b].row EXCEPT !.close = call[b].newClose]
      BY DEF BidCommits
    <3> QED
      BY <3>1, <3>2 DEF Rows
  <2>3. CASE \E p \in Closers \cup {Worker} : SaveClosed(p)
    BY <2>3 DEF SaveClosed, At, Inv, ClosureInv, CarriesDueClosure, Procs
  <2> QED
    BY <2>1, <2>2, <2>3, Writers DEF Inv, TypeInv
<1> QED
  BY <1>1, Invariance, PTL DEF Spec, NeverClosedEarly
============================================================================
