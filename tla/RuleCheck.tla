----------------------------- MODULE RuleCheck ------------------------------
(***************************************************************************)
(* The extension rules against what a buyer means by them.                  *)
(*                                                                          *)
(* A ledger grows one bid at a time.  Any supplier may bid any price: the   *)
(* concurrent service does commit bids that do not improve, and ties, so    *)
(* the rules must be right on those ledgers too.  Every bid is put to       *)
(* EvaluateExtension on the board before it; `asked` and `answer` keep the  *)
(* last question and the rule's verdict, and the properties compare the     *)
(* verdict with a definition of the rule that has no leaderboard in it.     *)
(***************************************************************************)
EXTENDS NodeExtensionRules

CONSTANTS Suppliers,
          Prices,
          Terms,       \* the RFQs asked about
          MaxBids,     \* bound on the length of the ledger
          MaxTime      \* bound on the evaluation clock

ASSUME RuleCheckAssumption ==
    /\ Prices \subseteq Nat
    /\ Terms \subseteq [close : Nat, forced : Nat, window : Nat, ext : Nat,
                       trigger : TriggerType]
    /\ {MaxBids, MaxTime} \subseteq Nat

VARIABLES bids, terms, asked, answer

vars == <<bids, terms, asked, answer>>

Nothing == [bids |-> {}, bid |-> [id |-> 0], now |-> 0]

Init ==
    /\ bids = {}
    /\ terms \in Terms
    /\ asked = Nothing
    /\ answer = terms.close

(* One bid is evaluated at some time and then recorded. *)
Evaluate(supplier, price, now) ==
    LET bid == [id |-> Cardinality(bids) + 1, supplier |-> supplier, price |-> price]
    IN  /\ Cardinality(bids) < MaxBids
        /\ asked' = [bids |-> bids, bid |-> bid, now |-> now]
        /\ answer' = CloseAfter(terms.close, terms, bid, Leaderboard(bids), now)
        /\ bids' = bids \cup {bid}
        /\ UNCHANGED terms

Next == \E s \in Suppliers, p \in Prices, t \in 0..MaxTime : Evaluate(s, p, t)

Spec == Init /\ [][Next]_vars

----------------------------------------------------------------------------
Asked    == asked.bid.id # 0
Extended == answer # terms.close

(* What makes an extension possible at all: the bid falls in the trigger    *)
(* window and the forced close still leaves room for one.                   *)
Possible ==
    /\ terms.close - asked.now <= terms.window * Minute
    /\ terms.close < terms.forced
    /\ terms.ext > 0

(* Under L1_CHANGE (auction_service.go:40-50) a bid extends the auction     *)
(* exactly when the market's lowest price drops, or there was none: the     *)
(* head of the leaderboard really is the market's best price.               *)
L1RuleFollowsMarketBest ==
    Asked /\ terms.trigger = "L1_CHANGE" =>
        (Extended <=> Possible /\ \A b \in asked.bids : asked.bid.price < b.price)

(* A supplier's rows that are ahead of everything else it bid. *)
Standing(supplier) ==
    {b \in asked.bids : b.supplier = supplier /\
        \A c \in asked.bids : c.supplier = supplier => b = c \/ OrderedBefore(b, c)}

(* The new bid passes a rival's standing bid that was ahead of the          *)
(* supplier's own, or any rival when the supplier had no bid.               *)
Overtakes(rival) ==
    \E theirs \in Standing(rival) :
        /\ asked.bid.price < theirs.price
        /\ \A mine \in Standing(asked.bid.supplier) : OrderedBefore(theirs, mine)

(* Under RANK_CHANGE (auction_service.go:81-133) a bid extends the auction  *)
(* exactly when it is the first one or overtakes a rival.  The code decides *)
(* this by counting positions on two leaderboards, with ties and with       *)
(* several rows per supplier.                                               *)
RankRuleIsOvertaking ==
    Asked /\ terms.trigger = "RANK_CHANGE" =>
        (Extended <=>
            /\ Possible
            /\ \/ asked.bids = {}
               \/ \E r \in Suppliers \ {asked.bid.supplier} : Overtakes(r))

(* The audit columns (auction_service.go:59-72): an extension moves the     *)
(* close forward, never past the forced close, and the minutes logged are   *)
(* the agreed extension, or fewer only because the forced close cut it.     *)
LoggedMinutesMatchTheMove ==
    Extended =>
        LET mins == ExtendedMins(terms.close, answer)
        IN  /\ terms.close < answer /\ answer <= terms.forced
            /\ mins * Minute <= answer - terms.close
            /\ mins # terms.ext => mins < terms.ext /\ answer = terms.forced

----------------------------------------------------------------------------
(* What the properties rest on: the last answer is the rule's for the last  *)
(* question, which was about a ledger of rows with an id each.              *)

Ledger(rows) ==
    /\ IsFiniteSet(rows)
    /\ rows \subseteq [id : Nat, supplier : Suppliers, price : Prices]
    /\ \A x, y \in rows : x.id = y.id => x = y

AnswersTheRule ==
    /\ asked.bid \in [id : Nat, supplier : Suppliers, price : Prices]
    /\ asked.now \in Nat
    /\ answer = CloseAfter(terms.close, terms, asked.bid, Leaderboard(asked.bids), asked.now)

RuleInv ==
    /\ terms \in Terms
    /\ Ledger(bids) /\ \A b \in bids : b.id <= Cardinality(bids)
    /\ Ledger(asked.bids)
    /\ IF Asked THEN AnswersTheRule ELSE answer = terms.close

----------------------------------------------------------------------------
(* The Node backend asked the same question. *)

NodeAnswers == NodeCloses(terms.close, terms, asked.bid, asked.bids, asked.now)

(* The two backends agree on ANY_BID and L1_CHANGE (auction.service.ts:31,  *)
(* 36-57 and auction_service.go:28-50): whatever order groupBy leaves       *)
(* suppliers at one price in, the Node backend has one answer, and it is    *)
(* Go's, to the capped close time.                                          *)
BackendsAgreeOnPrice ==
    Asked /\ terms.trigger # "RANK_CHANGE" => NodeAnswers = {answer}

(* A rival whose lowest price the bid undercuts and that was ahead of the   *)
(* supplier, or level with it, or the supplier had no bid.                  *)
NodeOvertakes(rival, ahead(_, _)) ==
    \E theirs \in BestRows(asked.bids) :
        /\ theirs.supplier = rival
        /\ asked.bid.price < theirs.price
        /\ \A mine \in BestRows(asked.bids) :
              mine.supplier = asked.bid.supplier => ahead(theirs.price, mine.price)

(* RANK_CHANGE in Node (auction.service.ts:58-83): a bid that undercuts a   *)
(* rival strictly ahead of its supplier always extends; one that undercuts  *)
(* nobody ahead or level never does, the first bid of an auction included;  *)
(* the order of ties decides only what is left.                             *)
NodeRankRuleIsOvertaking ==
    Asked /\ terms.trigger = "RANK_CHANGE" /\ Possible =>
        LET rivals == Suppliers \ {asked.bid.supplier}
        IN  /\ (\E r \in rivals : NodeOvertakes(r, <)) => terms.close \notin NodeAnswers
            /\ (\A r \in rivals : ~NodeOvertakes(r, <=)) => NodeAnswers = {terms.close}
============================================================================
