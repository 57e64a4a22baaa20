------------------------- MODULE NodeExtensionRules -------------------------
(***************************************************************************)
(* The extension rules as the Node backend evaluates them:                  *)
(* evaluateExtension in backend-node-deprecated/src/services/               *)
(* auction.service.ts.  Terms, bids and clock are those of ExtensionRules;  *)
(* an RFQ also has a `start`, before which no bid is taken.                 *)
(*                                                                          *)
(* groupBy returns its groups in no particular order and the sort that      *)
(* follows is stable and compares prices alone, so suppliers at one price   *)
(* stand in any order: there is a set of boards, and of answers.            *)
(***************************************************************************)
EXTENDS ExtensionRules

(* The boards the query and the sort may give: the lowest price of each     *)
(* supplier, cheapest first.                                                *)
NodeBoards(bids) ==
    LET entries == {[supplier |-> b.supplier, price |-> b.price] : b \in BestRows(bids)}
    IN  {s \in SetToSeqs(entries) :
            \A i, j \in DOMAIN s : i < j => s[i].price <= s[j].price}

(* The place of the supplier once its entry has the lower price, or was     *)
(* appended, and the board is sorted again: it passes strictly higher       *)
(* prices only, and keeps its place among equal ones.                       *)
PlaceAfter(bid, board) ==
    LET old    == RankOn(board, bid.supplier)
        rivals == {j \in DOMAIN board : board[j].supplier # bid.supplier}
        mine   == IF old # 0 /\ board[old].price < bid.price
                  THEN board[old].price ELSE bid.price
    IN  1 + Cardinality({j \in rivals : \/ board[j].price < mine
                                        \/ board[j].price = mine /\ (old = 0 \/ j < old)})

(* RANK_CHANGE: a newcomer that is not last, or a supplier that moved up.   *)
NodeRankChanged(bid, board) ==
    LET old == RankOn(board, bid.supplier)
    IN  IF old = 0 THEN PlaceAfter(bid, board) < Len(board) + 1
                   ELSE PlaceAfter(bid, board) < old

(* Mutant: the first bid counts as a change of ranks, as it does in Go. *)
NodeTriggeredByFirst(trigger, bid, board) ==
    \/ trigger = "ANY_BID"
    \/ trigger = "L1_CHANGE"   /\ L1Changed(bid, board)
    \/ trigger = "RANK_CHANGE" /\ (board = <<>> \/ NodeRankChanged(bid, board))

(* Mutant: the head of the board is taken before it is sorted. *)
NodeTriggeredByTies(trigger, bid, board) ==
    \/ trigger = "ANY_BID"
    \/ trigger = "L1_CHANGE"   /\ (board = <<>> \/ bid.price <= Head(board).price)
    \/ trigger = "RANK_CHANGE" /\ NodeRankChanged(bid, board)

NodeTriggered(trigger, bid, board) ==
    \/ trigger = "ANY_BID"
    \/ trigger = "L1_CHANGE"   /\ L1Changed(bid, board)
    \/ trigger = "RANK_CHANGE" /\ NodeRankChanged(bid, board)

(* Mutant: the close time is left to the worker. *)
InAuctionOnceStarted(close, terms, at) == terms.start <= at

(* Bids are refused before the start and after the close time read.         *)
InAuctionTime(close, terms, at) == terms.start <= at /\ at <= close

(* The close times a bid stamped `at` may leave behind. *)
NodeCloses(close, terms, bid, bids, at) ==
    {IF /\ InTriggerWindow(close, terms, at)
        /\ NodeTriggered(terms.trigger, bid, board)
        /\ ExtendedClose(close, terms) > close
     THEN ExtendedClose(close, terms) ELSE close : board \in NodeBoards(bids)}

(* Math.round of the minutes the close moved: halves go up. *)
NodeMins(prev, new) == (2 * (new - prev) + Minute) \div (2 * Minute)
=============================================================================
