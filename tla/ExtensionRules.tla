--------------------------- MODULE ExtensionRules ---------------------------
(***************************************************************************)
(* The extension rules of a British auction, as the Go service evaluates   *)
(* them for every bid: AuctionService.EvaluateExtension                     *)
(* (backend/internal/service/auction_service.go) over the leaderboard that  *)
(* BidRepository.GetLeaderboardTx returns.                                  *)
(*                                                                          *)
(* Pure operators, no state.  A time is a number of clock ticks, a minute   *)
(* is Minute ticks.  An RFQ's terms are the record                          *)
(*   [close, forced : ticks, window, ext : minutes, trigger : TriggerType]  *)
(* and a bid row is [id, supplier, price, client].  Rows get their id and   *)
(* their timestamp at the same insert, so id stands for both.               *)
(***************************************************************************)
EXTENDS Ordering, SequencesExt

CONSTANT Minute        \* clock ticks in a minute

ASSUME MinuteAssumption == Minute \in Nat \ {0}

TriggerType == {"ANY_BID", "L1_CHANGE", "RANK_CHANGE"}

----------------------------------------------------------------------------
(* The leaderboard: the row(s) at each supplier's lowest price, ordered by  *)
(* price and then timestamp.  Two rows of one supplier at the same minimum  *)
(* both appear, as they do in the query's join.                             *)

OrderedBefore(a, b) ==
    \/ a.price < b.price
    \/ a.price = b.price /\ a.id < b.id

BestRows(bids) ==
    {b \in bids : \A c \in bids : c.supplier = b.supplier => b.price <= c.price}

(* Mutant: the query loses its ORDER BY price. *)
LeaderboardByTime(bids) == InOrder(BestRows(bids), LAMBDA a, b : a.id < b.id)

Leaderboard(bids) == InOrder(BestRows(bids), OrderedBefore)

----------------------------------------------------------------------------
(* The RANK_CHANGE rule.                                                    *)

(* Position of the supplier's first row, 0 when it has none. *)
RankOn(board, supplier) ==
    SelectInSeq(board, LAMBDA b : b.supplier = supplier)

(* The board without the supplier's rows. *)
Rivals(board, supplier) ==
    RowsAt(board, {i \in DOMAIN board : board[i].supplier # supplier})

(* Mutant: a tie counts as undercutting. *)
BoardWithTiesWon(bid, board) ==
    LET rivals == Rivals(board, bid.supplier)
        beaten == SelectInSeq(rivals, LAMBDA b : bid.price <= b.price)
    IN  IF beaten = 0 THEN Append(rivals, bid) ELSE InsertAt(rivals, beaten, bid)

(* The board as it would be: the supplier's rows replaced by the new bid,   *)
(* put before the first rival it undercuts strictly, last if there is none. *)
BoardWith(bid, board) ==
    LET rivals == Rivals(board, bid.supplier)
        beaten == SelectInSeq(rivals, LAMBDA b : bid.price < b.price)
    IN  IF beaten = 0 THEN Append(rivals, bid) ELSE InsertAt(rivals, beaten, bid)

RankChanged(bid, board) ==
    LET oldRank  == RankOn(board, bid.supplier)
        newBoard == BoardWith(bid, board)
        newRank  == RankOn(newBoard, bid.supplier)
    IN  \/ board = <<>>
        \/ oldRank = 0 /\ newRank < Len(newBoard)
        \/ oldRank # 0 /\ newRank < oldRank

L1Changed(bid, board) ==
    board = <<>> \/ bid.price < Head(board).price

Triggered(trigger, bid, board) ==
    \/ trigger = "ANY_BID"
    \/ trigger = "L1_CHANGE"   /\ L1Changed(bid, board)
    \/ trigger = "RANK_CHANGE" /\ RankChanged(bid, board)

----------------------------------------------------------------------------
(* The clock side of the rule.  close is the close time of the row the      *)
(* transaction read; the other columns never change after creation.         *)

InTriggerWindow(close, terms, now) == now >= close - terms.window * Minute

(* Mutant: the drop-dead time is not enforced. *)
ExtendedCloseUncapped(close, terms) == close + terms.ext * Minute

(* close + extension, never later than the forced close. *)
ExtendedClose(close, terms) ==
    LET wanted == close + terms.ext * Minute
    IN  IF wanted > terms.forced THEN terms.forced ELSE wanted

Extends(close, terms, bid, board, now) ==
    /\ InTriggerWindow(close, terms, now)
    /\ Triggered(terms.trigger, bid, board)
    /\ ExtendedClose(close, terms) > close

(* The close time a bid leaves behind: its extension's, or the one it read. *)
CloseAfter(close, terms, bid, board, now) ==
    IF Extends(close, terms, bid, board, now)
    THEN ExtendedClose(close, terms) ELSE close

(* Whole minutes the close moved, as int(d.Minutes()) truncates them. *)
ExtendedMins(prev, new) == (new - prev) \div Minute
============================================================================
