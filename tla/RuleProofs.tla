----------------------------- MODULE RuleProofs -----------------------------
(***************************************************************************)
(* Proofs about the extension rules: what they answer, for every ledger of  *)
(* any length with any ties, every price, every terms.                      *)
(***************************************************************************)
EXTENDS RuleCheck, OrderingProofs

----------------------------------------------------------------------------
(* The leaderboard. *)

(* The query's order, as a relation on the rows. *)
RowOrder(rows) == {p \in rows \X rows : OrderedBefore(p[1], p[2])}

(* Price and timestamp order the rows of a ledger.                          *)
LEMMA RowsAreOrdered ==
    ASSUME NEW rows, Ledger(rows), NEW S \in SUBSET rows
    PROVE  /\ Orders(RowOrder(S), S)
           /\ IsFiniteSet(S)
           /\ \A x, y \in S : <<x, y>> \in RowOrder(S) <=> OrderedBefore(x, y)
<1>1. \A x \in S : x.id \in Nat /\ x.price \in Nat
  BY RuleCheckAssumption DEF Ledger
<1>2. \A x, y \in S : x.id = y.id => x = y
  BY DEF Ledger
<1>3. \A x, y \in S : <<x, y>> \in RowOrder(S) <=> OrderedBefore(x, y)
  BY DEF RowOrder
<1>4. /\ \A x \in S : ~OrderedBefore(x, x)
      /\ \A x, y, z \in S : OrderedBefore(x, y) /\ OrderedBefore(y, z) => OrderedBefore(x, z)
      /\ \A x, y \in S : x = y \/ OrderedBefore(x, y) \/ OrderedBefore(y, x)
  BY <1>1, <1>2 DEF OrderedBefore
<1>5. Orders(RowOrder(S), S)
  BY <1>3, <1>4 DEF Orders
<1>6. IsFiniteSet(S)
  BY FS_Subset DEF Ledger
<1> QED
  BY <1>3, <1>5, <1>6

(* The leaderboard lists the best rows, in the query's order. *)
LEMMA LeaderboardLists ==
    ASSUME NEW rows, Ledger(rows)
    PROVE  LET s == Leaderboard(rows)
               n == Cardinality(BestRows(rows))
           IN  /\ n \in Nat /\ Len(s) = n /\ DOMAIN s = 1..n
               /\ s \in [1..n -> BestRows(rows)] /\ s \in Seq(BestRows(rows))
               /\ \A i, j \in 1..n : i < j <=> OrderedBefore(s[i], s[j])
               /\ \A x \in BestRows(rows) : \E i \in 1..n : s[i] = x
<1> DEFINE S == BestRows(rows)
           R == RowOrder(S)
           n == Cardinality(S)
           s == Leaderboard(rows)
<1>1. S \in SUBSET rows
  BY DEF BestRows
<1>2. /\ Orders(R, S) /\ IsFiniteSet(S)
      /\ \A x, y \in S : <<x, y>> \in R <=> OrderedBefore(x, y)
  BY <1>1, RowsAreOrdered
<1>3. \A x \in S : Preceding(R, S, x) = {y \in S : OrderedBefore(y, x)}
  BY <1>2 DEF Preceding
<1>4. n \in Nat /\ \A k \in 0..n - 1 : \E x \in S : Cardinality(Preceding(R, S, x)) = k
  BY <1>2, Places
<1>5. s = [i \in 1..n |->
             CHOOSE x \in S : Cardinality({y \in S : OrderedBefore(y, x)}) = i - 1]
  BY DEF Leaderboard, InOrder
<1>6. \A i \in 1..n : s[i] \in S /\ Cardinality(Preceding(R, S, s[i])) = i - 1
  <2>1. TAKE i \in 1..n
  <2>2. i - 1 \in 0..n - 1
    BY <1>4
  <2>3. \E x \in S : Cardinality({y \in S : OrderedBefore(y, x)}) = i - 1
    BY <1>3, <1>4, <2>2
  <2>4. s[i] = CHOOSE x \in S : Cardinality({y \in S : OrderedBefore(y, x)}) = i - 1
    BY <1>5
  <2> HIDE DEF s, S
  <2>5. s[i] \in S /\ Cardinality({y \in S : OrderedBefore(y, s[i])}) = i - 1
    BY <2>3, <2>4
  <2> QED
    BY <1>3, <2>5
<1>7. s \in [1..n -> S]
  <2> HIDE DEF n, S
  <2> QED
    BY <1>5, <1>6
<1>8. Lists(s, S, R)
  BY <1>2, <1>6, <1>7, ListsInOrder
<1>9. \A i, j \in 1..n : i < j <=> OrderedBefore(s[i], s[j])
  <2> HIDE DEF s, S, n, R
  <2> QED
    BY <1>2, <1>7, <1>8 DEF Lists
<1> QED
  BY <1>4, <1>7, <1>8, <1>9, ListIsSeq DEF Lists

(* Every supplier with a bid has a row at its lowest price. *)
LEMMA BestRowExists ==
    ASSUME NEW rows, Ledger(rows), NEW b \in rows
    PROVE  \E c \in BestRows(rows) : c.supplier = b.supplier /\ c.price <= b.price
<1> DEFINE mine   == {c \in rows : c.supplier = b.supplier}
           prices == {c.price : c \in mine}
<1>1. prices \in SUBSET Nat /\ b.price \in prices
  BY RuleCheckAssumption DEF Ledger
<1>2. PICK c \in mine : \A p \in prices : c.price <= p
  BY <1>1, LeastOf
<1>3. c \in BestRows(rows)
  BY <1>2 DEF BestRows
<1> QED
  BY <1>1, <1>2, <1>3

(* Undercutting the head of the board is undercutting the whole market.     *)
LEMMA HeadIsMarketBest ==
    ASSUME NEW rows, Ledger(rows), NEW bid, bid.price \in Nat
    PROVE  L1Changed(bid, Leaderboard(rows)) <=> \A b \in rows : bid.price < b.price
<1> DEFINE S == BestRows(rows)
           n == Cardinality(S)
           s == Leaderboard(rows)
<1>1. /\ n \in Nat /\ s \in [1..n -> S]
      /\ \A i, j \in 1..n : i < j <=> OrderedBefore(s[i], s[j])
      /\ \A x \in S : \E i \in 1..n : s[i] = x
  BY LeaderboardLists
<1>2. s \in Seq(S) /\ Len(s) = n
  BY LeaderboardLists
<1>3. S \subseteq rows /\ \A x \in rows : x.price \in Nat
  BY RuleCheckAssumption DEF BestRows, Ledger
<1>4. CASE n = 0
  <2>1. s = <<>>
    BY <1>2, <1>4, EmptySeq
  <2>2. rows = {}
    BY <1>1, <1>4, BestRowExists
  <2> QED
    BY <2>1, <2>2 DEF L1Changed
<1>5. CASE n # 0
  <2>1. s # <<>> /\ Head(s) = s[1] /\ 1 \in 1..n
    <3> HIDE DEF s, n, S
    <3> QED
      BY <1>1, <1>2, <1>5, EmptySeq
  <2>2. s[1] \in S
    BY <1>1, <2>1
  <2>3. \A x \in S : s[1].price <= x.price
    <3>1. TAKE x \in S
    <3>2. PICK i \in 1..n : s[i] = x
      BY <1>1
    <3>3. i = 1 \/ OrderedBefore(s[1], x)
      BY <1>1, <2>1, <3>2
    <3>4. s[1].price \in Nat /\ x.price \in Nat
      BY <1>3, <2>2
    <3>5. s[1] = x \/ OrderedBefore(s[1], x)
      BY <3>2, <3>3
    <3> QED
      BY <3>4, <3>5 DEF OrderedBefore
  <2>4. \A b \in rows : s[1].price <= b.price
    BY <1>3, <2>2, <2>3, BestRowExists
  <2> QED
    BY <1>3, <2>1, <2>2, <2>4 DEF L1Changed
<1> QED
  BY <1>4, <1>5

----------------------------------------------------------------------------
(* The clock side of the rules. *)

(* Minutes as ticks, and back. *)
LEMMA Minutes ==
    ASSUME NEW m \in Nat
    PROVE  /\ m * Minute \in Nat
           /\ m * Minute > 0 <=> m > 0
           /\ \A k \in Nat : k * Minute < m * Minute => k < m
<1>1. m * Minute \in Nat /\ (m * Minute > 0 <=> m > 0)
  BY MinuteAssumption, Z3
<1>2. ASSUME NEW k \in Nat, m <= k PROVE m * Minute <= k * Minute
  <2>1. PICK d \in Nat : k = m + d
    <3>1. k - m \in Nat /\ k = m + (k - m)
      BY <1>2
    <3> QED
      BY <3>1
  <2>2. (m + d) * Minute = m * Minute + d * Minute /\ d * Minute \in Nat /\ m * Minute \in Nat
    BY MinuteAssumption, Z3
  <2> QED
    BY <2>1, <2>2
<1>3. \A k \in Nat : k * Minute \in Nat
  BY MinuteAssumption, Z3
<1> QED
  BY <1>1, <1>2, <1>3

(* The whole minutes of a time. *)
LEMMA WholeMinutes ==
    ASSUME NEW d \in Nat
    PROVE  /\ d \div Minute \in Nat
           /\ (d \div Minute) * Minute <= d
           /\ \A m \in Nat : d = m * Minute => d \div Minute = m
<1>1. d \div Minute \in Nat
  BY MinuteAssumption, Z3
<1>2. (d \div Minute) * Minute <= d
  BY MinuteAssumption, Z3
<1>3. \A m \in Nat : d = m * Minute => d \div Minute = m
  BY MinuteAssumption, Z3
<1> QED
  BY <1>1, <1>2, <1>3

(* An extension moves the close time exactly when the terms leave room.     *)
LEMMA ExtensionMoves ==
    ASSUME NEW t \in Terms
    PROVE  LET new == ExtendedClose(t.close, t)
           IN  /\ {t.close, t.forced, t.window, t.ext, new} \subseteq Nat
               /\ new > t.close <=> t.close < t.forced /\ t.ext > 0
               /\ new > t.close => new <= t.forced
               /\ \/ new = t.close + t.ext * Minute
                  \/ new = t.forced /\ t.forced < t.close + t.ext * Minute
<1>1. {t.close, t.forced, t.window, t.ext} \subseteq Nat
  BY RuleCheckAssumption
<1>2. t.ext * Minute \in Nat /\ (t.ext * Minute > 0 <=> t.ext > 0)
  BY <1>1, Minutes
<1> DEFINE e == t.ext * Minute
<1>3. ExtendedClose(t.close, t) = IF t.close + e > t.forced THEN t.forced ELSE t.close + e
  BY DEF ExtendedClose
<1> HIDE DEF e
<1> QED
  BY <1>1, <1>2, <1>3 DEF e

(* Where an extension is possible. *)
LEMMA PossibleIs ==
    ASSUME RuleInv, Asked
    PROVE  LET new == ExtendedClose(terms.close, terms)
           IN  /\ Possible <=> InTriggerWindow(terms.close, terms, asked.now) /\ new > terms.close
               /\ Possible => new # terms.close
<1>1. terms \in Terms /\ asked.now \in Nat
  BY DEF RuleInv, AnswersTheRule
<1>2. {terms.close, terms.forced, terms.window, ExtendedClose(terms.close, terms)} \subseteq Nat
  BY <1>1, ExtensionMoves
<1>3. ExtendedClose(terms.close, terms) > terms.close <=> terms.close < terms.forced /\ terms.ext > 0
  BY <1>1, ExtensionMoves
<1>4. InTriggerWindow(terms.close, terms, asked.now)
         <=> terms.close - asked.now <= terms.window * Minute
  <2> DEFINE w == terms.window * Minute
  <2>1. InTriggerWindow(terms.close, terms, asked.now) <=> asked.now >= terms.close - w
    BY DEF InTriggerWindow
  <2>2. w \in Nat
    BY <1>2, Minutes
  <2> HIDE DEF w
  <2>3. asked.now >= terms.close - w <=> terms.close - asked.now <= w
    BY <1>1, <1>2, <2>2
  <2> QED
    BY <2>1, <2>3 DEF w
<1> QED
  BY <1>2, <1>3, <1>4 DEF Possible

(* A bid extends the auction when its rule fires where an extension is      *)
(* possible; otherwise the close time stays.                                *)
LEMMA Answered ==
    ASSUME RuleInv, Asked
    PROVE  /\ Extended <=> Possible /\ Triggered(terms.trigger, asked.bid, Leaderboard(asked.bids))
           /\ answer = IF Extended THEN ExtendedClose(terms.close, terms) ELSE terms.close
<1> DEFINE board == Leaderboard(asked.bids)
           fires == Triggered(terms.trigger, asked.bid, board)
<1>1. answer = CloseAfter(terms.close, terms, asked.bid, board, asked.now)
  BY DEF RuleInv, AnswersTheRule
<1>2. Extends(terms.close, terms, asked.bid, board, asked.now) <=> Possible /\ fires
  BY PossibleIs DEF Extends
<1>3. answer = IF Possible /\ fires THEN ExtendedClose(terms.close, terms) ELSE terms.close
  BY <1>1, <1>2 DEF CloseAfter
<1> QED
  BY <1>3, PossibleIs DEF Extended

----------------------------------------------------------------------------
(* The invariant. *)

(* No bid has been asked about yet. *)
LEMMA RuleInvInit == Init => RuleInv
<1> SUFFICES ASSUME Init PROVE RuleInv
  OBVIOUS
<1>1. Ledger({})
  BY FS_EmptySet DEF Ledger
<1> QED
  BY <1>1 DEF Init, Nothing, RuleInv, Asked

(* The ledger gives each row an id of its own, and the answer kept is the   *)
(* rule's for the ledger before the bid.                                    *)
LEMMA RuleInvStep == RuleInv /\ [Next]_vars => RuleInv'
<1> SUFFICES ASSUME RuleInv, [Next]_vars PROVE RuleInv'
  OBVIOUS
<1>1. CASE UNCHANGED vars
  BY <1>1 DEF vars, RuleInv, Ledger, Asked, AnswersTheRule
<1>2. ASSUME NEW s \in Suppliers, NEW p \in Prices, NEW t \in 0..MaxTime, Evaluate(s, p, t)
      PROVE  RuleInv'
  <2> DEFINE n   == Cardinality(bids)
             bid == [id |-> n + 1, supplier |-> s, price |-> p]
  <2>1. /\ asked' = [bids |-> bids, bid |-> bid, now |-> t]
        /\ answer' = CloseAfter(terms.close, terms, bid, Leaderboard(bids), t)
        /\ bids' = bids \cup {bid} /\ terms' = terms
    BY <1>2 DEF Evaluate
  <2>2. /\ terms \in Terms /\ IsFiniteSet(bids)
        /\ bids \subseteq [id : Nat, supplier : Suppliers, price : Prices]
        /\ \A x, y \in bids : x.id = y.id => x = y
        /\ \A b \in bids : b.id <= n
    BY DEF RuleInv, Ledger
  <2>3. n \in Nat
    BY <2>2, FS_CardinalityType
  <2>4. \A b \in bids : b.id # n + 1
    BY <2>2, <2>3
  <2>5. IsFiniteSet(bids') /\ Cardinality(bids') = n + 1
    BY <2>1, <2>2, <2>4, FS_AddElement
  <2>6. bid \in [id : Nat, supplier : Suppliers, price : Prices] /\ bid.id = n + 1
    BY <2>3
  <2>7. /\ bids' \subseteq [id : Nat, supplier : Suppliers, price : Prices]
        /\ \A x, y \in bids' : x.id = y.id => x = y
        /\ \A b \in bids' : b.id <= n + 1
    <3> HIDE DEF bid
    <3> QED
      BY <2>1, <2>2, <2>3, <2>4, <2>6
  <2>8. Ledger(bids') /\ \A b \in bids' : b.id <= Cardinality(bids')
    BY <2>5, <2>7 DEF Ledger
  <2>9. asked'.bids = bids /\ asked'.bid = bid /\ asked'.now = t /\ t \in Nat
    BY <2>1, RuleCheckAssumption
  <2>10. Asked' /\ AnswersTheRule'
    <3> HIDE DEF bid
    <3> QED
      BY <2>1, <2>3, <2>6, <2>9 DEF Asked, AnswersTheRule
  <2>11. Ledger(asked'.bids)
    BY <2>9 DEF RuleInv
  <2> QED
    BY <2>1, <2>2, <2>8, <2>10, <2>11 DEF RuleInv
<1> QED
  BY <1>1, <1>2 DEF Next

(* The rules are asked about ledgers, and answer as they are written. *)
THEOREM RuleInvariance == Spec => []RuleInv
BY RuleInvInit, RuleInvStep, PTL DEF Spec

(* L1_CHANGE (auction_service.go:40-50), for every ledger a service may     *)
(* leave, ties and bids that do not improve among it, every price and every *)
(* terms: it extends the auction exactly when the market's best price drops. *)
THEOREM L1RuleIsRight == Spec => []L1RuleFollowsMarketBest
<1>1. ASSUME RuleInv PROVE L1RuleFollowsMarketBest
  <2>1. SUFFICES ASSUME Asked, terms.trigger = "L1_CHANGE"
                 PROVE  Extended <=> Possible /\ \A b \in asked.bids : asked.bid.price < b.price
    BY DEF L1RuleFollowsMarketBest
  <2>2. asked.bid.price \in Nat /\ Ledger(asked.bids)
    BY <1>1, <2>1, RuleCheckAssumption DEF RuleInv, AnswersTheRule
  <2>3. Triggered(terms.trigger, asked.bid, Leaderboard(asked.bids))
           <=> L1Changed(asked.bid, Leaderboard(asked.bids))
    BY <2>1 DEF Triggered
  <2> QED
    BY <1>1, <2>1, <2>2, <2>3, Answered, HeadIsMarketBest
<1> QED
  BY <1>1, RuleInvariance, PTL

(* The audit columns (auction_service.go:59-72), for every terms and every  *)
(* length of a minute.                                                      *)
THEOREM LoggedMinutesAreRight == Spec => []LoggedMinutesMatchTheMove
<1>1. ASSUME RuleInv PROVE LoggedMinutesMatchTheMove
  <2> DEFINE moved == answer - terms.close
             mins  == moved \div Minute
  <2>1. SUFFICES ASSUME Extended
                 PROVE  /\ terms.close < answer /\ answer <= terms.forced
                        /\ mins * Minute <= moved
                        /\ mins # terms.ext => mins < terms.ext /\ answer = terms.forced
    BY DEF LoggedMinutesMatchTheMove, ExtendedMins
  <2>2. Asked
    BY <1>1, <2>1 DEF RuleInv, Extended
  <2>3. terms \in Terms /\ answer = ExtendedClose(terms.close, terms) /\ Possible
    BY <1>1, <2>1, <2>2, Answered DEF RuleInv
  <2>4. /\ {terms.close, terms.forced, terms.ext, answer} \subseteq Nat
        /\ terms.close < answer /\ answer <= terms.forced
        /\ \/ answer = terms.close + terms.ext * Minute
           \/ answer = terms.forced /\ terms.forced < terms.close + terms.ext * Minute
    BY <2>3, ExtensionMoves DEF Possible
  <2>5. moved \in Nat /\ terms.ext * Minute \in Nat
    BY <2>4, Minutes
  <2>6. /\ mins \in Nat /\ mins * Minute <= moved /\ mins * Minute \in Nat
        /\ moved = terms.ext * Minute => mins = terms.ext
    BY <2>4, <2>5, WholeMinutes, Minutes
  <2>7. CASE moved = terms.ext * Minute
    BY <2>4, <2>6, <2>7
  <2>8. CASE answer = terms.forced /\ moved < terms.ext * Minute
    <3>1. mins * Minute < terms.ext * Minute
      BY <2>5, <2>6, <2>8
    <3>2. mins < terms.ext
      BY <2>4, <2>6, <3>1, Minutes
    <3> QED
      BY <2>4, <2>6, <2>8, <3>2
  <2>9. moved = terms.ext * Minute \/ (answer = terms.forced /\ moved < terms.ext * Minute)
    <3> DEFINE e == terms.ext * Minute
    <3> HIDE DEF e
    <3>1. e \in Nat
      BY <2>5 DEF e
    <3>2. answer = terms.close + e \/ (answer = terms.forced /\ terms.forced < terms.close + e)
      BY <2>4 DEF e
    <3>3. moved = e \/ (answer = terms.forced /\ moved < e)
      BY <2>4, <3>1, <3>2
    <3> QED
      BY <3>3 DEF e
  <2> QED
    BY <2>7, <2>8, <2>9
<1> QED
  BY <1>1, RuleInvariance, PTL

----------------------------------------------------------------------------
(* The Node backend's boards. *)

(* What the Node backend keeps of the best rows: a price per supplier. *)
Entries(rows) == {[supplier |-> b.supplier, price |-> b.price] : b \in BestRows(rows)}

(* A Node board lists the entries, cheapest first.                          *)
NodeLists(board, rows) ==
    LET n == Cardinality(Entries(rows))
    IN  /\ n \in Nat /\ Len(board) = n /\ DOMAIN board = 1..n
        /\ board \in [1..n -> Entries(rows)] /\ board \in Seq(Entries(rows))
        /\ \A i, j \in 1..n : i < j => board[i].price <= board[j].price
        /\ \A i, j \in 1..n : board[i].supplier = board[j].supplier => i = j
        /\ \A e \in Entries(rows) : \E i \in 1..n : board[i] = e

(* The entries are rows without their ids: one of each supplier, at its     *)
(* lowest price.                                                            *)
LEMMA EntriesAre ==
    ASSUME NEW rows, Ledger(rows)
    PROVE  /\ IsFiniteSet(Entries(rows))
           /\ \A e \in Entries(rows) : e.supplier \in Suppliers /\ e.price \in Nat
           /\ \A e, f \in Entries(rows) : e.supplier = f.supplier => e = f
           /\ \A b \in BestRows(rows) : \E e \in Entries(rows) :
                 e.supplier = b.supplier /\ e.price = b.price
           /\ \A e \in Entries(rows) : \E b \in BestRows(rows) :
                 e.supplier = b.supplier /\ e.price = b.price
<1> DEFINE S == BestRows(rows)
           entry(b) == [supplier |-> b.supplier, price |-> b.price]
           f == [b \in S |-> entry(b)]
<1>1. S \in SUBSET rows /\ IsFiniteSet(S)
  BY FS_Subset DEF BestRows, Ledger
<1>2. IsFiniteSet(Entries(rows))
  <2>1. f \in Surjection(S, Entries(rows))
    BY DEF Entries, Surjection
  <2> QED
    BY <1>1, <2>1, FS_Surjection
<1>3. \A b \in S : b.supplier \in Suppliers /\ b.price \in Nat
  BY <1>1, RuleCheckAssumption DEF Ledger
<1>4. \A b, c \in S : b.supplier = c.supplier => b.price = c.price
  BY <1>1, <1>3 DEF BestRows
<1>5. \A b \in S : entry(b).supplier = b.supplier /\ entry(b).price = b.price
  OBVIOUS
<1>6. \A e \in Entries(rows) : \E b \in S : e = entry(b)
  BY DEF Entries
<1>7. \A b \in S : entry(b) \in Entries(rows)
  BY DEF Entries
<1>8. \A e, g \in Entries(rows) : e.supplier = g.supplier => e = g
  <2>1. TAKE e, g \in Entries(rows)
  <2>2. PICK b \in S, c \in S : e = entry(b) /\ g = entry(c)
    BY <1>6
  <2> QED
    BY <1>4, <1>5, <2>2
<1>9. \A e \in Entries(rows) : \E b \in S : e.supplier = b.supplier /\ e.price = b.price
  BY <1>5, <1>6
<1>10. \A b \in S : \E e \in Entries(rows) : e.supplier = b.supplier /\ e.price = b.price
  BY <1>5, <1>7
<1>11. \A e \in Entries(rows) : e.supplier \in Suppliers /\ e.price \in Nat
  BY <1>3, <1>9
<1> QED
  BY <1>2, <1>8, <1>9, <1>10, <1>11

(* Whatever order ties are left in, a board is such a list.                 *)
LEMMA NodeBoardsList ==
    ASSUME NEW rows, Ledger(rows), NEW board \in NodeBoards(rows)
    PROVE  NodeLists(board, rows)
<1> DEFINE E == Entries(rows)
           n == Cardinality(E)
<1>1. n \in Nat /\ IsFiniteSet(E)
  BY EntriesAre, FS_CardinalityType
<1>2. /\ board \in [1..n -> E]
      /\ \A i, j \in 1..n : i # j => board[i] # board[j]
      /\ \A i, j \in DOMAIN board : i < j => board[i].price <= board[j].price
  BY DEF NodeBoards, SetToSeqs, Entries
<1>3. board \in Seq(E) /\ Len(board) = n /\ DOMAIN board = 1..n
  BY <1>1, <1>2, ListIsSeq
<1>4. board \in Surjection(1..n, E)
  <2>1. board \in Injection(1..n, E)
    BY <1>2 DEF Injection, IsInjective
  <2>2. Cardinality(1..n) = n
    BY <1>1, FS_Interval
  <2> QED
    BY <1>1, <2>1, <2>2, FS_Injection
<1>5. \A i, j \in 1..n : board[i].supplier = board[j].supplier => i = j
  BY <1>2, EntriesAre
<1> QED
  BY <1>1, <1>2, <1>3, <1>4, <1>5 DEF NodeLists, Surjection

(* There is one. *)
LEMMA NodeBoardExists ==
    ASSUME NEW rows, Ledger(rows)
    PROVE  NodeBoards(rows) # {}
<1> DEFINE E == Entries(rows)
           n == Cardinality(E)
<1>1. n \in Nat /\ IsFiniteSet(E) /\ \A e \in E : e.price \in Nat
  BY EntriesAre, FS_CardinalityType
<1>2. PICK tie \in Bijection(E, 1..n) : TRUE
  <2>1. IsFiniteSet(1..n) /\ Cardinality(1..n) = n
    BY <1>1, FS_Interval
  <2> QED
    BY <1>1, <2>1, FS_SameCardinalityBij DEF ExistsBijection
<1>3. \A e \in E : tie[e] \in Nat
  BY <1>1 DEF Bijection, Injection
<1>4. \A e, f \in E : tie[e] = tie[f] => e = f
  BY DEF Bijection, Injection, IsInjective
<1> DEFINE before(e, f) == e.price < f.price \/ (e.price = f.price /\ tie[e] < tie[f])
           R == {p \in E \X E : before(p[1], p[2])}
<1>5. \A e, f \in E : <<e, f>> \in R <=> before(e, f)
  <2> HIDE DEF E
  <2> QED
    OBVIOUS
<1>6. Orders(R, E)
  <2>1. \A e \in E : ~before(e, e)
    BY <1>1, <1>3
  <2>2. \A e, f, g \in E : before(e, f) /\ before(f, g) => before(e, g)
    BY <1>1, <1>3
  <2>3. \A e, f \in E : e = f \/ before(e, f) \/ before(f, e)
    BY <1>1, <1>3, <1>4
  <2> HIDE DEF R, before, E
  <2> QED
    BY <1>5, <2>1, <2>2, <2>3 DEF Orders
<1>7. PICK s : Lists(s, E, R)
  BY <1>1, <1>6, Listable
<1>8. s \in [1..n -> E] /\ \A i, j \in 1..n : i < j <=> <<s[i], s[j]>> \in R
  BY <1>7 DEF Lists
<1>9. \A i, j \in 1..n : i < j => s[i].price <= s[j].price
  <2>1. TAKE i, j \in 1..n
  <2>2. HAVE i < j
  <2>3. s[i] \in E /\ s[j] \in E /\ <<s[i], s[j]>> \in R
    BY <1>8, <2>2
  <2>4. before(s[i], s[j])
    BY <1>5, <2>3
  <2> QED
    BY <1>1, <2>3, <2>4
<1>10. \A i, j \in 1..n : i # j => s[i] # s[j]
  <2>1. \A e \in E : <<e, e>> \notin R
    BY <1>6 DEF Orders
  <2>2. TAKE i, j \in 1..n
  <2>3. i = j \/ i < j \/ j < i
    BY <1>1
  <2> HIDE DEF R, E, n
  <2> QED
    BY <1>8, <2>1, <2>3
<1>11. DOMAIN s = 1..n
  BY <1>8
<1>12. s \in NodeBoards(rows)
  BY <1>8, <1>9, <1>10, <1>11 DEF NodeBoards, SetToSeqs, Entries
<1> QED
  BY <1>12

(* The head of a Node board, too, is the market's best price.               *)
LEMMA NodeHeadIsMarketBest ==
    ASSUME NEW rows, Ledger(rows), NEW board, NodeLists(board, rows),
           NEW bid, bid.price \in Nat
    PROVE  L1Changed(bid, board) <=> \A b \in rows : bid.price < b.price
<1> DEFINE E == Entries(rows)
           n == Cardinality(E)
<1>1. /\ n \in Nat /\ Len(board) = n /\ board \in [1..n -> E] /\ board \in Seq(E)
      /\ \A i, j \in 1..n : i < j => board[i].price <= board[j].price
      /\ \A e \in E : \E i \in 1..n : board[i] = e
  BY DEF NodeLists
<1>2. /\ \A e \in E : e.price \in Nat
      /\ \A b \in BestRows(rows) : \E e \in E : e.supplier = b.supplier /\ e.price = b.price
      /\ \A e \in E : \E b \in BestRows(rows) : e.supplier = b.supplier /\ e.price = b.price
  BY EntriesAre
<1>3. BestRows(rows) \subseteq rows /\ \A b \in rows : b.price \in Nat
  BY RuleCheckAssumption DEF BestRows, Ledger
<1>4. \A b \in rows : \E e \in E : e.price <= b.price
  <2>1. TAKE b \in rows
  <2>2. PICK c \in BestRows(rows) : c.price <= b.price
    BY BestRowExists
  <2> QED
    BY <1>2, <2>2
<1>5. CASE n = 0
  <2>1. board = <<>> /\ rows = {}
    BY <1>1, <1>4, <1>5, EmptySeq
  <2> QED
    BY <2>1 DEF L1Changed
<1>6. CASE n # 0
  <2>1. board # <<>> /\ Head(board) = board[1] /\ 1 \in 1..n
    <3> HIDE DEF n, E
    <3> QED
      BY <1>1, <1>6, EmptySeq
  <2>2. board[1] \in E
    BY <1>1, <2>1
  <2>3. \A e \in E : board[1].price <= e.price
    <3>1. TAKE e \in E
    <3>2. PICK i \in 1..n : board[i] = e
      BY <1>1
    <3>3. CASE i = 1
      BY <1>2, <3>2, <3>3
    <3>4. CASE i # 1
      BY <1>1, <2>1, <3>2, <3>4
    <3> QED
      BY <3>3, <3>4
  <2>4. \A b \in rows : board[1].price <= b.price
    BY <1>2, <1>3, <1>4, <2>2, <2>3
  <2>5. \E b \in rows : b.price = board[1].price
    BY <1>2, <1>3, <2>2
  <2> QED
    BY <1>2, <1>3, <2>1, <2>2, <2>4, <2>5 DEF L1Changed
<1> QED
  BY <1>5, <1>6

(* The answers of the Node backend, by the boards they come from.           *)
LEMMA NodeAnswered ==
    ASSUME RuleInv, Asked
    PROVE  /\ NodeBoards(asked.bids) # {}
           /\ \A board \in NodeBoards(asked.bids) : NodeLists(board, asked.bids)
           /\ NodeAnswers =
                 {IF Possible /\ NodeTriggered(terms.trigger, asked.bid, board)
                  THEN ExtendedClose(terms.close, terms) ELSE terms.close :
                    board \in NodeBoards(asked.bids)}
<1>1. Ledger(asked.bids)
  BY DEF RuleInv
<1>2. \A board : (/\ InTriggerWindow(terms.close, terms, asked.now)
                  /\ NodeTriggered(terms.trigger, asked.bid, board)
                  /\ ExtendedClose(terms.close, terms) > terms.close)
                 <=> Possible /\ NodeTriggered(terms.trigger, asked.bid, board)
  BY PossibleIs
<1>3. NodeAnswers =
         {IF Possible /\ NodeTriggered(terms.trigger, asked.bid, board)
          THEN ExtendedClose(terms.close, terms) ELSE terms.close :
            board \in NodeBoards(asked.bids)}
  BY <1>2 DEF NodeAnswers, NodeCloses
<1> QED
  BY <1>1, <1>3, NodeBoardExists, NodeBoardsList

(* Whatever order its database leaves ties in, the Node backend gives the   *)
(* one answer Go gives under ANY_BID and L1_CHANGE (auction.service.ts:31,  *)
(* 36-57, auction_service.go:28-50).                                        *)
THEOREM BackendsAgree == Spec => []BackendsAgreeOnPrice
<1>1. ASSUME RuleInv PROVE BackendsAgreeOnPrice
  <2>1. SUFFICES ASSUME Asked, terms.trigger # "RANK_CHANGE" PROVE NodeAnswers = {answer}
    BY DEF BackendsAgreeOnPrice
  <2>2. /\ terms.trigger \in TriggerType /\ asked.bid.price \in Nat /\ Ledger(asked.bids)
    BY <1>1, <2>1, RuleCheckAssumption DEF RuleInv, AnswersTheRule
  <2>3. \A board \in NodeBoards(asked.bids) :
           NodeTriggered(terms.trigger, asked.bid, board)
              <=> Triggered(terms.trigger, asked.bid, Leaderboard(asked.bids))
    <3>1. TAKE board \in NodeBoards(asked.bids)
    <3>2. NodeLists(board, asked.bids)
      BY <1>1, <2>1, NodeAnswered
    <3>3. L1Changed(asked.bid, board) <=> L1Changed(asked.bid, Leaderboard(asked.bids))
      BY <2>2, <3>2, HeadIsMarketBest, NodeHeadIsMarketBest
    <3> QED
      BY <2>1, <2>2, <3>3 DEF NodeTriggered, Triggered, TriggerType
  <2>4. \A board \in NodeBoards(asked.bids) :
           answer = IF Possible /\ NodeTriggered(terms.trigger, asked.bid, board)
                    THEN ExtendedClose(terms.close, terms) ELSE terms.close
    BY <1>1, <2>1, <2>3, Answered
  <2>5. NodeBoards(asked.bids) # {} /\
        NodeAnswers =
           {IF Possible /\ NodeTriggered(terms.trigger, asked.bid, board)
            THEN ExtendedClose(terms.close, terms) ELSE terms.close :
              board \in NodeBoards(asked.bids)}
    BY <1>1, <2>1, NodeAnswered
  <2> QED
    BY <2>4, <2>5
<1> QED
  BY <1>1, RuleInvariance, PTL

----------------------------------------------------------------------------
(* RANK_CHANGE in the Node backend. *)

(* The first place of a supplier. *)
LEMMA RankOnIs ==
    ASSUME NEW board, Len(board) \in Nat, NEW supplier
    PROVE  LET r == RankOn(board, supplier)
           IN  \/ r = 0 /\ \A i \in 1..Len(board) : board[i].supplier # supplier
               \/ /\ r \in 1..Len(board) /\ board[r].supplier = supplier
                  /\ \A i \in 1..Len(board) : board[i].supplier = supplier => r <= i
<1> DEFINE I == {i \in 1..Len(board) : board[i].supplier = supplier}
<1>1. RankOn(board, supplier) = IF I # {} THEN Min(I) ELSE 0
  BY DEF RankOn, SelectInSeq
<1>2. I \in SUBSET Nat
  OBVIOUS
<1>3. CASE I = {}
  BY <1>1, <1>3
<1>4. CASE I # {}
  <2>1. Min(I) \in I /\ \A i \in I : Min(I) <= i
    BY <1>2, <1>4, MinIs
  <2> QED
    BY <1>1, <1>4, <2>1
<1> QED
  BY <1>3, <1>4

(* The ranks change when the bid undercuts an entry that was ahead of its   *)
(* supplier's, or any entry when the supplier had none.                     *)
LEMMA NodeRanksByUndercutting ==
    ASSUME NEW rows, Ledger(rows), NEW board, NodeLists(board, rows),
           NEW bid, bid.price \in Nat
    PROVE  NodeRankChanged(bid, board) <=>
              \E j \in 1..Len(board) :
                 /\ bid.price < board[j].price
                 /\ board[j].supplier # bid.supplier
                 /\ \A i \in 1..Len(board) : board[i].supplier = bid.supplier => j < i
<1> DEFINE n   == Len(board)
           old == RankOn(board, bid.supplier)
           rivals == {j \in DOMAIN board : board[j].supplier # bid.supplier}
           mine == IF old # 0 /\ board[old].price < bid.price THEN board[old].price ELSE bid.price
           ahead == {j \in rivals : \/ board[j].price < mine
                                    \/ board[j].price = mine /\ (old = 0 \/ j < old)}
<1>1. /\ n \in Nat /\ DOMAIN board = 1..n
      /\ \A i \in 1..n : board[i].price \in Nat
      /\ \A i, j \in 1..n : i < j => board[i].price <= board[j].price
      /\ \A i, j \in 1..n : board[i].supplier = board[j].supplier => i = j
  BY EntriesAre DEF NodeLists
<1>2. PlaceAfter(bid, board) = 1 + Cardinality(ahead)
  BY DEF PlaceAfter
<1>3. IsFiniteSet(1..n) /\ Cardinality(1..n) = n
  <2>1. n \in Nat
    BY <1>1
  <2> HIDE DEF n
  <2> QED
    BY <2>1, FS_Interval
<1>4. ahead \in SUBSET (1..n)
  BY <1>1
<1>5. CASE old = 0
  <2>1. \A i \in 1..n : board[i].supplier # bid.supplier
    BY <1>1, <1>5, RankOnIs
  <2>2. ahead = {j \in 1..n : board[j].price <= bid.price}
    BY <1>1, <1>5, <2>1
  <2>3. Cardinality(ahead) \in Nat /\ Cardinality(ahead) <= n /\ (Cardinality(ahead) = n <=> ahead = 1..n)
    <3> HIDE DEF ahead, n
    <3> QED
      BY <1>3, <1>4, FS_Subset, FS_CardinalityType
  <2>4. NodeRankChanged(bid, board) <=> ahead # 1..n
    <3> HIDE DEF ahead
    <3> QED
      BY <1>1, <1>2, <1>5, <2>3 DEF NodeRankChanged
  <2>5. ahead # 1..n <=> \E j \in 1..n : bid.price < board[j].price
    BY <1>1, <2>2
  <2> QED
    BY <2>1, <2>4, <2>5
<1>6. CASE old # 0
  <2>1. old \in 1..n /\ board[old].supplier = bid.supplier
    BY <1>1, <1>6, RankOnIs
  <2>2. rivals = (1..n) \ {old}
    BY <1>1, <2>1
  <2>3. mine \in Nat /\ mine <= board[old].price /\ mine <= bid.price
        /\ (mine = bid.price \/ mine = board[old].price)
    BY <1>1, <1>6, <2>1
  <2>4. ahead = {j \in 1..(old - 1) : board[j].price <= mine}
    <3>1. ahead = {j \in 1..n : /\ j # old
                               /\ \/ board[j].price < mine
                                  \/ board[j].price = mine /\ j < old}
      <4> HIDE DEF mine, old, n
      <4> QED
        BY <1>6, <2>2
    <3> HIDE DEF mine, old, n, ahead
    <3>2. ASSUME NEW j \in 1..n, j # old
          PROVE  (\/ board[j].price < mine
                  \/ board[j].price = mine /\ j < old)
                 <=> j < old /\ board[j].price <= mine
      <4>1. board[j].price \in Nat /\ board[old].price \in Nat /\ (j < old \/ old < j)
        BY <1>1, <2>1, <3>2
      <4>2. old < j => board[old].price <= board[j].price
        BY <1>1, <2>1
      <4> QED
        BY <2>1, <2>3, <4>1, <4>2
    <3>3. \A j : j \in ahead <=> j \in 1..(old - 1) /\ board[j].price <= mine
      <4>1. \A j \in 1..(old - 1) : j \in 1..n /\ j # old /\ j < old
        BY <1>1, <2>1
      <4>2. \A j \in 1..n : j < old => j \in 1..(old - 1)
        BY <1>1, <2>1
      <4> QED
        BY <3>1, <3>2, <4>1, <4>2
    <3> QED
      BY <3>3
  <2>5. /\ Cardinality(ahead) \in Nat /\ Cardinality(ahead) <= old - 1
        /\ Cardinality(ahead) = old - 1 <=> ahead = 1..(old - 1)
    <3> HIDE DEF old, ahead
    <3>1. IsFiniteSet(1..(old - 1)) /\ Cardinality(1..(old - 1)) = old - 1
      <4>1. old - 1 \in Nat
        BY <1>1, <2>1
      <4> QED
        BY <4>1, FS_Interval
    <3>2. ahead \in SUBSET (1..(old - 1))
      BY <2>4
    <3> QED
      BY <3>1, <3>2, FS_Subset, FS_CardinalityType
  <2>6. NodeRankChanged(bid, board) <=> ahead # 1..(old - 1)
    <3> HIDE DEF ahead
    <3>1. NodeRankChanged(bid, board) <=> 1 + Cardinality(ahead) < old
      BY <1>2, <1>6 DEF NodeRankChanged
    <3> QED
      BY <1>1, <2>1, <2>5, <3>1
  <2>7. ahead # 1..(old - 1) <=> \E j \in 1..(old - 1) : mine < board[j].price
    <3> HIDE DEF mine
    <3> QED
      BY <1>1, <2>1, <2>3, <2>4
  <2>8. \A j \in 1..(old - 1) : mine < board[j].price <=> bid.price < board[j].price
    <3> HIDE DEF mine
    <3> QED
      BY <1>1, <2>1, <2>3
  <2>9. \A j \in 1..n : (\A i \in 1..n : board[i].supplier = bid.supplier => j < i)
                        <=> j \in 1..(old - 1)
    BY <1>1, <2>1
  <2>10. \A j \in 1..(old - 1) : board[j].supplier # bid.supplier /\ j \in 1..n
    BY <1>1, <2>1
  <2> QED
    BY <2>6, <2>7, <2>8, <2>9, <2>10
<1> QED
  BY <1>5, <1>6

(* RANK_CHANGE in Node (auction.service.ts:58-83), whatever order its       *)
(* database leaves ties in: undercutting a rival strictly ahead extends,    *)
(* undercutting nobody ahead or level does not.                             *)
THEOREM NodeRankRuleIsRight == Spec => []NodeRankRuleIsOvertaking
<1>1. ASSUME RuleInv PROVE NodeRankRuleIsOvertaking
  <2> DEFINE bid    == asked.bid
             rows   == asked.bids
             rivals == Suppliers \ {bid.supplier}
             strictly == \E r \in rivals : NodeOvertakes(r, <)
             level    == \E r \in rivals : NodeOvertakes(r, <=)
  <2>1. SUFFICES ASSUME Asked, terms.trigger = "RANK_CHANGE", Possible
                 PROVE  /\ strictly => terms.close \notin NodeAnswers
                        /\ ~level => NodeAnswers = {terms.close}
    BY DEF NodeRankRuleIsOvertaking
  <2>2. Ledger(rows) /\ bid.price \in Nat
    BY <1>1, <2>1, RuleCheckAssumption DEF RuleInv, AnswersTheRule
  <2>3. /\ strictly <=> \E r \in rivals, theirs \in BestRows(rows) :
              /\ theirs.supplier = r /\ bid.price < theirs.price
              /\ \A own \in BestRows(rows) :
                    own.supplier = bid.supplier => theirs.price < own.price
        /\ level <=> \E r \in rivals, theirs \in BestRows(rows) :
              /\ theirs.supplier = r /\ bid.price < theirs.price
              /\ \A own \in BestRows(rows) :
                    own.supplier = bid.supplier => theirs.price <= own.price
    BY DEF NodeOvertakes
  <2> HIDE DEF strictly, level
  <2>4. ASSUME NEW board \in NodeBoards(rows)
        PROVE  /\ strictly => NodeRankChanged(bid, board)
               /\ NodeRankChanged(bid, board) => level
    <3> DEFINE n == Cardinality(Entries(rows))
    <3>1. NodeLists(board, rows)
      BY <1>1, <2>1, NodeAnswered
    <3>2. /\ n \in Nat /\ Len(board) = n /\ board \in [1..n -> Entries(rows)]
          /\ \A i, j \in 1..n : i < j => board[i].price <= board[j].price
          /\ \A e \in Entries(rows) : \E i \in 1..n : board[i] = e
      BY <3>1 DEF NodeLists
    <3>3. /\ \A e \in Entries(rows) : e.price \in Nat /\ e.supplier \in Suppliers
          /\ \A b \in BestRows(rows) : \E e \in Entries(rows) : e.supplier = b.supplier /\ e.price = b.price
          /\ \A e \in Entries(rows) : \E b \in BestRows(rows) : e.supplier = b.supplier /\ e.price = b.price
      BY <2>2, EntriesAre
    <3>4. /\ \A i \in 1..n : board[i].price \in Nat /\ board[i].supplier \in Suppliers
          /\ \A b \in BestRows(rows) : \E i \in 1..n : board[i].supplier = b.supplier /\ board[i].price = b.price
          /\ \A i \in 1..n : \E b \in BestRows(rows) : board[i].supplier = b.supplier /\ board[i].price = b.price
      <4> HIDE DEF n, rows
      <4>1. \A i \in 1..n : board[i] \in Entries(rows)
        BY <3>2
      <4>2. \A b \in BestRows(rows) : \E i \in 1..n : board[i].supplier = b.supplier /\ board[i].price = b.price
        <5>1. TAKE b \in BestRows(rows)
        <5>2. PICK e \in Entries(rows) : e.supplier = b.supplier /\ e.price = b.price
          BY <3>3
        <5>3. PICK i \in 1..n : board[i] = e
          BY <3>2
        <5> QED
          BY <5>2, <5>3
      <4> QED
        BY <3>3, <4>1, <4>2
    <3>5. NodeRankChanged(bid, board) <=>
             \E j \in 1..n :
                /\ bid.price < board[j].price
                /\ board[j].supplier # bid.supplier
                /\ \A i \in 1..n : board[i].supplier = bid.supplier => j < i
      BY <2>2, <3>1, <3>2, NodeRanksByUndercutting
    <3> HIDE DEF n, rows, bid
    <3>6. ASSUME strictly PROVE NodeRankChanged(bid, board)
      <4>1. PICK r \in rivals, theirs \in BestRows(rows) :
              /\ theirs.supplier = r /\ bid.price < theirs.price
              /\ \A own \in BestRows(rows) : own.supplier = bid.supplier => theirs.price < own.price
        BY <2>3, <3>6
      <4>2. PICK j \in 1..n : board[j].supplier = theirs.supplier /\ board[j].price = theirs.price
        BY <3>4
      <4>3. \A i \in 1..n : board[i].supplier = bid.supplier => board[j].price < board[i].price
        BY <3>4, <4>1, <4>2
      <4>4. \A i \in 1..n : board[i].supplier = bid.supplier => j < i
        <5>1. TAKE i \in 1..n
        <5>2. HAVE board[i].supplier = bid.supplier
        <5>3. board[j].price < board[i].price /\ board[j].price \in Nat /\ board[i].price \in Nat
          BY <3>4, <4>3, <5>2
        <5>4. j # i /\ ~(i < j)
          BY <3>2, <5>3
        <5> QED
          BY <3>2, <5>4
      <4> QED
        BY <3>5, <4>1, <4>2, <4>4
    <3>7. ASSUME NodeRankChanged(bid, board) PROVE level
      <4>1. PICK j \in 1..n :
              /\ bid.price < board[j].price
              /\ board[j].supplier # bid.supplier
              /\ \A i \in 1..n : board[i].supplier = bid.supplier => j < i
        BY <3>5, <3>7
      <4>2. PICK theirs \in BestRows(rows) :
              board[j].supplier = theirs.supplier /\ board[j].price = theirs.price
        BY <3>4
      <4>3. ASSUME NEW own \in BestRows(rows), own.supplier = bid.supplier
            PROVE  theirs.price <= own.price
        <5>1. PICK i \in 1..n : board[i].supplier = own.supplier /\ board[i].price = own.price
          BY <3>4
        <5> QED
          BY <3>2, <4>1, <4>2, <4>3, <5>1
      <4>4. theirs.supplier \in rivals
        BY <3>4, <4>1, <4>2
      <4> QED
        BY <2>3, <4>1, <4>2, <4>3, <4>4
    <3> QED
      BY <3>6, <3>7
  <2>5. /\ NodeBoards(rows) # {}
        /\ NodeAnswers =
              {IF Possible /\ NodeTriggered(terms.trigger, bid, board)
               THEN ExtendedClose(terms.close, terms) ELSE terms.close : board \in NodeBoards(rows)}
        /\ ExtendedClose(terms.close, terms) # terms.close
    BY <1>1, <2>1, NodeAnswered, PossibleIs
  <2>6. \A board \in NodeBoards(rows) :
           Possible /\ NodeTriggered(terms.trigger, bid, board) <=> NodeRankChanged(bid, board)
    BY <2>1 DEF NodeTriggered
  <2> HIDE DEF rows, bid
  <2> QED
    BY <2>4, <2>5, <2>6
<1> QED
  BY <1>1, RuleInvariance, PTL

----------------------------------------------------------------------------
(* RANK_CHANGE in the Go service. *)

(* The board without a supplier is its other rows, in their order. *)
LEMMA RivalsAre ==
    ASSUME NEW S, NEW board \in Seq(S), NEW supplier
    PROVE  /\ Rivals(board, supplier) \in Seq(S)
           /\ \E P : /\ \A i : i \in P <=> i \in 1..Len(board) /\ board[i].supplier # supplier
                     /\ \E p : AtPlaces(Rivals(board, supplier), board, P, p)
<1> DEFINE P == {i \in 1..Len(board) : board[i].supplier # supplier}
<1>1. DOMAIN board = 1..Len(board)
  BY LenProperties
<1>2. Rivals(board, supplier) = RowsAt(board, P)
  BY <1>1 DEF Rivals
<1>3. P \in SUBSET (1..Len(board))
  OBVIOUS
<1>4. \A i : i \in P <=> i \in 1..Len(board) /\ board[i].supplier # supplier
  OBVIOUS
<1> HIDE DEF P
<1> QED
  BY <1>2, <1>3, <1>4, RowsAtAre

(* The ranks change when the bid undercuts a row that was ahead of its      *)
(* supplier's first, or any row when the supplier had none.                 *)
LEMMA RanksByUndercutting ==
    ASSUME NEW S, NEW board \in Seq(S), NEW bid \in S,
           bid.price \in Nat, \A x \in S : x.price \in Nat
    PROVE  RankChanged(bid, board) <=>
              \/ board = <<>>
              \/ \E j \in 1..Len(board) :
                    /\ bid.price < board[j].price
                    /\ board[j].supplier # bid.supplier
                    /\ \A i \in 1..Len(board) : board[i].supplier = bid.supplier => j < i
<1> DEFINE n == Len(board)
           old == RankOn(board, bid.supplier)
           t == Rivals(board, bid.supplier)
           beaten == SelectInSeq(t, LAMBDA b : bid.price < b.price)
           after == BoardWith(bid, board)
           new == RankOn(after, bid.supplier)
<1>1. n \in Nat /\ \A i \in 1..n : board[i] \in S
  BY LenProperties
<1>14. t \in Seq(S) /\ \E P : /\ \A i : i \in P <=> i \in 1..n /\ board[i].supplier # bid.supplier
                              /\ \E p : AtPlaces(t, board, P, p)
  BY RivalsAre
<1> HIDE DEF t
<1>15. PICK P : /\ \A i : i \in P <=> i \in 1..n /\ board[i].supplier # bid.supplier
                /\ \E p : AtPlaces(t, board, P, p)
  BY <1>14
<1>16. PICK p : AtPlaces(t, board, P, p)
  BY <1>15
<1>17. PICK m : m = Cardinality(P)
  OBVIOUS
<1>2. /\ \A i : i \in P <=> i \in 1..n /\ board[i].supplier # bid.supplier
      /\ m \in Nat /\ p \in [1..m -> P] /\ t \in Seq(S) /\ Len(t) = m
      /\ \A k \in 1..m : t[k] = board[p[k]]
      /\ \A i \in P : \E k \in 1..m : p[k] = i
      /\ \A i \in P : 1..i \subseteq P => i \in 1..m /\ p[i] = i
  BY <1>14, <1>15, <1>16, <1>17 DEF AtPlaces
<1> DEFINE place == IF beaten = 0 THEN m + 1 ELSE beaten
<1>13. after = IF beaten = 0 THEN Append(t, bid) ELSE InsertAt(t, beaten, bid)
  BY DEF BoardWith, t
<1> HIDE DEF after
<1>3. \/ beaten = 0 /\ \A k \in 1..m : ~(bid.price < t[k].price)
      \/ /\ beaten \in 1..m /\ bid.price < t[beaten].price
         /\ \A k \in 1..m : bid.price < t[k].price => beaten <= k
  <2> DEFINE I == {k \in 1..Len(t) : bid.price < t[k].price}
  <2>1. beaten = IF I # {} THEN Min(I) ELSE 0
    BY DEF SelectInSeq
  <2>2. I \in SUBSET Nat
    BY <1>2
  <2>3. I # {} => Min(I) \in I /\ \A k \in I : Min(I) <= k
    BY <2>2, MinIs
  <2> HIDE DEF beaten
  <2> QED
    BY <1>2, <2>1, <2>3
<1> HIDE DEF beaten
<1>4. place \in 1..(m + 1)
  <2>1. m \in Nat /\ (beaten = 0 \/ beaten \in 1..m)
    BY <1>2, <1>3
  <2>2. CASE beaten = 0
    <3>1. place = m + 1
      BY <2>2
    <3> HIDE DEF place
    <3> QED
      BY <2>1, <3>1
  <2>3. CASE beaten # 0
    <3>1. place = beaten
      BY <2>3
    <3> HIDE DEF place
    <3> QED
      BY <2>1, <2>3, <3>1
  <2> QED
    BY <2>2, <2>3
<1>5. \A k \in 1..m : t[k].supplier # bid.supplier /\ t[k].price \in Nat
  <2>1. TAKE k \in 1..m
  <2>2. p[k] \in P /\ t[k] = board[p[k]]
    BY <1>2
  <2>3. p[k] \in 1..n /\ board[p[k]].supplier # bid.supplier
    BY <1>2, <2>2
  <2>4. board[p[k]] \in S
    BY <1>1, <2>3
  <2> QED
    BY <2>2, <2>3, <2>4
<1>6. /\ Len(after) = m + 1
      /\ after[place] = bid
      /\ \A i \in 1..m + 1 : i # place => after[i].supplier # bid.supplier
  <2>2. CASE beaten = 0
    <3>1. /\ Len(Append(t, bid)) = Len(t) + 1
          /\ \A i \in 1..Len(t) : Append(t, bid)[i] = t[i]
          /\ Append(t, bid)[Len(t) + 1] = bid
      BY <1>2, AppendProperties
    <3> QED
      BY <1>2, <1>5, <1>13, <2>2, <3>1
  <2>3. CASE beaten \in 1..m
    <3>1. /\ Len(after) = m + 1
          /\ \A i \in 1..(m + 1) : after[i] = IF i < beaten THEN t[i] ELSE
                                              IF i = beaten THEN bid ELSE t[i - 1]
      <4>1. beaten # 0 /\ beaten \in 1..Len(t)
        BY <1>2, <2>3
      <4>2. after = InsertAt(t, beaten, bid)
        BY <1>13, <4>1
      <4> QED
        <5>1. /\ Len(after) = Len(t) + 1
              /\ \A i \in 1..(Len(t) + 1) :
                    after[i] = IF i < beaten THEN t[i] ELSE IF i = beaten THEN bid ELSE t[i - 1]
          <6>1. t \in Seq(S) /\ beaten \in 1..Len(t)
            BY <1>2, <4>1
          <6> QED
            BY <4>2, <6>1, PutAt
        <5> QED
          BY <1>2, <5>1
    <3>2. after[beaten] = bid /\ place = beaten
      BY <1>2, <2>3, <3>1
    <3>3. ASSUME NEW i \in 1..(m + 1), i # beaten PROVE after[i].supplier # bid.supplier
      <4>1. CASE i < beaten
        <5>1. i \in 1..m /\ after[i] = t[i]
          BY <1>2, <2>3, <3>1, <4>1
        <5> QED
          BY <1>5, <5>1
      <4>2. CASE ~(i < beaten)
        <5>1. i - 1 \in 1..m /\ after[i] = t[i - 1]
          BY <1>2, <2>3, <3>1, <3>3, <4>2
        <5> QED
          BY <1>5, <5>1
      <4> QED
        BY <4>1, <4>2
    <3> QED
      BY <3>1, <3>2, <3>3
  <2> QED
    BY <1>3, <2>2, <2>3
<1>7. new = place
  <2>1. Len(after) \in Nat
    BY <1>2, <1>6
  <2>2. \/ new = 0 /\ \A i \in 1..Len(after) : after[i].supplier # bid.supplier
        \/ /\ new \in 1..Len(after) /\ after[new].supplier = bid.supplier
           /\ \A i \in 1..Len(after) : after[i].supplier = bid.supplier => new <= i
    BY <2>1, RankOnIs
  <2> HIDE DEF place, new
  <2> QED
    BY <1>4, <1>6, <2>2
<1>8. \/ old = 0 /\ \A i \in 1..n : board[i].supplier # bid.supplier
      \/ /\ old \in 1..n /\ board[old].supplier = bid.supplier
         /\ \A i \in 1..n : board[i].supplier = bid.supplier => old <= i
  BY <1>1, RankOnIs
<1>9. RankChanged(bid, board) <=>
         board = <<>> \/ (old = 0 /\ place < m + 1) \/ (old # 0 /\ place < old)
  <2>1. RankChanged(bid, board) <=>
          board = <<>> \/ (old = 0 /\ new < Len(after)) \/ (old # 0 /\ new < old)
    BY DEF RankChanged, after
  <2> HIDE DEF old, new, place
  <2> QED
    BY <1>6, <1>7, <2>1
<1> HIDE DEF old, new, place
<1>10. CASE old = 0
  <2>1. place < m + 1 <=> beaten # 0
    <3>1. m \in Nat /\ (beaten = 0 \/ beaten \in 1..m)
      BY <1>2, <1>3
    <3>2. (beaten = 0 => place = m + 1) /\ (beaten # 0 => place = beaten)
      BY DEF place
    <3> QED
      BY <3>1, <3>2
  <2>2. beaten # 0 <=> \E k \in 1..m : bid.price < t[k].price
    BY <1>2, <1>3
  <2>3. P = 1..n
    <3>1. \A i : i \in P <=> i \in 1..n
      BY <1>8, <1>10, <1>2
    <3> HIDE DEF n
    <3> QED
      BY <3>1
  <2>4. (\E k \in 1..m : bid.price < t[k].price) <=> \E j \in 1..n : bid.price < board[j].price
    <3> HIDE DEF n
    <3> QED
      BY <1>2, <2>3
  <2>5. \A i \in 1..n : board[i].supplier # bid.supplier
    BY <1>8, <1>10
  <2> QED
    BY <1>9, <1>10, <2>1, <2>2, <2>4, <2>5
<1>11. CASE old # 0
  <2>1. /\ old \in 1..n /\ board[old].supplier = bid.supplier
        /\ \A i \in 1..n : board[i].supplier = bid.supplier => old <= i
    BY <1>8, <1>11
  <2>2. \A j \in 1..n : j < old => j \in 1..m /\ p[j] = j /\ t[j] = board[j]
                                   /\ board[j].supplier # bid.supplier
    <3>1. TAKE j \in 1..n
    <3>2. HAVE j < old
    <3>3. \A i \in 1..j : i \in 1..n /\ board[i].supplier # bid.supplier
      BY <1>1, <2>1, <3>2
    <3>4. j \in 1..j
      BY <1>1
    <3>5. j \in P /\ 1..j \subseteq P /\ board[j].supplier # bid.supplier
      <4> HIDE DEF n
      <4> QED
        BY <1>2, <3>3, <3>4
    <3> QED
      BY <1>2, <3>5
  <2>3. place < old <=> \E j \in 1..n : j < old /\ bid.price < board[j].price
    <3>1. ASSUME place < old
          PROVE  \E j \in 1..n : j < old /\ bid.price < board[j].price
      <4>1. place \in 1..n /\ place \in 1..m
        BY <1>1, <1>4, <2>1, <2>2, <3>1
      <4>2. beaten = place /\ beaten \in 1..m
        BY <1>2, <1>3, <4>1 DEF place
      <4> QED
        BY <1>3, <2>2, <3>1, <4>1, <4>2
    <3>2. ASSUME NEW j \in 1..n, j < old, bid.price < board[j].price
          PROVE  place < old
      <4>1. j \in 1..m /\ bid.price < t[j].price
        BY <2>2, <3>2
      <4>2. beaten \in 1..m /\ beaten <= j
        BY <1>3, <4>1
      <4> QED
        BY <1>1, <1>2, <2>1, <3>2, <4>2 DEF place
    <3> QED
      BY <3>1, <3>2
  <2>4. \A j \in 1..n : j < old <=>
           (/\ board[j].supplier # bid.supplier
            /\ \A i \in 1..n : board[i].supplier = bid.supplier => j < i)
    <3>1. TAKE j \in 1..n
    <3>2. ASSUME j < old
          PROVE  /\ board[j].supplier # bid.supplier
                 /\ \A i \in 1..n : board[i].supplier = bid.supplier => j < i
      BY <1>1, <2>1, <2>2, <3>2
    <3>3. ASSUME \A i \in 1..n : board[i].supplier = bid.supplier => j < i
          PROVE  j < old
      BY <2>1, <3>3
    <3> QED
      BY <3>2, <3>3
  <2>5. board # <<>>
    <3>1. n # 0
      BY <2>1
    <3> QED
      BY <3>1, EmptySeq
  <2> HIDE DEF n
  <2> QED
    BY <1>9, <1>11, <2>3, <2>4, <2>5 DEF n
<1> QED
  BY <1>10, <1>11

(* A supplier with a bid has a row ahead of everything else it bid.         *)
LEMMA StandingRow ==
    ASSUME Ledger(asked.bids), NEW b \in asked.bids
    PROVE  \E x \in Standing(b.supplier) : x = b \/ OrderedBefore(x, b)
<1> DEFINE own == {c \in asked.bids : c.supplier = b.supplier}
<1>1. own \in SUBSET asked.bids /\ b \in own
  OBVIOUS
<1> HIDE DEF own
<1>2. /\ Orders(RowOrder(own), own) /\ IsFiniteSet(own)
      /\ \A x, y \in own : <<x, y>> \in RowOrder(own) <=> OrderedBefore(x, y)
  BY <1>1, RowsAreOrdered
<1>3. Cardinality(own) \in Nat /\ Cardinality(own) # 0
  BY <1>1, <1>2, FS_EmptySet, FS_CardinalityType
<1>4. 0 \in 0..Cardinality(own) - 1
  BY <1>3
<1>5. PICK x \in own : Cardinality(Preceding(RowOrder(own), own, x)) = 0
  BY <1>2, <1>4, Places
<1>6. Preceding(RowOrder(own), own, x) = {}
  <2>1. Preceding(RowOrder(own), own, x) \in SUBSET own
    BY DEF Preceding
  <2>2. IsFiniteSet(Preceding(RowOrder(own), own, x))
    BY <1>2, <2>1, FS_Subset
  <2> QED
    BY <1>5, <2>2, FS_EmptySet
<1>7. \A c \in own : x = c \/ OrderedBefore(x, c)
  BY <1>2, <1>6 DEF Preceding, Orders
<1>8. x \in Standing(b.supplier)
  BY <1>7 DEF Standing, own
<1> QED
  BY <1>1, <1>7, <1>8

(* It is one of the supplier's rows on the leaderboard. *)
LEMMA StandingIsBest ==
    ASSUME Ledger(asked.bids), NEW supplier, NEW x \in Standing(supplier)
    PROVE  x \in BestRows(asked.bids) /\ x.supplier = supplier
<1>1. \A b \in asked.bids : b.price \in Nat
  BY RuleCheckAssumption DEF Ledger
<1>2. \A c \in asked.bids : c.supplier = supplier => x.price <= c.price
  BY <1>1 DEF Standing, OrderedBefore
<1> QED
  BY <1>2 DEF Standing, BestRows

(* RANK_CHANGE in the Go service (auction_service.go:81-133): counting      *)
(* places on the two leaderboards finds out whether the bid overtakes a     *)
(* rival, whatever ties and repeated rows are on them.                      *)
THEOREM RankRuleIsRight == Spec => []RankRuleIsOvertaking
<1>1. ASSUME RuleInv PROVE RankRuleIsOvertaking
  <2> DEFINE bid    == asked.bid
             rows   == asked.bids
             rivals == Suppliers \ {bid.supplier}
             s      == Leaderboard(rows)
             S      == BestRows(rows)
             n      == Cardinality(S)
  <2>1. SUFFICES ASSUME Asked, terms.trigger = "RANK_CHANGE"
                 PROVE  Extended <=>
                           Possible /\ (rows = {} \/ \E r \in rivals : Overtakes(r))
    BY DEF RankRuleIsOvertaking
  <2>2. /\ Ledger(rows) /\ bid.price \in Nat
        /\ bid \in [id : Nat, supplier : Suppliers, price : Prices]
    BY <1>1, <2>1, RuleCheckAssumption DEF RuleInv, AnswersTheRule
  <2>3. /\ rows \subseteq [id : Nat, supplier : Suppliers, price : Prices]
        /\ \A x \in rows : x.price \in Nat /\ x.id \in Nat /\ x.supplier \in Suppliers
    BY <2>2, RuleCheckAssumption DEF Ledger
  <2>4. S \subseteq rows
    BY DEF BestRows
  <2>5. Extended <=> Possible /\ RankChanged(bid, s)
    BY <1>1, <2>1, Answered DEF Triggered
  <2>6. /\ n \in Nat /\ s \in [1..n -> S]
        /\ \A i, j \in 1..n : i < j <=> OrderedBefore(s[i], s[j])
        /\ \A x \in S : \E i \in 1..n : s[i] = x
    BY <2>2, LeaderboardLists
  <2>7. s \in Seq(S) /\ Len(s) = n
    BY <2>2, LeaderboardLists
  <2> HIDE DEF n, s
  <2>8. RankChanged(bid, s) <=>
          \/ s = <<>>
          \/ \E j \in 1..n :
                /\ bid.price < s[j].price
                /\ s[j].supplier # bid.supplier
                /\ \A i \in 1..n : s[i].supplier = bid.supplier => j < i
    <3> DEFINE Rows == [id : Nat, supplier : Suppliers, price : Prices]
    <3>1. /\ bid \in Rows /\ \A x \in Rows : x.price \in Nat
          /\ S \subseteq Rows
      BY <2>2, <2>3, <2>4, RuleCheckAssumption
    <3>2. s \in Seq(Rows)
      <4> HIDE DEF Rows, S
      <4>1. \A i \in 1..Len(s) : s[i] \in Rows
        BY <2>6, <2>7, <3>1
      <4>2. s \in [1..n -> Rows]
        BY <2>6, <3>1
      <4> QED
        BY <2>6, <4>2, ListIsSeq
    <3> HIDE DEF Rows, bid
    <3>3. /\ bid \in Rows /\ bid.price \in Nat
          /\ \A x \in Rows : x.price \in Nat
      BY <2>2, <3>1
    <3>4. RankChanged(bid, s) <=>
             \/ s = <<>>
             \/ \E j \in 1..Len(s) :
                   /\ bid.price < s[j].price
                   /\ s[j].supplier # bid.supplier
                   /\ \A i \in 1..Len(s) : s[i].supplier = bid.supplier => j < i
      BY <3>2, <3>3, RanksByUndercutting
    <3> QED
      BY <2>7, <3>4
  <2>9. s = <<>> <=> rows = {}
    <3>1. rows = {} <=> S = {}
      BY <2>2, <2>4, BestRowExists
    <3>2. s = <<>> <=> n = 0
      <4> HIDE DEF S
      <4> QED
        BY <2>7, EmptySeq
    <3>3. n = 0 <=> S = {}
      <4> HIDE DEF S
      <4>1. n = 0 => S = {}
        BY <2>6
      <4>2. n # 0 => S # {}
        <5>1. n # 0 => 1 \in 1..n
          BY <2>6
        <5> QED
          BY <2>6, <5>1
      <4> QED
        BY <4>1, <4>2
    <3> QED
      BY <3>1, <3>2, <3>3
  <2>10. /\ \A x, y \in rows : OrderedBefore(x, y) => x.price <= y.price
         /\ \A x, y, z \in rows : OrderedBefore(x, y) /\ OrderedBefore(y, z) => OrderedBefore(x, z)
    BY <2>3 DEF OrderedBefore
  <2>11. \A i \in 1..n : s[i] \in S /\ s[i] \in rows
    BY <2>4, <2>6
  <2>12. \A x, y \in S : x.supplier = y.supplier => x.price = y.price
    BY <2>3 DEF BestRows
  <2>13. /\ \A b \in rows : \E x \in Standing(b.supplier) : x = b \/ OrderedBefore(x, b)
         /\ \A r : \A x \in Standing(r) : x \in S /\ x.supplier = r
    BY <2>2, StandingRow, StandingIsBest
  <2> HIDE DEF S, rows, bid
  <2>14. ASSUME NEW j \in 1..n,
                bid.price < s[j].price,
                s[j].supplier # bid.supplier,
                \A i \in 1..n : s[i].supplier = bid.supplier => j < i
         PROVE  \E r \in rivals : Overtakes(r)
    <3>1. s[j] \in rows /\ s[j].supplier \in rivals
      BY <2>3, <2>11, <2>14
    <3>2. PICK theirs \in Standing(s[j].supplier) : theirs = s[j] \/ OrderedBefore(theirs, s[j])
      BY <2>13, <3>1
    <3>3. theirs \in S /\ theirs \in rows /\ theirs.price = s[j].price
      BY <2>4, <2>11, <2>12, <2>13
    <3>4. ASSUME NEW mine \in Standing(bid.supplier)
          PROVE  OrderedBefore(theirs, mine)
      <4>1. mine \in S /\ mine.supplier = bid.supplier /\ mine \in rows
        BY <2>4, <2>13
      <4>2. PICK i \in 1..n : s[i] = mine
        BY <2>6, <4>1
      <4>3. OrderedBefore(s[j], mine)
        BY <2>6, <2>14, <4>1, <4>2
      <4> QED
        BY <2>10, <3>1, <3>2, <3>3, <4>1, <4>3
    <3>5. Overtakes(s[j].supplier)
      BY <2>14, <3>2, <3>3, <3>4 DEF Overtakes, bid
    <3> QED
      BY <3>1, <3>5
  <2>15. ASSUME NEW r \in rivals, Overtakes(r)
         PROVE  \E j \in 1..n :
                   /\ bid.price < s[j].price
                   /\ s[j].supplier # bid.supplier
                   /\ \A i \in 1..n : s[i].supplier = bid.supplier => j < i
    <3>1. PICK theirs \in Standing(r) :
             /\ bid.price < theirs.price
             /\ \A mine \in Standing(bid.supplier) : OrderedBefore(theirs, mine)
      BY <2>15 DEF Overtakes, bid
    <3>2. theirs \in S /\ theirs.supplier = r /\ theirs \in rows
      BY <2>4, <2>13
    <3>3. PICK j \in 1..n : s[j] = theirs
      BY <2>6, <3>2
    <3>4. ASSUME NEW i \in 1..n, s[i].supplier = bid.supplier
          PROVE  j < i
      <4>1. s[i] \in rows
        BY <2>11
      <4>2. PICK mine \in Standing(bid.supplier) : mine = s[i] \/ OrderedBefore(mine, s[i])
        BY <2>13, <3>4, <4>1
      <4>3. mine \in rows /\ OrderedBefore(theirs, mine)
        BY <2>4, <2>13, <3>1
      <4>4. OrderedBefore(s[j], s[i])
        BY <2>10, <3>2, <3>3, <4>1, <4>2, <4>3
      <4> QED
        BY <2>6, <4>4
    <3>5. s[j].supplier # bid.supplier
      BY <3>2, <3>3
    <3> QED
      BY <3>1, <3>3, <3>4, <3>5
  <2> QED
    BY <2>5, <2>8, <2>9, <2>14, <2>15
<1> QED
  BY <1>1, RuleInvariance, PTL
=============================================================================
