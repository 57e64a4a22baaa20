------------------------------ MODULE LiveView ------------------------------
(***************************************************************************)
(* The live page of one RFQ in a browser tab, the supplier's or the         *)
(* buyer's, in front of the auction of BritishAuction:                      *)
(*   frontend/src/app/supplier/rfq/[id]/page.tsx, .../buyer/rfq/[id]/       *)
(*   lib/socket.ts           the socket singleton                           *)
(*   providers/query-provider.tsx and TanStack Query   the cache            *)
(*                                                                          *)
(* What the page shows is its cache entry.  Two writers meet there: a       *)
(* refetch every 15 s, which replaces it, and the socket's events, which    *)
(* patch it.  An event is in `outbox` from the commit it is about until the *)
(* page's sockets have it: calls broadcast on their own and the network is  *)
(* slow, so events come in any order, or never.                             *)
(***************************************************************************)
EXTENDS BritishAuction, Ordering, SequencesExt

CONSTANTS Me,            \* the supplier whose page it is
          Roles,         \* whose page it may be: "supplier", "buyer"
          Protocols,     \* the sets of room messages the server may understand
          MaxSockets,    \* bound on sockets the singleton creates
          MaxMounts,     \* bound on visits of the page
          MaxFaults,     \* bound on lost connections, events and responses
          MaxTime        \* bound on the clock

ASSUME LiveAssumption ==
    /\ \A r \in Requests : r.price \in Nat
    /\ \A t \in Terms : t.close \in Nat

VARIABLES trail,     \* the close times of the extension logs, oldest first
          outbox,    \* events under way
          role, protocol,
          visits, mounted,
          sockets,   \* every socket created, the current one last
          cache,     \* the data of query ["rfq", id]
          query,     \* its fetch
          over,      \* isOver of useCountdown
          faults

auction == <<now, terms, status, close, ledger, trail>>
lives   == <<role, protocol, visits, mounted>>
view    == <<cache, over>>
liveVars == <<auction, outbox, lives, sockets, view, query, faults>>

NoData == [status |-> "NONE", close |-> 0, bids |-> <<>>, trail |-> <<>>]

Quiet == [at |-> "idle", data |-> NoData]

Fail == faults < MaxFaults /\ faults' = faults + 1

----------------------------------------------------------------------------
(* The server's side. *)

BidPlaced(b) == [event |-> "BID_PLACED", bid |-> b]
Extended(c)  == [event |-> "AUCTION_EXTENDED", close |-> c]
Closed       == [event |-> "AUCTION_CLOSED"]

Opens ==
    /\ Open
    /\ UNCHANGED <<trail, outbox, lives, sockets, view, query, faults>>

Accepts(r) ==
    /\ Accept(r)
    /\ trail' = IF close' = close THEN trail ELSE Append(trail, close')
    /\ outbox' = outbox \cup {BidPlaced(b) : b \in ledger' \ ledger}
                        \cup (IF close' = close THEN {} ELSE {Extended(close')})

(* Bids from other pages. *)
RivalBids(r) ==
    /\ r.supplier # Me \/ role = "buyer"
    /\ Accepts(r)
    /\ UNCHANGED <<lives, sockets, view, query, faults>>

Closes ==
    /\ Finalize \/ ForceFinalize
    /\ outbox' = outbox \cup {Closed}
    /\ UNCHANGED <<trail, lives, sockets, view, query, faults>>

Ticks ==
    /\ now < MaxTime
    /\ Tick
    /\ UNCHANGED <<trail, outbox, lives, sockets, view, query, faults>>

----------------------------------------------------------------------------
(* The socket singleton.  A socket's room is where it is, or where it will  *)
(* be once it opens and what was emitted meanwhile is sent.                 *)

Connecting == [open |-> FALSE, room |-> FALSE, listeners |-> {}]

(* connect returns the current socket only if it is connected: else it      *)
(* makes a new one, and the old one lives on.                               *)
Connected ==
    IF sockets # <<>> /\ Last(sockets).open THEN sockets ELSE Append(sockets, Connecting)

(* joinRfqRoom and leaveRfqRoom, if the server understands them. *)
Emit(socket, message) ==
    IF message \in protocol
    THEN [socket EXCEPT !.room = message = "join_rfq"] ELSE socket

SocketOpens(s) ==
    /\ ~sockets[s].open
    /\ sockets' = [sockets EXCEPT ![s].open = TRUE]
    /\ UNCHANGED <<auction, outbox, lives, view, query, faults>>

(* A lost connection takes the room with it: nobody joins again. *)
SocketDrops(s) ==
    /\ sockets[s].open
    /\ Fail
    /\ sockets' = [sockets EXCEPT ![s].open = FALSE, ![s].room = FALSE]
    /\ UNCHANGED <<auction, outbox, lives, view, query>>

InRoom == {s \in DOMAIN sockets : sockets[s].open /\ sockets[s].room}

----------------------------------------------------------------------------
(* The page. *)

(* Join the room, and listen: once more on a socket that earlier visits     *)
(* already listen on.                                                       *)
Joined(socket, visit) ==
    [Emit(socket, "join_rfq") EXCEPT !.listeners = @ \cup {visit}]

(* The effect: connect, join the room and listen. *)
PageMounts ==
    LET all == Connected
        top == Len(all)
    IN  /\ ~mounted
        /\ visits < MaxMounts
        /\ top <= MaxSockets
        /\ mounted' = TRUE
        /\ visits' = visits + 1
        /\ sockets' = [all EXCEPT ![top] = Joined(@, visits')]
        /\ over' = FALSE
        /\ UNCHANGED <<auction, outbox, role, protocol, cache, query, faults>>

(* Mutant: the cleanup does nothing. *)
PageVanishes ==
    /\ mounted
    /\ mounted' = FALSE
    /\ UNCHANGED <<auction, outbox, role, protocol, visits, sockets, view, query, faults>>

(* Its cleanup: leave the room.  The listeners stay on the socket. *)
PageUnmounts ==
    /\ mounted
    /\ mounted' = FALSE
    /\ sockets' = [sockets EXCEPT ![Len(sockets)] = Emit(@, "leave_rfq")]
    /\ UNCHANGED <<auction, outbox, role, protocol, visits, view, query, faults>>

(* [newBid, ...old.bids], sorted by price: the sort is stable, so the new   *)
(* bid goes before the first one that is not cheaper.                       *)
Among(bid, bids) ==
    LET i == SelectInSeq(bids, LAMBDA b : b.price >= bid.price)
    IN  IF i = 0 THEN Append(bids, bid) ELSE InsertAt(bids, i, bid)

(* Mutant: the bid is not looked for. *)
SupplierAddsAnyway(bid, bids) == Among(bid, bids)

SupplierAdds(bid, bids) ==
    IF \E i \in DOMAIN bids : bids[i].id = bid.id THEN bids ELSE Among(bid, bids)

BuyerAdds(bid, bids) == Among(bid, bids)

(* The three listeners, on a cache entry that exists. *)
Handled(e, data) ==
    IF data = NoData THEN data
    ELSE CASE e.event = "BID_PLACED" ->
                [data EXCEPT !.bids = IF role = "supplier" THEN SupplierAdds(e.bid, @)
                                                           ELSE BuyerAdds(e.bid, @)]
           [] e.event = "AUCTION_EXTENDED" -> [data EXCEPT !.close = e.close]
           [] e.event = "AUCTION_CLOSED"   -> [data EXCEPT !.status = "CLOSED"]

(* n listeners handle an event, one after the other. *)
HandledBy(n, e, data) ==
    LET handled[i \in 0..n] == IF i = 0 THEN data ELSE Handled(e, handled[i - 1])
    IN  handled[n]

(* The visits whose listeners an event reaches: a visit has its own, on the *)
(* socket it got.                                                           *)
Listening == UNION {sockets[s].listeners : s \in InRoom}

(* An event arrives on the sockets in the room: every listener handles it,  *)
(* those of a visit that is over included.  Or it is lost.                  *)
EventArrives(e) ==
    /\ e \in outbox
    /\ outbox' = outbox \ {e}
    /\ \/ /\ cache' = HandledBy(Cardinality(Listening), e, cache)
          /\ UNCHANGED faults
       \/ Fail /\ UNCHANGED cache
    /\ UNCHANGED <<auction, lives, sockets, query, over>>

(* Mutant: no refetchInterval. *)
Unloaded == mounted /\ cache = NoData

(* The query fetches when the page mounts and on every interval.  findOne   *)
(* reads the row, and then its bids and logs: not at one moment.            *)
MayFetch == mounted

Fetches ==
    /\ MayFetch
    /\ query = Quiet
    /\ status # "NONE"
    /\ query' = [at |-> "row", data |-> [NoData EXCEPT !.status = status, !.close = close]]
    /\ UNCHANGED <<auction, outbox, lives, sockets, view, faults>>

ServerReadsRest ==
    /\ query.at = "row"
    /\ query' = [at |-> "answered",
                 data |-> [query.data EXCEPT
                     !.trail = trail,
                     !.bids = InOrder(ledger, LAMBDA a, b :
                                         \/ a.price < b.price
                                         \/ a.price = b.price /\ a.id < b.id)]]
    /\ UNCHANGED <<auction, outbox, lives, sockets, view, faults>>

(* The answer replaces the entry, events applied in the meantime included.  *)
FetchArrives ==
    /\ query.at = "answered"
    /\ cache' = query.data
    /\ query' = Quiet
    /\ UNCHANGED <<auction, outbox, lives, sockets, over, faults>>

(* It fails, and is tried again at once or on the next interval. *)
FetchFails ==
    /\ query # Quiet
    /\ Fail
    /\ query' = Quiet
    /\ UNCHANGED <<auction, outbox, lives, sockets, view>>

(* An entry no page uses is dropped after a while. *)
CacheExpires ==
    /\ ~mounted /\ query = Quiet
    /\ cache # NoData
    /\ cache' = NoData
    /\ UNCHANGED <<auction, outbox, lives, sockets, query, over, faults>>

(* Mutant: the countdown closes the auction by itself. *)
CountdownCloses ==
    /\ mounted /\ cache # NoData
    /\ now >= cache.close
    /\ cache' = [cache EXCEPT !.status = "CLOSED"]
    /\ over' = TRUE
    /\ UNCHANGED <<auction, outbox, lives, sockets, query, faults>>

(* The countdown reaches the close time shown.  An extension that comes     *)
(* later does not take this back.                                           *)
CountdownEnds ==
    /\ mounted /\ cache # NoData
    /\ ~over
    /\ now >= cache.close
    /\ over' = TRUE
    /\ UNCHANGED <<auction, outbox, lives, sockets, cache, query, faults>>

----------------------------------------------------------------------------
(* The bid form, which a supplier sees unless the page shows CLOSED.  Every *)
(* submission has a client id of its own.                                   *)

FormShown == mounted /\ role = "supplier" /\ cache # NoData /\ cache.status # "CLOSED"

(* Between the submission and its answer the page does nothing but wait, so *)
(* it is one step, and no step when the server refuses.                     *)
Submits(r) ==
    /\ FormShown
    /\ r.supplier = Me
    /\ Accepts(r)
    /\ UNCHANGED <<lives, sockets, view, query, faults>>

(* The buyer's Force Finalize, offered while the page shows ACTIVE. *)
Finalizes ==
    /\ mounted /\ role = "buyer" /\ cache.status = "ACTIVE"
    /\ ForceFinalize
    /\ outbox' = outbox \cup {Closed}
    /\ UNCHANGED <<trail, lives, sockets, view, query, faults>>

----------------------------------------------------------------------------
(* What the page draws from its cache entry. *)

(* sortedBids: the stable sort by price of what is cached. *)
SortedBids(bids) ==
    LET order == InOrder(DOMAIN bids, LAMBDA i, j :
                             \/ bids[i].price < bids[j].price
                             \/ bids[i].price = bids[j].price /\ i < j)
    IN  [k \in DOMAIN order |-> bids[order[k]]]

(* The first bid of each supplier. *)
FirstOfEach(bids) ==
    RowsAt(bids, {i \in DOMAIN bids :
                     \A j \in 1..(i - 1) : bids[j].supplier # bids[i].supplier})

(* Mutant: suppliers are picked from the bids as they came, newest first. *)
BoardOfNewest(bids) == FirstOfEach(InOrder(ToSet(bids), LAMBDA a, b : a.id > b.id))

(* leaderboard. *)
Board(bids) == FirstOfEach(SortedBids(bids))

(* userRank, and isWinning. *)
UserRank(bids) == SelectInSeq(Board(bids), LAMBDA b : b.supplier = Me)

(* What the lists on the two pages have in common: a row per supplier, best *)
(* first, the page's own marked.                                            *)
Orderbook(bids) ==
    LET board == Board(bids)
    IN  [i \in DOMAIN board |-> [supplier |-> board[i].supplier, price |-> board[i].price,
                                 isMe |-> board[i].supplier = Me]]

(* The buyer's sidebar: active suppliers, rule extensions, audit timeline.  *)
Sidebar(data) == [suppliers |-> Len(Board(data.bids)), timeline |-> data.trail]

(* Whether the page looks like that of an auction that is over. *)
LooksOver == mounted /\ cache # NoData /\ (cache.status = "CLOSED" \/ over)

----------------------------------------------------------------------------
LiveInit ==
    /\ Init
    /\ trail = <<>>
    /\ outbox = {}
    /\ role \in Roles
    /\ protocol \in Protocols
    /\ visits = 0
    /\ mounted = FALSE
    /\ sockets = <<>>
    /\ cache = NoData
    /\ query = Quiet
    /\ over = FALSE
    /\ faults = 0

Fetch == Fetches \/ ServerReadsRest \/ FetchArrives

Arrivals == \E e \in outbox : EventArrives(e)

LiveNext ==
    \/ Opens \/ Closes \/ Ticks
    \/ \E r \in Requests : RivalBids(r) \/ Submits(r)
    \/ Finalizes
    \/ Arrivals
    \/ Fetch \/ FetchFails
    \/ \E s \in DOMAIN sockets : SocketOpens(s) \/ SocketDrops(s)
    \/ PageMounts \/ PageUnmounts
    \/ CacheExpires \/ CountdownEnds

LiveSpec == LiveInit /\ [][LiveNext]_liveVars

(* Events arrive or are lost, and a page that is there goes on fetching.    *)
(* Nothing makes a connection come back, a bid arrive or a page stay.       *)
FairLiveSpec ==
    /\ LiveSpec
    /\ WF_liveVars(Arrivals)
    /\ WF_liveVars(Fetch)
=============================================================================
