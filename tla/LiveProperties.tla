--------------------------- MODULE LiveProperties ---------------------------
(***************************************************************************)
(* What a live page may and may not show.                                   *)
(***************************************************************************)
EXTENDS LiveView

(* The close times the RFQ has had, the closing moment of a Force Finalize  *)
(* included.                                                                *)
CloseTimes == {terms.close, close} \cup ToSet(trail)

(* The page may be behind, and its parts of different age (page.tsx:83-134: *)
(* events and answers overwrite each other in any order), but it shows      *)
(* history: bids that are in the ledger, a close time the RFQ had, a prefix *)
(* of the audit trail.  It never shows CLOSED, and never locks the form,    *)
(* while the auction is open; and it looks over only at the first close     *)
(* time or later, unless the buyer closed the auction.                      *)
ViewIsHistory ==
    /\ cache # NoData =>
          /\ ToSet(cache.bids) \subseteq ledger
          /\ cache.close \in CloseTimes
          /\ IsPrefix(Sidebar(cache).timeline, trail)
          /\ cache.status = "CLOSED" => status = "CLOSED"
    /\ LooksOver => now >= terms.close \/ status = "CLOSED"

(* A supplier's page shows a bid once (supplier/rfq/[id]/page.tsx:111-112), *)
(* although listeners pile up on a socket that visits share, the refetch    *)
(* brings in bids before their events, and two sockets may be in the room.  *)
SupplierSeesBidOnce ==
    role = "supplier" =>
        \A i, j \in DOMAIN cache.bids : cache.bids[i].id = cache.bids[j].id => i = j

(* The shown place of the supplier (supplier/rfq/[id]/page.tsx:198-213) is  *)
(* right for the bids shown, however often one is shown and in whatever     *)
(* order they came: behind every supplier that is cheaper, ahead of every   *)
(* one that is dearer.  The list has every supplier once, at its lowest     *)
(* price, and its own row is at that place; the buyer's count of suppliers  *)
(* is right.  It may not be believed beyond that: a tie goes to the bid     *)
(* that came last over the socket.                                          *)
RankIsRight ==
    LET shown     == ToSet(cache.bids)
        suppliers == {b.supplier : b \in shown}
        best(s)   == CHOOSE p \in {b.price : b \in {c \in shown : c.supplier = s}} :
                         \A b \in shown : b.supplier = s => p <= b.price
        rank      == UserRank(cache.bids)
        rows      == Orderbook(cache.bids)
    IN  /\ Len(rows) = Cardinality(suppliers)
        /\ Sidebar(cache).suppliers = Cardinality(suppliers)
        /\ \A i \in DOMAIN rows : /\ rows[i].price = best(rows[i].supplier)
                                  /\ rows[i].isMe <=> i = rank
        /\ rank # 0 <=> Me \in suppliers
        /\ Me \in suppliers =>
              /\ rank > Cardinality({s \in suppliers \ {Me} : best(s) < best(Me)})
              /\ rank <= 1 + Cardinality({s \in suppliers \ {Me} : best(s) <= best(Me)})

(* However a page comes and goes while its sockets connect, at most one of  *)
(* its sockets is in the room (lib/socket.ts:12, page.tsx:136-138), for a   *)
(* server that understands both join and leave.                             *)
OneSubscription ==
    protocol = {"join_rfq", "leave_rfq"} =>
        Cardinality(InRoom) <= 1

(* The page agrees with the server. *)
Current ==
    /\ cache.status = status
    /\ cache.close = close
    /\ cache.trail = trail
    /\ ToSet(cache.bids) = ledger
    /\ Len(cache.bids) = Cardinality(ledger)

(* Whatever was lost, doubled, or overwritten by an older answer, a page    *)
(* that stays agrees with the server in the end: the refetch of page.tsx:87 *)
(* repairs what the socket left.                                            *)
EventuallyCurrent == <>[](status # "NONE" => Current) \/ []<>~mounted
=============================================================================
