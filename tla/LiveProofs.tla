----------------------------- MODULE LiveProofs -----------------------------
(***************************************************************************)
(* Proofs about the live pages, for any suppliers, requests and terms, any  *)
(* rules that move the close time forward only, any server protocol and any *)
(* number of sockets, visits and faults.                                    *)
(***************************************************************************)
EXTENDS LiveInvariant, OrderingProofs

----------------------------------------------------------------------------
(* Sequences. *)

(* A sequence is a prefix of itself. *)
LEMMA PrefixReflexive ==
    ASSUME NEW S, NEW s \in Seq(S)
    PROVE  IsPrefix(s, s)
BY LenProperties DEF IsPrefix

(* Pointwise. *)
LEMMA PrefixIs ==
    ASSUME NEW S, NEW s \in Seq(S), NEW t \in Seq(S)
    PROVE  IsPrefix(s, t) <=> Len(s) <= Len(t) /\ \A i \in 1..Len(s) : s[i] = t[i]
<1>1. Len(s) \in Nat /\ Len(t) \in Nat
  BY LenProperties
<1>2. /\ SubSeq(s, 1, Len(s)) = [i \in 1..Len(s) |-> s[i]]
      /\ SubSeq(t, 1, Len(s)) = [i \in 1..Len(s) |-> t[i]]
  OBVIOUS
<1> QED
  BY <1>1, <1>2 DEF IsPrefix

(* What is a prefix stays one when more is appended. *)
LEMMA PrefixAppend ==
    ASSUME NEW S, NEW s \in Seq(S), NEW t \in Seq(S), NEW e \in S, IsPrefix(s, t)
    PROVE  IsPrefix(s, Append(t, e))
<1>1. Len(s) \in Nat /\ Len(t) \in Nat
  BY LenProperties
<1>2. Append(t, e) \in Seq(S) /\ Len(Append(t, e)) = Len(t) + 1
      /\ \A i \in 1..Len(t) : Append(t, e)[i] = t[i]
  BY AppendProperties
<1>3. Len(s) <= Len(t) /\ \A i \in 1..Len(s) : s[i] = t[i]
  BY PrefixIs
<1>4. \A i \in 1..Len(s) : i \in 1..Len(t)
  BY <1>1, <1>3
<1>5. Len(s) <= Len(Append(t, e)) /\ \A i \in 1..Len(s) : s[i] = Append(t, e)[i]
  BY <1>1, <1>2, <1>3, <1>4
<1> QED
  BY <1>2, <1>5, PrefixIs

(* The elements of a sequence are what it has at its places. *)
LEMMA ElementsOf ==
    ASSUME NEW S, NEW s \in Seq(S)
    PROVE  /\ ToSet(s) \subseteq S
           /\ \A e : e \in ToSet(s) <=> \E i \in 1..Len(s) : s[i] = e
<1>1. DOMAIN s = 1..Len(s) /\ \A i \in 1..Len(s) : s[i] \in S
  BY LenProperties
<1> QED
  BY <1>1 DEF ToSet

(* Appending adds one element. *)
LEMMA AppendElements ==
    ASSUME NEW S, NEW s \in Seq(S), NEW e \in S
    PROVE  ToSet(Append(s, e)) = ToSet(s) \cup {e}
<1>1. Len(s) \in Nat /\ DOMAIN s = 1..Len(s)
  BY LenProperties
<1>2. /\ Append(s, e) \in Seq(S) /\ Len(Append(s, e)) = Len(s) + 1
      /\ \A i \in 1..Len(s) : Append(s, e)[i] = s[i]
      /\ Append(s, e)[Len(s) + 1] = e
  BY AppendProperties
<1>3. \A i \in 1..(Len(s) + 1) : i \in 1..Len(s) \/ i = Len(s) + 1
  BY <1>1
<1>4. \A x : x \in ToSet(Append(s, e)) <=> \E i \in 1..(Len(s) + 1) : Append(s, e)[i] = x
  <2>1. PICK u : u = Append(s, e)
    OBVIOUS
  <2>2. u \in Seq(S) /\ Len(u) = Len(s) + 1
    BY <1>2, <2>1
  <2>3. \A x : x \in ToSet(u) <=> \E i \in 1..Len(u) : u[i] = x
    BY <2>2, ElementsOf
  <2> QED
    BY <2>1, <2>2, <2>3
<1>5. \A x : x \in ToSet(s) <=> \E i \in 1..Len(s) : s[i] = x
  BY ElementsOf
<1>6. \A i \in 1..Len(s) : i \in 1..(Len(s) + 1)
  BY <1>1
<1>7. Len(s) + 1 \in 1..(Len(s) + 1)
  BY <1>1
<1> QED
  BY <1>2, <1>3, <1>4, <1>5, <1>6, <1>7

(* Sequences over a set are sequences over a larger one. *)
LEMMA SeqGrows ==
    ASSUME NEW S, NEW T, S \subseteq T, NEW s \in Seq(S)
    PROVE  s \in Seq(T)
BY SeqDef

----------------------------------------------------------------------------
(* What moves what. *)

(* Only the sockets themselves and the page coming or going change sockets, *)
(* and nothing changes whose page it is or what the server understands.     *)
LEMMA SocketMoves ==
    ASSUME [LiveNext]_liveVars
    PROVE  /\ UNCHANGED <<role, protocol>>
           /\ \/ UNCHANGED <<visits, mounted, sockets>>
              \/ \E s \in DOMAIN sockets : SocketOpens(s) \/ SocketDrops(s)
              \/ PageMounts
              \/ PageUnmounts
BY DEF LiveNext, liveVars, lives, Opens, Closes, Ticks, RivalBids, Submits, Finalizes, Arrivals,
       EventArrives, Fetch, Fetches, ServerReadsRest, FetchArrives, FetchFails, SocketOpens,
       SocketDrops, PageMounts, PageUnmounts, CacheExpires, CountdownEnds

(* The auction only moves by its own operations. *)
LEMMA AuctionMoves ==
    ASSUME [LiveNext]_liveVars
    PROVE  \/ Opens \/ Closes \/ Ticks \/ Finalizes
           \/ \E r \in Requests : Accepts(r) /\ UNCHANGED <<lives, sockets, view, query, faults>>
           \/ UNCHANGED auction
BY DEF LiveNext, liveVars, RivalBids, Submits, Arrivals,
       EventArrives, Fetch, Fetches, ServerReadsRest, FetchArrives, FetchFails, SocketOpens,
       SocketDrops, PageMounts, PageUnmounts, CacheExpires, CountdownEnds

----------------------------------------------------------------------------
(* The sockets. *)

(* What a socket is, after so many visits. *)
SocketSet(n) == [open : BOOLEAN, room : BOOLEAN, listeners : SUBSET (1..n)]

(* connect() returns with a current socket, and adds none that is in the    *)
(* room.                                                                    *)
LEMMA ConnectedIs ==
    ASSUME Sockets
    PROVE  /\ Connected \in Seq(SocketSet(visits))
           /\ Len(Connected) \in Nat /\ Len(Connected) \in 1..Len(Connected)
           /\ \A s \in 1..Len(Connected) :
                 Connected[s].room => s \in DOMAIN sockets /\ sockets[s].room
<1>1. sockets \in Seq(SocketSet(visits))
  BY DEF Sockets, SocketSet
<1>2. Len(sockets) \in Nat /\ DOMAIN sockets = 1..Len(sockets)
  BY <1>1, LenProperties
<1>3. CASE sockets # <<>> /\ Last(sockets).open
  <2>1. Connected = sockets
    BY <1>3 DEF Connected
  <2>2. Len(sockets) # 0
    BY <1>1, <1>3, EmptySeq
  <2> QED
    BY <1>1, <1>2, <2>1, <2>2
<1>4. CASE ~(sockets # <<>> /\ Last(sockets).open)
  <2>1. Connected = Append(sockets, Connecting)
    BY <1>4 DEF Connected
  <2>2. Connecting \in SocketSet(visits) /\ Connecting.room = FALSE
    BY DEF Connecting, SocketSet
  <2>3. /\ Connected \in Seq(SocketSet(visits)) /\ Len(Connected) = Len(sockets) + 1
        /\ \A i \in 1..Len(sockets) : Connected[i] = sockets[i]
        /\ Connected[Len(sockets) + 1] = Connecting
    BY <1>1, <2>1, <2>2, AppendProperties
  <2>4. \A i \in 1..(Len(sockets) + 1) : i \in 1..Len(sockets) \/ i = Len(sockets) + 1
    BY <1>2
  <2>5. ASSUME NEW s \in 1..Len(Connected), Connected[s].room
        PROVE  s \in DOMAIN sockets /\ sockets[s].room
    BY <1>2, <2>2, <2>3, <2>4, <2>5
  <2> QED
    BY <1>2, <2>3, <2>5
<1> QED
  BY <1>3, <1>4

(* A room message only changes the room. *)
LEMMA Emitted ==
    ASSUME NEW n \in Nat, NEW socket \in SocketSet(n), NEW message
    PROVE  /\ Emit(socket, message) \in SocketSet(n)
           /\ message \in protocol => Emit(socket, message).room = (message = "join_rfq")
BY DEF Emit, SocketSet

(* Every listener stays one of a visit that has been. *)
LEMMA SocketsStep == Sockets /\ [LiveNext]_liveVars => Sockets'
<1> SUFFICES ASSUME Sockets, [LiveNext]_liveVars PROVE Sockets'
  OBVIOUS
<1>1. /\ visits \in Nat /\ mounted \in BOOLEAN /\ sockets \in Seq(SocketSet(visits))
      /\ mounted => sockets # <<>>
  BY DEF Sockets, SocketSet
<1>2. Len(sockets) \in Nat /\ DOMAIN sockets = 1..Len(sockets)
      /\ (\A s \in 1..Len(sockets) : sockets[s] \in SocketSet(visits))
      /\ (sockets # <<>> => Len(sockets) \in 1..Len(sockets))
  BY <1>1, LenProperties, EmptySeq
<1>3. SUFFICES visits' \in Nat /\ mounted' \in BOOLEAN /\ sockets' \in Seq(SocketSet(visits'))
               /\ (mounted' => sockets' # <<>>)
  BY DEF Sockets, SocketSet
<1>4. CASE UNCHANGED <<visits, mounted, sockets>>
  BY <1>1, <1>4
<1>5. ASSUME NEW s \in DOMAIN sockets, NEW x \in SocketSet(visits),
             sockets' = [sockets EXCEPT ![s] = x], visits' = visits,
             mounted' = mounted \/ mounted' = FALSE
      PROVE  visits' \in Nat /\ mounted' \in BOOLEAN /\ sockets' \in Seq(SocketSet(visits'))
             /\ (mounted' => sockets' # <<>>)
  <2>1. sockets' \in Seq(SocketSet(visits)) /\ Len(sockets') = Len(sockets)
    BY <1>1, <1>2, <1>5, ExceptSeq
  <2>2. Len(sockets') # 0
    BY <1>2, <2>1
  <2>3. sockets' # <<>>
    BY <2>2, EmptySeq
  <2> QED
    BY <1>1, <1>5, <2>1, <2>3
<1>6. ASSUME NEW s \in DOMAIN sockets, SocketOpens(s) \/ SocketDrops(s)
      PROVE  visits' \in Nat /\ mounted' \in BOOLEAN /\ sockets' \in Seq(SocketSet(visits'))
             /\ (mounted' => sockets' # <<>>)
  <2>1. PICK x : sockets' = [sockets EXCEPT ![s] = x]
                 /\ (x = [sockets[s] EXCEPT !.open = TRUE]
                     \/ x = [sockets[s] EXCEPT !.open = FALSE, !.room = FALSE])
    BY <1>6 DEF SocketOpens, SocketDrops
  <2>2. sockets[s] \in SocketSet(visits)
    BY <1>2
  <2>3. x \in SocketSet(visits)
    BY <2>1, <2>2 DEF SocketSet
  <2>4. UNCHANGED <<visits, mounted>>
    BY <1>6 DEF SocketOpens, SocketDrops, lives
  <2> QED
    BY <1>5, <2>1, <2>3, <2>4
<1>7. CASE PageUnmounts
  <2>1. mounted /\ mounted' = FALSE /\ visits' = visits
        /\ sockets' = [sockets EXCEPT ![Len(sockets)] = Emit(sockets[Len(sockets)], "leave_rfq")]
    BY <1>7 DEF PageUnmounts
  <2>2. Emit(sockets[Len(sockets)], "leave_rfq") \in SocketSet(visits)
    BY <1>1, <1>2, <2>1, Emitted
  <2> QED
    BY <1>1, <1>2, <1>5, <2>1, <2>2
<1>8. CASE PageMounts
  <2> DEFINE all == Connected
             top == Len(all)
             was == Emit(all[top], "join_rfq")
             x == Joined(all[top], visits')
  <2>1. mounted' = TRUE /\ visits' = visits + 1 /\ sockets' = [all EXCEPT ![top] = x]
    BY <1>8 DEF PageMounts
  <2>2. all \in Seq(SocketSet(visits)) /\ top \in Nat /\ top \in 1..top
    BY ConnectedIs
  <2>3. SocketSet(visits) \subseteq SocketSet(visits')
    <3>1. 1..visits \subseteq 1..visits'
      BY <1>1, <2>1
    <3> QED
      BY <3>1 DEF SocketSet
  <2> HIDE DEF all, top
  <2>4. all \in Seq(SocketSet(visits')) /\ DOMAIN all = 1..Len(all)
        /\ \A i \in 1..Len(all) : all[i] \in SocketSet(visits')
    BY <2>2, <2>3, SeqGrows, LenProperties
  <2>5. visits' \in Nat /\ visits' \in 1..visits'
    BY <1>1, <2>1
  <2>6. was \in SocketSet(visits')
    BY <2>2, <2>4, <2>5, Emitted DEF top
  <2>9. x = [was EXCEPT !.listeners = @ \cup {visits'}]
    BY DEF Joined
  <2> HIDE DEF was, x
  <2>7. x \in SocketSet(visits')
    BY <2>5, <2>6, <2>9 DEF SocketSet
  <2> HIDE DEF x
  <2>8. sockets' \in Seq(SocketSet(visits')) /\ Len(sockets') = Len(all)
    BY <2>1, <2>2, <2>4, <2>7, ExceptSeq DEF top
  <2> QED
    BY <2>1, <2>2, <2>5, <2>8, EmptySeq DEF top
<1> QED
  BY <1>4, <1>6, <1>7, <1>8, SocketMoves

(* On a server that understands both messages the room keeps following the  *)
(* page: it is left before it is joined again.                              *)
LEMMA RoomFollowsPageStep ==
    Sockets /\ RoomFollowsPage /\ [LiveNext]_liveVars => RoomFollowsPage'
<1> SUFFICES ASSUME Sockets, RoomFollowsPage, [LiveNext]_liveVars,
                    protocol = {"join_rfq", "leave_rfq"},
                    NEW t \in DOMAIN sockets', sockets'[t].room
             PROVE  mounted' /\ t = Len(sockets')
  BY SocketMoves DEF RoomFollowsPage
<1>1. /\ visits \in Nat /\ mounted \in BOOLEAN /\ sockets \in Seq(SocketSet(visits))
      /\ mounted => sockets # <<>>
      /\ \A s \in DOMAIN sockets : sockets[s].room => mounted /\ s = Len(sockets)
  BY DEF Sockets, SocketSet, RoomFollowsPage
<1>2. Len(sockets) \in Nat /\ DOMAIN sockets = 1..Len(sockets)
      /\ (\A s \in 1..Len(sockets) : sockets[s] \in SocketSet(visits))
      /\ (sockets # <<>> => Len(sockets) \in 1..Len(sockets))
  BY <1>1, LenProperties, EmptySeq
<1>4. CASE UNCHANGED <<visits, mounted, sockets>>
  BY <1>1, <1>4
<1>6. ASSUME NEW s \in DOMAIN sockets, SocketOpens(s) \/ SocketDrops(s)
      PROVE  mounted' /\ t = Len(sockets')
  <2>1. PICK x : sockets' = [sockets EXCEPT ![s] = x]
                 /\ (x = [sockets[s] EXCEPT !.open = TRUE]
                     \/ x = [sockets[s] EXCEPT !.open = FALSE, !.room = FALSE])
    BY <1>6 DEF SocketOpens, SocketDrops
  <2>2. sockets[s] \in SocketSet(visits)
    BY <1>2
  <2>3. x \in SocketSet(visits) /\ (x.room => sockets[s].room)
    BY <2>1, <2>2 DEF SocketSet
  <2>4. UNCHANGED <<visits, mounted>>
    BY <1>6 DEF SocketOpens, SocketDrops, lives
  <2>5. /\ Len(sockets') = Len(sockets) /\ sockets' \in Seq(SocketSet(visits))
        /\ \A j \in 1..Len(sockets) : sockets'[j] = IF j = s THEN x ELSE sockets[j]
    BY <1>1, <1>2, <2>1, <2>3, ExceptSeq
  <2>6. t \in 1..Len(sockets)
    BY <2>5, LenProperties
  <2>7. sockets[t].room
    BY <2>3, <2>5, <2>6
  <2> QED
    BY <1>1, <1>2, <2>4, <2>5, <2>6, <2>7
<1>7. CASE PageUnmounts
  <2> DEFINE l == Len(sockets)
             x == Emit(sockets[l], "leave_rfq")
  <2>1. mounted /\ mounted' = FALSE /\ sockets' = [sockets EXCEPT ![l] = x]
    BY <1>7 DEF PageUnmounts
  <2>2. x \in SocketSet(visits) /\ x.room = FALSE
    BY <1>1, <1>2, <2>1, Emitted
  <2> HIDE DEF x
  <2>5. /\ Len(sockets') = Len(sockets) /\ sockets' \in Seq(SocketSet(visits))
        /\ \A j \in 1..Len(sockets) : sockets'[j] = IF j = l THEN x ELSE sockets[j]
    BY <1>1, <1>2, <2>1, <2>2, ExceptSeq
  <2>6. t \in 1..Len(sockets)
    BY <2>5, LenProperties
  <2>7. t # l /\ sockets[t].room
    BY <2>2, <2>5, <2>6
  <2> QED
    BY <1>1, <1>2, <2>6, <2>7
<1>8. CASE PageMounts
  <2> DEFINE all == Connected
             top == Len(all)
             x == Joined(all[top], visits')
  <2>1. ~mounted /\ mounted' = TRUE /\ visits' = visits + 1 /\ sockets' = [all EXCEPT ![top] = x]
    BY <1>8 DEF PageMounts
  <2>2. all \in Seq(SocketSet(visits)) /\ top \in Nat /\ top \in 1..top
        /\ \A s \in 1..Len(all) : all[s].room => s \in DOMAIN sockets /\ sockets[s].room
    BY ConnectedIs
  <2> HIDE DEF all, top, x
  <2>3. all \in [1..top -> SocketSet(visits)]
    BY <2>2, LenProperties DEF top
  <2>4. DOMAIN sockets' = 1..top /\ \A j \in 1..top : j # top => sockets'[j] = all[j]
    BY <2>1, <2>3
  <2>5. Len(sockets') = top
    BY <2>1, <2>2, <2>4, LenProperties
  <2>6. ASSUME t # top PROVE FALSE
    <3>1. all[t].room /\ t \in 1..top
      BY <2>4, <2>6
    <3> QED
      BY <1>1, <2>1, <2>2, <3>1 DEF top
  <2> QED
    BY <2>1, <2>5, <2>6
<1> QED
  BY <1>4, <1>6, <1>7, <1>8, SocketMoves

----------------------------------------------------------------------------
(* The auction. *)

(* An accepted bid takes the next number. *)
LEMMA AcceptedLedger ==
    ASSUME LedgerNumbered, NEW r \in Requests, Accept(r)
    PROVE  LedgerNumbered' /\ ledger \subseteq ledger'
<1> DEFINE n == Cardinality(ledger)
           bid == [id |-> n + 1, supplier |-> r.supplier, price |-> r.price, client |-> r.client]
<1>1. ledger' = ledger \cup {bid}
  BY DEF Accept
<1>2. n \in Nat
  BY FS_CardinalityType DEF LedgerNumbered
<1>3. bid.id = n + 1 /\ bid.price \in Nat
  BY LiveAssumption
<1> HIDE DEF bid, n
<1>4. bid \notin ledger
  <2>1. \A b \in ledger : b.id \in 1..n
    BY DEF LedgerNumbered, n
  <2> QED
    BY <1>2, <1>3, <2>1
<1>5. IsFiniteSet(ledger') /\ Cardinality(ledger') = n + 1
  BY <1>1, <1>4, FS_AddElement DEF LedgerNumbered, n
<1>6. \A b \in ledger : b.id \in 1..n /\ b.price \in Nat
  BY DEF LedgerNumbered, n
<1>7. \A b, c \in ledger' : b.id = c.id => b = c
  BY <1>1, <1>2, <1>3, <1>6 DEF LedgerNumbered
<1>8. \A b \in ledger' : b.id \in 1..(n + 1) /\ b.price \in Nat
  BY <1>1, <1>2, <1>3, <1>6
<1> QED
  BY <1>1, <1>5, <1>7, <1>8 DEF LedgerNumbered

(* What an accepted bid does to the close time and the trail. *)
LEMMA AcceptedClose ==
    ASSUME TrailExplains, RuleExtends, NEW r \in Requests, Accepts(r)
    PROVE  /\ status = "ACTIVE" /\ UNCHANGED <<now, terms, status>>
           /\ close' \in Nat /\ close <= close'
           /\ \/ close' = close /\ trail' = trail
              \/ close' # close /\ trail' = Append(trail, close')
           /\ close \in {terms.close} \cup ToSet(trail)
<1>1. Accept(r) /\ trail' = IF close' = close THEN trail ELSE Append(trail, close')
  BY DEF Accepts
<1>2. status = "ACTIVE" /\ UNCHANGED <<now, terms, status>>
  BY <1>1 DEF Accept
<1>3. PICK seen \in 0..now : close' \in CloseRule(close, terms, r, ledger, seen)
  BY <1>1 DEF Accept
<1>4. close \in Nat /\ terms \in Terms /\ seen \in Nat
  BY <1>3 DEF TrailExplains
<1>5. close' \in Nat /\ close <= close'
  BY <1>3, <1>4 DEF RuleExtends
<1> QED
  BY <1>1, <1>2, <1>5 DEF TrailExplains

(* The ledger stays numbered. *)
LEMMA LedgerNumberedStep == LedgerNumbered /\ [LiveNext]_liveVars => LedgerNumbered'
<1> SUFFICES ASSUME LedgerNumbered, [LiveNext]_liveVars PROVE LedgerNumbered'
  OBVIOUS
<1>1. ASSUME UNCHANGED ledger PROVE LedgerNumbered'
  BY <1>1 DEF LedgerNumbered
<1>2. Opens \/ Closes \/ Ticks \/ Finalizes \/ UNCHANGED auction => UNCHANGED ledger
  BY DEF Opens, Closes, Ticks, Finalizes, auction, Open, Finalize, ForceFinalize, Tick
<1>3. ASSUME NEW r \in Requests, Accepts(r) PROVE LedgerNumbered'
  BY <1>3, AcceptedLedger DEF Accepts
<1> QED
  BY <1>1, <1>2, <1>3, AuctionMoves

(* The trail goes on explaining the close time. *)
LEMMA TrailExplainsStep ==
    TrailExplains /\ RuleExtends /\ [LiveNext]_liveVars => TrailExplains'
<1> SUFFICES ASSUME TrailExplains, RuleExtends, [LiveNext]_liveVars PROVE TrailExplains'
  OBVIOUS
<1>0. /\ now \in Nat /\ close \in Nat /\ terms \in Terms /\ terms.close \in Nat
      /\ status \in {"NONE", "ACTIVE", "CLOSED"}
      /\ trail \in Seq(Nat)
      /\ \A c \in ToSet(trail) : terms.close <= c
      /\ status = "ACTIVE" => close \in {terms.close} \cup ToSet(trail)
  BY LiveAssumption DEF TrailExplains
<1>1. CASE Opens
  BY <1>0, <1>1 DEF Opens, Open, TrailExplains
<1>2. CASE Closes \/ Finalizes
  <2>1. UNCHANGED <<now, terms, trail>> /\ status' = "CLOSED" /\ close' \in Nat
    BY <1>0, <1>2 DEF Closes, Finalizes, Finalize, ForceFinalize
  <2> QED
    BY <1>0, <2>1 DEF TrailExplains
<1>3. CASE Ticks
  BY <1>0, <1>3 DEF Ticks, Tick, TrailExplains
<1>4. CASE UNCHANGED auction
  BY <1>0, <1>4 DEF auction, TrailExplains
<1>5. ASSUME NEW r \in Requests, Accepts(r) PROVE TrailExplains'
  <2>1. /\ status = "ACTIVE" /\ UNCHANGED <<now, terms, status>>
        /\ close' \in Nat /\ close <= close'
        /\ \/ close' = close /\ trail' = trail
           \/ close' # close /\ trail' = Append(trail, close')
        /\ close \in {terms.close} \cup ToSet(trail)
    BY <1>5, AcceptedClose
  <2>2. CASE close' = close /\ trail' = trail
    BY <1>0, <2>1, <2>2 DEF TrailExplains
  <2>3. CASE close' # close /\ trail' = Append(trail, close')
    <3>1. trail' \in Seq(Nat) /\ ToSet(trail') = ToSet(trail) \cup {close'}
      BY <1>0, <2>1, <2>3, AppendElements, AppendProperties
    <3>2. terms.close <= close /\ ToSet(trail) \subseteq Nat
      BY <1>0, <2>1, ElementsOf
    <3>3. terms.close <= close'
      BY <1>0, <2>1, <3>2
    <3> QED
      BY <1>0, <2>1, <3>1, <3>3 DEF TrailExplains
  <2> QED
    BY <2>1, <2>2, <2>3
<1> QED
  BY <1>1, <1>2, <1>3, <1>4, <1>5, AuctionMoves

(* History only grows. *)
LEMMA HistoryGrows ==
    ASSUME LedgerNumbered, TrailExplains, RuleExtends, [LiveNext]_liveVars
    PROVE  /\ ledger \subseteq ledger'
           /\ ToSet(trail) \subseteq ToSet(trail')
           /\ \A s \in Seq(Nat) : IsPrefix(s, trail) => IsPrefix(s, trail')
           /\ status = "CLOSED" => status' = "CLOSED"
           /\ status # "NONE" => status' # "NONE" /\ CloseTimes \subseteq CloseTimes'
<1>0. /\ status \in {"NONE", "ACTIVE", "CLOSED"}
      /\ trail \in Seq(Nat)
      /\ status = "ACTIVE" => close \in {terms.close} \cup ToSet(trail)
  BY DEF TrailExplains
<1>1. CASE Opens
  BY <1>1 DEF Opens, Open
<1>2. CASE Closes \/ Finalizes
  <2>1. UNCHANGED <<terms, trail, ledger>> /\ status' = "CLOSED" /\ status = "ACTIVE"
    BY <1>2 DEF Closes, Finalizes, Finalize, ForceFinalize
  <2>2. CloseTimes \subseteq CloseTimes'
    BY <1>0, <2>1 DEF CloseTimes
  <2> QED
    BY <2>1, <2>2
<1>3. CASE Ticks \/ UNCHANGED auction
  <2>1. UNCHANGED <<terms, status, close, trail, ledger>>
    BY <1>3 DEF Ticks, Tick, auction
  <2> QED
    BY <2>1 DEF CloseTimes
<1>5. ASSUME NEW r \in Requests, Accepts(r)
      PROVE  /\ ledger \subseteq ledger'
             /\ ToSet(trail) \subseteq ToSet(trail')
             /\ \A s \in Seq(Nat) : IsPrefix(s, trail) => IsPrefix(s, trail')
             /\ status = "CLOSED" => status' = "CLOSED"
             /\ status # "NONE" => status' # "NONE" /\ CloseTimes \subseteq CloseTimes'
  <2>1. /\ status = "ACTIVE" /\ UNCHANGED <<now, terms, status>> /\ close' \in Nat
        /\ \/ close' = close /\ trail' = trail
           \/ close' # close /\ trail' = Append(trail, close')
        /\ close \in {terms.close} \cup ToSet(trail)
    BY <1>5, AcceptedClose
  <2>2. ledger \subseteq ledger'
    BY <1>5, AcceptedLedger DEF Accepts
  <2>3. ToSet(trail) \subseteq ToSet(trail')
    <3>1. ToSet(Append(trail, close')) = ToSet(trail) \cup {close'}
      BY <1>0, <2>1, AppendElements
    <3> QED
      BY <2>1, <3>1
  <2>4. CloseTimes \subseteq CloseTimes'
    BY <2>1, <2>3 DEF CloseTimes
  <2>5. ASSUME NEW s \in Seq(Nat), IsPrefix(s, trail) PROVE IsPrefix(s, trail')
    BY <1>0, <2>1, <2>5, PrefixAppend
  <2> QED
    BY <2>1, <2>2, <2>3, <2>4, <2>5
<1> QED
  BY <1>1, <1>2, <1>3, <1>5, AuctionMoves

(* What was history stays history. *)
LEMMA HistoriesStay ==
    ASSUME LedgerNumbered, TrailExplains, RuleExtends, [LiveNext]_liveVars, status # "NONE"
    PROVE  Histories \subseteq Histories'
<1>1. /\ ledger \subseteq ledger' /\ CloseTimes \subseteq CloseTimes'
      /\ \A s \in Seq(Nat) : IsPrefix(s, trail) => IsPrefix(s, trail')
      /\ status = "CLOSED" => status' = "CLOSED"
      /\ role' = role
  BY HistoryGrows, SocketMoves
<1> SUFFICES ASSUME NEW data \in Histories PROVE data \in Histories'
  OBVIOUS
<1>2. /\ data \in [status : {"ACTIVE", "CLOSED"}, close : CloseTimes,
                   bids : Seq(ledger), trail : Seq(Nat)]
      /\ data.status = "CLOSED" => status = "CLOSED"
      /\ IsPrefix(data.trail, trail)
      /\ role = "supplier" => Once(data.bids)
  BY DEF Histories
<1>3. data.bids \in Seq(ledger')
  BY <1>1, <1>2, SeqGrows
<1>4. data \in [status : {"ACTIVE", "CLOSED"}, close : CloseTimes',
                bids : Seq(ledger'), trail : Seq(Nat)]
  BY <1>1, <1>2, <1>3
<1>5. IsPrefix(data.trail, trail')
  BY <1>1, <1>2
<1> QED
  BY <1>1, <1>2, <1>4, <1>5 DEF Histories, Once

(* What there was to tell can still be told. *)
LEMMA NewsStay ==
    ASSUME LedgerNumbered, TrailExplains, RuleExtends, [LiveNext]_liveVars
    PROVE  News \subseteq News'
<1>1. /\ ledger \subseteq ledger'
      /\ ToSet(trail) \subseteq ToSet(trail')
      /\ status = "CLOSED" => status' = "CLOSED"
  BY HistoryGrows
<1> QED
  BY <1>1 DEF News

----------------------------------------------------------------------------
(* What the listeners make of the cached data. *)

(* A bid goes in somewhere, and nothing else changes.                       *)
LEMMA AmongIs ==
    ASSUME NEW S, NEW bids \in Seq(S), NEW bid \in S
    PROVE  LET t == Among(bid, bids)
           IN  /\ t \in Seq(S) /\ Len(t) = Len(bids) + 1
               /\ \E k \in 1..(Len(bids) + 1) :
                     \A i \in 1..(Len(bids) + 1) :
                        \/ i < k /\ t[i] = bids[i]
                        \/ i = k /\ t[i] = bid
                        \/ k < i /\ t[i] = bids[i - 1]
<1> DEFINE n == Len(bids)
           I == {i \in 1..n : bids[i].price >= bid.price}
           t == Among(bid, bids)
<1>1. n \in Nat
  BY LenProperties
<1>2. t = IF I = {} THEN Append(bids, bid) ELSE InsertAt(bids, Min(I), bid)
  <2>1. SelectInSeq(bids, LAMBDA b : b.price >= bid.price) = IF I # {} THEN Min(I) ELSE 0
    BY DEF SelectInSeq
  <2>2. I # {} => Min(I) # 0
    <3>1. I \in SUBSET Nat /\ 0 \notin I
      OBVIOUS
    <3> HIDE DEF I
    <3> QED
      BY <3>1, MinIs
  <2> QED
    BY <2>1, <2>2 DEF Among
<1>3. CASE I = {}
  <2> HIDE DEF I, t
  <2>1. /\ t \in Seq(S) /\ Len(t) = n + 1
        /\ \A i \in 1..n : t[i] = bids[i]
        /\ t[n + 1] = bid
    BY <1>2, <1>3, AppendProperties
  <2>2. \A i \in 1..(n + 1) : \/ i < n + 1 /\ t[i] = bids[i]
                              \/ i = n + 1 /\ t[i] = bid
    BY <1>1, <2>1
  <2>3. n + 1 \in 1..(n + 1)
    BY <1>1
  <2> QED
    BY <2>1, <2>2, <2>3 DEF t
<1>4. CASE I # {}
  <2> DEFINE k == Min(I)
  <2>0. I \in SUBSET Nat
    OBVIOUS
  <2>1. k \in 1..n
    <3>1. k \in I
      <4> HIDE DEF I
      <4> QED
        BY <1>4, <2>0, MinIs
    <3> HIDE DEF k
    <3> QED
      BY <3>1
  <2> HIDE DEF k
  <2>2. t = InsertAt(bids, k, bid)
    BY <1>2, <1>4 DEF k
  <2> HIDE DEF t
  <2>3. /\ t \in Seq(S) /\ Len(t) = n + 1
        /\ \A i \in 1..(n + 1) :
              t[i] = IF i < k THEN bids[i] ELSE IF i = k THEN bid ELSE bids[i - 1]
    BY <2>1, <2>2, PutAt
  <2>4. \A i \in 1..(n + 1) : \/ i < k /\ t[i] = bids[i]
                              \/ i = k /\ t[i] = bid
                              \/ k < i /\ t[i] = bids[i - 1]
    BY <1>1, <2>1, <2>3
  <2>5. k \in 1..(n + 1)
    BY <1>1, <2>1
  <2> QED
    BY <2>3, <2>4, <2>5 DEF t
<1> QED
  BY <1>3, <1>4

(* A bid whose id is not there keeps the ids apart. *)
LEMMA AmongOnce ==
    ASSUME NEW S, NEW bids \in Seq(S), NEW bid \in S, Once(bids),
           \A i \in DOMAIN bids : bids[i].id # bid.id
    PROVE  Once(Among(bid, bids))
<1> DEFINE n == Len(bids)
           t == Among(bid, bids)
<1>1. t \in Seq(S) /\ Len(t) = n + 1
  BY AmongIs
<1>2. PICK k \in 1..(n + 1) : \A i \in 1..(n + 1) :
                        \/ i < k /\ t[i] = bids[i]
                        \/ i = k /\ t[i] = bid
                        \/ k < i /\ t[i] = bids[i - 1]
  BY AmongIs
<1>3. n \in Nat /\ DOMAIN bids = 1..n /\ DOMAIN t = 1..(n + 1)
  BY <1>1, LenProperties
<1> HIDE DEF n, t
<1> SUFFICES ASSUME NEW i \in 1..(n + 1), NEW j \in 1..(n + 1), t[i].id = t[j].id PROVE i = j
  BY <1>3 DEF Once, t
<1> DEFINE from(m) == IF m < k THEN m ELSE m - 1
<1>4. \A m \in 1..(n + 1) : m # k => from(m) \in 1..n /\ t[m] = bids[from(m)]
  BY <1>2, <1>3
<1>5. \A l, m \in 1..(n + 1) : l # k /\ m # k /\ from(l) = from(m) => l = m
  BY <1>3
<1>6. t[k] = bid
  BY <1>2
<1> HIDE DEF from
<1>7. \A l, m \in 1..n : bids[l].id = bids[m].id => l = m
  BY <1>3 DEF Once
<1>8. CASE i = k \/ j = k
  BY <1>3, <1>4, <1>6, <1>8
<1>9. CASE i # k /\ j # k
  BY <1>4, <1>5, <1>7, <1>9
<1> QED
  BY <1>8, <1>9

(* A listener makes history of history. *)
LEMMA HandledIsHistory ==
    ASSUME NEW e \in News, NEW data \in {NoData} \cup Histories
    PROVE  Handled(e, data) \in {NoData} \cup Histories
<1>1. CASE data = NoData
  BY <1>1 DEF Handled
<1>2. CASE data # NoData
  <2>1. /\ data \in [status : {"ACTIVE", "CLOSED"}, close : CloseTimes,
                     bids : Seq(ledger), trail : Seq(Nat)]
        /\ data.status = "CLOSED" => status = "CLOSED"
        /\ IsPrefix(data.trail, trail)
        /\ role = "supplier" => Once(data.bids)
    BY <1>2 DEF Histories
  <2>2. ASSUME NEW b \in ledger, e = BidPlaced(b) PROVE Handled(e, data) \in Histories
    <3> DEFINE bids == IF role = "supplier" THEN SupplierAdds(b, data.bids)
                                            ELSE BuyerAdds(b, data.bids)
    <3>1. Handled(e, data) = [data EXCEPT !.bids = bids]
      BY <1>2, <2>2 DEF Handled, BidPlaced
    <3>2. bids = data.bids \/ bids = Among(b, data.bids)
      BY DEF SupplierAdds, BuyerAdds
    <3>3. bids \in Seq(ledger)
      <4>1. data.bids \in Seq(ledger)
        BY <2>1
      <4>2. Among(b, data.bids) \in Seq(ledger)
        BY <4>1, AmongIs
      <4> QED
        BY <3>2, <4>1, <4>2
    <3>4. ASSUME role = "supplier" PROVE Once(bids)
      <4>1. CASE \E i \in DOMAIN data.bids : data.bids[i].id = b.id
        BY <2>1, <3>4, <4>1 DEF SupplierAdds
      <4>2. CASE ~ \E i \in DOMAIN data.bids : data.bids[i].id = b.id
        BY <2>1, <3>4, <4>2, AmongOnce DEF SupplierAdds
      <4> QED
        BY <4>1, <4>2
    <3> HIDE DEF bids
    <3> QED
      BY <2>1, <3>1, <3>3, <3>4 DEF Histories
  <2>3. ASSUME NEW c \in ToSet(trail), e = Extended(c) PROVE Handled(e, data) \in Histories
    <3>1. Handled(e, data) = [data EXCEPT !.close = c]
      BY <1>2, <2>3 DEF Handled, Extended
    <3>2. c \in CloseTimes
      BY DEF CloseTimes
    <3> QED
      BY <2>1, <3>1, <3>2 DEF Histories
  <2>4. ASSUME status = "CLOSED", e = Closed PROVE Handled(e, data) \in Histories
    <3>1. Handled(e, data) = [data EXCEPT !.status = "CLOSED"]
      BY <1>2, <2>4 DEF Handled, Closed
    <3> QED
      BY <2>1, <2>4, <3>1 DEF Histories
  <2> QED
    BY <2>2, <2>3, <2>4 DEF News
<1> QED
  BY <1>1, <1>2

(* One listener after the other stays in a set that each stays in.  A       *)
(* recursive function is a CHOOSE: there is one for every n, for otherwise  *)
(* there would be a least n without, and its values stay in the set, for    *)
(* otherwise there would be a first that does not.                          *)
LEMMA HandledByStays ==
    ASSUME NEW n \in Nat, NEW e, NEW D, NEW data \in D, \A d \in D : Handled(e, d) \in D
    PROVE  HandledBy(n, e, data) \in D
<1> DEFINE Steps(f, m) == f = [i \in 0..m |-> IF i = 0 THEN data ELSE Handled(e, f[i - 1])]
           Bad == {m \in Nat : ~ \E f : Steps(f, m)}
<1>1. ASSUME Bad # {} PROVE FALSE
  <2>1. Bad \in SUBSET Nat
    OBVIOUS
  <2>2. PICK m \in Bad : \A k \in Bad : m <= k
    <3> HIDE DEF Bad
    <3> QED
      BY <1>1, <2>1, LeastOf
  <2>3. m \in Nat /\ ~ \E f : Steps(f, m)
    BY <2>2
  <2>4. m # 0
    <3>1. Steps([i \in 0..0 |-> data], 0)
      OBVIOUS
    <3> QED
      BY <2>3, <3>1
  <2>5. m - 1 \in Nat /\ m - 1 \notin Bad
    BY <2>2, <2>3, <2>4
  <2>6. PICK f : Steps(f, m - 1)
    BY <2>5
  <2> DEFINE g == [i \in 0..m |-> IF i = m THEN Handled(e, f[m - 1]) ELSE f[i]]
  <2>7. \A i \in 0..m : g[i] = IF i = 0 THEN data ELSE Handled(e, g[i - 1])
    <3>1. TAKE i \in 0..m
    <3>2. CASE i = 0
      BY <2>3, <2>4, <2>6, <3>2
    <3>3. CASE i # 0 /\ i # m
      <4>1. i \in 0..(m - 1) /\ i - 1 \in 0..m /\ i - 1 # m
        BY <2>3, <3>3
      <4> QED
        BY <2>6, <3>3, <4>1
    <3>4. CASE i = m
      <4>1. i - 1 \in 0..m /\ i - 1 # m
        BY <2>3, <2>4, <3>4
      <4> QED
        BY <2>4, <3>4, <4>1
    <3> QED
      BY <3>2, <3>3, <3>4
  <2>8. Steps(g, m)
    <3>1. g = [i \in 0..m |-> g[i]]
      OBVIOUS
    <3> HIDE DEF g
    <3> QED
      BY <2>7, <3>1
  <2> QED
    BY <2>3, <2>8
<1>2. \E f : Steps(f, n)
  BY <1>1
<1> DEFINE h == CHOOSE f : Steps(f, n)
<1>3. Steps(h, n)
  BY <1>2
<1>4. HandledBy(n, e, data) = h[n]
  BY DEF HandledBy
<1> HIDE DEF h
<1>5. \A i \in 0..n : h[i] = IF i = 0 THEN data ELSE Handled(e, h[i - 1])
  BY <1>3
<1> DEFINE Out == {i \in 0..n : h[i] \notin D}
<1>6. ASSUME Out # {} PROVE FALSE
  <2>1. Out \in SUBSET Nat
    OBVIOUS
  <2>2. PICK i \in Out : \A k \in Out : i <= k
    <3> HIDE DEF Out
    <3> QED
      BY <1>6, <2>1, LeastOf
  <2>3. i \in 0..n /\ h[i] \notin D /\ i # 0
    BY <1>5, <2>2
  <2>4. i - 1 \in 0..n /\ i - 1 \notin Out
    BY <2>2, <2>3
  <2>5. h[i - 1] \in D
    BY <2>4
  <2> QED
    BY <1>5, <2>3, <2>5
<1>7. n \in 0..n
  OBVIOUS
<1> QED
  BY <1>4, <1>6, <1>7

----------------------------------------------------------------------------
(* What the server answers. *)

(* The bids of an answer. *)
Answered == InOrder(ledger, LAMBDA a, b : \/ a.price < b.price
                                          \/ a.price = b.price /\ a.id < b.id)

(* An answer has the bids of the ledger, each once. *)
LEMMA AnsweredIsHistory ==
    ASSUME LedgerNumbered
    PROVE  Answered \in Seq(ledger) /\ Once(Answered)
<1> DEFINE before(a, b) == \/ a.price < b.price
                           \/ a.price = b.price /\ a.id < b.id
           n == Cardinality(ledger)
           s == Answered
<1>1. PICK R : \A a, b \in ledger : <<a, b>> \in R <=> before(a, b)
  <2>1. \A a, b \in ledger : <<a, b>> \in {p \in ledger \X ledger : before(p[1], p[2])} <=> before(a, b)
    OBVIOUS
  <2> QED
    BY <2>1
<1>2. /\ IsFiniteSet(ledger) /\ n \in Nat
      /\ \A a \in ledger : a.id \in Nat /\ a.price \in Nat
      /\ \A a, b \in ledger : a.id = b.id => a = b
  <2>1. n \in Nat
    BY FS_CardinalityType DEF LedgerNumbered
  <2> QED
    BY <2>1 DEF LedgerNumbered
<1>3. Orders(R, ledger)
  <2>1. /\ \A a \in ledger : ~before(a, a)
        /\ \A a, b, c \in ledger : before(a, b) /\ before(b, c) => before(a, c)
        /\ \A a, b \in ledger : a = b \/ before(a, b) \/ before(b, a)
    BY <1>2
  <2> HIDE DEF before
  <2> QED
    BY <1>1, <2>1 DEF Orders
<1>4. \A b \in ledger : Preceding(R, ledger, b) = {a \in ledger : before(a, b)}
  <2> HIDE DEF before
  <2> QED
    BY <1>1 DEF Preceding
<1>5. s = [i \in 1..n |-> CHOOSE b \in ledger : Cardinality({a \in ledger : before(a, b)}) = i - 1]
  BY DEF Answered, InOrder
<1> HIDE DEF s, before
<1>6. \A i \in 1..n : s[i] \in ledger /\ Cardinality(Preceding(R, ledger, s[i])) = i - 1
  <2>1. TAKE i \in 1..n
  <2>2. i - 1 \in 0..n - 1
    BY <1>2
  <2>3. \E b : b \in ledger /\ Cardinality(Preceding(R, ledger, b)) = i - 1
    BY <1>2, <1>3, <2>2, Places
  <2>4. \E b \in ledger : Cardinality({a \in ledger : before(a, b)}) = i - 1
    BY <1>4, <2>3
  <2>5. s[i] = CHOOSE b \in ledger : Cardinality({a \in ledger : before(a, b)}) = i - 1
    BY <1>5
  <2>6. s[i] \in ledger /\ Cardinality({a \in ledger : before(a, s[i])}) = i - 1
    BY <2>4, <2>5
  <2> QED
    BY <1>4, <2>6
<1>7. s \in [1..n -> ledger]
  BY <1>5, <1>6
<1>8. Lists(s, ledger, R)
  BY <1>2, <1>3, <1>6, <1>7, ListsInOrder
<1>9. s \in Seq(ledger) /\ DOMAIN s = 1..n
  BY <1>2, <1>7, ListIsSeq
<1>10. \A i, j \in 1..n : s[i].id = s[j].id => i = j
  <2>1. TAKE i, j \in 1..n
  <2>2. HAVE s[i].id = s[j].id
  <2>3. s[i] = s[j] /\ s[i] \in ledger
    BY <1>2, <1>7, <2>2
  <2>4. ~(i < j) /\ ~(j < i)
    BY <1>3, <1>8, <2>3 DEF Lists, Orders
  <2> QED
    BY <1>2, <2>4
<1> QED
  BY <1>9, <1>10 DEF Once, s

----------------------------------------------------------------------------
(* Everything under way is history, and so is what is shown. *)

(* Only an accepted bid and a closure send events. *)
LEMMA OutboxMoves ==
    ASSUME [LiveNext]_liveVars
    PROVE  \/ outbox' \subseteq outbox
           \/ Closes
           \/ Finalizes
           \/ \E r \in Requests : Accepts(r)
BY DEF LiveNext, liveVars, lives, Opens, Ticks, RivalBids, Submits, Arrivals,
       EventArrives, Fetch, Fetches, ServerReadsRest, FetchArrives, FetchFails, SocketOpens,
       SocketDrops, PageMounts, PageUnmounts, CacheExpires, CountdownEnds

(* Only an event, an answer and the expiry change the cached data. *)
LEMMA CacheMoves ==
    ASSUME [LiveNext]_liveVars
    PROVE  \/ UNCHANGED cache
           \/ Arrivals
           \/ FetchArrives
           \/ cache' = NoData
BY DEF LiveNext, liveVars, lives, view, Opens, Closes, Finalizes, Ticks, RivalBids, Submits,
       Fetch, Fetches, ServerReadsRest, FetchFails, SocketOpens,
       SocketDrops, PageMounts, PageUnmounts, CacheExpires, CountdownEnds

(* Only the two halves of a fetch and its end change the query. *)
LEMMA QueryMoves ==
    ASSUME [LiveNext]_liveVars
    PROVE  \/ UNCHANGED query
           \/ Fetches
           \/ ServerReadsRest
           \/ query' = Quiet
BY DEF LiveNext, liveVars, lives, view, Opens, Closes, Finalizes, Ticks, RivalBids, Submits, Arrivals,
       EventArrives, Fetch, FetchArrives, FetchFails, SocketOpens,
       SocketDrops, PageMounts, PageUnmounts, CacheExpires, CountdownEnds

(* The events under way stay true. *)
LEMMA OutboxStep ==
    ASSUME LiveInv, RuleExtends, [LiveNext]_liveVars
    PROVE  outbox' \subseteq News'
<1>1. outbox \subseteq News' /\ News \subseteq News'
  BY NewsStay DEF LiveInv, EverythingIsHistory
<1>2. CASE Closes \/ Finalizes
  <2>1. outbox' = outbox \cup {Closed} /\ status' = "CLOSED"
    BY <1>2 DEF Closes, Finalizes, Finalize, ForceFinalize
  <2>2. Closed \in News'
    BY <2>1 DEF News
  <2> QED
    BY <1>1, <2>1, <2>2
<1>3. ASSUME NEW r \in Requests, Accepts(r) PROVE outbox' \subseteq News'
  <2>1. outbox' = outbox \cup {BidPlaced(b) : b \in ledger' \ ledger}
                         \cup (IF close' = close THEN {} ELSE {Extended(close')})
    BY <1>3 DEF Accepts
  <2>2. {BidPlaced(b) : b \in ledger' \ ledger} \subseteq News'
    BY DEF News
  <2>3. ASSUME close' # close PROVE Extended(close') \in News'
    <3>1. trail' = Append(trail, close') /\ trail \in Seq(Nat) /\ close' \in Nat
      BY <1>3, <2>3, AcceptedClose DEF LiveInv, TrailExplains
    <3>2. ToSet(Append(trail, close')) = ToSet(trail) \cup {close'}
      BY <3>1, AppendElements
    <3>3. close' \in ToSet(trail')
      BY <3>1, <3>2
    <3> QED
      BY <3>3 DEF News
  <2> QED
    BY <1>1, <2>1, <2>2, <2>3
<1> QED
  BY <1>1, <1>2, <1>3, OutboxMoves

(* As many listeners handle an event as there are visits that listen. *)
LEMMA ListeningIsFinite ==
    ASSUME Sockets
    PROVE  Cardinality(Listening) \in Nat
<1>1. visits \in Nat /\ sockets \in Seq(SocketSet(visits))
  BY DEF Sockets, SocketSet
<1>2. \A s \in DOMAIN sockets : sockets[s] \in SocketSet(visits)
  BY <1>1, LenProperties
<1>3. Listening \in SUBSET (1..visits)
  BY <1>2 DEF Listening, InRoom, SocketSet
<1>4. IsFiniteSet(1..visits)
  BY <1>1, FS_Interval
<1> QED
  BY <1>3, <1>4, FS_Subset, FS_CardinalityType

(* What is cached stays history. *)
LEMMA CacheStep ==
    ASSUME LiveInv, RuleExtends, [LiveNext]_liveVars
    PROVE  cache' \in {NoData} \cup Histories'
<1>1. ASSUME status # "NONE" PROVE Histories \subseteq Histories'
  BY <1>1, HistoriesStay DEF LiveInv
<1>2. CASE UNCHANGED cache
  BY <1>1, <1>2 DEF LiveInv, EverythingIsHistory, NothingBeforeOpening
<1>3. CASE Arrivals
  <2>1. PICK e \in outbox : EventArrives(e)
    BY <1>3 DEF Arrivals
  <2>2. \/ cache' = HandledBy(Cardinality(Listening), e, cache)
        \/ UNCHANGED cache
    BY <2>1 DEF EventArrives
  <2> DEFINE D == {NoData} \cup Histories
  <2>3. \A d \in D : Handled(e, d) \in D
    BY HandledIsHistory DEF LiveInv, EverythingIsHistory
  <2>4. cache \in D /\ Cardinality(Listening) \in Nat
    BY ListeningIsFinite DEF LiveInv, EverythingIsHistory
  <2> HIDE DEF D
  <2>5. HandledBy(Cardinality(Listening), e, cache) \in D
    BY <2>3, <2>4, HandledByStays
  <2>6. status # "NONE"
    BY DEF LiveInv, NothingBeforeOpening
  <2> QED
    BY <1>1, <1>2, <2>2, <2>5, <2>6 DEF D
<1>4. CASE FetchArrives
  <2>1. query.at = "answered" /\ cache' = query.data
    BY <1>4 DEF FetchArrives
  <2>2. query.data \in Histories /\ status # "NONE"
    BY <2>1 DEF LiveInv, EverythingIsHistory, NothingBeforeOpening, Quiet
  <2> QED
    BY <1>1, <2>1, <2>2
<1> QED
  BY <1>2, <1>3, <1>4, CacheMoves

(* What is being fetched stays history. *)
LEMMA QueryStep ==
    ASSUME LiveInv, RuleExtends, [LiveNext]_liveVars
    PROVE  IF query'.at = "idle" THEN query' = Quiet ELSE query'.data \in Histories'
<1>1. ASSUME status # "NONE" PROVE Histories \subseteq Histories'
  BY <1>1, HistoriesStay DEF LiveInv
<1>2. CASE UNCHANGED query
  <2>1. query.at # "idle" => status # "NONE"
    BY DEF LiveInv, NothingBeforeOpening, Quiet
  <2> QED
    BY <1>1, <1>2, <2>1 DEF LiveInv, EverythingIsHistory
<1>3. CASE Fetches
  <2> DEFINE d == [status |-> status, close |-> close, bids |-> <<>>, trail |-> <<>>]
  <2>1. query' = [at |-> "row", data |-> d] /\ status # "NONE"
    BY <1>3 DEF Fetches, NoData
  <2>2. d \in [status : {"ACTIVE", "CLOSED"}, close : CloseTimes,
               bids : Seq(ledger), trail : Seq(Nat)]
    BY <2>1, EmptySeq DEF LiveInv, TrailExplains, CloseTimes
  <2>3. Once(d.bids)
    BY DEF Once
  <2>4. IsPrefix(d.trail, trail)
    <3>1. trail \in Seq(Nat) /\ Len(trail) \in Nat
      BY LenProperties DEF LiveInv, TrailExplains
    <3>2. <<>> \in Seq(Nat) /\ Len(<<>>) = 0
      BY EmptySeq
    <3>3. Len(<<>>) <= Len(trail) /\ \A i \in 1..Len(<<>>) : <<>>[i] = trail[i]
      BY <3>1, <3>2
    <3>4. IsPrefix(<<>>, trail)
      BY <3>1, <3>2, <3>3, PrefixIs
    <3> QED
      BY <3>4
  <2>5. d \in Histories
    BY <2>2, <2>3, <2>4 DEF Histories
  <2> QED
    BY <1>1, <2>1, <2>5
<1>4. CASE ServerReadsRest
  <2> DEFINE d == [query.data EXCEPT !.trail = trail, !.bids = Answered]
  <2>1. query' = [at |-> "answered", data |-> d] /\ query.at = "row"
    BY <1>4 DEF ServerReadsRest, Answered
  <2>2. query.data \in Histories /\ status # "NONE"
    BY <2>1 DEF LiveInv, EverythingIsHistory, NothingBeforeOpening, Quiet
  <2>3. /\ query.data \in [status : {"ACTIVE", "CLOSED"}, close : CloseTimes,
                           bids : Seq(ledger), trail : Seq(Nat)]
        /\ query.data.status = "CLOSED" => status = "CLOSED"
    BY <2>2 DEF Histories
  <2>4. /\ Answered \in Seq(ledger) /\ Once(Answered)
        /\ trail \in Seq(Nat) /\ IsPrefix(trail, trail)
    BY AnsweredIsHistory, PrefixReflexive DEF LiveInv, TrailExplains
  <2>5. /\ d \in [status : {"ACTIVE", "CLOSED"}, close : CloseTimes,
                  bids : Seq(ledger), trail : Seq(Nat)]
        /\ d.status = query.data.status /\ d.trail = trail /\ d.bids = Answered
    BY <2>3, <2>4
  <2> HIDE DEF d
  <2>6. d \in Histories
    BY <2>3, <2>4, <2>5 DEF Histories
  <2> QED
    BY <1>1, <2>1, <2>2, <2>6
<1>5. CASE query' = Quiet
  BY <1>5 DEF Quiet
<1> QED
  BY <1>2, <1>3, <1>4, <1>5, QueryMoves

----------------------------------------------------------------------------
(* The invariant. *)

(* Nobody hears of the RFQ before it opens. *)
LEMMA NothingBeforeOpeningStep ==
    ASSUME LiveInv, [LiveNext]_liveVars
    PROVE  NothingBeforeOpening'
<1>1. SUFFICES ASSUME status' = "NONE"
               PROVE  ledger' = {} /\ outbox' = {} /\ cache' = NoData /\ query' = Quiet
  BY DEF NothingBeforeOpening
<1>2. /\ ~Opens /\ ~Closes /\ ~Finalizes
      /\ \A r \in Requests : ~Accepts(r)
  BY <1>1 DEF Opens, Open, Closes, Finalizes, Finalize, ForceFinalize, Accepts, Accept
<1>3. UNCHANGED <<status, ledger>>
  BY <1>2, AuctionMoves DEF Ticks, Tick, auction
<1>4. ledger = {} /\ outbox = {} /\ cache = NoData /\ query = Quiet
  BY <1>1, <1>3 DEF LiveInv, NothingBeforeOpening
<1>5. outbox' = {}
  BY <1>2, <1>4, OutboxMoves
<1>6. cache' = NoData
  BY <1>4, CacheMoves DEF Arrivals, FetchArrives, Quiet
<1>7. query' = Quiet
  BY <1>1, <1>3, <1>4, QueryMoves DEF Fetches, ServerReadsRest, Quiet
<1> QED
  BY <1>3, <1>4, <1>5, <1>6, <1>7

(* Only the countdown and a new visit change isOver. *)
LEMMA OverMoves ==
    ASSUME [LiveNext]_liveVars
    PROVE  \/ UNCHANGED over
           \/ CountdownEnds
           \/ over' = FALSE
BY DEF LiveNext, liveVars, lives, view, Opens, Closes, Finalizes, Ticks, RivalBids, Submits, Arrivals,
       EventArrives, Fetch, Fetches, ServerReadsRest, FetchArrives, FetchFails, SocketOpens,
       SocketDrops, PageMounts, PageUnmounts, CacheExpires

(* Neither the clock nor a closure goes back. *)
LEMMA TimeMoves ==
    ASSUME LiveInv, RuleExtends, [LiveNext]_liveVars
    PROVE  terms' = terms /\ now <= now' /\ (status = "CLOSED" => status' = "CLOSED")
<1>1. now \in Nat
  BY DEF LiveInv, TrailExplains
<1>2. ASSUME NEW r \in Requests, Accepts(r) PROVE UNCHANGED <<terms, now, status>>
  BY <1>2 DEF Accepts, Accept
<1> QED
  BY <1>1, <1>2, AuctionMoves DEF Opens, Open, Closes, Finalizes, Finalize, ForceFinalize,
       Ticks, Tick, auction

(* While the auction is open, its close times are at or after the first.    *)
LEMMA CloseTimesLater ==
    ASSUME LiveInv, status # "CLOSED", cache # NoData
    PROVE  cache.close \in Nat /\ terms.close <= cache.close
<1>1. status = "ACTIVE"
  BY DEF LiveInv, TrailExplains, NothingBeforeOpening
<1>2. cache.close \in CloseTimes
  BY DEF LiveInv, EverythingIsHistory, Histories
<1>3. ToSet(trail) \subseteq Nat /\ terms.close \in Nat
  BY ElementsOf, LiveAssumption DEF LiveInv, TrailExplains
<1>4. \A c \in CloseTimes : c \in Nat /\ terms.close <= c
  BY <1>1, <1>3 DEF LiveInv, TrailExplains, CloseTimes
<1> QED
  BY <1>2, <1>4

(* The countdown keeps its reason. *)
LEMMA OverWhenDueStep ==
    ASSUME LiveInv, RuleExtends, [LiveNext]_liveVars
    PROVE  OverWhenDue'
<1>1. now \in Nat /\ now' \in Nat /\ terms.close \in Nat
  BY TrailExplainsStep, LiveAssumption DEF LiveInv, TrailExplains
<1>2. terms' = terms /\ now <= now' /\ (status = "CLOSED" => status' = "CLOSED")
  BY TimeMoves
<1>3. CASE UNCHANGED over \/ over' = FALSE
  <2>1. SUFFICES ASSUME over' PROVE now' >= terms'.close \/ status' = "CLOSED"
    BY DEF OverWhenDue
  <2>2. over
    BY <1>3, <2>1, Zenon
  <2>3. now >= terms.close \/ status = "CLOSED"
    BY <2>2 DEF LiveInv, OverWhenDue
  <2> QED
    BY <1>1, <1>2, <2>3
<1>4. CASE CountdownEnds
  <2>1. cache # NoData /\ now >= cache.close
    BY <1>4 DEF CountdownEnds
  <2> QED
    BY <1>1, <1>2, <2>1, CloseTimesLater DEF OverWhenDue
<1> QED
  BY <1>3, <1>4, OverMoves

(* The invariant holds at first. *)
LEMMA LiveInvInit == LiveInit => LiveInv
<1> SUFFICES ASSUME LiveInit PROVE LiveInv
  OBVIOUS
<1>1. LedgerNumbered
  BY FS_EmptySet DEF LiveInit, Init, LedgerNumbered
<1>2. TrailExplains
  <2>1. <<>> \in Seq(Nat) /\ ToSet(<<>>) = {}
    BY EmptySeq DEF ToSet
  <2> QED
    BY <2>1 DEF LiveInit, Init, TrailExplains
<1>3. NothingBeforeOpening /\ EverythingIsHistory /\ OverWhenDue
  BY DEF LiveInit, Init, NothingBeforeOpening, EverythingIsHistory, OverWhenDue, Quiet
<1>4. Sockets
  BY EmptySeq DEF LiveInit, Sockets
<1>5. RoomFollowsPage
  BY DEF LiveInit, RoomFollowsPage
<1> QED
  BY <1>1, <1>2, <1>3, <1>4, <1>5 DEF LiveInv

(* And every step preserves it. *)
LEMMA LiveInvStep ==
    ASSUME RuleExtends
    PROVE  LiveInv /\ [LiveNext]_liveVars => LiveInv'
<1> SUFFICES ASSUME LiveInv, [LiveNext]_liveVars PROVE LiveInv'
  OBVIOUS
<1>1. LedgerNumbered' /\ TrailExplains' /\ Sockets' /\ RoomFollowsPage'
  BY LedgerNumberedStep, TrailExplainsStep, SocketsStep, RoomFollowsPageStep DEF LiveInv
<1>2. EverythingIsHistory'
  BY OutboxStep, CacheStep, QueryStep DEF EverythingIsHistory
<1> QED
  BY <1>1, <1>2, NothingBeforeOpeningStep, OverWhenDueStep DEF LiveInv

(* A live page keeps its invariant in front of any auction whose rules only *)
(* extend, whatever events are lost or late and however pages come and go.  *)
THEOREM LiveInvariance ==
    ASSUME RuleExtends
    PROVE  LiveSpec => []LiveInv
<1>1. LiveInit => LiveInv
  BY LiveInvInit
<1>2. LiveInv /\ [LiveNext]_liveVars => LiveInv'
  BY LiveInvStep
<1> QED
  BY <1>1, <1>2, PTL DEF LiveSpec

(* What the pages watch, and change by their bids and Force Finalize, is    *)
(* the auction of BritishAuction, which the backends implement.             *)
THEOREM PagesWatchTheAuction == LiveSpec => Spec
<1>1. LiveInit => Init
  BY DEF LiveInit
<1>2. [LiveNext]_liveVars => [Next]_vars
  <2> SUFFICES ASSUME [LiveNext]_liveVars PROVE [Next]_vars
    OBVIOUS
  <2>1. Opens \/ Closes \/ Ticks \/ Finalizes => Next
    BY DEF Opens, Closes, Ticks, Finalizes, Next
  <2>2. ASSUME NEW r \in Requests, Accepts(r) PROVE Next
    BY <2>2 DEF Accepts, Next
  <2>3. UNCHANGED auction => UNCHANGED vars
    BY DEF auction, vars
  <2> QED
    BY <2>1, <2>2, <2>3, AuctionMoves
<1> QED
  BY <1>1, <1>2, PTL DEF LiveSpec, Spec

(* However pages come and go while their sockets connect, a page has at     *)
(* most one socket in the room (lib/socket.ts:12, page.tsx:136-138) of a    *)
(* server that understands both join and leave.                             *)
THEOREM OneSocketInRoom == LiveSpec => []OneSubscription
<1> DEFINE I == Sockets /\ RoomFollowsPage
<1>1. LiveInit => I
  BY LiveInvInit DEF LiveInv
<1>2. I /\ [LiveNext]_liveVars => I'
  BY SocketsStep, RoomFollowsPageStep
<1>3. I => OneSubscription
  <2> SUFFICES ASSUME Sockets, RoomFollowsPage, protocol = {"join_rfq", "leave_rfq"}
               PROVE  Cardinality(InRoom) <= 1
    BY DEF OneSubscription
  <2> DEFINE last == {Len(sockets)}
  <2>1. InRoom \in SUBSET last
    BY DEF InRoom, RoomFollowsPage
  <2>2. IsFiniteSet(last) /\ Cardinality(last) = 1
    BY FS_Singleton
  <2> HIDE DEF last
  <2> QED
    BY <2>1, <2>2, FS_Subset
<1> HIDE DEF I
<1> QED
  BY <1>1, <1>2, <1>3, PTL DEF LiveSpec

(* A supplier's page shows a bid once (supplier/rfq/[id]/page.tsx:111-112), *)
(* for any number of listeners, sockets, visits and bids.                   *)
THEOREM BidsShownOnce ==
    ASSUME RuleExtends
    PROVE  LiveSpec => []SupplierSeesBidOnce
<1>1. LiveInv => SupplierSeesBidOnce
  BY DEF LiveInv, EverythingIsHistory, SupplierSeesBidOnce, Histories, Once, NoData
<1> QED
  BY <1>1, LiveInvariance, PTL

(* What a page shows is history (page.tsx:83-134), whatever overwrites what *)
(* in its cache: bids of the ledger, a close time the RFQ had, a part of    *)
(* the audit trail; and it looks over only when there is a reason.          *)
THEOREM PageShowsHistory ==
    ASSUME RuleExtends
    PROVE  LiveSpec => []ViewIsHistory
<1>1. ASSUME LiveInv PROVE ViewIsHistory
  <2>1. ASSUME cache # NoData
        PROVE  /\ ToSet(cache.bids) \subseteq ledger
               /\ cache.close \in CloseTimes
               /\ IsPrefix(Sidebar(cache).timeline, trail)
               /\ cache.status = "CLOSED" => status = "CLOSED"
    <3>1. /\ cache \in [status : {"ACTIVE", "CLOSED"}, close : CloseTimes,
                        bids : Seq(ledger), trail : Seq(Nat)]
          /\ cache.status = "CLOSED" => status = "CLOSED"
          /\ IsPrefix(cache.trail, trail)
      BY <1>1, <2>1 DEF LiveInv, EverythingIsHistory, Histories
    <3>2. ToSet(cache.bids) \subseteq ledger
      BY <3>1, ElementsOf
    <3>3. Sidebar(cache).timeline = cache.trail
      BY DEF Sidebar
    <3> QED
      BY <3>1, <3>2, <3>3
  <2>2. LooksOver => now >= terms.close \/ status = "CLOSED"
    BY <1>1, <2>1 DEF LooksOver, LiveInv, OverWhenDue
  <2> QED
    BY <2>1, <2>2 DEF ViewIsHistory
<1> QED
  BY <1>1, LiveInvariance, PTL

----------------------------------------------------------------------------
(* What the page draws. *)

(* The sorted list has the bids of the cache, cheaper ones first.           *)
LEMMA SortedIs ==
    ASSUME NEW S, NEW bids \in Seq(S), \A b \in S : b.price \in Nat
    PROVE  LET t == SortedBids(bids)
           IN  /\ t \in Seq(S) /\ ToSet(t) = ToSet(bids)
               /\ \A k, l \in 1..Len(t) : k < l => t[k].price <= t[l].price
<1> DEFINE places == DOMAIN bids
           before(i, j) == \/ bids[i].price < bids[j].price
                           \/ bids[i].price = bids[j].price /\ i < j
           n == Cardinality(places)
           s == InOrder(places, LAMBDA i, j : \/ bids[i].price < bids[j].price
                                              \/ bids[i].price = bids[j].price /\ i < j)
           t == SortedBids(bids)
<1>1. /\ \A i \in places : i \in Nat /\ bids[i] \in S /\ bids[i].price \in Nat
      /\ IsFiniteSet(places) /\ n \in Nat
  <2>1. Len(bids) \in Nat /\ places = 1..Len(bids) /\ \A i \in 1..Len(bids) : bids[i] \in S
    BY LenProperties
  <2>2. IsFiniteSet(places)
    BY <2>1, FS_Interval
  <2>3. n \in Nat
    BY <2>2, FS_CardinalityType
  <2> QED
    BY <2>1, <2>2, <2>3
<1>2. t = [k \in DOMAIN s |-> bids[s[k]]]
  BY DEF SortedBids
<1>3. s = [k \in 1..n |-> CHOOSE i \in places : Cardinality({j \in places : before(j, i)}) = k - 1]
  BY DEF InOrder
<1>4. PICK R : \A i, j \in places : <<i, j>> \in R <=> before(i, j)
  <2> HIDE DEF places
  <2>1. \A i, j \in places : <<i, j>> \in {p \in places \X places : before(p[1], p[2])} <=> before(i, j)
    OBVIOUS
  <2> QED
    BY <2>1
<1> HIDE DEF places, s, t
<1>5. Orders(R, places)
  <2>1. /\ \A i \in places : ~before(i, i)
        /\ \A i, j, k \in places : before(i, j) /\ before(j, k) => before(i, k)
        /\ \A i, j \in places : i = j \/ before(i, j) \/ before(j, i)
    BY <1>1
  <2> HIDE DEF before
  <2> QED
    BY <1>4, <2>1 DEF Orders
<1>6. \A i \in places : Preceding(R, places, i) = {j \in places : before(j, i)}
  <2> HIDE DEF before
  <2> QED
    BY <1>4 DEF Preceding
<1>7. \A k \in 1..n : s[k] \in places /\ Cardinality(Preceding(R, places, s[k])) = k - 1
  <2> HIDE DEF before
  <2>1. TAKE k \in 1..n
  <2>2. k - 1 \in 0..n - 1
    BY <1>1
  <2>3. \E i : i \in places /\ Cardinality(Preceding(R, places, i)) = k - 1
    BY <1>1, <1>5, <2>2, Places
  <2>4. \E i \in places : Cardinality({j \in places : before(j, i)}) = k - 1
    BY <1>6, <2>3
  <2>5. s[k] = CHOOSE i \in places : Cardinality({j \in places : before(j, i)}) = k - 1
    BY <1>3
  <2>6. s[k] \in places /\ Cardinality({j \in places : before(j, s[k])}) = k - 1
    BY <2>4, <2>5
  <2> QED
    BY <1>6, <2>6
<1>8. s \in [1..n -> places] /\ DOMAIN s = 1..n
  <2> HIDE DEF before
  <2> QED
    BY <1>3, <1>7
<1>9. Lists(s, places, R)
  BY <1>1, <1>5, <1>7, <1>8, ListsInOrder
<1>10. t \in [1..n -> S] /\ \A k \in 1..n : t[k] = bids[s[k]]
  BY <1>1, <1>2, <1>8
<1>11. t \in Seq(S) /\ Len(t) = n /\ DOMAIN t = 1..n
  BY <1>1, <1>10, ListIsSeq
<1>12. \A b : b \in ToSet(t) <=> \E k \in 1..n : t[k] = b
  BY <1>11 DEF ToSet
<1>13. \A b : b \in ToSet(bids) <=> \E i \in places : bids[i] = b
  BY DEF ToSet, places
<1>14. ToSet(t) = ToSet(bids)
  <2>1. \A i \in places : \E k \in 1..n : s[k] = i
    BY <1>9 DEF Lists
  <2>2. ASSUME NEW b \in ToSet(t) PROVE b \in ToSet(bids)
    <3>1. PICK k \in 1..n : t[k] = b
      BY <1>12
    <3>2. s[k] \in places /\ bids[s[k]] = b
      BY <1>8, <1>10, <3>1
    <3> QED
      BY <1>13, <3>2
  <2>3. ASSUME NEW b \in ToSet(bids) PROVE b \in ToSet(t)
    <3>1. PICK i \in places : bids[i] = b
      BY <1>13
    <3>2. PICK k \in 1..n : s[k] = i
      BY <2>1
    <3> QED
      BY <1>10, <1>12, <3>1, <3>2
  <2> QED
    BY <2>2, <2>3
<1>15. ASSUME NEW k \in 1..n, NEW l \in 1..n, k < l PROVE t[k].price <= t[l].price
  <2>1. <<s[k], s[l]>> \in R /\ s[k] \in places /\ s[l] \in places
    BY <1>8, <1>9, <1>15 DEF Lists
  <2>2. before(s[k], s[l])
    BY <1>4, <2>1
  <2> QED
    BY <1>1, <1>10, <2>1, <2>2
<1> QED
  BY <1>11, <1>14, <1>15 DEF t

(* board has a row for every supplier among the bids shown, at its lowest   *)
(* price, cheaper suppliers first.                                          *)
BoardOf(board, shown) ==
    /\ \A k \in 1..Len(board) :
          /\ board[k] \in shown
          /\ \A b \in shown : b.supplier = board[k].supplier => board[k].price <= b.price
    /\ \A k, l \in 1..Len(board) : board[k].supplier = board[l].supplier => k = l
    /\ \A b \in shown : \E k \in 1..Len(board) : board[k].supplier = b.supplier
    /\ \A k, l \in 1..Len(board) : k < l => board[k].price <= board[l].price

(* The board the page draws is such a board. *)
LEMMA BoardIs ==
    ASSUME NEW S, NEW bids \in Seq(S), \A b \in S : b.price \in Nat
    PROVE  Board(bids) \in Seq(S) /\ BoardOf(Board(bids), ToSet(bids))
<1> DEFINE t == SortedBids(bids)
           n == Len(t)
           P == {i \in DOMAIN t : \A j \in 1..(i - 1) : t[j].supplier # t[i].supplier}
           board == Board(bids)
           m == Cardinality(P)
           shown == ToSet(bids)
<1>1. /\ t \in Seq(S) /\ ToSet(t) = shown
      /\ \A k, l \in 1..n : k < l => t[k].price <= t[l].price
  BY SortedIs
<1> HIDE DEF t
<1>2. n \in Nat /\ DOMAIN t = 1..n /\ \A i \in 1..n : t[i] \in S /\ t[i].price \in Nat
  BY <1>1, LenProperties
<1>3. board = RowsAt(t, P)
  BY DEF Board, FirstOfEach, t
<1>4. P \in SUBSET (1..n)
  BY <1>2
<1>5. \A i : i \in P <=> i \in 1..n /\ \A j \in 1..(i - 1) : t[j].supplier # t[i].supplier
  BY <1>2
<1>6. \A b : b \in shown <=> \E i \in 1..n : t[i] = b
  BY <1>1, <1>2 DEF ToSet
<1> HIDE DEF P, board, shown
<1>7. board \in Seq(S) /\ \E p : AtPlaces(board, t, P, p)
  BY <1>1, <1>3, <1>4, RowsAtAre DEF n
<1>8. PICK p : AtPlaces(board, t, P, p)
  BY <1>7
<1>9. /\ m \in Nat /\ Len(board) = m
      /\ p \in [1..m -> P]
      /\ \A k \in 1..m : board[k] = t[p[k]]
      /\ \A k, l \in 1..m : k < l <=> p[k] < p[l]
      /\ \A i \in P : \E k \in 1..m : p[k] = i
  BY <1>8 DEF AtPlaces
<1> HIDE DEF m, n
<1>10. \A k \in 1..m : p[k] \in P /\ p[k] \in 1..n
  BY <1>4, <1>9

(* A first place is before all the others of its supplier. *)
<1>11. ASSUME NEW i \in P, NEW j \in 1..n, t[j].supplier = t[i].supplier
       PROVE  i \in 1..n /\ i <= j /\ t[i].price <= t[j].price
  <2>1. i \in 1..n /\ ~(j \in 1..(i - 1))
    BY <1>5, <1>11
  <2>2. i <= j
    BY <1>2, <2>1
  <2>3. i = j \/ i < j
    BY <1>2, <2>1, <2>2
  <2>4. t[i].price \in Nat
    BY <1>2, <2>1
  <2> QED
    BY <1>1, <2>1, <2>2, <2>3, <2>4
<1>12. ASSUME NEW k \in 1..m
       PROVE  /\ board[k] \in shown
              /\ \A b \in shown : b.supplier = board[k].supplier => board[k].price <= b.price
  <2>1. board[k] = t[p[k]] /\ p[k] \in P /\ p[k] \in 1..n
    BY <1>9, <1>10
  <2>2. ASSUME NEW b \in shown, b.supplier = board[k].supplier PROVE board[k].price <= b.price
    <3>1. PICK j \in 1..n : t[j] = b
      BY <1>6
    <3> QED
      BY <1>11, <2>1, <2>2, <3>1
  <2> QED
    BY <1>6, <2>1, <2>2
<1>13. ASSUME NEW k \in 1..m, NEW l \in 1..m, board[k].supplier = board[l].supplier
       PROVE  k = l
  <2>1. /\ board[k] = t[p[k]] /\ p[k] \in P /\ p[k] \in 1..n
        /\ board[l] = t[p[l]] /\ p[l] \in P /\ p[l] \in 1..n
    BY <1>9, <1>10
  <2>2. p[k] <= p[l] /\ p[l] <= p[k]
    BY <1>11, <1>13, <2>1
  <2>3. ~(p[k] < p[l]) /\ ~(p[l] < p[k])
    BY <1>2, <2>1, <2>2
  <2>4. ~(k < l) /\ ~(l < k)
    BY <1>9, <2>3
  <2> QED
    BY <1>9, <2>4
<1>14. ASSUME NEW b \in shown PROVE \E k \in 1..m : board[k].supplier = b.supplier
  <2> DEFINE Q == {i \in 1..n : t[i].supplier = b.supplier}
  <2>1. PICK i \in 1..n : t[i] = b
    BY <1>6
  <2>2. Q \in SUBSET Nat /\ Q # {}
    BY <2>1
  <2>3. PICK f \in Q : \A j \in Q : f <= j
    <3> HIDE DEF Q
    <3> QED
      BY <2>2, LeastOf
  <2>4. f \in 1..n /\ t[f].supplier = b.supplier
    BY <2>3
  <2>5. ASSUME NEW j \in 1..(f - 1) PROVE t[j].supplier # t[f].supplier
    <3>1. j \in 1..n /\ ~(f <= j)
      BY <1>2, <2>4
    <3> QED
      BY <2>3, <2>4, <3>1
  <2>6. f \in P
    BY <1>5, <2>4, <2>5
  <2>7. PICK k \in 1..m : p[k] = f
    BY <1>9, <2>6
  <2> QED
    BY <1>9, <2>4, <2>7
<1>15. ASSUME NEW k \in 1..m, NEW l \in 1..m, k < l PROVE board[k].price <= board[l].price
  BY <1>1, <1>9, <1>10, <1>15
<1>16. BoardOf(board, shown)
  BY <1>9, <1>12, <1>13, <1>14, <1>15 DEF BoardOf
<1> QED
  BY <1>7, <1>16 DEF board, shown

(* A set whose elements are all at the first r places has at most r.        *)
LEMMA AtMost ==
    ASSUME NEW r \in Nat, NEW f, NEW A, \A a \in A : \E k \in 1..r : f[k] = a
    PROVE  IsFiniteSet(A) /\ Cardinality(A) \in Nat /\ Cardinality(A) <= r
<1> DEFINE K == {k \in 1..r : f[k] \in A}
           g == [k \in K |-> f[k]]
<1>1. IsFiniteSet(1..r) /\ Cardinality(1..r) = r
  BY FS_Interval
<1>2. IsFiniteSet(K) /\ Cardinality(K) <= r
  <2>1. K \in SUBSET (1..r)
    OBVIOUS
  <2> HIDE DEF K
  <2> QED
    BY <1>1, <2>1, FS_Subset
<1>3. g \in Surjection(K, A)
  <2>1. g \in [K -> A]
    OBVIOUS
  <2>2. \A a \in A : \E k \in K : g[k] = a
    OBVIOUS
  <2> HIDE DEF g, K
  <2> QED
    BY <2>1, <2>2 DEF Surjection
<1> HIDE DEF g, K
<1>4. IsFiniteSet(A) /\ Cardinality(A) <= Cardinality(K)
  BY <1>2, <1>3, FS_Surjection
<1>5. Cardinality(A) \in Nat /\ Cardinality(K) \in Nat
  BY <1>2, <1>4, FS_CardinalityType
<1> QED
  BY <1>2, <1>4, <1>5

(* The lowest price a supplier has among the bids shown. *)
LowestOf(shown, s) ==
    CHOOSE p \in {b.price : b \in {c \in shown : c.supplier = s}} :
        \A b \in shown : b.supplier = s => p <= b.price


(* A set that has r different things at r places has at least r.            *)
LEMMA AtLeast ==
    ASSUME NEW r \in Nat, NEW f, NEW A, IsFiniteSet(A), \A k \in 1..r : f[k] \in A,
           \A k, l \in 1..r : f[k] = f[l] => k = l
    PROVE  Cardinality(A) \in Nat /\ r <= Cardinality(A)
<1> DEFINE g == [k \in 1..r |-> f[k]]
<1>1. IsFiniteSet(1..r) /\ Cardinality(1..r) = r
  BY FS_Interval
<1>2. g \in Injection(1..r, A)
  BY DEF Injection, IsInjective
<1> HIDE DEF g
<1>3. r <= Cardinality(A)
  BY <1>1, <1>2, FS_Injection
<1> QED
  BY <1>3, FS_CardinalityType

(* What a supplier bids at best is the price of its row. *)
LEMMA RowPrice ==
    ASSUME NEW shown, NEW board, BoardOf(board, shown), \A b \in shown : b.price \in Nat,
           NEW k \in 1..Len(board), NEW s, s = board[k].supplier
    PROVE  board[k].price = LowestOf(shown, s)
<1> DEFINE prices == {b.price : b \in {c \in shown : c.supplier = s}}
           least(p) == \A b \in shown : b.supplier = s => p <= b.price
<1>1. board[k] \in shown /\ least(board[k].price)
  BY DEF BoardOf
<1>2. board[k].price \in prices
  BY <1>1
<1>3. \A p \in prices : p \in Nat /\ (\E b \in shown : b.supplier = s /\ p = b.price)
  OBVIOUS
<1>4. ASSUME NEW p \in prices, least(p) PROVE p = board[k].price
  <2>1. PICK b \in shown : b.supplier = s /\ p = b.price
    BY <1>3
  <2>2. p <= board[k].price /\ board[k].price <= p
    BY <1>1, <1>4, <2>1
  <2>3. p \in Nat /\ board[k].price \in Nat
    BY <1>1, <1>3
  <2> QED
    BY <2>2, <2>3
<1> HIDE DEF prices, least
<1>5. board[k].price = CHOOSE p \in prices : least(p)
  BY <1>1, <1>2, <1>4
<1> QED
  BY <1>5 DEF prices, least, LowestOf

(* The page's place is that of the first row of its supplier, if any. *)
LEMMA UserRankIs ==
    ASSUME NEW bids, Len(Board(bids)) \in Nat
    PROVE  LET board == Board(bids)
               rank  == UserRank(bids)
           IN  \/ rank = 0 /\ \A k \in 1..Len(board) : board[k].supplier # Me
               \/ rank \in 1..Len(board) /\ board[rank].supplier = Me
<1> DEFINE board == Board(bids)
           I == {k \in 1..Len(board) : board[k].supplier = Me}
<1>1. UserRank(bids) = IF I # {} THEN Min(I) ELSE 0
  BY DEF UserRank, SelectInSeq
<1>2. I \in SUBSET Nat
  OBVIOUS
<1>3. CASE I = {}
  BY <1>1, <1>3
<1>4. CASE I # {}
  <2>1. Min(I) \in I
    <3> HIDE DEF I
    <3> QED
      BY <1>2, <1>4, MinIs
  <2> QED
    BY <1>1, <1>4, <2>1
<1> QED
  BY <1>3, <1>4

(* The board counts right. *)
LEMMA BoardCounts ==
    ASSUME NEW board, Len(board) \in Nat, NEW shown, BoardOf(board, shown),
           \A b \in shown : b.price \in Nat
    PROVE  /\ IsFiniteSet({b.supplier : b \in shown})
           /\ Len(board) = Cardinality({b.supplier : b \in shown})
<1> DEFINE m == Len(board)
           f == [k \in 1..m |-> board[k].supplier]
           suppliers == {b.supplier : b \in shown}
<1>1. \A k \in 1..m : f[k] \in suppliers
  BY DEF BoardOf
<1>2. \A s \in suppliers : \E k \in 1..m : f[k] = s
  BY DEF BoardOf
<1>3. \A k, l \in 1..m : f[k] = f[l] => k = l
  BY DEF BoardOf
<1> HIDE DEF f, suppliers, m
<1>4. m \in Nat
  BY DEF m
<1>5. IsFiniteSet(suppliers) /\ Cardinality(suppliers) \in Nat /\ Cardinality(suppliers) <= m
  BY <1>2, <1>4, AtMost
<1>6. m <= Cardinality(suppliers)
  BY <1>1, <1>3, <1>4, <1>5, AtLeast
<1>7. m = Cardinality(suppliers)
  BY <1>4, <1>5, <1>6
<1> QED
  BY <1>5, <1>7 DEF suppliers, m

(* A place behind every supplier that is cheaper and ahead of every one that *)
(* is dearer.                                                               *)
FairPlace(shown, best, rank) ==
    LET suppliers == {b.supplier : b \in shown}
    IN  /\ rank > Cardinality({s \in suppliers \ {Me} : best[s] < best[Me]})
        /\ rank <= 1 + Cardinality({s \in suppliers \ {Me} : best[s] <= best[Me]})

(* The place of a supplier on the board is such a place. *)
LEMMA BoardRanks ==
    ASSUME NEW board, Len(board) \in Nat, NEW shown, BoardOf(board, shown),
           \A b \in shown : b.price \in Nat,
           NEW rank \in 1..Len(board), board[rank].supplier = Me, NEW best,
           \A k \in 1..Len(board) : best[board[k].supplier] = board[k].price
    PROVE  FairPlace(shown, best, rank)
<1> DEFINE m == Len(board)
           suppliers == {b.supplier : b \in shown}
           f == [k \in 1..m |-> board[k].supplier]
           ahead == {s \in suppliers \ {Me} : best[s] < best[Me]}
           level == {s \in suppliers \ {Me} : best[s] <= best[Me]}
<1>1. /\ \A k \in 1..m : board[k] \in shown /\ board[k].price \in Nat
      /\ \A k, l \in 1..m : board[k].supplier = board[l].supplier => k = l
      /\ \A b \in shown : \E k \in 1..m : board[k].supplier = b.supplier
      /\ \A k, l \in 1..m : k < l => board[k].price <= board[l].price
  BY DEF BoardOf
<1>2. best[Me] = board[rank].price /\ board[rank].price \in Nat
  BY <1>1
<1>3. rank - 1 \in Nat
  OBVIOUS
<1>4. \A s \in ahead : \E k \in 1..(rank - 1) : f[k] = s
  <2>1. TAKE s \in ahead
  <2>2. s \in suppliers /\ best[s] < best[Me]
    OBVIOUS
  <2>3. PICK k \in 1..m : board[k].supplier = s
    BY <1>1, <2>2
  <2>4. board[k].price < board[rank].price /\ board[k].price \in Nat
    BY <1>1, <1>2, <2>2, <2>3
  <2>5. ~(rank < k) /\ k # rank
    BY <1>1, <1>2, <2>4
  <2>6. k \in 1..(rank - 1)
    BY <2>5
  <2> QED
    BY <2>3, <2>6
<1>5. \A k \in 1..(rank - 1) : f[k] \in level
  <2>1. TAKE k \in 1..(rank - 1)
  <2>2. k \in 1..m /\ k < rank /\ k # rank
    OBVIOUS
  <2>3. board[k].supplier \in suppliers /\ board[k].supplier # Me
    BY <1>1, <2>2
  <2>4. best[board[k].supplier] <= best[Me]
    BY <1>1, <1>2, <2>2
  <2> QED
    BY <2>2, <2>3, <2>4
<1>6. \A k, l \in 1..(rank - 1) : f[k] = f[l] => k = l
  <2>1. \A k \in 1..(rank - 1) : k \in 1..m /\ f[k] = board[k].supplier
    OBVIOUS
  <2> QED
    BY <1>1, <2>1
<1>7. IsFiniteSet(level)
  <2>1. level \in SUBSET suppliers
    OBVIOUS
  <2>2. IsFiniteSet(suppliers)
    BY BoardCounts
  <2> HIDE DEF level, suppliers
  <2> QED
    BY <2>1, <2>2, FS_Subset
<1> HIDE DEF f, ahead, level
<1>11. PICK r : r = rank - 1
  OBVIOUS
<1>12. /\ r \in Nat
       /\ \A s \in ahead : \E k \in 1..r : f[k] = s
       /\ \A k \in 1..r : f[k] \in level
       /\ \A k, l \in 1..r : f[k] = f[l] => k = l
  BY <1>3, <1>4, <1>5, <1>6, <1>11
<1>8. Cardinality(ahead) \in Nat /\ Cardinality(ahead) <= r
  <2>1. r \in Nat
    BY <1>12
  <2>2. \A s \in ahead : \E k \in 1..r : f[k] = s
    BY <1>12
  <2> HIDE DEF suppliers, m
  <2> QED
    BY <2>1, <2>2, AtMost
<1>9. Cardinality(level) \in Nat /\ r <= Cardinality(level)
  BY <1>7, <1>12, AtLeast
<1>10. rank > Cardinality(ahead) /\ rank <= 1 + Cardinality(level)
  BY <1>8, <1>9, <1>11
<1> QED
  BY <1>10 DEF ahead, level, FairPlace

(* What is shown is right for any list of priced bids. *)
LEMMA RanksAreRight ==
    ASSUME NEW S, cache.bids \in Seq(S), \A b \in S : b.price \in Nat
    PROVE  RankIsRight
<1> DEFINE bids      == cache.bids
           shown     == ToSet(bids)
           suppliers == {b.supplier : b \in shown}
           bestOf(s) == LowestOf(shown, s)
           best      == [s \in suppliers |-> bestOf(s)]
           board     == Board(bids)
           rank      == UserRank(bids)
           rows      == Orderbook(bids)
           m         == Len(board)
<1>1. board \in Seq(S) /\ BoardOf(board, shown)
  BY BoardIs
<1>2. m \in Nat /\ DOMAIN board = 1..m
  BY <1>1, LenProperties
<1>3. \A b \in shown : b.price \in Nat
  BY ElementsOf
<1>4. /\ \A k \in 1..m : board[k] \in shown
      /\ \A k, l \in 1..m : board[k].supplier = board[l].supplier => k = l
      /\ \A b \in shown : \E k \in 1..m : board[k].supplier = b.supplier
  BY <1>1 DEF BoardOf
<1>5. \/ rank = 0 /\ \A k \in 1..m : board[k].supplier # Me
      \/ rank \in 1..m /\ board[rank].supplier = Me
  BY <1>2, UserRankIs
<1>6. /\ rows = [k \in 1..m |-> [supplier |-> board[k].supplier, price |-> board[k].price,
                                 isMe |-> board[k].supplier = Me]]
      /\ Sidebar(cache).suppliers = m
  BY <1>2 DEF Orderbook, Sidebar
<1> HIDE DEF shown, board, rank, rows
<1>7. \A k \in 1..m : board[k].price = bestOf(board[k].supplier)
  <2>1. TAKE k \in 1..m
  <2>2. PICK s : s = board[k].supplier
    OBVIOUS
  <2>3. BoardOf(board, shown)
    BY <1>1
  <2>4. board[k].price = LowestOf(shown, s)
    BY <1>3, <2>1, <2>2, <2>3, RowPrice
  <2> QED
    BY <2>2, <2>4
<1> HIDE DEF bestOf
<1>8. IsFiniteSet(suppliers) /\ m = Cardinality(suppliers)
  BY <1>1, <1>2, <1>3, BoardCounts
<1>9. Len(rows) = m /\ DOMAIN rows = 1..m
  <2>1. rows \in Seq(Range(rows)) /\ DOMAIN rows = 1..m
    BY <1>2, <1>6, SeqDef DEF Range
  <2> QED
    BY <1>2, <2>1, LenProperties
<1>10. \A k \in 1..m : rows[k].price = bestOf(rows[k].supplier) /\ (rows[k].isMe <=> k = rank)
  <2>1. TAKE k \in 1..m
  <2>2. /\ rows[k].price = board[k].price /\ rows[k].supplier = board[k].supplier
        /\ rows[k].isMe = (board[k].supplier = Me)
    BY <1>6
  <2>3. (board[k].supplier = Me) <=> k = rank
    BY <1>2, <1>4, <1>5
  <2> QED
    BY <1>7, <2>2, <2>3
<1>11. rank # 0 <=> Me \in suppliers
  BY <1>2, <1>4, <1>5
<1>12. ASSUME Me \in suppliers
       PROVE  /\ rank > Cardinality({s \in suppliers \ {Me} : bestOf(s) < bestOf(Me)})
              /\ rank <= 1 + Cardinality({s \in suppliers \ {Me} : bestOf(s) <= bestOf(Me)})
  <2>1. rank \in 1..m /\ board[rank].supplier = Me
    BY <1>5, <1>11, <1>12
  <2>2. \A k \in 1..m : best[board[k].supplier] = board[k].price
    BY <1>4, <1>7
  <2>3. /\ {s \in suppliers \ {Me} : bestOf(s) < bestOf(Me)} =
              {s \in suppliers \ {Me} : best[s] < best[Me]}
        /\ {s \in suppliers \ {Me} : bestOf(s) <= bestOf(Me)} =
              {s \in suppliers \ {Me} : best[s] <= best[Me]}
    BY <1>12
  <2> HIDE DEF best, m
  <2>4. BoardOf(board, shown) /\ Len(board) \in Nat /\ rank \in 1..Len(board)
    BY <1>1, <1>2, <2>1 DEF m
  <2>5. \A k \in 1..Len(board) : best[board[k].supplier] = board[k].price
    BY <2>2 DEF m
  <2>6. board[rank].supplier = Me
    BY <2>1
  <2>7. FairPlace(shown, best, rank)
    BY <1>3, <2>6, <2>4, <2>5, BoardRanks
  <2>8. /\ rank > Cardinality({s \in suppliers \ {Me} : best[s] < best[Me]})
        /\ rank <= 1 + Cardinality({s \in suppliers \ {Me} : best[s] <= best[Me]})
    BY <2>7 DEF FairPlace
  <2> QED
    BY <2>3, <2>8
<1>13. \A k \in DOMAIN rows : rows[k].price = bestOf(rows[k].supplier) /\ (rows[k].isMe <=> k = rank)
  BY <1>9, <1>10
<1> QED
  BY <1>6, <1>8, <1>9, <1>11, <1>12, <1>13
  DEF RankIsRight, shown, rank, rows, bestOf, LowestOf

(* The shown place of the supplier and the list of rows are right for the   *)
(* bids shown (supplier/rfq/[id]/page.tsx:198-213), however many there are, *)
(* in whatever order they came and however often one is among them.         *)
THEOREM ShownRankIsRight ==
    ASSUME RuleExtends
    PROVE  LiveSpec => []RankIsRight
<1>1. ASSUME LiveInv PROVE RankIsRight
  <2>1. \A b \in ledger : b.price \in Nat
    BY <1>1 DEF LiveInv, LedgerNumbered
  <2>2. cache = NoData \/ cache \in Histories
    BY <1>1 DEF LiveInv, EverythingIsHistory
  <2>3. CASE cache = NoData
    BY <2>1, <2>3, EmptySeq, RanksAreRight DEF NoData
  <2>4. CASE cache \in Histories
    <3>1. cache.bids \in Seq(ledger)
      BY <2>4 DEF Histories
    <3> QED
      BY <2>1, <3>1, RanksAreRight
  <2> QED
    BY <2>2, <2>3, <2>4
<1> QED
  BY <1>1, LiveInvariance, PTL
=============================================================================
