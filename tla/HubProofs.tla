----------------------------- MODULE HubProofs ------------------------------
(***************************************************************************)
(* Proofs of what the hub promises, for any clients, rooms, buffer size and *)
(* number of messages and joins.                                            *)
(***************************************************************************)
EXTENDS HubProperties, SequenceTheorems, TLAPS

Readings == {Reading, [does |-> "clean"]} \cup [does : {"join", "leave"}, room : Rooms]

HubTypes ==
    /\ taken \in Nat
    /\ rooms \in [Rooms -> SUBSET Clients]
    /\ reader \in [Clients -> Readings]
    /\ mine \in [Clients -> SUBSET Rooms]
    /\ joins \in [Clients -> Nat]
    /\ channel \in [Clients -> [queue : Seq(Nat), closed : BOOLEAN]]
    /\ writing \in [Clients -> BOOLEAN]
    /\ connected \in [Clients -> BOOLEAN]
    /\ received \in [Clients -> Seq(Nat)]
    /\ due \in [Clients -> Seq(Nat)]
    /\ crashed \in BOOLEAN

----------------------------------------------------------------------------
(* Messages on their way.  What is queued continues what was received, as   *)
(* long as the writer has a connection to send it to; and nothing is        *)
(* missing at its end unless the client was dropped.                        *)

Begins(s, t) == Len(s) <= Len(t) /\ \A i \in 1..Len(s) : s[i] = t[i]

Continues(got, queue, all) ==
    /\ Len(got) + Len(queue) <= Len(all)
    /\ \A i \in 1..Len(queue) : queue[i] = all[Len(got) + i]

Received(c) == Begins(received[c], due[c])

Queued(c) ==
    connected[c] =>
        /\ Continues(received[c], channel[c].queue, due[c])
        /\ ~channel[c].closed =>
              Len(due[c]) = Len(received[c]) + Len(channel[c].queue)

InOrder == \A c \in Clients : Received(c) /\ Queued(c)

(* Joins.  A client is in no room, and asks for none, that it has not spent *)
(* a join on; and whoever was dropped has spent one on the room it lost.    *)

Present(c) == reader[c].does = "join" \/ \E r \in Rooms : c \in rooms[r]

InTwo(c) ==
    \/ reader[c].does = "join" /\ \E r \in Rooms : c \in rooms[r]
    \/ \E r, s \in Rooms : r # s /\ c \in rooms[r] /\ c \in rooms[s]

JoinsCount ==
    \A c \in Clients :
        /\ Present(c) \/ channel[c].closed => joins[c] >= 1
        /\ InTwo(c) \/ (Present(c) /\ channel[c].closed) => joins[c] >= 2

HubInv == HubTypes /\ InOrder /\ JoinsCount /\ CrashNeedsTwoJoins

----------------------------------------------------------------------------
(* Another message for a client that was in the room: it is queued...       *)
LEMMA QueuedMessage ==
    ASSUME NEW got \in Seq(Nat), NEW queue \in Seq(Nat), NEW all \in Seq(Nat), NEW m \in Nat,
           Begins(got, all), Continues(got, queue, all),
           Len(all) = Len(got) + Len(queue)
    PROVE  /\ Continues(got, Append(queue, m), Append(all, m))
           /\ Len(Append(all, m)) = Len(got) + Len(Append(queue, m))
<1> DEFINE a == Append(all, m)
           q == Append(queue, m)
<1>1. /\ Len(a) = Len(all) + 1 /\ a[Len(all) + 1] = m
      /\ \A i \in 1..Len(all) : a[i] = all[i]
      /\ Len(q) = Len(queue) + 1 /\ q[Len(queue) + 1] = m
      /\ \A i \in 1..Len(queue) : q[i] = queue[i]
      /\ Len(got) \in Nat /\ Len(queue) \in Nat /\ Len(all) \in Nat
  BY AppendProperties, LenProperties
<1> HIDE DEF a, q
<1>2. ASSUME NEW i \in 1..Len(q) PROVE q[i] = a[Len(got) + i]
  <2>1. CASE i \in 1..Len(queue)
    BY <1>1, <2>1 DEF Continues
  <2>2. CASE i = Len(queue) + 1
    BY <1>1, <2>2
  <2> QED
    BY <1>1, <2>1, <2>2
<1>3. Len(a) = Len(got) + Len(q) /\ Continues(got, q, a)
  BY <1>1, <1>2 DEF Continues
<1> QED
  BY <1>3 DEF a, q

(* ... or it is the one that was too much.                                  *)
LEMMA MissedMessage ==
    ASSUME NEW got \in Seq(Nat), NEW queue \in Seq(Nat), NEW all \in Seq(Nat), NEW m \in Nat
    PROVE  /\ Begins(got, all) => Begins(got, Append(all, m))
           /\ Continues(got, queue, all) => Continues(got, queue, Append(all, m))
<1> DEFINE a == Append(all, m)
<1>1. /\ Len(a) = Len(all) + 1
      /\ \A i \in 1..Len(all) : a[i] = all[i]
      /\ Len(got) \in Nat /\ Len(queue) \in Nat /\ Len(all) \in Nat
  BY AppendProperties, LenProperties
<1> HIDE DEF a
<1>2. Begins(got, all) => Begins(got, a)
  BY <1>1 DEF Begins
<1>3. ASSUME Continues(got, queue, all) PROVE Continues(got, queue, a)
  <2>1. ASSUME NEW i \in 1..Len(queue) PROVE queue[i] = a[Len(got) + i]
    <3>1. Len(got) + i \in 1..Len(all)
      BY <1>1, <1>3 DEF Continues
    <3> QED
      BY <1>1, <1>3, <3>1 DEF Continues
  <2> QED
    BY <1>1, <1>3, <2>1 DEF Continues
<1> QED
  BY <1>2, <1>3 DEF a

(* The head of the queue is received. *)
LEMMA SentMessage ==
    ASSUME NEW got \in Seq(Nat), NEW queue \in Seq(Nat), NEW all \in Seq(Nat),
           queue # <<>>, Begins(got, all), Continues(got, queue, all)
    PROVE  /\ Begins(Append(got, Head(queue)), all)
           /\ Continues(Append(got, Head(queue)), Tail(queue), all)
           /\ Len(Append(got, Head(queue))) + Len(Tail(queue)) = Len(got) + Len(queue)
<1> DEFINE g == Append(got, Head(queue))
           q == Tail(queue)
<1>1. /\ Len(queue) \in Nat \ {0} /\ Len(got) \in Nat /\ Len(all) \in Nat
      /\ Head(queue) = queue[1] /\ Head(queue) \in Nat
  BY EmptySeq, LenProperties, HeadTailProperties
<1>2. /\ Len(g) = Len(got) + 1 /\ g[Len(got) + 1] = queue[1]
      /\ \A i \in 1..Len(got) : g[i] = got[i]
  BY <1>1, AppendProperties
<1>3. Len(q) = Len(queue) - 1 /\ \A i \in 1..Len(q) : q[i] = queue[i + 1]
  BY HeadTailProperties
<1> HIDE DEF g, q
<1>4. queue[1] = all[Len(got) + 1]
  BY <1>1 DEF Continues
<1>5. ASSUME NEW i \in 1..Len(g) PROVE g[i] = all[i]
  <2>1. CASE i \in 1..Len(got)
    BY <1>2, <2>1 DEF Begins
  <2>2. CASE i = Len(got) + 1
    BY <1>2, <1>4, <2>2
  <2> QED
    BY <1>1, <1>2, <2>1, <2>2
<1>6. ASSUME NEW i \in 1..Len(q) PROVE q[i] = all[Len(g) + i]
  <2>1. i + 1 \in 1..Len(queue) /\ q[i] = queue[i + 1]
    BY <1>1, <1>3
  <2>2. queue[i + 1] = all[Len(got) + (i + 1)]
    BY <2>1 DEF Continues
  <2>3. Len(got) + (i + 1) = Len(g) + i
    BY <1>1, <1>2
  <2> QED
    BY <2>1, <2>2, <2>3
<1>7. Begins(g, all)
  BY <1>1, <1>2, <1>5 DEF Begins, Continues
<1>8. Continues(g, q, all) /\ Len(g) + Len(q) = Len(got) + Len(queue)
  BY <1>1, <1>2, <1>3, <1>6 DEF Continues
<1> QED
  BY <1>7, <1>8 DEF g, q

----------------------------------------------------------------------------
(* A hub starts without members or messages. *)
LEMMA HubInvInit == HubInit => HubInv
<1> SUFFICES ASSUME HubInit PROVE HubInv
  OBVIOUS
<1>1. Reading \in Readings /\ Reading.does # "join"
  BY DEF Readings, Reading
<1>2. reader = [c \in Clients |-> Reading]
  BY DEF HubInit
<1>3. HubTypes
  BY <1>1, <1>2, EmptySeq DEF HubInit, HubTypes
<1>4. InOrder
  BY EmptySeq DEF HubInit, InOrder, Received, Queued, Begins, Continues
<1>5. JoinsCount
  BY <1>1, <1>2 DEF HubInit, JoinsCount, Present, InTwo
<1>6. CrashNeedsTwoJoins
  BY DEF HubInit, CrashNeedsTwoJoins
<1> QED
  BY <1>3, <1>4, <1>5, <1>6 DEF HubInv

(* What reading a join or a leave, or taking a join, makes of a reader.     *)
LEMMA ReadingTypes ==
    ASSUME HubTypes, NEW c \in Clients
    PROVE  /\ \A r \in Rooms, what \in {"join", "leave"} :
                [does |-> what, room |-> r] \in Readings
           /\ Reading \in Readings /\ NextCleanup(c) \in Readings
           /\ reader[c].does = "join" => reader[c].room \in Rooms
<1>1. \A r \in Rooms, what \in {"join", "leave"} : [does |-> what, room |-> r] \in Readings
  BY DEF Readings
<1>2. Reading \in Readings /\ NextCleanup(c) \in Readings
  BY DEF Readings, NextCleanup
<1>3. ASSUME NEW x \in Readings, x.does = "join" PROVE x.room \in Rooms
  BY <1>3 DEF Readings, Reading
<1>4. reader[c] \in Readings
  BY DEF HubTypes
<1> QED
  BY <1>1, <1>2, <1>3, <1>4

Full(r) == {c \in rooms[r] : Len(channel[c].queue) >= BufferSize}

(* A message finds a member whose channel is closed, or goes to all.        *)
LEMMA MessageCases ==
    ASSUME NEW r \in Rooms, HubTakesMessage(r)
    PROVE  /\ taken' = taken + 1
           /\ UNCHANGED <<client, writing, received, connected>>
           /\ \/ /\ \E c \in rooms[r] : channel[c].closed
                 /\ UNCHANGED <<rooms, channel, due>>
                 /\ crashed' = TRUE
              \/ /\ \A c \in rooms[r] : ~channel[c].closed
                 /\ UNCHANGED crashed
                 /\ rooms' = [rooms EXCEPT ![r] = @ \ Full(r)]
                 /\ channel' = [c \in Clients |->
                       IF c \in rooms[r] \ Full(r)
                       THEN [channel[c] EXCEPT !.queue = Append(@, taken + 1)]
                       ELSE [channel[c] EXCEPT !.closed = @ \/ c \in Full(r)]]
                 /\ due' = [c \in Clients |->
                       IF c \in rooms[r] THEN Append(due[c], taken + 1) ELSE due[c]]
<1>1. taken' = taken + 1
  BY DEF HubTakesMessage
<1>2. UNCHANGED <<client, writing, received, connected>>
  BY DEF HubTakesMessage
<1>3. CASE \E c \in rooms[r] : channel[c].closed
  <2>1. UNCHANGED <<rooms, channel, due>> /\ crashed' = TRUE
    BY <1>3 DEF HubTakesMessage
  <2> QED
    BY <1>1, <1>2, <1>3, <2>1
<1>4. CASE \A c \in rooms[r] : ~channel[c].closed
  <2>1. UNCHANGED crashed
    BY <1>4 DEF HubTakesMessage
  <2>2. rooms' = [rooms EXCEPT ![r] = @ \ Full(r)]
    BY <1>4 DEF HubTakesMessage, Full, Remain
  <2>3. channel' = [c \in Clients |->
                       IF c \in rooms[r] \ Full(r)
                       THEN [channel[c] EXCEPT !.queue = Append(@, taken + 1)]
                       ELSE [channel[c] EXCEPT !.closed = @ \/ c \in Full(r)]]
    BY <1>1, <1>4, Zenon DEF HubTakesMessage, Full, Drops
  <2>4. due' = [c \in Clients |->
                       IF c \in rooms[r] THEN Append(due[c], taken + 1) ELSE due[c]]
    BY <1>1, <1>4, Zenon DEF HubTakesMessage
  <2> QED
    BY <1>1, <1>2, <1>4, <2>1, <2>2, <2>3, <2>4
<1> QED
  BY <1>3, <1>4

(* Every step keeps the types. *)
LEMMA HubTypesStep == HubTypes /\ [HubNext]_hubVars => HubTypes'
<1> SUFFICES ASSUME HubTypes, [HubNext]_hubVars PROVE HubTypes'
  OBVIOUS
<1>1. ASSUME NEW r \in Rooms, HubTakesMessage(r) PROVE HubTypes'
  <2>1. taken + 1 \in Nat
    BY DEF HubTypes
  <2>2. \A c \in Clients : /\ Append(channel[c].queue, taken + 1) \in Seq(Nat)
                           /\ Append(due[c], taken + 1) \in Seq(Nat)
    BY <2>1, AppendProperties DEF HubTypes
  <2>3. CASE UNCHANGED <<rooms, channel, due>> /\ crashed' = TRUE
    BY <1>1, <2>1, <2>3, MessageCases DEF HubTypes, client
  <2>4. CASE ~(UNCHANGED <<rooms, channel, due>> /\ crashed' = TRUE)
    <3>1. channel' \in [Clients -> [queue : Seq(Nat), closed : BOOLEAN]]
      <4>1. channel' = [c \in Clients |->
                       IF c \in rooms[r] \ Full(r)
                       THEN [channel[c] EXCEPT !.queue = Append(@, taken + 1)]
                       ELSE [channel[c] EXCEPT !.closed = @ \/ c \in Full(r)]]
        BY <1>1, <2>4, MessageCases
      <4> QED
        BY <2>2, <4>1 DEF HubTypes
    <3>2. due' \in [Clients -> Seq(Nat)]
      <4>1. due' = [c \in Clients |->
                       IF c \in rooms[r] THEN Append(due[c], taken + 1) ELSE due[c]]
        BY <1>1, <2>4, MessageCases
      <4> QED
        BY <2>2, <4>1 DEF HubTypes
    <3>3. rooms' \in [Rooms -> SUBSET Clients] /\ UNCHANGED crashed
      <4>1. rooms' = [rooms EXCEPT ![r] = @ \ Full(r)] /\ UNCHANGED crashed
        BY <1>1, <2>4, MessageCases
      <4> QED
        BY <4>1 DEF HubTypes
    <3> QED
      BY <1>1, <2>1, <3>1, <3>2, <3>3, MessageCases DEF HubTypes, client
  <2> QED
    BY <2>3, <2>4
<1>2. ASSUME NEW c \in Clients, NEW r \in Rooms, ReadsJoin(c, r) \/ ReadsLeave(c, r)
      PROVE  HubTypes'
  <2>1. reader' \in [Clients -> Readings]
    BY <1>2, ReadingTypes DEF ReadsJoin, ReadsLeave, Asks, HubTypes
  <2>2. joins' \in [Clients -> Nat]
    <3>1. UNCHANGED joins \/ joins' = [joins EXCEPT ![c] = @ + 1]
      BY <1>2, Zenon DEF ReadsJoin, ReadsLeave
    <3>2. joins \in [Clients -> Nat] /\ joins[c] + 1 \in Nat
      BY DEF HubTypes
    <3> HIDE DEF HubTypes
    <3> QED
      BY <3>1, <3>2
  <2>3. UNCHANGED <<taken, rooms, mine, delivery, connected, due, crashed>>
    BY <1>2 DEF ReadsJoin, ReadsLeave, Asks
  <2> QED
    BY <2>1, <2>2, <2>3 DEF HubTypes, delivery
<1>3. ASSUME NEW c \in Clients, ReaderFails(c) PROVE HubTypes'
  BY <1>3, ReadingTypes DEF ReaderFails, HubTypes, delivery
<1>4. ASSUME NEW c \in Clients, HubTakesJoin(c) PROVE HubTypes'
  BY <1>4, ReadingTypes DEF HubTakesJoin, HubTypes, delivery
<1>5. ASSUME NEW c \in Clients, HubTakesLeave(c) PROVE HubTypes'
  <2>1. PICK r \in Rooms : /\ rooms' = [rooms EXCEPT ![r] = @ \ {c}]
                           /\ mine' = [mine EXCEPT ![c] = @ \ {r}]
                           /\ UNCHANGED reader \/ reader' = [reader EXCEPT ![c] = Reading]
    BY <1>5 DEF HubTakesLeave
  <2>2. UNCHANGED <<taken, joins, delivery, connected, due, crashed>>
    BY <1>5 DEF HubTakesLeave
  <2> QED
    BY <2>1, <2>2, ReadingTypes DEF HubTypes, delivery
<1>6. ASSUME NEW c \in Clients, WriterSends(c) PROVE HubTypes'
  <2>1. /\ Tail(channel[c].queue) \in Seq(Nat)
        /\ Append(received[c], Head(channel[c].queue)) \in Seq(Nat)
    BY <1>6, HeadTailProperties, AppendProperties DEF WriterSends, HubTypes
  <2> QED
    BY <1>6, <2>1 DEF WriterSends, HubTypes, client
<1>7. ASSUME NEW c \in Clients, WriterEnds(c) \/ Disconnects(c) PROVE HubTypes'
  BY <1>7 DEF WriterEnds, Disconnects, HubTypes, client, delivery
<1>8. CASE UNCHANGED hubVars
  BY <1>8 DEF hubVars, client, delivery, HubTypes
<1> QED
  BY <1>1, <1>2, <1>3, <1>4, <1>5, <1>6, <1>7, <1>8 DEF HubNext

(* Only a message and the writer touch what is delivered; a connection only *)
(* goes.                                                                    *)
LEMMA DeliveryFrame ==
    ASSUME HubTypes, [HubNext]_hubVars
    PROVE  \/ \E r \in Rooms : HubTakesMessage(r)
           \/ \E c \in Clients : WriterSends(c)
           \/ /\ UNCHANGED <<channel, received, due>>
              /\ \A c \in Clients : connected'[c] => connected[c]
<1>1. CASE \E c \in Clients : WriterEnds(c) \/ Disconnects(c)
  BY <1>1 DEF WriterEnds, Disconnects, delivery, HubTypes
<1>2. CASE \E c \in Clients : \/ \E r \in Rooms : ReadsJoin(c, r) \/ ReadsLeave(c, r)
                              \/ ReaderFails(c) \/ HubTakesJoin(c) \/ HubTakesLeave(c)
  BY <1>2 DEF ReadsJoin, ReadsLeave, Asks, ReaderFails, HubTakesJoin, HubTakesLeave, delivery
<1>3. CASE UNCHANGED hubVars
  BY <1>3 DEF hubVars, delivery
<1> QED
  BY <1>1, <1>2, <1>3 DEF HubNext

(* Messages stay in order. *)
LEMMA InOrderStep == HubTypes /\ InOrder /\ [HubNext]_hubVars => InOrder'
<1> SUFFICES ASSUME HubTypes, InOrder, [HubNext]_hubVars, NEW c \in Clients
             PROVE  Received(c)' /\ Queued(c)'
  BY DEF InOrder
<1> DEFINE queue == channel[c].queue
<1>0. /\ Received(c) /\ Queued(c)
      /\ queue \in Seq(Nat) /\ received[c] \in Seq(Nat) /\ due[c] \in Seq(Nat)
      /\ taken \in Nat /\ connected[c] \in BOOLEAN
  BY DEF InOrder, HubTypes
<1>1. ASSUME NEW r \in Rooms, HubTakesMessage(r) PROVE Received(c)' /\ Queued(c)'
  <2>0. received' = received /\ connected' = connected
    BY <1>1, MessageCases
  <2>1. CASE UNCHANGED <<channel, due>>
    BY <1>0, <2>0, <2>1 DEF Received, Queued
  <2>2. CASE ~UNCHANGED <<channel, due>>
    <3> DEFINE m == taken + 1
    <3>1. \A x \in rooms[r] : ~channel[x].closed
      BY <1>1, <2>2, MessageCases
    <3>2. channel' = [x \in Clients |->
                       IF x \in rooms[r] \ Full(r)
                       THEN [channel[x] EXCEPT !.queue = Append(@, m)]
                       ELSE [channel[x] EXCEPT !.closed = @ \/ x \in Full(r)]]
      BY <1>1, <2>2, MessageCases
    <3>3. due' = [x \in Clients |->
                       IF x \in rooms[r] THEN Append(due[x], m) ELSE due[x]]
      BY <1>1, <2>2, MessageCases
    <3>4. m \in Nat /\ channel[c] \in [queue : Seq(Nat), closed : BOOLEAN]
      BY <1>0 DEF HubTypes
    <3> HIDE DEF m
    <3>5. CASE c \notin rooms[r]
      <4>1. due'[c] = due[c] /\ channel'[c] = channel[c]
        BY <3>2, <3>3, <3>4, <3>5 DEF Full
      <4> QED
        BY <1>0, <2>0, <4>1 DEF Received, Queued
    <3>6. CASE c \in Full(r)
      <4>1. /\ due'[c] = Append(due[c], m)
            /\ channel'[c].queue = queue /\ channel'[c].closed
        BY <3>2, <3>3, <3>4, <3>6 DEF Full
      <4> QED
        BY <1>0, <2>0, <3>4, <4>1, MissedMessage DEF Received, Queued
    <3>7. CASE c \in rooms[r] \ Full(r)
      <4>1. /\ due'[c] = Append(due[c], m)
            /\ channel'[c].queue = Append(queue, m) /\ ~channel[c].closed
        BY <3>1, <3>2, <3>3, <3>4, <3>7
      <4>2. Received(c)'
        BY <1>0, <2>0, <3>4, <4>1, MissedMessage DEF Received
      <4>3. connected[c] =>
                  /\ Continues(received[c], Append(queue, m), Append(due[c], m))
                  /\ Len(Append(due[c], m)) = Len(received[c]) + Len(Append(queue, m))
        BY <1>0, <3>4, <4>1, QueuedMessage DEF Received, Queued
      <4>4. Queued(c)'
        BY <1>0, <2>0, <4>1, <4>3 DEF Queued
      <4> QED
        BY <4>2, <4>4
    <3> QED
      BY <3>5, <3>6, <3>7 DEF Full
  <2> QED
    BY <2>1, <2>2
<1>2. ASSUME NEW w \in Clients, WriterSends(w) PROVE Received(c)' /\ Queued(c)'
  <2>0. due' = due /\ connected' = connected
    BY <1>2 DEF WriterSends
  <2>1. CASE w # c
    <3>1. channel'[c] = channel[c] /\ received'[c] = received[c]
      BY <1>2, <2>1 DEF WriterSends, HubTypes
    <3> QED
      BY <1>0, <2>0, <3>1 DEF Received, Queued
  <2>2. CASE w = c /\ ~connected[c]
    BY <1>0, <1>2, <2>0, <2>2 DEF WriterSends, Received, Queued
  <2>3. CASE w = c /\ connected[c]
    <3>1. /\ received'[c] = Append(received[c], Head(queue)) /\ channel'[c].queue = Tail(queue)
          /\ channel'[c].closed = channel[c].closed /\ queue # <<>>
      BY <1>2, <2>3 DEF WriterSends, HubTypes
    <3> QED
      BY <1>0, <2>0, <2>3, <3>1, SentMessage DEF Received, Queued
  <2> QED
    BY <1>0, <2>1, <2>2, <2>3
<1>3. ASSUME UNCHANGED <<channel, received, due>>, connected'[c] => connected[c]
      PROVE  Received(c)' /\ Queued(c)'
  BY <1>0, <1>3 DEF Received, Queued
<1> QED
  BY <1>1, <1>2, <1>3, DeliveryFrame

----------------------------------------------------------------------------
(* Joins and drops. *)

(* A join is counted when it is read, before it can be taken; a drop takes  *)
(* the client out of the room it is for.                                    *)
LEMMA JoinsCountStep == HubTypes /\ JoinsCount /\ [HubNext]_hubVars => JoinsCount'
<1> SUFFICES ASSUME HubTypes, JoinsCount, [HubNext]_hubVars, NEW c \in Clients
             PROVE  /\ Present(c)' \/ channel'[c].closed => joins'[c] >= 1
                    /\ InTwo(c)' \/ (Present(c)' /\ channel'[c].closed) => joins'[c] >= 2
  BY DEF JoinsCount
<1>0. /\ Present(c) \/ channel[c].closed => joins[c] >= 1
      /\ InTwo(c) \/ (Present(c) /\ channel[c].closed) => joins[c] >= 2
      /\ joins[c] \in Nat
  BY DEF JoinsCount, HubTypes
<1>1. ASSUME NEW r \in Rooms, HubTakesMessage(r)
      PROVE  /\ Present(c)' \/ channel'[c].closed => joins'[c] >= 1
             /\ InTwo(c)' \/ (Present(c)' /\ channel'[c].closed) => joins'[c] >= 2
  <2>1. reader' = reader /\ joins' = joins
    BY <1>1, MessageCases DEF client
  <2>2. CASE UNCHANGED <<rooms, channel>>
    BY <1>0, <2>1, <2>2 DEF Present, InTwo
  <2>3. CASE ~UNCHANGED <<rooms, channel>>
    <3>1. rooms' = [rooms EXCEPT ![r] = @ \ Full(r)]
      BY <1>1, <2>3, MessageCases
    <3>2. channel' = [x \in Clients |->
                       IF x \in rooms[r] \ Full(r)
                       THEN [channel[x] EXCEPT !.queue = Append(@, taken + 1)]
                       ELSE [channel[x] EXCEPT !.closed = @ \/ x \in Full(r)]]
      BY <1>1, <2>3, MessageCases
    <3>3. channel'[c].closed = (channel[c].closed \/ c \in Full(r))
      BY <3>2 DEF HubTypes
    <3>4. \A s \in Rooms : c \in rooms'[s] <=> c \in rooms[s] /\ ~(s = r /\ c \in Full(r))
      BY <3>1 DEF HubTypes
    <3>5. CASE c \notin Full(r)
      BY <1>0, <2>1, <3>3, <3>4, <3>5 DEF Present, InTwo
    <3>6. CASE c \in Full(r)
      <4>1. c \in rooms[r]
        BY <3>6 DEF Full
      <4>2. joins[c] >= 1
        BY <1>0, <4>1 DEF Present
      <4>3. Present(c)' => InTwo(c)
        BY <2>1, <3>4, <3>6, <4>1 DEF Present, InTwo
      <4>4. InTwo(c)' => InTwo(c)
        BY <2>1, <3>4 DEF InTwo
      <4> QED
        BY <1>0, <2>1, <4>2, <4>3, <4>4
    <3> QED
      BY <3>5, <3>6
  <2> QED
    BY <2>2, <2>3
<1>2. ASSUME NEW d \in Clients, NEW r \in Rooms, ReadsJoin(d, r)
      PROVE  /\ Present(c)' \/ channel'[c].closed => joins'[c] >= 1
             /\ InTwo(c)' \/ (Present(c)' /\ channel'[c].closed) => joins'[c] >= 2
  <2>1. rooms' = rooms /\ channel' = channel
    BY <1>2, Zenon DEF ReadsJoin, Asks, delivery
  <2>2. reader' = [reader EXCEPT ![d] = [does |-> "join", room |-> r]]
    BY <1>2, Zenon DEF ReadsJoin, Asks
  <2>3. joins' = [joins EXCEPT ![d] = @ + 1]
    BY <1>2, Zenon DEF ReadsJoin
  <2>4. CASE d # c
    <3>1. reader'[c] = reader[c] /\ joins'[c] = joins[c]
      BY <2>2, <2>3, <2>4 DEF HubTypes
    <3> QED
      BY <1>0, <2>1, <3>1 DEF Present, InTwo
  <2>5. CASE d = c
    <3>1. joins'[c] = joins[c] + 1
      BY <2>3, <2>5 DEF HubTypes
    <3>2. InTwo(c)' => Present(c)
      BY <2>1 DEF InTwo, Present
    <3> QED
      BY <1>0, <2>1, <3>1, <3>2
  <2> QED
    BY <2>4, <2>5
<1>3. ASSUME \A s \in Rooms : c \in rooms'[s] => c \in rooms[s],
             reader'[c].does = "join" => reader[c].does = "join",
             UNCHANGED <<channel, joins>>
      PROVE  /\ Present(c)' \/ channel'[c].closed => joins'[c] >= 1
             /\ InTwo(c)' \/ (Present(c)' /\ channel'[c].closed) => joins'[c] >= 2
  BY <1>0, <1>3 DEF Present, InTwo
<1>4. ASSUME NEW d \in Clients, HubTakesJoin(d)
      PROVE  /\ Present(c)' \/ channel'[c].closed => joins'[c] >= 1
             /\ InTwo(c)' \/ (Present(c)' /\ channel'[c].closed) => joins'[c] >= 2
  <2>0. reader[d].does = "join" /\ reader[d].room \in Rooms
    BY <1>4, ReadingTypes DEF HubTakesJoin
  <2>1. /\ rooms' = [rooms EXCEPT ![reader[d].room] = @ \cup {d}]
        /\ reader' = [reader EXCEPT ![d] = Reading]
        /\ channel' = channel /\ joins' = joins
    BY <1>4 DEF HubTakesJoin, delivery
  <2>2. CASE d # c
    <3>1. \A s \in Rooms : c \in rooms'[s] => c \in rooms[s]
      BY <2>0, <2>1, <2>2 DEF HubTypes
    <3>2. reader'[c] = reader[c]
      BY <2>1, <2>2 DEF HubTypes
    <3> QED
      BY <1>3, <2>1, <3>1, <3>2
  <2>3. CASE d = c
    <3>1. \A s \in Rooms : c \in rooms'[s] => c \in rooms[s] \/ s = reader[c].room
      BY <2>0, <2>1, <2>3 DEF HubTypes
    <3>2. reader'[c].does = "read"
      BY <2>1, <2>3 DEF HubTypes, Reading
    <3>3. Present(c)
      BY <2>0, <2>3 DEF Present
    <3>4. InTwo(c)' => InTwo(c)
      BY <2>0, <2>3, <3>1, <3>2 DEF InTwo
    <3> QED
      BY <1>0, <2>1, <3>3, <3>4
  <2> QED
    BY <2>2, <2>3
<1>5. ASSUME NEW d \in Clients, NEW r \in Rooms, ReadsLeave(d, r)
      PROVE  /\ UNCHANGED <<rooms, channel, joins>>
             /\ reader'[c].does = "join" => reader[c].does = "join"
  <2>1. UNCHANGED <<rooms, channel, joins>>
    BY <1>5 DEF ReadsLeave, Asks, delivery
  <2>2. reader' = [reader EXCEPT ![d] = [does |-> "leave", room |-> r]]
    BY <1>5 DEF ReadsLeave, Asks
  <2> QED
    BY <2>1, <2>2 DEF HubTypes
<1>6. ASSUME NEW d \in Clients, ReaderFails(d)
      PROVE  /\ UNCHANGED <<rooms, channel, joins>>
             /\ reader'[c].does = "join" => reader[c].does = "join"
  BY <1>6 DEF ReaderFails, NextCleanup, HubTypes, delivery
<1>7. ASSUME NEW d \in Clients, HubTakesLeave(d)
      PROVE  /\ UNCHANGED <<channel, joins>>
             /\ \A s \in Rooms : c \in rooms'[s] => c \in rooms[s]
             /\ reader'[c].does = "join" => reader[c].does = "join"
  <2>1. PICK r \in Rooms : /\ rooms' = [rooms EXCEPT ![r] = @ \ {d}]
                           /\ UNCHANGED reader \/ reader' = [reader EXCEPT ![d] = Reading]
    BY <1>7 DEF HubTakesLeave
  <2>2. UNCHANGED <<channel, joins>>
    BY <1>7 DEF HubTakesLeave, delivery
  <2>3. \A s \in Rooms : c \in rooms'[s] => c \in rooms[s]
    BY <2>1 DEF HubTypes
  <2>4. reader'[c].does = "join" => reader[c].does = "join"
    <3>1. reader' = reader \/ reader'[c] = IF c = d THEN Reading ELSE reader[c]
      BY <2>1 DEF HubTypes
    <3>2. Reading.does # "join"
      BY DEF Reading
    <3> QED
      BY <3>1, <3>2
  <2> QED
    BY <2>2, <2>3, <2>4
<1>8. ASSUME NEW d \in Clients, WriterSends(d)
      PROVE  /\ UNCHANGED <<rooms, reader, joins>>
             /\ channel'[c].closed = channel[c].closed
  BY <1>8 DEF WriterSends, HubTypes, client
<1>9. ASSUME UNCHANGED <<rooms, reader, joins>>, channel'[c].closed = channel[c].closed
      PROVE  /\ Present(c)' \/ channel'[c].closed => joins'[c] >= 1
             /\ InTwo(c)' \/ (Present(c)' /\ channel'[c].closed) => joins'[c] >= 2
  BY <1>0, <1>9 DEF Present, InTwo
<1>10. ASSUME NEW d \in Clients, WriterEnds(d) \/ Disconnects(d)
       PROVE  UNCHANGED <<rooms, reader, joins, channel>>
  BY <1>10 DEF WriterEnds, Disconnects, client, delivery
<1>11. CASE UNCHANGED hubVars
  BY <1>9, <1>11 DEF hubVars, client, delivery
<1> QED
  BY <1>1, <1>2, <1>3, <1>4, <1>5, <1>6, <1>7, <1>8, <1>9, <1>10, <1>11 DEF HubNext

(* Who was dropped stays so, and joins are not taken back. *)
LEMMA CrashStep ==
    HubTypes /\ JoinsCount /\ CrashNeedsTwoJoins /\ [HubNext]_hubVars => CrashNeedsTwoJoins'
<1> SUFFICES ASSUME HubTypes, JoinsCount, CrashNeedsTwoJoins, [HubNext]_hubVars
             PROVE  CrashNeedsTwoJoins'
  OBVIOUS
<1>1. ASSUME NEW r \in Rooms, HubTakesMessage(r) PROVE CrashNeedsTwoJoins'
  <2>1. ~crashed
    BY <1>1 DEF HubTakesMessage
  <2>2. joins' = joins
    BY <1>1, MessageCases DEF client
  <2>3. CASE crashed'
    <3>1. PICK c \in rooms[r] : channel[c].closed
      BY <1>1, <2>1, <2>3, MessageCases
    <3>2. channel' = channel
      BY <1>1, <2>1, <2>3, MessageCases
    <3>3. c \in Clients /\ Present(c)
      BY DEF HubTypes, Present
    <3> QED
      BY <2>2, <3>1, <3>2, <3>3 DEF JoinsCount, CrashNeedsTwoJoins
  <2> QED
    BY <2>3 DEF CrashNeedsTwoJoins
<1>2. CASE \E c \in Clients : \/ \E r \in Rooms : ReadsJoin(c, r) \/ ReadsLeave(c, r)
                              \/ ReaderFails(c) \/ HubTakesJoin(c) \/ HubTakesLeave(c)
                              \/ WriterSends(c) \/ WriterEnds(c) \/ Disconnects(c)
  <2>1. ASSUME NEW c \in Clients, NEW r \in Rooms, ReadsJoin(c, r) \/ ReadsLeave(c, r)
        PROVE  ~crashed /\ crashed' = crashed
    BY <2>1, Zenon DEF ReadsJoin, ReadsLeave, Asks
  <2>2. ASSUME NEW c \in Clients,
               \/ ReaderFails(c) \/ HubTakesJoin(c) \/ HubTakesLeave(c)
               \/ WriterSends(c) \/ WriterEnds(c) \/ Disconnects(c)
        PROVE  ~crashed /\ crashed' = crashed
    BY <2>2 DEF ReaderFails, HubTakesJoin, HubTakesLeave, WriterSends, WriterEnds, Disconnects
  <2>3. ~crashed /\ crashed' = crashed
    BY <1>2, <2>1, <2>2, Zenon
  <2> QED
    BY <2>3 DEF CrashNeedsTwoJoins
<1>3. CASE UNCHANGED hubVars
  BY <1>3 DEF hubVars, client, delivery, CrashNeedsTwoJoins
<1> QED
  BY <1>1, <1>2, <1>3 DEF HubNext

----------------------------------------------------------------------------
(* The invariant of the hub, for any clients, rooms, buffers and bounds.    *)
LEMMA HubInvariance == HubSpec => []HubInv
<1>1. HubInit => HubInv
  BY HubInvInit
<1>2. HubInv /\ [HubNext]_hubVars => HubInv'
  BY HubTypesStep, InOrderStep, JoinsCountStep, CrashStep DEF HubInv
<1> QED
  BY <1>1, <1>2, PTL DEF HubSpec

(* Delivery without gaps (hub_impl.go:89-99, client.go:50-83): what a       *)
(* browser got is a prefix of what the hub had for its rooms, whatever the  *)
(* capacity of the channel and however it joins, leaves and is dropped.     *)
THEOREM GaplessDelivery == HubSpec => []DeliveryHasNoGaps
<1>1. HubInv => DeliveryHasNoGaps
  <2> SUFFICES ASSUME HubInv, NEW c \in Clients PROVE IsPrefix(received[c], due[c])
    BY DEF DeliveryHasNoGaps
  <2> DEFINE got == received[c]
             all == due[c]
  <2>1. got \in Seq(Nat) /\ all \in Seq(Nat) /\ Begins(got, all)
    BY DEF HubInv, HubTypes, InOrder, Received
  <2> HIDE DEF got, all
  <2>2. Len(got) \in Nat /\ Len(all) \in Nat /\ Len(got) <= Len(all)
    BY <2>1, LenProperties DEF Begins
  <2>3. SubSeq(got, 1, Len(got)) = got
    BY <2>1, SubSeqFull
  <2>4. \A i \in 1..Len(got) : all[i] \in Nat
    BY <2>1, <2>2, ElementOfSeq
  <2>5. /\ SubSeq(all, 1, Len(got)) \in Seq(Nat)
        /\ Len(SubSeq(all, 1, Len(got))) = Len(got)
        /\ \A i \in 1..Len(got) : SubSeq(all, 1, Len(got))[i] = all[i]
    BY <2>2, <2>4, SubSeqProperties
  <2>6. SubSeq(all, 1, Len(got)) = got
    BY <2>1, <2>5, SeqEqual DEF Begins
  <2> QED
    BY <2>2, <2>3, <2>6 DEF IsPrefix, got, all
<1> QED
  BY <1>1, HubInvariance, PTL

(* Who can bring the hub down (hub_impl.go:93-97): only a client that was   *)
(* dropped and had joined twice, never one that keeps to one room.          *)
THEOREM CrashesNeedTwoJoins == HubSpec => []CrashNeedsTwoJoins
<1>1. HubInv => CrashNeedsTwoJoins
  BY DEF HubInv
<1> QED
  BY <1>1, HubInvariance, PTL
=============================================================================
