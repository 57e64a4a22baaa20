--------------------------------- MODULE Hub ---------------------------------
(***************************************************************************)
(* The WebSocket hub of one instance of the Go backend and its clients:     *)
(*   internal/websocket/hub_impl.go   run, listenRedis                      *)
(*   internal/websocket/client.go     ReadPump, WritePump, cleanup          *)
(*                                                                          *)
(* A client is two goroutines and a channel.  Its reader hands joins and    *)
(* leaves to the hub and waits until they are taken; its writer sends what  *)
(* the hub puts on the channel.  The hub never waits: a client whose        *)
(* channel is full is dropped.  A send on a channel that is closed panics,  *)
(* and nothing recovers: the process is gone.                               *)
(***************************************************************************)
EXTENDS Integers, SequencesExt

CONSTANTS Clients, Rooms,
          BufferSize,    \* capacity of a client's channel
          MaxMessages,   \* bound on messages Redis brings
          MaxJoins       \* bound on joins

VARIABLES taken,      \* how many messages Redis has brought
          rooms,      \* the hub's clients by room
          reader,     \* what a client's reader is doing
          mine,       \* the rooms it has on record
          joins,      \* how often it joined
          channel,    \* queued messages of a client, and whether it is closed
          writing,    \* whether its writer runs
          connected,  \* whether its connection is open
          received,   \* what reached the browser
          due,        \* what the hub had for the client's rooms while it was in them
          crashed

client   == <<reader, mine, joins>>
delivery == <<channel, writing, received>>
hubVars  == <<taken, rooms, client, delivery, connected, due, crashed>>

Reading == [does |-> "read"]

----------------------------------------------------------------------------
(* ReadPump *)

Asks(c, what) ==
    /\ ~crashed
    /\ connected[c]
    /\ reader[c] = Reading
    /\ reader' = [reader EXCEPT ![c] = what]
    /\ UNCHANGED <<taken, rooms, mine, delivery, connected, due, crashed>>

ReadsJoin(c, r) ==
    /\ MapThenSumSet(LAMBDA d : joins[d], Clients) < MaxJoins
    /\ joins' = [joins EXCEPT ![c] = @ + 1]
    /\ Asks(c, [does |-> "join", room |-> r])

(* A page leaves the room it joined. *)
ReadsLeave(c, r) ==
    /\ r \in mine[c]
    /\ Asks(c, [does |-> "leave", room |-> r])
    /\ UNCHANGED joins

(* Mutant: the reader ends without a word to the hub. *)
GoesSilently(c) == [does |-> "end"]

(* cleanup hands in one leave after the other, and is done. *)
NextCleanup(c) == [does |-> "clean"]

(* Reading fails: the browser went, did not answer a ping, or the writer    *)
(* closed the connection.                                                   *)
ReaderFails(c) ==
    /\ ~crashed
    /\ ~connected[c]
    /\ reader[c] = Reading
    /\ reader' = [reader EXCEPT ![c] = NextCleanup(c)]
    /\ UNCHANGED <<taken, rooms, mine, joins, delivery, connected, due, crashed>>

----------------------------------------------------------------------------
(* run: it takes a join, a leave or a message.  Once a join or a leave is   *)
(* taken, the reader notes the room and reads on.                           *)

HubTakesJoin(c) ==
    /\ ~crashed
    /\ reader[c].does = "join"
    /\ rooms' = [rooms EXCEPT ![reader[c].room] = @ \cup {c}]
    /\ mine' = [mine EXCEPT ![c] = @ \cup {reader[c].room}]
    /\ reader' = [reader EXCEPT ![c] = Reading]
    /\ UNCHANGED <<taken, joins, delivery, connected, due, crashed>>

HubTakesLeave(c) ==
    /\ ~crashed
    /\ \E r \in Rooms :
          /\ \/ reader[c].does = "leave" /\ reader[c].room = r
                                         /\ reader' = [reader EXCEPT ![c] = Reading]
             \/ reader[c].does = "clean" /\ r \in mine[c]
                                         /\ UNCHANGED reader
          /\ rooms' = [rooms EXCEPT ![r] = @ \ {c}]
          /\ mine' = [mine EXCEPT ![c] = @ \ {r}]
    /\ UNCHANGED <<taken, joins, delivery, connected, due, crashed>>

(* Mutant: a message too many is skipped, and the client kept. *)
SkipsFull(full) == {}

(* Who is dropped, of those with a full channel. *)
Drops(full) == full

(* Mutant: a dropped client stays in the room. *)
RemainWithDropped(members, full) == members

Remain(members, full) == members \ full

(* A message for a room, from whichever instance published it.  What Redis  *)
(* brought while this instance was disconnected or slow never comes.        *)
HubTakesMessage(r) ==
    /\ ~crashed
    /\ taken < MaxMessages
    /\ taken' = taken + 1
    /\ LET message == taken'
           members == rooms[r]
           full    == {c \in members : Len(channel[c].queue) >= BufferSize}
       IN  \/ /\ \E c \in members : channel[c].closed
              /\ crashed' = TRUE
              /\ UNCHANGED <<rooms, channel, due>>
           \/ /\ \A c \in members : ~channel[c].closed
              /\ channel' = [c \in Clients |->
                    IF c \in members \ full
                    THEN [channel[c] EXCEPT !.queue = Append(@, message)]
                    ELSE [channel[c] EXCEPT !.closed = @ \/ c \in Drops(full)]]
              /\ rooms' = [rooms EXCEPT ![r] = Remain(@, full)]
              /\ due' = [c \in Clients |-> IF c \in members THEN Append(due[c], message)
                                                            ELSE due[c]]
              /\ UNCHANGED crashed
    /\ UNCHANGED <<client, writing, received, connected>>

----------------------------------------------------------------------------
(* WritePump.  An error of writing a message is ignored; that of a ping is  *)
(* not.                                                                     *)

WriterSends(c) ==
    /\ ~crashed /\ writing[c]
    /\ channel[c].queue # <<>>
    /\ channel' = [channel EXCEPT ![c].queue = Tail(@)]
    /\ received' = IF connected[c]
                   THEN [received EXCEPT ![c] = Append(@, Head(channel[c].queue))]
                   ELSE received
    /\ UNCHANGED <<taken, rooms, client, writing, connected, due, crashed>>

WriterEnds(c) ==
    /\ ~crashed /\ writing[c]
    /\ \/ channel[c].queue = <<>> /\ channel[c].closed
       \/ ~connected[c]
    /\ writing' = [writing EXCEPT ![c] = FALSE]
    /\ connected' = [connected EXCEPT ![c] = FALSE]
    /\ UNCHANGED <<taken, rooms, client, channel, received, due, crashed>>

(* The browser leaves, or its network does. *)
Disconnects(c) ==
    /\ ~crashed
    /\ connected[c]
    /\ connected' = [connected EXCEPT ![c] = FALSE]
    /\ UNCHANGED <<taken, rooms, client, delivery, due, crashed>>

----------------------------------------------------------------------------
HubInit ==
    /\ taken = 0
    /\ rooms = [r \in Rooms |-> {}]
    /\ reader = [c \in Clients |-> Reading]
    /\ mine = [c \in Clients |-> {}]
    /\ joins = [c \in Clients |-> 0]
    /\ channel = [c \in Clients |-> [queue |-> <<>>, closed |-> FALSE]]
    /\ writing = [c \in Clients |-> TRUE]
    /\ connected = [c \in Clients |-> TRUE]
    /\ received = [c \in Clients |-> <<>>]
    /\ due = [c \in Clients |-> <<>>]
    /\ crashed = FALSE

HubNext ==
    \/ \E r \in Rooms : HubTakesMessage(r)
    \/ \E c \in Clients :
          \/ \E r \in Rooms : ReadsJoin(c, r) \/ ReadsLeave(c, r)
          \/ ReaderFails(c)
          \/ HubTakesJoin(c) \/ HubTakesLeave(c)
          \/ WriterSends(c) \/ WriterEnds(c)
          \/ Disconnects(c)

(* Goroutines that can go on do, select leaves none of its channels out for *)
(* ever, and pings find out about a connection that is gone.                *)
HubSpec ==
    /\ HubInit /\ [][HubNext]_hubVars
    /\ \A c \in Clients :
          /\ WF_hubVars(HubTakesJoin(c))
          /\ WF_hubVars(HubTakesLeave(c))
          /\ WF_hubVars(ReaderFails(c))
          /\ WF_hubVars(WriterSends(c))
          /\ WF_hubVars(WriterEnds(c))
=============================================================================
