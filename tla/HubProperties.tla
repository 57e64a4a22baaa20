---------------------------- MODULE HubProperties ----------------------------
(***************************************************************************)
(* What the hub promises its clients, and what can bring it down.           *)
(***************************************************************************)
EXTENDS Hub

(* What reaches a browser is what the hub had for its rooms while it was in *)
(* them, in order, nothing twice and nothing left out, up to some message:  *)
(* a slow client is cut off (hub_impl.go:93-97), not served with gaps, and  *)
(* leaving, joining again or another room does not reorder anything.        *)
DeliveryHasNoGaps == \A c \in Clients : IsPrefix(received[c], due[c])

(* Only a client that joined at least twice, another room or once more, and *)
(* was dropped for a full channel can bring the hub down: one that is in a  *)
(* single room is removed from it by the broadcast that closes its channel. *)
CrashNeedsTwoJoins == crashed => \E c \in Clients : channel[c].closed /\ joins[c] >= 2

(* A client whose connection is gone leaves every room, whatever it was     *)
(* doing (client.go:40-44, 108-112), unless the hub goes first.             *)
GoneClientsLeave ==
    \A c \in Clients :
        ~connected[c] ~> crashed \/ \A r \in Rooms : c \notin rooms[r]
=============================================================================
