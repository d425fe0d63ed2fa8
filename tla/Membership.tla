----------------------------- MODULE Membership -----------------------------
(***************************************************************************)
(* What the room server promises of membership, without its maps, lists,   *)
(* sockets and timers: a peer is in one room at most, enters one once in   *)
(* its life, and is in that room's call or not.  Rooms implements it.      *)
(***************************************************************************)
EXTENDS Naturals, FiniteSets

CONSTANTS Peers, RoomIds, NoRoom, MaxParticipants, MaxCallParticipants

VARIABLES
    at,       \* the room each peer is in
    calling,  \* the peers in a call
    tried     \* the peers that asked for a room

members == <<at, calling, tried>>

In(r) == {p \in Peers : at[p] = r}

Init ==
    /\ at = [p \in Peers |-> NoRoom]
    /\ calling = {}
    /\ tried = {}

Enter(p, r) ==
    /\ p \notin tried
    /\ Cardinality(In(r)) < MaxParticipants
    /\ at' = [at EXCEPT ![p] = r]
    /\ tried' = tried \cup {p}
    /\ UNCHANGED calling

\* Nobody is turned away from a room with a place.
TurnedAway(p, r) ==
    /\ p \notin tried
    /\ Cardinality(In(r)) >= MaxParticipants
    /\ tried' = tried \cup {p}
    /\ UNCHANGED <<at, calling>>

EnterCall(p) ==
    /\ at[p] # NoRoom
    /\ Cardinality(In(at[p]) \cap calling) < MaxCallParticipants
    /\ calling' = calling \cup {p}
    /\ UNCHANGED <<at, tried>>

LeaveCall(p) ==
    /\ calling' = calling \ {p}
    /\ UNCHANGED <<at, tried>>

\* The room and its call are left together.
Depart(p) ==
    /\ at' = [at EXCEPT ![p] = NoRoom]
    /\ calling' = calling \ {p}
    /\ UNCHANGED tried

Next ==
    \E p \in Peers :
        \/ \E r \in RoomIds : Enter(p, r) \/ TurnedAway(p, r)
        \/ EnterCall(p)
        \/ LeaveCall(p)
        \/ Depart(p)

Spec == Init /\ [][Next]_members
=============================================================================
