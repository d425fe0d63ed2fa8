------------------------------- MODULE Rooms -------------------------------
(***************************************************************************)
(* The signalling server's room and call membership: rooms.ts, and the     *)
(* membership handlers of handlers.ts and ws.ts that call it.              *)
(*                                                                         *)
(* The server is one JavaScript thread and none of these handlers awaits,  *)
(* so a handler is one action, from the ws callback to the last send().    *)
(* What is concurrent is the outside: sockets open, fall silent and close  *)
(* at any moment, and what the server sends is read later, in order, from  *)
(* the socket's own FIFO channel.                                          *)
(*                                                                         *)
(* A peer is one socket: http.ts gives every upgraded socket a fresh       *)
(* peerId, so a client that reconnects is another member of Peers.         *)
(***************************************************************************)
EXTENDS Naturals, Sequences, FiniteSets

CONSTANTS
    Peers,                \* sockets, each with its peerId
    RoomIds,              \* room ids the clients name
    NoRoom,               \* ws.data.roomId = null
    MaxParticipants,      \* config.maxParticipants
    MaxCallParticipants,  \* MAX_CALL_PARTICIPANTS
    MaxQueue              \* bound: requests wait while a client has that many unread

ASSUME PeersFinite == IsFiniteSet(Peers)
ASSUME NoRoomAssumption == NoRoom \notin RoomIds
ASSUME LimitsAssumption ==
    /\ MaxParticipants \in Nat \ {0}
    /\ MaxCallParticipants \in Nat \ {0}
    /\ MaxQueue \in Nat

VARIABLES
    conn,        \* the socket: "new", "open", "closing" (server closed it), "closed"
    silent,      \* sockets whose network is gone although no close event came
    asked,       \* sockets whose client has sent its one join request
    wsRoom,      \* ws.data.roomId
    rooms,       \* the keys of the rooms map
    roomPeers,   \* room.peers
    callPeers,   \* room.callPeers
    peerRooms,   \* the reverse lookup
    heartbeats,  \* keys of the heartbeats map: a running ping and pong timer each
    out          \* per socket, what was sent and the client has not read

roomVars == <<rooms, roomPeers, callPeers, peerRooms>>
vars == <<conn, silent, asked, wsRoom, rooms, roomPeers, callPeers, peerRooms, heartbeats, out>>

-----------------------------------------------------------------------------
(* Messages: the fields that say something of membership, or of who sent.  *)

PeersListMsg(S) == [type |-> "peers-list", peers |-> S]
PeerJoinedMsg(p) == [type |-> "peer-joined", peer |-> p]
PeerLeftOfRoom(p) == [type |-> "peer-left", peer |-> wsRoom[p]]  \* mutant: the wrong id is sent
PeerLeftMsg(p) == [type |-> "peer-left", peer |-> p]
CallPeersMsg(S) == [type |-> "call-peers", peers |-> S]
RelayMsg(p) == [type |-> "relay", peer |-> p]  \* offer, answer, ice-candidate, chat-received
ErrorMsg(c) == [type |-> "error", code |-> c]

ErrorCodes == {"ROOM_FULL", "NOT_IN_ROOM", "CALL_FULL"}

Message ==
    [type : {"peers-list", "call-peers"}, peers : SUBSET Peers]
        \cup [type : {"peer-joined", "peer-left", "relay"}, peer : Peers]
        \cup [type : {"error"}, code : ErrorCodes]

-----------------------------------------------------------------------------
(* Sockets.                                                                *)

Live(p) == conn[p] = "open" /\ p \notin silent

\* send(): a socket that is closed, or whose reader is gone, loses the message.
Post(o, S, m) == [q \in Peers |-> IF q \in S /\ Live(q) THEN Append(o[q], m) ELSE o[q]]

\* Requests wait while some client has MaxQueue messages unread (a handler sends at most 3).
HasSpace == \A q \in Peers : Len(out[q]) < MaxQueue

\* A request of the client of p reaches the server: every handler's trigger.
Request(p) == Live(p) /\ HasSpace

-----------------------------------------------------------------------------
(* rooms.ts: what join, leave, joinCall, leaveCall change and send.        *)

RoomFullOffByOne(r) == Cardinality(roomPeers[r]) > MaxParticipants  \* mutant
RoomFull(r) == Cardinality(roomPeers[r]) >= MaxParticipants

CallFullUnchecked(r) == FALSE  \* mutant
CallFull(r) == Cardinality(callPeers[r]) >= MaxCallParticipants

\* The look-up of routeToPeer and joinCall: a member of that room.
RoutableAnywhere(r, q) == r \in rooms /\ conn[q] = "open"  \* mutant: any socket will do
Routable(r, q) == r \in rooms /\ q \in roomPeers[r]

\* mutant: the newcomer is in its own list
JoinSendsAfterAdd(p, r) ==
    Post(Post(out, roomPeers[r], PeerJoinedMsg(p)), {p}, PeersListMsg(roomPeers[r] \cup {p}))

\* join tells the members there before, then handleJoin answers the newcomer:
\* its join acknowledgement and history carry no membership and are left out.
JoinSends(p, r) ==
    LET existing == roomPeers[r]
        told == Post(Post(out, existing, PeerJoinedMsg(p)), {p}, PeersListMsg(existing))
    IN  IF callPeers[r] # {} THEN Post(told, {p}, CallPeersMsg(callPeers[r])) ELSE told

\* mutant: the leaver is not told
LeaverNotTold(o, p, r) ==
    IF p \in callPeers[r] THEN Post(o, roomPeers[r] \ {p}, CallPeersMsg(callPeers[r] \ {p})) ELSE o
\* leaveCall tells the whole room, the leaver included.
LeaveCallSends(o, p, r) ==
    IF p \in callPeers[r] THEN Post(o, roomPeers[r], CallPeersMsg(callPeers[r] \ {p})) ELSE o

\* leave: the call's new list first, then peer-left, to those who remain.
LeaveSends(p, r) ==
    IF r \in rooms
    THEN Post(LeaveCallSends(out, p, r), roomPeers[r] \ {p}, PeerLeftMsg(p))
    ELSE out

\* joinCall tells everyone but the joiner; handleJoinCall tells the joiner.
JoinCallSends(p, r) ==
    LET list == callPeers[r] \cup {p}
    IN  Post(Post(out, roomPeers[r] \ {p}, CallPeersMsg(list)), {p}, CallPeersMsg(list \ {p}))

\* handleLeave but for its messages: rooms.leave, ws.data.roomId, stopHeartbeat.
DoLeave(p) ==
    LET r == wsRoom[p] IN
    /\ heartbeats' = heartbeats \ {p}
    /\ wsRoom' = [wsRoom EXCEPT ![p] = NoRoom]
    /\ IF r \in rooms
       THEN /\ callPeers' = [callPeers EXCEPT ![r] = @ \ {p}]
            /\ roomPeers' = [roomPeers EXCEPT ![r] = @ \ {p}]
            /\ peerRooms' = [peerRooms EXCEPT ![p] = NoRoom]
            /\ rooms' = IF roomPeers[r] \ {p} = {} THEN rooms \ {r} ELSE rooms
       ELSE UNCHANGED roomVars

-----------------------------------------------------------------------------
(* The handlers.                                                           *)

Init ==
    /\ conn = [p \in Peers |-> "new"]
    /\ silent = {}
    /\ asked = {}
    /\ wsRoom = [p \in Peers |-> NoRoom]
    /\ rooms = {}
    /\ roomPeers = [r \in RoomIds |-> {}]
    /\ callPeers = [r \in RoomIds |-> {}]
    /\ peerRooms = [p \in Peers |-> NoRoom]
    /\ heartbeats = {}
    /\ out = [p \in Peers |-> <<>>]

\* The upgrade of a /ws request.
Open(p) ==
    /\ conn[p] = "new"
    /\ conn' = [conn EXCEPT ![p] = "open"]
    /\ UNCHANGED <<silent, asked, wsRoom, rooms, roomPeers, callPeers, peerRooms, heartbeats, out>>

\* handleJoin. The client sends join once per socket, when it opens.
Join(p, r) ==
    /\ Request(p)
    /\ p \notin asked
    /\ asked' = asked \cup {p}
    /\ rooms' = rooms \cup {r}
    /\ \/ /\ RoomFull(r)
          /\ out' = Post(out, {p}, ErrorMsg("ROOM_FULL"))
          /\ UNCHANGED <<wsRoom, roomPeers, peerRooms, heartbeats>>
       \/ /\ ~RoomFull(r)
          /\ roomPeers' = [roomPeers EXCEPT ![r] = @ \cup {p}]
          /\ peerRooms' = [peerRooms EXCEPT ![p] = r]
          /\ wsRoom' = [wsRoom EXCEPT ![p] = r]
          /\ heartbeats' = heartbeats \cup {p}
          /\ out' = JoinSends(p, r)
    /\ UNCHANGED <<conn, silent, callPeers>>

\* handleLeave, on a leave message.
Leave(p) ==
    /\ Request(p)
    /\ out' = LeaveSends(p, wsRoom[p])
    /\ DoLeave(p)
    /\ UNCHANGED <<conn, silent, asked>>

\* handleJoinCall
JoinCall(p) ==
    LET r == wsRoom[p] IN
    /\ Request(p)
    /\ \/ /\ ~Routable(r, p)
          /\ out' = Post(out, {p}, ErrorMsg("NOT_IN_ROOM"))
          /\ UNCHANGED callPeers
       \/ /\ Routable(r, p)
          /\ CallFull(r)
          /\ out' = Post(out, {p}, ErrorMsg("CALL_FULL"))
          /\ UNCHANGED callPeers
       \/ /\ Routable(r, p)
          /\ ~CallFull(r)
          /\ callPeers' = [callPeers EXCEPT ![r] = @ \cup {p}]
          /\ out' = JoinCallSends(p, r)
    /\ UNCHANGED <<conn, silent, asked, wsRoom, rooms, roomPeers, peerRooms, heartbeats>>

\* handleLeaveCall
LeaveCall(p) ==
    LET r == wsRoom[p] IN
    /\ Request(p)
    /\ r # NoRoom
    /\ p \in callPeers[r]
    /\ callPeers' = [callPeers EXCEPT ![r] = @ \ {p}]
    /\ out' = LeaveCallSends(out, p, r)
    /\ UNCHANGED <<conn, silent, asked, wsRoom, rooms, roomPeers, peerRooms, heartbeats>>

\* handleRelay and handleChatReceived: the sender names any peerId it knows.
Relay(p, q) ==
    LET r == wsRoom[p] IN
    /\ Request(p)
    /\ \/ r = NoRoom /\ out' = Post(out, {p}, ErrorMsg("NOT_IN_ROOM"))
       \/ r # NoRoom /\ Routable(r, q) /\ out' = Post(out, {q}, RelayMsg(p))
    /\ UNCHANGED <<conn, silent, asked, wsRoom, rooms, roomPeers, callPeers, peerRooms, heartbeats>>

\* mutant: the heartbeat is not taken out of the registry
HeartbeatKept(p) ==
    /\ p \in heartbeats
    /\ conn' = [conn EXCEPT ![p] = "closing"]
    /\ UNCHANGED <<silent, asked, wsRoom, rooms, roomPeers, callPeers, peerRooms, heartbeats, out>>
\* The pong deadline passes: onTimeout of startHeartbeat.
HeartbeatTimeout(p) ==
    /\ p \in heartbeats
    /\ heartbeats' = heartbeats \ {p}
    /\ conn' = [conn EXCEPT ![p] = "closing"]
    /\ UNCHANGED <<silent, asked, wsRoom, rooms, roomPeers, callPeers, peerRooms, out>>

\* mutant: the close event does not lead to handleLeave
CloseForgets(p) ==
    /\ Live(p) \/ conn[p] = "closing"
    /\ conn' = [conn EXCEPT ![p] = "closed"]
    /\ out' = [out EXCEPT ![p] = <<>>]
    /\ UNCHANGED <<silent, asked, wsRoom, rooms, roomPeers, callPeers, peerRooms, heartbeats>>
\* The close event: the client closed, or the server's own close completed.
Close(p) ==
    /\ Live(p) \/ conn[p] = "closing"
    /\ conn' = [conn EXCEPT ![p] = "closed"]
    /\ out' = [LeaveSends(p, wsRoom[p]) EXCEPT ![p] = <<>>]
    /\ DoLeave(p)
    /\ UNCHANGED <<silent, asked>>

\* The network of an open socket goes away and no event says so.
FallSilent(p) ==
    /\ Live(p)
    /\ silent' = silent \cup {p}
    /\ out' = [out EXCEPT ![p] = <<>>]
    /\ UNCHANGED <<conn, asked, wsRoom, rooms, roomPeers, callPeers, peerRooms, heartbeats>>

\* The client reads the next message.
Deliver(p) ==
    /\ Live(p)
    /\ out[p] # <<>>
    /\ out' = [out EXCEPT ![p] = Tail(@)]
    /\ UNCHANGED <<conn, silent, asked, wsRoom, rooms, roomPeers, callPeers, peerRooms, heartbeats>>

\* What the server does, and what happens to its sockets.
ServerStep(p) ==
    \/ Open(p)
    \/ \E r \in RoomIds : Join(p, r)
    \/ Leave(p)
    \/ JoinCall(p)
    \/ LeaveCall(p)
    \/ \E q \in Peers \ {p} : Relay(p, q)
    \/ HeartbeatTimeout(p)
    \/ Close(p)
    \/ FallSilent(p)

Next == \E p \in Peers : ServerStep(p) \/ Deliver(p)

\* Timers and close events come; clients need not ask for anything.
Fairness ==
    \A p \in Peers :
        /\ WF_vars(p \in silent /\ HeartbeatTimeout(p))
        /\ WF_vars(conn[p] = "closing" /\ Close(p))
        /\ WF_vars(Deliver(p))

Spec == Init /\ [][Next]_vars /\ Fairness

-----------------------------------------------------------------------------
(* Type invariant *)
TypeOK ==
    /\ conn \in [Peers -> {"new", "open", "closing", "closed"}]
    /\ silent \in SUBSET Peers
    /\ asked \in SUBSET Peers
    /\ wsRoom \in [Peers -> RoomIds \cup {NoRoom}]
    /\ rooms \in SUBSET RoomIds
    /\ roomPeers \in [RoomIds -> SUBSET Peers]
    /\ callPeers \in [RoomIds -> SUBSET Peers]
    /\ peerRooms \in [Peers -> RoomIds \cup {NoRoom}]
    /\ heartbeats \in SUBSET Peers
    /\ out \in [Peers -> Seq(Message)]

(***************************************************************************)
(* The five places that record membership agree: ws.data.roomId, the       *)
(* rooms map, its peers and callPeers, the reverse lookup and the          *)
(* heartbeat registry.  No ghost stays in a room or a call after its       *)
(* socket is gone, no empty room lingers, and every member whose socket    *)
(* the server has not given up on is being watched by a heartbeat.         *)
(***************************************************************************)
MembershipConsistent ==
    /\ \A p \in Peers, r \in RoomIds : p \in roomPeers[r] <=> wsRoom[p] = r
    /\ peerRooms = wsRoom
    /\ \A r \in RoomIds : r \in rooms <=> roomPeers[r] # {}
    /\ \A r \in RoomIds : callPeers[r] \subseteq roomPeers[r]
    /\ \A p \in Peers : p \in heartbeats <=> wsRoom[p] # NoRoom /\ conn[p] = "open"
    /\ \A p \in Peers : conn[p] \in {"new", "closed"} => wsRoom[p] = NoRoom
    /\ \A p \in Peers : wsRoom[p] # NoRoom => p \in asked

(***************************************************************************)
(* rooms.join and rooms.joinCall never admit more than the configured      *)
(* number to a room, or MAX_CALL_PARTICIPANTS to a call.                   *)
(***************************************************************************)
CapacityRespected ==
    \A r \in RoomIds :
        /\ Cardinality(roomPeers[r]) <= MaxParticipants
        /\ Cardinality(callPeers[r]) <= MaxCallParticipants

(***************************************************************************)
(* A member whose network is gone, with no close event to say so, is       *)
(* eventually put out of its room by the heartbeat.                        *)
(***************************************************************************)
SilentMemberEvicted ==
    \A p \in Peers : p \in silent /\ wsRoom[p] # NoRoom ~> wsRoom[p] = NoRoom

InSomeCall == UNION {callPeers[r] : r \in RoomIds}
Members == INSTANCE Membership WITH at <- wsRoom, calling <- InSomeCall, tried <- asked

(***************************************************************************)
(* The handlers implement Membership: whatever messages, timeouts and      *)
(* close events come for a socket, a peer enters and leaves rooms and      *)
(* calls as the limits there allow, one peer at a time, never the call of  *)
(* a room it is not in, and is turned away only from a full room.          *)
(***************************************************************************)
ImplementsMembership == Members!Spec
=============================================================================
