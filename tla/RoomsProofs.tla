---------------------------- MODULE RoomsProofs ----------------------------
(***************************************************************************)
(* Proofs about Rooms, for any number of sockets and rooms and any limits. *)
(*                                                                         *)
(* Messages never influence membership, so type correctness is proved      *)
(* first, and MembershipConsistent is then inductive relative to it.       *)
(***************************************************************************)
EXTENDS Rooms, FiniteSetTheorems, TLAPS

-----------------------------------------------------------------------------
(* Channels.                                                               *)

(* What Post sends keeps the channels typed. *)
LEMMA PostType ==
    ASSUME NEW o \in [Peers -> Seq(Message)], NEW S, NEW m \in Message
    PROVE  Post(o, S, m) \in [Peers -> Seq(Message)]
<1>1. \A q \in Peers : Append(o[q], m) \in Seq(Message)
  OBVIOUS
<1>2. QED
  BY <1>1 DEF Post

(* Every message a handler constructs is a Message. *)
LEMMA MessageTypes ==
    /\ \A S \in SUBSET Peers : PeersListMsg(S) \in Message /\ CallPeersMsg(S) \in Message
    /\ \A p \in Peers : PeerJoinedMsg(p) \in Message /\ PeerLeftMsg(p) \in Message
    /\ \A p \in Peers : RelayMsg(p) \in Message
    /\ \A c \in ErrorCodes : ErrorMsg(c) \in Message
  BY DEF Message, PeersListMsg, CallPeersMsg, PeerJoinedMsg, PeerLeftMsg, RelayMsg, ErrorMsg

(* The broadcasts of the handlers keep the channels typed. *)
LEMMA SendsType ==
    ASSUME TypeOK, NEW p \in Peers, NEW r \in RoomIds
    PROVE  /\ JoinSends(p, r) \in [Peers -> Seq(Message)]
           /\ LeaveCallSends(out, p, r) \in [Peers -> Seq(Message)]
           /\ JoinCallSends(p, r) \in [Peers -> Seq(Message)]
<1>1. roomPeers[r] \in SUBSET Peers /\ callPeers[r] \in SUBSET Peers
  BY DEF TypeOK
<1>2. out \in [Peers -> Seq(Message)]
  BY DEF TypeOK
<1>3. JoinSends(p, r) \in [Peers -> Seq(Message)]
  <2> DEFINE a == Post(out, roomPeers[r], PeerJoinedMsg(p))
             b == Post(a, {p}, PeersListMsg(roomPeers[r]))
             c == Post(b, {p}, CallPeersMsg(callPeers[r]))
  <2>1. a \in [Peers -> Seq(Message)]
    BY <1>2, PostType, MessageTypes
  <2>2. b \in [Peers -> Seq(Message)]
    <3> HIDE DEF a
    <3> QED BY <1>1, <2>1, PostType, MessageTypes
  <2>3. c \in [Peers -> Seq(Message)]
    <3> HIDE DEF b
    <3> QED BY <1>1, <2>2, PostType, MessageTypes
  <2>4. JoinSends(p, r) = IF callPeers[r] # {} THEN c ELSE b
    BY DEF JoinSends
  <2> HIDE DEF b, c
  <2>5. QED
    BY <2>2, <2>3, <2>4
<1>4. LeaveCallSends(out, p, r) \in [Peers -> Seq(Message)]
  <2>1. callPeers[r] \ {p} \in SUBSET Peers
    BY <1>1
  <2>2. Post(out, roomPeers[r], CallPeersMsg(callPeers[r] \ {p})) \in [Peers -> Seq(Message)]
    BY <1>2, <2>1, PostType, MessageTypes
  <2>3. QED
    BY <1>2, <2>2 DEF LeaveCallSends
<1>5. JoinCallSends(p, r) \in [Peers -> Seq(Message)]
  <2> DEFINE list == callPeers[r] \cup {p}
             a == Post(out, roomPeers[r] \ {p}, CallPeersMsg(list))
  <2>1. list \in SUBSET Peers /\ list \ {p} \in SUBSET Peers
    BY <1>1
  <2>2. a \in [Peers -> Seq(Message)]
    <3> HIDE DEF list
    <3> QED BY <1>2, <2>1, PostType, MessageTypes
  <2>3. Post(a, {p}, CallPeersMsg(list \ {p})) \in [Peers -> Seq(Message)]
    <3> HIDE DEF a, list
    <3> QED BY <2>1, <2>2, PostType, MessageTypes
  <2>4. QED
    BY <2>3 DEF JoinCallSends
<1>6. QED
  BY <1>3, <1>4, <1>5

(* leave's broadcasts keep the channels typed, the peer being in a room or not. *)
LEMMA LeaveSendsType ==
    ASSUME TypeOK, NEW p \in Peers, NEW r \in RoomIds \cup {NoRoom}
    PROVE  LeaveSends(p, r) \in [Peers -> Seq(Message)]
<1>1. CASE r \in rooms
  <2>1. r \in RoomIds
    BY <1>1 DEF TypeOK
  <2> DEFINE a == LeaveCallSends(out, p, r)
  <2>2. a \in [Peers -> Seq(Message)]
    BY <2>1, SendsType
  <2>3. Post(a, roomPeers[r] \ {p}, PeerLeftMsg(p)) \in [Peers -> Seq(Message)]
    <3> HIDE DEF a
    <3> QED BY <2>2, PostType, MessageTypes
  <2>4. QED
    BY <1>1, <2>3 DEF LeaveSends
<1>2. CASE r \notin rooms
  BY <1>2 DEF LeaveSends, TypeOK
<1>3. QED
  BY <1>1, <1>2

-----------------------------------------------------------------------------
(* Type correctness.                                                       *)

(* handleLeave keeps the membership variables typed. *)
LEMMA DoLeaveType ==
    ASSUME TypeOK, NEW p \in Peers, DoLeave(p)
    PROVE  /\ heartbeats' \in SUBSET Peers
           /\ wsRoom' \in [Peers -> RoomIds \cup {NoRoom}]
           /\ rooms' \in SUBSET RoomIds
           /\ roomPeers' \in [RoomIds -> SUBSET Peers]
           /\ callPeers' \in [RoomIds -> SUBSET Peers]
           /\ peerRooms' \in [Peers -> RoomIds \cup {NoRoom}]
<1>1. heartbeats' \in SUBSET Peers /\ wsRoom' \in [Peers -> RoomIds \cup {NoRoom}]
  BY DEF TypeOK, DoLeave
<1>2. CASE wsRoom[p] \in rooms
  <2>1. wsRoom[p] \in RoomIds
    BY <1>2 DEF TypeOK
  <2>2. /\ callPeers' = [callPeers EXCEPT ![wsRoom[p]] = @ \ {p}]
        /\ roomPeers' = [roomPeers EXCEPT ![wsRoom[p]] = @ \ {p}]
    BY <1>2 DEF DoLeave
  <2>3. callPeers \in [RoomIds -> SUBSET Peers] /\ roomPeers \in [RoomIds -> SUBSET Peers]
    BY DEF TypeOK
  <2>4. callPeers' \in [RoomIds -> SUBSET Peers] /\ roomPeers' \in [RoomIds -> SUBSET Peers]
    BY <2>1, <2>2, <2>3
  <2>5. peerRooms' \in [Peers -> RoomIds \cup {NoRoom}] /\ rooms' \in SUBSET RoomIds
    BY <1>2 DEF TypeOK, DoLeave
  <2>6. QED
    BY <1>1, <2>4, <2>5
<1>3. CASE wsRoom[p] \notin rooms
  BY <1>1, <1>3 DEF TypeOK, DoLeave, roomVars
<1>4. QED
  BY <1>2, <1>3

(* One step of a handler, a timer or the network keeps TypeOK. *)
LEMMA TypeStep ==
    ASSUME TypeOK, [Next]_vars
    PROVE  TypeOK'
<1>1. CASE UNCHANGED vars
  BY <1>1 DEF TypeOK, vars
<1>2. ASSUME NEW p \in Peers, Open(p) PROVE TypeOK'
  BY <1>2 DEF TypeOK, Open
<1>3. ASSUME NEW p \in Peers, NEW r \in RoomIds, Join(p, r) PROVE TypeOK'
  <2>1. out' \in [Peers -> Seq(Message)]
    <3>1. Post(out, {p}, ErrorMsg("ROOM_FULL")) \in [Peers -> Seq(Message)]
      BY PostType, MessageTypes DEF TypeOK, ErrorCodes
    <3>2. JoinSends(p, r) \in [Peers -> Seq(Message)]
      BY SendsType
    <3>3. QED
      BY <1>3, <3>1, <3>2 DEF Join
  <2>2. rooms' \in SUBSET RoomIds /\ asked' \in SUBSET Peers
    BY <1>3 DEF TypeOK, Join
  <2>3. UNCHANGED <<conn, silent, callPeers>>
    BY <1>3 DEF Join
  <2>4. /\ roomPeers' \in [RoomIds -> SUBSET Peers]
        /\ heartbeats' \in SUBSET Peers
        /\ wsRoom' \in [Peers -> RoomIds \cup {NoRoom}]
        /\ peerRooms' \in [Peers -> RoomIds \cup {NoRoom}]
    <3>1. CASE UNCHANGED <<wsRoom, roomPeers, peerRooms, heartbeats>>
      BY <3>1 DEF TypeOK
    <3>2. CASE /\ roomPeers' = [roomPeers EXCEPT ![r] = @ \cup {p}]
               /\ peerRooms' = [peerRooms EXCEPT ![p] = r]
               /\ wsRoom' = [wsRoom EXCEPT ![p] = r]
               /\ heartbeats' = heartbeats \cup {p}
      BY <3>2 DEF TypeOK
    <3>3. QED
      BY <1>3, <3>1, <3>2 DEF Join
  <2>5. QED
    BY <2>1, <2>2, <2>3, <2>4 DEF TypeOK
<1>4. ASSUME NEW p \in Peers, Leave(p) PROVE TypeOK'
  <2>1. wsRoom[p] \in RoomIds \cup {NoRoom}
    BY DEF TypeOK
  <2>2. out' \in [Peers -> Seq(Message)]
    BY <1>4, <2>1, LeaveSendsType DEF Leave
  <2>3. QED
    BY <1>4, <2>2, DoLeaveType DEF TypeOK, Leave
<1>5. ASSUME NEW p \in Peers, JoinCall(p) PROVE TypeOK'
  <2>1. /\ Post(out, {p}, ErrorMsg("NOT_IN_ROOM")) \in [Peers -> Seq(Message)]
        /\ Post(out, {p}, ErrorMsg("CALL_FULL")) \in [Peers -> Seq(Message)]
    BY PostType, MessageTypes DEF TypeOK, ErrorCodes
  <2>2. Routable(wsRoom[p], p) => wsRoom[p] \in RoomIds
    BY DEF Routable, TypeOK
  <2> DEFINE s == wsRoom[p]
  <2>3. CASE Routable(s, p) /\ callPeers' = [callPeers EXCEPT ![s] = @ \cup {p}]
                            /\ out' = JoinCallSends(p, s)
    <3>1. out' \in [Peers -> Seq(Message)]
      BY <2>2, <2>3, SendsType
    <3>2. callPeers' \in [RoomIds -> SUBSET Peers]
      BY <2>2, <2>3 DEF TypeOK
    <3>3. QED
      BY <1>5, <3>1, <3>2 DEF JoinCall, TypeOK
  <2>4. CASE /\ callPeers' = callPeers
             /\ out' \in {Post(out, {p}, ErrorMsg("NOT_IN_ROOM")), Post(out, {p}, ErrorMsg("CALL_FULL"))}
    BY <1>5, <2>1, <2>4 DEF JoinCall, TypeOK
  <2>5. QED
    BY <1>5, <2>3, <2>4 DEF JoinCall
<1>6. ASSUME NEW p \in Peers, LeaveCall(p) PROVE TypeOK'
  <2>1. wsRoom[p] \in RoomIds
    BY <1>6 DEF LeaveCall, TypeOK
  <2>2. QED
    BY <1>6, <2>1, SendsType DEF LeaveCall, TypeOK
<1>7. ASSUME NEW p \in Peers, NEW q \in Peers, Relay(p, q) PROVE TypeOK'
  <2>1. /\ Post(out, {q}, RelayMsg(p)) \in [Peers -> Seq(Message)]
        /\ Post(out, {p}, ErrorMsg("NOT_IN_ROOM")) \in [Peers -> Seq(Message)]
    BY PostType, MessageTypes DEF TypeOK, ErrorCodes
  <2>2. out' \in [Peers -> Seq(Message)]
    BY <1>7, <2>1 DEF Relay
  <2>3. QED
    BY <1>7, <2>2 DEF Relay, TypeOK
<1>8. ASSUME NEW p \in Peers, HeartbeatTimeout(p) PROVE TypeOK'
  BY <1>8 DEF HeartbeatTimeout, TypeOK
<1>9. ASSUME NEW p \in Peers, Close(p) PROVE TypeOK'
  <2>1. LeaveSends(p, wsRoom[p]) \in [Peers -> Seq(Message)]
    BY LeaveSendsType DEF TypeOK
  <2>2. out' \in [Peers -> Seq(Message)]
    BY <1>9, <2>1 DEF Close
  <2>3. QED
    BY <1>9, <2>2, DoLeaveType DEF Close, TypeOK
<1>10. ASSUME NEW p \in Peers, FallSilent(p) PROVE TypeOK'
  BY <1>10 DEF FallSilent, TypeOK
<1>11. ASSUME NEW p \in Peers, Deliver(p) PROVE TypeOK'
  <2>1. Tail(out[p]) \in Seq(Message)
    BY <1>11 DEF Deliver, TypeOK
  <2>2. QED
    BY <1>11, <2>1 DEF Deliver, TypeOK
<1>12. QED
  BY <1>1, <1>2, <1>3, <1>4, <1>5, <1>6, <1>7, <1>8, <1>9, <1>10, <1>11
     DEF Next, ServerStep

(* Every variable of the server keeps its type, whatever the clients do. *)
THEOREM TypeCorrect == Spec => []TypeOK
<1>1. Init => TypeOK
  BY DEF Init, TypeOK
<1>2. TypeOK /\ [Next]_vars => TypeOK'
  BY TypeStep
<1>3. QED
  BY <1>1, <1>2, PTL DEF Spec

-----------------------------------------------------------------------------
(* Membership.                                                             *)

(* handleLeave takes a peer out of every record of membership at once. *)
LEMMA DoLeaveMembership ==
    ASSUME TypeOK, MembershipConsistent, NEW p \in Peers, DoLeave(p),
           \A q \in Peers \ {p} : conn'[q] = conn[q],
           asked' = asked
    PROVE  MembershipConsistent'
<1> DEFINE s == wsRoom[p]
<1>1. CASE s = NoRoom
  <2>1. s \notin rooms
    BY <1>1, NoRoomAssumption DEF TypeOK
  <2>2. UNCHANGED <<rooms, roomPeers, callPeers, peerRooms>> /\ wsRoom' = wsRoom
    BY <1>1, <2>1 DEF DoLeave, roomVars, TypeOK
  <2>3. heartbeats' = heartbeats /\ p \notin heartbeats
    BY <1>1 DEF DoLeave, MembershipConsistent
  <2>4. QED
    BY <1>1, <2>2, <2>3 DEF MembershipConsistent
<1>2. CASE s # NoRoom
  <2>1. s \in RoomIds /\ p \in roomPeers[s] /\ s \in rooms
    BY <1>2 DEF TypeOK, MembershipConsistent
  <2>2. /\ callPeers' = [callPeers EXCEPT ![s] = @ \ {p}]
        /\ roomPeers' = [roomPeers EXCEPT ![s] = @ \ {p}]
        /\ peerRooms' = [peerRooms EXCEPT ![p] = NoRoom]
        /\ rooms' = IF roomPeers[s] \ {p} = {} THEN rooms \ {s} ELSE rooms
        /\ wsRoom' = [wsRoom EXCEPT ![p] = NoRoom]
        /\ heartbeats' = heartbeats \ {p}
    BY <2>1 DEF DoLeave
  <2>3. \A q \in Peers, r \in RoomIds : q \in roomPeers'[r] <=> wsRoom'[q] = r
    BY <2>1, <2>2, NoRoomAssumption DEF TypeOK, MembershipConsistent
  <2>4. peerRooms' = wsRoom'
    BY <2>2 DEF MembershipConsistent
  <2>5. \A r \in RoomIds : r \in rooms' <=> roomPeers'[r] # {}
    BY <2>1, <2>2 DEF TypeOK, MembershipConsistent
  <2>6. \A r \in RoomIds : callPeers'[r] \subseteq roomPeers'[r]
    BY <2>1, <2>2 DEF TypeOK, MembershipConsistent
  <2>7. \A q \in Peers : q \in heartbeats' <=> wsRoom'[q] # NoRoom /\ conn'[q] = "open"
    BY <2>2 DEF TypeOK, MembershipConsistent
  <2>8. /\ \A q \in Peers : conn'[q] \in {"new", "closed"} => wsRoom'[q] = NoRoom
        /\ \A q \in Peers : wsRoom'[q] # NoRoom => q \in asked'
    BY <2>2 DEF TypeOK, MembershipConsistent
  <2>9. QED
    BY <2>3, <2>4, <2>5, <2>6, <2>7, <2>8 DEF MembershipConsistent
<1>3. QED
  BY <1>1, <1>2

(* One step keeps the records of membership in agreement. *)
LEMMA MembershipStep ==
    ASSUME TypeOK, MembershipConsistent, [Next]_vars
    PROVE  MembershipConsistent'
<1>1. CASE UNCHANGED vars
  BY <1>1 DEF MembershipConsistent, vars
<1>2. ASSUME NEW p \in Peers, Open(p) PROVE MembershipConsistent'
  <2>1. wsRoom[p] = NoRoom
    BY <1>2 DEF Open, MembershipConsistent
  <2>2. QED
    BY <1>2, <2>1 DEF Open, MembershipConsistent, TypeOK
<1>3. ASSUME NEW p \in Peers, NEW s \in RoomIds, Join(p, s) PROVE MembershipConsistent'
  <2>1. wsRoom[p] = NoRoom /\ conn[p] = "open" /\ asked' = asked \cup {p} /\ conn' = conn
    BY <1>3 DEF Join, Request, Live, MembershipConsistent
  <2>2. rooms' = rooms \cup {s} /\ callPeers' = callPeers
    BY <1>3 DEF Join
  <2>3. CASE RoomFull(s) /\ UNCHANGED <<wsRoom, roomPeers, peerRooms, heartbeats>>
    <3>1. roomPeers[s] # {}
      BY <2>3, LimitsAssumption, FS_EmptySet DEF RoomFull
    <3>2. s \in rooms
      BY <3>1 DEF MembershipConsistent
    <3>3. rooms' = rooms
      BY <2>2, <3>2
    <3>4. QED
      BY <2>1, <2>2, <2>3, <3>3 DEF MembershipConsistent
  <2>4. CASE /\ roomPeers' = [roomPeers EXCEPT ![s] = @ \cup {p}]
             /\ peerRooms' = [peerRooms EXCEPT ![p] = s]
             /\ wsRoom' = [wsRoom EXCEPT ![p] = s]
             /\ heartbeats' = heartbeats \cup {p}
    <3>1. \A q \in Peers, r \in RoomIds : q \in roomPeers'[r] <=> wsRoom'[q] = r
      BY <2>1, <2>4, NoRoomAssumption DEF TypeOK, MembershipConsistent
    <3>2. peerRooms' = wsRoom'
      BY <2>4 DEF MembershipConsistent
    <3>3. \A r \in RoomIds : r \in rooms' <=> roomPeers'[r] # {}
      BY <2>2, <2>4 DEF TypeOK, MembershipConsistent
    <3>4. \A r \in RoomIds : callPeers'[r] \subseteq roomPeers'[r]
      BY <2>2, <2>4 DEF TypeOK, MembershipConsistent
    <3>5. \A q \in Peers : q \in heartbeats' <=> wsRoom'[q] # NoRoom /\ conn'[q] = "open"
      BY <2>1, <2>4, NoRoomAssumption DEF TypeOK, MembershipConsistent
    <3>6. /\ \A q \in Peers : conn'[q] \in {"new", "closed"} => wsRoom'[q] = NoRoom
          /\ \A q \in Peers : wsRoom'[q] # NoRoom => q \in asked'
      BY <2>1, <2>4 DEF TypeOK, MembershipConsistent
    <3>7. QED
      BY <3>1, <3>2, <3>3, <3>4, <3>5, <3>6 DEF MembershipConsistent
  <2>5. QED
    BY <1>3, <2>3, <2>4 DEF Join
<1>4. ASSUME NEW p \in Peers, Leave(p) PROVE MembershipConsistent'
  BY <1>4, DoLeaveMembership DEF Leave
<1>5. ASSUME NEW p \in Peers, JoinCall(p) PROVE MembershipConsistent'
  <2>1. CASE UNCHANGED callPeers
    BY <1>5, <2>1 DEF JoinCall, MembershipConsistent
  <2>2. CASE Routable(wsRoom[p], p) /\ callPeers' = [callPeers EXCEPT ![wsRoom[p]] = @ \cup {p}]
    BY <1>5, <2>2 DEF JoinCall, MembershipConsistent, Routable, TypeOK
  <2>3. QED
    BY <1>5, <2>1, <2>2 DEF JoinCall
<1>6. ASSUME NEW p \in Peers, LeaveCall(p) PROVE MembershipConsistent'
  BY <1>6 DEF LeaveCall, MembershipConsistent, TypeOK
<1>7. ASSUME NEW p \in Peers, NEW q \in Peers, Relay(p, q) PROVE MembershipConsistent'
  BY <1>7 DEF Relay, MembershipConsistent
<1>8. ASSUME NEW p \in Peers, HeartbeatTimeout(p) PROVE MembershipConsistent'
  BY <1>8 DEF HeartbeatTimeout, MembershipConsistent, TypeOK
<1>9. ASSUME NEW p \in Peers, Close(p) PROVE MembershipConsistent'
  <2>1. conn' = [conn EXCEPT ![p] = "closed"] /\ asked' = asked /\ DoLeave(p)
    BY <1>9 DEF Close
  <2>2. \A q \in Peers \ {p} : conn'[q] = conn[q]
    BY <2>1 DEF TypeOK
  <2>3. QED
    BY <2>1, <2>2, DoLeaveMembership
<1>10. ASSUME NEW p \in Peers, FallSilent(p) PROVE MembershipConsistent'
  BY <1>10 DEF FallSilent, MembershipConsistent
<1>11. ASSUME NEW p \in Peers, Deliver(p) PROVE MembershipConsistent'
  BY <1>11 DEF Deliver, MembershipConsistent
<1>12. QED
  BY <1>1, <1>2, <1>3, <1>4, <1>5, <1>6, <1>7, <1>8, <1>9, <1>10, <1>11
     DEF Next, ServerStep

(* The records of membership agree in every reachable state. *)
THEOREM MembershipAlwaysConsistent == Spec => []MembershipConsistent
<1>1. Init => MembershipConsistent
  BY NoRoomAssumption DEF Init, MembershipConsistent
<1>2. TypeOK /\ MembershipConsistent /\ [Next]_vars => MembershipConsistent'
  BY MembershipStep
<1>3. QED
  BY <1>1, <1>2, TypeCorrect, PTL DEF Spec

-----------------------------------------------------------------------------
(* Capacity.                                                               *)

(* A set below a limit is within it with one more element. *)
LEMMA RoomForOne ==
    ASSUME NEW S \in SUBSET Peers, NEW p \in Peers, NEW limit \in Nat,
           Cardinality(S) <= limit, ~(Cardinality(S) >= limit)
    PROVE  Cardinality(S \cup {p}) <= limit
<1>1. IsFiniteSet(S) /\ Cardinality(S) \in Nat
  BY PeersFinite, FS_Subset, FS_CardinalityType
<1>2. Cardinality(S \cup {p}) \in {Cardinality(S), Cardinality(S) + 1}
  BY <1>1, FS_AddElement
<1>3. QED
  BY <1>1, <1>2

(* Taking an element out keeps a set within its limit. *)
LEMMA RoomForFewer ==
    ASSUME NEW S \in SUBSET Peers, NEW p \in Peers, NEW limit \in Nat,
           Cardinality(S) <= limit
    PROVE  Cardinality(S \ {p}) <= limit
<1>1. IsFiniteSet(S) /\ Cardinality(S) \in Nat
  BY PeersFinite, FS_Subset, FS_CardinalityType
<1>2. Cardinality(S \ {p}) \in Nat /\ Cardinality(S \ {p}) <= Cardinality(S)
  BY <1>1, FS_Subset, FS_CardinalityType
<1>3. QED
  BY <1>1, <1>2

(* handleLeave only takes peers out of rooms and calls. *)
LEMMA DoLeaveCapacity ==
    ASSUME TypeOK, CapacityRespected, NEW p \in Peers, DoLeave(p)
    PROVE  CapacityRespected'
<1>1. CASE wsRoom[p] \in rooms
  <2>1. wsRoom[p] \in RoomIds
    BY <1>1 DEF TypeOK
  <2>2. \A r \in RoomIds : /\ roomPeers'[r] \in {roomPeers[r], roomPeers[r] \ {p}}
                           /\ callPeers'[r] \in {callPeers[r], callPeers[r] \ {p}}
    BY <1>1, <2>1 DEF DoLeave, TypeOK
  <2>3. \A r \in RoomIds : /\ Cardinality(roomPeers[r] \ {p}) <= MaxParticipants
                           /\ Cardinality(callPeers[r] \ {p}) <= MaxCallParticipants
    BY RoomForFewer, LimitsAssumption DEF TypeOK, CapacityRespected
  <2>4. QED
    BY <2>2, <2>3 DEF CapacityRespected
<1>2. CASE wsRoom[p] \notin rooms
  BY <1>2 DEF DoLeave, roomVars, CapacityRespected
<1>3. QED
  BY <1>1, <1>2

(* No room and no call is ever over its limit. *)
THEOREM CapacityAlwaysRespected == Spec => []CapacityRespected
<1>1. Init => CapacityRespected
  BY FS_EmptySet, LimitsAssumption DEF Init, CapacityRespected
<1>2. ASSUME TypeOK, CapacityRespected, [Next]_vars PROVE CapacityRespected'
  <2>1. CASE UNCHANGED <<roomPeers, callPeers>>
    BY <1>2, <2>1 DEF CapacityRespected
  <2>2. ASSUME NEW p \in Peers, NEW s \in RoomIds, Join(p, s) PROVE CapacityRespected'
    <3>1. CASE ~RoomFull(s) /\ roomPeers' = [roomPeers EXCEPT ![s] = @ \cup {p}]
      <4>1. Cardinality(roomPeers[s] \cup {p}) <= MaxParticipants
        BY <1>2, <3>1, RoomForOne, LimitsAssumption DEF RoomFull, TypeOK, CapacityRespected
      <4>2. callPeers' = callPeers
        BY <2>2 DEF Join
      <4>3. QED
        BY <1>2, <3>1, <4>1, <4>2 DEF CapacityRespected, TypeOK
    <3>2. QED
      BY <2>1, <2>2, <3>1 DEF Join
  <2>3. ASSUME NEW p \in Peers, JoinCall(p) PROVE CapacityRespected'
    <3> DEFINE s == wsRoom[p]
    <3>1. CASE Routable(s, p) /\ ~CallFull(s) /\ callPeers' = [callPeers EXCEPT ![s] = @ \cup {p}]
      <4>1. s \in RoomIds
        BY <1>2, <3>1 DEF Routable, TypeOK
      <4>2. Cardinality(callPeers[s] \cup {p}) <= MaxCallParticipants
        BY <1>2, <3>1, <4>1, RoomForOne, LimitsAssumption DEF CallFull, TypeOK, CapacityRespected
      <4>3. roomPeers' = roomPeers
        BY <2>3 DEF JoinCall
      <4>4. QED
        BY <1>2, <3>1, <4>1, <4>2, <4>3 DEF CapacityRespected, TypeOK
    <3>2. QED
      BY <2>1, <2>3, <3>1 DEF JoinCall
  <2>4. ASSUME NEW p \in Peers, LeaveCall(p) PROVE CapacityRespected'
    <3> DEFINE s == wsRoom[p]
    <3>1. s \in RoomIds /\ callPeers' = [callPeers EXCEPT ![s] = @ \ {p}] /\ roomPeers' = roomPeers
      BY <1>2, <2>4 DEF LeaveCall, TypeOK
    <3>2. Cardinality(callPeers[s] \ {p}) <= MaxCallParticipants
      BY <1>2, <3>1, RoomForFewer, LimitsAssumption DEF TypeOK, CapacityRespected
    <3>3. QED
      BY <1>2, <3>1, <3>2 DEF CapacityRespected, TypeOK
  <2>5. ASSUME NEW p \in Peers, DoLeave(p) PROVE CapacityRespected'
    BY <1>2, <2>5, DoLeaveCapacity
  <2>6. ASSUME NEW p \in Peers,
               \/ Open(p)
               \/ \E q \in Peers : Relay(p, q)
               \/ HeartbeatTimeout(p)
               \/ FallSilent(p)
               \/ Deliver(p)
        PROVE  UNCHANGED <<roomPeers, callPeers>>
    BY <2>6 DEF Open, Relay, HeartbeatTimeout, FallSilent, Deliver
  <2>7. QED
    BY <1>2, <2>1, <2>2, <2>3, <2>4, <2>5, <2>6
       DEF Next, ServerStep, Leave, Close, vars
<1>3. QED
  BY <1>1, <1>2, TypeCorrect, PTL DEF Spec

-----------------------------------------------------------------------------
(* Rooms implements Membership.  The mapping reads membership off          *)
(* ws.data.roomId and the call lists, while the handlers test the rooms'   *)
(* lists: that these say the same is MembershipConsistent.                 *)

\* The mapped state.
mapped == <<wsRoom, InSomeCall, asked>>

(* Membership's instance of FiniteSets counts as this one does. *)
LEMMA SameCardinality ==
    ASSUME NEW S
    PROVE  Members!Cardinality(S) = Cardinality(S)
  BY DEF Members!Cardinality, Cardinality

(* The members counted by the abstract limits are those of the room's list. *)
LEMMA InIsRoomPeers ==
    ASSUME TypeOK, MembershipConsistent, NEW r \in RoomIds
    PROVE  Members!In(r) = roomPeers[r]
  BY DEF Members!In, TypeOK, MembershipConsistent

(* Of the call's members those in room r are the ones on r's call list. *)
LEMMA CallOfRoom ==
    ASSUME TypeOK, MembershipConsistent, NEW r \in RoomIds
    PROVE  Members!In(r) \cap InSomeCall = callPeers[r]
<1>1. Members!In(r) = roomPeers[r]
  BY InIsRoomPeers
<1>2. \A s \in RoomIds : callPeers[s] \subseteq roomPeers[s]
  BY DEF MembershipConsistent
<1>3. \A p \in Peers, s \in RoomIds : p \in roomPeers[s] /\ p \in roomPeers[r] => s = r
  BY DEF MembershipConsistent
<1>4. callPeers[r] \subseteq Peers /\ \A s \in RoomIds : callPeers[s] \subseteq Peers
  BY DEF TypeOK
<1>5. QED
  BY <1>1, <1>2, <1>3, <1>4 DEF InSomeCall

(* A peer taken off its room's call list is in no call at all. *)
LEMMA OffTheList ==
    ASSUME TypeOK, MembershipConsistent, NEW p \in Peers,
           wsRoom[p] \in RoomIds,
           callPeers' = [callPeers EXCEPT ![wsRoom[p]] = @ \ {p}]
    PROVE  InSomeCall' = InSomeCall \ {p}
<1>1. \A s \in RoomIds : p \in callPeers[s] => s = wsRoom[p]
  BY DEF MembershipConsistent
<1>2. \A s \in RoomIds : callPeers'[s] = callPeers[s] \ {p}
  BY <1>1 DEF TypeOK
<1>3. QED
  BY <1>2 DEF InSomeCall

(* handleLeave is a departure, or nothing for a peer in no room. *)
LEMMA DoLeaveDeparts ==
    ASSUME TypeOK, MembershipConsistent, NEW p \in Peers, DoLeave(p), asked' = asked
    PROVE  Members!Depart(p) \/ UNCHANGED mapped
<1>1. CASE wsRoom[p] \in rooms
  <2>1. wsRoom[p] \in RoomIds
    BY <1>1 DEF TypeOK
  <2>2. /\ wsRoom' = [wsRoom EXCEPT ![p] = NoRoom]
        /\ callPeers' = [callPeers EXCEPT ![wsRoom[p]] = @ \ {p}]
    BY <1>1 DEF DoLeave
  <2>3. InSomeCall' = InSomeCall \ {p}
    BY <2>1, <2>2, OffTheList
  <2>4. QED
    BY <2>2, <2>3 DEF Members!Depart
<1>2. CASE wsRoom[p] \notin rooms
  <2>1. wsRoom[p] = NoRoom
    BY <1>2 DEF TypeOK, MembershipConsistent
  <2>2. wsRoom' = wsRoom /\ callPeers' = callPeers
    BY <1>2, <2>1 DEF DoLeave, roomVars, TypeOK
  <2>3. QED
    BY <2>2 DEF mapped, InSomeCall
<1>3. QED
  BY <1>1, <1>2

(* One step of a handler, a timer or the network is a step of Membership or changes nothing of it. *)
LEMMA MembershipSimulation ==
    ASSUME TypeOK, MembershipConsistent, [Next]_vars
    PROVE  [Members!Next]_mapped
<1> USE DEF mapped
<1>1. CASE wsRoom' = wsRoom /\ callPeers' = callPeers /\ asked' = asked
  BY <1>1 DEF InSomeCall
<1>2. ASSUME NEW p \in Peers, NEW r \in RoomIds, Join(p, r) PROVE Members!Next
  <2>1. p \notin asked /\ asked' = asked \cup {p} /\ InSomeCall' = InSomeCall
    BY <1>2 DEF Join, InSomeCall
  <2>2. Members!In(r) = roomPeers[r]
    BY InIsRoomPeers
  <2>3. IsFiniteSet(roomPeers[r]) /\ Cardinality(roomPeers[r]) \in Nat
    BY PeersFinite, FS_Subset, FS_CardinalityType DEF TypeOK
  <2>4. CASE RoomFull(r) /\ wsRoom' = wsRoom
    <3>1. Members!TurnedAway(p, r)
      BY <2>1, <2>2, <2>4, SameCardinality DEF Members!TurnedAway, RoomFull
    <3>2. QED
      BY <3>1 DEF Members!Next
  <2>5. CASE ~RoomFull(r) /\ wsRoom' = [wsRoom EXCEPT ![p] = r]
    <3>1. Members!Enter(p, r)
      BY <2>1, <2>2, <2>3, <2>5, SameCardinality, LimitsAssumption DEF Members!Enter, RoomFull
    <3>2. QED
      BY <3>1 DEF Members!Next
  <2>6. QED
    BY <1>2, <2>4, <2>5 DEF Join
<1>3. ASSUME NEW p \in Peers, JoinCall(p) PROVE [Members!Next]_mapped
  <2> DEFINE s == wsRoom[p]
  <2>1. CASE Routable(s, p) /\ ~CallFull(s) /\ callPeers' = [callPeers EXCEPT ![s] = @ \cup {p}]
    <3>1. s \in RoomIds /\ s # NoRoom
      BY <2>1, NoRoomAssumption DEF Routable, TypeOK
    <3>2. Members!In(s) \cap InSomeCall = callPeers[s]
      BY <3>1, CallOfRoom
    <3>3. IsFiniteSet(callPeers[s]) /\ Cardinality(callPeers[s]) \in Nat
      BY <3>1, PeersFinite, FS_Subset, FS_CardinalityType DEF TypeOK
    <3>4. InSomeCall' = InSomeCall \cup {p}
      BY <2>1, <3>1 DEF InSomeCall, TypeOK
    <3>5. Members!EnterCall(p)
      BY <1>3, <2>1, <3>1, <3>2, <3>3, <3>4, SameCardinality, LimitsAssumption
         DEF Members!EnterCall, JoinCall, CallFull
    <3>6. QED
      BY <3>5 DEF Members!Next
  <2>2. QED
    BY <1>1, <1>3, <2>1 DEF JoinCall
<1>4. ASSUME NEW p \in Peers, LeaveCall(p) PROVE Members!Next
  <2>1. wsRoom[p] \in RoomIds
    BY <1>4 DEF LeaveCall, TypeOK
  <2>2. InSomeCall' = InSomeCall \ {p} /\ wsRoom' = wsRoom /\ asked' = asked
    BY <1>4, <2>1, OffTheList DEF LeaveCall
  <2>3. Members!LeaveCall(p)
    BY <2>2 DEF Members!LeaveCall
  <2>4. QED
    BY <2>3 DEF Members!Next
<1>5. ASSUME NEW p \in Peers, DoLeave(p), asked' = asked PROVE [Members!Next]_mapped
  BY <1>5, DoLeaveDeparts DEF Members!Next
<1>6. ASSUME NEW p \in Peers,
             \/ Open(p)
             \/ \E q \in Peers : Relay(p, q)
             \/ HeartbeatTimeout(p)
             \/ FallSilent(p)
             \/ Deliver(p)
      PROVE  wsRoom' = wsRoom /\ callPeers' = callPeers /\ asked' = asked
  BY <1>6 DEF Open, Relay, HeartbeatTimeout, FallSilent, Deliver
<1>7. QED
  BY <1>1, <1>2, <1>3, <1>4, <1>5, <1>6 DEF Next, ServerStep, Leave, Close, vars

(***************************************************************************)
(* The room server, its five records and all its handlers, implements      *)
(* Membership.                                                             *)
(***************************************************************************)
THEOREM RoomsImplementMembership == Spec => ImplementsMembership
<1>1. Init => Members!Init
  BY DEF Init, Members!Init, InSomeCall
<1>2. TypeOK /\ MembershipConsistent /\ [Next]_vars => [Members!Next]_(Members!members)
  BY MembershipSimulation DEF mapped, Members!members
<1>3. QED
  BY <1>1, <1>2, TypeCorrect, MembershipAlwaysConsistent, PTL DEF Spec, ImplementsMembership, Members!Spec
=============================================================================
