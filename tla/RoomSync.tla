------------------------------ MODULE RoomSync ------------------------------
(***************************************************************************)
(* The server of Rooms composed with its clients: what a client makes of   *)
(* the messages it reads (the peers, callPeers and callActive of its room  *)
(* state: roomConnectionReducer and roomCallReducer in reducer.ts), and    *)
(* what its user does with the call, which changes callPeers, callActive   *)
(* and the screen at once and reaches the server as a join-call or a       *)
(* leave-call (cleanup.ts, effects/websocket.ts).  The two meet only       *)
(* through FIFO channels, one each way, so each is always behind the       *)
(* other; the question is whether a client is ever wrong for good.         *)
(*                                                                         *)
(* A peer is one socket.  A client that loses its socket goes on with a    *)
(* new one and takes its room state along (Resume).  What its user does    *)
(* between the two is what he may do just before the first is lost: the    *)
(* request is lost with it.                                                *)
(***************************************************************************)
EXTENDS Rooms

CONSTANTS
    Callers,     \* bound: sockets whose clients use the call
    Talkers,     \* bound: sockets whose clients relay, or send leave
    MaxClients,  \* bound: clients at a time
    MaxLost,     \* bound: sockets that are lost
    MaxSent      \* bound: a client does not join a call with that many requests on the way
ASSUME MaxSentAssumption == MaxSent \in Nat

VARIABLES
    peers,   \* per socket, the keys of its client's state.peers
    listed,  \* state.callPeers
    active,  \* the sockets whose client has state.callActive
    screen,  \* state.screen, "call" for waiting-for-peer too; "none": not the socket of a client
    sent,    \* join-call and leave-call on their way to the server
    late,    \* sockets that replaced one whose close event is still to come
    reset    \* history: what the client itself set last, the call of its room being the same since

syncVars == <<conn, silent, asked, wsRoom, rooms, roomPeers, callPeers, peerRooms, heartbeats,
              out, peers, listed, active, screen, sent, late, reset>>

SyncInit ==
    /\ Init
    /\ peers = [p \in Peers |-> {}]
    /\ listed = [p \in Peers |-> {}]
    /\ active = {}
    /\ screen = [p \in Peers |-> "none"]
    /\ sent = [p \in Peers |-> <<>>]
    /\ late = {}
    /\ reset = [p \in Peers |-> {}]

InRoom(p) == Live(p) /\ wsRoom[p] # NoRoom

-----------------------------------------------------------------------------
(* The client reads a message.                                             *)

\* PEERS_LIST, PEER_JOINED_ROOM, PEER_LEFT_ROOM
PeersAfter(S, m) ==
    CASE m.type = "peers-list"  -> m.peers
      [] m.type = "peer-joined" -> S \cup {m.peer}
      [] m.type = "peer-left"   -> S \ {m.peer}
      [] OTHER                  -> S

\* CALL_PEERS_RECEIVED
ListedAfter(S, m) == IF m.type = "call-peers" THEN m.peers ELSE S

ActiveAfter(a, m) == IF m.type = "call-peers" THEN m.peers # {} ELSE a

\* active with the value of one socket set
WithActive(p, a) == IF a THEN active \cup {p} ELSE active \ {p}

\* cleanupCallResources: refs.inCall, true from MEDIA_ACQUIRED on, is the screen being "call".
CleanUp(p) ==
    sent' = IF screen[p] = "call" THEN [sent EXCEPT ![p] = Append(@, "leave-call")] ELSE sent

\* The error screen is entered from any screen, by a server error or by a failure of its own.
ShowError(p) ==
    /\ screen' = [screen EXCEPT ![p] = "error"]
    /\ CleanUp(p)

Receive(p) ==
    LET m == Head(out[p]) IN
    /\ Deliver(p)
    /\ peers' = [peers EXCEPT ![p] = PeersAfter(@, m)]
    /\ listed' = [listed EXCEPT ![p] = ListedAfter(@, m)]
    /\ active' = WithActive(p, ActiveAfter(p \in active, m))
    /\ reset' = [reset EXCEPT ![p] = IF m.type = "call-peers" THEN {} ELSE @]
    /\ IF m.type = "error" THEN ShowError(p) ELSE UNCHANGED <<screen, sent>>
    /\ UNCHANGED late

-----------------------------------------------------------------------------
(* The user and his call.  None of this is in the server's hands.          *)

\* The history of what the client itself blanks: only what was not blank counts.
Blanks(p) == (IF listed[p] # {} THEN {"callPeers"} ELSE {})
Hides(p) == (IF p \in active THEN {"callActive"} ELSE {})

ClientOnly == UNCHANGED <<conn, silent, asked, wsRoom, rooms, roomPeers, callPeers, peerRooms,
                          heartbeats, out, peers>>

\* SWITCH_TO_CALL on a connected socket
SwitchToCall(p) ==
    /\ Live(p)
    /\ p \in Callers
    /\ screen[p] \in {"idle", "error"}
    /\ screen' = [screen EXCEPT ![p] = "acquiring"]
    /\ ClientOnly /\ UNCHANGED <<listed, active, sent, late, reset>>

\* MEDIA_ACQUIRED
MediaAcquired(p) ==
    /\ Live(p)
    /\ screen[p] = "acquiring"
    /\ Len(sent[p]) < MaxSent
    /\ screen' = [screen EXCEPT ![p] = "call"]
    /\ sent' = [sent EXCEPT ![p] = Append(@, "join-call")]
    /\ ClientOnly /\ UNCHANGED <<listed, active, late, reset>>

\* MEDIA_ERROR while acquiring, RTC_FAILED of the last connection on either screen
CallFails(p) ==
    /\ Live(p)
    /\ screen[p] \in {"acquiring", "call"}
    /\ ShowError(p)
    /\ ClientOnly /\ UNCHANGED <<listed, active, late, reset>>

\* HANGUP
Hangup(p) ==
    /\ Live(p)
    /\ screen[p] = "call"
    /\ screen' = [screen EXCEPT ![p] = "idle"]
    /\ active' = active \ {p}
    /\ listed' = [listed EXCEPT ![p] = {}]
    /\ CleanUp(p)
    /\ reset' = [reset EXCEPT ![p] = @ \cup Blanks(p) \cup Hides(p)]
    /\ ClientOnly /\ UNCHANGED late

\* DISMISS_ERROR, by the user or after five seconds
DismissError(p) ==
    /\ Live(p)
    /\ screen[p] = "error"
    /\ screen' = [screen EXCEPT ![p] = "idle"]
    /\ listed' = [listed EXCEPT ![p] = {}]
    /\ reset' = [reset EXCEPT ![p] = @ \cup Blanks(p)]
    /\ ClientOnly /\ UNCHANGED <<active, sent, late>>

\* WS_CLOSED, intentional, of the socket that connectWebSocket replaced by this one
LateClose(p) ==
    /\ Live(p)
    /\ p \in late
    /\ late' = late \ {p}
    /\ screen' = [screen EXCEPT ![p] = "idle"]
    /\ active' = active \ {p}
    /\ CleanUp(p)
    /\ reset' = [reset EXCEPT ![p] = @ \cup Hides(p)]
    /\ ClientOnly /\ UNCHANGED listed

ClientStep(p) ==
    SwitchToCall(p) \/ MediaAcquired(p) \/ CallFails(p) \/ Hangup(p) \/ DismissError(p) \/ LateClose(p)

-----------------------------------------------------------------------------
(* The server handles a request, or does what it does anyway.              *)

\* The call that goes on in the room of a socket.
CallOf(p) == IF wsRoom[p] = NoRoom THEN {} ELSE callPeers[wsRoom[p]]

\* What a client set itself is out of date once its room's call has changed.
CallNews == reset' = [p \in Peers |-> IF CallOf(p)' # CallOf(p) THEN {} ELSE reset[p]]

\* ws.ts hands the next request of the socket to handleJoinCall or handleLeaveCall.
Handle(p) ==
    /\ sent[p] # <<>>
    /\ sent' = [sent EXCEPT ![p] = Tail(@)]
    /\ \/ Head(sent[p]) = "join-call" /\ JoinCall(p)
       \/ Head(sent[p]) = "leave-call" /\ LeaveCall(p)
       \/ /\ Head(sent[p]) = "leave-call" /\ p \notin CallOf(p)
          /\ Request(p)
          /\ UNCHANGED vars
    /\ CallNews
    /\ UNCHANGED <<peers, listed, active, screen, late>>

\* Any other step; what a client has sent on a socket is lost with it.
ServerOnly(p) ==
    /\ \/ \E r \in RoomIds : Join(p, r)
       \/ p \in Talkers /\ Leave(p)
       \/ p \in Talkers /\ \E q \in Peers \ {p} : Relay(p, q)
       \/ HeartbeatTimeout(p)
       \/ Close(p)
       \/ FallSilent(p)
    /\ sent' = [q \in Peers |-> IF Live(q)' THEN sent[q] ELSE <<>>]
    /\ CallNews
    /\ Cardinality({q \in Peers : conn'[q] # "new" /\ ~Live(q)'}) <= MaxLost
    /\ UNCHANGED <<peers, listed, active, screen, late>>

-----------------------------------------------------------------------------
(* A client and its sockets.                                               *)

\* A client enters the room phase: its first socket, and a blank room state.
Enter(p) ==
    /\ Open(p)
    /\ Cardinality({q \in Peers : screen[q] # "none"}) < MaxClients
    /\ screen' = [screen EXCEPT ![p] = "idle"]
    /\ UNCHANGED <<peers, listed, active, sent, late, reset>>

\* What WS_CLOSED, WS_ERROR, CHANGE_NICKNAME or WS_ROOM_DISCONNECTED leave of a client's state:
\* nothing is changed, callActive is cleared, or all is and a call becomes an error.
Losses == {"kept", "closed", "cleared"}

\* The client of q, whose socket is lost, goes on with p.
Resume(p, q, how) ==
    LET callKept == IF how = "cleared" THEN {} ELSE listed[q]
        shown == how = "kept" /\ q \in active
    IN
    /\ Open(p)
    /\ screen[q] # "none" /\ ~Live(q)
    /\ peers' = [peers EXCEPT ![p] = peers[q]]
    /\ listed' = [listed EXCEPT ![p] = callKept, ![q] = {}]
    /\ active' = (active \ {q}) \cup (IF shown THEN {p} ELSE {})
    /\ screen' = [screen EXCEPT ![q] = "none",
                                ![p] = IF how = "cleared" /\ screen[q] = "call" THEN "error" ELSE screen[q]]
    /\ late' = (late \ {q}) \cup (IF how = "cleared" THEN {p} ELSE {})
    /\ reset' = [reset EXCEPT ![p] = (IF callKept # {} THEN {"callPeers"} ELSE {})
                                         \cup (IF shown THEN {"callActive"} ELSE {}),
                              ![q] = {}]
    /\ UNCHANGED sent

SyncNext ==
    \E p \in Peers :
        \/ Receive(p)
        \/ ClientStep(p)
        \/ Handle(p)
        \/ ServerOnly(p)
        \/ Enter(p)
        \/ \E q \in Peers \ {p}, how \in Losses : Resume(p, q, how)

SyncSpec == SyncInit /\ [][SyncNext]_syncVars

-----------------------------------------------------------------------------
(* What p will believe after reading the next n messages of its channel.   *)

TellsPeer(m, q) == m.type = "peers-list" \/ (m.type \in {"peer-joined", "peer-left"} /\ m.peer = q)
ShowsPeer(m, q) ==
    (m.type = "peers-list" /\ q \in m.peers) \/ (m.type = "peer-joined" /\ m.peer = q)

KnownAfter(p, q, n) ==
    \/ q \in peers[p] /\ \A i \in 1..n : ~TellsPeer(out[p][i], q)
    \/ \E i \in 1..n :
        /\ ShowsPeer(out[p][i], q)
        /\ \A j \in (i + 1)..n : ~TellsPeer(out[p][j], q)

\* The last call-peers in the channel of p is its i-th message.
LastList(p, i) ==
    /\ out[p][i].type = "call-peers"
    /\ \A j \in (i + 1)..Len(out[p]) : out[p][j].type # "call-peers"
ListWaits(p) == \E i \in DOMAIN out[p] : out[p][i].type = "call-peers"

ListedAfterAll(p, q) ==
    \/ q \in listed[p] /\ ~ListWaits(p)
    \/ \E i \in DOMAIN out[p] : LastList(p, i) /\ q \in out[p][i].peers

ActiveAfterAll(p) ==
    \/ p \in active /\ ~ListWaits(p)
    \/ \E i \in DOMAIN out[p] : LastList(p, i) /\ out[p][i].peers # {}

\* A field the client has not set itself, or has but will be told of again.
Told(p, field) == field \notin reset[p] \/ ListWaits(p)

(* Type invariant of what this module adds to Rooms *)
SyncTypeOK ==
    /\ peers \in [Peers -> SUBSET Peers]
    /\ listed \in [Peers -> SUBSET Peers]
    /\ active \in SUBSET Peers
    /\ screen \in [Peers -> {"none", "idle", "acquiring", "call", "error"}]
    /\ sent \in [Peers -> Seq({"join-call", "leave-call"})]
    /\ late \in SUBSET Peers
    /\ reset \in [Peers -> SUBSET {"callPeers", "callActive"}]

(***************************************************************************)
(* However joins, leaves, disconnects and evictions interleave with what   *)
(* is still in flight, a client that reads its channel to the end shows    *)
(* exactly the other members of its room: the server's order (newcomer     *)
(* told the list before it, members told of the newcomer) loses no one     *)
(* and invents no one, and what the client had from an earlier socket does *)
(* not last.                                                               *)
(***************************************************************************)
PeersConverge ==
    \A p \in Peers : InRoom(p) =>
        \A q \in Peers :
            KnownAfter(p, q, Len(out[p])) <=> q \in roomPeers[wsRoom[p]] \ {p}

(***************************************************************************)
(* The same for the call, with one exception.  After its channel is read a *)
(* client's callPeers are the other participants exactly, whether it       *)
(* joined the room before or during the call, is in the call, was refused  *)
(* or hung up, and however the others left; except for what it blanked     *)
(* itself (HANGUP, DISMISS_ERROR) or took along from an earlier socket,    *)
(* and that only until the call of its room changes or a list still unread *)
(* is read.  (Its own id is in the list or not by who caused the list.)    *)
(***************************************************************************)
CallPeersConverge ==
    \A p \in Peers : InRoom(p) /\ Told(p, "callPeers") =>
        \A q \in Peers \ {p} : ListedAfterAll(p, q) <=> q \in callPeers[wsRoom[p]]

(***************************************************************************)
(* And for callActive, which the room screen shows: with the same          *)
(* exception (HANGUP and a late WS_CLOSED clear it, a reconnection may     *)
(* keep it; DISMISS_ERROR does not touch it) a client shows a call when    *)
(* someone else is in it, and shows none when there is none.               *)
(***************************************************************************)
CallActiveConverges ==
    \A p \in Peers : InRoom(p) /\ Told(p, "callActive") =>
        /\ callPeers[wsRoom[p]] \ {p} # {} => ActiveAfterAll(p)
        /\ ActiveAfterAll(p) => callPeers[wsRoom[p]] # {}

(* A client's view of the call converges: both fields of it, as above. *)
CallConverges == CallPeersConverge /\ CallActiveConverges

(***************************************************************************)
(* When an offer, answer, candidate or receipt reaches a client, its       *)
(* sender is a peer the client has already been told of, and has not been  *)
(* told has left: a relay never overtakes the membership message.          *)
(***************************************************************************)
NoStrangerSignal ==
    \A p \in Peers : \A i \in DOMAIN out[p] :
        out[p][i].type = "relay" => KnownAfter(p, out[p][i].peer, i - 1)

(***************************************************************************)
(* "Whether a call is currently active in the room (from server call-peers *)
(* broadcast)" (types.ts, callActive): with its channel read, a client     *)
(* does not show a call when its room has none.                            *)
(***************************************************************************)
NoPastCallShown ==
    \A p \in Peers : InRoom(p) /\ ActiveAfterAll(p) => callPeers[wsRoom[p]] # {}
=============================================================================
