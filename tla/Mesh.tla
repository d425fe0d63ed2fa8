-------------------------------- MODULE Mesh --------------------------------
(***************************************************************************)
(* Mesh calls: the RTCPeerConnection each pair of callers negotiates       *)
(* through the signalling server.  state/effects/webrtc.ts,                *)
(* services/webrtc.ts, the call cases of reducer.ts and cleanup.ts.        *)
(*                                                                         *)
(* A client reads the server's messages in order, when it gets to them;    *)
(* what it sends reaches the server at once (its delay is the other client *)
(* being slow to read).  The methods of a connection that return promises  *)
(* settle one after the other, as WebRTC's operations chain has it, while  *)
(* further messages are read; those of a closed connection never settle.   *)
(*                                                                         *)
(* Sockets stay open: what a reconnection does to a call is in Reconnect.  *)
(***************************************************************************)
EXTENDS Naturals, Sequences, FiniteSets, Functions

CONSTANTS
    Callers,     \* peerIds, which are compared: numbers
    MaxJoins,    \* bound: calls joined, all clients together
    MaxFailures  \* bound: connections that fail or are disconnected

ASSUME CallersAssumption == IsFiniteSet(Callers) /\ Callers \subseteq Nat
ASSUME MeshNumbers == MaxJoins \in Nat /\ MaxFailures \in Nat

VARIABLES
    callScreen,  \* state.screen.type
    states,      \* state.peerConnectionStates
    serverCall,  \* callPeers of the room, on the server
    wire,        \* per client, what the server sent and it has not read
    pc,          \* refs.peerConnections: per client, a function on the peers connected to
    made,        \* how many connections a client has made to each peer
    joins,       \* how many calls each client joined
    failures,
    overlap      \* read by no code: pairs of which one rejoined before the other was done with its last call

meshVars == <<callScreen, states, serverCall, wire, pc, made, joins, failures, overlap>>

InCallScreens == {"waiting-for-peer", "call"}
InCall(p) == callScreen[p] \in InCallScreens

Empty == [q \in {} |-> {}]
\* What is kept per peer, with that of q set.
With(kept, q, v) == [r \in DOMAIN kept \cup {q} |-> IF r = q THEN v ELSE kept[r]]
MeshMishap == failures < MaxFailures /\ failures' = failures + 1

-----------------------------------------------------------------------------
(* Connections and descriptions.  A description names the connection it    *)
(* describes and the one whose offer it is or answers.                     *)

NoDescription == <<>>
Id(p, q) == <<p, q, pc[p][q].id>>
Offer(id) == [by |-> id, of |-> id]
Answer(id, offer) == [by |-> id, of |-> offer.of]

\* createPeerConnection: nothing is negotiated yet.
NewConnection(p, q) ==
    [id |-> made[p][q] + 1, sig |-> "stable", local |-> NoDescription, remote |-> NoDescription,
     ops |-> <<>>, making |-> FALSE, pending |-> {}, added |-> {}, gathered |-> TRUE]

\* sendOfferToPeer, up to createOffer.
Offering(c) == [c EXCEPT !.making = TRUE, !.ops = <<[op |-> "createOffer"]>>]

BothOffer(p, q) == Offering(NewConnection(p, q))  \* mutant
\* The higher peerId is impolite: it offers.
CallPeerConnection(p, q) ==
    IF p > q THEN Offering(NewConnection(p, q)) ELSE NewConnection(p, q)

Signal(type, p, description) == [type |-> type, from |-> p, sdp |-> description]
CallPeersList(S) == [type |-> "call-peers", peers |-> S]

Sent(w, q, m) == [w EXCEPT ![q] = Append(@, m)]

\* The server tells everyone of the call's new members.
Announced(w, S) == [q \in Callers |-> Append(w[q], CallPeersList(S))]

-----------------------------------------------------------------------------
MeshInit ==
    /\ callScreen = [p \in Callers |-> "idle"]
    /\ states = [p \in Callers |-> Empty]
    /\ serverCall = {}
    /\ wire = [p \in Callers |-> <<>>]
    /\ pc = [p \in Callers |-> Empty]
    /\ made = [p \in Callers |-> [q \in Callers |-> 0]]
    /\ joins = [p \in Callers |-> 0]
    /\ failures = 0
    /\ overlap = {}

TotalJoins == FoldFunction(+, 0, joins)

\* SWITCH_TO_CALL; getUserMedia begins.
SwitchToCall(p) ==
    /\ callScreen[p] = "idle"
    /\ TotalJoins < MaxJoins
    /\ callScreen' = [callScreen EXCEPT ![p] = "acquiring-media"]
    /\ UNCHANGED <<states, serverCall, wire, pc, made, joins, failures, overlap>>

NotDoneWith(p, q) == p \in DOMAIN pc[q] \/ wire[p] # <<>> \/ wire[q] # <<>>

\* MEDIA_ACQUIRED, and the join-call it sends.
MediaAcquired(p) ==
    /\ callScreen[p] = "acquiring-media"
    /\ TotalJoins < MaxJoins
    /\ callScreen' = [callScreen EXCEPT ![p] = "waiting-for-peer"]
    /\ joins' = [joins EXCEPT ![p] = @ + 1]
    /\ serverCall' = serverCall \cup {p}
    /\ wire' = Announced(wire, serverCall')
    /\ overlap' = overlap \cup {{p, q} : q \in {q \in Callers \ {p} : joins[p] > 0 /\ NotDoneWith(p, q)}}
    /\ UNCHANGED <<states, pc, made, failures>>

\* cleanupCallResources: every connection is closed, the server is told if it was in the call.
CleanedUp(p) ==
    /\ pc' = [pc EXCEPT ![p] = Empty]
    /\ IF InCall(p)
       THEN /\ serverCall' = serverCall \ {p}
            /\ wire' = Announced(wire, serverCall')
       ELSE UNCHANGED <<serverCall, wire>>

HangUp(p) ==
    /\ InCall(p)
    /\ callScreen' = [callScreen EXCEPT ![p] = "idle"]
    /\ states' = [states EXCEPT ![p] = Empty]
    /\ CleanedUp(p)
    /\ UNCHANGED <<made, joins, failures, overlap>>

\* DISMISS_ERROR, by the user or after five seconds.
Dismiss(p) ==
    /\ callScreen[p] = "error"
    /\ callScreen' = [callScreen EXCEPT ![p] = "idle"]
    /\ states' = [states EXCEPT ![p] = Empty]
    /\ CleanedUp(p)
    /\ UNCHANGED <<made, joins, failures, overlap>>

-----------------------------------------------------------------------------
(* The server's messages.                                                  *)

NextIs(p, type) == wire[p] # <<>> /\ Head(wire[p]).type = type
Consumed(p) == [wire EXCEPT ![p] = Tail(@)]

\* handleCallPeersReceived
ScreenAfterList(screen, remote) ==
    IF screen = "waiting-for-peer" /\ remote # {} THEN "call"
    ELSE IF screen = "call" /\ remote = {} THEN "waiting-for-peer"
    ELSE screen

\* mutant: the connections of those who left stay
KeptAndMade(p, remote) ==
    [q \in remote \cup DOMAIN pc[p] |->
        IF q \in DOMAIN pc[p] THEN pc[p][q] ELSE CallPeerConnection(p, q)]
\* handleCallPeersEffect: connections to the newcomers are made, those of the others closed.
ConnectionsAfterList(p, remote) ==
    [q \in remote |-> IF q \in DOMAIN pc[p] THEN pc[p][q] ELSE CallPeerConnection(p, q)]

ReadCallPeers(p) ==
    /\ NextIs(p, "call-peers")
    /\ LET remote == Head(wire[p]).peers \ {p}
           screen == ScreenAfterList(callScreen[p], remote)
       IN
       /\ callScreen' = [callScreen EXCEPT ![p] = screen]
       /\ states' = [states EXCEPT ![p] =
                        [q \in remote |-> IF q \in DOMAIN @ THEN @[q] ELSE "connecting"]]
       /\ IF screen \in InCallScreens
          THEN /\ pc' = [pc EXCEPT ![p] = ConnectionsAfterList(p, remote)]
               /\ made' = [made EXCEPT ![p] =
                            [q \in Callers |-> IF q \in remote \ DOMAIN pc[p] THEN @[q] + 1 ELSE @[q]]]
          ELSE UNCHANGED <<pc, made>>
    /\ wire' = Consumed(p)
    /\ UNCHANGED <<serverCall, joins, failures, overlap>>

Queue(c, op, sdp) == [c EXCEPT !.ops = Append(@, [op |-> op, sdp |-> sdp])]

\* handleOffer's offerCollision.  Only the impolite side ever offers, so a collision is an offer
\* that meets another being answered: the rollback of resolveGlareCollision has nothing to undo.
Collision(c) == c.making \/ c.sig # "stable"

\* RECEIVED_OFFER
ReadOffer(p) ==
    /\ NextIs(p, "offer")
    /\ LET q == Head(wire[p]).from
           c == IF q \in DOMAIN pc[p] THEN pc[p][q] ELSE NewConnection(p, q)
       IN
       IF InCall(p)
       THEN /\ pc' = [pc EXCEPT ![p] = With(@, q, IF Collision(c) THEN c
                                             ELSE Queue(c, "acceptOffer", Head(wire[p]).sdp))]
            /\ made' = [made EXCEPT ![p][q] = c.id]
       ELSE UNCHANGED <<pc, made>>
    /\ wire' = Consumed(p)
    /\ UNCHANGED <<callScreen, states, serverCall, joins, failures, overlap>>

\* handleAnswer
ReadAnswer(p) ==
    /\ NextIs(p, "answer")
    /\ LET q == Head(wire[p]).from IN
       IF InCall(p) /\ q \in DOMAIN pc[p] /\ pc[p][q].sig = "have-local-offer"
       THEN pc' = [pc EXCEPT ![p][q] = Queue(@, "acceptAnswer", Head(wire[p]).sdp)]
       ELSE UNCHANGED pc
    /\ wire' = Consumed(p)
    /\ UNCHANGED <<callScreen, states, serverCall, made, joins, failures, overlap>>

DroppedIfEarly(c, candidate) ==  \* mutant
    IF c.remote = NoDescription THEN c ELSE [c EXCEPT !.added = @ \cup {candidate}]
\* handleIceCandidate: buffered while there is no remote description.
CandidateTaken(c, candidate) ==
    IF c.remote = NoDescription
    THEN [c EXCEPT !.pending = @ \cup {candidate}]
    ELSE [c EXCEPT !.added = @ \cup {candidate}]

ReadCandidate(p) ==
    /\ NextIs(p, "ice-candidate")
    /\ LET q == Head(wire[p]).from IN
       IF InCall(p) /\ q \in DOMAIN pc[p]
       THEN pc' = [pc EXCEPT ![p][q] = CandidateTaken(@, Head(wire[p]).sdp)]
       ELSE UNCHANGED pc
    /\ wire' = Consumed(p)
    /\ UNCHANGED <<callScreen, states, serverCall, made, joins, failures, overlap>>

-----------------------------------------------------------------------------
(* The promises of a connection settle, in the order of the calls.         *)

Settling(p, q, op) == q \in DOMAIN pc[p] /\ pc[p][q].ops # <<>> /\ Head(pc[p][q].ops).op = op

\* The signalling state that a method needs, where it may be another.
Needed == [createAnswer |-> "have-remote-offer", setAnswer |-> "have-remote-offer",
           acceptAnswer |-> "have-local-offer"]

Done(c) == [c EXCEPT !.ops = Tail(@)]
OtherUnchanged == UNCHANGED <<callScreen, states, serverCall, made, joins, failures, overlap>>

\* flushPendingCandidates, its awaits taken as one: only the order of additions could differ.
Flushed(c) == [c EXCEPT !.added = @ \cup c.pending, !.pending = {}]

CreateOffer(p, q) ==
    /\ Settling(p, q, "createOffer")
    /\ pc' = [pc EXCEPT ![p][q] = Queue(Done(@), "setOffer", Offer(Id(p, q)))]
    /\ UNCHANGED wire
    /\ OtherUnchanged

SetOffer(p, q) ==
    /\ Settling(p, q, "setOffer")
    /\ LET offer == Head(pc[p][q].ops).sdp IN
       /\ pc' = [pc EXCEPT ![p][q] = [Done(@) EXCEPT
                    !.sig = "have-local-offer", !.local = offer, !.making = FALSE, !.gathered = FALSE]]
       /\ wire' = Sent(wire, q, Signal("offer", p, offer))
    /\ OtherUnchanged

\* acceptOfferAndAnswer's setRemoteDescription; a second offer replaces a first.
AcceptOffer(p, q) ==
    /\ Settling(p, q, "acceptOffer")
    /\ LET offered == [Done(pc[p][q]) EXCEPT !.sig = "have-remote-offer",
                                             !.remote = Head(pc[p][q].ops).sdp]
       IN  pc' = [pc EXCEPT ![p][q] = Queue(Flushed(offered), "createAnswer", NoDescription)]
    /\ UNCHANGED wire
    /\ OtherUnchanged

CreateAnswer(p, q) ==
    /\ Settling(p, q, "createAnswer")
    /\ pc[p][q].sig = Needed.createAnswer
    /\ pc' = [pc EXCEPT ![p][q] = Queue(Done(@), "setAnswer", Answer(Id(p, q), @.remote))]
    /\ UNCHANGED wire
    /\ OtherUnchanged

SetAnswer(p, q) ==
    /\ Settling(p, q, "setAnswer")
    /\ pc[p][q].sig = Needed.setAnswer
    /\ LET answer == Head(pc[p][q].ops).sdp IN
       /\ pc' = [pc EXCEPT ![p][q] = [Done(@) EXCEPT
                    !.sig = "stable", !.local = answer, !.gathered = FALSE]]
       /\ wire' = Sent(wire, q, Signal("answer", p, answer))
    /\ OtherUnchanged

AcceptAnswer(p, q) ==
    /\ Settling(p, q, "acceptAnswer")
    /\ pc[p][q].sig = Needed.acceptAnswer
    /\ LET answered == [Done(pc[p][q]) EXCEPT !.sig = "stable", !.remote = Head(pc[p][q].ops).sdp]
       IN  pc' = [pc EXCEPT ![p][q] = Flushed(answered)]
    /\ UNCHANGED wire
    /\ OtherUnchanged

\* RTC_FAILED: the error screen, and its clean-up, once every tracked peer has failed.
RtcFailed(p, q, connections) ==
    LET after == With(states[p], q, "failed") IN
    /\ states' = [states EXCEPT ![p] = after]
    /\ IF \A r \in DOMAIN after : after[r] = "failed"
       THEN /\ callScreen' = [callScreen EXCEPT ![p] = "error"]
            /\ CleanedUp(p)
       ELSE /\ pc' = connections
            /\ UNCHANGED <<callScreen, serverCall, wire>>
    /\ UNCHANGED <<made, joins, overlap>>

\* The connection is not in the state that the call to it needs: the promise is rejected.
Rejected(p, q) ==
    /\ q \in DOMAIN pc[p]
    /\ pc[p][q].ops # <<>>
    /\ Head(pc[p][q].ops).op \in DOMAIN Needed
    /\ pc[p][q].sig # Needed[Head(pc[p][q].ops).op]
    /\ RtcFailed(p, q, [pc EXCEPT ![p][q] = Done(@)])
    /\ UNCHANGED failures

\* onicecandidate: one candidate stands for those a description brings.
Gather(p, q) ==
    /\ q \in DOMAIN pc[p]
    /\ ~pc[p][q].gathered
    /\ pc' = [pc EXCEPT ![p][q].gathered = TRUE]
    /\ wire' = Sent(wire, q, Signal("ice-candidate", p, pc[p][q].local))
    /\ OtherUnchanged

\* The two connections describe each other.
Matched(p, q) ==
    /\ p \in DOMAIN pc[q] /\ q \in DOMAIN pc[p]
    /\ pc[p][q].local # NoDescription
    /\ pc[p][q].local = pc[q][p].remote
    /\ pc[p][q].remote = pc[q][p].local

\* RTC_CONNECTED
Connected(p, q) ==
    /\ q \in DOMAIN pc[p]
    /\ Matched(p, q)
    /\ q \in DOMAIN states[p] => states[p][q] # "connected"
    /\ states' = [states EXCEPT ![p] = With(@, q, "connected")]
    /\ callScreen' = [callScreen EXCEPT ![p] = IF @ = "waiting-for-peer" THEN "call" ELSE @]
    /\ UNCHANGED <<serverCall, wire, pc, made, joins, failures, overlap>>

\* RTC_DISCONNECTED
Disconnected(p, q) ==
    /\ q \in DOMAIN pc[p] \cap DOMAIN states[p]
    /\ states[p][q] = "connected"
    /\ MeshMishap
    /\ states' = [states EXCEPT ![p][q] = "disconnected"]
    /\ UNCHANGED <<callScreen, serverCall, wire, pc, made, joins, overlap>>

\* connectionState or iceConnectionState becomes "failed".
Fails(p, q) ==
    /\ q \in DOMAIN pc[p]
    /\ pc[p][q].remote # NoDescription
    /\ MeshMishap
    /\ RtcFailed(p, q, pc)

ConnectionStep(p, q) ==
    \/ CreateOffer(p, q)
    \/ SetOffer(p, q)
    \/ AcceptOffer(p, q)
    \/ CreateAnswer(p, q)
    \/ SetAnswer(p, q)
    \/ AcceptAnswer(p, q)
    \/ Rejected(p, q)
    \/ Gather(p, q)
    \/ Connected(p, q)
    \/ Disconnected(p, q)
    \/ Fails(p, q)

CallerStep(p) ==
    \/ SwitchToCall(p)
    \/ MediaAcquired(p)
    \/ HangUp(p)
    \/ Dismiss(p)
    \/ ReadCallPeers(p)
    \/ ReadOffer(p)
    \/ ReadAnswer(p)
    \/ ReadCandidate(p)

MeshNext == \E p, q \in Callers : CallerStep(p) \/ ConnectionStep(p, q)

MeshSpec == MeshInit /\ [][MeshNext]_meshVars

-----------------------------------------------------------------------------
(* Type invariant *)
Description == [by : Callers \X Callers \X Nat, of : Callers \X Callers \X Nat] \cup {NoDescription}
MeshTypeOK ==
    /\ callScreen \in [Callers -> {"idle", "acquiring-media", "waiting-for-peer", "call", "error"}]
    /\ serverCall \subseteq Callers
    /\ \A p \in Callers :
        /\ DOMAIN states[p] \subseteq Callers \ {p}
        /\ DOMAIN pc[p] \subseteq Callers \ {p}
        /\ \A q \in DOMAIN pc[p] :
            LET c == pc[p][q] IN
            /\ c.id \in 1 .. made[p][q]
            /\ c.sig \in {"stable", "have-local-offer", "have-remote-offer"}
            /\ {c.local, c.remote} \cup c.pending \cup c.added \subseteq Description
            /\ c.making => c.sig = "stable"

\* Every message is read and every promise has settled.
MeshStill ==
    \A p \in Callers :
        /\ wire[p] = <<>>
        /\ \A q \in DOMAIN pc[p] : pc[p][q].ops = <<>> /\ pc[p][q].gathered

(***************************************************************************)
(* Once all is read, a client in the call has a connection for each of the *)
(* others in it and no more, and shows the call exactly if there is        *)
(* somebody: offers that come before the list that explains them, lists    *)
(* read on other screens and failures leave nothing behind.                *)
(***************************************************************************)
ConnectionsMatchCall ==
    MeshStill =>
        \A p \in Callers :
            /\ InCall(p) <=> p \in serverCall
            /\ DOMAIN pc[p] = IF InCall(p) THEN serverCall \ {p} ELSE {}
            /\ InCall(p) => (callScreen[p] = "call" <=> serverCall # {p})

(***************************************************************************)
(* Every pair in the call ends up negotiated, neither side waiting for the *)
(* other, on descriptions of each other's present connection; unless one   *)
(* of the two rejoined before the other had heard that it left, for then   *)
(* an answer to the connection before can be taken for the new one's.      *)
(***************************************************************************)
Negotiated ==
    MeshStill =>
        \A p \in serverCall : \A q \in serverCall \ {p} :
            {p, q} \notin overlap => Matched(p, q) /\ pc[p][q].sig = "stable"

(***************************************************************************)
(* No candidate is lost between the buffer and the connection, whether it  *)
(* came before, during or after setRemoteDescription.                      *)
(***************************************************************************)
CandidatesApplied ==
    MeshStill =>
        \A p \in serverCall : \A q \in serverCall \ {p} :
            {p, q} \notin overlap =>
                pc[p][q].pending = {} /\ pc[p][q].added = {pc[q][p].local}
=============================================================================
