------------------------------ MODULE SfuCall ------------------------------
(***************************************************************************)
(* SFU calls end to end: SfuRoom's server composed with the client's SFU   *)
(* protocol (state/effects/sfu.ts, sfu/transport.ts, sfu/producer.ts) and  *)
(* its teardown (state/effects/cleanup.ts).                                *)
(*                                                                         *)
(* The client reacts to each server message as it reads it, from a FIFO    *)
(* socket, whatever the user did since the message was sent.  A request    *)
(* reaches the server at once: its delay is the client being slow to read. *)
(* The client's own awaits (loading the device, createOffer) are short of  *)
(* the network's and are not interleaved.                                  *)
(***************************************************************************)
EXTENDS SfuRoom

CONSTANTS
    Budgets  \* bound: the calls each client may start and the mishaps there may be, together

VARIABLES
    screen,    \* "idle", "call" (waiting-for-peer or call) or "error"
    calls,     \* calls still to be started
    inCall,    \* refs.inCall
    device,    \* the mediasoup Device is loaded
    sendTr,    \* refs.sfuSendTransport
    recvTr,    \* refs.sfuRecvTransport
    callbacks  \* refs.pendingProduceCallbacks: what each one is waiting to hear of

clientVars == <<screen, calls, inCall, device, sendTr, recvTr, callbacks>>
vars == <<serverVars, clientVars>>

-----------------------------------------------------------------------------
Init ==
    /\ ServerInit
    /\ screen = [p \in Peers |-> "idle"]
    /\ \E b \in Budgets : calls = b.calls /\ mishaps = b.mishaps
    /\ inCall = [p \in Peers |-> FALSE]
    /\ device = [p \in Peers |-> FALSE]
    /\ sendTr = [p \in Peers |-> None]
    /\ recvTr = [p \in Peers |-> None]
    /\ callbacks = [p \in Peers |-> <<>>]

\* mutant: the callbacks of the call that ended stay
CallbacksKept(p) == callbacks[p]
CallbacksAfterCleanup(p) == <<>>

\* cleanupCallResources, the leave-call it sends included.
Cleanup(p) ==
    /\ inCall' = [inCall EXCEPT ![p] = FALSE]
    /\ device' = [device EXCEPT ![p] = FALSE]
    /\ sendTr' = [sendTr EXCEPT ![p] = None]
    /\ recvTr' = [recvTr EXCEPT ![p] = None]
    /\ callbacks' = [callbacks EXCEPT ![p] = CallbacksAfterCleanup(p)]
    /\ IF inCall[p]
       THEN SfuLeave(p)
       ELSE UNCHANGED <<room, entry, obj, live, owners, run>>

Awake(p) == Quiet /\ socket[p] = "open"

\* Join call, up to MEDIA_ACQUIRED: join-call, and sfu-join without capabilities.
StartCall(p) ==
    /\ Awake(p)
    /\ screen[p] = "idle"
    /\ calls[p] > 0
    /\ screen' = [screen EXCEPT ![p] = "call"]
    /\ calls' = [calls EXCEPT ![p] = @ - 1]
    /\ inCall' = [inCall EXCEPT ![p] = TRUE]
    /\ queue' = Enqueued(p, <<JoinOp(FALSE)>>)
    /\ UNCHANGED <<socket, mishaps, room, pending, entry, obj, opened, live, owners, run, inbox>>
    /\ UNCHANGED <<device, sendTr, recvTr, callbacks>>

Hangup(p) ==
    /\ Awake(p)
    /\ screen[p] = "call"
    /\ Mishap
    /\ screen' = [screen EXCEPT ![p] = "idle"]
    /\ Cleanup(p)
    /\ UNCHANGED <<socket, pending, opened, queue, inbox, calls>>

DismissError(p) ==
    /\ Awake(p)
    /\ screen[p] = "error"
    /\ screen' = [screen EXCEPT ![p] = "idle"]
    /\ Cleanup(p)
    /\ UNCHANGED <<socket, mishaps, pending, opened, queue, inbox, calls>>

-----------------------------------------------------------------------------
(* The server's messages, one action each.                                 *)

Reading(p, type) == Awake(p) /\ inbox[p] # <<>> /\ Head(inbox[p]).type = type

Read(p) == inbox' = [inbox EXCEPT ![p] = Tail(@)]

\* What reading a message never changes, but for an error.
Untouched == UNCHANGED <<socket, mishaps, room, pending, entry, obj, opened, live, owners, run>>

\* handleSfuRouterCaps
ReadCaps(p) ==
    /\ Reading(p, "caps")
    /\ Read(p)
    /\ \/ device[p] /\ UNCHANGED <<device, queue>>
       \/ /\ ~device[p]
          /\ device' = [device EXCEPT ![p] = TRUE]
          /\ queue' = Enqueued(p, <<JoinOp(TRUE), CreateOp("send"), CreateOp("recv")>>)
    /\ Untouched
    /\ UNCHANGED <<screen, calls, inCall, sendTr, recvTr, callbacks>>

\* handleSfuTransportCreated.  There is a local stream to produce only in a call.
ReadCreated(p) ==
    /\ Reading(p, "created")
    /\ Read(p)
    /\ LET m == Head(inbox[p]) IN
       \/ ~device[p] /\ UNCHANGED <<sendTr, recvTr, callbacks, queue>>
       \/ /\ device[p]
          /\ m.dir = "send"
          /\ sendTr' = [sendTr EXCEPT ![p] = m.transport]
          /\ IF screen[p] = "call"
             THEN /\ queue' = Enqueued(p, <<ProduceOp(m.transport, "audio")>>)
                  /\ callbacks' = [callbacks EXCEPT ![p] = Append(@, Producer(m.transport, "audio"))]
             ELSE UNCHANGED <<queue, callbacks>>
          /\ UNCHANGED recvTr
       \/ /\ device[p]
          /\ m.dir = "recv"
          /\ recvTr' = [recvTr EXCEPT ![p] = m.transport]
          /\ UNCHANGED <<sendTr, callbacks, queue>>
    /\ Untouched
    /\ UNCHANGED <<screen, calls, inCall, device>>

\* handleSfuProducerCreated resolves the callbacks first in, first out.
Resolved(p) == Head(callbacks[p])

\* produceLocalTracks produces the video once the audio's callback is resolved.
ReadProduced(p) ==
    /\ Reading(p, "produced")
    /\ Read(p)
    /\ \/ callbacks[p] = <<>> /\ UNCHANGED <<callbacks, queue>>
       \/ /\ callbacks[p] # <<>>
          /\ LET pr == Resolved(p)
                 rest == Tail(callbacks[p])
             IN  IF pr.kind = "audio" /\ "video" \in Kinds
                 THEN /\ callbacks' = [callbacks EXCEPT ![p] =
                                          Append(rest, Producer(pr.transport, "video"))]
                      /\ queue' = Enqueued(p, <<ProduceOp(pr.transport, "video")>>)
                 ELSE /\ callbacks' = [callbacks EXCEPT ![p] = rest]
                      /\ UNCHANGED queue
    /\ Untouched
    /\ UNCHANGED <<screen, calls, inCall, device, sendTr, recvTr>>

\* The timer of a produce takes its callback out of the queue and fails the produce, and the
\* call with it if every other peer tracked has failed too; what the server does goes on.
ProduceTimeout(p) ==
    /\ Awake(p)
    /\ callbacks[p] # <<>>
    /\ Mishap
    /\ \/ /\ screen' = [screen EXCEPT ![p] = "error"]
          /\ Cleanup(p)
       \/ /\ callbacks' = [callbacks EXCEPT ![p] = Tail(@)]
          /\ UNCHANGED <<room, entry, obj, live, owners, run, screen, inCall, device, sendTr, recvTr>>
    /\ UNCHANGED <<socket, pending, opened, queue, inbox, calls>>

\* handleSfuNewConsumer
ReadConsumer(p) ==
    /\ Reading(p, "consumer")
    /\ Read(p)
    /\ IF recvTr[p] # None
       THEN queue' = Enqueued(p, <<ResumeOp(Head(inbox[p]).consumer)>>)
       ELSE UNCHANGED queue
    /\ Untouched
    /\ UNCHANGED clientVars

\* SERVER_ERROR, which shows the error screen from any other and tears the call down.
ReadError(p) ==
    /\ Reading(p, "error")
    /\ Read(p)
    /\ screen' = [screen EXCEPT ![p] = "error"]
    /\ IF screen[p] # "error"
       THEN Cleanup(p)
       ELSE UNCHANGED <<room, entry, obj, live, owners, run, inCall, device, sendTr, recvTr,
                        callbacks>>
    /\ UNCHANGED <<socket, mishaps, pending, opened, queue, calls>>

CloseSocket(p) == Close(p) /\ UNCHANGED clientVars

ClientStep(p) ==
    \/ StartCall(p)
    \/ Hangup(p)
    \/ DismissError(p)
    \/ ReadCaps(p)
    \/ ReadCreated(p)
    \/ ReadProduced(p)
    \/ ProduceTimeout(p)
    \/ ReadConsumer(p)
    \/ ReadError(p)
    \/ CloseSocket(p)

Next ==
    \/ ServerNext /\ UNCHANGED clientVars
    \/ \E p \in Peers : ClientStep(p)

\* The event loop runs what is ready and mediasoup answers; users need not do anything.
Fairness ==
    /\ WF_vars(RoomCreated /\ UNCHANGED clientVars)
    /\ \A p \in Peers : WF_vars(ServerStep(p) /\ UNCHANGED clientVars)

Spec == Init /\ [][Next]_vars /\ Fairness

-----------------------------------------------------------------------------
(* Type invariant *)
Transport == Peers \X Nat
TypeOK ==
    /\ socket \in [Peers -> {"open", "closed"}]
    /\ room \in BOOLEAN
    /\ pending \in BOOLEAN
    /\ entry \in [Peers -> 0 .. MaxObjects]
    /\ live \subseteq Transport
    /\ \A pr \in owners : pr.transport \in Transport /\ pr.kind \in Kinds
    /\ \A p \in Peers : queue[p] = <<>> => run[p] = Idle
    /\ \A p \in Peers : callbacks[p] # <<>> => sendTr[p] # None

\* Everything asked for has been answered, and every answer read.
Still ==
    /\ ~pending
    /\ \A p \in Peers :
        /\ queue[p] = <<>>
        /\ inbox[p] = <<>>
        /\ ~(Registered(p) /\ Orphans(Entry(p)) # {})

(***************************************************************************)
(* Nobody is missed.  Whatever the interleaving of a newcomer's loop over  *)
(* producers with a producer's loop over peers, once all is still every    *)
(* peer that can receive has a consumer for every producer of the others.  *)
(***************************************************************************)
NobodyMissed ==
    Still =>
        \A p \in Peers : \A q \in Others(p) :
            Registered(p) /\ obj[Entry(p)].caps /\ obj[Entry(p)].recv # None =>
                \A pr \in obj[Entry(q)].producers : HasConsumer(Entry(p), pr)

(***************************************************************************)
(* A room in the map is never empty: pending creation, the joins that      *)
(* awaited it and removeRoom leave no moment between two events in which   *)
(* an idle Router is kept for nobody, or a peer is in a removed room.      *)
(***************************************************************************)
RoomHasPeers == Quiet => (room <=> \E p \in Peers : entry[p] # 0)

\* The producer is one of a peer that is in the room: of the one whose transport it is on.
Attributed(pr) ==
    LET p == pr.transport[1] IN Registered(p) /\ pr \in obj[Entry(p)].producers

(***************************************************************************)
(* The active speaker can be told, and is somebody who is there.  Every    *)
(* open producer of a peer in the room has its entry in producerOwners;    *)
(* and an entry of an open producer, the only kind that the observer       *)
(* hears, is of a peer in the room that has the producer.  (A produce that *)
(* is answered after its peer left adds an entry of a closed one, which    *)
(* stays until the room is removed.)                                       *)
(***************************************************************************)
SpeakerKnown ==
    /\ \A p \in Peers : Registered(p) =>
        \A pr \in obj[Entry(p)].producers : Alive(pr) => pr \in owners
    /\ \A pr \in owners : Alive(pr) => Attributed(pr)

(***************************************************************************)
(* A peer that goes, by hanging up, an error or its socket, in the middle  *)
(* of whatever it and the others are doing, takes its producers' entries   *)
(* out of producerOwners: no step leaves one over.                         *)
(***************************************************************************)
LeaversForgotten == [][\A pr \in owners : Attributed(pr) /\ ~Attributed(pr)' => pr \notin owners']_vars

(***************************************************************************)
(* A produce callback is given the id of the producer it asked for, never  *)
(* one of an earlier call: the FIFO of pendingProduceCallbacks matches.    *)
(***************************************************************************)
CallbacksMatch ==
    \A p \in Peers :
        Reading(p, "produced") /\ callbacks[p] # <<>> =>
            Head(inbox[p]).producer = Resolved(p)

(***************************************************************************)
(* No operation waits for ever, holding up those chained behind it: not    *)
(* the joins that share one room creation, nor a loop over maps that       *)
(* change while it runs.                                                   *)
(***************************************************************************)
OperationsEnd == \A p \in Peers : []<>(run[p].pc = "idle")

(***************************************************************************)
(* peer-handler.ts:400, "Skip if this peer already has a consumer for this *)
(* producer (dedup guard)": never two consumers of one producer on a peer. *)
(***************************************************************************)
NoDuplicateConsumers ==
    \A p \in Peers, c, d \in UNION {obj[Entry(q)].consumers : q \in {q \in Peers : entry[q] # 0}} :
        Registered(p) /\ {c, d} \subseteq obj[Entry(p)].consumers /\ c.producer = d.producer => c = d

(***************************************************************************)
(* room-manager.ts:5, "Cleans up when the last peer leaves": with every    *)
(* socket closed and nothing under way there is no SFU room left.          *)
(***************************************************************************)
RoomCleanedUp == Still /\ (\A p \in Peers : socket[p] = "closed") => ~room

(***************************************************************************)
(* sfu.ts:9-11: router capabilities lead to transports, and the sending    *)
(* transport to produced tracks.  Once all is still, whoever is on the     *)
(* call screen is producing.                                               *)
(***************************************************************************)
CallerProduces ==
    Still =>
        \A p \in Peers :
            screen[p] = "call" /\ socket[p] = "open" =>
                Registered(p) /\ {pr.kind : pr \in obj[Entry(p)].producers} = Kinds
=============================================================================
