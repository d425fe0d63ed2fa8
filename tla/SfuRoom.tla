------------------------------ MODULE SfuRoom ------------------------------
(***************************************************************************)
(* The server's SFU control plane for one room: room-manager.ts,           *)
(* peer-handler.ts and the per-peer operation queue of handlers.ts.        *)
(*                                                                         *)
(* Here the handlers do await: each operation is a chain of synchronous    *)
(* segments with a mediasoup request between them.  A peer's operations    *)
(* run one after another (enqueueSfuOp), but two peers' operations         *)
(* interleave at every await, and handlePeerLeave runs outside the queue,  *)
(* in the middle of whatever that peer's operation was waiting for.        *)
(*                                                                         *)
(* The event loop runs every promise that is ready before it takes the     *)
(* next message or mediasoup answer: the actions guarded by Ready are      *)
(* those microtasks, and every other action waits until none is ready.     *)
(*                                                                         *)
(* mediasoup itself is not under src/.  What the model assumes of it:      *)
(* a request on an open router or transport is answered; one whose router  *)
(* or transport was closed meanwhile may be answered either way; closing a *)
(* transport closes its producers and consumers at once and closing a      *)
(* router closes its transports; a consumer learns later that its          *)
(* producer has gone.                                                      *)
(***************************************************************************)
EXTENDS Naturals, Sequences, FiniteSets

CONSTANTS
    Peers,       \* one socket each, all in the same room
    Kinds,       \* the tracks of a client's local stream
    None,        \* null, for a transport
    MaxObjects   \* bound: peer states of one peer that are referenced at once

\* A client always sends an audio track; null is no object of the program.
ASSUME KindsAssumption == "audio" \in Kinds
ASSUME BoundAssumption == MaxObjects \in Nat
ASSUME NoneAssumption ==
    /\ None \notin Peers \X Nat
    /\ None \notin [transport : Peers \X Nat, kind : Kinds]
    /\ None \notin [obj : Peers \X Nat,
                    producer : [transport : Peers \X Nat, kind : Kinds],
                    recv : Peers \X Nat]

VARIABLES
    socket,   \* "open" or "closed"
    room,     \* the rooms map has this room
    pending,  \* the pending map has it: createRoom is in flight
    entry,    \* room.peers: the number of the peer's current state, 0 if absent
    obj,      \* the peer states, SfuPeerState, those no longer registered included
    opened,   \* how many transports were made for a peer: names the next one
    live,     \* transports mediasoup has open
    owners,   \* the keys of producerOwners (the owner is in the producer's name)
    queue,    \* sfuPeerQueues: the operations not yet finished, the first one running
    run,      \* where the running operation stands
    mishaps,  \* bound: hang-ups, timeouts, closed sockets, and requests rejected for no reason, still to come
    inbox     \* sent on the socket and not yet read by the client

serverVars == <<socket, room, pending, entry, obj, opened, live, owners, queue, run, mishaps, inbox>>

-----------------------------------------------------------------------------
Objects == Peers \X (1 .. MaxObjects)

Blank == [caps |-> FALSE, send |-> None, recv |-> None, producers |-> {}, consumers |-> {}]

Entry(p) == <<p, entry[p]>>
Registered(p) == room /\ entry[p] # 0
Others(p) == {q \in Peers \ {p} : entry[q] # 0}

\* A producer is named by its transport and kind, and a transport by its peer and number.
Producer(t, k) == [transport |-> t, kind |-> k]
Alive(pr) == pr.transport \in live

\* Operations, as the wrappers of handlers.ts enqueue them.
JoinOp(c) == [type |-> "join", caps |-> c]
CreateOp(d) == [type |-> "create", dir |-> d]
ProduceOp(t, k) == [type |-> "produce", transport |-> t, kind |-> k]
ResumeOp(c) == [type |-> "resume", consumer |-> c]

\* Messages to the client.
CapsMsg == [type |-> "caps"]
CreatedMsg(d, t) == [type |-> "created", dir |-> d, transport |-> t]
ProducedMsg(pr) == [type |-> "produced", producer |-> pr]
ConsumerMsg(c) == [type |-> "consumer", consumer |-> c]
ErrorMsg == [type |-> "error"]

\* send(), which a closed socket ignores.
Tell(p, m) == IF socket[p] = "open" THEN [inbox EXCEPT ![p] = Append(@, m)] ELSE inbox

\* Where a peer's running operation stands, and what it holds on to while it waits:
\* a peer state, whether the room it looked up is still the room of the map, its loop.
Idle == [pc |-> "idle", inRoom |-> FALSE, obj |-> None, over |-> None, seen |-> {}, target |-> None]

Holding(pc, o) == [Idle EXCEPT !.pc = pc, !.inRoom = TRUE, !.obj = o]

\* The loop over the others' producers (over = None), or over the other peers for one producer.
Loop(o, over, inRoom) ==
    [Idle EXCEPT !.pc = "loop", !.inRoom = inRoom, !.obj = o, !.over = over]

Running(p, type) == queue[p] # <<>> /\ Head(queue[p]).type = type

\* A promise of p's chain is settled: its continuation runs before anything else.
Ready(p) == queue[p] # <<>> /\ run[p].pc \in {"idle", "woken", "loop"}
Quiet == \A p \in Peers : ~Ready(p)

Enqueued(p, ops) == [queue EXCEPT ![p] = @ \o ops]

\* mutant: the queue moves on but the operation is not over
FinishEarly(p) ==
    /\ queue' = [queue EXCEPT ![p] = Tail(@)]
    /\ UNCHANGED run
Finish(p) ==
    /\ queue' = [queue EXCEPT ![p] = Tail(@)]
    /\ run' = [run EXCEPT ![p] = Idle]

Mishap == mishaps > 0 /\ mishaps' = mishaps - 1

\* The catch of enqueueSfuOp.
Throw(p) == Finish(p) /\ inbox' = Tell(p, ErrorMsg)

-----------------------------------------------------------------------------
ServerInit ==
    /\ socket = [p \in Peers |-> "open"]
    /\ room = FALSE
    /\ pending = FALSE
    /\ entry = [p \in Peers |-> 0]
    /\ obj = [o \in Objects |-> Blank]
    /\ opened = [p \in Peers |-> 0]
    /\ live = {}
    /\ owners = {}
    /\ queue = [p \in Peers |-> <<>>]
    /\ run = [p \in Peers |-> Idle]
    /\ inbox = [p \in Peers |-> <<>>]

-----------------------------------------------------------------------------
(* handleSfuJoin                                                           *)

\* getOrCreateRoom, when the room is not there: start createRoom, or await the one in flight.
StartJoin(p) ==
    /\ Ready(p)
    /\ run[p].pc = "idle"
    /\ Running(p, "join")
    /\ ~room
    /\ pending' = TRUE
    /\ run' = [run EXCEPT ![p] = [Idle EXCEPT !.pc = "room"]]
    /\ UNCHANGED <<socket, mishaps, room, entry, obj, opened, live, owners, queue, inbox>>

\* mutant: the pending promise is not shared, one caller alone hears of it
AwaitingOne == {CHOOSE q \in Peers : run[q].pc = "room"}
Awaiting == {q \in Peers : run[q].pc = "room"}

\* createRoom's two mediasoup requests succeed; every join that waited resumes.
RoomCreated ==
    /\ Quiet
    /\ pending
    /\ pending' = FALSE
    /\ room' = TRUE
    /\ run' = [q \in Peers |-> IF q \in Awaiting THEN Holding("woken", None) ELSE run[q]]
    /\ UNCHANGED <<socket, mishaps, entry, obj, opened, live, owners, queue, inbox>>

\* One of them fails; so does every join that waited.
RoomFailed ==
    /\ Quiet
    /\ pending
    /\ pending' = FALSE
    /\ Mishap
    /\ queue' = [q \in Peers |-> IF q \in Awaiting THEN Tail(queue[q]) ELSE queue[q]]
    /\ run' = [q \in Peers |-> IF q \in Awaiting THEN Idle ELSE run[q]]
    /\ inbox' = [q \in Peers |->
                    IF q \in Awaiting /\ socket[q] = "open"
                    THEN Append(inbox[q], ErrorMsg)
                    ELSE inbox[q]]
    /\ UNCHANGED <<socket, room, entry, obj, opened, live, owners>>

Referenced(o) ==
    \E q \in Peers :
        \/ run[q].obj = o
        \/ run[q].target # None /\ run[q].target.obj = o
        \/ \E v \in run[q].seen : v.obj = o

\* The peer states of p that nothing refers to any more: a new one takes the place of one.
Unused(p) == {n \in 1 .. MaxObjects : ~Referenced(<<p, n>>)}

\* The peer state a join leaves p with, and its place.
JoinedState(p, c) ==
    IF entry[p] # 0
    THEN <<Entry(p), [obj[Entry(p)] EXCEPT !.caps = c]>>
    ELSE <<<<p, CHOOSE n \in Unused(p) : TRUE>>, [Blank EXCEPT !.caps = c]>>

\* With the room at hand: the peer is added, or its capabilities replaced.
FinishJoin(p) ==
    /\ Ready(p)
    /\ run[p].pc \in {"idle", "woken"}
    /\ Running(p, "join")
    /\ room
    /\ entry[p] # 0 \/ Unused(p) # {}   \* bound
    /\ LET joined == JoinedState(p, Head(queue[p]).caps) IN
       /\ obj' = [obj EXCEPT ![joined[1]] = joined[2]]
       /\ entry' = [entry EXCEPT ![p] = joined[1][2]]
       /\ run' = [run EXCEPT ![p] = Loop(joined[1], None, TRUE)]
    /\ inbox' = Tell(p, CapsMsg)
    /\ UNCHANGED <<socket, mishaps, room, pending, opened, live, owners, queue>>

-----------------------------------------------------------------------------
(* handleCreateTransport                                                   *)

StartCreate(p) ==
    /\ Ready(p)
    /\ run[p].pc = "idle"
    /\ Running(p, "create")
    /\ \/ /\ Registered(p)
          /\ run' = [run EXCEPT ![p] = Holding("create", Entry(p))]
          /\ UNCHANGED <<queue, inbox>>
       \/ ~Registered(p) /\ Throw(p)
    /\ UNCHANGED <<socket, mishaps, room, pending, entry, obj, opened, live, owners>>

\* mutant: the producers that were there first are not caught up with
AfterCreateNoCatchUp(p, d) == Loop(run[p].obj, None, FALSE)
\* A receiving peer then gets a consumer for each producer that was there before it.
AfterCreate(p, d) == Loop(run[p].obj, None, d = "recv" /\ run[p].inRoom)

TransportCreated(p) ==
    /\ Quiet
    /\ run[p].pc = "create"
    /\ LET t == <<p, opened[p] + 1>>
           d == Head(queue[p]).dir
           o == run[p].obj
       IN  /\ opened' = [opened EXCEPT ![p] = @ + 1]
           /\ live' = IF run[p].inRoom THEN live \cup {t} ELSE live
           /\ obj' = IF d = "send"
                     THEN [obj EXCEPT ![o].send = t]
                     ELSE [obj EXCEPT ![o].recv = t]
           /\ inbox' = Tell(p, CreatedMsg(d, t))
           /\ run' = [run EXCEPT ![p] = AfterCreate(p, d)]
    /\ UNCHANGED <<socket, mishaps, room, pending, entry, owners, queue>>

-----------------------------------------------------------------------------
(* handleProduce and handleConsumeResume.  handleConnectTransport changes  *)
(* nothing that is modelled and is left out: what it shows of itself, the  *)
(* error when the transport is gone, the operation the client chains right *)
(* behind it shows too.                                                    *)

OwnTransport(p, t) == Registered(p) /\ t \in {obj[Entry(p)].send, obj[Entry(p)].recv}
OwnConsumer(p, c) == Registered(p) /\ c \in obj[Entry(p)].consumers

\* What the running operation asks mediasoup to act on is among the peer's own.
Found(p) ==
    LET op == Head(queue[p]) IN
    \/ op.type = "produce" /\ OwnTransport(p, op.transport)
    \/ op.type = "resume" /\ OwnConsumer(p, op.consumer)

StartOnOwn(p) ==
    /\ Ready(p)
    /\ run[p].pc = "idle"
    /\ Head(queue[p]).type \in {"produce", "resume"}
    /\ \/ /\ Found(p)
          /\ run' = [run EXCEPT ![p] = Holding(Head(queue[p]).type, Entry(p))]
          /\ UNCHANGED <<queue, inbox>>
       \/ ~Found(p) /\ Throw(p)
    /\ UNCHANGED <<socket, mishaps, room, pending, entry, obj, opened, live, owners>>

\* consumer.resume() changes nothing that is modelled.
Settled(p) ==
    /\ Quiet
    /\ run[p].pc = "resume"
    /\ Finish(p)
    /\ UNCHANGED <<socket, mishaps, room, pending, entry, obj, opened, live, owners, inbox>>

\* mutant: the new producer is not pushed to the peers already there
AfterProduceSilent(p, pr) == Loop(run[p].obj, pr, FALSE)
AfterProduce(p, pr) == Loop(run[p].obj, pr, run[p].inRoom)

\* mutant: the reverse lookup is not filled in
OwnersUnset(p, pr) == owners
OwnersWith(p, pr) == IF run[p].inRoom THEN owners \cup {pr} ELSE owners

Produced(p) ==
    /\ Quiet
    /\ run[p].pc = "produce"
    /\ LET op == Head(queue[p])
           pr == Producer(op.transport, op.kind)
           o == run[p].obj
       IN  /\ obj' = [obj EXCEPT ![o].producers = @ \cup {pr}]
           /\ owners' = OwnersWith(p, pr)
           /\ inbox' = Tell(p, ProducedMsg(pr))
           /\ run' = [run EXCEPT ![p] = AfterProduce(p, pr)]
    /\ UNCHANGED <<socket, mishaps, room, pending, entry, opened, live, queue>>

\* What the request was about is open no more.
Closed(p) ==
    LET op == Head(queue[p]) IN
    \/ ~run[p].inRoom
    \/ op.type = "produce" /\ op.transport \notin live
    \/ op.type = "resume" /\ ~Alive(op.consumer.producer)

\* mediasoup rejects the request the operation was waiting for.
Rejected(p) ==
    /\ Quiet
    /\ run[p].pc \in {"create", "produce", "resume"}
    /\ IF Closed(p) THEN UNCHANGED mishaps ELSE Mishap
    /\ Throw(p)
    /\ UNCHANGED <<socket, room, pending, entry, obj, opened, live, owners>>

-----------------------------------------------------------------------------
(* createConsumersForNewPeer, createConsumersForProducer,                  *)
(* createSingleConsumer                                                    *)

Pair(o, pr) == [obj |-> o, producer |-> pr]

\* What the loop has still to visit.  It walks the live maps of the room it was given.
ToVisit(p) ==
    LET at == run[p]
        all == IF at.over = None
               THEN {Pair(at.obj, pr) : pr \in UNION {obj[Entry(q)].producers : q \in Others(p)}}
               ELSE {Pair(Entry(q), at.over) : q \in Others(p)}
    IN  IF at.inRoom THEN all \ at.seen ELSE {}

HasConsumer(o, pr) == \E c \in obj[o].consumers : c.producer = pr

\* The guards before `await consume`; canConsume is false of a closed producer.
Consumable(v) ==
    /\ obj[v.obj].recv # None
    /\ obj[v.obj].caps
    /\ ~HasConsumer(v.obj, v.producer)
    /\ Alive(v.producer)

Wanted(p) == {v \in ToVisit(p) : Consumable(v)}

\* On to the next pair that needs a consumer, past some that do not.
StartConsume(p) ==
    /\ Ready(p)
    /\ run[p].pc = "loop"
    /\ \E v \in Wanted(p), past \in SUBSET (ToVisit(p) \ Wanted(p)) :
          run' = [run EXCEPT ![p].pc = "consume",
                             ![p].seen = @ \cup past \cup {v},
                             ![p].target = [obj |-> v.obj, producer |-> v.producer,
                                            recv |-> obj[v.obj].recv]]
    /\ UNCHANGED <<socket, mishaps, room, pending, entry, obj, opened, live, owners, queue, inbox>>

FinishLoop(p) ==
    /\ Ready(p)
    /\ run[p].pc = "loop"
    /\ Wanted(p) = {}
    /\ Finish(p)
    /\ UNCHANGED <<socket, mishaps, room, pending, entry, obj, opened, live, owners, inbox>>

LoopOn(p) == run' = [run EXCEPT ![p].pc = "loop", ![p].target = None]

Copies(o, pr) == Cardinality({c \in obj[o].consumers : c.producer = pr})

Consumed(p) ==
    /\ Quiet
    /\ run[p].pc = "consume"
    /\ LET v == run[p].target
           c == [producer |-> v.producer, copy |-> Copies(v.obj, v.producer) + 1]
       IN  /\ obj' = [obj EXCEPT ![v.obj].consumers = @ \cup {c}]
           /\ inbox' = Tell(v.obj[1], ConsumerMsg(c))
    /\ LoopOn(p)
    /\ UNCHANGED <<socket, mishaps, room, pending, entry, opened, live, owners, queue>>

\* The receiving transport or the producer was closed meanwhile: logged, and the loop goes on.
ConsumeFailed(p) ==
    /\ Quiet
    /\ run[p].pc = "consume"
    /\ run[p].target.recv \notin live \/ ~Alive(run[p].target.producer)
    /\ LoopOn(p)
    /\ UNCHANGED <<socket, mishaps, room, pending, entry, obj, opened, live, owners, queue, inbox>>

\* The producerclose event of the consumers whose producer has gone.
Orphans(o) == {c \in obj[o].consumers : ~Alive(c.producer)}

ProducerClose(p) ==
    /\ Quiet
    /\ Registered(p)
    /\ Orphans(Entry(p)) # {}
    /\ obj' = [obj EXCEPT ![Entry(p)].consumers = @ \ Orphans(Entry(p))]
    /\ UNCHANGED <<socket, mishaps, room, pending, entry, opened, live, owners, queue, run, inbox>>

-----------------------------------------------------------------------------
(* handlePeerLeave: at once, whatever the peer's queue is doing.           *)

\* mutant: the room is kept when its last peer leaves
LastLeaverKept(p) == FALSE
LastLeaver(p) == Others(p) = {}

\* The transports that are closed: those that a later one has replaced stay open.
Current(p) == {obj[Entry(p)].send, obj[Entry(p)].recv}

\* mutant: nothing takes the leaver's entries out of producerOwners
OwnersKept(p) == owners
\* The transportclose events take entries out, and so does the loop over the leaver's producers.
OwnersAfterLeave(p) == {pr \in owners : pr.transport \notin Current(p) /\ pr \notin obj[Entry(p)].producers}

SfuLeave(p) ==
    IF Registered(p)
    THEN /\ entry' = [entry EXCEPT ![p] = 0]
         /\ obj' = [obj EXCEPT ![Entry(p)] =
                       IF Referenced(Entry(p)) THEN [@ EXCEPT !.producers = {}, !.consumers = {}]
                       ELSE Blank]
         /\ IF LastLeaver(p)
            THEN /\ room' = FALSE
                 /\ live' = {}
                 /\ owners' = {}
                 /\ run' = [q \in Peers |-> [run[q] EXCEPT !.inRoom = FALSE]]
            ELSE /\ live' = live \ Current(p)
                 /\ owners' = OwnersAfterLeave(p)
                 /\ UNCHANGED <<room, run>>
    ELSE UNCHANGED <<room, entry, obj, live, owners, run>>

\* The socket closes: handleLeave.  Operations already chained still run.
Close(p) ==
    /\ Quiet
    /\ socket[p] = "open"
    /\ socket' = [socket EXCEPT ![p] = "closed"]
    /\ SfuLeave(p)
    /\ inbox' = [inbox EXCEPT ![p] = <<>>]
    /\ Mishap
    /\ UNCHANGED <<pending, opened, queue>>

ServerStep(p) ==
    \/ StartJoin(p)
    \/ FinishJoin(p)
    \/ StartCreate(p)
    \/ TransportCreated(p)
    \/ StartOnOwn(p)
    \/ Settled(p)
    \/ Produced(p)
    \/ Rejected(p)
    \/ StartConsume(p)
    \/ FinishLoop(p)
    \/ Consumed(p)
    \/ ConsumeFailed(p)
    \/ ProducerClose(p)

ServerNext == RoomCreated \/ RoomFailed \/ \E p \in Peers : ServerStep(p)
=============================================================================
