--------------------------- MODULE SfuCallProofs ---------------------------
(***************************************************************************)
(* Proofs about SfuCall, for any number of peers and calls: every          *)
(* interleaving of the operations' segments, of leaves in the middle of    *)
(* them, and of what the clients do.                                       *)
(*                                                                         *)
(* The clients matter little: whatever they ask for, they do it between    *)
(* two events (Quiet) and only append well-typed operations or leave.  The *)
(* server's invariants are therefore proved over the server's actions, and *)
(* over one description of all that a client may do to the server.  Only   *)
(* the answers to produce requests, at the end, look at what the client    *)
(* has read and what its callbacks wait for.                               *)
(***************************************************************************)
EXTENDS SfuCall, FiniteSetTheorems, SequenceTheorems, TLAPS

-----------------------------------------------------------------------------
(* Types.                                                                  *)

Maybe(S) == S \cup {None}

ProducerId == [transport : Transport, kind : Kinds]
ConsumerId == [producer : ProducerId, copy : Nat]

Operation ==
    [type : {"join"}, caps : BOOLEAN]
    \cup [type : {"create"}, dir : {"send", "recv"}]
    \cup [type : {"produce"}, transport : Transport, kind : Kinds]
    \cup [type : {"resume"}, consumer : ConsumerId]

Message ==
    [type : {"caps", "error"}]
    \cup [type : {"created"}, dir : {"send", "recv"}, transport : Transport]
    \cup [type : {"produced"}, producer : ProducerId]
    \cup [type : {"consumer"}, consumer : ConsumerId]

State == [caps : BOOLEAN, send : Maybe(Transport), recv : Maybe(Transport),
          producers : SUBSET ProducerId, consumers : SUBSET ConsumerId]

Visit == [obj : Objects, producer : ProducerId]
Target == [obj : Objects, producer : ProducerId, recv : Transport]

Waiting == {"create", "produce", "resume"}
Looping == {"loop", "consume"}

Stage == [pc : {"idle", "room", "woken"} \cup Waiting \cup Looping,
          inRoom : BOOLEAN, obj : Maybe(Objects), over : Maybe(ProducerId),
          seen : SUBSET Visit, target : Maybe(Target)]

Typed ==
    /\ socket \in [Peers -> {"open", "closed"}]
    /\ room \in BOOLEAN
    /\ pending \in BOOLEAN
    /\ entry \in [Peers -> 0 .. MaxObjects]
    /\ obj \in [Objects -> State]
    /\ \A o \in Objects : IsFiniteSet(obj[o].consumers)
    /\ opened \in [Peers -> Nat]
    /\ live \in SUBSET Transport
    /\ owners \in SUBSET ProducerId
    /\ queue \in [Peers -> Seq(Operation)]
    /\ run \in [Peers -> Stage]
    /\ inbox \in [Peers -> Seq(Message)]

\* What a running operation is, and what it holds on to.
StageOf(p) ==
    LET at == run[p] IN
    /\ queue[p] = <<>> => at = Idle
    /\ at.pc = "idle" => at.target = None /\ at.obj = None
    /\ at.pc \in {"room", "woken"} => Running(p, "join") /\ at.target = None
    /\ at.pc \in Waiting => Running(p, at.pc) /\ at.target = None
    /\ at.pc \in Waiting \cup Looping => at.obj \in Objects /\ at.obj[1] = p
    /\ at.pc = "loop" => at.target = None
    /\ at.pc = "consume" => at.target \in Target

ClientTypes ==
    /\ screen \in [Peers -> {"idle", "call", "error"}]
    /\ inCall \in [Peers -> BOOLEAN]
    /\ device \in [Peers -> BOOLEAN]
    /\ sendTr \in [Peers -> Maybe(Transport)]
    /\ recvTr \in [Peers -> Maybe(Transport)]
    /\ callbacks \in [Peers -> Seq(ProducerId)]
    /\ \A p \in Peers : callbacks[p] # <<>> => sendTr[p] # None

ServerTypes == Typed /\ \A p \in Peers : StageOf(p)
Types == ServerTypes /\ ClientTypes

-----------------------------------------------------------------------------
(* The room of the map.                                                    *)

\* Who is in the room while it is made, and between its making and its first peer.
RoomInv ==
    /\ pending => ~room /\ Awaiting # {}
    /\ \A p \in Peers : run[p].pc = "room" => pending
    /\ ~room => \A p \in Peers : entry[p] = 0
    /\ room /\ (\A p \in Peers : entry[p] = 0) => \E p \in Peers : run[p].pc = "woken"

-----------------------------------------------------------------------------
(* Transports and producers.                                               *)

\* A transport, if it is one, among the first n made for p.
OfPeer(p, t, n) == t # None => t[1] = p /\ t[2] <= n

\* What a peer's states refer to, and what its running operation does.
Sources(p) ==
    /\ \A n \in 1 .. MaxObjects :
        LET state == obj[<<p, n>>] IN
        /\ OfPeer(p, state.send, opened[p]) /\ OfPeer(p, state.recv, opened[p])
        /\ \A pr \in state.producers : OfPeer(p, pr.transport, opened[p])
    /\ entry[p] # 0 =>
        /\ obj[Entry(p)].send \in Maybe(live) /\ obj[Entry(p)].recv \in Maybe(live)
        /\ \A pr \in obj[Entry(p)].producers : pr.transport \in live /\ pr \in owners

Held(p) ==
    LET at == run[p] IN
    /\ at.pc \in Waiting \cup Looping /\ entry[p] # 0 => at.obj = Entry(p)
    /\ at.pc \in Waiting /\ entry[p] # 0 => at.inRoom
    /\ at.pc = "produce" =>
        LET t == Head(queue[p]).transport IN
        /\ OfPeer(p, t, opened[p])
        /\ entry[p] # 0 => t \in live
        /\ ~at.inRoom => t \notin live

TransportInv ==
    /\ \A t \in live : t[2] <= opened[t[1]]
    /\ \A p \in Peers : Sources(p) /\ Held(p)

-----------------------------------------------------------------------------
(* Consumers.                                                              *)

\* The running operation of r will still come to this pair, or is waiting for it.
InHand(r, o, pr) ==
    \/ run[r].pc \in Looping /\ run[r].inRoom /\ Pair(o, pr) \notin run[r].seen
    \/ run[r].pc = "consume" /\ run[r].target.obj = o /\ run[r].target.producer = pr

\* The newcomer's own loop over producers, or the producer's loop over peers.
Owed(p, q, pr) ==
    \/ run[p].over = None /\ InHand(p, Entry(p), pr)
    \/ run[q].over = pr /\ InHand(q, Entry(p), pr)

Receives(p) == entry[p] # 0 /\ obj[Entry(p)].caps /\ obj[Entry(p)].recv # None

\* A consumer that is being made is made on a transport that is open, if its peer is still there.
OnOpenTransport(r) ==
    run[r].pc = "consume" =>
        LET v == run[r].target IN
        /\ v.recv[1] = v.obj[1]
        /\ (entry[v.obj[1]] # 0 /\ v.obj = Entry(v.obj[1]) => v.recv \in live)

\* Every producer of q has, or is about to get, a consumer at p.
Served(p, q) ==
    Receives(p) /\ q # p /\ entry[q] # 0 =>
        \A pr \in obj[Entry(q)].producers : HasConsumer(Entry(p), pr) \/ Owed(p, q, pr)

MissedInv == \A p, q \in Peers : OnOpenTransport(p) /\ Served(p, q)

-----------------------------------------------------------------------------
(* Operators.                                                              *)

(* What the stages of an operation are, field by field. *)
LEMMA StageForms ==
    /\ Idle.pc = "idle" /\ Idle.obj = None /\ Idle.over = None
    /\ Idle.seen = {} /\ Idle.target = None
    /\ \A pc, o :
        LET at == Holding(pc, o) IN
        /\ at.pc = pc /\ at.inRoom /\ at.obj = o
        /\ at.over = None /\ at.seen = {} /\ at.target = None
    /\ \A o, v, b :
        LET at == Loop(o, v, b) IN
        /\ at.pc = "loop" /\ at.inRoom = b /\ at.obj = o
        /\ at.over = v /\ at.seen = {} /\ at.target = None
  BY DEF Idle, Holding, Loop

(* They are stages. *)
LEMMA StageTypes ==
    /\ Idle \in Stage
    /\ \A pc \in {"woken"} \cup Waiting, o \in Maybe(Objects) : Holding(pc, o) \in Stage
    /\ \A o \in Objects, v \in Maybe(ProducerId), b \in BOOLEAN : Loop(o, v, b) \in Stage
  BY DEF Idle, Holding, Loop, Stage, Maybe, Waiting, Looping

(* What the server sends keeps the sockets' channels typed. *)
LEMMA TellType ==
    ASSUME ServerTypes, NEW p \in Peers, NEW m \in Message
    PROVE  Tell(p, m) \in [Peers -> Seq(Message)]
<1>1. Append(inbox[p], m) \in Seq(Message)
  BY DEF ServerTypes, Typed
<1>2. QED
  BY <1>1 DEF Tell, ServerTypes, Typed

(* The messages and operations are typed. *)
LEMMA MessageTypes ==
    /\ CapsMsg \in Message /\ ErrorMsg \in Message
    /\ \A d \in {"send", "recv"}, t \in Transport : CreatedMsg(d, t) \in Message
    /\ \A pr \in ProducerId : ProducedMsg(pr) \in Message
    /\ \A c \in ConsumerId : ConsumerMsg(c) \in Message
  BY DEF Message, CapsMsg, ErrorMsg, CreatedMsg, ProducedMsg, ConsumerMsg

(* The running operation, which is there for every stage but idle. *)
LEMMA RunningType ==
    ASSUME ServerTypes, NEW p \in Peers, queue[p] # <<>>
    PROVE  /\ Head(queue[p]) \in Operation
           /\ Tail(queue[p]) \in Seq(Operation)
           /\ Head(queue[p]).type = "join" => Head(queue[p]).caps \in BOOLEAN
           /\ Head(queue[p]).type = "create" => Head(queue[p]).dir \in {"send", "recv"}
           /\ Head(queue[p]).type = "produce" =>
                /\ Head(queue[p]).transport \in Transport
                /\ Head(queue[p]).kind \in Kinds
           /\ Head(queue[p]).type = "resume" => Head(queue[p]).consumer \in ConsumerId
<1>1. queue[p] \in Seq(Operation)
  BY DEF ServerTypes, Typed
<1>2. Head(queue[p]) \in Operation /\ Tail(queue[p]) \in Seq(Operation)
  BY <1>1
<1>3. QED
  BY <1>2 DEF Operation

(* A change of one peer's stage that suits its queue. *)
LEMMA StageChange ==
    ASSUME ServerTypes, NEW p \in Peers, NEW s \in Stage,
           run' = [run EXCEPT ![p] = s],
           \A q \in Peers \ {p} : queue'[q] = queue[q],
           StageOf(p)'
    PROVE  run' \in [Peers -> Stage] /\ \A q \in Peers : StageOf(q)'
<1>1. run' \in [Peers -> Stage] /\ \A q \in Peers \ {p} : run'[q] = run[q]
  BY DEF ServerTypes, Typed
<1>2. QED
  BY <1>1 DEF ServerTypes, StageOf, Running

(* The end of an operation. *)
LEMMA FinishTypes ==
    ASSUME ServerTypes, NEW p \in Peers, queue[p] # <<>>, Finish(p)
    PROVE  /\ queue' \in [Peers -> Seq(Operation)]
           /\ run' \in [Peers -> Stage]
           /\ \A q \in Peers : StageOf(q)'
<1>1. queue' \in [Peers -> Seq(Operation)] /\ \A q \in Peers \ {p} : queue'[q] = queue[q]
  BY RunningType DEF Finish, ServerTypes, Typed
<1>2. run' = [run EXCEPT ![p] = Idle] /\ run'[p] = Idle
  BY DEF Finish, ServerTypes, Typed
<1>3. StageOf(p)'
  BY <1>2, StageForms DEF StageOf, Waiting, Looping
<1>4. QED
  BY <1>1, <1>2, <1>3, StageTypes, StageChange

-----------------------------------------------------------------------------
(* Every action of the server is typed.                                    *)

(* StartJoin. *)
LEMMA StartJoinTypes ==
    ASSUME ServerTypes, NEW p \in Peers, StartJoin(p)
    PROVE  ServerTypes'
<1> DEFINE s == [Idle EXCEPT !.pc = "room"]
<1>1. s \in Stage /\ s.pc = "room" /\ s.target = None
  BY DEF Idle, Stage, Maybe
<1>2. run' = [run EXCEPT ![p] = s] /\ queue' = queue /\ pending' = TRUE
  BY DEF StartJoin
<1> HIDE DEF s
<1>3. run'[p] = s
  BY <1>2 DEF ServerTypes, Typed
<1>4. StageOf(p)'
  BY <1>1, <1>2, <1>3, StageForms DEF StartJoin, StageOf, Running, Waiting, Looping
<1>5. run' \in [Peers -> Stage] /\ \A q \in Peers : StageOf(q)'
  BY <1>1, <1>2, <1>4, StageChange
<1>6. QED
  BY <1>2, <1>5 DEF StartJoin, ServerTypes, Typed

(* A catch that reports the error. *)
LEMMA ThrowTypes ==
    ASSUME ServerTypes, NEW p \in Peers, queue[p] # <<>>, Throw(p),
           UNCHANGED <<socket, room, pending, entry, obj, opened, live, owners>>
    PROVE  ServerTypes'
<1>1. Finish(p) /\ inbox' \in [Peers -> Seq(Message)]
  BY TellType, MessageTypes DEF Throw
<1>2. QED
  BY <1>1, FinishTypes DEF ServerTypes, Typed

(* StartCreate. *)
LEMMA StartCreateTypes ==
    ASSUME ServerTypes, NEW p \in Peers, StartCreate(p)
    PROVE  ServerTypes'
<1>1. CASE ~Registered(p) /\ Throw(p)
  BY <1>1, ThrowTypes DEF StartCreate, Running
<1>2. CASE Registered(p) /\ run' = [run EXCEPT ![p] = Holding("create", Entry(p))]
           /\ UNCHANGED <<queue, inbox>>
  <2> DEFINE s == Holding("create", Entry(p))
  <2>1. Entry(p) \in Objects /\ Entry(p)[1] = p
    BY <1>2 DEF Registered, Entry, Objects, ServerTypes, Typed
  <2>2. s \in Stage /\ s.pc = "create" /\ s.obj = Entry(p) /\ s.target = None
    BY <2>1, StageTypes, StageForms DEF Waiting, Maybe
  <2> HIDE DEF s
  <2>3. run'[p] = s
    BY <1>2 DEF ServerTypes, Typed, s
  <2>4. StageOf(p)'
    BY <1>2, <2>1, <2>2, <2>3 DEF StartCreate, StageOf, Running, Waiting, Looping
  <2>5. run' \in [Peers -> Stage] /\ \A q \in Peers : StageOf(q)'
    BY <1>2, <2>2, <2>4, StageChange DEF s
  <2>6. QED
    BY <1>2, <2>5 DEF StartCreate, ServerTypes, Typed
<1>3. QED
  BY <1>1, <1>2 DEF StartCreate

(* StartOnOwn. *)
LEMMA StartOnOwnTypes ==
    ASSUME ServerTypes, NEW p \in Peers, StartOnOwn(p)
    PROVE  ServerTypes'
<1>1. CASE ~Found(p) /\ Throw(p)
  BY <1>1, ThrowTypes DEF StartOnOwn, Ready
<1>2. CASE Found(p) /\ run' = [run EXCEPT ![p] = Holding(Head(queue[p]).type, Entry(p))]
           /\ UNCHANGED <<queue, inbox>>
  <2> DEFINE pc == Head(queue[p]).type
  <2> DEFINE s == Holding(pc, Entry(p))
  <2>1. Entry(p) \in Objects /\ Entry(p)[1] = p
    BY <1>2 DEF Found, OwnTransport, OwnConsumer, Registered, Entry, Objects, ServerTypes, Typed
  <2>2. pc \in {"produce", "resume"} /\ queue[p] # <<>>
    BY DEF StartOnOwn, Ready
  <2>3. s \in Stage /\ s.pc = pc /\ s.obj = Entry(p) /\ s.target = None
    BY <2>1, <2>2, StageTypes, StageForms DEF Waiting, Maybe
  <2>4. run'[p] = s /\ run' = [run EXCEPT ![p] = s]
    BY <1>2 DEF ServerTypes, Typed
  <2> HIDE DEF s
  <2>5. StageOf(p)'
    BY <1>2, <2>1, <2>2, <2>3, <2>4 DEF StageOf, Running, Waiting, Looping
  <2>6. run' \in [Peers -> Stage] /\ \A q \in Peers : StageOf(q)'
    BY <1>2, <2>3, <2>4, <2>5, StageChange
  <2>7. QED
    BY <1>2, <2>6 DEF StartOnOwn, ServerTypes, Typed
<1>3. QED
  BY <1>1, <1>2 DEF StartOnOwn

(* Settled. *)
LEMMA SettledTypes ==
    ASSUME ServerTypes, NEW p \in Peers, Settled(p)
    PROVE  ServerTypes'
<1>1. queue[p] # <<>> /\ Finish(p)
  BY StageForms DEF Settled, ServerTypes, StageOf
<1>2. QED
  BY <1>1, FinishTypes DEF Settled, ServerTypes, Typed

(* Rejected. *)
LEMMA RejectedTypes ==
    ASSUME ServerTypes, NEW p \in Peers, Rejected(p)
    PROVE  ServerTypes'
<1>1. queue[p] # <<>>
  BY StageForms DEF Rejected, ServerTypes, StageOf
<1>2. QED
  BY <1>1, ThrowTypes DEF Rejected

(* FinishLoop. *)
LEMMA FinishLoopTypes ==
    ASSUME ServerTypes, NEW p \in Peers, FinishLoop(p)
    PROVE  ServerTypes'
<1>1. queue[p] # <<>> /\ Finish(p)
  BY DEF FinishLoop, Ready
<1>2. QED
  BY <1>1, FinishTypes DEF FinishLoop, ServerTypes, Typed

(* RoomCreated. *)
LEMMA RoomCreatedTypes ==
    ASSUME ServerTypes, RoomCreated
    PROVE  ServerTypes'
<1> DEFINE s == Holding("woken", None)
<1>1. s \in Stage /\ s.pc = "woken" /\ s.target = None
  BY StageTypes, StageForms DEF Maybe
<1>2. run' = [q \in Peers |-> IF q \in Awaiting THEN s ELSE run[q]] /\ queue' = queue
  BY DEF RoomCreated
<1> HIDE DEF s
<1>3. run' \in [Peers -> Stage]
  BY <1>1, <1>2 DEF ServerTypes, Typed
<1>4. ASSUME NEW q \in Peers PROVE StageOf(q)'
  <2>1. CASE q \in Awaiting
    BY <1>1, <1>2, <2>1, StageForms DEF ServerTypes, StageOf, Awaiting, Running, Waiting, Looping
  <2>2. CASE q \notin Awaiting
    BY <1>2, <2>2 DEF ServerTypes, StageOf, Running
  <2>3. QED
    BY <2>1, <2>2
<1>5. QED
  BY <1>2, <1>3, <1>4 DEF RoomCreated, ServerTypes, Typed

(* RoomFailed. *)
LEMMA RoomFailedTypes ==
    ASSUME ServerTypes, RoomFailed
    PROVE  ServerTypes'
<1>1. \A q \in Awaiting : q \in Peers /\ queue[q] # <<>>
  BY StageForms DEF ServerTypes, StageOf, Awaiting
<1>2. queue' \in [Peers -> Seq(Operation)]
  BY <1>1, RunningType DEF RoomFailed, ServerTypes, Typed
<1>3. run' \in [Peers -> Stage]
  BY StageTypes DEF RoomFailed, ServerTypes, Typed
<1>4. inbox' \in [Peers -> Seq(Message)]
  <2>1. \A q \in Peers : inbox[q] \in Seq(Message) /\ Append(inbox[q], ErrorMsg) \in Seq(Message)
    BY MessageTypes DEF ServerTypes, Typed
  <2>2. QED
    BY <2>1 DEF RoomFailed
<1>5. ASSUME NEW q \in Peers PROVE StageOf(q)'
  <2>1. CASE q \in Awaiting
    <3>1. run'[q] = Idle
      BY <2>1 DEF RoomFailed
    <3>2. QED
      BY <3>1, StageForms DEF StageOf, Waiting, Looping
  <2>2. CASE q \notin Awaiting
    <3>1. run'[q] = run[q] /\ queue'[q] = queue[q]
      BY <2>2 DEF RoomFailed
    <3>2. QED
      BY <3>1 DEF ServerTypes, StageOf, Running
  <2>3. QED
    BY <2>1, <2>2
<1>6. QED
  BY <1>2, <1>3, <1>4, <1>5 DEF RoomFailed, ServerTypes, Typed

(* The stage after an answered request: a loop. *)
LEMMA LoopTypes ==
    ASSUME ServerTypes, NEW p \in Peers, queue[p] # <<>>, queue' = queue,
           NEW o \in Objects, o[1] = p,
           NEW v \in Maybe(ProducerId), NEW b \in BOOLEAN,
           run' = [run EXCEPT ![p] = Loop(o, v, b)]
    PROVE  run' \in [Peers -> Stage] /\ \A q \in Peers : StageOf(q)'
<1> DEFINE s == Loop(o, v, b)
<1>1. s \in Stage /\ s.pc = "loop" /\ s.obj = o /\ s.target = None
  BY StageTypes, StageForms
<1>2. run'[p] = s
  BY DEF ServerTypes, Typed
<1> HIDE DEF s
<1>3. StageOf(p)'
  BY <1>1, <1>2 DEF StageOf, Running, Waiting, Looping
<1>4. QED
  BY <1>1, <1>3, StageChange DEF s

(* FinishJoin. *)
LEMMA FinishJoinTypes ==
    ASSUME ServerTypes, NEW p \in Peers, FinishJoin(p)
    PROVE  ServerTypes'
<1> DEFINE joined == JoinedState(p, Head(queue[p]).caps)
<1> DEFINE o == joined[1]
<1>1. queue[p] # <<>> /\ Head(queue[p]).caps \in BOOLEAN
  BY RunningType DEF FinishJoin, Running
<1>2. /\ o \in Objects /\ o[1] = p /\ o[2] \in 0 .. MaxObjects
      /\ joined[2] \in State
      /\ IsFiniteSet(joined[2].consumers)
  <2>1. CASE entry[p] # 0
    <3> entry[p] \in 0 .. MaxObjects
      BY DEF ServerTypes, Typed
    <3>1. Entry(p) \in Objects /\ joined = <<Entry(p), [obj[Entry(p)] EXCEPT !.caps = Head(queue[p]).caps]>>
      BY <2>1, BoundAssumption DEF JoinedState, Entry, Objects
    <3>2. obj[Entry(p)] \in State /\ IsFiniteSet(obj[Entry(p)].consumers)
      BY <3>1 DEF ServerTypes, Typed
    <3>3. QED
      BY <1>1, <3>1, <3>2, BoundAssumption DEF State, Entry, Objects
  <2>2. CASE entry[p] = 0
    <3> DEFINE n == CHOOSE m \in Unused(p) : TRUE
    <3>1. n \in 1 .. MaxObjects
      BY <2>2 DEF FinishJoin, Unused
    <3>2. joined = <<<<p, n>>, [Blank EXCEPT !.caps = Head(queue[p]).caps]>>
      BY <2>2 DEF JoinedState
    <3> HIDE DEF n, joined
    <3>3. Blank \in State /\ IsFiniteSet(Blank.consumers)
      BY FS_EmptySet DEF Blank, State, Maybe
    <3>4. QED
      BY <1>1, <3>1, <3>2, <3>3, BoundAssumption DEF State, Objects
  <2>3. QED
    BY <2>1, <2>2
<1>3. /\ obj' = [obj EXCEPT ![o] = joined[2]]
      /\ entry' = [entry EXCEPT ![p] = o[2]]
      /\ run' = [run EXCEPT ![p] = Loop(o, None, TRUE)]
      /\ queue' = queue
  BY DEF FinishJoin
<1> HIDE DEF joined, o
<1>4. /\ obj' \in [Objects -> State]
      /\ entry' \in [Peers -> 0 .. MaxObjects]
      /\ \A x \in Objects : IsFiniteSet(obj'[x].consumers)
  BY <1>2, <1>3 DEF ServerTypes, Typed
<1>5. run' \in [Peers -> Stage] /\ \A q \in Peers : StageOf(q)'
  BY <1>1, <1>2, <1>3, LoopTypes DEF Maybe
<1>6. inbox' \in [Peers -> Seq(Message)]
  BY TellType, MessageTypes DEF FinishJoin
<1>7. QED
  BY <1>3, <1>4, <1>5, <1>6 DEF FinishJoin, ServerTypes, Typed

(* A waiting operation: its kind, its peer state, its fields. *)
LEMMA WaitingType ==
    ASSUME ServerTypes, NEW p \in Peers, run[p].pc \in Waiting
    PROVE  /\ queue[p] # <<>> /\ Head(queue[p]).type = run[p].pc
           /\ run[p].obj \in Objects /\ run[p].obj[1] = p
           /\ run[p].inRoom \in BOOLEAN
           /\ obj[run[p].obj] \in State
<1>1. StageOf(p) /\ run[p] \in Stage
  BY DEF ServerTypes, Typed
<1>2. QED
  BY <1>1 DEF ServerTypes, Typed, StageOf, Running, Stage

(* TransportCreated. *)
LEMMA TransportCreatedTypes ==
    ASSUME ServerTypes, NEW p \in Peers, TransportCreated(p)
    PROVE  ServerTypes'
<1> DEFINE t == <<p, opened[p] + 1>>
<1> DEFINE d == Head(queue[p]).dir
<1> DEFINE o == run[p].obj
<1>1. /\ queue[p] # <<>> /\ Head(queue[p]).type = "create"
      /\ o \in Objects /\ o[1] = p /\ obj[o] \in State /\ run[p].inRoom \in BOOLEAN
  BY WaitingType DEF TransportCreated, Waiting
<1>2. d \in {"send", "recv"}
  BY <1>1, RunningType
<1>3. t \in Transport /\ opened[p] \in Nat
  BY DEF Transport, ServerTypes, Typed
<1>4. /\ opened' = [opened EXCEPT ![p] = @ + 1]
      /\ live' \in {live, live \cup {t}}
      /\ obj' = [obj EXCEPT ![o].send = t] \/ obj' = [obj EXCEPT ![o].recv = t]
      /\ inbox' = Tell(p, CreatedMsg(d, t))
      /\ run' = [run EXCEPT ![p] = Loop(o, None, d = "recv" /\ run[p].inRoom)]
      /\ queue' = queue
  BY DEF TransportCreated, AfterCreate
<1> HIDE DEF t, d, o
<1>5. /\ obj' \in [Objects -> State]
      /\ \A x \in Objects : IsFiniteSet(obj'[x].consumers)
  <2>1. [obj[o] EXCEPT !.send = t] \in State /\ [obj[o] EXCEPT !.recv = t] \in State
    BY <1>1, <1>3 DEF State, Maybe
  <2>2. \/ obj' = [obj EXCEPT ![o] = [obj[o] EXCEPT !.send = t]]
        \/ obj' = [obj EXCEPT ![o] = [obj[o] EXCEPT !.recv = t]]
    BY <1>4
  <2>3. /\ [obj[o] EXCEPT !.send = t].consumers = obj[o].consumers
        /\ [obj[o] EXCEPT !.recv = t].consumers = obj[o].consumers
    BY <1>1 DEF State
  <2>4. QED
    BY <1>1, <2>1, <2>2, <2>3 DEF ServerTypes, Typed
<1>6. run' \in [Peers -> Stage] /\ \A q \in Peers : StageOf(q)'
  BY <1>1, <1>4, LoopTypes DEF Maybe
<1>7. inbox' \in [Peers -> Seq(Message)]
  BY <1>2, <1>3, <1>4, TellType, MessageTypes
<1>8. opened' \in [Peers -> Nat] /\ live' \in SUBSET Transport
  BY <1>3, <1>4 DEF ServerTypes, Typed
<1>9. QED
  BY <1>4, <1>5, <1>6, <1>7, <1>8 DEF TransportCreated, ServerTypes, Typed

(* Produced. *)
LEMMA ProducedTypes ==
    ASSUME ServerTypes, NEW p \in Peers, Produced(p)
    PROVE  ServerTypes'
<1> DEFINE pr == Producer(Head(queue[p]).transport, Head(queue[p]).kind)
<1> DEFINE o == run[p].obj
<1>1. /\ queue[p] # <<>> /\ Head(queue[p]).type = "produce"
      /\ o \in Objects /\ o[1] = p /\ obj[o] \in State /\ run[p].inRoom \in BOOLEAN
  BY WaitingType DEF Produced, Waiting
<1>2. pr \in ProducerId
  BY <1>1, RunningType DEF Producer, ProducerId
<1>3. /\ obj' = [obj EXCEPT ![o].producers = @ \cup {pr}]
      /\ owners' \in {owners, owners \cup {pr}}
      /\ inbox' = Tell(p, ProducedMsg(pr))
      /\ run' = [run EXCEPT ![p] = Loop(o, pr, run[p].inRoom)]
      /\ queue' = queue
  BY DEF Produced, OwnersWith, AfterProduce
<1> HIDE DEF pr, o
<1>4. /\ obj' \in [Objects -> State]
      /\ \A x \in Objects : IsFiniteSet(obj'[x].consumers)
  BY <1>1, <1>2, <1>3 DEF ServerTypes, Typed, State
<1>5. run' \in [Peers -> Stage] /\ \A q \in Peers : StageOf(q)'
  BY <1>1, <1>2, <1>3, LoopTypes DEF Maybe
<1>6. inbox' \in [Peers -> Seq(Message)]
  BY <1>2, <1>3, TellType, MessageTypes
<1>7. QED
  BY <1>2, <1>3, <1>4, <1>5, <1>6 DEF Produced, ServerTypes, Typed

(* The peer state of a peer that is in the room. *)
LEMMA EntryType ==
    ASSUME ServerTypes, NEW p \in Peers, entry[p] # 0
    PROVE  Entry(p) \in Objects /\ Entry(p)[1] = p /\ obj[Entry(p)] \in State
<1>1. entry[p] \in 0 .. MaxObjects
  BY DEF ServerTypes, Typed
<1>2. Entry(p) \in Objects /\ Entry(p)[1] = p
  BY <1>1, BoundAssumption DEF Entry, Objects
<1>3. QED
  BY <1>2 DEF ServerTypes, Typed

(* The pairs a loop visits. *)
LEMMA ToVisitType ==
    ASSUME ServerTypes, NEW p \in Peers, run[p].pc = "loop"
    PROVE  ToVisit(p) \subseteq Visit
<1>1. run[p] \in Stage /\ run[p].obj \in Objects
  BY DEF ServerTypes, Typed, StageOf, Waiting, Looping
<1>2. \A q \in Others(p) : /\ q \in Peers /\ Entry(q) \in Objects
                          /\ obj[Entry(q)].producers \subseteq ProducerId
  BY EntryType DEF Others, State
<1>3. run[p].over # None => run[p].over \in ProducerId
  BY <1>1 DEF Stage, Maybe
<1>4. QED
  BY <1>1, <1>2, <1>3 DEF ToVisit, Visit, Pair

(* What StartConsume does to the stage. *)
LEMMA StartConsumeStage ==
    ASSUME ServerTypes, NEW p \in Peers, StartConsume(p)
    PROVE  \E v \in Wanted(p), past \in SUBSET (ToVisit(p) \ Wanted(p)) :
             /\ v \in Visit /\ past \subseteq Visit
             /\ obj[v.obj].recv \in Transport
             /\ run'[p].pc = "consume"
             /\ run'[p].seen = run[p].seen \cup past \cup {v}
             /\ run'[p].target = [obj |-> v.obj, producer |-> v.producer, recv |-> obj[v.obj].recv]
             /\ run'[p].obj = run[p].obj /\ run'[p].over = run[p].over
             /\ run'[p].inRoom = run[p].inRoom
             /\ run' = [run EXCEPT ![p] = run'[p]]
             /\ run'[p] \in Stage
<1> PICK v \in Wanted(p), past \in SUBSET (ToVisit(p) \ Wanted(p)) :
      run' = [run EXCEPT ![p].pc = "consume",
                         ![p].seen = @ \cup past \cup {v},
                         ![p].target = [obj |-> v.obj, producer |-> v.producer,
                                        recv |-> obj[v.obj].recv]]
  BY DEF StartConsume
<1> DEFINE w == [obj |-> v.obj, producer |-> v.producer, recv |-> obj[v.obj].recv]
<1> DEFINE s == [run[p] EXCEPT !.pc = "consume", !.seen = @ \cup past \cup {v}, !.target = w]
<1>1. v \in Visit /\ past \subseteq Visit
  BY ToVisitType DEF StartConsume, Wanted
<1>2. obj[v.obj].recv \in Transport
  <2>1. v.obj \in Objects /\ obj[v.obj].recv # None
    BY <1>1 DEF Wanted, Consumable, Visit
  <2>2. QED
    BY <2>1 DEF ServerTypes, Typed, State, Maybe
<1>3. w \in Target
  BY <1>1, <1>2 DEF Visit, Target
<1>4. run[p] \in Stage
  BY DEF ServerTypes, Typed
<1>5. run' = [run EXCEPT ![p] = s] /\ run'[p] = s
  <2>1. run \in [Peers -> Stage]
    BY DEF ServerTypes, Typed
  <2>2. QED
    BY <2>1
<1> HIDE DEF w
<1>6. s \in Stage /\ s.pc = "consume" /\ s.seen = run[p].seen \cup past \cup {v}
      /\ s.target = w /\ s.obj = run[p].obj /\ s.over = run[p].over /\ s.inRoom = run[p].inRoom
  BY <1>1, <1>3, <1>4 DEF Stage, Maybe, Looping
<1> HIDE DEF s
<1>7. QED
  BY <1>1, <1>2, <1>5, <1>6 DEF w

(* StartConsume. *)
LEMMA StartConsumeTypes ==
    ASSUME ServerTypes, NEW p \in Peers, StartConsume(p)
    PROVE  ServerTypes'
<1>1. PICK v \in Visit :
        /\ obj[v.obj].recv \in Transport
        /\ run'[p].pc = "consume"
        /\ run'[p].target = [obj |-> v.obj, producer |-> v.producer, recv |-> obj[v.obj].recv]
        /\ run'[p].obj = run[p].obj
        /\ run' = [run EXCEPT ![p] = run'[p]]
        /\ run'[p] \in Stage
  BY StartConsumeStage
<1>2. run'[p].target \in Target
  BY <1>1 DEF Visit, Target
<1>3. run[p].obj \in Objects /\ run[p].obj[1] = p /\ queue[p] # <<>> /\ queue' = queue
  BY DEF StartConsume, Ready, ServerTypes, StageOf, Looping
<1>4. StageOf(p)'
  BY <1>1, <1>2, <1>3 DEF StageOf, Running, Waiting, Looping
<1>5. run' \in [Peers -> Stage] /\ \A q \in Peers : StageOf(q)'
  BY <1>1, <1>3, <1>4, StageChange
<1>6. QED
  BY <1>5 DEF StartConsume, ServerTypes, Typed

(* What LoopOn does to the stage. *)
LEMMA LoopOnStage ==
    ASSUME ServerTypes, NEW p \in Peers, run[p].pc = "consume", LoopOn(p), queue' = queue
    PROVE  /\ run'[p].pc = "loop" /\ run'[p].target = None
           /\ run'[p].seen = run[p].seen
           /\ run'[p].obj = run[p].obj /\ run'[p].over = run[p].over
           /\ run'[p].inRoom = run[p].inRoom
           /\ \A q \in Peers \ {p} : run'[q] = run[q]
           /\ run' \in [Peers -> Stage]
           /\ \A q \in Peers : StageOf(q)'
<1> DEFINE s == [run[p] EXCEPT !.pc = "loop", !.target = None]
<1>1. run' = [run EXCEPT ![p] = s] /\ run'[p] = s /\ \A q \in Peers \ {p} : run'[q] = run[q]
  <2>1. run \in [Peers -> Stage]
    BY DEF ServerTypes, Typed
  <2>2. QED
    BY <2>1 DEF LoopOn
<1>2. run[p] \in Stage /\ StageOf(p)
  BY DEF ServerTypes, Typed
<1>3. s \in Stage /\ s.pc = "loop" /\ s.target = None /\ s.seen = run[p].seen
      /\ s.obj = run[p].obj /\ s.over = run[p].over /\ s.inRoom = run[p].inRoom
  BY <1>2 DEF Stage, Maybe, Looping
<1> HIDE DEF s
<1>4. StageOf(p)'
  BY <1>1, <1>2, <1>3, StageForms DEF StageOf, Running, Waiting, Looping
<1>5. QED
  BY <1>1, <1>3, <1>4, StageChange

(* ConsumeFailed. *)
LEMMA ConsumeFailedTypes ==
    ASSUME ServerTypes, NEW p \in Peers, ConsumeFailed(p)
    PROVE  ServerTypes'
<1>1. run' \in [Peers -> Stage] /\ \A q \in Peers : StageOf(q)'
  BY LoopOnStage DEF ConsumeFailed
<1>2. QED
  BY <1>1 DEF ConsumeFailed, ServerTypes, Typed

(* What a consumer is made for. *)
LEMMA TargetType ==
    ASSUME ServerTypes, NEW p \in Peers, run[p].pc = "consume"
    PROVE  /\ run[p].target.obj \in Objects /\ run[p].target.producer \in ProducerId
           /\ run[p].target.recv \in Transport
           /\ run[p].target.obj[1] \in Peers
  BY DEF ServerTypes, Typed, StageOf, Target, Objects

(* Consumed. *)
LEMMA ConsumedTypes ==
    ASSUME ServerTypes, NEW p \in Peers, Consumed(p)
    PROVE  ServerTypes'
<1> DEFINE o == run[p].target.obj
<1> DEFINE pr == run[p].target.producer
<1> DEFINE c == [producer |-> pr, copy |-> Copies(o, pr) + 1]
<1>1. o \in Objects /\ pr \in ProducerId /\ o[1] \in Peers
  BY TargetType DEF Consumed
<1>2. obj[o] \in State /\ IsFiniteSet(obj[o].consumers)
  BY <1>1 DEF ServerTypes, Typed
<1>3. c \in ConsumerId
  <2>1. IsFiniteSet({d \in obj[o].consumers : d.producer = pr})
    BY <1>2, FS_Subset
  <2>2. Copies(o, pr) \in Nat
    BY <2>1, FS_CardinalityType DEF Copies
  <2>3. QED
    BY <1>1, <2>2 DEF ConsumerId
<1>4. obj' = [obj EXCEPT ![o].consumers = @ \cup {c}] /\ inbox' = Tell(o[1], ConsumerMsg(c))
  BY DEF Consumed
<1> HIDE DEF o, pr, c
<1>5. /\ obj' \in [Objects -> State]
      /\ \A x \in Objects : IsFiniteSet(obj'[x].consumers)
  <2>1. IsFiniteSet(obj[o].consumers \cup {c})
    BY <1>2, FS_AddElement
  <2> DEFINE s == [obj[o] EXCEPT !.consumers = @ \cup {c}]
  <2>2. s \in State /\ s.consumers = obj[o].consumers \cup {c}
    BY <1>2, <1>3 DEF State
  <2>3. obj' = [obj EXCEPT ![o] = s]
    BY <1>4
  <2> HIDE DEF s
  <2>4. QED
    BY <1>1, <2>1, <2>2, <2>3 DEF ServerTypes, Typed
<1>6. inbox' \in [Peers -> Seq(Message)]
  BY <1>1, <1>3, <1>4, TellType, MessageTypes
<1>7. run' \in [Peers -> Stage] /\ \A q \in Peers : StageOf(q)'
  BY LoopOnStage DEF Consumed
<1>8. QED
  BY <1>5, <1>6, <1>7 DEF Consumed, ServerTypes, Typed

(* ProducerClose. *)
LEMMA ProducerCloseTypes ==
    ASSUME ServerTypes, NEW p \in Peers, ProducerClose(p)
    PROVE  ServerTypes'
<1> DEFINE o == Entry(p)
<1>1. o \in Objects /\ obj[o] \in State /\ IsFiniteSet(obj[o].consumers)
  BY EntryType DEF ProducerClose, Registered, ServerTypes, Typed
<1>2. IsFiniteSet(obj[o].consumers \ Orphans(o))
  BY <1>1, FS_Subset
<1>3. obj' = [obj EXCEPT ![o].consumers = @ \ Orphans(o)]
  BY DEF ProducerClose
<1> HIDE DEF o
<1>4. /\ obj' \in [Objects -> State]
      /\ \A x \in Objects : IsFiniteSet(obj'[x].consumers)
  BY <1>1, <1>2, <1>3 DEF ServerTypes, Typed, State
<1>5. \A q \in Peers : StageOf(q)'
  BY DEF ProducerClose, ServerTypes, StageOf, Running
<1>6. QED
  BY <1>4, <1>5 DEF ProducerClose, ServerTypes, Typed

-----------------------------------------------------------------------------
(* What a client may do to the server: between two events, it leaves or    *)
(* not, and chains operations.                                             *)

Leaves(p) == SfuLeave(p) /\ Registered(p)
Stays == UNCHANGED <<room, entry, obj, live, owners, run>>

ClientEffect(p) ==
    /\ Quiet
    /\ UNCHANGED <<pending, opened>>
    /\ Leaves(p) \/ Stays
    /\ \E ops \in Seq(Operation) : queue' = Enqueued(p, ops)
    /\ socket' \in [Peers -> {"open", "closed"}]
    /\ inbox' \in [Peers -> Seq(Message)]

(* A leave, or a message of a peer that is not in a call. *)
LEMMA LeaveOrStay ==
    ASSUME NEW p \in Peers, SfuLeave(p) \/ Stays
    PROVE  Leaves(p) \/ Stays
  BY DEF Leaves, Stays, SfuLeave

(* What a leave changes. *)
LEMMA LeaveFacts ==
    ASSUME ServerTypes, NEW p \in Peers, Leaves(p)
    PROVE  /\ Entry(p) \in Objects /\ entry[p] # 0 /\ room
           /\ entry' = [entry EXCEPT ![p] = 0]
           /\ obj' = [obj EXCEPT ![Entry(p)] = obj'[Entry(p)]]
           /\ obj'[Entry(p)] \in State
           /\ obj'[Entry(p)].producers = {} /\ obj'[Entry(p)].consumers = {}
           /\ obj'[Entry(p)].send \in {None, obj[Entry(p)].send}
           /\ obj'[Entry(p)].recv \in {None, obj[Entry(p)].recv}
           /\ \/ /\ Others(p) = {} /\ room' = FALSE /\ live' = {} /\ owners' = {}
                 /\ run' = [q \in Peers |-> [run[q] EXCEPT !.inRoom = FALSE]]
              \/ /\ Others(p) # {} /\ UNCHANGED <<room, run>>
                 /\ live' = live \ {obj[Entry(p)].send, obj[Entry(p)].recv}
                 /\ owners' = {pr \in owners :
                                 /\ pr.transport \notin {obj[Entry(p)].send, obj[Entry(p)].recv}
                                 /\ pr \notin obj[Entry(p)].producers}
<1>1. Registered(p) /\ entry[p] # 0 /\ room
  BY DEF Leaves, Registered
<1>2. Entry(p) \in Objects /\ obj[Entry(p)] \in State
  BY <1>1, EntryType
<1> DEFINE s == IF Referenced(Entry(p)) THEN [obj[Entry(p)] EXCEPT !.producers = {}, !.consumers = {}]
                ELSE Blank
<1>3. obj' = [obj EXCEPT ![Entry(p)] = s]
  BY <1>1 DEF Leaves, SfuLeave
<1>4. /\ s \in State /\ s.producers = {} /\ s.consumers = {}
      /\ s.send \in {None, obj[Entry(p)].send} /\ s.recv \in {None, obj[Entry(p)].recv}
  BY <1>2 DEF State, Blank, Maybe
<1> HIDE DEF s
<1>5. obj'[Entry(p)] = s
  BY <1>2, <1>3 DEF ServerTypes, Typed
<1>6. entry' = [entry EXCEPT ![p] = 0]
  BY <1>1 DEF Leaves, SfuLeave
<1>7. \/ /\ Others(p) = {} /\ room' = FALSE /\ live' = {} /\ owners' = {}
         /\ run' = [q \in Peers |-> [run[q] EXCEPT !.inRoom = FALSE]]
      \/ /\ Others(p) # {} /\ UNCHANGED <<room, run>>
         /\ live' = live \ {obj[Entry(p)].send, obj[Entry(p)].recv}
         /\ owners' = {pr \in owners :
                         /\ pr.transport \notin {obj[Entry(p)].send, obj[Entry(p)].recv}
                         /\ pr \notin obj[Entry(p)].producers}
  BY <1>1 DEF Leaves, SfuLeave, LastLeaver, OwnersAfterLeave, Current
<1>8. QED
  BY <1>1, <1>2, <1>3, <1>4, <1>5, <1>6, <1>7

(* A leave changes of the stages only whether their room is still the room of the map. *)
LEMMA LeaveStages ==
    ASSUME ServerTypes, NEW p \in Peers, Leaves(p) \/ Stays
    PROVE  /\ run' \in [Peers -> Stage]
           /\ \A q \in Peers :
                /\ run'[q].pc = run[q].pc /\ run'[q].obj = run[q].obj
                /\ run'[q].over = run[q].over /\ run'[q].seen = run[q].seen
                /\ run'[q].target = run[q].target
                /\ run'[q].inRoom \in {FALSE, run[q].inRoom}
                /\ run[q] = Idle => run'[q] = Idle
<1>1. run \in [Peers -> Stage]
  BY DEF ServerTypes, Typed
<1>2. CASE UNCHANGED run
  BY <1>1, <1>2
<1>3. CASE run' = [q \in Peers |-> [run[q] EXCEPT !.inRoom = FALSE]]
  <2>1. ASSUME NEW q \in Peers
        PROVE  /\ run'[q] \in Stage
               /\ run'[q].pc = run[q].pc /\ run'[q].obj = run[q].obj
               /\ run'[q].over = run[q].over /\ run'[q].seen = run[q].seen
               /\ run'[q].target = run[q].target
               /\ run'[q].inRoom = FALSE
    <3>1. run'[q] = [run[q] EXCEPT !.inRoom = FALSE] /\ run[q] \in Stage
      BY <1>1, <1>3
    <3>2. QED
      BY <3>1 DEF Stage
  <2>2. ASSUME NEW q \in Peers, run[q] = Idle PROVE run'[q] = Idle
    <3>1. run'[q] = [Idle EXCEPT !.inRoom = FALSE]
      BY <1>3, <2>2
    <3>2. QED
      BY <3>1 DEF Idle
  <2>3. QED
    BY <1>3, <2>1, <2>2
<1>4. QED
  BY <1>2, <1>3, LeaveFacts DEF Stays

(* Operations chained behind those that are not finished. *)
LEMMA EnqueuedTypes ==
    ASSUME ServerTypes, NEW p \in Peers, NEW ops \in Seq(Operation), queue' = Enqueued(p, ops)
    PROVE  /\ queue' \in [Peers -> Seq(Operation)]
           /\ \A q \in Peers : queue[q] # <<>> =>
                queue'[q] # <<>> /\ Head(queue'[q]) = Head(queue[q])
           /\ \A q \in Peers : queue'[q] = <<>> => queue[q] = <<>>
<1>1. queue \in [Peers -> Seq(Operation)]
  BY DEF ServerTypes, Typed
<1>2. queue[p] \o ops \in Seq(Operation)
  BY <1>1
<1>3. queue' = [queue EXCEPT ![p] = queue[p] \o ops]
  BY DEF Enqueued
<1>4. queue[p] # <<>> => queue[p] \o ops # <<>> /\ Head(queue[p] \o ops) = Head(queue[p])
  <2> SUFFICES ASSUME queue[p] # <<>>
               PROVE  queue[p] \o ops # <<>> /\ Head(queue[p] \o ops) = Head(queue[p])
    OBVIOUS
  <2>1. Len(queue[p]) > 0 /\ Len(queue[p] \o ops) = Len(queue[p]) + Len(ops)
    BY <1>1
  <2>2. (queue[p] \o ops)[1] = queue[p][1]
    BY <1>1, <2>1
  <2>3. QED
    BY <1>1, <1>2, <2>1, <2>2
<1>5. QED
  BY <1>1, <1>2, <1>3, <1>4

(* Clients keep the server typed. *)
LEMMA ClientEffectTypes ==
    ASSUME ServerTypes, NEW p \in Peers, ClientEffect(p)
    PROVE  ServerTypes'
<1>1. /\ queue' \in [Peers -> Seq(Operation)]
      /\ \A q \in Peers : queue[q] # <<>> => queue'[q] # <<>> /\ Head(queue'[q]) = Head(queue[q])
      /\ \A q \in Peers : queue'[q] = <<>> => queue[q] = <<>>
  BY EnqueuedTypes DEF ClientEffect
<1>2. ASSUME NEW q \in Peers PROVE StageOf(q)'
  <2>1. StageOf(q)
    BY DEF ServerTypes
  <2>2. /\ run'[q].pc = run[q].pc /\ run'[q].obj = run[q].obj /\ run'[q].target = run[q].target
        /\ run[q] = Idle => run'[q] = Idle
    BY LeaveStages DEF ClientEffect
  <2>3. QED
    BY <1>1, <2>1, <2>2 DEF StageOf, Running
<1>3. /\ entry' \in [Peers -> 0 .. MaxObjects] /\ obj' \in [Objects -> State]
      /\ \A o \in Objects : IsFiniteSet(obj'[o].consumers)
      /\ room' \in BOOLEAN
      /\ live' \in SUBSET Transport /\ owners' \in SUBSET ProducerId
  <2>1. CASE Stays
    BY <2>1 DEF Stays, ServerTypes, Typed
  <2>2. CASE Leaves(p)
    <3>1. entry' \in [Peers -> 0 .. MaxObjects]
      <4>1. entry' = [entry EXCEPT ![p] = 0] /\ entry \in [Peers -> 0 .. MaxObjects]
        BY <2>2, LeaveFacts DEF ServerTypes, Typed
      <4>2. 0 \in 0 .. MaxObjects
        BY BoundAssumption
      <4>3. QED
        BY <4>1, <4>2
    <3>2. obj' \in [Objects -> State] /\ \A o \in Objects : IsFiniteSet(obj'[o].consumers)
      BY <2>2, LeaveFacts, FS_EmptySet DEF ServerTypes, Typed
    <3>3. room' \in BOOLEAN /\ live' \in SUBSET Transport /\ owners' \in SUBSET ProducerId
      BY <2>2, LeaveFacts DEF ServerTypes, Typed
    <3>4. QED
      BY <3>1, <3>2, <3>3
  <2>3. QED
    BY <2>1, <2>2 DEF ClientEffect
<1>4. QED
  BY <1>1, <1>2, <1>3, LeaveStages DEF ClientEffect, ServerTypes, Typed

(* Reading keeps the channels typed, and shows a typed message. *)
LEMMA ReadTypes ==
    ASSUME ServerTypes, NEW p \in Peers, NEW type, Reading(p, type), Read(p)
    PROVE  /\ inbox' \in [Peers -> Seq(Message)]
           /\ type = "created" => /\ Head(inbox[p]).dir \in {"send", "recv"}
                                  /\ Head(inbox[p]).transport \in Transport
           /\ type = "produced" => Head(inbox[p]).producer \in ProducerId
           /\ type = "consumer" => Head(inbox[p]).consumer \in ConsumerId
<1>1. inbox[p] \in Seq(Message) /\ inbox[p] # <<>> /\ Head(inbox[p]).type = type
  BY DEF Reading, ServerTypes, Typed
<1>2. Head(inbox[p]) \in Message /\ Tail(inbox[p]) \in Seq(Message)
  BY <1>1
<1>3. inbox' \in [Peers -> Seq(Message)]
  BY <1>2 DEF Read, ServerTypes, Typed
<1>4. QED
  BY <1>1, <1>2, <1>3 DEF Message

(* No operation, one, or several. *)
LEMMA EnqueueForms ==
    ASSUME ServerTypes, NEW p \in Peers
    PROVE  /\ UNCHANGED queue => \E ops \in Seq(Operation) : queue' = Enqueued(p, ops)
           /\ \A a \in Operation : queue' = Enqueued(p, <<a>>) =>
                \E ops \in Seq(Operation) : queue' = Enqueued(p, ops)
<1>1. queue \in [Peers -> Seq(Operation)]
  BY DEF ServerTypes, Typed
<1>2. queue[p] \o <<>> = queue[p]
  BY <1>1
<1>3. Enqueued(p, <<>>) = queue /\ <<>> \in Seq(Operation)
  BY <1>1, <1>2 DEF Enqueued
<1>4. \A a \in Operation : <<a>> \in Seq(Operation)
  OBVIOUS
<1>5. QED
  BY <1>3, <1>4

(* The operations a client asks for. *)
LEMMA OperationTypes ==
    /\ \A c \in BOOLEAN : JoinOp(c) \in Operation
    /\ \A d \in {"send", "recv"} : CreateOp(d) \in Operation
    /\ \A t \in Transport, k \in Kinds : ProduceOp(t, k) \in Operation
    /\ \A c \in ConsumerId : ResumeOp(c) \in Operation
  BY DEF Operation, JoinOp, CreateOp, ProduceOp, ResumeOp

(* cleanupCallResources. *)
LEMMA CleanupFacts ==
    ASSUME Types, NEW p \in Peers, Cleanup(p)
    PROVE  /\ Leaves(p) \/ Stays
           /\ inCall' \in [Peers -> BOOLEAN]
           /\ device' \in [Peers -> BOOLEAN]
           /\ sendTr' \in [Peers -> Maybe(Transport)]
           /\ recvTr' \in [Peers -> Maybe(Transport)]
           /\ callbacks' \in [Peers -> Seq(ProducerId)]
           /\ \A q \in Peers : callbacks'[q] # <<>> => sendTr'[q] # None
<1>1. Leaves(p) \/ Stays
  BY LeaveOrStay DEF Cleanup, Stays
<1>2. <<>> \in Seq(ProducerId)
  OBVIOUS
<1>3. QED
  BY <1>1, <1>2 DEF Cleanup, CallbacksAfterCleanup, Types, ClientTypes, Maybe

(* Whatever a client does, the server sees one of its effects, and the client is typed. *)
LEMMA ClientStepTypes ==
    ASSUME Types, NEW p \in Peers, ClientStep(p)
    PROVE  ClientEffect(p) /\ ClientTypes'
<1> USE DEF Awake
<1>1. CASE StartCall(p)
  <2>1. \E ops \in Seq(Operation) : queue' = Enqueued(p, ops)
    BY <1>1, EnqueueForms, OperationTypes DEF StartCall, Types
  <2>2. QED
    BY <1>1, <2>1 DEF StartCall, ClientEffect, Stays, Types, ServerTypes, Typed, ClientTypes
<1>2. CASE Hangup(p)
  <2>1. \E ops \in Seq(Operation) : queue' = Enqueued(p, ops)
    BY <1>2, EnqueueForms DEF Hangup, Types
  <2>2. QED
    BY <1>2, <2>1, CleanupFacts DEF Hangup, ClientEffect, Types, ServerTypes, Typed, ClientTypes
<1>3. CASE DismissError(p)
  <2>1. \E ops \in Seq(Operation) : queue' = Enqueued(p, ops)
    BY <1>3, EnqueueForms DEF DismissError, Types
  <2>2. QED
    BY <1>3, <2>1, CleanupFacts DEF DismissError, ClientEffect, Types, ServerTypes, Typed, ClientTypes
<1>4. CASE ReadCaps(p)
  <2>1. inbox' \in [Peers -> Seq(Message)]
    BY <1>4, ReadTypes DEF ReadCaps, Types
  <2>2. \E ops \in Seq(Operation) : queue' = Enqueued(p, ops)
    <3>1. CASE UNCHANGED queue
      BY <3>1, EnqueueForms DEF Types
    <3>2. CASE queue' = Enqueued(p, <<JoinOp(TRUE), CreateOp("send"), CreateOp("recv")>>)
      <4>1. JoinOp(TRUE) \in Operation /\ CreateOp("send") \in Operation /\ CreateOp("recv") \in Operation
        BY OperationTypes
      <4>2. <<JoinOp(TRUE), CreateOp("send"), CreateOp("recv")>> \in Seq(Operation)
        <5>1. \A a, b, c \in Operation : <<a, b, c>> \in Seq(Operation)
          OBVIOUS
        <5>2. QED
          BY <4>1, <5>1
      <4>3. QED
        BY <3>2, <4>2
    <3>3. QED
      BY <1>4, <3>1, <3>2 DEF ReadCaps
  <2>3. QED
    BY <1>4, <2>1, <2>2
       DEF ReadCaps, Reading, Untouched, ClientEffect, Stays, Types, ServerTypes, Typed, ClientTypes
<1>5. CASE ReadCreated(p)
  <2> DEFINE m == Head(inbox[p])
  <2>1. inbox' \in [Peers -> Seq(Message)] /\ m.transport \in Transport
    BY <1>5, ReadTypes DEF ReadCreated, Types
  <2>2. /\ ProduceOp(m.transport, "audio") \in Operation
        /\ Producer(m.transport, "audio") \in ProducerId
    BY <2>1, OperationTypes, KindsAssumption DEF Producer, ProducerId
  <2>3. \E ops \in Seq(Operation) : queue' = Enqueued(p, ops)
    BY <1>5, <2>2, EnqueueForms DEF ReadCreated, Types
  <2>4. ClientEffect(p)
    BY <1>5, <2>1, <2>3
       DEF ReadCreated, Reading, Untouched, ClientEffect, Stays, Types, ServerTypes, Typed
  <2>5. /\ sendTr' \in {sendTr, [sendTr EXCEPT ![p] = m.transport]}
        /\ recvTr' \in {recvTr, [recvTr EXCEPT ![p] = m.transport]}
        /\ \/ callbacks' = callbacks
           \/ /\ callbacks' = [callbacks EXCEPT ![p] = Append(@, Producer(m.transport, "audio"))]
              /\ sendTr' = [sendTr EXCEPT ![p] = m.transport]
        /\ UNCHANGED <<screen, inCall, device>>
    BY <1>5 DEF ReadCreated
  <2>6. Append(callbacks[p], Producer(m.transport, "audio")) \in Seq(ProducerId)
    BY <2>2 DEF Types, ClientTypes
  <2>7. m.transport # None
    BY <2>1, NoneAssumption DEF Transport
  <2> HIDE DEF m
  <2>8. QED
    BY <2>1, <2>4, <2>5, <2>6, <2>7, ZenonT(60) DEF Types, ClientTypes, Maybe
<1>6. CASE ReadProduced(p)
  <2> DEFINE pr == Head(callbacks[p])
  <2> DEFINE rest == Tail(callbacks[p])
  <2>1. inbox' \in [Peers -> Seq(Message)]
    BY <1>6, ReadTypes DEF ReadProduced, Types
  <2>2. CASE callbacks[p] = <<>>
    <3>1. \E ops \in Seq(Operation) : queue' = Enqueued(p, ops)
      BY <1>6, <2>2, EnqueueForms DEF ReadProduced, Types
    <3>2. QED
      BY <1>6, <2>1, <2>2, <3>1
         DEF ReadProduced, Reading, Untouched, ClientEffect, Stays, Types, ServerTypes, Typed, ClientTypes
  <2>3. CASE callbacks[p] # <<>>
    <3>1. pr \in ProducerId /\ rest \in Seq(ProducerId)
      BY <2>3 DEF Types, ClientTypes
    <3> HIDE DEF pr, rest
    <3>2. CASE /\ "video" \in Kinds
               /\ callbacks' = [callbacks EXCEPT ![p] = Append(rest, Producer(pr.transport, "video"))]
               /\ queue' = Enqueued(p, <<ProduceOp(pr.transport, "video")>>)
      <4>1. /\ ProduceOp(pr.transport, "video") \in Operation
            /\ Producer(pr.transport, "video") \in ProducerId
        BY <3>1, <3>2, OperationTypes DEF Producer, ProducerId
      <4>2. Append(rest, Producer(pr.transport, "video")) \in Seq(ProducerId)
        BY <3>1, <4>1
      <4>3. \E ops \in Seq(Operation) : queue' = Enqueued(p, ops)
        BY <3>2, <4>1, EnqueueForms DEF Types
      <4>4. QED
        BY <1>6, <2>1, <2>3, <3>2, <4>2, <4>3
           DEF ReadProduced, Reading, Untouched, ClientEffect, Stays, Types, ServerTypes, Typed, ClientTypes
    <3>3. CASE callbacks' = [callbacks EXCEPT ![p] = rest] /\ UNCHANGED queue
      <4>1. \E ops \in Seq(Operation) : queue' = Enqueued(p, ops)
        BY <3>3, EnqueueForms DEF Types
      <4>2. QED
        BY <1>6, <2>1, <2>3, <3>1, <3>3, <4>1
           DEF ReadProduced, Reading, Untouched, ClientEffect, Stays, Types, ServerTypes, Typed, ClientTypes
    <3>4. QED
      BY <1>6, <2>3, <3>2, <3>3 DEF ReadProduced, Resolved, pr, rest
  <2>4. QED
    BY <2>2, <2>3
<1>7. CASE ProduceTimeout(p)
  <2>1. \E ops \in Seq(Operation) : queue' = Enqueued(p, ops)
    BY <1>7, EnqueueForms DEF ProduceTimeout, Types
  <2>2. CASE screen' = [screen EXCEPT ![p] = "error"] /\ Cleanup(p)
    BY <1>7, <2>1, <2>2, CleanupFacts
       DEF ProduceTimeout, ClientEffect, Types, ServerTypes, Typed, ClientTypes
  <2>3. CASE /\ callbacks' = [callbacks EXCEPT ![p] = Tail(@)]
             /\ UNCHANGED <<room, entry, obj, live, owners, run, screen, inCall, device, sendTr, recvTr>>
    <3>1. Tail(callbacks[p]) \in Seq(ProducerId) /\ callbacks[p] # <<>>
      BY <1>7 DEF ProduceTimeout, Types, ClientTypes
    <3>2. QED
      BY <1>7, <2>1, <2>3, <3>1
         DEF ProduceTimeout, ClientEffect, Stays, Types, ServerTypes, Typed, ClientTypes
  <2>4. QED
    BY <1>7, <2>2, <2>3 DEF ProduceTimeout
<1>8. CASE ReadConsumer(p)
  <2>1. inbox' \in [Peers -> Seq(Message)] /\ Head(inbox[p]).consumer \in ConsumerId
    BY <1>8, ReadTypes DEF ReadConsumer, Types
  <2>2. \E ops \in Seq(Operation) : queue' = Enqueued(p, ops)
    BY <1>8, <2>1, EnqueueForms, OperationTypes DEF ReadConsumer, Types
  <2>3. QED
    BY <1>8, <2>1, <2>2
       DEF ReadConsumer, Reading, Untouched, clientVars, ClientEffect, Stays, Types, ServerTypes, Typed,
           ClientTypes
<1>9. CASE ReadError(p)
  <2>1. inbox' \in [Peers -> Seq(Message)]
    BY <1>9, ReadTypes DEF ReadError, Types
  <2>2. \E ops \in Seq(Operation) : queue' = Enqueued(p, ops)
    BY <1>9, EnqueueForms DEF ReadError, Types
  <2>3. CASE screen[p] # "error" /\ Cleanup(p)
    BY <1>9, <2>1, <2>2, <2>3, CleanupFacts
       DEF ReadError, Reading, ClientEffect, Types, ServerTypes, Typed, ClientTypes
  <2>4. CASE UNCHANGED <<room, entry, obj, live, owners, run, inCall, device, sendTr, recvTr, callbacks>>
    BY <1>9, <2>1, <2>2, <2>4
       DEF ReadError, Reading, ClientEffect, Stays, Types, ServerTypes, Typed, ClientTypes
  <2>5. QED
    BY <1>9, <2>3, <2>4 DEF ReadError
<1>10. CASE CloseSocket(p)
  <2>1. \E ops \in Seq(Operation) : queue' = Enqueued(p, ops)
    BY <1>10, EnqueueForms DEF CloseSocket, Close, Types
  <2>2. Leaves(p) \/ Stays
    BY <1>10, LeaveOrStay DEF CloseSocket, Close
  <2>3. <<>> \in Seq(Message)
    OBVIOUS
  <2>4. QED
    BY <1>10, <2>1, <2>2, <2>3
       DEF CloseSocket, Close, clientVars, ClientEffect, Types, ServerTypes, Typed, ClientTypes
<1>11. QED
  BY <1>1, <1>2, <1>3, <1>4, <1>5, <1>6, <1>7, <1>8, <1>9, <1>10 DEF ClientStep

(* The initial state is typed. *)
LEMMA InitTypes ==
    ASSUME Init
    PROVE  Types
<1>1. Blank \in State /\ IsFiniteSet(Blank.consumers)
  BY FS_EmptySet DEF Blank, State, Maybe
<1>2. <<>> \in Seq(Operation) /\ <<>> \in Seq(Message) /\ <<>> \in Seq(ProducerId)
  OBVIOUS
<1>3. Typed
  <2>1. /\ socket \in [Peers -> {"open", "closed"}] /\ room \in BOOLEAN /\ pending \in BOOLEAN
        /\ entry \in [Peers -> 0 .. MaxObjects] /\ opened \in [Peers -> Nat]
        /\ live \in SUBSET Transport /\ owners \in SUBSET ProducerId
    <3>1. 0 \in 0 .. MaxObjects
      BY BoundAssumption
    <3>2. entry = [p \in Peers |-> 0] /\ opened = [p \in Peers |-> 0]
      BY DEF Init, ServerInit
    <3>3. entry \in [Peers -> 0 .. MaxObjects] /\ opened \in [Peers -> Nat]
      BY <3>1, <3>2
    <3>4. QED
      BY <3>3 DEF Init, ServerInit
  <2>2. obj \in [Objects -> State] /\ \A o \in Objects : IsFiniteSet(obj[o].consumers)
    BY <1>1 DEF Init, ServerInit
  <2>3. queue \in [Peers -> Seq(Operation)] /\ inbox \in [Peers -> Seq(Message)]
    BY <1>2 DEF Init, ServerInit
  <2>4. run \in [Peers -> Stage]
    BY StageTypes DEF Init, ServerInit
  <2>5. QED
    BY <2>1, <2>2, <2>3, <2>4 DEF Typed
<1>4. \A p \in Peers : StageOf(p)
  BY StageForms DEF Init, ServerInit, StageOf, Waiting, Looping
<1>5. ClientTypes
  BY <1>2 DEF Init, ClientTypes, Maybe
<1>6. QED
  BY <1>3, <1>4, <1>5 DEF Types, ServerTypes

(* The server's part of a step. *)
LEMMA ServerNextTypes ==
    ASSUME ServerTypes, ServerNext
    PROVE  ServerTypes'
<1>1. CASE RoomCreated
  BY <1>1, RoomCreatedTypes
<1>2. CASE RoomFailed
  BY <1>2, RoomFailedTypes
<1>3. ASSUME NEW p \in Peers, ServerStep(p) PROVE ServerTypes'
  BY <1>3, StartJoinTypes, FinishJoinTypes, StartCreateTypes, TransportCreatedTypes, StartOnOwnTypes,
     SettledTypes, ProducedTypes, RejectedTypes, StartConsumeTypes, FinishLoopTypes, ConsumedTypes,
     ConsumeFailedTypes, ProducerCloseTypes DEF ServerStep
<1>4. QED
  BY <1>1, <1>2, <1>3 DEF ServerNext

(* Every step keeps the types. *)
LEMMA NextTypes ==
    ASSUME Types, [Next]_vars
    PROVE  Types'
<1>1. CASE ServerNext /\ UNCHANGED clientVars
  BY <1>1, ServerNextTypes DEF Types, ClientTypes, clientVars
<1>2. ASSUME NEW p \in Peers, ClientStep(p) PROVE Types'
  BY <1>2, ClientStepTypes, ClientEffectTypes DEF Types
<1>3. CASE UNCHANGED vars
  BY <1>3 DEF vars, serverVars, clientVars, Types, ServerTypes, Typed, StageOf, Running, ClientTypes
<1>4. QED
  BY <1>1, <1>2, <1>3 DEF Next

(***************************************************************************)
(* The types hold: every number of a peer state is within the bound, the   *)
(* transports mediasoup has open and the producers producerOwners knows    *)
(* are ones the server made, and a peer whose queue has run dry has no     *)
(* operation under way.                                                    *)
(***************************************************************************)
THEOREM TypesHold == Spec => []Types
  BY InitTypes, NextTypes, PTL DEF Spec

(* The type invariant the runs check. *)
THEOREM TypeCorrect == Spec => []TypeOK
<1>1. Types => TypeOK
  BY DEF Types, ServerTypes, Typed, StageOf, ClientTypes, TypeOK, ProducerId
<1>2. QED
  BY <1>1, TypesHold, PTL

-----------------------------------------------------------------------------
(* The room of the map.                                                    *)

(* A step of p leaves the other peers' operations where they are. *)
LEMMA OwnStep ==
    ASSUME ServerTypes, NEW p \in Peers, ServerStep(p)
    PROVE  \A q \in Peers \ {p} : run'[q] = run[q] /\ queue'[q] = queue[q] /\ entry'[q] = entry[q]
<1>1. run \in [Peers -> Stage] /\ queue \in [Peers -> Seq(Operation)] /\ entry \in [Peers -> 0 .. MaxObjects]
  BY DEF ServerTypes, Typed
<1>2. ASSUME Finish(p) PROVE \A q \in Peers \ {p} : run'[q] = run[q] /\ queue'[q] = queue[q]
  BY <1>1, <1>2 DEF Finish
<1>3. CASE StartJoin(p) \/ FinishJoin(p)
  BY <1>1, <1>3 DEF StartJoin, FinishJoin
<1>4. CASE StartCreate(p) \/ TransportCreated(p) \/ StartOnOwn(p)
  BY <1>1, <1>2, <1>4 DEF StartCreate, TransportCreated, StartOnOwn, Throw
<1>5. CASE Settled(p) \/ Produced(p) \/ Rejected(p) \/ FinishLoop(p) \/ ProducerClose(p)
  BY <1>1, <1>2, <1>5 DEF Settled, Produced, Rejected, Throw, FinishLoop, ProducerClose
<1>6. CASE StartConsume(p)
  <2>1. run' = [run EXCEPT ![p] = run'[p]]
    BY <1>6, StartConsumeStage
  <2>2. QED
    BY <1>1, <1>6, <2>1 DEF StartConsume
<1>7. CASE Consumed(p) \/ ConsumeFailed(p)
  BY <1>1, <1>7, LoopOnStage DEF Consumed, ConsumeFailed
<1>8. QED
  BY <1>3, <1>4, <1>5, <1>6, <1>7 DEF ServerStep

(* Only the joins touch the room, its peers and those that wait for it. *)
LEMMA NotAJoin ==
    ASSUME ServerTypes, NEW p \in Peers, ServerStep(p), ~StartJoin(p), ~FinishJoin(p)
    PROVE  /\ UNCHANGED <<room, pending, entry>>
           /\ \A q \in Peers : run'[q].pc = "room" <=> run[q].pc = "room"
           /\ \A q \in Peers : run'[q].pc = "woken" <=> run[q].pc = "woken"
<1>1. run \in [Peers -> Stage]
  BY DEF ServerTypes, Typed
<1>2. UNCHANGED <<room, pending, entry>>
  BY DEF ServerStep, StartCreate, TransportCreated, StartOnOwn, Settled, Produced, Rejected,
         StartConsume, FinishLoop, Consumed, ConsumeFailed, ProducerClose
<1>3. ASSUME Finish(p) PROVE run'[p].pc = "idle"
  BY <1>1, <1>3, StageForms DEF Finish
<1>4. UNCHANGED run \/ (run[p].pc \notin {"room", "woken"} /\ run'[p].pc \notin {"room", "woken"})
  <2>1. CASE StartCreate(p) \/ TransportCreated(p) \/ StartOnOwn(p) \/ Produced(p)
    <3>1. CASE StartCreate(p)
      BY <1>1, <1>3, <3>1, StageForms DEF StartCreate, Throw
    <3>2. CASE TransportCreated(p)
      BY <1>1, <3>2, StageForms DEF TransportCreated, AfterCreate
    <3>3. CASE StartOnOwn(p)
      BY <1>1, <1>3, <3>3, StageForms DEF StartOnOwn, Throw
    <3>4. CASE Produced(p)
      BY <1>1, <3>4, StageForms DEF Produced, AfterProduce
    <3>5. QED
      BY <2>1, <3>1, <3>2, <3>3, <3>4
  <2>2. CASE Settled(p) \/ Rejected(p) \/ FinishLoop(p)
    BY <1>3, <2>2 DEF Settled, Rejected, Throw, FinishLoop
  <2>3. CASE StartConsume(p)
    BY <2>3, StartConsumeStage DEF StartConsume
  <2>4. CASE Consumed(p) \/ ConsumeFailed(p)
    BY <2>4, LoopOnStage DEF Consumed, ConsumeFailed
  <2>5. CASE ProducerClose(p)
    BY <2>5 DEF ProducerClose
  <2>6. QED
    BY <2>1, <2>2, <2>3, <2>4, <2>5 DEF ServerStep
<1>5. QED
  BY <1>2, <1>4, OwnStep

(* Between two events nobody has just been woken. *)
LEMMA QuietStages ==
    ASSUME ServerTypes, Quiet
    PROVE  \A q \in Peers : run[q].pc # "woken" /\ run[q].pc # "loop"
  BY StageForms DEF Quiet, Ready, ServerTypes, StageOf

(* The server keeps the room's invariant. *)
LEMMA ServerRoom ==
    ASSUME ServerTypes, RoomInv, ServerNext
    PROVE  RoomInv'
<1> USE DEF RoomInv, Awaiting
<1>1. run \in [Peers -> Stage] /\ entry \in [Peers -> 0 .. MaxObjects]
  BY DEF ServerTypes, Typed
<1>2. CASE RoomCreated
  <2>1. \A q \in Peers : run'[q] = IF q \in Awaiting THEN Holding("woken", None) ELSE run[q]
    BY <1>2 DEF RoomCreated
  <2>2. PICK q \in Awaiting : TRUE
    BY <1>2 DEF RoomCreated
  <2>3. run'[q].pc = "woken"
    BY <2>1, <2>2, StageForms
  <2>4. \A r \in Peers : run'[r].pc # "room"
    BY <2>1, StageForms
  <2>5. QED
    BY <1>2, <2>2, <2>3, <2>4 DEF RoomCreated
<1>3. CASE RoomFailed
  <2>1. \A q \in Peers : run'[q] = IF q \in Awaiting THEN Idle ELSE run[q]
    BY <1>3 DEF RoomFailed
  <2>2. \A r \in Peers : run'[r].pc # "room"
    BY <2>1, StageForms
  <2>3. room' = room /\ entry' = entry /\ pending' = FALSE /\ ~room
    BY <1>3 DEF RoomFailed
  <2>4. QED
    BY <2>2, <2>3
<1>4. ASSUME NEW p \in Peers, StartJoin(p) PROVE RoomInv'
  <2>1. run'[p].pc = "room" /\ \A q \in Peers \ {p} : run'[q] = run[q]
    <3>1. run' = [run EXCEPT ![p] = [Idle EXCEPT !.pc = "room"]]
      BY <1>4 DEF StartJoin
    <3>2. [Idle EXCEPT !.pc = "room"].pc = "room"
      BY DEF Idle
    <3>3. QED
      BY <1>1, <3>1, <3>2
  <2>2. ~room /\ pending' = TRUE /\ UNCHANGED <<room, entry>>
    BY <1>4 DEF StartJoin
  <2>3. QED
    BY <2>1, <2>2
<1>5. ASSUME NEW p \in Peers, FinishJoin(p) PROVE RoomInv'
  <2> DEFINE o == JoinedState(p, Head(queue[p]).caps)[1]
  <2>1. run' = [run EXCEPT ![p] = Loop(o, None, TRUE)] /\ entry' = [entry EXCEPT ![p] = o[2]]
        /\ room /\ UNCHANGED <<room, pending>>
    BY <1>5 DEF FinishJoin
  <2>2. o[2] # 0
    <3>1. CASE entry[p] # 0
      BY <3>1 DEF JoinedState, Entry
    <3>2. CASE entry[p] = 0
      <4> DEFINE n == CHOOSE m \in Unused(p) : TRUE
      <4>1. n \in 1 .. MaxObjects
        BY <1>5, <3>2 DEF FinishJoin, Unused
      <4>2. o[2] = n
        BY <3>2 DEF JoinedState
      <4> HIDE DEF o, n
      <4>3. QED
        BY <4>1, <4>2, BoundAssumption
    <3>3. QED
      BY <3>1, <3>2
  <2> HIDE DEF o
  <2>3. entry'[p] # 0 /\ ~pending /\ \A q \in Peers : run'[q].pc = "room" => run[q].pc = "room"
    BY <1>1, <2>1, <2>2, StageForms
  <2>4. QED
    BY <2>1, <2>3
<1>6. ASSUME NEW p \in Peers, ServerStep(p), ~StartJoin(p), ~FinishJoin(p) PROVE RoomInv'
  <2>1. /\ UNCHANGED <<room, pending, entry>>
        /\ \A q \in Peers : run'[q].pc = "room" <=> run[q].pc = "room"
        /\ \A q \in Peers : run'[q].pc = "woken" <=> run[q].pc = "woken"
    BY <1>6, NotAJoin
  <2>2. QED
    BY <2>1
<1>7. QED
  BY <1>2, <1>3, <1>4, <1>5, <1>6 DEF ServerNext

(* So do the clients: the last to leave takes the room along. *)
LEMMA ClientRoom ==
    ASSUME ServerTypes, RoomInv, NEW p \in Peers, ClientEffect(p)
    PROVE  RoomInv'
<1>1. /\ UNCHANGED pending
      /\ \A q \in Peers : run[q].pc # "woken" /\ run'[q].pc = run[q].pc
  BY QuietStages, LeaveStages DEF ClientEffect
<1>2. CASE Stays
  BY <1>1, <1>2 DEF Stays, RoomInv, Awaiting
<1>3. CASE Leaves(p)
  <2>1. /\ room /\ entry' = [entry EXCEPT ![p] = 0] /\ entry \in [Peers -> 0 .. MaxObjects]
        /\ (Others(p) = {} /\ room' = FALSE) \/ (Others(p) # {} /\ room' = room)
    BY <1>3, LeaveFacts DEF ServerTypes, Typed
  <2>2. Others(p) = {q \in Peers \ {p} : entry'[q] # 0}
    BY <2>1 DEF Others
  <2>3. QED
    BY <1>1, <2>1, <2>2 DEF RoomInv, Awaiting
<1>4. QED
  BY <1>2, <1>3 DEF ClientEffect

(* The room is as it should be in every reachable state. *)
LEMMA RoomsHold == Spec => []RoomInv
<1>1. Init => RoomInv
  BY StageForms DEF Init, ServerInit, RoomInv
<1>2. Types /\ RoomInv /\ [Next]_vars => RoomInv'
  <2> SUFFICES ASSUME Types, RoomInv, [Next]_vars PROVE RoomInv'
    OBVIOUS
  <2>1. CASE ServerNext
    BY <2>1, ServerRoom DEF Types
  <2>2. ASSUME NEW p \in Peers, ClientStep(p) PROVE RoomInv'
    BY <2>2, ClientStepTypes, ClientRoom DEF Types
  <2>3. CASE UNCHANGED vars
    BY <2>3 DEF vars, serverVars, RoomInv, Awaiting
  <2>4. QED
    BY <2>1, <2>2, <2>3 DEF Next
<1>3. QED
  BY <1>1, <1>2, TypesHold, PTL DEF Spec

(***************************************************************************)
(* A room in the map is never empty, and nobody is in a room that is not   *)
(* in the map: getOrCreateRoom's shared promise and handlePeerLeave leave  *)
(* no moment between two events when it is otherwise.                      *)
(***************************************************************************)
THEOREM RoomsAreInhabited == Spec => []RoomHasPeers
<1>1. Types /\ RoomInv => RoomHasPeers
  BY QuietStages DEF Types, RoomInv, RoomHasPeers
<1>2. QED
  BY <1>1, TypesHold, RoomsHold, PTL

-----------------------------------------------------------------------------
(* Transports and producers.                                               *)

\* The states of q refer to the same transports and producers as before.
SameSources(q) ==
    \A n \in 1 .. MaxObjects :
        /\ obj'[<<q, n>>].send = obj[<<q, n>>].send
        /\ obj'[<<q, n>>].recv = obj[<<q, n>>].recv
        /\ obj'[<<q, n>>].producers = obj[<<q, n>>].producers

(* They are still fine when transports and owners only came to be. *)
LEMMA SourcesKept ==
    ASSUME ServerTypes, NEW q \in Peers, Sources(q), SameSources(q),
           entry'[q] = entry[q], opened'[q] >= opened[q], opened'[q] \in Nat,
           live \subseteq live', owners \subseteq owners'
    PROVE  Sources(q)'
<1>1. opened[q] \in Nat /\ entry[q] \in 0 .. MaxObjects
  BY DEF ServerTypes, Typed
<1>2. ASSUME NEW t \in Maybe(Transport), OfPeer(q, t, opened[q]) PROVE OfPeer(q, t, opened'[q])
  BY <1>1, <1>2 DEF OfPeer, Transport, Maybe
<1>3. \A n \in 1 .. MaxObjects : <<q, n>> \in Objects /\ obj[<<q, n>>] \in State
  BY DEF ServerTypes, Typed, Objects
<1>4. \A n \in 1 .. MaxObjects :
        LET state == obj'[<<q, n>>] IN
        /\ OfPeer(q, state.send, opened'[q]) /\ OfPeer(q, state.recv, opened'[q])
        /\ \A pr \in state.producers : OfPeer(q, pr.transport, opened'[q])
  <2> TAKE n \in 1 .. MaxObjects
  <2>1. /\ obj[<<q, n>>].send \in Maybe(Transport) /\ obj[<<q, n>>].recv \in Maybe(Transport)
        /\ \A pr \in obj[<<q, n>>].producers : pr.transport \in Maybe(Transport)
    BY <1>3 DEF State, ProducerId, Maybe
  <2>2. /\ OfPeer(q, obj[<<q, n>>].send, opened'[q]) /\ OfPeer(q, obj[<<q, n>>].recv, opened'[q])
        /\ \A pr \in obj[<<q, n>>].producers : OfPeer(q, pr.transport, opened'[q])
    BY <1>2, <2>1 DEF Sources
  <2>3. QED
    BY <2>2 DEF SameSources
<1>5. entry[q] # 0 =>
        /\ obj'[Entry(q)].send \in Maybe(live') /\ obj'[Entry(q)].recv \in Maybe(live')
        /\ \A pr \in obj'[Entry(q)].producers : pr.transport \in live' /\ pr \in owners'
  BY <1>1 DEF Sources, SameSources, Entry, Maybe
<1>6. Entry(q)' = Entry(q)
  BY DEF Entry
<1>7. QED
  BY <1>4, <1>5, <1>6 DEF Sources

(* Nor does what its operation holds on to go wrong. *)
LEMMA HeldKept ==
    ASSUME ServerTypes, NEW q \in Peers, Held(q),
           run'[q] = run[q], queue'[q] = queue[q], entry'[q] = entry[q],
           opened'[q] >= opened[q], opened'[q] \in Nat,
           live \subseteq live', \A t \in live' \ live : t[1] # q
    PROVE  Held(q)'
<1>1. opened[q] \in Nat /\ Entry(q)' = Entry(q)
  BY DEF ServerTypes, Typed, Entry
<1>2. CASE run[q].pc = "produce"
  <2> DEFINE t == Head(queue[q]).transport
  <2>1. t \in Transport /\ t # None
    BY <1>2, WaitingType, RunningType, NoneAssumption DEF Waiting, Transport
  <2>2. OfPeer(q, t, opened[q]) /\ (entry[q] # 0 => t \in live) /\ (~run[q].inRoom => t \notin live)
    BY <1>2 DEF Held
  <2>3. OfPeer(q, t, opened'[q]) /\ t[1] = q
    BY <1>1, <2>1, <2>2 DEF OfPeer, Transport
  <2>4. (entry[q] # 0 => t \in live') /\ (~run[q].inRoom => t \notin live')
    BY <2>2, <2>3
  <2>5. QED
    BY <1>1, <1>2, <2>3, <2>4 DEF Held
<1>3. CASE run[q].pc # "produce"
  BY <1>1, <1>3 DEF Held
<1>4. QED
  BY <1>2, <1>3

(* Nothing but FinishJoin, TransportCreated and Produced changes what the states refer to. *)
LEMMA SourcesOfStep ==
    ASSUME ServerTypes, NEW p \in Peers, ServerStep(p),
           ~FinishJoin(p), ~TransportCreated(p), ~Produced(p)
    PROVE  /\ \A q \in Peers : SameSources(q)
           /\ UNCHANGED <<live, owners, opened, entry, room>>
<1>1. CASE Consumed(p)
  <2> DEFINE o == run[p].target.obj
  <2> DEFINE c == [producer |-> run[p].target.producer, copy |-> Copies(o, run[p].target.producer) + 1]
  <2> DEFINE s == [obj[o] EXCEPT !.consumers = @ \cup {c}]
  <2>1. o \in Objects /\ obj[o] \in State
    BY <1>1, TargetType DEF Consumed, ServerTypes, Typed
  <2>2. obj' = [obj EXCEPT ![o] = s]
    BY <1>1 DEF Consumed
  <2> HIDE DEF o, c
  <2>3. s.send = obj[o].send /\ s.recv = obj[o].recv /\ s.producers = obj[o].producers
    BY <2>1 DEF State
  <2> HIDE DEF s
  <2>4. \A q \in Peers : SameSources(q)
    BY <2>1, <2>2, <2>3 DEF ServerTypes, Typed, SameSources, Objects
  <2>5. QED
    BY <1>1, <2>4 DEF Consumed
<1>2. CASE ProducerClose(p)
  <2> DEFINE o == Entry(p)
  <2> DEFINE s == [obj[o] EXCEPT !.consumers = @ \ Orphans(o)]
  <2>1. o \in Objects /\ obj[o] \in State
    BY <1>2, EntryType DEF ProducerClose, Registered
  <2>2. obj' = [obj EXCEPT ![o] = s]
    BY <1>2 DEF ProducerClose
  <2> HIDE DEF o
  <2>3. s.send = obj[o].send /\ s.recv = obj[o].recv /\ s.producers = obj[o].producers
    BY <2>1 DEF State
  <2> HIDE DEF s
  <2>4. \A q \in Peers : SameSources(q)
    BY <2>1, <2>2, <2>3 DEF ServerTypes, Typed, SameSources, Objects
  <2>5. QED
    BY <1>2, <2>4 DEF ProducerClose
<1>3. CASE ~Consumed(p) /\ ~ProducerClose(p)
  <2>1. UNCHANGED <<obj, live, owners, opened, entry, room>>
    BY <1>3 DEF ServerStep, StartJoin, StartCreate, StartOnOwn, Settled, Rejected, StartConsume,
                FinishLoop, ConsumeFailed
  <2>2. QED
    BY <2>1 DEF SameSources
<1>4. QED
  BY <1>1, <1>2, <1>3

(* What a step of p does to the sources of the others: nothing. *)
LEMMA SourcesElsewhere ==
    ASSUME ServerTypes, NEW p \in Peers, ServerStep(p)
    PROVE  /\ \A q \in Peers \ {p} : SameSources(q) /\ opened'[q] = opened[q]
           /\ live \subseteq live' /\ \A t \in live' \ live : t = <<p, opened[p] + 1>>
           /\ owners \subseteq owners'
<1>1. CASE FinishJoin(p)
  <2> DEFINE joined == JoinedState(p, Head(queue[p]).caps)
  <2>1. joined[1][1] = p
    BY DEF JoinedState, Entry
  <2>2. obj' = [obj EXCEPT ![joined[1]] = joined[2]] /\ UNCHANGED <<live, owners, opened>>
    BY <1>1 DEF FinishJoin
  <2> HIDE DEF joined
  <2>3. \A q \in Peers \ {p}, n \in 1 .. MaxObjects : <<q, n>> \in Objects /\ <<q, n>> # joined[1]
    BY <2>1 DEF Objects
  <2>4. \A q \in Peers \ {p} : SameSources(q)
    BY <2>2, <2>3 DEF ServerTypes, Typed, SameSources
  <2>5. QED
    BY <2>2, <2>4
<1>2. CASE TransportCreated(p)
  <2> DEFINE o == run[p].obj
  <2> DEFINE t == <<p, opened[p] + 1>>
  <2>1. o[1] = p
    BY <1>2, WaitingType DEF TransportCreated, Waiting
  <2>2. /\ \/ obj' = [obj EXCEPT ![o].send = t] \/ obj' = [obj EXCEPT ![o].recv = t]
        /\ live' \in {live, live \cup {t}} /\ owners' = owners
        /\ opened' = [opened EXCEPT ![p] = @ + 1]
    BY <1>2 DEF TransportCreated
  <2> HIDE DEF o, t
  <2>3. \A x \in Objects : x # o => obj'[x] = obj[x]
    BY <2>2 DEF ServerTypes, Typed
  <2>4. \A q \in Peers \ {p} : SameSources(q)
    BY <2>1, <2>3 DEF SameSources, Objects
  <2>5. QED
    BY <2>2, <2>4 DEF ServerTypes, Typed, t
<1>3. CASE Produced(p)
  <2> DEFINE o == run[p].obj
  <2> DEFINE pr == Producer(Head(queue[p]).transport, Head(queue[p]).kind)
  <2>1. o[1] = p
    BY <1>3, WaitingType DEF Produced, Waiting
  <2>2. /\ obj' = [obj EXCEPT ![o].producers = @ \cup {pr}]
        /\ owners \subseteq owners' /\ UNCHANGED <<live, opened>>
    BY <1>3 DEF Produced, OwnersWith
  <2> HIDE DEF o, pr
  <2>3. QED
    BY <2>1, <2>2 DEF ServerTypes, Typed, SameSources, Objects
<1>4. QED
  BY <1>1, <1>2, <1>3, SourcesOfStep

(* A stage that holds on to nothing. *)
LEMMA HoldsNothing ==
    ASSUME NEW p \in Peers, run'[p].pc \notin Waiting \cup Looping
    PROVE  Held(p)'
  BY DEF Held, Waiting, Looping

(* A loop of a peer that is in the room goes over its current state. *)
LEMMA HoldsItsState ==
    ASSUME NEW p \in Peers, run'[p].pc \in Looping, entry'[p] # 0 => run'[p].obj = Entry(p)'
    PROVE  Held(p)'
  BY DEF Held, Waiting, Looping

(* The steps of p that make no transport, producer or peer state keep p's own part. *)
LEMMA HeldAfterStep ==
    ASSUME ServerTypes, NEW p \in Peers, Sources(p), Held(p), ServerStep(p),
           ~FinishJoin(p), ~TransportCreated(p), ~Produced(p)
    PROVE  Held(p)'
<1>1. run \in [Peers -> Stage] /\ Entry(p)' = Entry(p) /\ entry' = entry /\ opened' = opened /\ live' = live
  BY SourcesOfStep DEF ServerTypes, Typed, Entry
<1>2. ASSUME Finish(p) PROVE Held(p)'
  <2>1. run'[p].pc = "idle"
    BY <1>1, <1>2, StageForms DEF Finish
  <2>2. QED
    BY <2>1, HoldsNothing DEF Waiting, Looping
<1>3. CASE StartJoin(p)
  <2>1. run'[p] = [Idle EXCEPT !.pc = "room"]
    BY <1>1, <1>3 DEF StartJoin
  <2>2. run'[p].pc = "room"
    BY <2>1 DEF Idle
  <2>3. QED
    BY <2>2, HoldsNothing DEF Waiting, Looping
<1>4. CASE StartCreate(p)
  <2>1. CASE Throw(p)
    BY <1>2, <2>1 DEF Throw
  <2>2. CASE run' = [run EXCEPT ![p] = Holding("create", Entry(p))]
    <3>1. run'[p].pc = "create" /\ run'[p].obj = Entry(p) /\ run'[p].inRoom
      BY <1>1, <2>2, StageForms
    <3>2. QED
      BY <1>1, <3>1 DEF Held
  <2>3. QED
    BY <1>4, <2>1, <2>2 DEF StartCreate
<1>5. CASE StartOnOwn(p)
  <2>1. CASE Throw(p)
    BY <1>2, <2>1 DEF Throw
  <2>2. CASE Found(p) /\ run' = [run EXCEPT ![p] = Holding(Head(queue[p]).type, Entry(p))] /\ queue' = queue
    <3> DEFINE op == Head(queue[p])
    <3>1. run'[p].pc = op.type /\ run'[p].obj = Entry(p) /\ run'[p].inRoom
      BY <1>1, <2>2, StageForms
    <3>2. CASE op.type = "produce"
      <4>1. op.transport \in Transport /\ op.transport # None
        BY <1>5, <3>2, RunningType, NoneAssumption DEF StartOnOwn, Ready, Transport
      <4>2. Registered(p) /\ op.transport \in {obj[Entry(p)].send, obj[Entry(p)].recv}
        BY <2>2, <3>2 DEF Found, OwnTransport
      <4>3. entry[p] \in 1 .. MaxObjects
        BY <4>2, BoundAssumption DEF Registered, ServerTypes, Typed
      <4>4. OfPeer(p, op.transport, opened[p]) /\ op.transport \in live
        BY <4>1, <4>2, <4>3 DEF Sources, Entry, Maybe
      <4>5. QED
        BY <1>1, <2>2, <3>1, <3>2, <4>4 DEF Held, Waiting, Looping
    <3>3. CASE op.type # "produce"
      BY <1>1, <3>1, <3>3 DEF Held
    <3>4. QED
      BY <3>2, <3>3
  <2>3. QED
    BY <1>5, <2>1, <2>2 DEF StartOnOwn
<1>6. CASE Settled(p) \/ Rejected(p) \/ FinishLoop(p)
  BY <1>2, <1>6 DEF Settled, Rejected, Throw, FinishLoop
<1>7. CASE StartConsume(p)
  <2>1. run'[p].pc = "consume" /\ run'[p].obj = run[p].obj
    BY <1>7, StartConsumeStage
  <2>2. entry[p] # 0 => run[p].obj = Entry(p)
    BY <1>7 DEF StartConsume, Held, Looping
  <2>3. QED
    BY <1>1, <2>1, <2>2, HoldsItsState DEF Looping
<1>8. CASE Consumed(p) \/ ConsumeFailed(p)
  <2>1. run'[p].pc = "loop" /\ run'[p].obj = run[p].obj
    BY <1>8, LoopOnStage DEF Consumed, ConsumeFailed
  <2>2. entry[p] # 0 => run[p].obj = Entry(p)
    BY <1>8 DEF Consumed, ConsumeFailed, Held, Looping
  <2>3. QED
    BY <1>1, <2>1, <2>2, HoldsItsState DEF Looping
<1>9. CASE ProducerClose(p)
  <2>1. run' = run /\ queue' = queue
    BY <1>9 DEF ProducerClose
  <2>2. QED
    BY <1>1, <2>1 DEF Held
<1>10. QED
  BY <1>3, <1>4, <1>5, <1>6, <1>7, <1>8, <1>9 DEF ServerStep

(* FinishJoin: a peer state that refers to nothing, or the one that was there. *)
LEMMA FinishJoinSources ==
    ASSUME ServerTypes, NEW p \in Peers, Sources(p), FinishJoin(p)
    PROVE  Sources(p)' /\ Held(p)'
<1> DEFINE joined == JoinedState(p, Head(queue[p]).caps)
<1> DEFINE o == joined[1]
<1>1. /\ obj' = [obj EXCEPT ![o] = joined[2]] /\ entry' = [entry EXCEPT ![p] = o[2]]
      /\ run' = [run EXCEPT ![p] = Loop(o, None, TRUE)]
      /\ UNCHANGED <<live, owners, opened>>
  BY DEF FinishJoin
<1>2. /\ o \in Objects /\ o[1] = p
      /\ \/ entry[p] # 0 /\ o = Entry(p) /\ joined[2].send = obj[o].send
            /\ joined[2].recv = obj[o].recv /\ joined[2].producers = obj[o].producers
         \/ joined[2].send = None /\ joined[2].recv = None /\ joined[2].producers = {}
  <2>1. CASE entry[p] # 0
    <3>1. joined = <<Entry(p), [obj[Entry(p)] EXCEPT !.caps = Head(queue[p]).caps]>>
      BY <2>1 DEF JoinedState
    <3>2. Entry(p) \in Objects /\ Entry(p)[1] = p /\ obj[Entry(p)] \in State
      BY <2>1, EntryType
    <3> DEFINE s == [obj[Entry(p)] EXCEPT !.caps = Head(queue[p]).caps]
    <3>3. s.send = obj[Entry(p)].send /\ s.recv = obj[Entry(p)].recv
          /\ s.producers = obj[Entry(p)].producers
      BY <3>2 DEF State
    <3> HIDE DEF s
    <3>4. o = Entry(p) /\ joined[2] = s
      BY <3>1 DEF s
    <3> HIDE DEF joined
    <3>5. QED
      BY <2>1, <3>2, <3>3, <3>4
  <2>2. CASE entry[p] = 0
    <3> DEFINE n == CHOOSE m \in Unused(p) : TRUE
    <3>1. n \in 1 .. MaxObjects
      BY <2>2 DEF FinishJoin, Unused
    <3>2. joined = <<<<p, n>>, [Blank EXCEPT !.caps = Head(queue[p]).caps]>>
      BY <2>2 DEF JoinedState
    <3> HIDE DEF n, joined
    <3>3. o = <<p, n>> /\ joined[2].send = None /\ joined[2].recv = None /\ joined[2].producers = {}
      BY <3>2 DEF Blank
    <3>4. QED
      BY <3>1, <3>3 DEF Objects
  <2>3. QED
    BY <2>1, <2>2
<1> HIDE DEF joined, o
<1>3. entry'[p] = o[2] /\ Entry(p)' = o
  BY <1>1, <1>2 DEF Entry, ServerTypes, Typed, Objects
<1>4. Held(p)'
  <2>1. run'[p] = Loop(o, None, TRUE)
    BY <1>1 DEF ServerTypes, Typed
  <2>2. run'[p].pc = "loop" /\ run'[p].obj = o
    BY <2>1 DEF Loop, Idle
  <2>3. QED
    BY <1>3, <2>2, HoldsItsState DEF Looping
<1>5. \A n \in 1 .. MaxObjects :
        LET state == obj'[<<p, n>>] IN
        /\ OfPeer(p, state.send, opened[p]) /\ OfPeer(p, state.recv, opened[p])
        /\ \A pr \in state.producers : OfPeer(p, pr.transport, opened[p])
  <2> TAKE n \in 1 .. MaxObjects
  <2>1. <<p, n>> \in Objects
    BY DEF Objects
  <2>2. CASE <<p, n>> = o
    <3>1. obj'[<<p, n>>] = joined[2]
      BY <1>1, <1>2, <2>2 DEF ServerTypes, Typed
    <3>2. QED
      BY <1>2, <2>2, <3>1 DEF Sources, OfPeer
  <2>3. CASE <<p, n>> # o
    <3>1. obj'[<<p, n>>] = obj[<<p, n>>]
      BY <1>1, <1>2, <2>1, <2>3 DEF ServerTypes, Typed
    <3>2. QED
      BY <3>1 DEF Sources
  <2>4. QED
    BY <2>2, <2>3
<1>6. /\ obj'[o].send \in Maybe(live) /\ obj'[o].recv \in Maybe(live)
      /\ \A pr \in obj'[o].producers : pr.transport \in live /\ pr \in owners
  <2>1. obj'[o] = joined[2]
    BY <1>1, <1>2 DEF ServerTypes, Typed
  <2>2. QED
    BY <1>2, <2>1 DEF Sources, Maybe
<1>7. QED
  BY <1>1, <1>3, <1>4, <1>5, <1>6 DEF Sources

(* TransportCreated: the new transport is its peer's, and nobody knew it before. *)
LEMMA TransportCreatedSources ==
    ASSUME ServerTypes, NEW p \in Peers, Sources(p), Held(p), TransportCreated(p)
    PROVE  Sources(p)' /\ Held(p)'
<1> DEFINE t == <<p, opened[p] + 1>>
<1> DEFINE o == run[p].obj
<1> DEFINE b == Head(queue[p]).dir = "recv" /\ run[p].inRoom
<1>1. /\ obj' = [obj EXCEPT ![o].send = t] \/ obj' = [obj EXCEPT ![o].recv = t]
      /\ opened' = [opened EXCEPT ![p] = @ + 1]
      /\ live' = IF run[p].inRoom THEN live \cup {t} ELSE live
      /\ run' = [run EXCEPT ![p] = Loop(o, None, b)]
      /\ UNCHANGED <<entry, owners>>
  BY DEF TransportCreated, AfterCreate
<1>2. /\ o \in Objects /\ o[1] = p /\ obj[o] \in State
      /\ opened[p] \in Nat /\ opened'[p] = opened[p] + 1
  BY <1>1, WaitingType DEF TransportCreated, Waiting, ServerTypes, Typed
<1>3. entry[p] # 0 => o = Entry(p) /\ run[p].inRoom
  BY DEF TransportCreated, Held, Waiting, Looping
<1>4. t # None /\ t[1] = p /\ t[2] = opened'[p]
  BY <1>2, NoneAssumption
<1>5. Held(p)'
  <2>1. run'[p] = Loop(o, None, b)
    BY <1>1 DEF ServerTypes, Typed
  <2>2. run'[p].pc = "loop" /\ run'[p].obj = o
    BY <2>1, StageForms
  <2>3. QED
    BY <1>1, <1>3, <2>2, HoldsItsState DEF Looping, Entry
<1> HIDE DEF t, o, b
<1>6. \A x \in Objects :
        /\ obj'[x].producers = obj[x].producers
        /\ obj'[x].send = obj[x].send \/ (obj'[x].send = t /\ x = o)
        /\ obj'[x].recv = obj[x].recv \/ (obj'[x].recv = t /\ x = o)
  <2>1. \A x \in Objects : x # o => obj'[x] = obj[x]
    BY <1>1 DEF ServerTypes, Typed
  <2>2. obj'[o] = [obj[o] EXCEPT !.send = t] \/ obj'[o] = [obj[o] EXCEPT !.recv = t]
    BY <1>1, <1>2 DEF ServerTypes, Typed
  <2>3. /\ obj'[o].producers = obj[o].producers
        /\ obj'[o].send \in {obj[o].send, t} /\ obj'[o].recv \in {obj[o].recv, t}
    BY <1>2, <2>2 DEF State
  <2>4. QED
    BY <2>1, <2>3
<1>7. ASSUME NEW x \in Maybe(Transport), OfPeer(p, x, opened[p])
      PROVE  OfPeer(p, x, opened'[p])
  BY <1>2, <1>7 DEF OfPeer, Transport, Maybe
<1>8. OfPeer(p, t, opened'[p])
  BY <1>2, <1>4 DEF OfPeer
<1>9. \A n \in 1 .. MaxObjects :
        LET state == obj'[<<p, n>>] IN
        /\ OfPeer(p, state.send, opened'[p]) /\ OfPeer(p, state.recv, opened'[p])
        /\ \A pr \in state.producers : OfPeer(p, pr.transport, opened'[p])
  <2> TAKE n \in 1 .. MaxObjects
  <2>1. <<p, n>> \in Objects /\ obj[<<p, n>>] \in State
    BY DEF Objects, ServerTypes, Typed
  <2>2. /\ obj[<<p, n>>].send \in Maybe(Transport) /\ obj[<<p, n>>].recv \in Maybe(Transport)
        /\ \A pr \in obj[<<p, n>>].producers : pr.transport \in Maybe(Transport)
    BY <2>1 DEF State, ProducerId, Maybe
  <2>3. /\ OfPeer(p, obj[<<p, n>>].send, opened'[p]) /\ OfPeer(p, obj[<<p, n>>].recv, opened'[p])
        /\ \A pr \in obj[<<p, n>>].producers : OfPeer(p, pr.transport, opened'[p])
    BY <1>7, <2>2 DEF Sources
  <2>4. QED
    BY <1>6, <1>8, <2>1, <2>3
<1>10. entry[p] # 0 =>
        /\ obj'[Entry(p)].send \in Maybe(live') /\ obj'[Entry(p)].recv \in Maybe(live')
        /\ \A pr \in obj'[Entry(p)].producers : pr.transport \in live' /\ pr \in owners'
  <2> SUFFICES ASSUME entry[p] # 0
               PROVE  /\ obj'[Entry(p)].send \in Maybe(live') /\ obj'[Entry(p)].recv \in Maybe(live')
                      /\ \A pr \in obj'[Entry(p)].producers : pr.transport \in live' /\ pr \in owners'
    OBVIOUS
  <2>1. Entry(p) \in Objects /\ live' = live \cup {t} /\ owners' = owners
    BY <1>1, <1>3, EntryType
  <2>2. /\ obj[Entry(p)].send \in Maybe(live) /\ obj[Entry(p)].recv \in Maybe(live)
        /\ \A pr \in obj[Entry(p)].producers : pr.transport \in live /\ pr \in owners
    BY DEF Sources
  <2>3. QED
    BY <1>6, <2>1, <2>2 DEF Maybe
<1>11. Entry(p)' = Entry(p) /\ entry' = entry
  BY <1>1 DEF Entry
<1>12. QED
  BY <1>5, <1>9, <1>10, <1>11 DEF Sources

(* Produced: the new producer is on a transport of its peer, open if the peer is there. *)
LEMMA ProducedSources ==
    ASSUME ServerTypes, NEW p \in Peers, Sources(p), Held(p), Produced(p)
    PROVE  Sources(p)' /\ Held(p)'
<1> DEFINE pr == Producer(Head(queue[p]).transport, Head(queue[p]).kind)
<1> DEFINE o == run[p].obj
<1>1. /\ obj' = [obj EXCEPT ![o].producers = @ \cup {pr}]
      /\ owners' = IF run[p].inRoom THEN owners \cup {pr} ELSE owners
      /\ run' = [run EXCEPT ![p] = Loop(o, pr, run[p].inRoom)]
      /\ UNCHANGED <<entry, opened, live>>
  BY DEF Produced, AfterProduce, OwnersWith
<1>2. o \in Objects /\ o[1] = p /\ obj[o] \in State
  BY WaitingType DEF Produced, Waiting
<1>3. /\ OfPeer(p, pr.transport, opened[p])
      /\ entry[p] # 0 => o = Entry(p) /\ run[p].inRoom /\ pr.transport \in live
  BY DEF Produced, Held, Waiting, Looping, Producer
<1>4. Held(p)'
  <2>1. run'[p] = Loop(o, pr, run[p].inRoom)
    BY <1>1 DEF ServerTypes, Typed
  <2>2. run'[p].pc = "loop" /\ run'[p].obj = o
    BY <2>1, StageForms
  <2>3. QED
    BY <1>1, <1>3, <2>2, HoldsItsState DEF Looping, Entry
<1> HIDE DEF pr, o
<1>5. \A x \in Objects :
        /\ obj'[x].send = obj[x].send /\ obj'[x].recv = obj[x].recv
        /\ obj'[x].producers = obj[x].producers \cup (IF x = o THEN {pr} ELSE {})
  <2>1. \A x \in Objects : x # o => obj'[x] = obj[x]
    BY <1>1 DEF ServerTypes, Typed
  <2>2. obj'[o] = [obj[o] EXCEPT !.producers = @ \cup {pr}]
    BY <1>1, <1>2 DEF ServerTypes, Typed
  <2>3. /\ obj'[o].send = obj[o].send /\ obj'[o].recv = obj[o].recv
        /\ obj'[o].producers = obj[o].producers \cup {pr}
    BY <1>2, <2>2 DEF State
  <2>4. QED
    BY <2>1, <2>3
<1>6. \A n \in 1 .. MaxObjects :
        LET state == obj'[<<p, n>>] IN
        /\ OfPeer(p, state.send, opened[p]) /\ OfPeer(p, state.recv, opened[p])
        /\ \A x \in state.producers : OfPeer(p, x.transport, opened[p])
  <2> TAKE n \in 1 .. MaxObjects
  <2>1. <<p, n>> \in Objects
    BY DEF Objects
  <2>2. QED
    BY <1>3, <1>5, <2>1 DEF Sources
<1>7. entry[p] # 0 =>
        /\ obj'[Entry(p)].send \in Maybe(live) /\ obj'[Entry(p)].recv \in Maybe(live)
        /\ \A x \in obj'[Entry(p)].producers : x.transport \in live /\ x \in owners'
  BY <1>1, <1>3, <1>5, EntryType DEF Sources
<1>8. Entry(p)' = Entry(p) /\ entry' = entry /\ opened' = opened /\ live' = live
  BY <1>1 DEF Entry
<1>9. QED
  BY <1>4, <1>6, <1>7, <1>8 DEF Sources

(* The server keeps the invariant. *)
LEMMA ServerTransports ==
    ASSUME ServerTypes, TransportInv, ServerNext
    PROVE  TransportInv'
<1>1. CASE RoomCreated \/ RoomFailed
  <2>1. UNCHANGED <<entry, obj, opened, live, owners>>
    BY <1>1 DEF RoomCreated, RoomFailed
  <2>2. ASSUME NEW q \in Peers PROVE Held(q)'
    <3>1. CASE q \in Awaiting
      <4>1. run'[q].pc \in {"woken", "idle"}
        BY <1>1, <3>1, StageForms DEF RoomCreated, RoomFailed
      <4>2. QED
        BY <4>1, HoldsNothing DEF Waiting, Looping
    <3>2. CASE q \notin Awaiting
      <4>1. run'[q] = run[q] /\ queue'[q] = queue[q]
        BY <1>1, <3>2 DEF RoomCreated, RoomFailed
      <4>2. QED
        BY <2>1, <4>1 DEF TransportInv, Held, Entry
    <3>3. QED
      BY <3>1, <3>2
  <2>3. \A q \in Peers : Sources(q)'
    BY <2>1 DEF TransportInv, Sources, Entry
  <2>4. QED
    BY <2>1, <2>2, <2>3 DEF TransportInv
<1>2. ASSUME NEW p \in Peers, ServerStep(p) PROVE TransportInv'
  <2>1. Sources(p) /\ Held(p)
    BY DEF TransportInv
  <2>2. Sources(p)' /\ Held(p)'
    <3>1. CASE FinishJoin(p)
      BY <2>1, <3>1, FinishJoinSources
    <3>2. CASE TransportCreated(p)
      BY <2>1, <3>2, TransportCreatedSources
    <3>3. CASE Produced(p)
      BY <2>1, <3>3, ProducedSources
    <3>4. CASE ~FinishJoin(p) /\ ~TransportCreated(p) /\ ~Produced(p)
      <4>1. SameSources(p) /\ UNCHANGED <<live, owners, opened, entry>>
        BY <1>2, <3>4, SourcesOfStep
      <4>2. opened[p] \in Nat
        BY DEF ServerTypes, Typed
      <4>3. Sources(p)'
        BY <2>1, <4>1, <4>2, SourcesKept
      <4>4. QED
        BY <1>2, <2>1, <3>4, <4>3, HeldAfterStep
    <3>5. QED
      BY <3>1, <3>2, <3>3, <3>4
  <2>3. ASSUME NEW q \in Peers \ {p} PROVE Sources(q)' /\ Held(q)'
    <3>1. /\ run'[q] = run[q] /\ queue'[q] = queue[q] /\ entry'[q] = entry[q]
          /\ SameSources(q) /\ opened'[q] = opened[q]
          /\ live \subseteq live' /\ (\A t \in live' \ live : t[1] # q)
          /\ owners \subseteq owners'
      BY <1>2, OwnStep, SourcesElsewhere
    <3>2. Sources(q) /\ Held(q) /\ opened[q] \in Nat
      BY DEF TransportInv, ServerTypes, Typed
    <3>3. QED
      BY <3>1, <3>2, SourcesKept, HeldKept
  <2>4. \A t \in live' : t[2] <= opened'[t[1]]
    <3>1. CASE TransportCreated(p)
      <4>1. opened' = [opened EXCEPT ![p] = @ + 1]
            /\ live' \in {live, live \cup {<<p, opened[p] + 1>>}}
        BY <3>1 DEF TransportCreated
      <4>2. opened \in [Peers -> Nat] /\ live \subseteq Transport
        BY DEF ServerTypes, Typed
      <4>3. \A t \in live : t[2] \in Nat /\ t[1] \in Peers /\ t[2] <= opened[t[1]]
        BY <4>2 DEF TransportInv, Transport
      <4>4. \A t \in live : t[2] <= opened'[t[1]]
        BY <4>1, <4>2, <4>3
      <4>5. QED
        BY <4>1, <4>2, <4>4
    <3>2. CASE ~TransportCreated(p)
      <4>1. UNCHANGED <<live, opened>>
        BY <1>2, <3>2, SourcesOfStep DEF FinishJoin, Produced
      <4>2. QED
        BY <4>1 DEF TransportInv
    <3>3. QED
      BY <3>1, <3>2
  <2>5. QED
    BY <2>2, <2>3, <2>4 DEF TransportInv
<1>3. QED
  BY <1>1, <1>2 DEF ServerNext

(* So do the clients: a leave takes along only what is its peer's own, or everything. *)
LEMMA ClientTransports ==
    ASSUME ServerTypes, TransportInv, NEW p \in Peers, ClientEffect(p)
    PROVE  TransportInv'
<1>1. ASSUME NEW q \in Peers, run[q].pc = "produce"
      PROVE  /\ Head(queue'[q]) = Head(queue[q])
             /\ Head(queue[q]).transport \in Transport /\ Head(queue[q]).transport # None
  <2>1. queue[q] # <<>> /\ Head(queue[q]).type = "produce"
    BY <1>1, WaitingType DEF Waiting
  <2>2. QED
    BY <2>1, RunningType, EnqueuedTypes, NoneAssumption DEF ClientEffect, Transport
<1>2. CASE Stays
  <2>1. UNCHANGED <<entry, obj, live, owners, run, opened>>
    BY <1>2 DEF Stays, ClientEffect
  <2>2. \A q \in Peers : Sources(q)' /\ Held(q)'
    BY <1>1, <2>1 DEF TransportInv, Sources, Held, Entry
  <2>3. QED
    BY <2>1, <2>2 DEF TransportInv
<1>3. CASE Leaves(p)
  <2> DEFINE mine == {obj[Entry(p)].send, obj[Entry(p)].recv}
  <2>1. /\ Entry(p) \in Objects /\ entry[p] # 0 /\ entry' = [entry EXCEPT ![p] = 0]
        /\ opened' = opened /\ live' \subseteq live
        /\ \/ Others(p) = {} /\ live' = {}
           \/ Others(p) # {} /\ run' = run /\ live' = live \ mine
              /\ owners' = {pr \in owners : pr.transport \notin mine /\ pr \notin obj[Entry(p)].producers}
    BY <1>3, LeaveFacts DEF ClientEffect
  <2>2. /\ \A x \in Objects : x # Entry(p) => obj'[x] = obj[x]
        /\ obj'[Entry(p)].producers = {}
        /\ obj'[Entry(p)].send \in {None, obj[Entry(p)].send}
        /\ obj'[Entry(p)].recv \in {None, obj[Entry(p)].recv}
    <3>1. obj' = [obj EXCEPT ![Entry(p)] = obj'[Entry(p)]] /\ obj \in [Objects -> State]
      BY <1>3, LeaveFacts DEF ServerTypes, Typed
    <3>2. \A x \in Objects : x # Entry(p) => obj'[x] = obj[x]
      BY <3>1
    <3>3. QED
      BY <1>3, <3>2, LeaveFacts
  <2>3. \A t \in mine : t # None => t[1] = p
    <3>1. entry[p] \in 1 .. MaxObjects
      BY <2>1, BoundAssumption DEF ServerTypes, Typed
    <3>2. QED
      BY <3>1 DEF TransportInv, Sources, OfPeer, Entry
  <2> HIDE DEF mine
  <2>4. \A q \in Peers \ {p} : entry'[q] = entry[q]
    BY <2>1 DEF ServerTypes, Typed
  <2>5. entry'[p] = 0
    BY <2>1 DEF ServerTypes, Typed
  <2>6. \A q \in Peers, n \in 1 .. MaxObjects :
          LET state == obj'[<<q, n>>] IN
          /\ OfPeer(q, state.send, opened[q]) /\ OfPeer(q, state.recv, opened[q])
          /\ \A pr \in state.producers : OfPeer(q, pr.transport, opened[q])
    <3> TAKE q \in Peers, n \in 1 .. MaxObjects
    <3>1. <<q, n>> \in Objects
      BY DEF Objects
    <3>2. /\ OfPeer(q, obj[<<q, n>>].send, opened[q]) /\ OfPeer(q, obj[<<q, n>>].recv, opened[q])
          /\ \A pr \in obj[<<q, n>>].producers : OfPeer(q, pr.transport, opened[q])
      BY DEF TransportInv, Sources
    <3>3. CASE <<q, n>> = Entry(p)
      BY <2>2, <3>2, <3>3 DEF OfPeer
    <3>4. CASE <<q, n>> # Entry(p)
      BY <2>2, <3>1, <3>2, <3>4
    <3>5. QED
      BY <3>3, <3>4
  <2>7. ASSUME NEW q \in Peers, entry'[q] # 0
        PROVE  /\ q # p /\ entry[q] # 0 /\ Entry(q)' = Entry(q) /\ obj'[Entry(q)] = obj[Entry(q)]
               /\ run' = run /\ live' = live \ mine
               /\ \A pr \in owners : pr.transport[1] = q /\ pr.transport # None => pr \in owners'
               /\ \A t : t # None /\ t[1] = q => t \notin mine
    <3>1. q # p /\ entry[q] # 0
      BY <2>4, <2>5, <2>7
    <3>2. q \in Others(p) /\ Entry(q) # Entry(p) /\ Entry(q)' = Entry(q) /\ Entry(q) \in Objects
      BY <2>4, <3>1, EntryType DEF Others, Entry
    <3>3. entry[p] \in 1 .. MaxObjects
      BY <2>1, BoundAssumption DEF ServerTypes, Typed
    <3>4. \A pr \in obj[Entry(p)].producers : pr.transport # None => pr.transport[1] = p
      BY <3>3 DEF TransportInv, Sources, OfPeer, Entry
    <3>5. QED
      BY <2>1, <2>2, <2>3, <3>1, <3>2, <3>4
  <2>8. ASSUME NEW q \in Peers, entry'[q] # 0
        PROVE  /\ obj'[Entry(q)'].send \in Maybe(live') /\ obj'[Entry(q)'].recv \in Maybe(live')
               /\ \A pr \in obj'[Entry(q)'].producers : pr.transport \in live' /\ pr \in owners'
    <3>1. /\ q # p /\ entry[q] # 0 /\ Entry(q)' = Entry(q) /\ obj'[Entry(q)] = obj[Entry(q)]
          /\ live' = live \ mine
          /\ \A pr \in owners : pr.transport[1] = q /\ pr.transport # None => pr \in owners'
          /\ \A t : t # None /\ t[1] = q => t \notin mine
      BY <2>7, <2>8
    <3>2. /\ obj[Entry(q)].send \in Maybe(live) /\ obj[Entry(q)].recv \in Maybe(live)
          /\ \A pr \in obj[Entry(q)].producers : pr.transport \in live /\ pr \in owners
      BY <3>1 DEF TransportInv, Sources
    <3>3. entry[q] \in 1 .. MaxObjects
      BY <3>1, BoundAssumption DEF ServerTypes, Typed
    <3>4. /\ OfPeer(q, obj[Entry(q)].send, opened[q]) /\ OfPeer(q, obj[Entry(q)].recv, opened[q])
          /\ \A pr \in obj[Entry(q)].producers : OfPeer(q, pr.transport, opened[q])
      BY <3>3 DEF TransportInv, Sources, Entry
    <3>5. \A t \in live : t # None
      BY NoneAssumption DEF ServerTypes, Typed, Transport
    <3>6. QED
      BY <3>1, <3>2, <3>4, <3>5 DEF OfPeer, Maybe
  <2>9. ASSUME NEW q \in Peers PROVE Held(q)'
    <3>1. /\ run'[q].pc = run[q].pc /\ run'[q].obj = run[q].obj
          /\ run'[q].inRoom \in {FALSE, run[q].inRoom}
      BY <1>3, LeaveStages
    <3>2. Held(q)
      BY DEF TransportInv
    <3>3. entry'[q] # 0 => /\ entry[q] # 0 /\ Entry(q)' = Entry(q) /\ run' = run /\ live' = live \ mine
                           /\ \A t : t # None /\ t[1] = q => t \notin mine
      BY <2>7
    <3>4. CASE run[q].pc = "produce"
      <4> DEFINE t == Head(queue[q]).transport
      <4>1. Head(queue'[q]).transport = t /\ t # None
        BY <1>1, <3>4
      <4>2. OfPeer(q, t, opened[q]) /\ (entry[q] # 0 => t \in live) /\ (~run[q].inRoom => t \notin live)
        BY <3>2, <3>4 DEF Held
      <4>3. t[1] = q
        BY <4>1, <4>2 DEF OfPeer
      <4> HIDE DEF t
      <4>4. ~run'[q].inRoom => t \notin live'
        BY <2>1, <4>2
      <4>5. entry'[q] # 0 => t \in live'
        BY <3>3, <4>1, <4>2, <4>3
      <4>6. run[q].pc \in Waiting
        BY <3>4 DEF Waiting
      <4>7. entry'[q] # 0 => run'[q].obj = Entry(q)' /\ run'[q].inRoom
        BY <3>2, <3>3, <4>6 DEF Held
      <4>8. QED
        BY <2>1, <3>1, <3>4, <4>1, <4>2, <4>4, <4>5, <4>7 DEF Held
    <3>5. CASE run[q].pc # "produce"
      BY <3>1, <3>2, <3>3, <3>5 DEF Held
    <3>6. QED
      BY <3>4, <3>5
  <2>10. \A t \in live' : t[2] <= opened'[t[1]]
    BY <2>1 DEF TransportInv
  <2>11. QED
    BY <2>1, <2>6, <2>8, <2>9, <2>10 DEF TransportInv, Sources
<1>4. QED
  BY <1>2, <1>3 DEF ClientEffect

(* The transports and producers are as they should be in every reachable state. *)
LEMMA TransportsHold == Spec => []TransportInv
<1>1. Init => TransportInv
  <2> SUFFICES ASSUME Init PROVE TransportInv
    OBVIOUS
  <2>1. \A p \in Peers, n \in 1 .. MaxObjects : obj[<<p, n>>] = Blank
    BY DEF Init, ServerInit, Objects
  <2>2. \A p \in Peers : Sources(p)
    <3>1. Blank.send = None /\ Blank.recv = None /\ Blank.producers = {}
      BY DEF Blank
    <3>2. \A p \in Peers : entry[p] = 0
      BY DEF Init, ServerInit
    <3>3. QED
      BY <2>1, <3>1, <3>2 DEF Sources, OfPeer
  <2>3. \A p \in Peers : Held(p)
    BY StageForms DEF Init, ServerInit, Held, Waiting, Looping
  <2>4. QED
    BY <2>2, <2>3 DEF Init, ServerInit, TransportInv
<1>2. Types /\ TransportInv /\ [Next]_vars => TransportInv'
  <2> SUFFICES ASSUME Types, TransportInv, [Next]_vars PROVE TransportInv'
    OBVIOUS
  <2>1. CASE ServerNext
    BY <2>1, ServerTransports DEF Types
  <2>2. ASSUME NEW p \in Peers, ClientStep(p) PROVE TransportInv'
    BY <2>2, ClientStepTypes, ClientTransports DEF Types
  <2>3. CASE UNCHANGED vars
    BY <2>3 DEF vars, serverVars, TransportInv, Sources, Held, Entry
  <2>4. QED
    BY <2>1, <2>2, <2>3 DEF Next
<1>3. QED
  BY <1>1, <1>2, TypesHold, PTL DEF Spec

-----------------------------------------------------------------------------
(* The owners of producers.                                                *)

\* A producer being made is on a current transport of its peer, or on a closed one.
Making(p) ==
    run[p].pc = "produce" =>
        LET t == Head(queue[p]).transport IN
        IF entry[p] # 0 THEN t \in Current(p) ELSE t \notin live

\* An entry of producerOwners is of a transport there was, and of its peer if that is open.
Owned(pr) ==
    /\ pr.transport[2] <= opened[pr.transport[1]]
    /\ Alive(pr) =>
        LET p == pr.transport[1] IN entry[p] # 0 /\ pr \in obj[Entry(p)].producers

OwnersInv == (\A p \in Peers : Making(p)) /\ \A pr \in owners : Owned(pr)

(* An entry is of a peer's transport. *)
LEMMA OwnerType ==
    ASSUME ServerTypes, NEW pr \in owners
    PROVE  /\ pr.transport \in Transport /\ pr.transport[1] \in Peers /\ pr.transport[2] \in Nat
           /\ pr.transport # None
           /\ opened[pr.transport[1]] \in Nat
           /\ entry[pr.transport[1]] # 0 => entry[pr.transport[1]] \in 1 .. MaxObjects
<1>1. pr.transport \in Transport
  BY DEF ServerTypes, Typed, ProducerId
<1>2. pr.transport[1] \in Peers /\ pr.transport[2] \in Nat /\ pr.transport # None
  BY <1>1, NoneAssumption DEF Transport
<1>3. QED
  BY <1>1, <1>2, BoundAssumption DEF ServerTypes, Typed

(* What a producer is made on, while nothing of its own peer happens. *)
LEMMA MakingKept ==
    ASSUME ServerTypes, NEW q \in Peers, Held(q), Making(q), SameSources(q),
           run'[q].pc = run[q].pc, run[q].pc = "produce" => Head(queue'[q]) = Head(queue[q]),
           entry'[q] = entry[q], \A t \in live' \ live : t[1] # q
    PROVE  Making(q)'
<1> SUFFICES ASSUME run[q].pc = "produce" PROVE Making(q)'
  BY DEF Making
<1> DEFINE t == Head(queue[q]).transport
<1>1. t \in Transport /\ t # None
  BY WaitingType, RunningType, NoneAssumption DEF Waiting, Transport
<1>2. t[1] = q
  BY <1>1 DEF Held, OfPeer
<1>3. IF entry[q] # 0 THEN t \in Current(q) ELSE t \notin live
  BY DEF Making
<1>4. Head(queue'[q]).transport = t
  OBVIOUS
<1> HIDE DEF t
<1>5. CASE entry[q] # 0
  <2>1. entry[q] \in 1 .. MaxObjects
    BY <1>5, BoundAssumption DEF ServerTypes, Typed
  <2>2. Current(q)' = Current(q)
    BY <2>1 DEF SameSources, Current, Entry
  <2>3. QED
    BY <1>3, <1>4, <1>5, <2>2 DEF Making
<1>6. CASE entry[q] = 0
  <2>1. t \notin live'
    BY <1>2, <1>3, <1>6
  <2>2. QED
    BY <1>4, <1>6, <2>1 DEF Making
<1>7. QED
  BY <1>5, <1>6

(* A step of p that makes no transport, producer or peer state, as p's own operation sees it. *)
LEMMA MakingAfterStep ==
    ASSUME ServerTypes, NEW p \in Peers, Held(p), Making(p), ServerStep(p),
           ~FinishJoin(p), ~TransportCreated(p), ~Produced(p)
    PROVE  Making(p)'
<1>1. run \in [Peers -> Stage] /\ SameSources(p) /\ UNCHANGED <<live, entry>>
  BY SourcesOfStep DEF ServerTypes, Typed
<1>2. ASSUME Finish(p) PROVE run'[p].pc # "produce"
  BY <1>1, <1>2, StageForms DEF Finish
<1>3. CASE StartJoin(p)
  <2>1. run'[p] = [Idle EXCEPT !.pc = "room"]
    BY <1>1, <1>3 DEF StartJoin
  <2>2. QED
    BY <2>1 DEF Idle, Making
<1>4. CASE StartCreate(p)
  <2>1. run'[p].pc # "produce"
    BY <1>1, <1>2, <1>4, StageForms DEF StartCreate, Throw
  <2>2. QED
    BY <2>1 DEF Making
<1>5. CASE StartOnOwn(p)
  <2>1. CASE Throw(p)
    BY <1>2, <2>1 DEF Throw, Making
  <2>2. CASE Found(p) /\ run' = [run EXCEPT ![p] = Holding(Head(queue[p]).type, Entry(p))] /\ queue' = queue
    <3>1. run'[p].pc = Head(queue[p]).type
      BY <1>1, <2>2, StageForms
    <3>2. CASE Head(queue[p]).type = "produce"
      <4>1. Registered(p) /\ Head(queue[p]).transport \in Current(p)
        BY <2>2, <3>2 DEF Found, OwnTransport, Current
      <4>2. entry[p] \in 1 .. MaxObjects
        BY <4>1, BoundAssumption DEF Registered, ServerTypes, Typed
      <4>3. Current(p)' = Current(p)
        BY <1>1, <4>2 DEF SameSources, Current, Entry
      <4>4. QED
        BY <1>1, <2>2, <4>1, <4>2, <4>3 DEF Making
    <3>3. CASE Head(queue[p]).type # "produce"
      BY <3>1, <3>3 DEF Making
    <3>4. QED
      BY <3>2, <3>3
  <2>3. QED
    BY <1>5, <2>1, <2>2 DEF StartOnOwn
<1>6. CASE Settled(p) \/ Rejected(p) \/ FinishLoop(p)
  BY <1>2, <1>6 DEF Settled, Rejected, Throw, FinishLoop, Making
<1>7. CASE StartConsume(p)
  <2>1. run'[p].pc = "consume"
    BY <1>7, StartConsumeStage
  <2>2. QED
    BY <2>1 DEF Making
<1>8. CASE Consumed(p) \/ ConsumeFailed(p)
  <2>1. run'[p].pc = "loop"
    BY <1>8, LoopOnStage DEF Consumed, ConsumeFailed
  <2>2. QED
    BY <2>1 DEF Making
<1>9. CASE ProducerClose(p)
  <2>1. run' = run /\ queue' = queue
    BY <1>9 DEF ProducerClose
  <2>2. QED
    BY <1>1, <2>1, MakingKept
<1>10. QED
  BY <1>3, <1>4, <1>5, <1>6, <1>7, <1>8, <1>9 DEF ServerStep

(* An entry stays its peer's while that keeps its state and its producers. *)
LEMMA OwnedKept ==
    ASSUME ServerTypes, NEW pr \in owners, Owned(pr),
           opened'[pr.transport[1]] >= opened[pr.transport[1]],
           opened'[pr.transport[1]] \in Nat,
           pr.transport \in live' => pr.transport \in live,
           LET p == pr.transport[1] IN
             entry[p] # 0 => /\ entry'[p] = entry[p]
                             /\ obj[Entry(p)].producers \subseteq obj'[Entry(p)].producers
    PROVE  Owned(pr)'
<1> DEFINE p == pr.transport[1]
<1>1. /\ pr.transport[2] \in Nat /\ opened[p] \in Nat /\ pr.transport[2] <= opened[p]
      /\ pr.transport \in live => entry[p] # 0 /\ pr \in obj[Entry(p)].producers
  BY OwnerType DEF Owned, Alive
<1>2. pr.transport[2] <= opened'[p]
  BY <1>1
<1>3. entry[p] # 0 => Entry(p)' = Entry(p)
  BY DEF Entry
<1>4. pr.transport \in live' => entry'[p] # 0 /\ pr \in obj'[Entry(p)'].producers
  BY <1>1, <1>3
<1>5. QED
  BY <1>2, <1>4 DEF Owned, Alive, Entry

(* A step of p takes nobody out of the room, and no producer from anybody in it. *)
LEMMA PlacesKept ==
    ASSUME ServerTypes, NEW p \in Peers, ServerStep(p)
    PROVE  /\ room' = room
           /\ \A q \in Peers : entry[q] # 0 =>
                /\ entry'[q] = entry[q]
                /\ obj[Entry(q)].producers \subseteq obj'[Entry(q)].producers
<1>1. CASE FinishJoin(p)
  <2> DEFINE joined == JoinedState(p, Head(queue[p]).caps)
  <2> DEFINE o == joined[1]
  <2>1. /\ obj' = [obj EXCEPT ![o] = joined[2]] /\ entry' = [entry EXCEPT ![p] = o[2]]
        /\ room' = room
    BY <1>1 DEF FinishJoin
  <2>2. ASSUME entry[p] # 0 PROVE o = Entry(p) /\ joined[2].producers = obj[Entry(p)].producers
    <3>1. joined = <<Entry(p), [obj[Entry(p)] EXCEPT !.caps = Head(queue[p]).caps]>>
      BY <2>2 DEF JoinedState
    <3>2. obj[Entry(p)] \in State
      BY <2>2, EntryType
    <3> DEFINE s == [obj[Entry(p)] EXCEPT !.caps = Head(queue[p]).caps]
    <3>3. s.producers = obj[Entry(p)].producers
      BY <3>2 DEF State
    <3> HIDE DEF s
    <3>4. o = Entry(p) /\ joined[2] = s
      BY <3>1 DEF s
    <3> HIDE DEF joined
    <3>5. QED
      BY <3>3, <3>4
  <2>3. o[1] = p
    BY DEF JoinedState, Entry
  <2> HIDE DEF joined, o
  <2>4. ASSUME NEW q \in Peers, entry[q] # 0
        PROVE  /\ entry'[q] = entry[q]
               /\ obj[Entry(q)].producers \subseteq obj'[Entry(q)].producers
    <3>1. Entry(q) \in Objects /\ Entry(q)[1] = q /\ Entry(q)[2] = entry[q]
      BY <2>4, EntryType DEF Entry
    <3>2. CASE q = p
      BY <2>1, <2>2, <2>4, <3>1, <3>2 DEF ServerTypes, Typed
    <3>3. CASE q # p
      BY <2>1, <2>3, <3>1, <3>3 DEF ServerTypes, Typed
    <3>4. QED
      BY <3>2, <3>3
  <2>5. QED
    BY <2>1, <2>4
<1>2. CASE TransportCreated(p)
  <2> DEFINE t == <<p, opened[p] + 1>>
  <2> DEFINE o == run[p].obj
  <2>1. /\ obj' = [obj EXCEPT ![o].send = t] \/ obj' = [obj EXCEPT ![o].recv = t]
        /\ UNCHANGED <<entry, room>>
    BY <1>2 DEF TransportCreated
  <2>2. o \in Objects /\ obj[o] \in State
    BY <1>2, WaitingType DEF TransportCreated, Waiting, ServerTypes, Typed
  <2> HIDE DEF t, o
  <2>3. \A x \in Objects : x # o => obj'[x] = obj[x]
    BY <2>1 DEF ServerTypes, Typed
  <2>4. obj'[o] = [obj[o] EXCEPT !.send = t] \/ obj'[o] = [obj[o] EXCEPT !.recv = t]
    BY <2>1, <2>2 DEF ServerTypes, Typed
  <2>5. obj'[o].producers = obj[o].producers
    BY <2>2, <2>4 DEF State
  <2>6. QED
    BY <2>1, <2>3, <2>5, EntryType
<1>3. CASE Produced(p)
  <2> DEFINE new == Producer(Head(queue[p]).transport, Head(queue[p]).kind)
  <2> DEFINE o == run[p].obj
  <2>1. obj' = [obj EXCEPT ![o].producers = @ \cup {new}] /\ UNCHANGED <<entry, room>>
    BY <1>3 DEF Produced
  <2>2. o \in Objects /\ obj[o] \in State
    BY <1>3, WaitingType DEF Produced, Waiting
  <2> HIDE DEF new, o
  <2>3. \A x \in Objects : x # o => obj'[x] = obj[x]
    BY <2>1 DEF ServerTypes, Typed
  <2>4. obj'[o] = [obj[o] EXCEPT !.producers = @ \cup {new}]
    BY <2>1, <2>2 DEF ServerTypes, Typed
  <2>5. obj'[o].producers = obj[o].producers \cup {new}
    BY <2>2, <2>4 DEF State
  <2>6. QED
    BY <2>1, <2>3, <2>5, EntryType
<1>4. CASE ~FinishJoin(p) /\ ~TransportCreated(p) /\ ~Produced(p)
  <2>1. (\A q \in Peers : SameSources(q)) /\ UNCHANGED <<entry, room>>
    BY <1>4, SourcesOfStep
  <2>2. ASSUME NEW q \in Peers, entry[q] # 0 PROVE obj'[Entry(q)].producers = obj[Entry(q)].producers
    <3>1. entry[q] \in 1 .. MaxObjects
      BY <2>2, BoundAssumption DEF ServerTypes, Typed
    <3>2. QED
      BY <2>1, <3>1 DEF SameSources, Entry
  <2>3. QED
    BY <2>1, <2>2
<1>5. QED
  BY <1>1, <1>2, <1>3, <1>4

(* An entry that was there is still right after any step of the server. *)
LEMMA OldOwners ==
    ASSUME ServerTypes, NEW p \in Peers, ServerStep(p), NEW pr \in owners, Owned(pr)
    PROVE  Owned(pr)'
<1> DEFINE q == pr.transport[1]
<1>1. /\ q \in Peers /\ opened \in [Peers -> Nat] /\ opened[q] \in Nat
      /\ pr.transport[2] \in Nat /\ pr.transport[2] <= opened[q]
  BY OwnerType DEF Owned, ServerTypes, Typed
<1>2. opened'[q] >= opened[q] /\ opened'[q] \in Nat
  <2>1. CASE TransportCreated(p)
    BY <1>1, <2>1 DEF TransportCreated
  <2>2. CASE ~TransportCreated(p)
    <3>1. opened' = opened
      BY <2>2, SourcesOfStep DEF FinishJoin, Produced
    <3>2. QED
      BY <1>1, <3>1
  <2>3. QED
    BY <2>1, <2>2
<1>3. pr.transport \in live' => pr.transport \in live
  <2>1. \A t \in live' \ live : t = <<p, opened[p] + 1>>
    BY SourcesElsewhere
  <2>2. \A t \in live' \ live : t[1] = p /\ t[2] = opened[p] + 1
    BY <2>1
  <2>3. pr.transport \notin live' \ live
    BY <1>1, <2>2
  <2>4. QED
    BY <2>3
<1>4. QED
  BY <1>1, <1>2, <1>3, PlacesKept, OwnedKept

(* The steps that make something: none of them leaves its peer in the middle of a produce. *)
LEMMA MakingIsOver ==
    ASSUME ServerTypes, NEW p \in Peers, FinishJoin(p) \/ TransportCreated(p) \/ Produced(p)
    PROVE  Making(p)'
<1>1. run \in [Peers -> Stage]
  BY DEF ServerTypes, Typed
<1>2. CASE FinishJoin(p)
  BY <1>1, <1>2, StageForms DEF FinishJoin, Making
<1>3. CASE TransportCreated(p)
  BY <1>1, <1>3, StageForms DEF TransportCreated, AfterCreate, Making
<1>4. CASE Produced(p)
  BY <1>1, <1>4, StageForms DEF Produced, AfterProduce, Making
<1>5. QED
  BY <1>2, <1>3, <1>4

(* Produced: the new entry is of a peer that is there, or of a closed transport. *)
LEMMA NewOwner ==
    ASSUME ServerTypes, NEW p \in Peers, Held(p), Making(p), Produced(p), NEW pr \in owners' \ owners
    PROVE  Owned(pr)'
<1> DEFINE new == Producer(Head(queue[p]).transport, Head(queue[p]).kind)
<1> DEFINE o == run[p].obj
<1>1. /\ obj' = [obj EXCEPT ![o].producers = @ \cup {new}]
      /\ pr = new
      /\ UNCHANGED <<entry, opened, live>>
  BY DEF Produced, OwnersWith
<1>2. /\ o \in Objects /\ obj[o] \in State
      /\ Head(queue[p]).transport \in Transport /\ Head(queue[p]).transport # None
  BY WaitingType, RunningType, NoneAssumption DEF Produced, Waiting, Transport
<1>3. /\ new.transport = Head(queue[p]).transport
      /\ OfPeer(p, new.transport, opened[p])
      /\ entry[p] # 0 => o = Entry(p)
      /\ entry[p] = 0 => new.transport \notin live
  BY DEF Produced, Held, Making, Waiting, Looping, Producer
<1>4. new.transport[1] = p /\ new.transport[2] <= opened[p]
  BY <1>2, <1>3 DEF OfPeer
<1> HIDE DEF new, o
<1>5. new \in obj'[o].producers
  <2>1. obj'[o] = [obj[o] EXCEPT !.producers = @ \cup {new}]
    BY <1>1, <1>2 DEF ServerTypes, Typed
  <2>2. QED
    BY <1>2, <2>1 DEF State
<1>6. new.transport \in live' => entry'[p] # 0 /\ Entry(p)' = o
  BY <1>1, <1>3 DEF Entry
<1>7. QED
  BY <1>1, <1>4, <1>5, <1>6 DEF Owned, Alive

(* The server keeps the entries right. *)
LEMMA ServerOwners ==
    ASSUME ServerTypes, TransportInv, OwnersInv, ServerNext
    PROVE  OwnersInv'
<1>1. CASE RoomCreated \/ RoomFailed
  <2>1. UNCHANGED <<entry, obj, opened, live, owners>>
    BY <1>1 DEF RoomCreated, RoomFailed
  <2>2. ASSUME NEW q \in Peers PROVE Making(q)'
    <3>1. CASE q \in Awaiting
      <4>1. run'[q].pc \in {"woken", "idle"}
        BY <1>1, <3>1, StageForms DEF RoomCreated, RoomFailed
      <4>2. QED
        BY <4>1 DEF Making
    <3>2. CASE q \notin Awaiting
      <4>1. run'[q] = run[q] /\ queue'[q] = queue[q]
        BY <1>1, <3>2 DEF RoomCreated, RoomFailed
      <4>2. QED
        BY <2>1, <4>1 DEF OwnersInv, Making, Current, Entry
    <3>3. QED
      BY <3>1, <3>2
  <2>3. \A pr \in owners' : Owned(pr)'
    BY <2>1 DEF OwnersInv, Owned, Alive, Entry
  <2>4. QED
    BY <2>2, <2>3 DEF OwnersInv
<1>2. ASSUME NEW p \in Peers, ServerStep(p) PROVE OwnersInv'
  <2>1. Held(p) /\ Making(p) /\ \A pr \in owners : Owned(pr)
    BY DEF TransportInv, OwnersInv
  <2>2. Making(p)'
    BY <1>2, <2>1, MakingIsOver, MakingAfterStep
  <2>3. ASSUME NEW q \in Peers \ {p} PROVE Making(q)'
    <3>1. /\ run'[q] = run[q] /\ queue'[q] = queue[q] /\ entry'[q] = entry[q]
          /\ SameSources(q) /\ (\A t \in live' \ live : t[1] # q)
      BY <1>2, OwnStep, SourcesElsewhere
    <3>2. Held(q) /\ Making(q)
      BY DEF TransportInv, OwnersInv
    <3>3. QED
      BY <3>1, <3>2, MakingKept
  <2>4. ASSUME NEW pr \in owners' PROVE Owned(pr)'
    <3>1. CASE pr \in owners
      BY <1>2, <2>1, <3>1, OldOwners
    <3>2. CASE pr \notin owners
      <4>1. Produced(p)
        BY <1>2, <3>2, SourcesOfStep DEF FinishJoin, TransportCreated
      <4>2. QED
        BY <2>1, <3>2, <4>1, NewOwner
    <3>3. QED
      BY <3>1, <3>2
  <2>5. QED
    BY <2>2, <2>3, <2>4 DEF OwnersInv
<1>3. QED
  BY <1>1, <1>2 DEF ServerNext

(* What a leave leaves of the entries: none of the leaver's. *)
LEMMA LeaversEntries ==
    ASSUME ServerTypes, TransportInv, NEW p \in Peers, Leaves(p)
    PROVE  /\ owners' \subseteq owners /\ live' \subseteq live
           /\ entry' = [entry EXCEPT ![p] = 0]
           /\ \A pr \in owners' : pr \notin obj[Entry(p)].producers
           /\ \A q \in Peers \ {p} : entry[q] # 0 => obj'[Entry(q)] = obj[Entry(q)]
           /\ Current(p) \cap live' = {}
           /\ owners' # {} => room' = room
<1>1. /\ Entry(p) \in Objects /\ Entry(p)[1] = p /\ entry' = [entry EXCEPT ![p] = 0]
      /\ obj' = [obj EXCEPT ![Entry(p)] = obj'[Entry(p)]]
      /\ \/ live' = {} /\ owners' = {}
         \/ /\ live' = live \ Current(p) /\ room' = room
            /\ owners' = {pr \in owners : pr.transport \notin Current(p) /\ pr \notin obj[Entry(p)].producers}
  BY LeaveFacts DEF Entry, Current
<1>2. ASSUME NEW q \in Peers \ {p}, entry[q] # 0 PROVE obj'[Entry(q)] = obj[Entry(q)]
  <2>1. Entry(q) \in Objects /\ Entry(q)[1] = q
    BY <1>2, EntryType
  <2>2. QED
    BY <1>1, <2>1 DEF ServerTypes, Typed
<1>3. QED
  BY <1>1, <1>2

(* So do the clients: a leave closes the transports that a producer of the leaver may be made on. *)
LEMMA ClientOwners ==
    ASSUME ServerTypes, TransportInv, OwnersInv, NEW p \in Peers, ClientEffect(p)
    PROVE  OwnersInv'
<1>1. ASSUME NEW q \in Peers, run[q].pc = "produce"
      PROVE  Head(queue'[q]) = Head(queue[q])
  <2>1. queue[q] # <<>>
    BY <1>1, WaitingType DEF Waiting
  <2>2. QED
    BY <2>1, EnqueuedTypes DEF ClientEffect
<1>2. CASE Stays
  <2>1. UNCHANGED <<entry, obj, live, owners, run, opened>>
    BY <1>2 DEF Stays, ClientEffect
  <2>2. \A q \in Peers : Making(q)'
    BY <1>1, <2>1 DEF OwnersInv, Making, Current, Entry
  <2>3. \A pr \in owners' : Owned(pr)'
    BY <2>1 DEF OwnersInv, Owned, Alive, Entry
  <2>4. QED
    BY <2>2, <2>3 DEF OwnersInv
<1>3. CASE Leaves(p)
  <2>1. /\ owners' \subseteq owners /\ live' \subseteq live /\ opened' = opened
        /\ entry' = [entry EXCEPT ![p] = 0]
        /\ \A pr \in owners' : pr \notin obj[Entry(p)].producers
        /\ \A q \in Peers \ {p} : entry[q] # 0 => obj'[Entry(q)] = obj[Entry(q)]
        /\ Current(p) \cap live' = {}
    BY <1>3, LeaversEntries DEF ClientEffect
  <2>2. entry'[p] = 0 /\ \A q \in Peers \ {p} : entry'[q] = entry[q]
    BY <2>1 DEF ServerTypes, Typed
  <2>3. ASSUME NEW q \in Peers PROVE Making(q)'
    <3>1. run'[q].pc = run[q].pc
      BY <1>3, LeaveStages
    <3> SUFFICES ASSUME run[q].pc = "produce" PROVE Making(q)'
      BY <3>1 DEF Making
    <3> DEFINE t == Head(queue[q]).transport
    <3>2. Head(queue'[q]).transport = t
      BY <1>1
    <3>3. IF entry[q] # 0 THEN t \in Current(q) ELSE t \notin live
      BY DEF OwnersInv, Making
    <3> HIDE DEF t
    <3>4. CASE q = p
      BY <2>1, <2>2, <3>2, <3>3, <3>4 DEF Making
    <3>5. CASE q # p
      <4>1. entry'[q] = entry[q] /\ (entry[q] # 0 => Current(q)' = Current(q))
        BY <2>1, <2>2, <3>5 DEF Current, Entry
      <4>2. QED
        BY <2>1, <3>2, <3>3, <4>1 DEF Making
    <3>6. QED
      BY <3>4, <3>5
  <2>4. ASSUME NEW pr \in owners' PROVE Owned(pr)'
    <3> DEFINE q == pr.transport[1]
    <3>1. pr \in owners /\ Owned(pr) /\ q \in Peers /\ opened[q] \in Nat
      BY <2>1, OwnerType DEF OwnersInv
    <3>2. CASE pr.transport \in live'
      <4>1. entry[q] # 0 /\ pr \in obj[Entry(q)].producers /\ q # p
        BY <2>1, <3>1, <3>2 DEF Owned, Alive
      <4>2. QED
        BY <2>1, <2>2, <3>1, <4>1, OwnedKept
    <3>3. CASE pr.transport \notin live'
      BY <2>1, <3>1, <3>3 DEF Owned, Alive
    <3>4. QED
      BY <3>2, <3>3
  <2>5. QED
    BY <2>3, <2>4 DEF OwnersInv
<1>4. QED
  BY <1>2, <1>3 DEF ClientEffect

(* The entries are right in every reachable state. *)
LEMMA OwnersHold == Spec => []OwnersInv
<1>1. Init => OwnersInv
  BY StageForms DEF Init, ServerInit, OwnersInv, Making
<1>2. Types /\ TransportInv /\ OwnersInv /\ [Next]_vars => OwnersInv'
  <2> SUFFICES ASSUME Types, TransportInv, OwnersInv, [Next]_vars PROVE OwnersInv'
    OBVIOUS
  <2>1. CASE ServerNext
    BY <2>1, ServerOwners DEF Types
  <2>2. ASSUME NEW p \in Peers, ClientStep(p) PROVE OwnersInv'
    BY <2>2, ClientStepTypes, ClientOwners DEF Types
  <2>3. CASE UNCHANGED vars
    BY <2>3 DEF vars, serverVars, OwnersInv, Making, Owned, Alive, Current, Entry
  <2>4. QED
    BY <2>1, <2>2, <2>3 DEF Next
<1>3. QED
  BY <1>1, <1>2, TypesHold, TransportsHold, PTL DEF Spec

(***************************************************************************)
(* The active speaker the observer announces is somebody who is there: an  *)
(* open producer of a peer in the room is in producerOwners, and an entry  *)
(* of an open producer is of a peer in the room that has it, whatever left *)
(* or was rejected while it was being made.                                *)
(***************************************************************************)
THEOREM SpeakersAreKnown == Spec => []SpeakerKnown
<1>1. Types /\ RoomInv /\ TransportInv /\ OwnersInv => SpeakerKnown
  <2> SUFFICES ASSUME Types, RoomInv, TransportInv, OwnersInv PROVE SpeakerKnown
    OBVIOUS
  <2>1. ASSUME NEW p \in Peers, Registered(p), NEW pr \in obj[Entry(p)].producers PROVE pr \in owners
    BY <2>1 DEF TransportInv, Sources, Registered
  <2>2. ASSUME NEW pr \in owners, Alive(pr) PROVE Attributed(pr)
    <3> DEFINE p == pr.transport[1]
    <3>1. p \in Peers /\ entry[p] # 0 /\ pr \in obj[Entry(p)].producers
      BY <2>2, OwnerType DEF OwnersInv, Owned, Types
    <3>2. room
      BY <3>1 DEF RoomInv
    <3>3. QED
      BY <3>1, <3>2 DEF Attributed, Registered
  <2>3. QED
    BY <2>1, <2>2 DEF SpeakerKnown
<1>2. QED
  BY <1>1, TypesHold, RoomsHold, TransportsHold, OwnersHold, PTL

(***************************************************************************)
(* No step leaves an entry over: a producer whose peer goes loses its      *)
(* entry with it.                                                          *)
(***************************************************************************)
THEOREM LeaversAreForgotten == Spec => LeaversForgotten
<1> DEFINE Forgets == \A pr \in owners : Attributed(pr) /\ ~Attributed(pr)' => pr \notin owners'
<1>1. Types /\ TransportInv /\ [Next]_vars => [Forgets]_vars
  <2> SUFFICES ASSUME Types, TransportInv, Next,
                      NEW pr \in owners, Attributed(pr), pr \in owners'
               PROVE  Attributed(pr)'
    OBVIOUS
  <2> DEFINE q == pr.transport[1]
  <2>1. ServerTypes /\ q \in Peers /\ room /\ entry[q] # 0 /\ pr \in obj[Entry(q)].producers
    BY OwnerType DEF Types, Attributed, Registered
  <2>2. ASSUME room' = room, entry'[q] = entry[q], pr \in obj'[Entry(q)].producers PROVE Attributed(pr)'
    <3>1. Entry(q)' = Entry(q)
      BY <2>2 DEF Entry
    <3>2. QED
      BY <2>1, <2>2, <3>1 DEF Attributed, Registered
  <2>3. CASE RoomCreated \/ RoomFailed
    <3>1. room' /\ UNCHANGED <<entry, obj>>
      BY <2>1, <2>3 DEF RoomCreated, RoomFailed
    <3>2. QED
      BY <2>1, <2>2, <3>1 DEF Types, ServerTypes, Typed
  <2>4. ASSUME NEW p \in Peers, ServerStep(p) PROVE Attributed(pr)'
    BY <2>1, <2>2, <2>4, PlacesKept
  <2>5. ASSUME NEW p \in Peers, ClientEffect(p) PROVE Attributed(pr)'
    <3>1. CASE Stays
      BY <2>1, <2>2, <3>1 DEF Stays
    <3>2. CASE Leaves(p)
      <4>1. q # p /\ room' = room /\ entry'[q] = entry[q] /\ obj'[Entry(q)] = obj[Entry(q)]
        BY <2>1, <3>2, LeaversEntries DEF ServerTypes, Typed
      <4>2. QED
        BY <2>1, <2>2, <4>1
    <3>3. QED
      BY <2>5, <3>1, <3>2 DEF ClientEffect
  <2>6. QED
    BY <2>1, <2>3, <2>4, <2>5, ClientStepTypes DEF Next, ServerNext, Types
<1>2. QED
  BY <1>1, TypesHold, TransportsHold, PTL DEF Spec, LeaversForgotten

-----------------------------------------------------------------------------
(* Consumers.                                                              *)

(* Capabilities and the consumers of open producers outlive the steps that make no transport, *)
(* producer or peer state.                                                                    *)
LEMMA ConsumersOfStep ==
    ASSUME ServerTypes, NEW p \in Peers, ServerStep(p),
           ~FinishJoin(p), ~TransportCreated(p), ~Produced(p), NEW o \in Objects
    PROVE  /\ obj'[o].caps = obj[o].caps
           /\ \A pr : Alive(pr) /\ HasConsumer(o, pr) => \E c \in obj'[o].consumers : c.producer = pr
<1>1. CASE Consumed(p)
  <2> DEFINE u == run[p].target.obj
  <2> DEFINE c == [producer |-> run[p].target.producer, copy |-> Copies(u, run[p].target.producer) + 1]
  <2> DEFINE s == [obj[u] EXCEPT !.consumers = @ \cup {c}]
  <2>1. u \in Objects /\ obj[u] \in State
    BY <1>1, TargetType DEF Consumed, ServerTypes, Typed
  <2>2. obj' = [obj EXCEPT ![u] = s]
    BY <1>1 DEF Consumed
  <2> HIDE DEF u, c
  <2>3. s.caps = obj[u].caps /\ s.consumers = obj[u].consumers \cup {c}
    BY <2>1 DEF State
  <2> HIDE DEF s
  <2>4. obj'[o].caps = obj[o].caps /\ obj[o].consumers \subseteq obj'[o].consumers
    BY <2>1, <2>2, <2>3 DEF ServerTypes, Typed
  <2>5. QED
    BY <2>4 DEF HasConsumer
<1>2. CASE ProducerClose(p)
  <2> DEFINE u == Entry(p)
  <2> DEFINE s == [obj[u] EXCEPT !.consumers = @ \ Orphans(u)]
  <2>1. u \in Objects /\ obj[u] \in State
    BY <1>2, EntryType DEF ProducerClose, Registered
  <2>2. obj' = [obj EXCEPT ![u] = s]
    BY <1>2 DEF ProducerClose
  <2> HIDE DEF u
  <2>3. s.caps = obj[u].caps /\ s.consumers = obj[u].consumers \ Orphans(u)
    BY <2>1 DEF State
  <2> HIDE DEF s
  <2>4. CASE o = u
    <3>1. obj'[o] = s
      BY <2>1, <2>2, <2>4 DEF ServerTypes, Typed
    <3>2. QED
      BY <2>3, <2>4, <3>1 DEF HasConsumer, Orphans
  <2>5. CASE o # u
    <3>1. obj'[o] = obj[o]
      BY <2>1, <2>2, <2>5 DEF ServerTypes, Typed
    <3>2. QED
      BY <3>1 DEF HasConsumer
  <2>6. QED
    BY <2>4, <2>5
<1>3. CASE ~Consumed(p) /\ ~ProducerClose(p)
  <2>1. UNCHANGED obj
    BY <1>3 DEF ServerStep, StartJoin, StartCreate, StartOnOwn, Settled, Rejected, StartConsume,
                FinishLoop, ConsumeFailed
  <2>2. QED
    BY <2>1 DEF HasConsumer
<1>4. QED
  BY <1>1, <1>2, <1>3

\* The producer of q that p is to get: p receives, q is another, and the producer is open.
Due(p, q, pr) ==
    /\ Receives(p) /\ q # p /\ entry[q] # 0
    /\ pr \in obj[Entry(q)].producers

\* r, which is p or q, has it in hand as that one would.
Has(r, p, q, pr) ==
    /\ InHand(r, Entry(p), pr)
    /\ (r = p /\ run[r].over = None) \/ (r = q /\ run[r].over = pr)

(* What is due is open, and what it is due to is a state of the room. *)
LEMMA DueFacts ==
    ASSUME ServerTypes, TransportInv, NEW p \in Peers, NEW q \in Peers, NEW pr, Due(p, q, pr)
    PROVE  /\ pr \in ProducerId /\ pr # None /\ Alive(pr)
           /\ Entry(p) \in Objects /\ p \in Others(q) /\ q \in Others(p)
<1>1. entry[p] # 0 /\ entry[q] # 0 /\ q # p
  BY DEF Due, Receives
<1>2. Entry(p) \in Objects /\ Entry(q) \in Objects /\ obj[Entry(q)] \in State
  BY <1>1, EntryType
<1>3. pr \in ProducerId /\ pr # None
  BY <1>2, NoneAssumption DEF Due, State, ProducerId, Transport
<1>4. Alive(pr)
  BY <1>1 DEF Due, TransportInv, Sources, Alive
<1>5. QED
  BY <1>1, <1>2, <1>3, <1>4 DEF Others

(* A loop that has something due in hand, and stands between two pairs, will visit it, *)
(* unless the consumer is there already.                                               *)
LEMMA DueIsWanted ==
    ASSUME ServerTypes, TransportInv, NEW p \in Peers, NEW q \in Peers, NEW pr, Due(p, q, pr),
           NEW r \in {p, q}, Has(r, p, q, pr), run[r].pc = "loop",
           ~HasConsumer(Entry(p), pr)
    PROVE  Pair(Entry(p), pr) \in Wanted(r)
<1> DEFINE v == Pair(Entry(p), pr)
<1>1. run[r].inRoom /\ v \notin run[r].seen
  BY DEF Has, InHand
<1>2. v.obj = Entry(p) /\ v.producer = pr
  BY DEF Pair
<1>3. Consumable(v)
  BY <1>2, DueFacts DEF Due, Receives, Consumable
<1>4. v \in ToVisit(r)
  <2>1. CASE r = p /\ run[r].over = None
    <3>1. run[p].obj = Entry(p)
      BY <2>1 DEF TransportInv, Held, Looping, Due, Receives
    <3>2. pr \in UNION {obj[Entry(x)].producers : x \in Others(p)}
      BY DueFacts DEF Due
    <3>3. QED
      BY <1>1, <2>1, <3>1, <3>2 DEF ToVisit
  <2>2. CASE r = q /\ run[r].over = pr
    <3>1. v \in {Pair(Entry(x), run[r].over) : x \in Others(q)}
      BY <2>2, DueFacts
    <3>2. QED
      BY <1>1, <2>2, <3>1, DueFacts DEF ToVisit
  <2>3. QED
    BY <2>1, <2>2 DEF Has
<1>5. QED
  BY <1>3, <1>4 DEF Wanted

(* What is in hand stays in hand until it is there. *)
LEMMA HandKept ==
    ASSUME ServerTypes, TransportInv, NEW p \in Peers, NEW q \in Peers, NEW pr, Due(p, q, pr),
           NEW r \in {p, q}, Has(r, p, q, pr), ~HasConsumer(Entry(p), pr), OnOpenTransport(r),
           NEW x \in Peers, ServerStep(x), ~FinishJoin(x), ~TransportCreated(x), ~Produced(x)
    PROVE  (\E c \in obj'[Entry(p)].consumers : c.producer = pr) \/ Has(r, p, q, pr)'
<1> DEFINE o == Entry(p)
<1>1. Entry(p)' = o /\ o \in Objects /\ o[1] = p /\ entry[p] # 0 /\ r \in Peers
  BY SourcesOfStep, EntryType DEF Entry, Due, Receives
<1>2. /\ run[r].pc \in Looping
      /\ (r = p /\ run[r].over = None) \/ (r = q /\ run[r].over = pr)
      /\ \/ run[r].inRoom /\ Pair(o, pr) \notin run[r].seen
         \/ run[r].pc = "consume" /\ run[r].target.obj = o /\ run[r].target.producer = pr
  BY DEF Has, InHand, Looping
<1>3. CASE r # x \/ ProducerClose(x)
  <2>1. run'[r] = run[r]
    BY <1>1, <1>3, OwnStep DEF ProducerClose
  <2>2. QED
    BY <1>1, <2>1 DEF Has, InHand
<1>4. CASE r = x /\ ~ProducerClose(x)
  <2>1. CASE StartConsume(r)
    <3>1. PICK v \in Wanted(r), past \in SUBSET (ToVisit(r) \ Wanted(r)) :
            /\ run'[r].pc = "consume"
            /\ run'[r].seen = run[r].seen \cup past \cup {v}
            /\ run'[r].target = [obj |-> v.obj, producer |-> v.producer, recv |-> obj[v.obj].recv]
            /\ run'[r].over = run[r].over
            /\ run'[r].inRoom = run[r].inRoom
      BY <1>1, <2>1, StartConsumeStage
    <3>2. run[r].pc = "loop" /\ run[r].inRoom
      BY <1>2, <2>1 DEF StartConsume
    <3>3. Pair(o, pr) \in Wanted(r)
      BY <3>2, DueIsWanted
    <3>4. CASE v = Pair(o, pr)
      <4>1. run'[r].target.obj = o /\ run'[r].target.producer = pr
        BY <3>1, <3>4 DEF Pair
      <4>2. QED
        BY <1>1, <1>2, <3>1, <4>1 DEF Has, InHand
    <3>5. CASE v # Pair(o, pr)
      <4>1. Pair(o, pr) \notin run'[r].seen
        BY <1>2, <3>1, <3>2, <3>3, <3>5
      <4>2. QED
        BY <1>1, <1>2, <3>1, <3>2, <4>1 DEF Has, InHand, Looping
    <3>6. QED
      BY <3>4, <3>5
  <2>2. CASE FinishLoop(r)
    BY <2>2, DueIsWanted DEF FinishLoop
  <2>3. CASE Consumed(r) \/ ConsumeFailed(r)
    <3>1. /\ run[r].pc = "consume" /\ run'[r].pc = "loop"
          /\ run'[r].seen = run[r].seen /\ run'[r].over = run[r].over
          /\ run'[r].inRoom = run[r].inRoom
      BY <1>1, <2>3, LoopOnStage DEF Consumed, ConsumeFailed
    <3>2. CASE run[r].inRoom /\ Pair(o, pr) \notin run[r].seen
      BY <1>1, <1>2, <3>1, <3>2 DEF Has, InHand, Looping
    <3>3. CASE run[r].target.obj = o /\ run[r].target.producer = pr
      <4>1. CASE Consumed(r)
        <5> DEFINE c == [producer |-> pr, copy |-> Copies(o, pr) + 1]
        <5>1. obj' = [obj EXCEPT ![o].consumers = @ \cup {c}]
          BY <3>3, <4>1 DEF Consumed
        <5>2. c.producer = pr
          OBVIOUS
        <5> HIDE DEF c, o
        <5>3. obj[o] \in State
          BY <1>1 DEF ServerTypes, Typed
        <5>4. c \in obj'[o].consumers
          BY <1>1, <5>1, <5>3 DEF ServerTypes, Typed, State
        <5>5. QED
          BY <5>2, <5>4 DEF o
      <4>2. CASE ConsumeFailed(r)
        <5>1. run[r].target.recv \in live
          BY <1>1, <3>1, <3>3 DEF OnOpenTransport
        <5>2. Alive(pr)
          BY DueFacts
        <5>3. QED
          BY <3>3, <4>2, <5>1, <5>2 DEF ConsumeFailed
      <4>3. QED
        BY <2>3, <4>1, <4>2
    <3>4. QED
      BY <1>2, <3>2, <3>3
  <2>4. QED
    BY <1>2, <1>4, <2>1, <2>2, <2>3
       DEF ServerStep, StartJoin, StartCreate, StartOnOwn, Settled, Rejected, Looping
<1>5. QED
  BY <1>3, <1>4

(* A join gives its peer a state that no operation holds on to, or leaves it the one it has. *)
LEMMA JoinedPlace ==
    ASSUME ServerTypes, NEW x \in Peers, FinishJoin(x)
    PROVE  /\ Entry(x)' \in Objects
           /\ run'[x] = Loop(Entry(x)', None, TRUE)
           /\ \A o \in Objects : o # Entry(x)' => obj'[o] = obj[o]
           /\ \/ /\ entry[x] # 0 /\ Entry(x)' = Entry(x)
                 /\ obj'[Entry(x)].producers = obj[Entry(x)].producers
              \/ /\ entry[x] = 0 /\ obj'[Entry(x)'].producers = {}
                 /\ \A o : o = Entry(x)' => ~Referenced(o)
<1> DEFINE joined == JoinedState(x, Head(queue[x]).caps)
<1> DEFINE o == joined[1]
<1>1. /\ obj' = [obj EXCEPT ![o] = joined[2]] /\ entry' = [entry EXCEPT ![x] = o[2]]
      /\ run' = [run EXCEPT ![x] = Loop(o, None, TRUE)]
  BY DEF FinishJoin
<1>2. /\ o \in Objects /\ o[1] = x
      /\ \/ entry[x] # 0 /\ o = Entry(x) /\ joined[2].producers = obj[o].producers
         \/ entry[x] = 0 /\ ~Referenced(o) /\ joined[2].producers = {}
  <2>1. CASE entry[x] # 0
    <3> DEFINE s == [obj[Entry(x)] EXCEPT !.caps = Head(queue[x]).caps]
    <3>1. joined = <<Entry(x), s>>
      BY <2>1 DEF JoinedState
    <3>2. Entry(x) \in Objects /\ Entry(x)[1] = x /\ obj[Entry(x)] \in State
      BY <2>1, EntryType
    <3>3. s.producers = obj[Entry(x)].producers
      BY <3>2 DEF State
    <3> HIDE DEF s
    <3>4. o = Entry(x) /\ joined[2] = s
      BY <3>1
    <3> HIDE DEF joined
    <3>5. QED
      BY <2>1, <3>2, <3>3, <3>4
  <2>2. CASE entry[x] = 0
    <3> DEFINE n == CHOOSE m \in Unused(x) : TRUE
    <3>1. n \in Unused(x)
      BY <2>2 DEF FinishJoin
    <3>2. joined = <<<<x, n>>, [Blank EXCEPT !.caps = Head(queue[x]).caps]>>
      BY <2>2 DEF JoinedState
    <3> HIDE DEF n, joined
    <3>3. o = <<x, n>> /\ joined[2].producers = {}
      BY <3>2 DEF Blank
    <3>4. QED
      BY <2>2, <3>1, <3>3 DEF Objects, Unused
  <2>3. QED
    BY <2>1, <2>2
<1> HIDE DEF joined, o
<1>3. entry'[x] = o[2] /\ Entry(x)' = o
  BY <1>1, <1>2 DEF Entry, ServerTypes, Typed, Objects
<1>4. run'[x] = Loop(o, None, TRUE)
  BY <1>1 DEF ServerTypes, Typed
<1>5. obj'[o] = joined[2] /\ \A u \in Objects : u # o => obj'[u] = obj[u]
  BY <1>1, <1>2 DEF ServerTypes, Typed
<1>6. QED
  BY <1>2, <1>3, <1>4, <1>5

(* A stage whose operation waits for a consumer keeps it on an open transport. *)
LEMMA OpenKept ==
    ASSUME ServerTypes, NEW r \in Peers, OnOpenTransport(r),
           run'[r].pc = "consume" => run[r].pc = "consume" /\ run'[r].target = run[r].target,
           run[r].pc = "consume" =>
             LET o == run[r].target.obj IN
             entry'[o[1]] # 0 /\ o = Entry(o[1])' =>
                /\ entry[o[1]] # 0 /\ o = Entry(o[1])
                /\ run[r].target.recv \in live => run[r].target.recv \in live'
    PROVE  OnOpenTransport(r)'
  BY DEF OnOpenTransport

(* The server's steps keep it there. *)
LEMMA OpenOfStep ==
    ASSUME ServerTypes, TransportInv, NEW x \in Peers, ServerStep(x),
           NEW r \in Peers, OnOpenTransport(r)
    PROVE  OnOpenTransport(r)'
<1>1. CASE run'[r] = run[r]
  <2> DEFINE o == run[r].target.obj
  <2> DEFINE y == o[1]
  <2>1. CASE run[r].pc = "consume" /\ entry'[y] # 0 /\ o = Entry(y)'
    <3>1. y \in Peers /\ o \in Objects
      BY <2>1, TargetType
    <3>2. run[r].target # None
      BY <2>1, NoneAssumption DEF ServerTypes, Typed, StageOf, Target, Objects, ProducerId, Transport
    <3>3. Referenced(o)
      BY <3>2 DEF Referenced
    <3>4. entry[y] # 0 /\ o = Entry(y)
      <4>1. CASE x = y /\ FinishJoin(x)
        <5>1. o = Entry(x)'
          BY <1>1, <2>1, <4>1 DEF Entry
        <5>2. QED
          BY <3>3, <4>1, <5>1, JoinedPlace
      <4>2. CASE ~(x = y /\ FinishJoin(x))
        <5>1. entry'[y] = entry[y]
          <6>1. CASE x # y
            BY <3>1, <6>1, OwnStep, SMTT(30)
          <6>2. CASE ~FinishJoin(x)
            BY <6>2 DEF ServerStep, StartJoin, StartCreate, TransportCreated, StartOnOwn, Settled,
                        Produced, Rejected, StartConsume, FinishLoop, Consumed, ConsumeFailed,
                        ProducerClose
          <6>3. QED
            BY <4>2, <6>1, <6>2
        <5>2. QED
          BY <2>1, <5>1 DEF Entry
      <4>3. QED
        BY <4>1, <4>2
    <3>5. live \subseteq live'
      BY SourcesElsewhere
    <3> HIDE DEF o, y
    <3>6. QED
      BY <1>1, <3>4, <3>5, OpenKept DEF o, y
  <2>2. CASE ~(run[r].pc = "consume" /\ entry'[y] # 0 /\ o = Entry(y)')
    BY <1>1, <2>2, OpenKept
  <2>3. QED
    BY <2>1, <2>2
<1>2. CASE r = x /\ StartConsume(r)
  <2>1. PICK v \in Wanted(r), past \in SUBSET (ToVisit(r) \ Wanted(r)) :
          /\ v \in Visit
          /\ obj[v.obj].recv \in Transport
          /\ run'[r].target = [obj |-> v.obj, producer |-> v.producer, recv |-> obj[v.obj].recv]
    BY <1>2, StartConsumeStage
  <2> DEFINE o == v.obj
  <2> DEFINE t == obj[o].recv
  <2>2. run'[r].target.obj = o /\ run'[r].target.recv = t
    BY <2>1
  <2>3. PICK y \in Peers, n \in 1 .. MaxObjects : o = <<y, n>>
    BY <2>1 DEF Visit, Objects
  <2>4. t # None
    BY <2>1, NoneAssumption DEF Transport
  <2>5. Sources(y)
    BY DEF TransportInv
  <2>6. OfPeer(y, t, opened[y])
    BY <2>3, <2>5 DEF Sources
  <2>7. entry[y] # 0 /\ o = Entry(y) => t \in live
    BY <2>4, <2>5 DEF Sources, Maybe
  <2>8. UNCHANGED <<entry, live>> /\ o[1] = y
    BY <1>2, <2>3 DEF StartConsume
  <2>9. t[1] = y
    BY <2>4, <2>6 DEF OfPeer
  <2> HIDE DEF o, t
  <2>10. QED
    BY <2>2, <2>7, <2>8, <2>9 DEF OnOpenTransport, Entry
<1>3. CASE r = x /\ ~StartConsume(r) /\ run'[r] # run[r]
  <2>1. run'[r].pc # "consume"
    <3>1. CASE Finish(r)
      <4>1. run'[r] = Idle
        BY <3>1 DEF Finish, ServerTypes, Typed
      <4>2. QED
        BY <4>1, StageForms
    <3>2. CASE StartJoin(r)
      <4>1. run'[r] = [Idle EXCEPT !.pc = "room"]
        BY <3>2 DEF StartJoin, ServerTypes, Typed
      <4>2. QED
        BY <4>1 DEF Idle
    <3>3. CASE FinishJoin(r)
      <4>1. run'[r] = Loop(Entry(r)', None, TRUE)
        BY <3>3, JoinedPlace
      <4>2. QED
        BY <4>1 DEF Loop, Idle
    <3>4. CASE \E pc, o : pc # "consume" /\ run' = [run EXCEPT ![r] = Holding(pc, o)]
      <4>1. PICK pc, o : pc # "consume" /\ run' = [run EXCEPT ![r] = Holding(pc, o)]
        BY <3>4
      <4>2. run'[r] = Holding(pc, o)
        BY <4>1 DEF ServerTypes, Typed
      <4>3. QED
        BY <4>1, <4>2, StageForms
    <3>5. CASE \E o, v, b : run' = [run EXCEPT ![r] = Loop(o, v, b)]
      <4>1. PICK o, v, b : run' = [run EXCEPT ![r] = Loop(o, v, b)]
        BY <3>5
      <4>2. run'[r] = Loop(o, v, b)
        BY <4>1 DEF ServerTypes, Typed
      <4>3. QED
        BY <4>2, StageForms
    <3>6. CASE Consumed(r) \/ ConsumeFailed(r)
      <4>1. run[r].pc = "consume" /\ LoopOn(r) /\ queue' = queue
        BY <3>6 DEF Consumed, ConsumeFailed
      <4>2. QED
        BY <4>1, LoopOnStage
    <3>7. CASE StartCreate(r) \/ StartOnOwn(r)
      BY <3>1, <3>4, <3>7 DEF StartCreate, StartOnOwn, Throw
    <3>8. CASE TransportCreated(r) \/ Produced(r)
      BY <3>5, <3>8 DEF TransportCreated, Produced, AfterCreate, AfterProduce
    <3>9. CASE Settled(r) \/ Rejected(r) \/ FinishLoop(r)
      BY <3>1, <3>9 DEF Settled, Rejected, FinishLoop, Throw
    <3>10. CASE ProducerClose(r)
      BY <1>3, <3>10 DEF ProducerClose
    <3>11. QED
      BY <1>3, <3>2, <3>3, <3>6, <3>7, <3>8, <3>9, <3>10 DEF ServerStep
  <2>2. QED
    BY <2>1 DEF OnOpenTransport
<1>4. QED
  BY <1>1, <1>2, <1>3, OwnStep

(* Who is owed something is owed it still, where a step disturbs nobody who has it in hand. *)
LEMMA ServedKept ==
    ASSUME NEW p \in Peers, NEW q \in Peers, Served(p, q), p # q,
           Entry(p)' = Entry(p),
           \A pr : Due(p, q, pr)' => Due(p, q, pr),
           entry'[p] # 0 => obj'[Entry(p)].consumers = obj[Entry(p)].consumers,
           \A r \in {p, q} : run'[r] = run[r] \/ run[r].pc \notin Looping
    PROVE  Served(p, q)'
<1> SUFFICES ASSUME NEW pr, Due(p, q, pr)'
             PROVE  HasConsumer(Entry(p), pr)' \/ Owed(p, q, pr)'
  BY DEF Served, Due
<1>1. HasConsumer(Entry(p), pr) \/ Owed(p, q, pr)
  BY DEF Served, Due
<1>2. CASE HasConsumer(Entry(p), pr)
  BY <1>2 DEF HasConsumer, Due, Receives
<1>3. CASE Owed(p, q, pr)
  BY <1>3 DEF Owed, InHand, Looping
<1>4. QED
  BY <1>1, <1>2, <1>3

(* The steps that make no transport, producer or peer state. *)
LEMMA ServedAfterStep ==
    ASSUME ServerTypes, TransportInv, NEW x \in Peers, ServerStep(x),
           ~FinishJoin(x), ~TransportCreated(x), ~Produced(x),
           NEW p \in Peers, NEW q \in Peers, Served(p, q), OnOpenTransport(p), OnOpenTransport(q)
    PROVE  Served(p, q)'
<1> SUFFICES ASSUME NEW pr, Due(p, q, pr)'
             PROVE  HasConsumer(Entry(p), pr)' \/ Owed(p, q, pr)'
  BY DEF Served, Due
<1>1. /\ entry[p] # 0 /\ entry[q] # 0 /\ q # p
      /\ Entry(p)' = Entry(p) /\ Entry(q)' = Entry(q) /\ UNCHANGED entry
  BY SourcesOfStep DEF Due, Receives, Entry
<1>2. /\ obj'[Entry(p)].recv = obj[Entry(p)].recv
      /\ obj'[Entry(q)].producers = obj[Entry(q)].producers
  <2>1. entry[p] \in 1 .. MaxObjects /\ entry[q] \in 1 .. MaxObjects
    BY <1>1, BoundAssumption DEF ServerTypes, Typed
  <2>2. SameSources(p) /\ SameSources(q)
    BY SourcesOfStep
  <2>3. QED
    BY <2>1, <2>2 DEF SameSources, Entry
<1>3. Entry(p) \in Objects
  BY <1>1, EntryType
<1>4. obj'[Entry(p)].caps = obj[Entry(p)].caps
  BY <1>3, ConsumersOfStep
<1>5. Due(p, q, pr)
  BY <1>1, <1>2, <1>4 DEF Due, Receives
<1>6. HasConsumer(Entry(p), pr) \/ Owed(p, q, pr)
  BY <1>5 DEF Served, Due
<1>7. CASE HasConsumer(Entry(p), pr)
  <2>1. \E c \in obj'[Entry(p)].consumers : c.producer = pr
    BY <1>3, <1>5, <1>7, ConsumersOfStep, DueFacts
  <2>2. QED
    BY <1>1, <2>1 DEF HasConsumer
<1>8. CASE ~HasConsumer(Entry(p), pr) /\ Owed(p, q, pr)
  <2>1. PICK r \in {p, q} : Has(r, p, q, pr)
    BY <1>8 DEF Owed, Has
  <2>2. (\E c \in obj'[Entry(p)].consumers : c.producer = pr) \/ Has(r, p, q, pr)'
    BY <1>5, <1>8, <2>1, HandKept
  <2>3. QED
    BY <1>1, <2>2 DEF HasConsumer, Owed, Has
<1>9. QED
  BY <1>6, <1>7, <1>8

(* A join: its peer's loop will come to everything. *)
LEMMA ServedAfterJoin ==
    ASSUME ServerTypes, TransportInv, NEW x \in Peers, FinishJoin(x),
           NEW p \in Peers, NEW q \in Peers, Served(p, q), p # q
    PROVE  Served(p, q)'
<1>1. CASE p = x
  <2>1. run'[p] = Loop(Entry(p)', None, TRUE)
    BY <1>1, JoinedPlace
  <2>2. run'[p].pc = "loop" /\ run'[p].over = None /\ run'[p].seen = {} /\ run'[p].inRoom
    BY <2>1 DEF Loop, Idle
  <2>3. QED
    BY <2>2 DEF Served, Owed, InHand, Looping
<1>2. CASE p # x
  <2>1. /\ run'[p] = run[p] /\ entry'[p] = entry[p]
        /\ q # x => run'[q] = run[q] /\ entry'[q] = entry[q]
    BY <1>2, OwnStep DEF ServerStep
  <2>2. q = x => run[q].pc \notin Looping
    BY DEF FinishJoin, Looping
  <2>3. ASSUME entry'[p] # 0 PROVE obj'[Entry(p)] = obj[Entry(p)]
    <3>1. Entry(p) \in Objects /\ Entry(p)[1] = p
      BY <2>1, <2>3, EntryType
    <3>2. Entry(p) # Entry(x)'
      BY <1>2 DEF Entry
    <3>3. QED
      BY <3>1, <3>2, JoinedPlace
  <2>4. ASSUME NEW pr, Due(p, q, pr)' PROVE Due(p, q, pr)
    <3>1. Entry(p)' = Entry(p) /\ obj'[Entry(p)] = obj[Entry(p)] /\ Receives(p)
      BY <2>1, <2>3, <2>4 DEF Due, Receives, Entry
    <3>2. entry[q] # 0 /\ obj'[Entry(q)'].producers = obj[Entry(q)].producers
      <4>1. CASE q = x
        BY <2>4, <4>1, JoinedPlace DEF Due
      <4>2. CASE q # x
        <5>1. Entry(q)' = Entry(q) /\ entry[q] # 0
          BY <2>1, <2>4, <4>2 DEF Entry, Due
        <5>2. Entry(q) \in Objects /\ Entry(q) # Entry(x)'
          BY <4>2, <5>1, EntryType DEF Entry
        <5>3. QED
          BY <5>1, <5>2, JoinedPlace
      <4>3. QED
        BY <4>1, <4>2
    <3>3. QED
      BY <2>4, <3>1, <3>2 DEF Due
  <2>5. Entry(p)' = Entry(p)
    BY <2>1 DEF Entry
  <2>6. QED
    BY <2>1, <2>2, <2>3, <2>4, <2>5, ServedKept
<1>3. QED
  BY <1>1, <1>2

(* A transport: a receiving one starts its peer's loop, a sending one concerns nobody. *)
LEMMA ServedAfterCreate ==
    ASSUME ServerTypes, TransportInv, NEW x \in Peers, TransportCreated(x),
           NEW p \in Peers, NEW q \in Peers, Served(p, q), p # q
    PROVE  Served(p, q)'
<1> DEFINE t == <<x, opened[x] + 1>>
<1> DEFINE o == run[x].obj
<1> DEFINE b == Head(queue[x]).dir = "recv" /\ run[x].inRoom
<1>1. /\ \/ Head(queue[x]).dir = "send" /\ obj' = [obj EXCEPT ![o].send = t]
         \/ Head(queue[x]).dir = "recv" /\ obj' = [obj EXCEPT ![o].recv = t]
      /\ run' = [run EXCEPT ![x] = Loop(o, None, b)]
      /\ UNCHANGED entry
      /\ run[x].pc \notin Looping
  <2>1. queue[x] # <<>> /\ Head(queue[x]).type = "create"
    BY WaitingType DEF TransportCreated, Waiting
  <2>2. Head(queue[x]).dir \in {"send", "recv"}
    BY <2>1, RunningType
  <2>3. QED
    BY <2>2 DEF TransportCreated, AfterCreate, Looping
<1>2. /\ o \in Objects /\ o[1] = x /\ obj[o] \in State
      /\ entry[x] # 0 => run[x].inRoom
      /\ Entry(p)' = Entry(p) /\ Entry(q)' = Entry(q)
  BY <1>1, WaitingType DEF TransportCreated, Waiting, TransportInv, Held, Entry
<1>3. CASE p = x /\ Head(queue[x]).dir = "recv"
  <2>1. run'[p] = Loop(o, None, b)
    BY <1>1, <1>3 DEF ServerTypes, Typed
  <2>2. run'[p].pc = "loop" /\ run'[p].over = None /\ run'[p].seen = {} /\ run'[p].inRoom = b
    BY <2>1 DEF Loop, Idle
  <2>3. entry[p] # 0 => b
    BY <1>2, <1>3
  <2> HIDE DEF b
  <2>4. QED
    BY <1>1, <2>2, <2>3 DEF Served, Receives, Owed, InHand, Looping
<1>4. CASE p # x \/ Head(queue[x]).dir = "send"
  <2> HIDE DEF t, o, b
  <2>1. \A r \in {p, q} : run'[r] = run[r] \/ run[r].pc \notin Looping
    BY <1>1 DEF ServerTypes, Typed
  <2>2. \A u \in Objects : u # o => obj'[u] = obj[u]
    BY <1>1 DEF ServerTypes, Typed
  <2>3. /\ obj'[o].producers = obj[o].producers /\ obj'[o].consumers = obj[o].consumers
        /\ obj'[o].caps = obj[o].caps
        /\ Head(queue[x]).dir = "send" => obj'[o].recv = obj[o].recv
    <3>1. \/ Head(queue[x]).dir = "send" /\ obj'[o] = [obj[o] EXCEPT !.send = t]
          \/ Head(queue[x]).dir = "recv" /\ obj'[o] = [obj[o] EXCEPT !.recv = t]
      BY <1>1, <1>2 DEF ServerTypes, Typed
    <3>2. QED
      BY <1>2, <3>1 DEF State
  <2>4. ASSUME entry[p] # 0
        PROVE  /\ obj'[Entry(p)].consumers = obj[Entry(p)].consumers
               /\ obj'[Entry(p)].caps = obj[Entry(p)].caps /\ obj'[Entry(p)].recv = obj[Entry(p)].recv
    <3>1. Entry(p) \in Objects /\ Entry(p)[1] = p
      BY <2>4, EntryType
    <3>2. QED
      BY <1>2, <1>4, <2>2, <2>3, <3>1
  <2>5. ASSUME entry[q] # 0 PROVE obj'[Entry(q)].producers = obj[Entry(q)].producers
    BY <2>2, <2>3, <2>5, EntryType
  <2>6. ASSUME NEW pr, Due(p, q, pr)' PROVE Due(p, q, pr)
    BY <1>1, <1>2, <2>4, <2>5, <2>6 DEF Due, Receives
  <2>7. QED
    BY <1>1, <1>2, <2>1, <2>4, <2>6, ServedKept
<1>5. QED
  BY <1>1, <1>3, <1>4

(* A producer: its peer's loop will come to every other peer with it. *)
LEMMA ServedAfterProduce ==
    ASSUME ServerTypes, TransportInv, NEW x \in Peers, Produced(x),
           NEW p \in Peers, NEW q \in Peers, Served(p, q), p # q
    PROVE  Served(p, q)'
<1> DEFINE new == Producer(Head(queue[x]).transport, Head(queue[x]).kind)
<1> DEFINE o == run[x].obj
<1>1. /\ obj' = [obj EXCEPT ![o].producers = @ \cup {new}]
      /\ run' = [run EXCEPT ![x] = Loop(o, new, run[x].inRoom)]
      /\ UNCHANGED entry
      /\ run[x].pc \notin Looping
  BY DEF Produced, AfterProduce, Looping
<1>2. /\ o \in Objects /\ o[1] = x /\ obj[o] \in State
      /\ entry[x] # 0 => run[x].inRoom /\ o = Entry(x)
      /\ Entry(p)' = Entry(p) /\ Entry(q)' = Entry(q)
  BY <1>1, WaitingType DEF Produced, Waiting, TransportInv, Held, Entry
<1> HIDE DEF new, o
<1>3. \A u \in Objects : u # o => obj'[u] = obj[u]
  BY <1>1 DEF ServerTypes, Typed
<1>4. /\ obj'[o].producers = obj[o].producers \cup {new}
      /\ obj'[o].consumers = obj[o].consumers
      /\ obj'[o].caps = obj[o].caps /\ obj'[o].recv = obj[o].recv
  <2>1. obj'[o] = [obj[o] EXCEPT !.producers = @ \cup {new}]
    BY <1>1, <1>2 DEF ServerTypes, Typed
  <2>2. QED
    BY <1>2, <2>1 DEF State
<1>5. \A r \in {p, q} : run'[r] = run[r] \/ run[r].pc \notin Looping
  BY <1>1 DEF ServerTypes, Typed
<1>6. ASSUME entry[p] # 0
      PROVE  /\ obj'[Entry(p)].consumers = obj[Entry(p)].consumers
             /\ obj'[Entry(p)].caps = obj[Entry(p)].caps /\ obj'[Entry(p)].recv = obj[Entry(p)].recv
  <2>1. Entry(p) \in Objects
    BY <1>6, EntryType
  <2>2. QED
    BY <1>3, <1>4, <2>1
<1>7. ASSUME NEW pr, Due(p, q, pr)', ~(q = x /\ pr = new) PROVE Due(p, q, pr)
  <2>1. entry[p] # 0 /\ entry[q] # 0 /\ Receives(p)
    BY <1>1, <1>2, <1>6, <1>7 DEF Due, Receives
  <2>2. Entry(q) \in Objects /\ Entry(q)[1] = q
    BY <2>1, EntryType
  <2>3. pr \in obj[Entry(q)].producers
    BY <1>2, <1>3, <1>4, <1>7, <2>2 DEF Due
  <2>4. QED
    BY <1>1, <1>7, <2>1, <2>3 DEF Due
<1>8. CASE q # x
  <2>1. \A pr : Due(p, q, pr)' => Due(p, q, pr)
    BY <1>7, <1>8
  <2>2. QED
    BY <1>1, <1>2, <1>5, <1>6, <2>1, ServedKept
<1>9. CASE q = x
  <2> SUFFICES ASSUME NEW pr, Due(p, q, pr)'
               PROVE  HasConsumer(Entry(p), pr)' \/ Owed(p, q, pr)'
    BY DEF Served, Due
  <2>1. entry[p] # 0 /\ entry[q] # 0
    BY <1>1 DEF Due, Receives
  <2>2. CASE pr = new
    <3>1. run'[q] = Loop(o, new, run[q].inRoom)
      BY <1>1, <1>9 DEF ServerTypes, Typed
    <3>2. run'[q].pc = "loop" /\ run'[q].over = pr /\ run'[q].seen = {} /\ run'[q].inRoom
      BY <1>2, <1>9, <2>1, <2>2, <3>1 DEF Loop, Idle
    <3>3. QED
      BY <3>2 DEF Owed, InHand, Looping
  <2>3. CASE pr # new
    <3>1. HasConsumer(Entry(p), pr) \/ Owed(p, q, pr)
      BY <1>7, <2>3 DEF Served, Due
    <3>2. CASE HasConsumer(Entry(p), pr)
      BY <1>2, <1>6, <2>1, <3>2 DEF HasConsumer
    <3>3. CASE Owed(p, q, pr)
      BY <1>2, <1>5, <3>3 DEF Owed, InHand, Looping
    <3>4. QED
      BY <3>1, <3>2, <3>3
  <2>4. QED
    BY <2>2, <2>3
<1>10. QED
  BY <1>8, <1>9

(* The end of a room's creation concerns only the joins that waited for it. *)
LEMMA MissedAfterCreation ==
    ASSUME ServerTypes, MissedInv, RoomCreated \/ RoomFailed
    PROVE  MissedInv'
<1>1. /\ UNCHANGED <<entry, obj, live>>
      /\ \A r \in Peers : r \notin Awaiting => run'[r] = run[r]
      /\ \A r \in Peers : r \in Awaiting => run'[r].pc \in {"woken", "idle"} /\ run[r].pc = "room"
  BY StageForms DEF RoomCreated, RoomFailed, Awaiting
<1>2. ASSUME NEW r \in Peers PROVE OnOpenTransport(r)'
  <2>1. OnOpenTransport(r)
    BY DEF MissedInv
  <2>2. run'[r].pc = "consume" => run'[r] = run[r]
    BY <1>1
  <2>3. QED
    BY <1>1, <2>1, <2>2 DEF OnOpenTransport, Entry
<1>3. ASSUME NEW p \in Peers, NEW q \in Peers PROVE Served(p, q)'
  <2>1. Served(p, q) /\ Entry(p)' = Entry(p) /\ Entry(q)' = Entry(q)
    BY <1>1 DEF MissedInv, Entry
  <2>2. \A pr : Due(p, q, pr)' => Due(p, q, pr)
    BY <1>1, <2>1 DEF Due, Receives
  <2>3. \A r \in {p, q} : run'[r] = run[r] \/ run[r].pc \notin Looping
    BY <1>1 DEF Looping
  <2>4. CASE p # q
    BY <1>1, <2>1, <2>2, <2>3, <2>4, ServedKept
  <2>5. CASE p = q
    BY <2>5 DEF Served
  <2>6. QED
    BY <2>4, <2>5
<1>4. QED
  BY <1>2, <1>3 DEF MissedInv

(* The server misses nobody. *)
LEMMA ServerMissed ==
    ASSUME ServerTypes, TransportInv, MissedInv, ServerNext
    PROVE  MissedInv'
<1>1. CASE RoomCreated \/ RoomFailed
  BY <1>1, MissedAfterCreation
<1>2. ASSUME NEW x \in Peers, ServerStep(x) PROVE MissedInv'
  <2>1. \A r \in Peers : OnOpenTransport(r)'
    BY <1>2, OpenOfStep DEF MissedInv
  <2>2. ASSUME NEW p \in Peers, NEW q \in Peers PROVE Served(p, q)'
    <3>1. Served(p, q) /\ OnOpenTransport(p) /\ OnOpenTransport(q)
      BY DEF MissedInv
    <3>2. CASE p = q
      BY <3>2 DEF Served
    <3>3. CASE p # q
      BY <1>2, <3>1, <3>3, ServedAfterStep, ServedAfterJoin, ServedAfterCreate, ServedAfterProduce
    <3>4. QED
      BY <3>2, <3>3
  <2>3. QED
    BY <2>1, <2>2 DEF MissedInv
<1>3. QED
  BY <1>1, <1>2 DEF ServerNext

(* Nor do the clients. *)
LEMMA ClientMissed ==
    ASSUME ServerTypes, TransportInv, MissedInv, NEW x \in Peers, ClientEffect(x)
    PROVE  MissedInv'
<1>1. \A r \in Peers : /\ run'[r].pc = run[r].pc /\ run'[r].target = run[r].target
  BY LeaveStages DEF ClientEffect
<1>2. CASE Stays
  BY <1>2 DEF Stays, MissedInv, OnOpenTransport, Served, Receives, HasConsumer, Owed, InHand, Entry
<1>3. CASE Leaves(x)
  <2>1. /\ Entry(x) \in Objects /\ entry[x] # 0
        /\ \A r \in Peers : r # x => entry'[r] = entry[r]
        /\ entry'[x] = 0
        /\ \A o \in Objects : o # Entry(x) => obj'[o] = obj[o]
    <3>1. /\ Entry(x) \in Objects /\ entry[x] # 0
          /\ entry' = [entry EXCEPT ![x] = 0]
          /\ obj' = [obj EXCEPT ![Entry(x)] = obj'[Entry(x)]]
      BY <1>3, LeaveFacts
    <3>2. \A o \in Objects : o # Entry(x) => obj'[o] = obj[o]
      BY <3>1 DEF ServerTypes, Typed
    <3>3. QED
      BY <3>1, <3>2 DEF ServerTypes, Typed
  <2>2. ASSUME NEW r \in Peers, entry'[r] # 0
        PROVE  /\ r # x /\ entry[r] # 0 /\ Entry(r)' = Entry(r) /\ Entry(r) \in Objects
               /\ obj'[Entry(r)] = obj[Entry(r)] /\ run' = run
               /\ live' = live \ {obj[Entry(x)].send, obj[Entry(x)].recv}
    <3>1. r # x /\ entry[r] # 0 /\ Entry(r)' = Entry(r) /\ Entry(r) # Entry(x)
      BY <2>1, <2>2 DEF Entry
    <3>2. r \in Others(x)
      BY <3>1 DEF Others
    <3>3. QED
      BY <1>3, <2>1, <3>1, <3>2, EntryType, LeaveFacts
  <2>3. ASSUME NEW r \in Peers PROVE OnOpenTransport(r)'
    <3> DEFINE o == run[r].target.obj
    <3> DEFINE t == run[r].target.recv
    <3>1. CASE run[r].pc = "consume" /\ entry'[o[1]] # 0 /\ o = Entry(o[1])'
      <4>1. o[1] \in Peers /\ t # None
        BY <3>1, TargetType, NoneAssumption DEF Transport
      <4>2. /\ entry[o[1]] # 0 /\ o = Entry(o[1]) /\ o[1] # x
            /\ live' = live \ {obj[Entry(x)].send, obj[Entry(x)].recv}
        BY <2>2, <3>1, <4>1
      <4>3. t[1] = o[1] /\ t \in live
        BY <3>1, <4>2 DEF MissedInv, OnOpenTransport
      <4>4. OfPeer(x, obj[Entry(x)].send, opened[x]) /\ OfPeer(x, obj[Entry(x)].recv, opened[x])
        <5>1. entry[x] \in 1 .. MaxObjects
          BY <2>1, BoundAssumption DEF ServerTypes, Typed
        <5>2. QED
          BY <5>1 DEF TransportInv, Sources, Entry
      <4>5. t \in live'
        BY <4>1, <4>2, <4>3, <4>4 DEF OfPeer
      <4>6. OnOpenTransport(r)
        BY DEF MissedInv
      <4> HIDE DEF o, t
      <4>7. QED
        BY <1>1, <4>2, <4>5, <4>6, OpenKept DEF o, t
    <3>2. CASE ~(run[r].pc = "consume" /\ entry'[o[1]] # 0 /\ o = Entry(o[1])')
      BY <1>1, <3>2, OpenKept DEF MissedInv
    <3>3. QED
      BY <3>1, <3>2
  <2>4. ASSUME NEW p \in Peers, NEW q \in Peers PROVE Served(p, q)'
    <3>1. CASE p # q /\ entry'[p] # 0 /\ entry'[q] # 0
      <4>1. /\ Entry(p)' = Entry(p) /\ Entry(q)' = Entry(q) /\ entry[p] # 0 /\ entry[q] # 0
            /\ obj'[Entry(p)] = obj[Entry(p)] /\ obj'[Entry(q)] = obj[Entry(q)] /\ run' = run
        BY <2>2, <3>1
      <4>2. \A pr : Due(p, q, pr)' => Due(p, q, pr)
        BY <3>1, <4>1 DEF Due, Receives
      <4>3. Served(p, q)
        BY DEF MissedInv
      <4>4. QED
        BY <3>1, <4>1, <4>2, <4>3, ServedKept
    <3>2. CASE ~(p # q /\ entry'[p] # 0 /\ entry'[q] # 0)
      BY <3>2 DEF Served, Receives
    <3>3. QED
      BY <3>1, <3>2
  <2>5. QED
    BY <2>3, <2>4 DEF MissedInv
<1>4. QED
  BY <1>2, <1>3 DEF ClientEffect

(* In every reachable state what a peer is owed is there or in hand. *)
LEMMA MissedHolds == Spec => []MissedInv
<1>1. Init => MissedInv
  BY StageForms DEF Init, ServerInit, MissedInv, OnOpenTransport, Served, Receives
<1>2. Types /\ TransportInv /\ MissedInv /\ [Next]_vars => MissedInv'
  <2> SUFFICES ASSUME Types, TransportInv, MissedInv, [Next]_vars PROVE MissedInv'
    OBVIOUS
  <2>1. CASE ServerNext
    BY <2>1, ServerMissed DEF Types
  <2>2. ASSUME NEW p \in Peers, ClientStep(p) PROVE MissedInv'
    BY <2>2, ClientStepTypes, ClientMissed DEF Types
  <2>3. CASE UNCHANGED vars
    BY <2>3 DEF vars, serverVars, MissedInv, OnOpenTransport, Served, Receives, HasConsumer, Owed,
                InHand, Entry
  <2>4. QED
    BY <2>1, <2>2, <2>3 DEF Next
<1>3. QED
  BY <1>1, <1>2, TypesHold, TransportsHold, PTL DEF Spec

(***************************************************************************)
(* Nobody is missed, for any number of peers: whatever the interleaving of *)
(* newcomers' loops over producers with producers' loops over peers, and   *)
(* of leaves in the middle of both, once all is still every peer that can  *)
(* receive has a consumer for every producer of the others.                *)
(***************************************************************************)
THEOREM NobodyIsMissed == Spec => []NobodyMissed
<1>1. Types /\ MissedInv => NobodyMissed
  <2> SUFFICES ASSUME Types, MissedInv, Still,
                      NEW p \in Peers, NEW q \in Others(p),
                      Registered(p), obj[Entry(p)].caps, obj[Entry(p)].recv # None,
                      NEW pr \in obj[Entry(q)].producers
               PROVE  HasConsumer(Entry(p), pr)
    BY DEF NobodyMissed
  <2>1. q \in Peers /\ q # p /\ entry[q] # 0 /\ Receives(p)
    BY DEF Others, Registered, Receives
  <2>2. HasConsumer(Entry(p), pr) \/ Owed(p, q, pr)
    BY <2>1 DEF MissedInv, Served
  <2>3. \A r \in {p, q} : run[r].pc = "idle"
    BY <2>1, StageForms DEF Still, Types, ServerTypes, StageOf
  <2>4. QED
    BY <2>2, <2>3 DEF Owed, InHand, Looping
<1>2. QED
  BY <1>1, TypesHold, MissedHolds, PTL

-----------------------------------------------------------------------------
(* Answers to produce requests.                                            *)
(*                                                                         *)
(* A client's callbacks, the requests the server has not answered and the  *)
(* messages the client has not read are compared by the number of the      *)
(* transport each names.  Numbers only grow, a message of a new transport  *)
(* comes after all that was asked of older ones, and one produce at a time *)
(* is between its request and the reading of its answer.                   *)

SendCreated(m) == m.type = "created" /\ m.dir = "send"
IsProduced(m) == m.type = "produced"
IsError(m) == m.type = "error"
Asks(op) == Producer(op.transport, op.kind)

\* The operations of p whose answer has not been sent, the first one running.
Unanswered(p) == IF run[p].pc \in {"loop", "consume"} THEN Tail(queue[p]) ELSE queue[p]

\* The number of the transport that an operation of the peer state o may name, if it has one.
Number(t) == IF t = None THEN 0 ELSE t[2]
SendNumber(p) == IF entry[p] = 0 THEN 0 ELSE Number(obj[Entry(p)].send)
RecvNumber(p) == IF entry[p] = 0 THEN 0 ELSE Number(obj[Entry(p)].recv)

\* Requests, messages and callbacks name transports in the order of their making: W has the
\* operations not answered, I the messages not read, C the callbacks.
RequestsInOrder(W) ==
    \A i, j \in DOMAIN W : i < j /\ W[i].type = "produce" /\ W[j].type = "produce" =>
        W[i].transport[2] < W[j].transport[2]
MessagesInOrder(I) ==
    \A i, j \in DOMAIN I : i < j /\ SendCreated(I[i]) =>
        /\ ~IsProduced(I[j])
        /\ SendCreated(I[j]) => I[i].transport[2] < I[j].transport[2]
CallbacksInOrder(C) == \A i, j \in DOMAIN C : i < j => C[i].transport[2] < C[j].transport[2]

\* A send transport the client has not heard of is newer than all that it asks about.
NewsIsNewer(W, I, C) ==
    \A i \in DOMAIN I : SendCreated(I[i]) =>
        /\ \A j \in DOMAIN W : W[j].type = "produce" => W[j].transport[2] < I[i].transport[2]
        /\ \A j \in DOMAIN I : IsProduced(I[j]) => I[j].producer.transport[2] < I[i].transport[2]
        /\ \A j \in DOMAIN C : C[j].transport[2] < I[i].transport[2]

\* One produce at a time is answered with a producer.
OneAnswer(W, I) ==
    \A i \in DOMAIN I : IsProduced(I[i]) =>
        /\ \A j \in DOMAIN W : W[j].type # "produce"
        /\ \A j \in DOMAIN I : IsProduced(I[j]) => i = j

\* Every callback will hear something, or an error ends its call.
WillHear(W, I, C) ==
    \A c \in DOMAIN C :
        \/ \E i \in DOMAIN W : W[i].type = "produce" /\ C[c] = Asks(W[i])
        \/ \E i \in DOMAIN I : IsProduced(I[i]) /\ I[i].producer = C[c]
        \/ \E i \in DOMAIN I : IsError(I[i])

\* Nobody else listens to the answer, unless an error comes before it.
ListensAlone(I, C) ==
    \A i \in DOMAIN I : IsProduced(I[i]) =>
        \A c \in DOMAIN C : C[c] = I[i].producer \/ \E e \in 1 .. i - 1 : IsError(I[e])

\* The same of the request that mediasoup is answering.
AskedAlone(W, I, C) ==
    /\ W # <<>> /\ W[1].type = "produce"
    /\ \A i \in DOMAIN W : W[i].type = "produce" => i = 1
    /\ \A i \in DOMAIN I : ~SendCreated(I[i])
    /\ \A c \in DOMAIN C : C[c] = Asks(W[1]) \/ \E e \in DOMAIN I : IsError(I[e])

\* A request can name no send transport later than the present one, nor the receive transport.
Known(t, n, send, recv) == t[2] \in 1 .. n /\ t[2] # recv /\ (send # 0 => t[2] <= send)
AllKnown(W, I, C, n, send, recv) ==
    /\ \A i \in DOMAIN W : W[i].type = "produce" => Known(W[i].transport, n, send, recv)
    /\ \A i \in DOMAIN I : SendCreated(I[i]) => Known(I[i].transport, n, send, recv)
    /\ \A i \in DOMAIN I : IsProduced(I[i]) => Known(I[i].producer.transport, n, send, recv)
    /\ \A i \in DOMAIN C : C[i].transport[2] \in 1 .. n

Viewed(W, I, C, n, send, recv, asked) ==
    /\ RequestsInOrder(W)
    /\ MessagesInOrder(I)
    /\ CallbacksInOrder(C)
    /\ NewsIsNewer(W, I, C)
    /\ OneAnswer(W, I)
    /\ WillHear(W, I, C)
    /\ ListensAlone(I, C)
    /\ AllKnown(W, I, C, n, send, recv)
    /\ asked => AskedAlone(W, I, C)

View(p) == Viewed(Unanswered(p), inbox[p], callbacks[p],
                  opened[p], SendNumber(p), RecvNumber(p), run[p].pc = "produce")

AnswersInv ==
    \A p \in Peers : socket[p] = "open" =>
        /\ View(p)
        /\ callbacks[p] # <<>> => screen[p] = "call"

(* The elements of a sequence and of its tail. *)
LEMMA TailElements ==
    ASSUME NEW S, NEW s \in Seq(S), s # <<>>
    PROVE  /\ Tail(s) \in Seq(S) /\ Head(s) = s[1] /\ 1 \in DOMAIN s
           /\ \A i \in DOMAIN Tail(s) : i \in Nat \ {0} /\ i + 1 \in DOMAIN s /\ Tail(s)[i] = s[i + 1]
           /\ \A i \in DOMAIN s : i = 1 \/ (i - 1 \in DOMAIN Tail(s) /\ Tail(s)[i - 1] = s[i])
           /\ \A i \in DOMAIN s : i \in Nat \ {0}
  OBVIOUS

(* The elements of a sequence that grew by one. *)
LEMMA AppendElements ==
    ASSUME NEW S, NEW s \in Seq(S), NEW x \in S
    PROVE  /\ Append(s, x) \in Seq(S)
           /\ \A i \in DOMAIN s : i \in Nat \ {0} /\ i < Len(s) + 1
                                  /\ i \in DOMAIN Append(s, x) /\ Append(s, x)[i] = s[i]
           /\ Len(s) + 1 \in DOMAIN Append(s, x) /\ Append(s, x)[Len(s) + 1] = x
           /\ \A i \in DOMAIN Append(s, x) : i \in DOMAIN s \/ i = Len(s) + 1
           /\ Len(s) \in Nat /\ Len(s) + 1 \notin DOMAIN s
  OBVIOUS

(* A message that is no news of a produce changes nothing. *)
LEMMA MessageAppended ==
    ASSUME NEW W, NEW I \in Seq(Message), NEW C, NEW n, NEW s, NEW r, NEW b,
           Viewed(W, I, C, n, s, r, b),
           NEW m \in Message, ~SendCreated(m), ~IsProduced(m)
    PROVE  Viewed(W, Append(I, m), C, n, s, r, b)
<1> DEFINE J == Append(I, m)
<1>1. /\ \A i \in DOMAIN I : i \in Nat \ {0} /\ i < Len(I) + 1 /\ i \in DOMAIN J /\ J[i] = I[i]
      /\ \A i \in DOMAIN J : i \in DOMAIN I \/ (i = Len(I) + 1 /\ J[i] = m)
  BY AppendElements
<1>2. \A i \in DOMAIN J : SendCreated(J[i]) \/ IsProduced(J[i]) => i \in DOMAIN I /\ J[i] = I[i]
  BY <1>1
<1>3. RequestsInOrder(W) /\ CallbacksInOrder(C)
  BY DEF Viewed
<1> HIDE DEF J
<1>4. MessagesInOrder(J)
  BY <1>2 DEF Viewed, MessagesInOrder
<1>5. NewsIsNewer(W, J, C)
  BY <1>2 DEF Viewed, NewsIsNewer
<1>6. OneAnswer(W, J)
  BY <1>2 DEF Viewed, OneAnswer
<1>7. WillHear(W, J, C)
  BY <1>1 DEF Viewed, WillHear
<1>8. ListensAlone(J, C)
  <2> SUFFICES ASSUME NEW i \in DOMAIN J, IsProduced(J[i]), NEW c \in DOMAIN C
               PROVE  C[c] = J[i].producer \/ \E e \in 1 .. i - 1 : IsError(J[e])
    BY DEF ListensAlone
  <2>1. i \in DOMAIN I /\ J[i] = I[i]
    BY <1>2
  <2>2. \A e \in 1 .. i - 1 : e \in DOMAIN I /\ J[e] = I[e]
    BY <1>1, <2>1
  <2>3. QED
    BY <2>1, <2>2 DEF Viewed, ListensAlone
<1>9. AllKnown(W, J, C, n, s, r)
  BY <1>2 DEF Viewed, AllKnown
<1>10. b => AskedAlone(W, J, C)
  BY <1>1, <1>2 DEF Viewed, AskedAlone
<1>11. QED
  BY <1>3, <1>4, <1>5, <1>6, <1>7, <1>8, <1>9, <1>10 DEF Viewed, J

(* Transports that are newer, or gone, put nothing out of order. *)
LEMMA NumbersMove ==
    ASSUME NEW W, NEW I, NEW C, NEW n \in Nat, NEW s \in Nat, NEW r \in Nat, NEW b,
           Viewed(W, I, C, n, s, r, b),
           NEW n2 \in Nat, NEW s2 \in Nat, NEW r2 \in Nat, n2 >= n,
           s2 \in {0, s} \/ s2 > n, r2 \in {0, r} \/ r2 > n
    PROVE  Viewed(W, I, C, n2, s2, r2, b)
<1>1. \A t : Known(t, n, s, r) => Known(t, n2, s2, r2)
  BY DEF Known
<1>2. AllKnown(W, I, C, n, s, r)
  BY DEF Viewed
<1>3. \A i \in DOMAIN C : C[i].transport[2] \in 1 .. n2
  BY <1>2 DEF AllKnown
<1>4. AllKnown(W, I, C, n2, s2, r2)
  BY <1>1, <1>2, <1>3 DEF AllKnown
<1>5. QED
  BY <1>4 DEF Viewed

(* The first operation is over: one that is no produce, or one that fails and is told so. *)
LEMMA OperationOver ==
    ASSUME NEW W \in Seq(Operation), W # <<>>, NEW I \in Seq(Message), NEW C,
           NEW n, NEW s, NEW r, NEW b, Viewed(W, I, C, n, s, r, b),
           W[1].type # "produce" \/ \E i \in DOMAIN I : IsError(I[i])
    PROVE  Viewed(Tail(W), I, C, n, s, r, FALSE)
<1> DEFINE V == Tail(W)
<1>1. /\ \A i \in DOMAIN V : i \in Nat \ {0} /\ i + 1 \in DOMAIN W /\ V[i] = W[i + 1]
      /\ \A i \in DOMAIN W : i = 1 \/ (i - 1 \in DOMAIN V /\ V[i - 1] = W[i])
  BY TailElements
<1>2. MessagesInOrder(I) /\ CallbacksInOrder(C) /\ ListensAlone(I, C)
  BY DEF Viewed
<1> HIDE DEF V
<1>3. RequestsInOrder(V)
  <2> SUFFICES ASSUME NEW i \in DOMAIN V, NEW j \in DOMAIN V, i < j,
                      V[i].type = "produce", V[j].type = "produce"
               PROVE  V[i].transport[2] < V[j].transport[2]
    BY DEF RequestsInOrder
  <2>1. i + 1 \in DOMAIN W /\ j + 1 \in DOMAIN W /\ i + 1 < j + 1 /\ V[i] = W[i + 1] /\ V[j] = W[j + 1]
    BY <1>1
  <2>2. QED
    BY <2>1 DEF Viewed, RequestsInOrder
<1>4. NewsIsNewer(V, I, C)
  <2>1. \A j \in DOMAIN V : \E i \in DOMAIN W : V[j] = W[i]
    BY <1>1
  <2>2. QED
    BY <2>1 DEF Viewed, NewsIsNewer
<1>5. OneAnswer(V, I)
  <2>1. \A j \in DOMAIN V : \E i \in DOMAIN W : V[j] = W[i]
    BY <1>1
  <2>2. QED
    BY <2>1 DEF Viewed, OneAnswer
<1>6. WillHear(V, I, C)
  <2>1. \A i \in DOMAIN W : W[i].type = "produce" =>
            (\E e \in DOMAIN I : IsError(I[e])) \/ \E j \in DOMAIN V : V[j] = W[i]
    BY <1>1
  <2>2. QED
    BY <2>1 DEF Viewed, WillHear
<1>7. AllKnown(V, I, C, n, s, r)
  <2>1. \A j \in DOMAIN V : \E i \in DOMAIN W : V[j] = W[i]
    BY <1>1
  <2>2. QED
    BY <2>1 DEF Viewed, AllKnown
<1>8. QED
  BY <1>2, <1>3, <1>4, <1>5, <1>6, <1>7 DEF Viewed, V

(* mediasoup makes the producer, and the client is told. *)
LEMMA ProduceAnswered ==
    ASSUME NEW W \in Seq(Operation), W # <<>>, NEW I \in Seq(Message), NEW C,
           NEW n, NEW s, NEW r, Viewed(W, I, C, n, s, r, TRUE),
           ProducedMsg(Asks(W[1])) \in Message
    PROVE  Viewed(Tail(W), Append(I, ProducedMsg(Asks(W[1]))), C, n, s, r, FALSE)
<1> DEFINE V == Tail(W)
           m == ProducedMsg(Asks(W[1]))
           J == Append(I, m)
<1>1. /\ \A i \in DOMAIN V : i \in Nat \ {0} /\ i + 1 \in DOMAIN W /\ V[i] = W[i + 1]
      /\ \A i \in DOMAIN W : i = 1 \/ (i - 1 \in DOMAIN V /\ V[i - 1] = W[i])
      /\ 1 \in DOMAIN W
  BY TailElements
<1>2. /\ \A i \in DOMAIN I : i \in Nat \ {0} /\ i < Len(I) + 1 /\ i \in DOMAIN J /\ J[i] = I[i]
      /\ Len(I) + 1 \in DOMAIN J /\ J[Len(I) + 1] = m
      /\ \A i \in DOMAIN J : i \in DOMAIN I \/ (i = Len(I) + 1 /\ J[i] = m)
      /\ Len(I) \in Nat
  BY AppendElements
<1>3. /\ AskedAlone(W, I, C) /\ OneAnswer(W, I) /\ AllKnown(W, I, C, n, s, r)
      /\ WillHear(W, I, C) /\ ListensAlone(I, C) /\ CallbacksInOrder(C)
  BY DEF Viewed
<1>4. /\ m.type = "produced" /\ m.producer = Asks(W[1]) /\ Asks(W[1]).transport = W[1].transport
      /\ IsProduced(m) /\ ~SendCreated(m) /\ ~IsError(m)
  BY DEF ProducedMsg, Asks, Producer, IsProduced, SendCreated, IsError
<1> HIDE DEF V, J, m
<1>5. \A i \in DOMAIN V : V[i].type # "produce"
  BY <1>1, <1>3 DEF AskedAlone
<1>6. \A i \in DOMAIN J : ~SendCreated(J[i])
  BY <1>2, <1>3, <1>4 DEF AskedAlone
<1>7. \A i \in DOMAIN J : IsProduced(J[i]) => i = Len(I) + 1
  BY <1>1, <1>2, <1>3 DEF AskedAlone, OneAnswer
<1>8. RequestsInOrder(V) /\ MessagesInOrder(J) /\ NewsIsNewer(V, J, C)
  BY <1>5, <1>6 DEF RequestsInOrder, MessagesInOrder, NewsIsNewer
<1>9. OneAnswer(V, J)
  BY <1>5, <1>7 DEF OneAnswer
<1>10. ASSUME NEW c \in DOMAIN C PROVE C[c] = m.producer \/ \E e \in DOMAIN I : IsError(I[e])
  BY <1>3, <1>4 DEF AskedAlone
<1>11. WillHear(V, J, C)
  BY <1>2, <1>4, <1>10 DEF WillHear
<1>12. ListensAlone(J, C)
  <2> SUFFICES ASSUME NEW i \in DOMAIN J, IsProduced(J[i]), NEW c \in DOMAIN C
               PROVE  C[c] = J[i].producer \/ \E e \in 1 .. i - 1 : IsError(J[e])
    BY DEF ListensAlone
  <2>1. i = Len(I) + 1 /\ J[i] = m
    BY <1>2, <1>7
  <2>2. \A e \in DOMAIN I : e \in 1 .. i - 1 /\ J[e] = I[e]
    BY <1>2, <2>1
  <2>3. QED
    BY <1>10, <2>1, <2>2
<1>13. AllKnown(V, J, C, n, s, r)
  <2>1. Known(m.producer.transport, n, s, r)
    BY <1>1, <1>3, <1>4 DEF AskedAlone, AllKnown
  <2>2. \A i \in DOMAIN J : IsProduced(J[i]) => Known(J[i].producer.transport, n, s, r)
    BY <1>2, <1>7, <2>1
  <2>3. QED
    BY <1>3, <1>5, <1>6, <2>2 DEF AllKnown
<1>14. QED
  BY <1>3, <1>8, <1>9, <1>11, <1>12, <1>13 DEF Viewed, V, J, m

(* The client is told of a new send transport. *)
LEMMA TransportTold ==
    ASSUME NEW W, NEW I \in Seq(Message), NEW C,
           NEW n \in Nat, NEW s \in Nat, NEW r \in Nat, Viewed(W, I, C, n, s, r, FALSE), r <= n,
           NEW s2 \in {0, n + 1}, NEW m \in Message, SendCreated(m), m.transport[2] = n + 1
    PROVE  Viewed(W, Append(I, m), C, n + 1, s2, r, FALSE)
<1> DEFINE J == Append(I, m)
<1>1. Viewed(W, I, C, n + 1, s2, r, FALSE)
  <2>1. /\ n + 1 \in Nat /\ s2 \in Nat /\ n + 1 >= n
        /\ s2 \in {0, s} \/ s2 > n
        /\ r \in {0, r} \/ r > n
    OBVIOUS
  <2>2. QED
    BY <2>1, NumbersMove
<1>2. /\ \A i \in DOMAIN I : i \in Nat \ {0} /\ i < Len(I) + 1 /\ i \in DOMAIN J /\ J[i] = I[i]
      /\ \A i \in DOMAIN J : i \in DOMAIN I \/ (i = Len(I) + 1 /\ J[i] = m)
      /\ Len(I) \in Nat
  BY AppendElements
<1>3. /\ RequestsInOrder(W) /\ MessagesInOrder(I) /\ CallbacksInOrder(C) /\ NewsIsNewer(W, I, C)
      /\ OneAnswer(W, I) /\ WillHear(W, I, C) /\ ListensAlone(I, C) /\ AllKnown(W, I, C, n + 1, s2, r)
      /\ AllKnown(W, I, C, n, s, r)
  BY <1>1 DEF Viewed
<1>4. ~IsProduced(m)
  BY DEF SendCreated, IsProduced
<1> HIDE DEF J
<1>5. \A i \in DOMAIN J : IsProduced(J[i]) => i \in DOMAIN I /\ J[i] = I[i]
  BY <1>2, <1>4
<1>6. MessagesInOrder(J)
  <2> SUFFICES ASSUME NEW i \in DOMAIN J, NEW j \in DOMAIN J, i < j, SendCreated(J[i])
               PROVE  ~IsProduced(J[j]) /\ (SendCreated(J[j]) => J[i].transport[2] < J[j].transport[2])
    BY DEF MessagesInOrder
  <2>1. i \in DOMAIN I /\ J[i] = I[i]
    BY <1>2
  <2>2. CASE j \in DOMAIN I
    BY <1>2, <1>3, <2>1, <2>2 DEF MessagesInOrder
  <2>3. CASE j = Len(I) + 1
    <3>1. J[i].transport[2] < n + 1
      BY <1>3, <2>1 DEF AllKnown, Known
    <3>2. QED
      BY <1>2, <1>4, <2>3, <3>1
  <2>4. QED
    BY <1>2, <2>2, <2>3
<1>7. NewsIsNewer(W, J, C)
  <2> SUFFICES ASSUME NEW i \in DOMAIN J, SendCreated(J[i])
               PROVE  /\ \A j \in DOMAIN W : W[j].type = "produce" => W[j].transport[2] < J[i].transport[2]
                      /\ \A j \in DOMAIN J : IsProduced(J[j]) =>
                            J[j].producer.transport[2] < J[i].transport[2]
                      /\ \A j \in DOMAIN C : C[j].transport[2] < J[i].transport[2]
    BY DEF NewsIsNewer
  <2>1. CASE i \in DOMAIN I
    BY <1>2, <1>3, <1>5, <2>1 DEF NewsIsNewer
  <2>2. CASE J[i] = m
    <3>1. /\ \A j \in DOMAIN W : W[j].type = "produce" => W[j].transport[2] < n + 1
          /\ \A j \in DOMAIN I : IsProduced(I[j]) => I[j].producer.transport[2] < n + 1
          /\ \A j \in DOMAIN C : C[j].transport[2] < n + 1
      BY <1>3 DEF AllKnown, Known
    <3>2. QED
      BY <1>5, <2>2, <3>1
  <2>3. QED
    BY <1>2, <2>1, <2>2
<1>8. OneAnswer(W, J)
  BY <1>3, <1>5 DEF OneAnswer
<1>9. WillHear(W, J, C)
  BY <1>2, <1>3 DEF WillHear
<1>10. ListensAlone(J, C)
  <2> SUFFICES ASSUME NEW i \in DOMAIN J, IsProduced(J[i]), NEW c \in DOMAIN C
               PROVE  C[c] = J[i].producer \/ \E e \in 1 .. i - 1 : IsError(J[e])
    BY DEF ListensAlone
  <2>1. i \in DOMAIN I /\ J[i] = I[i]
    BY <1>5
  <2>2. \A e \in 1 .. i - 1 : e \in DOMAIN I /\ J[e] = I[e]
    BY <1>2, <2>1
  <2>3. QED
    BY <1>3, <2>1, <2>2 DEF ListensAlone
<1>11. AllKnown(W, J, C, n + 1, s2, r)
  <2>1. Known(m.transport, n + 1, s2, r)
    BY DEF Known
  <2>2. \A i \in DOMAIN J : SendCreated(J[i]) => Known(J[i].transport, n + 1, s2, r)
    BY <1>2, <1>3, <2>1 DEF AllKnown
  <2>3. QED
    BY <1>3, <1>5, <2>2 DEF AllKnown
<1>12. QED
  BY <1>3, <1>6, <1>7, <1>8, <1>9, <1>10, <1>11 DEF Viewed, J

(* A produce that mediasoup is asked for is the only one there is, and the only one listened for. *)
LEMMA ProduceStarted ==
    ASSUME NEW W \in Seq(Operation), W # <<>>, NEW I, NEW C \in Seq(ProducerId),
           NEW n \in Nat, NEW s \in Nat, NEW r \in Nat, Viewed(W, I, C, n, s, r, FALSE),
           W[1].type = "produce", W[1].transport[2] \in {s, r}
    PROVE  Viewed(W, I, C, n, s, r, TRUE)
<1>1. /\ RequestsInOrder(W) /\ NewsIsNewer(W, I, C) /\ OneAnswer(W, I) /\ WillHear(W, I, C)
      /\ AllKnown(W, I, C, n, s, r)
  BY DEF Viewed
<1>2. 1 \in DOMAIN W /\ \A i \in DOMAIN W : i \in Nat \ {0}
  BY TailElements
<1>3. W[1].transport[2] = s /\ s \in Nat \ {0}
  BY <1>1, <1>2 DEF AllKnown, Known
<1>4. \A i \in DOMAIN W : W[i].type = "produce" => i = 1
  <2> SUFFICES ASSUME NEW i \in DOMAIN W, W[i].type = "produce", i # 1
               PROVE  FALSE
    OBVIOUS
  <2>1. s < W[i].transport[2]
    BY <1>1, <1>2, <1>3 DEF RequestsInOrder
  <2>2. W[i].transport[2] \in 1 .. n /\ W[i].transport[2] <= s
    BY <1>1, <1>3 DEF AllKnown, Known
  <2>3. QED
    BY <2>1, <2>2
<1>5. \A i \in DOMAIN I : ~SendCreated(I[i])
  <2> SUFFICES ASSUME NEW i \in DOMAIN I, SendCreated(I[i]) PROVE FALSE
    OBVIOUS
  <2>1. s < I[i].transport[2]
    BY <1>1, <1>2, <1>3 DEF NewsIsNewer
  <2>2. I[i].transport[2] \in 1 .. n /\ I[i].transport[2] <= s
    BY <1>1, <1>3 DEF AllKnown, Known
  <2>3. QED
    BY <2>1, <2>2
<1>6. \A c \in DOMAIN C : C[c] = Asks(W[1]) \/ \E e \in DOMAIN I : IsError(I[e])
  BY <1>1, <1>2, <1>4 DEF WillHear, OneAnswer
<1>7. QED
  BY <1>4, <1>5, <1>6 DEF Viewed, AskedAlone

(* Operations that are no produce are chained behind the others. *)
LEMMA OperationsAppended ==
    ASSUME NEW W \in Seq(Operation), NEW ops \in Seq(Operation), NEW I, NEW C,
           NEW n, NEW s, NEW r, NEW b, Viewed(W, I, C, n, s, r, b),
           \A i \in DOMAIN ops : ops[i].type # "produce"
    PROVE  Viewed(W \o ops, I, C, n, s, r, b)
<1> DEFINE V == W \o ops
<1>1. /\ \A i \in DOMAIN W : i \in Nat \ {0} /\ i \in DOMAIN V /\ V[i] = W[i]
      /\ \A i \in DOMAIN V : i \in DOMAIN W \/ V[i].type # "produce"
      /\ W # <<>> => 1 \in DOMAIN W /\ V # <<>>
  <2>1. \A i \in DOMAIN W : i \in Nat \ {0} /\ i \in DOMAIN V /\ V[i] = W[i]
    OBVIOUS
  <2>2. \A i \in DOMAIN V : i \in DOMAIN W \/ (i - Len(W) \in DOMAIN ops /\ V[i] = ops[i - Len(W)])
    OBVIOUS
  <2>3. W # <<>> => 1 \in DOMAIN W /\ V # <<>>
    <3>1. W # <<>> => 1 \in DOMAIN W
      OBVIOUS
    <3>2. 1 \in DOMAIN V => V # <<>>
      OBVIOUS
    <3>3. QED
      BY <2>1, <3>1, <3>2
  <2>4. QED
    BY <2>1, <2>2, <2>3
<1>2. \A i \in DOMAIN V : V[i].type = "produce" => i \in DOMAIN W /\ V[i] = W[i]
  BY <1>1
<1>3. MessagesInOrder(I) /\ CallbacksInOrder(C) /\ ListensAlone(I, C)
  BY DEF Viewed
<1> HIDE DEF V
<1>4. RequestsInOrder(V) /\ NewsIsNewer(V, I, C) /\ OneAnswer(V, I)
  BY <1>2 DEF Viewed, RequestsInOrder, NewsIsNewer, OneAnswer
<1>5. WillHear(V, I, C) /\ AllKnown(V, I, C, n, s, r)
  BY <1>1, <1>2 DEF Viewed, WillHear, AllKnown
<1>6. b => AskedAlone(V, I, C)
  <2> SUFFICES ASSUME b PROVE AskedAlone(V, I, C)
    OBVIOUS
  <2>1. AskedAlone(W, I, C)
    BY DEF Viewed
  <2>2. V # <<>> /\ V[1] = W[1]
    BY <1>1, <2>1 DEF AskedAlone
  <2>3. QED
    BY <1>2, <2>1, <2>2 DEF AskedAlone
<1>7. QED
  BY <1>3, <1>4, <1>5, <1>6 DEF Viewed, V

(* A callback is told, timed out, or cleared with the others. *)
LEMMA CallbacksCleared ==
    ASSUME NEW W, NEW I, NEW C, NEW n, NEW s, NEW r, NEW b, Viewed(W, I, C, n, s, r, b)
    PROVE  Viewed(W, I, <<>>, n, s, r, b)
<1>1. DOMAIN << >> = {}
  OBVIOUS
<1>2. Viewed(W, I, C, n, s, r, b) => Viewed(W, I, <<>>, n, s, r, b)
  BY <1>1 DEF Viewed, CallbacksInOrder, NewsIsNewer, WillHear, ListensAlone, AllKnown, AskedAlone
<1>3. QED
  BY <1>2

LEMMA CallbackDropped ==
    ASSUME NEW W, NEW I, NEW C \in Seq(ProducerId), C # <<>>,
           NEW n, NEW s, NEW r, NEW b, Viewed(W, I, C, n, s, r, b)
    PROVE  Viewed(W, I, Tail(C), n, s, r, b)
<1> DEFINE D == Tail(C)
<1>1. \A i \in DOMAIN D : i \in Nat \ {0} /\ i + 1 \in DOMAIN C /\ D[i] = C[i + 1]
  BY TailElements
<1>2. RequestsInOrder(W) /\ MessagesInOrder(I) /\ OneAnswer(W, I)
  BY DEF Viewed
<1> HIDE DEF D
<1>3. \A i, j \in DOMAIN D : i < j => i + 1 < j + 1
  BY <1>1
<1>4. CallbacksInOrder(D)
  BY <1>1, <1>3 DEF Viewed, CallbacksInOrder
<1>5. \A i \in DOMAIN D : \E j \in DOMAIN C : D[i] = C[j]
  BY <1>1
<1>6. NewsIsNewer(W, I, D) /\ WillHear(W, I, D) /\ ListensAlone(I, D)
  BY <1>5 DEF Viewed, NewsIsNewer, WillHear, ListensAlone
<1>7. AllKnown(W, I, D, n, s, r) /\ (b => AskedAlone(W, I, D))
  BY <1>5 DEF Viewed, AllKnown, AskedAlone
<1>8. QED
  BY <1>2, <1>4, <1>6, <1>7 DEF Viewed, D

(* A message is read, and either nobody was listening or it was for nobody. *)
LEMMA MessageRead ==
    ASSUME NEW W, NEW I \in Seq(Message), I # <<>>, NEW C,
           NEW n, NEW s, NEW r, NEW b, Viewed(W, I, C, n, s, r, b),
           C = <<>> \/ (~IsProduced(I[1]) /\ ~IsError(I[1]))
    PROVE  Viewed(W, Tail(I), C, n, s, r, b)
<1> DEFINE J == Tail(I)
<1>1. /\ \A i \in DOMAIN J : i \in Nat \ {0} /\ i + 1 \in DOMAIN I /\ J[i] = I[i + 1]
      /\ \A i \in DOMAIN I : i = 1 \/ (i - 1 \in DOMAIN J /\ J[i - 1] = I[i])
      /\ \A i \in DOMAIN I : i \in Nat \ {0}
  BY TailElements
<1>2. RequestsInOrder(W) /\ CallbacksInOrder(C)
  BY DEF Viewed
<1> HIDE DEF J
<1>3. \A i, j \in DOMAIN J : i < j <=> i + 1 < j + 1
  BY <1>1
<1>4. MessagesInOrder(J)
  BY <1>1, <1>3 DEF Viewed, MessagesInOrder
<1>5. \A i \in DOMAIN J : \E j \in DOMAIN I : J[i] = I[j] /\ j = i + 1
  BY <1>1
<1>6. NewsIsNewer(W, J, C)
  BY <1>5 DEF Viewed, NewsIsNewer
<1>7. OneAnswer(W, J)
  <2>1. \A i, j \in DOMAIN J : i + 1 = j + 1 => i = j
    BY <1>1
  <2>2. QED
    BY <1>1, <2>1 DEF Viewed, OneAnswer
<1>8. C = <<>> \/ \A i \in DOMAIN I : IsProduced(I[i]) \/ IsError(I[i]) =>
                    i - 1 \in DOMAIN J /\ J[i - 1] = I[i] /\ i - 1 \in Nat \ {0}
  BY <1>1
<1>9. C = <<>> => DOMAIN C = {}
  OBVIOUS
<1>10. WillHear(W, J, C)
  BY <1>8, <1>9 DEF Viewed, WillHear
<1>11. ListensAlone(J, C)
  <2> SUFFICES ASSUME NEW i \in DOMAIN J, IsProduced(J[i]), NEW c \in DOMAIN C,
                      C[c] # J[i].producer
               PROVE  \E e \in 1 .. i - 1 : IsError(J[e])
    BY DEF ListensAlone
  <2>1. i \in Nat /\ i + 1 \in DOMAIN I /\ J[i] = I[i + 1]
    BY <1>1
  <2>2. PICK e \in 1 .. (i + 1) - 1 : IsError(I[e])
    BY <2>1 DEF Viewed, ListensAlone
  <2>3. e \in DOMAIN I
    BY <2>1, <2>2
  <2>4. e - 1 \in 1 .. i - 1 /\ IsError(J[e - 1])
    BY <1>8, <1>9, <2>1, <2>2, <2>3
  <2>5. QED
    BY <2>4
<1>12. AllKnown(W, J, C, n, s, r)
  BY <1>5 DEF Viewed, AllKnown
<1>13. b => AskedAlone(W, J, C)
  BY <1>5, <1>8, <1>9 DEF Viewed, AskedAlone
<1>14. QED
  BY <1>2, <1>4, <1>6, <1>7, <1>10, <1>11, <1>12, <1>13 DEF Viewed, J

(* The client hears of its send transport in a call, and asks to produce the audio. *)
LEMMA CreatedRead ==
    ASSUME NEW W \in Seq(Operation), NEW I \in Seq(Message), I # <<>>, NEW C \in Seq(ProducerId),
           NEW n \in Nat, NEW s \in Nat, NEW r \in Nat, NEW b, Viewed(W, I, C, n, s, r, b),
           NEW t \in Transport, NEW k \in Kinds, SendCreated(I[1]), I[1].transport = t
    PROVE  Viewed(Append(W, ProduceOp(t, k)), Tail(I), Append(C, Producer(t, k)), n, s, r, b)
<1> DEFINE op == ProduceOp(t, k)
           pr == Producer(t, k)
           V == Append(W, op)
           J == Tail(I)
           D == Append(C, pr)
<1>1. op \in Operation /\ pr \in ProducerId
  BY OperationTypes DEF Producer, ProducerId
<1>2. /\ op.type = "produce" /\ op.transport = t /\ Asks(op) = pr /\ pr.transport = t
  BY DEF ProduceOp, Producer, Asks
<1>3. /\ \A i \in DOMAIN W : i \in Nat \ {0} /\ i < Len(W) + 1 /\ i \in DOMAIN V /\ V[i] = W[i]
      /\ Len(W) + 1 \in DOMAIN V /\ V[Len(W) + 1] = op
      /\ \A i \in DOMAIN V : i \in DOMAIN W \/ i = Len(W) + 1
      /\ Len(W) \in Nat
  BY <1>1, AppendElements
<1>4. /\ \A i \in DOMAIN C : i \in Nat \ {0} /\ i < Len(C) + 1 /\ i \in DOMAIN D /\ D[i] = C[i]
      /\ Len(C) + 1 \in DOMAIN D /\ D[Len(C) + 1] = pr
      /\ \A i \in DOMAIN D : i \in DOMAIN C \/ i = Len(C) + 1
      /\ Len(C) \in Nat
  BY <1>1, AppendElements
<1>5. /\ \A i \in DOMAIN J : i \in Nat \ {0} /\ i + 1 \in DOMAIN I /\ J[i] = I[i + 1] /\ 1 < i + 1
      /\ \A i \in DOMAIN I : i = 1 \/ (i - 1 \in DOMAIN J /\ J[i - 1] = I[i])
      /\ 1 \in DOMAIN I
  BY TailElements
<1>6. ~IsProduced(I[1]) /\ ~IsError(I[1])
  BY DEF SendCreated, IsProduced, IsError
<1>7. Viewed(W, J, C, n, s, r, b)
  BY <1>6, MessageRead
<1>8. /\ RequestsInOrder(W) /\ MessagesInOrder(J) /\ CallbacksInOrder(C) /\ NewsIsNewer(W, J, C)
      /\ OneAnswer(W, J) /\ WillHear(W, J, C) /\ ListensAlone(J, C) /\ AllKnown(W, J, C, n, s, r)
  BY <1>7 DEF Viewed
<1>9. MessagesInOrder(I) /\ NewsIsNewer(W, I, C) /\ AllKnown(W, I, C, n, s, r)
  BY DEF Viewed
<1>10. Known(t, n, s, r)
  BY <1>5, <1>9 DEF AllKnown
<1>11. ~b
  BY <1>5 DEF Viewed, AskedAlone
<1> HIDE DEF op, pr, V, J, D
<1>12. \A i \in DOMAIN J : ~IsProduced(J[i]) /\ (SendCreated(J[i]) => t[2] < J[i].transport[2])
  BY <1>5, <1>9 DEF MessagesInOrder
<1>13. /\ \A j \in DOMAIN W : W[j].type = "produce" => W[j].transport[2] < t[2]
       /\ \A j \in DOMAIN C : C[j].transport[2] < t[2]
  BY <1>5, <1>9 DEF NewsIsNewer
<1>14. RequestsInOrder(V)
  <2> SUFFICES ASSUME NEW i \in DOMAIN V, NEW j \in DOMAIN V, i < j,
                      V[i].type = "produce", V[j].type = "produce"
               PROVE  V[i].transport[2] < V[j].transport[2]
    BY DEF RequestsInOrder
  <2>1. i \in DOMAIN W
    BY <1>3
  <2>2. CASE j \in DOMAIN W
    BY <1>3, <1>8, <2>1, <2>2 DEF RequestsInOrder
  <2>3. CASE j = Len(W) + 1
    BY <1>2, <1>3, <1>13, <2>1, <2>3
  <2>4. QED
    BY <1>3, <2>2, <2>3
<1>15. CallbacksInOrder(D)
  <2> SUFFICES ASSUME NEW i \in DOMAIN D, NEW j \in DOMAIN D, i < j
               PROVE  D[i].transport[2] < D[j].transport[2]
    BY DEF CallbacksInOrder
  <2>1. i \in DOMAIN C
    BY <1>4
  <2>2. CASE j \in DOMAIN C
    BY <1>4, <1>8, <2>1, <2>2 DEF CallbacksInOrder
  <2>3. CASE j = Len(C) + 1
    BY <1>2, <1>4, <1>13, <2>1, <2>3
  <2>4. QED
    BY <1>4, <2>2, <2>3
<1>16. NewsIsNewer(V, J, D)
  <2> SUFFICES ASSUME NEW i \in DOMAIN J, SendCreated(J[i])
               PROVE  /\ \A j \in DOMAIN V : V[j].type = "produce" => V[j].transport[2] < J[i].transport[2]
                      /\ \A j \in DOMAIN J : IsProduced(J[j]) =>
                            J[j].producer.transport[2] < J[i].transport[2]
                      /\ \A j \in DOMAIN D : D[j].transport[2] < J[i].transport[2]
    BY DEF NewsIsNewer
  <2>1. t[2] < J[i].transport[2]
    BY <1>12
  <2>2. \A j \in DOMAIN V : V[j].type = "produce" => V[j].transport[2] < J[i].transport[2]
    BY <1>2, <1>3, <1>8, <2>1 DEF NewsIsNewer
  <2>3. \A j \in DOMAIN D : D[j].transport[2] < J[i].transport[2]
    BY <1>2, <1>4, <1>8, <2>1 DEF NewsIsNewer
  <2>4. QED
    BY <1>12, <2>2, <2>3
<1>17. OneAnswer(V, J) /\ ListensAlone(J, D)
  BY <1>12 DEF OneAnswer, ListensAlone
<1>18. WillHear(V, J, D)
  <2> SUFFICES ASSUME NEW c \in DOMAIN D
               PROVE  \/ \E i \in DOMAIN V : V[i].type = "produce" /\ D[c] = Asks(V[i])
                      \/ \E i \in DOMAIN J : IsProduced(J[i]) /\ J[i].producer = D[c]
                      \/ \E i \in DOMAIN J : IsError(J[i])
    BY DEF WillHear
  <2>1. CASE c \in DOMAIN C
    BY <1>3, <1>4, <1>8, <2>1 DEF WillHear
  <2>2. CASE c = Len(C) + 1
    BY <1>2, <1>3, <1>4, <2>2
  <2>3. QED
    BY <1>4, <2>1, <2>2
<1>19. AllKnown(V, J, D, n, s, r)
  <2>1. \A i \in DOMAIN V : V[i].type = "produce" => Known(V[i].transport, n, s, r)
    BY <1>2, <1>3, <1>8, <1>10 DEF AllKnown
  <2>2. \A i \in DOMAIN D : D[i].transport[2] \in 1 .. n
    BY <1>2, <1>4, <1>8, <1>10 DEF AllKnown, Known
  <2>3. QED
    BY <1>8, <2>1, <2>2 DEF AllKnown
<1>20. QED
  BY <1>8, <1>11, <1>14, <1>15, <1>16, <1>17, <1>18, <1>19 DEF Viewed, op, pr, V, J, D

(* The client hears of a producer: it is the one its only callback waits for. *)
LEMMA ProducedRead ==
    ASSUME NEW W \in Seq(Operation), NEW I \in Seq(Message), I # <<>>,
           NEW C \in Seq(ProducerId), C # <<>>,
           NEW n \in Nat, NEW s \in Nat, NEW r \in Nat, NEW b, Viewed(W, I, C, n, s, r, b),
           IsProduced(I[1])
    PROVE  /\ C[1] = I[1].producer /\ Tail(C) = <<>>
           /\ \A k \in Kinds :
                Viewed(Append(W, ProduceOp(C[1].transport, k)), Tail(I),
                       Append(<<>>, Producer(C[1].transport, k)), n, s, r, b)
<1>1. /\ \A i \in DOMAIN I : i \in Nat \ {0}
      /\ 1 \in DOMAIN I
  BY TailElements
<1>2. /\ MessagesInOrder(I) /\ CallbacksInOrder(C) /\ NewsIsNewer(W, I, C) /\ OneAnswer(W, I)
      /\ ListensAlone(I, C) /\ AllKnown(W, I, C, n, s, r) /\ (b => AskedAlone(W, I, C))
  BY DEF Viewed
<1>3. \A c \in DOMAIN C : C[c] = I[1].producer
  <2>1. 1 .. 1 - 1 = {}
    OBVIOUS
  <2>2. QED
    BY <1>1, <1>2, <2>1 DEF ListensAlone
<1>4. 1 \in DOMAIN C
  BY TailElements
<1>5. C[1] \in ProducerId /\ C[1].transport \in Transport /\ C[1].transport[2] \in Nat
  <2>1. C[1] \in ProducerId
    BY <1>4
  <2>2. QED
    BY <2>1 DEF ProducerId, Transport
<1>6. \A c \in DOMAIN C : c = 1
  <2> SUFFICES ASSUME NEW c \in DOMAIN C, c # 1 PROVE FALSE
    OBVIOUS
  <2>1. 1 < c
    OBVIOUS
  <2>2. C[1].transport[2] < C[c].transport[2]
    BY <1>2, <1>4, <2>1 DEF CallbacksInOrder
  <2>3. C[1].transport[2] = C[c].transport[2]
    BY <1>3, <1>4
  <2>4. QED
    BY <1>5, <2>2, <2>3
<1>7. Len(C) = 1 /\ Tail(C) = <<>>
  <2>1. Len(C) \in Nat /\ Len(C) # 0 /\ DOMAIN C = 1 .. Len(C)
    OBVIOUS
  <2>2. Len(C) \in DOMAIN C
    BY <2>1
  <2>3. Len(C) = 1
    BY <1>6, <2>2
  <2>4. Len(Tail(C)) = 0 /\ Tail(C) \in Seq(ProducerId)
    BY <2>3
  <2>5. QED
    BY <2>3, <2>4, EmptySeq
<1>8. ~b /\ \A i \in DOMAIN W : W[i].type # "produce"
  <2>1. \A i \in DOMAIN W : W[i].type # "produce"
    BY <1>1, <1>2 DEF OneAnswer
  <2>2. W # <<>> => 1 \in DOMAIN W
    OBVIOUS
  <2>3. QED
    BY <1>2, <2>1, <2>2 DEF AskedAlone
<1> DEFINE J == Tail(I)
<1>9. Viewed(W, J, <<>>, n, s, r, FALSE)
  <2>1. Viewed(W, I, <<>>, n, s, r, b)
    BY CallbacksCleared
  <2>2. Viewed(W, J, <<>>, n, s, r, b)
    BY <2>1, MessageRead
  <2>3. QED
    BY <2>2 DEF Viewed
<1>10. \A i \in DOMAIN J : i \in Nat \ {0} /\ i + 1 \in DOMAIN I /\ J[i] = I[i + 1] /\ i + 1 # 1
  BY TailElements
<1> HIDE DEF J
<1>11. \A i \in DOMAIN J :
         ~IsProduced(J[i]) /\ (SendCreated(J[i]) => C[1].transport[2] < J[i].transport[2])
  BY <1>1, <1>2, <1>4, <1>10 DEF OneAnswer, NewsIsNewer
<1>12. Known(C[1].transport, n, s, r)
  BY <1>1, <1>2, <1>3, <1>4 DEF AllKnown
<1>13. ASSUME NEW k \in Kinds
       PROVE  Viewed(Append(W, ProduceOp(C[1].transport, k)), J,
                     Append(<<>>, Producer(C[1].transport, k)), n, s, r, b)
  <2> DEFINE t == C[1].transport
             op == ProduceOp(t, k)
             pr == Producer(t, k)
             V == Append(W, op)
             D == Append(<<>>, pr)
  <2>1. op \in Operation /\ pr \in ProducerId /\ <<>> \in Seq(ProducerId)
    BY <1>5, OperationTypes DEF Producer, ProducerId
  <2>2. op.type = "produce" /\ op.transport = t /\ Asks(op) = pr /\ pr.transport = t
    BY DEF ProduceOp, Producer, Asks
  <2>3. /\ \A i \in DOMAIN W : i \in Nat \ {0} /\ i < Len(W) + 1 /\ i \in DOMAIN V /\ V[i] = W[i]
        /\ Len(W) + 1 \in DOMAIN V /\ V[Len(W) + 1] = op
        /\ \A i \in DOMAIN V : i \in DOMAIN W \/ i = Len(W) + 1
        /\ Len(W) \in Nat
    BY <2>1, AppendElements
  <2>4. DOMAIN D = {1} /\ D[1] = pr
    BY <2>1
  <2> HIDE DEF op, pr, V, D
  <2>5. \A i \in DOMAIN V : V[i].type = "produce" => i = Len(W) + 1
    BY <1>8, <2>3
  <2>6. RequestsInOrder(V)
    BY <2>3, <2>5 DEF RequestsInOrder
  <2>7. CallbacksInOrder(D)
    BY <2>4 DEF CallbacksInOrder
  <2>8. MessagesInOrder(J)
    BY <1>9 DEF Viewed
  <2>9. NewsIsNewer(V, J, D)
    BY <1>11, <2>2, <2>3, <2>4, <2>5 DEF NewsIsNewer
  <2>10. OneAnswer(V, J) /\ ListensAlone(J, D)
    BY <1>11 DEF OneAnswer, ListensAlone
  <2>11. WillHear(V, J, D)
    BY <2>2, <2>3, <2>4 DEF WillHear
  <2>12. AllKnown(V, J, D, n, s, r)
    <3>1. \A i \in DOMAIN V : V[i].type = "produce" => Known(V[i].transport, n, s, r)
      BY <1>12, <2>2, <2>3, <2>5
    <3>2. \A i \in DOMAIN D : D[i].transport[2] \in 1 .. n
      BY <1>12, <2>2, <2>4 DEF Known
    <3>3. QED
      BY <1>9, <1>11, <3>1, <3>2 DEF AllKnown, Viewed
  <2>13. QED
    BY <1>8, <2>6, <2>7, <2>8, <2>9, <2>10, <2>11, <2>12 DEF Viewed, V, D, op, pr
<1>14. QED
  BY <1>3, <1>4, <1>7, <1>13 DEF J

(* What the client and the server see of each other is typed. *)
LEMMA ViewTypes ==
    ASSUME ServerTypes, TransportInv, NEW p \in Peers
    PROVE  /\ Unanswered(p) \in Seq(Operation) /\ inbox[p] \in Seq(Message)
           /\ opened[p] \in Nat
           /\ SendNumber(p) \in 0 .. opened[p] /\ RecvNumber(p) \in 0 .. opened[p]
<1>1. inbox[p] \in Seq(Message) /\ opened[p] \in Nat /\ queue[p] \in Seq(Operation)
  BY DEF ServerTypes, Typed
<1>2. Unanswered(p) \in Seq(Operation)
  <2>1. run[p].pc \in {"loop", "consume"} => queue[p] # <<>>
    BY StageForms DEF ServerTypes, StageOf
  <2>2. queue[p] # <<>> => Tail(queue[p]) \in Seq(Operation)
    BY RunningType
  <2>3. QED
    BY <1>1, <2>1, <2>2 DEF Unanswered
<1>3. ASSUME NEW t \in Maybe(Transport), OfPeer(p, t, opened[p])
      PROVE  Number(t) \in 0 .. opened[p]
  BY <1>1, <1>3 DEF Number, OfPeer, Maybe, Transport
<1>4. entry[p] # 0 =>
        /\ obj[Entry(p)].send \in Maybe(Transport) /\ OfPeer(p, obj[Entry(p)].send, opened[p])
        /\ obj[Entry(p)].recv \in Maybe(Transport) /\ OfPeer(p, obj[Entry(p)].recv, opened[p])
  <2> SUFFICES ASSUME entry[p] # 0
               PROVE  /\ obj[Entry(p)].send \in Maybe(Transport)
                      /\ OfPeer(p, obj[Entry(p)].send, opened[p])
                      /\ obj[Entry(p)].recv \in Maybe(Transport)
                      /\ OfPeer(p, obj[Entry(p)].recv, opened[p])
    OBVIOUS
  <2>1. obj[Entry(p)] \in State /\ entry[p] \in 1 .. MaxObjects
    BY EntryType, BoundAssumption DEF ServerTypes, Typed
  <2>2. obj[Entry(p)].send \in Maybe(Transport) /\ obj[Entry(p)].recv \in Maybe(Transport)
    BY <2>1 DEF State
  <2>3. QED
    BY <2>1, <2>2 DEF TransportInv, Sources, Entry
<1>5. QED
  BY <1>1, <1>2, <1>3, <1>4 DEF SendNumber, RecvNumber

(* The numbers of the transports a request may name are those of the peer's present state. *)
LEMMA NumbersKept ==
    ASSUME ServerTypes, NEW p \in Peers, SameSources(p), entry'[p] = entry[p]
    PROVE  SendNumber(p)' = SendNumber(p) /\ RecvNumber(p)' = RecvNumber(p)
<1>1. Entry(p)' = Entry(p)
  BY DEF Entry
<1>2. entry[p] # 0 => /\ obj'[Entry(p)].send = obj[Entry(p)].send
                      /\ obj'[Entry(p)].recv = obj[Entry(p)].recv
  BY BoundAssumption DEF SameSources, Entry, ServerTypes, Typed
<1>3. QED
  BY <1>1, <1>2 DEF SendNumber, RecvNumber, Number

(* A step of p's operation that is neither a join nor a transport's making keeps them. *)
LEMMA OwnNumbers ==
    ASSUME ServerTypes, NEW p \in Peers, ServerStep(p), ~FinishJoin(p), ~TransportCreated(p)
    PROVE  /\ opened'[p] = opened[p]
           /\ SendNumber(p)' = SendNumber(p) /\ RecvNumber(p)' = RecvNumber(p)
<1>1. CASE Produced(p)
  <2> DEFINE pr == Producer(Head(queue[p]).transport, Head(queue[p]).kind)
             o == run[p].obj
  <2>1. obj' = [obj EXCEPT ![o].producers = @ \cup {pr}] /\ UNCHANGED <<entry, opened>>
    BY <1>1 DEF Produced
  <2>2. o \in Objects /\ obj[o] \in State
    BY <1>1, WaitingType DEF Produced, Waiting
  <2> HIDE DEF pr, o
  <2>3. \A x \in Objects : obj'[x].send = obj[x].send /\ obj'[x].recv = obj[x].recv
    <3>1. \A x \in Objects : x # o => obj'[x] = obj[x]
      BY <2>1 DEF ServerTypes, Typed
    <3>2. obj'[o] = [obj[o] EXCEPT !.producers = @ \cup {pr}]
      BY <2>1, <2>2 DEF ServerTypes, Typed
    <3>3. obj'[o].send = obj[o].send /\ obj'[o].recv = obj[o].recv
      BY <2>2, <3>2 DEF State
    <3>4. QED
      BY <3>1, <3>3
  <2>4. Entry(p)' = Entry(p)
    BY <2>1 DEF Entry
  <2>5. entry[p] # 0 => Entry(p) \in Objects
    BY EntryType
  <2>6. QED
    BY <2>1, <2>3, <2>4, <2>5 DEF SendNumber, RecvNumber, Number
<1>2. CASE ~Produced(p)
  BY <1>2, SourcesOfStep, NumbersKept
<1>3. QED
  BY <1>1, <1>2

(* What is sent on an open socket. *)
LEMMA Told ==
    ASSUME ServerTypes, NEW p \in Peers, socket[p] = "open", NEW m, inbox' = Tell(p, m)
    PROVE  inbox'[p] = Append(inbox[p], m)
  BY DEF Tell, ServerTypes, Typed

(* A loop tells a peer of its new consumer, and nobody else of anything. *)
LEMMA ToldByLoop ==
    ASSUME ServerTypes, NEW q \in Peers, NEW p \in Peers, Consumed(q)
    PROVE  \/ inbox'[p] = inbox[p]
           \/ \E c \in ConsumerId : inbox'[p] = Append(inbox[p], ConsumerMsg(c))
<1> DEFINE o == run[q].target.obj
           pr == run[q].target.producer
           c == [producer |-> pr, copy |-> Copies(o, pr) + 1]
<1>1. inbox' = Tell(o[1], ConsumerMsg(c)) /\ o \in Objects /\ pr \in ProducerId
  BY TargetType DEF Consumed
<1>2. c \in ConsumerId
  <2>1. IsFiniteSet(obj[o].consumers)
    BY <1>1 DEF ServerTypes, Typed
  <2>2. IsFiniteSet({d \in obj[o].consumers : d.producer = pr})
    BY <2>1, FS_Subset
  <2>3. Copies(o, pr) \in Nat
    BY <2>2, FS_CardinalityType DEF Copies
  <2>4. QED
    BY <1>1, <2>3 DEF ConsumerId
<1> HIDE DEF c, o
<1>3. QED
  BY <1>1, <1>2 DEF Tell, ServerTypes, Typed

(* Only the client's own messages and what the server finds for it reach it from elsewhere. *)
LEMMA ToldElsewhere ==
    ASSUME ServerTypes, NEW q \in Peers, NEW p \in Peers, p # q, ServerStep(q)
    PROVE  \/ inbox'[p] = inbox[p]
           \/ \E c \in ConsumerId : inbox'[p] = Append(inbox[p], ConsumerMsg(c))
<1>1. \A m : Tell(q, m)[p] = inbox[p]
  BY SMTT(30) DEF Tell, ServerTypes, Typed
<1>2. CASE ~Consumed(q)
  BY <1>1, <1>2 DEF ServerStep, StartJoin, FinishJoin, StartCreate, TransportCreated, StartOnOwn, Throw,
     Settled, Produced, Rejected, StartConsume, FinishLoop, ConsumeFailed, ProducerClose
<1>3. QED
  BY <1>2, ToldByLoop

(* News of consumers, capabilities and errors are no news of a produce. *)
LEMMA OtherMessages ==
    /\ ~SendCreated(CapsMsg) /\ ~IsProduced(CapsMsg)
    /\ ~SendCreated(ErrorMsg) /\ ~IsProduced(ErrorMsg) /\ IsError(ErrorMsg)
    /\ \A c : ~SendCreated(ConsumerMsg(c)) /\ ~IsProduced(ConsumerMsg(c)) /\ ~IsError(ConsumerMsg(c))
    /\ \A t : /\ ~SendCreated(CreatedMsg("recv", t)) /\ SendCreated(CreatedMsg("send", t))
              /\ \A d : /\ ~IsProduced(CreatedMsg(d, t))
                        /\ CreatedMsg(d, t).transport = t /\ CreatedMsg(d, t).dir = d
  BY DEF SendCreated, IsProduced, IsError, CapsMsg, ErrorMsg, ConsumerMsg, CreatedMsg

(* The first operation fails and its client is told. *)
LEMMA Refused ==
    ASSUME NEW W \in Seq(Operation), W # <<>>, NEW I \in Seq(Message), NEW C,
           NEW n, NEW s, NEW r, NEW b, Viewed(W, I, C, n, s, r, b)
    PROVE  Viewed(Tail(W), Append(I, ErrorMsg), C, n, s, r, FALSE)
<1> DEFINE J == Append(I, ErrorMsg)
<1>1. Viewed(W, J, C, n, s, r, b)
  BY MessageAppended, OtherMessages, MessageTypes
<1>2. J \in Seq(Message) /\ \E i \in DOMAIN J : J[i] = ErrorMsg
  BY AppendElements, MessageTypes
<1> HIDE DEF J
<1>3. Viewed(Tail(W), J, C, n, s, r, FALSE)
  BY <1>1, <1>2, OperationOver, OtherMessages
<1>4. QED
  BY <1>3 DEF J

(* A view by its parts. *)
LEMMA ViewIs ==
    ASSUME NEW p \in Peers, NEW W, NEW I, NEW C, NEW n, NEW s, NEW r, NEW b \in BOOLEAN,
           Unanswered(p)' = W, inbox'[p] = I, callbacks'[p] = C, opened'[p] = n,
           SendNumber(p)' = s, RecvNumber(p)' = r, (run'[p].pc = "produce") = b,
           Viewed(W, I, C, n, s, r, b)
    PROVE  View(p)'
  BY DEF View

(* The operation that ends has been answered, or its answer is what ends it. *)
LEMMA UnansweredAfterFinish ==
    ASSUME ServerTypes, NEW p \in Peers, queue[p] # <<>>, Finish(p)
    PROVE  Unanswered(p)' = Tail(queue[p]) /\ run'[p].pc = "idle"
<1>1. run'[p] = Idle /\ queue'[p] = Tail(queue[p])
  BY DEF Finish, ServerTypes, Typed
<1>2. QED
  BY <1>1, StageForms DEF Unanswered

(* An operation that is answered loops on. *)
LEMMA UnansweredInLoop ==
    ASSUME ServerTypes, NEW p \in Peers, queue' = queue,
           NEW o, NEW over, NEW in, run' = [run EXCEPT ![p] = Loop(o, over, in)]
    PROVE  Unanswered(p)' = Tail(queue[p]) /\ run'[p].pc = "loop"
<1>1. run'[p] = Loop(o, over, in)
  BY DEF ServerTypes, Typed
<1>2. QED
  BY <1>1, StageForms DEF Unanswered

(* The first segments: a request is made of mediasoup, or refused. *)
LEMMA StartView ==
    ASSUME ServerTypes, TransportInv, NEW p \in Peers, socket[p] = "open", View(p),
           callbacks[p] \in Seq(ProducerId), UNCHANGED callbacks,
           StartJoin(p) \/ StartCreate(p) \/ StartOnOwn(p)
    PROVE  View(p)'
<1> DEFINE W == Unanswered(p)
           I == inbox[p]
           C == callbacks[p]
           n == opened[p]
           s == SendNumber(p)
           r == RecvNumber(p)
<1>1. /\ W \in Seq(Operation) /\ I \in Seq(Message) /\ C \in Seq(ProducerId)
      /\ n \in Nat /\ s \in Nat /\ r \in Nat
  BY ViewTypes
<1>2. /\ run[p].pc = "idle" /\ queue[p] # <<>>
      /\ opened'[p] = n /\ SendNumber(p)' = s /\ RecvNumber(p)' = r /\ callbacks'[p] = C
  BY OwnNumbers DEF StartJoin, StartCreate, StartOnOwn, Ready, ServerStep, TransportCreated,
                    FinishJoin, Running
<1>3. W = queue[p] /\ Head(queue[p]) = W[1]
  BY <1>1, <1>2 DEF Unanswered
<1>4. Viewed(W, I, C, n, s, r, FALSE)
  BY <1>2 DEF View
<1>5. CASE Throw(p)
  <2>1. inbox'[p] = Append(I, ErrorMsg)
    BY <1>5, Told DEF Throw
  <2>2. Unanswered(p)' = Tail(W) /\ run'[p].pc = "idle"
    BY <1>2, <1>3, <1>5, UnansweredAfterFinish DEF Throw
  <2>3. Viewed(Tail(W), Append(I, ErrorMsg), C, n, s, r, FALSE)
    BY <1>1, <1>2, <1>3, <1>4, Refused
  <2> HIDE DEF W, I, C, n, s, r
  <2>4. QED
    BY <1>2, <2>1, <2>2, <2>3, ViewIs
<1>6. CASE UNCHANGED <<queue, inbox>> /\ run'[p].pc \in {"room", "create", "resume"}
  <2>1. Unanswered(p)' = W /\ inbox'[p] = I
    BY <1>3, <1>6 DEF Unanswered
  <2>2. (run'[p].pc = "produce") = FALSE
    BY <1>6
  <2> HIDE DEF W, I, C, n, s, r
  <2>3. QED
    BY <1>2, <1>4, <2>1, <2>2, ViewIs
<1>7. CASE /\ UNCHANGED <<queue, inbox>> /\ run'[p].pc = "produce"
           /\ W[1].type = "produce" /\ OwnTransport(p, W[1].transport)
  <2>1. Unanswered(p)' = W /\ inbox'[p] = I
    BY <1>3, <1>7 DEF Unanswered
  <2>2. W[1].transport \in Transport
    BY <1>2, <1>3, <1>7, RunningType
  <2>3. W[1].transport[2] \in {s, r}
    BY <1>7, <2>2, NoneAssumption DEF OwnTransport, Registered, SendNumber, RecvNumber, Number, Transport
  <2>4. Viewed(W, I, C, n, s, r, TRUE)
    BY <1>1, <1>2, <1>3, <1>4, <1>7, <2>3, ProduceStarted
  <2>5. (run'[p].pc = "produce") = TRUE
    BY <1>7
  <2> HIDE DEF W, I, C, n, s, r
  <2>6. QED
    BY <1>2, <2>1, <2>4, <2>5, ViewIs
<1>8. CASE StartJoin(p)
  <2>1. run'[p] = [Idle EXCEPT !.pc = "room"] /\ UNCHANGED <<queue, inbox>>
    BY <1>8 DEF StartJoin, ServerTypes, Typed
  <2>2. run'[p].pc = "room"
    BY <2>1 DEF Idle
  <2>3. QED
    BY <1>6, <2>1, <2>2
<1>9. CASE StartCreate(p)
  <2>1. CASE run' = [run EXCEPT ![p] = Holding("create", Entry(p))] /\ UNCHANGED <<queue, inbox>>
    <3>1. run'[p].pc = "create"
      BY <2>1, StageForms DEF ServerTypes, Typed
    <3>2. QED
      BY <1>6, <2>1, <3>1
  <2>2. QED
    BY <1>5, <1>9, <2>1 DEF StartCreate
<1>10. CASE StartOnOwn(p)
  <2>1. CASE /\ Found(p) /\ run' = [run EXCEPT ![p] = Holding(Head(queue[p]).type, Entry(p))]
             /\ UNCHANGED <<queue, inbox>>
    <3>1. run'[p].pc = W[1].type /\ W[1].type \in {"produce", "resume"}
      BY <1>3, <1>10, <2>1, StageForms DEF ServerTypes, Typed, StartOnOwn
    <3>2. W[1].type = "produce" => OwnTransport(p, W[1].transport)
      BY <1>3, <2>1 DEF Found
    <3>3. QED
      BY <1>6, <1>7, <2>1, <3>1, <3>2
  <2>2. QED
    BY <1>5, <1>10, <2>1 DEF StartOnOwn
<1>11. QED
  BY <1>8, <1>9, <1>10

(* mediasoup's answer to a request of the first operation. *)
LEMMA AnswerView ==
    ASSUME ServerTypes, TransportInv, NEW p \in Peers, socket[p] = "open", View(p), UNCHANGED callbacks,
           Settled(p) \/ Produced(p) \/ Rejected(p)
    PROVE  View(p)'
<1> DEFINE W == Unanswered(p)
           I == inbox[p]
           C == callbacks[p]
           n == opened[p]
           s == SendNumber(p)
           r == RecvNumber(p)
           b == run[p].pc = "produce"
<1>1. /\ W \in Seq(Operation) /\ I \in Seq(Message)
      /\ n \in Nat /\ s \in Nat /\ r \in Nat
  BY ViewTypes
<1>2. run[p].pc \in Waiting /\ run[p].pc \notin Looping
  BY DEF Settled, Produced, Rejected, Waiting, Looping
<1>3. ServerStep(p) /\ ~FinishJoin(p) /\ (Settled(p) \/ Produced(p) => ~TransportCreated(p))
  BY DEF ServerStep, FinishJoin, TransportCreated, Settled, Produced, Rejected
<1>4. /\ queue[p] # <<>> /\ Head(queue[p]).type = run[p].pc
      /\ W = queue[p] /\ Head(queue[p]) = W[1]
  BY <1>1, <1>2, WaitingType DEF Unanswered, Looping
<1>5. Viewed(W, I, C, n, s, r, b)
  BY DEF View
<1>6. callbacks'[p] = C
  OBVIOUS
<1>7. CASE Settled(p)
  <2>1. opened'[p] = n /\ SendNumber(p)' = s /\ RecvNumber(p)' = r
    BY <1>3, <1>7, OwnNumbers
  <2>2. Unanswered(p)' = Tail(W) /\ run'[p].pc = "idle" /\ inbox'[p] = I
    BY <1>4, <1>7, UnansweredAfterFinish DEF Settled
  <2>3. Viewed(Tail(W), I, C, n, s, r, FALSE)
    BY <1>1, <1>4, <1>5, <1>7, OperationOver DEF Settled
  <2> HIDE DEF W, I, C, n, s, r
  <2>4. QED
    BY <1>6, <2>1, <2>2, <2>3, ViewIs
<1>8. CASE Rejected(p)
  <2>1. opened'[p] = n /\ SendNumber(p)' = s /\ RecvNumber(p)' = r
    BY <1>8, NumbersKept DEF Rejected, SameSources
  <2>2. inbox'[p] = Append(I, ErrorMsg)
    BY <1>8, Told DEF Rejected, Throw
  <2>3. Unanswered(p)' = Tail(W) /\ run'[p].pc = "idle"
    BY <1>4, <1>8, UnansweredAfterFinish DEF Rejected, Throw
  <2>4. Viewed(Tail(W), Append(I, ErrorMsg), C, n, s, r, FALSE)
    BY <1>1, <1>4, <1>5, Refused
  <2> HIDE DEF W, I, C, n, s, r
  <2>5. QED
    BY <1>6, <2>1, <2>2, <2>3, <2>4, ViewIs
<1>9. CASE Produced(p)
  <2>1. opened'[p] = n /\ SendNumber(p)' = s /\ RecvNumber(p)' = r
    BY <1>3, <1>9, OwnNumbers
  <2> DEFINE m == ProducedMsg(Asks(W[1]))
  <2>2. inbox' = Tell(p, m) /\ queue' = queue
    BY <1>4, <1>9 DEF Produced, Asks
  <2>3. inbox'[p] = Append(I, m)
    BY <2>2, Told
  <2>4. m \in Message
    <3>1. Asks(W[1]) \in ProducerId
      BY <1>4, <1>9, RunningType DEF Produced, Asks, Producer, ProducerId
    <3>2. QED
      BY <3>1, MessageTypes
  <2>5. Unanswered(p)' = Tail(W) /\ run'[p].pc = "loop"
    BY <1>4, <1>9, UnansweredInLoop DEF Produced, AfterProduce
  <2>6. Viewed(W, I, C, n, s, r, TRUE)
    BY <1>5, <1>9 DEF Produced
  <2>7. Viewed(Tail(W), Append(I, m), C, n, s, r, FALSE)
    BY <1>1, <1>4, <2>4, <2>6, ProduceAnswered
  <2>8. (run'[p].pc = "produce") = FALSE
    BY <2>5
  <2> HIDE DEF W, I, C, n, s, r, m
  <2>9. QED
    BY <1>6, <2>1, <2>3, <2>5, <2>7, <2>8, ViewIs
<1>10. QED
  BY <1>7, <1>8, <1>9

(* A join keeps the transports of a peer that is there, and a new peer has none. *)
LEMMA JoinNumbers ==
    ASSUME ServerTypes, TransportInv, NEW p \in Peers, FinishJoin(p)
    PROVE  SendNumber(p)' \in {0, SendNumber(p)} /\ RecvNumber(p)' \in {0, RecvNumber(p)}
<1> DEFINE joined == JoinedState(p, Head(queue[p]).caps)
           o == joined[1]
<1>1. obj' = [obj EXCEPT ![o] = joined[2]] /\ entry' = [entry EXCEPT ![p] = o[2]]
  BY DEF FinishJoin
<1>2. /\ o \in Objects /\ o[1] = p
      /\ \/ entry[p] # 0 /\ o = Entry(p) /\ joined[2].send = obj[o].send /\ joined[2].recv = obj[o].recv
         \/ joined[2].send = None /\ joined[2].recv = None
  <2>1. CASE entry[p] # 0
    <3> DEFINE st == [obj[Entry(p)] EXCEPT !.caps = Head(queue[p]).caps]
    <3>1. joined = <<Entry(p), st>>
      BY <2>1 DEF JoinedState
    <3>2. Entry(p) \in Objects /\ Entry(p)[1] = p /\ obj[Entry(p)] \in State
      BY <2>1, EntryType
    <3>3. st.send = obj[Entry(p)].send /\ st.recv = obj[Entry(p)].recv
      BY <3>2 DEF State
    <3> HIDE DEF st
    <3>4. o = Entry(p) /\ joined[2] = st
      BY <3>1
    <3> HIDE DEF joined
    <3>5. QED
      BY <2>1, <3>2, <3>3, <3>4
  <2>2. CASE entry[p] = 0
    <3> DEFINE k == CHOOSE m \in Unused(p) : TRUE
    <3>1. k \in 1 .. MaxObjects
      BY <2>2 DEF FinishJoin, Unused
    <3>2. joined = <<<<p, k>>, [Blank EXCEPT !.caps = Head(queue[p]).caps]>>
      BY <2>2 DEF JoinedState
    <3> HIDE DEF k, joined
    <3>3. o = <<p, k>> /\ joined[2].send = None /\ joined[2].recv = None
      BY <3>2 DEF Blank
    <3>4. QED
      BY <3>1, <3>3 DEF Objects
  <2>3. QED
    BY <2>1, <2>2
<1> HIDE DEF joined, o
<1>3. Entry(p)' = o /\ obj'[o] = joined[2] /\ entry'[p] = o[2]
  BY <1>1, <1>2 DEF Entry, ServerTypes, Typed, Objects
<1>4. CASE entry[p] # 0 /\ o = Entry(p) /\ joined[2].send = obj[o].send /\ joined[2].recv = obj[o].recv
  BY <1>3, <1>4 DEF SendNumber, RecvNumber, Number
<1>5. CASE joined[2].send = None /\ joined[2].recv = None
  BY <1>3, <1>5 DEF SendNumber, RecvNumber, Number
<1>6. QED
  BY <1>2, <1>4, <1>5

(* The peer is in the room, and its client is told the capabilities. *)
LEMMA JoinView ==
    ASSUME ServerTypes, TransportInv, NEW p \in Peers, socket[p] = "open", View(p), UNCHANGED callbacks,
           FinishJoin(p)
    PROVE  View(p)'
<1> DEFINE W == Unanswered(p)
           I == inbox[p]
           C == callbacks[p]
           n == opened[p]
           s == SendNumber(p)
           r == RecvNumber(p)
           s2 == SendNumber(p)'
           r2 == RecvNumber(p)'
           J == Append(I, CapsMsg)
<1>1. /\ W \in Seq(Operation) /\ I \in Seq(Message)
      /\ n \in Nat /\ s \in Nat /\ r \in Nat
  BY ViewTypes
<1>2. run[p].pc \notin {"loop", "consume"} /\ queue[p] # <<>> /\ queue' = queue /\ opened' = opened
  BY DEF FinishJoin, Running
<1>3. W = queue[p] /\ Head(queue[p]) = W[1] /\ W[1].type = "join"
  BY <1>1, <1>2 DEF Unanswered, FinishJoin, Running
<1>4. Viewed(W, I, C, n, s, r, FALSE)
  BY DEF View, Viewed
<1>5. s2 \in {0, s} /\ r2 \in {0, r}
  BY JoinNumbers
<1>6. Unanswered(p)' = Tail(W) /\ run'[p].pc = "loop"
  BY <1>2, <1>3, UnansweredInLoop DEF FinishJoin
<1>7. inbox'[p] = J
  BY Told DEF FinishJoin
<1>8. callbacks'[p] = C /\ opened'[p] = n /\ (run'[p].pc = "produce") = FALSE
  BY <1>2, <1>6
<1>9. Viewed(W, I, C, n, s2, r2, FALSE)
  <2>1. s2 \in Nat /\ r2 \in Nat
    BY <1>1, <1>5
  <2> HIDE DEF W, I, C, n, s, r, s2, r2
  <2>2. n >= n
    BY <1>1
  <2>3. QED
    BY <1>1, <1>4, <1>5, <2>1, <2>2, NumbersMove
<1>10. Viewed(Tail(W), I, C, n, s2, r2, FALSE)
  <2> HIDE DEF W, I, C, n, s2, r2
  <2>1. W # <<>>
    BY <1>2, <1>3
  <2>2. QED
    BY <1>1, <1>3, <1>9, <2>1, OperationOver
<1>11. Viewed(Tail(W), J, C, n, s2, r2, FALSE)
  <2> HIDE DEF W, C, n, s2, r2
  <2>1. QED
    BY <1>1, <1>10, MessageAppended, MessageTypes, OtherMessages
<1> HIDE DEF W, C, n, J
<1>12. QED
  BY <1>6, <1>7, <1>8, <1>11, ViewIs

(* A transport is there, with a number of its own, and its client is told. *)
LEMMA CreateView ==
    ASSUME ServerTypes, TransportInv, NEW p \in Peers, socket[p] = "open", View(p), UNCHANGED callbacks,
           TransportCreated(p)
    PROVE  View(p)'
<1> DEFINE W == Unanswered(p)
           I == inbox[p]
           C == callbacks[p]
           n == opened[p]
           s == SendNumber(p)
           r == RecvNumber(p)
           t == <<p, n + 1>>
           d == Head(queue[p]).dir
           o == run[p].obj
           m == CreatedMsg(d, t)
<1>1. /\ W \in Seq(Operation) /\ I \in Seq(Message)
      /\ n \in Nat /\ s \in 0 .. n /\ r \in 0 .. n
  BY ViewTypes
<1>2. /\ run[p].pc = "create" /\ queue' = queue /\ opened'[p] = n + 1 /\ entry' = entry
      /\ obj' = IF d = "send" THEN [obj EXCEPT ![o].send = t] ELSE [obj EXCEPT ![o].recv = t]
      /\ inbox' = Tell(p, m)
  BY DEF TransportCreated, ServerTypes, Typed
<1>3. /\ queue[p] # <<>> /\ Head(queue[p]).type = "create"
      /\ o \in Objects /\ obj[o] \in State /\ d \in {"send", "recv"}
  BY <1>2, WaitingType, RunningType DEF Waiting
<1>4. W = queue[p] /\ W[1].type = "create" /\ W # <<>>
  BY <1>1, <1>2, <1>3 DEF Unanswered
<1>5. Viewed(Tail(W), I, C, n, s, r, FALSE) /\ Tail(W) \in Seq(Operation)
  <2>1. Viewed(W, I, C, n, s, r, FALSE)
    BY <1>2 DEF View
  <2> HIDE DEF W, I, C, n, s, r
  <2>2. Viewed(Tail(W), I, C, n, s, r, FALSE)
    BY <1>1, <1>4, <2>1, OperationOver
  <2>3. Tail(W) \in Seq(Operation)
    BY <1>1, <1>4, TailElements
  <2>4. QED
    BY <2>2, <2>3
<1>6. Unanswered(p)' = Tail(W) /\ run'[p].pc = "loop"
  BY <1>2, <1>4, UnansweredInLoop DEF TransportCreated, AfterCreate
<1>7. inbox'[p] = Append(I, m)
  BY <1>2, Told
<1>8. callbacks'[p] = C /\ (run'[p].pc = "produce") = FALSE
  BY <1>6
<1>9. entry[p] # 0 => o = Entry(p)
  BY <1>2 DEF TransportInv, Held, Waiting, Looping
<1>10. t # None /\ t \in Transport /\ t[2] = n + 1
  BY <1>1, NoneAssumption DEF Transport
<1>11. m \in Message
  BY <1>3, <1>10, MessageTypes
<1>12. /\ entry[p] = 0 => SendNumber(p)' = 0 /\ RecvNumber(p)' = 0 /\ s = 0 /\ r = 0
       /\ entry[p] # 0 /\ d = "send" => SendNumber(p)' = n + 1 /\ RecvNumber(p)' = r
       /\ entry[p] # 0 /\ d = "recv" => SendNumber(p)' = s /\ RecvNumber(p)' = n + 1
  <2>1. Entry(p)' = Entry(p)
    BY <1>2 DEF Entry
  <2> HIDE DEF t
  <2>2. d = "send" => obj'[o].send = t /\ obj'[o].recv = obj[o].recv
    BY <1>2, <1>3 DEF ServerTypes, Typed, State
  <2>3. d = "recv" => obj'[o].recv = t /\ obj'[o].send = obj[o].send
    BY <1>2, <1>3 DEF ServerTypes, Typed, State
  <2>4. QED
    BY <1>2, <1>9, <1>10, <2>1, <2>2, <2>3 DEF SendNumber, RecvNumber, Number
<1>13. CASE d = "send"
  <2>1. SendCreated(m) /\ m.transport[2] = n + 1
    BY <1>10, <1>13, OtherMessages
  <2>2. SendNumber(p)' \in {0, n + 1} /\ RecvNumber(p)' = r
    BY <1>12, <1>13
  <2>3. n \in Nat /\ s \in Nat /\ r \in Nat /\ r <= n
    BY <1>1
  <2> HIDE DEF W, I, C, n, s, r, m
  <2>4. Viewed(Tail(W), Append(I, m), C, n + 1, SendNumber(p)', r, FALSE)
    BY <1>1, <1>5, <1>11, <2>1, <2>2, <2>3, TransportTold
  <2>5. QED
    BY <1>2, <1>6, <1>7, <1>8, <2>2, <2>4, ViewIs
<1>14. CASE d = "recv"
  <2>1. ~SendCreated(m) /\ ~IsProduced(m)
    BY <1>14, OtherMessages
  <2>2. /\ SendNumber(p)' \in {0, s} /\ (RecvNumber(p)' \in {0, r} \/ RecvNumber(p)' > n)
        /\ SendNumber(p)' \in Nat /\ RecvNumber(p)' \in Nat /\ n + 1 \in Nat /\ n + 1 >= n
        /\ n \in Nat /\ s \in Nat /\ r \in Nat /\ SendNumber(p)' \in {0, s}
    BY <1>1, <1>12, <1>14
  <2> HIDE DEF W, I, C, n, s, r, m
  <2>3. Viewed(Tail(W), I, C, n + 1, SendNumber(p)', RecvNumber(p)', FALSE)
    BY <1>5, <2>2, NumbersMove
  <2>4. Viewed(Tail(W), Append(I, m), C, n + 1, SendNumber(p)', RecvNumber(p)', FALSE)
    BY <1>1, <1>11, <2>1, <2>3, MessageAppended
  <2>5. QED
    BY <1>2, <1>6, <1>7, <1>8, <2>4, ViewIs
<1>15. QED
  BY <1>3, <1>13, <1>14

(* The loops over producers and peers answer nothing. *)
LEMMA LoopView ==
    ASSUME ServerTypes, TransportInv, NEW p \in Peers, socket[p] = "open", View(p), UNCHANGED callbacks,
           \/ StartConsume(p) \/ FinishLoop(p) \/ Consumed(p) \/ ConsumeFailed(p) \/ ProducerClose(p)
    PROVE  View(p)'
<1> DEFINE W == Unanswered(p)
           I == inbox[p]
           C == callbacks[p]
           n == opened[p]
           s == SendNumber(p)
           r == RecvNumber(p)
<1>1. W \in Seq(Operation) /\ I \in Seq(Message)
  BY ViewTypes
<1>2. ServerStep(p) /\ ~FinishJoin(p) /\ ~TransportCreated(p)
  <2>1. ServerStep(p)
    BY DEF ServerStep
  <2>2. CASE ~ProducerClose(p)
    BY <2>1, <2>2 DEF FinishJoin, TransportCreated, StartConsume, FinishLoop, Consumed, ConsumeFailed
  <2>3. CASE ProducerClose(p)
    <3>1. run' = run /\ opened' = opened
      BY <2>3 DEF ProducerClose
    <3>2. ~FinishJoin(p)
      <4>1. Quiet
        BY <2>3 DEF ProducerClose
      <4>2. ~Ready(p)
        BY <4>1 DEF Quiet
      <4>3. QED
        BY <4>2 DEF FinishJoin
    <3>3. ~TransportCreated(p)
      BY <3>1 DEF TransportCreated, ServerTypes, Typed
    <3>4. QED
      BY <2>1, <3>2, <3>3
  <2>4. QED
    BY <2>2, <2>3
<1>3. opened'[p] = n /\ SendNumber(p)' = s /\ RecvNumber(p)' = r /\ callbacks'[p] = C
  BY <1>2, OwnNumbers
<1>4. Unanswered(p)' = W /\ (run'[p].pc = "produce") = (run[p].pc = "produce")
  <2>1. CASE StartConsume(p)
    <3>1. run'[p].pc = "consume" /\ run[p].pc = "loop" /\ queue' = queue
      BY <2>1, StartConsumeStage DEF StartConsume, ServerTypes, Typed
    <3>2. QED
      BY <3>1 DEF Unanswered
  <2>2. CASE FinishLoop(p)
    <3>1. queue[p] # <<>> /\ run[p].pc = "loop"
      BY <2>2 DEF FinishLoop, Ready
    <3>2. Unanswered(p)' = Tail(queue[p]) /\ run'[p].pc = "idle"
      BY <2>2, <3>1, UnansweredAfterFinish DEF FinishLoop
    <3>3. QED
      BY <3>1, <3>2 DEF Unanswered
  <2>3. CASE Consumed(p) \/ ConsumeFailed(p)
    <3>1. run'[p].pc = "loop" /\ run[p].pc = "consume" /\ queue' = queue
      BY <2>3, LoopOnStage DEF Consumed, ConsumeFailed, ServerTypes, Typed
    <3>2. QED
      BY <3>1 DEF Unanswered
  <2>4. CASE ProducerClose(p)
    BY <2>4 DEF ProducerClose, Unanswered
  <2>5. QED
    BY <2>1, <2>2, <2>3, <2>4
<1>5. Viewed(W, I, C, n, s, r, run[p].pc = "produce")
  BY DEF View
<1>6. Viewed(W, inbox'[p], C, n, s, r, run[p].pc = "produce")
  <2>1. CASE inbox'[p] = I
    BY <1>5, <2>1
  <2>2. CASE \E c \in ConsumerId : inbox'[p] = Append(I, ConsumerMsg(c))
    <3>1. PICK c \in ConsumerId : inbox'[p] = Append(I, ConsumerMsg(c))
      BY <2>2
    <3> HIDE DEF W, I, C, n, s, r
    <3>2. QED
      BY <1>1, <1>5, <3>1, MessageAppended, MessageTypes, OtherMessages
  <2>3. CASE Consumed(p)
    BY <2>1, <2>2, <2>3, ToldByLoop
  <2>4. QED
    BY <2>1, <2>3 DEF StartConsume, FinishLoop, ConsumeFailed, ProducerClose
<1> HIDE DEF W, I, C, n, s, r
<1>7. QED
  BY <1>3, <1>4, <1>6, ViewIs

(* The server keeps requests, answers and callbacks in step. *)
LEMMA ServerAnswers ==
    ASSUME Types, TransportInv, AnswersInv, ServerNext, UNCHANGED clientVars
    PROVE  AnswersInv'
<1>1. ServerTypes /\ callbacks' = callbacks /\ screen' = screen
  BY SMTT(30) DEF Types, clientVars
<1>2. socket' = socket
  BY DEF ServerNext, RoomCreated, RoomFailed, ServerStep, StartJoin, FinishJoin, StartCreate,
         TransportCreated, StartOnOwn, Settled, Produced, Rejected, StartConsume, FinishLoop,
         Consumed, ConsumeFailed, ProducerClose
<1>3. SUFFICES ASSUME NEW p \in Peers, socket[p] = "open" PROVE View(p)'
  BY <1>1, <1>2 DEF AnswersInv
<1>4. View(p) /\ callbacks[p] \in Seq(ProducerId)
  BY <1>3 DEF AnswersInv, Types, ClientTypes
<1> DEFINE W == Unanswered(p)
           I == inbox[p]
           C == callbacks[p]
           n == opened[p]
           s == SendNumber(p)
           r == RecvNumber(p)
           b == run[p].pc = "produce"
<1>5. W \in Seq(Operation) /\ I \in Seq(Message)
  BY <1>1, ViewTypes
<1>6. Viewed(W, I, C, n, s, r, b) /\ b \in BOOLEAN
  BY <1>4 DEF View
<1>7. CASE ServerStep(p)
  BY <1>1, <1>3, <1>4, <1>7, StartView, AnswerView, JoinView, CreateView, LoopView DEF ServerStep
<1>8. ASSUME NEW q \in Peers, q # p, ServerStep(q) PROVE View(p)'
  <2>1. run'[p] = run[p] /\ queue'[p] = queue[p] /\ entry'[p] = entry[p]
    BY <1>1, <1>8, OwnStep
  <2>2. SameSources(p) /\ opened'[p] = n
    BY <1>1, <1>8, SourcesElsewhere
  <2>3. SendNumber(p)' = s /\ RecvNumber(p)' = r
    BY <1>1, <2>1, <2>2, NumbersKept
  <2>4. Unanswered(p)' = W /\ callbacks'[p] = C /\ (run'[p].pc = "produce") = b
    BY <1>1, <2>1 DEF Unanswered
  <2>5. Viewed(W, inbox'[p], C, n, s, r, b)
    <3>1. CASE inbox'[p] = I
      BY <1>6, <3>1
    <3>2. CASE \E c \in ConsumerId : inbox'[p] = Append(I, ConsumerMsg(c))
      <4>1. PICK c \in ConsumerId : inbox'[p] = Append(I, ConsumerMsg(c))
        BY <3>2
      <4> HIDE DEF W, I, C, n, s, r, b
      <4>2. QED
        BY <1>5, <1>6, <4>1, MessageAppended, MessageTypes, OtherMessages
    <3>3. QED
      BY <1>1, <1>8, <3>1, <3>2, ToldElsewhere
  <2> HIDE DEF W, I, C, n, s, r, b
  <2>6. QED
    BY <1>6, <2>2, <2>3, <2>4, <2>5, ViewIs
<1>9. CASE RoomCreated \/ RoomFailed
  <2>1. UNCHANGED <<entry, obj, opened>>
    BY <1>9 DEF RoomCreated, RoomFailed
  <2>2. SendNumber(p)' = s /\ RecvNumber(p)' = r
    BY <1>1, <2>1, NumbersKept DEF SameSources
  <2>3. CASE p \notin Awaiting
    <3>1. Unanswered(p)' = W /\ inbox'[p] = I /\ callbacks'[p] = C /\ (run'[p].pc = "produce") = b
      BY <1>1, <1>9, <2>3 DEF RoomCreated, RoomFailed, Unanswered
    <3> HIDE DEF W, I, C, n, s, r, b
    <3>2. QED
      BY <1>6, <2>1, <2>2, <3>1, ViewIs DEF n
  <2>4. CASE p \in Awaiting /\ RoomCreated
    <3>1. run[p].pc = "room" /\ run'[p].pc = "woken" /\ queue' = queue /\ inbox' = inbox
      BY <2>4, StageForms DEF RoomCreated, Awaiting
    <3>2. Unanswered(p)' = W /\ inbox'[p] = I /\ callbacks'[p] = C /\ (run'[p].pc = "produce") = b
      BY <1>1, <3>1 DEF Unanswered
    <3> HIDE DEF W, I, C, n, s, r, b
    <3>3. QED
      BY <1>6, <2>1, <2>2, <3>2, ViewIs DEF n
  <2>5. CASE p \in Awaiting /\ RoomFailed
    <3>1. run[p].pc = "room" /\ queue[p] # <<>>
      BY <1>1, <2>5, StageForms DEF Awaiting, ServerTypes, StageOf, Running
    <3>2. W = queue[p] /\ W # <<>>
      BY <3>1 DEF Unanswered
    <3>3. run'[p] = Idle /\ queue'[p] = Tail(W) /\ inbox'[p] = Append(I, ErrorMsg)
      BY <1>3, <2>5, <3>2 DEF RoomFailed
    <3>4. Unanswered(p)' = Tail(W) /\ callbacks'[p] = C /\ (run'[p].pc = "produce") = FALSE
      BY <1>1, <3>3, StageForms DEF Unanswered
    <3> HIDE DEF W, I, C, n, s, r, b
    <3>5. Viewed(Tail(W), Append(I, ErrorMsg), C, n, s, r, FALSE)
      BY <1>5, <1>6, <3>2, Refused
    <3>6. QED
      BY <2>1, <2>2, <3>3, <3>4, <3>5, ViewIs DEF n
  <2>6. QED
    BY <1>9, <2>3, <2>4, <2>5
<1>10. QED
  BY <1>7, <1>8, <1>9 DEF ServerNext

(* A leave leaves a peer with the transports it had, or none. *)
LEMMA LeaveNumbers ==
    ASSUME ServerTypes, NEW q \in Peers, NEW p \in Peers, Leaves(q) \/ Stays
    PROVE  SendNumber(p)' \in {0, SendNumber(p)} /\ RecvNumber(p)' \in {0, RecvNumber(p)}
<1>1. CASE Stays
  BY <1>1 DEF Stays, SendNumber, RecvNumber, Number, Entry
<1>2. CASE Leaves(q)
  <2>1. /\ Entry(q) \in Objects /\ entry' = [entry EXCEPT ![q] = 0]
        /\ obj' = [obj EXCEPT ![Entry(q)] = obj'[Entry(q)]]
    BY <1>2, LeaveFacts
  <2>2. CASE p = q \/ entry[p] = 0
    BY <2>1, <2>2 DEF SendNumber, RecvNumber, ServerTypes, Typed
  <2>3. CASE p # q /\ entry[p] # 0
    <3>1. Entry(p) \in Objects /\ Entry(p) # Entry(q) /\ entry'[p] = entry[p] /\ Entry(p)' = Entry(p)
      BY <2>1, <2>3, EntryType DEF Entry, ServerTypes, Typed
    <3>2. obj'[Entry(p)] = obj[Entry(p)]
      BY <2>1, <3>1 DEF ServerTypes, Typed
    <3>3. QED
      BY <3>1, <3>2 DEF SendNumber, RecvNumber, Number
  <2>4. QED
    BY <2>2, <2>3
<1>3. QED
  BY <1>1, <1>2

(* What is appended to a sequence is appended to its tail. *)
LEMMA TailConcat ==
    ASSUME NEW S, NEW s \in Seq(S), NEW t \in Seq(S), s # <<>>
    PROVE  Tail(s \o t) = Tail(s) \o t
<1> DEFINE n == Len(s)
           k == Len(t)
           st == s \o t
           u == Tail(s)
           a == Tail(st)
           c == u \o t
<1>1. n \in Nat /\ n >= 1 /\ k \in Nat
  OBVIOUS
<1>2. st \in Seq(S) /\ Len(st) = n + k /\ st # <<>>
  BY ConcatProperties
<1>3. \A i \in 1 .. n + k : st[i] = IF i <= n THEN s[i] ELSE t[i - n]
  BY ConcatProperties
<1>4. u \in Seq(S) /\ Len(u) = n - 1 /\ \A i \in 1 .. Len(u) : u[i] = s[i + 1]
  BY HeadTailProperties
<1> HIDE DEF st, u
<1>5. a \in Seq(S) /\ Len(a) = Len(st) - 1 /\ \A i \in 1 .. Len(a) : a[i] = st[i + 1]
  BY <1>2, HeadTailProperties
<1>6. /\ c \in Seq(S) /\ Len(c) = Len(u) + k
      /\ \A i \in 1 .. Len(u) + k : c[i] = IF i <= Len(u) THEN u[i] ELSE t[i - Len(u)]
  BY <1>4, ConcatProperties
<1> HIDE DEF a, c, n, k
<1>7. Len(a) = n + k - 1 /\ Len(c) = n + k - 1
  BY <1>1, <1>2, <1>4, <1>5, <1>6
<1>8. ASSUME NEW i \in 1 .. Len(a) PROVE a[i] = c[i]
  <2>1. i \in Nat /\ i >= 1 /\ i <= n + k - 1 /\ i + 1 \in 1 .. n + k
    BY <1>1, <1>7
  <2>2. a[i] = IF i + 1 <= n THEN s[i + 1] ELSE t[(i + 1) - n]
    <3>1. a[i] = st[i + 1]
      BY <1>5
    <3>2. st[i + 1] = IF i + 1 <= n THEN s[i + 1] ELSE t[(i + 1) - n]
      BY <1>3, <2>1
    <3>3. QED
      BY <3>1, <3>2
  <2>3. c[i] = IF i <= n - 1 THEN u[i] ELSE t[i - (n - 1)]
    BY <1>1, <1>4, <1>6, <2>1
  <2>4. i <= n - 1 => u[i] = s[i + 1]
    BY <1>1, <1>4, <2>1
  <2>5. (i + 1) - n = i - (n - 1)
    BY <1>1, <2>1
  <2>6. QED
    BY <1>1, <2>1, <2>2, <2>3, <2>4, <2>5
<1>9. a = c
  BY <1>5, <1>6, <1>7, <1>8, SeqEqual
<1>10. QED
  BY <1>9 DEF a, c, st, u

(* What a client asks for comes last. *)
LEMMA UnansweredAfterEnqueue ==
    ASSUME ServerTypes, NEW p \in Peers, NEW ops \in Seq(Operation), queue' = Enqueued(p, ops),
           run'[p].pc = run[p].pc
    PROVE  Unanswered(p)' = Unanswered(p) \o ops
<1>1. queue[p] \in Seq(Operation) /\ queue'[p] = queue[p] \o ops
  BY DEF Enqueued, ServerTypes, Typed
<1>2. run[p].pc \in {"loop", "consume"} => queue[p] # <<>>
  BY StageForms DEF ServerTypes, StageOf
<1>3. queue[p] # <<>> => Tail(queue[p] \o ops) = Tail(queue[p]) \o ops
  BY <1>1, TailConcat
<1>4. QED
  BY <1>1, <1>2, <1>3 DEF Unanswered

(* What a client does to the server leaves what it has heard and asked for in order. *)
LEMMA LeaveView ==
    ASSUME ServerTypes, TransportInv, NEW q \in Peers, ClientEffect(q), NEW p \in Peers, View(p)
    PROVE  /\ Viewed(Unanswered(p), inbox[p], callbacks[p], opened'[p],
                     SendNumber(p)', RecvNumber(p)', run'[p].pc = "produce")
           /\ run'[p].pc = run[p].pc
<1> DEFINE W == Unanswered(p)
           I == inbox[p]
           C == callbacks[p]
           n == opened[p]
           s == SendNumber(p)
           r == RecvNumber(p)
           s2 == SendNumber(p)'
           r2 == RecvNumber(p)'
           b == run[p].pc = "produce"
<1>1. n \in Nat /\ s \in Nat /\ r \in Nat
  BY ViewTypes
<1>2. s2 \in {0, s} /\ r2 \in {0, r}
  BY LeaveNumbers DEF ClientEffect
<1>3. opened'[p] = n
  BY DEF ClientEffect
<1>4. run'[p].pc = run[p].pc
  BY LeaveStages DEF ClientEffect
<1>5. Viewed(W, I, C, n, s, r, b)
  BY DEF View
<1>6. Viewed(W, I, C, n, s2, r2, b)
  <2>1. s2 \in Nat /\ r2 \in Nat
    BY <1>1, <1>2
  <2> HIDE DEF W, I, C, n, s, r, s2, r2, b
  <2>2. n >= n
    BY <1>1
  <2>3. QED
    BY <1>1, <1>2, <1>5, <2>1, <2>2, NumbersMove
<1>7. QED
  BY <1>3, <1>4, <1>6

(* A client changes nothing of what another has asked for, heard and awaits. *)
LEMMA ClientElsewhere ==
    ASSUME Types, NEW q \in Peers, ClientStep(q), NEW p \in Peers, p # q
    PROVE  /\ queue'[p] = queue[p] /\ inbox'[p] = inbox[p] /\ socket'[p] = socket[p]
           /\ callbacks'[p] = callbacks[p] /\ screen'[p] = screen[p]
<1>1. queue'[p] = queue[p]
  BY ClientStepTypes DEF ClientEffect, Enqueued, Types, ServerTypes, Typed
<1>2. inbox'[p] = inbox[p] /\ socket'[p] = socket[p]
  BY DEF ClientStep, StartCall, Hangup, DismissError, ReadCaps, ReadCreated, ReadProduced,
         ProduceTimeout, ReadConsumer, ReadError, CloseSocket, Close, Read, Untouched,
         Types, ServerTypes, Typed
<1>3. screen'[p] = screen[p]
  BY DEF ClientStep, StartCall, Hangup, DismissError, ReadCaps, ReadCreated, ReadProduced,
         ProduceTimeout, ReadConsumer, ReadError, CloseSocket, clientVars, Types, ClientTypes
<1>4. callbacks'[p] = callbacks[p]
  BY DEF ClientStep, StartCall, Hangup, DismissError, ReadCaps, ReadCreated, ReadProduced,
         ProduceTimeout, ReadConsumer, ReadError, CloseSocket, clientVars, Types, ClientTypes, Cleanup
<1>5. QED
  BY <1>1, <1>2, <1>3, <1>4

(* What a client asks for without producing anything. *)
LEMMA OtherRequests ==
    /\ <<JoinOp(FALSE)>> \in Seq(Operation)
    /\ <<JoinOp(TRUE), CreateOp("send"), CreateOp("recv")>> \in Seq(Operation)
    /\ \A c \in ConsumerId : <<ResumeOp(c)>> \in Seq(Operation)
    /\ \A i \in DOMAIN <<JoinOp(FALSE)>> : <<JoinOp(FALSE)>>[i].type # "produce"
    /\ \A i \in DOMAIN <<JoinOp(TRUE), CreateOp("send"), CreateOp("recv")>> :
          <<JoinOp(TRUE), CreateOp("send"), CreateOp("recv")>>[i].type # "produce"
    /\ \A c : \A i \in DOMAIN <<ResumeOp(c)>> : <<ResumeOp(c)>>[i].type # "produce"
<1>1. /\ JoinOp(FALSE).type # "produce" /\ JoinOp(TRUE).type # "produce"
      /\ CreateOp("send").type # "produce" /\ CreateOp("recv").type # "produce"
      /\ \A c : ResumeOp(c).type # "produce"
  BY DEF JoinOp, CreateOp, ResumeOp
<1>2. /\ JoinOp(FALSE) \in Operation /\ JoinOp(TRUE) \in Operation
      /\ CreateOp("send") \in Operation /\ CreateOp("recv") \in Operation
      /\ \A c \in ConsumerId : ResumeOp(c) \in Operation
  BY OperationTypes
<1>3. /\ \A a \in Operation : <<a>> \in Seq(Operation)
      /\ \A a, b, c \in Operation : <<a, b, c>> \in Seq(Operation)
  OBVIOUS
<1>4. /\ <<JoinOp(FALSE)>> \in Seq(Operation)
      /\ <<JoinOp(TRUE), CreateOp("send"), CreateOp("recv")>> \in Seq(Operation)
      /\ \A c \in ConsumerId : <<ResumeOp(c)>> \in Seq(Operation)
  BY <1>2, <1>3
<1>5. \A x : x.type # "produce" => \A i \in DOMAIN <<x>> : <<x>>[i].type # "produce"
  OBVIOUS
<1>6. \A x, y, z : x.type # "produce" /\ y.type # "produce" /\ z.type # "produce" =>
          \A i \in DOMAIN <<x, y, z>> : <<x, y, z>>[i].type # "produce"
  OBVIOUS
<1>7. QED
  BY <1>1, <1>4, <1>5, <1>6

(* A client that clears its callbacks. *)
LEMMA ViewCleared ==
    ASSUME NEW p \in Peers, NEW W, NEW I, NEW C, NEW n, NEW s, NEW r, NEW b \in BOOLEAN,
           Viewed(W, I, C, n, s, r, b),
           Unanswered(p)' = W, inbox'[p] = I, callbacks'[p] \in {C, <<>>}, opened'[p] = n,
           SendNumber(p)' = s, RecvNumber(p)' = r, (run'[p].pc = "produce") = b
    PROVE  View(p)'
<1>1. Viewed(W, I, callbacks'[p], n, s, r, b)
  BY CallbacksCleared
<1>2. QED
  BY <1>1, ViewIs

(* What a client that is open does, it does in order. *)
LEMMA OwnView ==
    ASSUME Types, TransportInv, NEW p \in Peers, socket'[p] = "open", ClientStep(p), View(p),
           callbacks[p] # <<>> => screen[p] = "call"
    PROVE  /\ View(p)'
           /\ callbacks'[p] # <<>> => screen'[p] = "call"
<1> DEFINE W == Unanswered(p)
           I == inbox[p]
           C == callbacks[p]
           n == opened'[p]
           s == SendNumber(p)'
           r == RecvNumber(p)'
           b == run'[p].pc = "produce"
<1>1. ServerTypes /\ ClientTypes /\ C \in Seq(ProducerId) /\ b \in BOOLEAN
  BY DEF Types, ClientTypes
<1>2. ClientEffect(p) /\ ClientTypes'
  BY ClientStepTypes
<1>3. Viewed(W, I, C, n, s, r, b) /\ run'[p].pc = run[p].pc
  BY <1>1, <1>2, LeaveView
<1>4. W \in Seq(Operation) /\ I \in Seq(Message)
  BY <1>1, ViewTypes
<1>5. n \in Nat /\ s \in Nat /\ r \in Nat
  <2>1. /\ opened[p] \in Nat /\ SendNumber(p) \in Nat /\ RecvNumber(p) \in Nat
    BY <1>1, ViewTypes
  <2>2. n = opened[p] /\ s \in {0, SendNumber(p)} /\ r \in {0, RecvNumber(p)}
    BY <1>1, <1>2, LeaveNumbers DEF ClientEffect
  <2>3. QED
    BY <2>1, <2>2
<1>6. queue' = queue => Unanswered(p)' = W
  BY <1>3 DEF Unanswered
<1>7. ASSUME NEW ops \in Seq(Operation), queue' = Enqueued(p, ops)
      PROVE  Unanswered(p)' = W \o ops
  BY <1>1, <1>3, <1>7, UnansweredAfterEnqueue
<1>8. ASSUME NEW type, Reading(p, type), Read(p)
      PROVE  I # <<>> /\ I[1].type = type /\ inbox'[p] = Tail(I)
  BY <1>1, <1>4, <1>8 DEF Reading, Read, ServerTypes, Typed
<1>9. CASE StartCall(p)
  <2>1. queue' = Enqueued(p, <<JoinOp(FALSE)>>) /\ inbox' = inbox /\ callbacks' = callbacks
        /\ screen'[p] = "call"
    BY <1>1, <1>9 DEF StartCall, ClientTypes
  <2>2. Unanswered(p)' = W \o <<JoinOp(FALSE)>>
    BY <1>7, <2>1, OtherRequests
  <2>3. Viewed(W \o <<JoinOp(FALSE)>>, I, C, n, s, r, b)
    <3> HIDE DEF W, I, C, n, s, r, b
    <3>1. QED
      BY <1>3, <1>4, OtherRequests, OperationsAppended
  <2>4. QED
    BY <1>1, <2>1, <2>2, <2>3, ViewIs
<1>10. ASSUME Cleanup(p) PROVE callbacks'[p] = <<>>
  BY <1>1, <1>10 DEF Cleanup, CallbacksAfterCleanup, ClientTypes
<1>11. CASE Hangup(p) \/ DismissError(p)
  <2>1. queue' = queue /\ inbox' = inbox /\ callbacks'[p] = <<>>
    BY <1>10, <1>11 DEF Hangup, DismissError
  <2>2. View(p)'
    BY <1>1, <1>3, <1>6, <2>1, ViewCleared
  <2>3. QED
    BY <2>1, <2>2
<1>12. ASSUME I # <<>>, C = <<>> \/ (~IsProduced(I[1]) /\ ~IsError(I[1]))
       PROVE  Viewed(W, Tail(I), C, n, s, r, b)
  <2> HIDE DEF W, I, C, n, s, r, b
  <2>1. QED
    BY <1>3, <1>4, <1>12, MessageRead
<1>13. CASE ReadCaps(p)
  <2> DEFINE ops == <<JoinOp(TRUE), CreateOp("send"), CreateOp("recv")>>
  <2>1. /\ I # <<>> /\ I[1].type = "caps" /\ inbox'[p] = Tail(I)
        /\ callbacks' = callbacks /\ screen' = screen
        /\ queue' = queue \/ queue' = Enqueued(p, ops)
    BY <1>8, <1>13 DEF ReadCaps
  <2>2. Viewed(W, Tail(I), C, n, s, r, b)
    BY <1>12, <2>1 DEF IsProduced, IsError
  <2>3. CASE queue' = queue
    BY <1>1, <1>6, <2>1, <2>2, <2>3, ViewIs
  <2>4. CASE queue' = Enqueued(p, ops)
    <3>1. Unanswered(p)' = W \o ops
      BY <1>7, <2>4, OtherRequests
    <3>2. Viewed(W \o ops, Tail(I), C, n, s, r, b)
      <4> HIDE DEF W, I, C, n, s, r, b
      <4>1. QED
        BY <1>4, <2>2, OtherRequests, OperationsAppended
    <3>3. QED
      BY <1>1, <2>1, <3>1, <3>2, ViewIs
  <2>5. QED
    BY <2>1, <2>3, <2>4
<1>14. CASE ReadConsumer(p)
  <2>1. /\ I # <<>> /\ I[1].type = "consumer" /\ inbox'[p] = Tail(I)
        /\ callbacks' = callbacks /\ screen' = screen
        /\ queue' = queue \/ queue' = Enqueued(p, <<ResumeOp(I[1].consumer)>>)
    BY <1>8, <1>14 DEF ReadConsumer, clientVars, Untouched, Reading
  <2>2. Viewed(W, Tail(I), C, n, s, r, b)
    BY <1>12, <2>1 DEF IsProduced, IsError
  <2>3. CASE queue' = queue
    BY <1>1, <1>6, <2>1, <2>2, <2>3, ViewIs
  <2>4. CASE queue' = Enqueued(p, <<ResumeOp(I[1].consumer)>>)
    <3> DEFINE c == I[1].consumer
    <3>1. c \in ConsumerId
      BY <1>4, <2>1 DEF Message
    <3> HIDE DEF c
    <3>2. Unanswered(p)' = W \o <<ResumeOp(c)>>
      BY <1>7, <2>4, <3>1, OtherRequests DEF c
    <3>3. Viewed(W \o <<ResumeOp(c)>>, Tail(I), C, n, s, r, b)
      <4> HIDE DEF W, I, C, n, s, r, b
      <4>1. QED
        BY <1>4, <2>2, <3>1, OtherRequests, OperationsAppended
    <3>4. QED
      BY <1>1, <2>1, <3>2, <3>3, ViewIs
  <2>5. QED
    BY <2>1, <2>3, <2>4
<1>15. CASE ReadError(p)
  <2>1. /\ I # <<>> /\ inbox'[p] = Tail(I) /\ queue' = queue
    BY <1>8, <1>15 DEF ReadError
  <2>2. callbacks'[p] = <<>>
    BY <1>10, <1>15 DEF ReadError
  <2>3. Viewed(W, Tail(I), <<>>, n, s, r, b)
    <3> HIDE DEF W, I, C, n, s, r, b
    <3>1. Viewed(W, I, <<>>, n, s, r, b)
      BY <1>3, CallbacksCleared
    <3>2. QED
      BY <1>4, <2>1, <3>1, MessageRead
  <2>4. QED
    BY <1>1, <1>6, <2>1, <2>2, <2>3, ViewIs
<1>16. CASE ProduceTimeout(p)
  <2>1. queue' = queue /\ inbox' = inbox /\ C # <<>>
        /\ (callbacks'[p] = <<>> \/ (callbacks'[p] = Tail(C) /\ screen' = screen))
    BY <1>1, <1>10, <1>16 DEF ProduceTimeout, ClientTypes
  <2>2. Viewed(W, I, Tail(C), n, s, r, b) /\ Viewed(W, I, <<>>, n, s, r, b)
    <3> HIDE DEF W, I, C, n, s, r, b
    <3>1. QED
      BY <1>1, <1>3, <2>1, CallbackDropped, CallbacksCleared
  <2>3. View(p)'
    BY <1>1, <1>6, <2>1, <2>2, ViewIs
  <2>4. QED
    BY <2>1, <2>3
<1>17. CASE ReadCreated(p)
  <2>1. /\ I # <<>> /\ I[1].type = "created" /\ inbox'[p] = Tail(I) /\ screen' = screen
        /\ Head(inbox[p]) = I[1]
    BY <1>8, <1>17 DEF ReadCreated, Reading
  <2>2. Viewed(W, Tail(I), C, n, s, r, b)
    BY <1>12, <2>1 DEF IsProduced, IsError
  <2>3. CASE queue' = queue /\ callbacks' = callbacks
    BY <1>1, <1>6, <2>1, <2>2, <2>3, ViewIs
  <2>4. CASE ~(queue' = queue /\ callbacks' = callbacks)
    <3> DEFINE t == I[1].transport
               op == ProduceOp(t, "audio")
               pr == Producer(t, "audio")
    <3>1. /\ I[1].dir = "send" /\ screen[p] = "call"
          /\ queue' = Enqueued(p, <<op>>)
          /\ callbacks' = [callbacks EXCEPT ![p] = Append(@, pr)]
      BY <1>17, <2>1, <2>4 DEF ReadCreated
    <3>2. t \in Transport /\ "audio" \in Kinds
      BY <1>4, <2>1, KindsAssumption DEF Message
    <3>3. op \in Operation /\ callbacks'[p] = Append(C, pr)
      BY <1>1, <3>1, <3>2, OperationTypes DEF ClientTypes
    <3>4. SendCreated(I[1]) /\ I[1].transport = t
      BY <2>1, <3>1 DEF SendCreated
    <3> HIDE DEF W, I, C, n, s, r, b, t
    <3>5. <<op>> \in Seq(Operation) /\ W \o <<op>> = Append(W, op)
      BY <1>4, <3>3
    <3>6. Unanswered(p)' = Append(W, op)
      BY <1>7, <3>1, <3>5
    <3>7. Viewed(Append(W, op), Tail(I), Append(C, pr), n, s, r, b)
      BY <1>1, <1>3, <1>4, <1>5, <2>1, <3>2, <3>4, CreatedRead
    <3>8. View(p)'
      BY <1>1, <2>1, <3>3, <3>6, <3>7, ViewIs DEF n, s, r, b
    <3>9. QED
      BY <2>1, <3>1, <3>8
  <2>5. QED
    BY <2>3, <2>4
<1>18. CASE ReadProduced(p)
  <2>1. /\ I # <<>> /\ I[1].type = "produced" /\ inbox'[p] = Tail(I) /\ screen' = screen
    BY <1>8, <1>18 DEF ReadProduced, Reading
  <2>2. CASE C = <<>>
    <3>1. callbacks'[p] = <<>> /\ queue' = queue
      BY <1>18, <2>2 DEF ReadProduced
    <3>2. Viewed(W, Tail(I), C, n, s, r, b)
      BY <1>12, <2>1, <2>2
    <3>3. QED
      BY <1>1, <1>6, <2>1, <2>2, <3>1, <3>2, ViewIs
  <2>3. CASE C # <<>>
    <3> DEFINE t == C[1].transport
               op == ProduceOp(t, "video")
               pr == Producer(t, "video")
    <3>1. IsProduced(I[1]) /\ Resolved(p) = C[1] /\ C[1] \in ProducerId
      BY <1>1, <2>1, <2>3 DEF IsProduced, Resolved
    <3>2. /\ Tail(C) = <<>>
          /\ \A k \in Kinds : Viewed(Append(W, ProduceOp(C[1].transport, k)), Tail(I),
                                     Append(<<>>, Producer(C[1].transport, k)), n, s, r, b)
      <4> HIDE DEF W, I, C, n, s, r, b
      <4>1. QED
        BY <1>1, <1>3, <1>4, <1>5, <2>1, <2>3, <3>1, ProducedRead
    <3>3. screen[p] = "call"
      BY <2>3
    <3>4. CASE UNCHANGED queue /\ callbacks' = [callbacks EXCEPT ![p] = Tail(callbacks[p])]
      <4>1. callbacks'[p] = <<>>
        BY <1>1, <3>2, <3>4 DEF ClientTypes
      <4>2. Viewed(W, Tail(I), <<>>, n, s, r, b)
        <5> HIDE DEF W, I, C, n, s, r, b
        <5>1. Viewed(W, I, <<>>, n, s, r, b)
          BY <1>3, CallbacksCleared
        <5>2. QED
          BY <1>4, <2>1, <5>1, MessageRead
      <4>3. QED
        BY <1>1, <1>6, <2>1, <3>4, <4>1, <4>2, ViewIs
    <3>5. CASE /\ "video" \in Kinds
               /\ queue' = Enqueued(p, <<op>>)
               /\ callbacks' = [callbacks EXCEPT ![p] = Append(Tail(callbacks[p]), pr)]
      <4>1. t \in Transport /\ callbacks'[p] = Append(<<>>, pr)
        BY <1>1, <3>1, <3>2, <3>5 DEF ClientTypes, ProducerId
      <4>2. op \in Operation
        BY <3>5, <4>1, OperationTypes
      <4>3. Viewed(Append(W, op), Tail(I), Append(<<>>, pr), n, s, r, b)
        BY <3>2, <3>5
      <4> HIDE DEF W, I, C, n, s, r, b, t
      <4>4. <<op>> \in Seq(Operation) /\ W \o <<op>> = Append(W, op)
        BY <1>4, <4>2
      <4>5. Unanswered(p)' = Append(W, op)
        BY <1>7, <3>5, <4>4
      <4>6. View(p)'
        BY <1>1, <2>1, <4>1, <4>3, <4>5, ViewIs DEF n, s, r, b
      <4>7. QED
        BY <2>1, <3>3, <4>6
    <3>6. QED
      BY <1>18, <2>3, <3>1, <3>4, <3>5 DEF ReadProduced
  <2>4. QED
    BY <2>2, <2>3
<1>19. CASE CloseSocket(p)
  BY <1>1, <1>19 DEF CloseSocket, Close, ServerTypes, Typed
<1>20. QED
  BY <1>9, <1>11, <1>13, <1>14, <1>15, <1>16, <1>17, <1>18, <1>19 DEF ClientStep

(* The clients keep requests, answers and callbacks in step. *)
LEMMA ClientAnswers ==
    ASSUME Types, TransportInv, AnswersInv, NEW q \in Peers, ClientStep(q)
    PROVE  AnswersInv'
<1>1. ServerTypes /\ ClientEffect(q)
  BY ClientStepTypes DEF Types
<1>2. SUFFICES ASSUME NEW p \in Peers, socket'[p] = "open"
               PROVE  View(p)' /\ (callbacks'[p] # <<>> => screen'[p] = "call")
  BY DEF AnswersInv
<1>3. socket[p] = "open"
  <2>1. CASE p = q
    BY <2>1 DEF ClientStep, StartCall, Hangup, DismissError, ReadCaps, ReadCreated, ReadProduced,
         ProduceTimeout, ReadConsumer, ReadError, CloseSocket, Close, Reading, Awake
  <2>2. CASE p # q
    BY <1>2, <2>2, ClientElsewhere
  <2>3. QED
    BY <2>1, <2>2
<1>4. View(p) /\ (callbacks[p] # <<>> => screen[p] = "call")
  BY <1>3 DEF AnswersInv
<1>5. CASE p = q
  BY <1>2, <1>4, <1>5, OwnView
<1>6. CASE p # q
  <2>1. /\ queue'[p] = queue[p] /\ inbox'[p] = inbox[p]
        /\ callbacks'[p] = callbacks[p] /\ screen'[p] = screen[p]
    BY <1>6, ClientElsewhere
  <2>2. /\ Viewed(Unanswered(p), inbox[p], callbacks[p], opened'[p],
                  SendNumber(p)', RecvNumber(p)', run'[p].pc = "produce")
        /\ run'[p].pc = run[p].pc
    BY <1>1, <1>4, LeaveView
  <2>3. Unanswered(p)' = Unanswered(p)
    BY <2>1, <2>2 DEF Unanswered
  <2>4. View(p)'
    BY <2>1, <2>2, <2>3, ViewIs
  <2>5. QED
    BY <1>4, <2>1, <2>4
<1>7. QED
  BY <1>5, <1>6

LEMMA AnswersStart == Init => AnswersInv
<1> SUFFICES ASSUME Init, NEW p \in Peers PROVE View(p) /\ callbacks[p] = <<>>
  BY DEF AnswersInv
<1>1. /\ callbacks[p] = <<>> /\ queue[p] = <<>> /\ inbox[p] = <<>> /\ run[p] = Idle
  BY DEF Init, ServerInit
<1>2. Unanswered(p) = <<>> /\ run[p].pc # "produce"
  BY <1>1, StageForms DEF Unanswered
<1>3. Viewed(<<>>, <<>>, <<>>, opened[p], SendNumber(p), RecvNumber(p), FALSE)
  BY DEF Viewed, RequestsInOrder, MessagesInOrder, CallbacksInOrder, NewsIsNewer, OneAnswer,
         WillHear, ListensAlone, AllKnown
<1>4. QED
  BY <1>1, <1>2, <1>3 DEF View

LEMMA AnswersStay ==
    ASSUME UNCHANGED vars, AnswersInv
    PROVE  AnswersInv'
  BY DEF vars, serverVars, clientVars, AnswersInv, View, Unanswered, SendNumber, RecvNumber, Number,
         Entry

(* In every reachable state requests, answers and callbacks are in step. *)
LEMMA AnswersHold == Spec => []AnswersInv
<1>1. Init => AnswersInv
  BY AnswersStart
<1>2. Types /\ TransportInv /\ AnswersInv /\ [Next]_vars => AnswersInv'
  BY ServerAnswers, ClientAnswers, AnswersStay DEF Next
<1>3. QED
  BY <1>1, <1>2, TypesHold, TransportsHold, PTL DEF Spec

(***************************************************************************)
(* A client resolves the first callback of pendingProduceCallbacks with    *)
(* whatever sfu-producer-created it reads.  Whatever errors, timeouts,     *)
(* hangups and calls that follow one another, the id is that of the        *)
(* producer this callback asked for: of this call, this transport and this *)
(* kind.                                                                   *)
(***************************************************************************)
THEOREM CallbacksAlwaysMatch == Spec => []CallbacksMatch
<1>1. Types /\ AnswersInv => CallbacksMatch
  <2> SUFFICES ASSUME Types, AnswersInv, NEW p \in Peers, Reading(p, "produced"),
                      callbacks[p] # <<>>
               PROVE  Head(inbox[p]).producer = Resolved(p)
    BY DEF CallbacksMatch
  <2>1. /\ ListensAlone(inbox[p], callbacks[p])
        /\ inbox[p] \in Seq(Message) /\ callbacks[p] \in Seq(ProducerId)
    BY DEF AnswersInv, View, Viewed, Reading, Awake, Types, ServerTypes, Typed, ClientTypes
  <2>2. /\ 1 \in DOMAIN inbox[p] /\ Head(inbox[p]) = inbox[p][1] /\ IsProduced(inbox[p][1])
        /\ 1 \in DOMAIN callbacks[p] /\ Resolved(p) = callbacks[p][1]
    BY <2>1 DEF Reading, Resolved, IsProduced
  <2>3. \A e \in 1 .. 1 - 1 : FALSE
    OBVIOUS
  <2>4. QED
    BY <2>1, <2>2, <2>3 DEF ListensAlone
<1>2. QED
  BY <1>1, AnswersHold, TypesHold, PTL
=============================================================================
