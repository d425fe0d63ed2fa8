# TLA+ models of tuturu

tuturu is a self-hosted chat and video-call application: a Bun server
(`app/src/server`) that signals, stores encrypted messages and, if configured,
forwards media with mediasoup; and a Preact client (`app/src/client`) that is a
reducer plus synchronous effects. This directory holds TLA+ modules of the
parts of it in which order, failure and concurrency matter, TLC configurations
that check them on small instances, and TLAPS proofs for every instance.

Paths below are relative to `app/src/`.

    tlc -workers 2 -config Rooms.cfg Rooms.tla       # any pair from the table of runs
    tlapm RoomsProofs.tla                            # the proofs

## Inventory

| component | state it keeps | operations | interacts with |
|---|---|---|---|
| Rooms and calls (`server/rooms.ts`, `handlers.ts`, `ws.ts`) | rooms map (peers, callPeers), reverse lookup, `ws.data.roomId`, heartbeats | join, leave, join-call, leave-call, relay, receipt, disconnect, heartbeat timeout | broadcasts to clients over their sockets; tells the SFU of leavers |
| Heartbeat (`server/heartbeat.ts`) | ping and pong timers per member | start, pong, timeout, stop | closes sockets of `Rooms`; its pings feed the client's dead timer |
| SFU control plane (`server/sfu/*`, queue in `handlers.ts`) | rooms, pending creations, peer states (transports, producers, consumers), producerOwners, a promise chain per peer | join, create/connect transport, produce, consume-resume, pause/resume, leave | mediasoup requests (awaits), clients |
| Worker pool (`server/sfu/worker-manager.ts`) | slots, respawn timestamps, closed | died, respawn, next worker, close | room creation |
| Messages (`server/database.ts`, `handlers.ts`) | one table | insert, page of history, clean-up | chat and history messages |
| Client reducer (`client/state/reducer.ts`) | one state record | one case per action | effects run after it, in the same dispatch |
| Client connection (`effects/roomWebSocket.ts`, `settings.ts`, `services/websocket.ts`) | refs: ws, timers, attempt counter | connect, open, close, error, ping, dead timer, reconnect timer, button, nickname change, leave | server socket; call screen |
| Client SFU protocol (`effects/sfu.ts`, `client/sfu/*`) | refs: device, two transports, producers, consumers, produce callbacks, inCall | one handler per server message | SFU control plane |
| Mesh negotiation (`services/webrtc.ts`, `effects/webrtc.ts`) | one RTCPeerConnection per call peer, makingOffer | offer, answer, candidate, glare | other clients through relays |
| Chat protocol (`services/chatProtocol.ts`, `db.ts`, `effects/chat.ts`) | seq counter, last seen seq per device, blobs, messages, history cursor | send, receive, merge history | server messages, IndexedDB |
| Media (`services/media.ts`, `effects/media.ts`) | local stream, facing mode, video off, the producer's pause | acquire, flip, toggle, tear down | connections and producers that send its tracks |
| Draggable preview (`services/pip-drag.ts`) | position, bounds, drag | set up, drag, cancel, resize, clean up; hide and show by the reducer | the call screen |
| Media E2EE (`client/e2ee/*`) | key per worker, codec per kind | negotiate codecs, transform one frame | mesh and SFU calls |
| UI, crypto, blobs, configuration, TURN, worker extraction, deployment | — | — | see "Not modelled" |

What is hard about it:

- *Server rooms*: handlers are synchronous, so atomic, but sockets open, die
  silently and close at any point, clients read late, and membership is
  recorded in five places. Correct means: the five agree, limits hold, every
  client that catches up sees the truth, dead members go.
- *SFU*: handlers await mediasoup; a peer's operations are chained but two
  peers' interleave, and a leave cuts in anywhere. Correct means: no pair of
  receiver and producer is missed or served twice, nothing outlives its peer,
  no operation hangs.
- *Client SFU protocol*: server messages are read after the call they belong to
  has ended. Correct means: each call gets its own media and only that.
- *Client connection*: events of several sockets, two timers and the user
  race. Correct means: exactly one attempt under way while the user is shown
  one, silence noticed, and a way out of every state.
- *Chat*: messages reach one list from the cache, broadcasts, history pages and
  one's own sends, through concurrent decryption and IndexedDB transactions,
  while pages reload and connections drop. Correct means: shown once, in order,
  and nothing missed is out of reach.
- *Mesh*: call lists, offers and candidates arrive in orders nobody wrote down,
  and peers rejoin while the old connection is being closed. Correct means: the
  connections there are match the call, and both ends agree on what was
  negotiated.
- *Media*: requests for a camera settle after the call they were for. Correct
  means: what is sent is what the screen says, and no camera stays on.
- *Worker pool*: workers die, are restarted within a rate, and the pool closes
  at any point of that. Correct means: no process is forgotten.

## Modules

### Rooms

State: the server's five records, each socket's condition, and a FIFO `out` per
socket of what was sent and not read. One action per handler, from the `ws`
callback to its last `send()`: `Join`, `Leave`, `JoinCall`, `LeaveCall`,
`Relay` (offers, answers, candidates and receipts alike), `HeartbeatTimeout`,
`Close`; and the outside: `Open`, `FallSilent`, `Deliver`. Helper operators are
what `rooms.ts` functions change (`DoLeave`) and send (`JoinSends`, ...). A
peer is a socket, as `http.ts` gives each its own id.

The shipped client sends `join` once per socket, when it opens, and the model
lets it do no more (`asked`). The handler itself has no such guard; a second
join on one socket would leave the peer in two rooms.

### RoomSync

`Rooms` plus its clients: `peers`, `callPeers` (`listed`), `callActive` (`active`)
and the screen of the reducer, and `sent`, the join-calls and leave-calls on their
way, so that client and server are each behind the other. `Receive` is a message
read; `SwitchToCall`, `MediaAcquired`, `CallFails`, `Hangup` and `DismissError` are
the user and his call, with the `leave-call` that `cleanupCallResources` sends;
`Handle` is the server coming to a request. The properties quantify over "what the
client will believe after reading the next n messages", so they need no fairness
and hold at every moment, not only when channels are empty.

A peer of the model is one socket. `Resume` goes on with a new one: what the client
takes along depends on how it lost the old one (`Losses`: `WS_ERROR`,
`CHANGE_NICKNAME` or a `WS_CLOSED` while reconnecting keep all, another `WS_CLOSED`
clears `callActive`, `WS_ROOM_DISCONNECTED` clears both and turns a call into an
error). `LateClose` is the intentional `WS_CLOSED` of the replaced socket that comes
after its successor was made; an unintentional late one begins another
reconnection, which is `Reconnect`'s matter. What a user does while there is no
socket is what he may do just before it is lost.

The reducer blanks `callPeers` on `HANGUP` and `DISMISS_ERROR` and counts on the
server's next list. `reset` is a history of what a client set itself since it was
last told, or since the call of its room changed; the convergence properties except
that. Where no list comes is `call_stale` and the first of the remarks after the
findings.

### Membership

What the server promises of membership without its maps, sockets and timers:
`at` (the room of each peer), `calling`, `tried`. `Rooms` has it as a property,
`ImplementsMembership`: `at` is `ws.data.roomId`, `calling` the union of the
rooms' `callPeers`, `tried` what `asked` records. Every handler, timer and close
event is one abstract step or a stutter.

### SfuRoom and SfuCall

`SfuRoom` is the server: each async handler is split at its awaits. `queue[p]`
is the promise chain of `enqueueSfuOp`, `run[p]` where the operation at its head
stands and what it captured before the await (peer state, room, loop position).
A peer state that was removed from the room but is still captured lives on in
`obj`. Actions guarded by `Ready` are microtasks; all others wait until no
microtask is left (`Quiet`), as the event loop does. mediasoup is external; the
assumptions are listed at the head of the module: requests are answered, those
whose router or transport was closed meanwhile either way, `producerclose`
arrives later than the close. `consume()` fails only for a closed producer or
transport. `RoomCreated` and `RoomFailed` stand for `createRoom`'s two requests
together.

`SfuCall` adds the client: `StartCall`, `Hangup`, `DismissError`, and one
action per server message. `Cleanup` is `cleanupCallResources` including the
`leave-call` it sends, which the server handles at once (`SfuLeave`). A request
reaches the server immediately; the delay of a round trip is in the inbox. A
device loads in one step. `ProduceTimeout` takes a callback out of the queue at
any time one waits, and fails the call or (when another peer is tracked) only
the produce.

### Reconnect

One client's connection. dispatch is synchronous, so a browser event, the
reducer and all effects are one action; `StartReconnect` takes as a parameter
what the triggering action did to the screen. A socket is "connecting", "open",
"closing", "aborting" (closed before it opened: an error and a close event
follow) or "closed"; `attached` is whether its handlers are still set. Members
of `Sockets` that are closed and unused stand for the next `new WebSocket`, so
runs of any length fit in four.

### Chat

`SEND_MESSAGE` to every screen. A device is one browser profile with one tab;
`blobs`, `lastSeen` and `ownSeq` are its IndexedDB and survive `Reload`. A send
(`sending`), a broadcast being processed (`opening`) and a history page being
decrypted (`pages`) are async functions running concurrently, so each is a
record with a stage, and any of them may go next. Messages are their index in
`sent`; a clock's `Skew` makes timestamps disagree with row ids, which is what
`insertMessageSorted` and the cursor have to live with. `ReadCache` is the one
transaction of `loadCachedMessages`, which takes the newest `CacheLimit` blobs
(`CACHE_LOAD_LIMIT`, 200), and `ShowCache` what it dispatches once all are
decrypted; anything may come between the two, so history cleared meanwhile comes
back on screen. A stored record that cannot be decrypted is left out. `readTo`,
`rejected`, `gap` and `leftOut` are read by no action.

### Parts: Mesh, Media, Workers, PipDrag, E2ee, Heartbeat

Six components that share no state with one another. `MCParts` chooses one in
the initial state and lets it run alone, so that one run of TLC checks all; the
product of their states would say no more.

- `Mesh`: `pc[p][q]` is the RTCPeerConnection of p to q with its signalling
  state, descriptions, buffered candidates, and `ops`, the promises that have not
  settled. A description is named by the connection it describes and the one
  whose offer it is or answers. `wire` is what the server sent and a client has
  not read. Promises of a closed connection never settle. Only the impolite side
  (higher peerId) offers, as in the code, so what `Collision` meets is an offer
  still being answered, and the rollback for glare has nothing to undo.
- `Media`: video tracks and the streams they belong to are sequences, so that a
  stopped track is still there to be looked at. `sfuMode` is chosen at the start.
  In a mesh call `sender` is the track of the connection and TOGGLE_VIDEO switches
  the track; in an SFU call it is the producer's track, TOGGLE_VIDEO pauses the
  producer, and there is an interval ("asked") in which the producer exists but
  `refs.sfuProducers` does not have it.
- `Workers`: processes are numbered, `running` are those that exist, `exits` the
  died events not yet delivered. `Created` and `CreateFails` end the await of
  `respawnWorker`; `ClosePool` may come before them.
- `PipDrag`: positions are points; the viewport may turn in the middle of a drag.
  The size of the video is read by each handler as in the code: 100 x 133 below the
  breakpoint, 160 x 120 above it, nothing while hidden. `TogglePip` changes it and
  runs no handler; `blind` remembers that the position was last computed while the
  preview was hidden.
- `E2ee`: a session description is read line by line as `parseNegotiatedCodecs`
  does; `Frame` operators say what a sender and a receiver make of one frame.
- `Heartbeat`: time in ticks of five seconds; timers count down, messages have an
  age, and a link may be cut. `PingInterval` 6, `PongTimeout` 18 and
  `DeadDetection` 20 are `shared/constants.ts`'s 30, 90 and 100 s.

## Runs

| run | bounds | result | time |
|---|---|---|---|
| `rooms` | 3 sockets, 2 rooms, room limit 2, call limit 1, requests wait on unread messages | pass | 68,564 states, 15 s |
| `room_sync` | 3 sockets, 1 room; "talk": 3 clients, nobody calls, 2 sockets may be lost, requests while fewer than 2 messages are unread (a handler sends up to 3 more); "call": 2 clients, 1 socket may be lost, call limit 2, the server acts (on a join, join-call, leave-call, timeout or close) when nothing is unread, and a user joins the call with no request of his on its way | pass | 834,937 states, 80 s |
| `sfu_call` | 2 peers, audio and video: one call each and 1 mishap, or one of them 3 calls and 2 mishaps | pass | 1.28 M states, 140 s |
| `reconnect` | 4 sockets, 4 user acts or losses, 2 attempts | pass | 48,052 states, 5 s |
| `chat` | 2 devices whose clocks differ, one message there before, 3 in all, pages of 1 row, 2 blobs loaded from the cache, 1 mishap; the writer shows its cache as it reads it | pass | 3.15 M states, 90 s |
| `parts` | mesh: 2 callers, 3 joins, 1 failure; media: 2 calls, 2 flips, mesh or SFU; workers: 2 slots, 3 respawns; 2 container sizes, one on each side of the breakpoint; descriptions of 4 lines; one connection | pass | 394,345 states, 20 s |
| `call_stale` | 2 clients with 3 sockets, call limit 2 | violated | 10 s |
| `sfu_duplicates`, `sfu_cleanup`, `sfu_next_call` | 2 peers | violated | seconds |
| `reconnect_stale` | 3 sockets, 3 acts | violated | seconds |
| `chat_replay` | as `chat` | violated | seconds |

Why the bounds suffice. *rooms*: limits below the number of sockets make full
rooms and full calls, and two rooms let a peer's reset in one be confused with
the other. *room_sync*: three clients are the least in which one joins while
another leaves and the third watches; the queue bound lets messages of several
handlers pile up. For the call, two clients are the least that have one one of
them is out of, and the third socket lets one of them reconnect, with its view, in
the middle of it; requests are handled late, and lists read late, but by turns:
that they overlap is in the proof and not in the run (all of it together is too
many states for one). *sfu_call*: every guard of the control plane concerns a pair
of peers; a mishap is a hang-up, a closed socket, a spurious rejection or a
produce timeout, and one anywhere reaches every await; the third call of one
peer meets answers of its first. `MaxObjects` is three peer states of one peer
referenced at once. *reconnect*: an old socket closing, one replaced while
connecting and the current one make three; the fourth is head room. *chat*: with
pages of one row two messages already need two pages, three leave one in the
middle, and are one more than the cache loads; only one device writes, since what is sent back takes the same
path, and between `ReadCache` and `ShowCache` something comes in the reader only.
*parts*: two callers of a mesh, each pair's negotiation being independent (so
that RTC_FAILED of one while others live is not reached); a third join is a
rejoin by each or two by one; a second flip may overlap the first; two respawns
within the window and a third after it; both orientations; two sections and
their maps in any order.

Deadlock is not checked: with sockets closed, calls used up or acts exhausted,
the system may rest.

### What the passing runs show

- `MembershipConsistent`, `CapacityRespected`, `SilentMemberEvicted`,
  `ImplementsMembership` (rooms)
- `PeersConverge`, `NoStrangerSignal` (room_sync): the order in which `rooms.ts`
  updates and sends loses no one, whatever a client has not read yet and whatever it
  brought from an earlier socket.
- `CallConverges` (room_sync), which is `CallPeersConverge` and
  `CallActiveConverges`: with its channel read a client lists the call of its room
  and shows whether there is one, in the call, out of it, refused or after an error;
  except for what it blanked itself or took along, until the call changes or it reads
  a list. A participant's `HANGUP` is safe because the list that answers its
  leave-call, or an earlier one, follows; `DISMISS_ERROR` after a failure before the
  join has no leave-call, and blanks `callPeers` (not `callActive`) until the next
  change.
- `NobodyMissed` (sfu_call): a newcomer's catch-up loop and a producer's push
  loop between them serve every pair, because each stores its own side before
  it awaits.
- `RoomHasPeers`, `OperationsEnd` (sfu_call)
- `SpeakerKnown`, `LeaversForgotten` (sfu_call): each open producer of a peer in the
  room has its entry in `producerOwners`, each entry of an open producer is of a
  peer in the room that has it, and a peer that goes takes its entries along. Entries
  of producers that were never in the room are another matter (see
  the remarks after the findings).
- `CallbacksMatch` (sfu_call): first in, first out is enough, because
  a produced message of an earlier call meets an empty list: the next call's
  first callback is pushed only after later messages of the same socket. A
  timeout does not break it, because it ends the produce for good.
- `ConnectedIsWatched`, `ReconnectingIsTrying`, `ReconnectEnds`,
  `SilenceIsNoticed` (reconnect): these hold although stale sockets interfere
  (below), because every interference schedules an attempt of its own.
- `ShownOnceInOrder`, `HistoryWithinReach`, `StoredIsShown`,
  `LoadingIsAnswered` (chat): the list is sorted and without repetition whatever
  brings a message first; what was missed can still be paged to; what is stored is
  on the screen once the cache was read, but for what more than `CacheLimit` stored
  messages left out of that reading; the spinner ends. `gap` excepts history cleared with something under way, and
  in `HistoryWithinReach` what the code gets wrong: a first page after a reconnection that does not reach back to
  what is shown leaves a hole the cursor, a minimum, never returns to.
- `ConnectionsMatchCall`, `Negotiated`, `CandidatesApplied` (parts, mesh): when
  all is read and settled, callers have a connection exactly to one another; both
  ends are stable with each other's descriptions; no candidate is lost.
  `Negotiated` and `CandidatesApplied` except pairs of which one rejoined before the other was done with
  its last call (`overlap`): an answer to the old offer can then be taken for the
  new one's.
- `CameraReleased`, `SentIsShown`, `FacingIsActual` (parts, media). `raced`
  excepts what is known to go wrong: a call torn down with a camera request or
  flip under way, two flips at once, video switched off during a flip of a mesh
  call, and a toggle or flip while the SFU producer is asked for (the effect finds
  no producer, so the screen shows the video off while it is sent).
- `NoWorkerForgotten`, `EveryWorkerServes`, `RespawnsLimited` (parts, workers)
- `PreviewInView` (parts, pip): at rest in a corner of the container as it is
  now, and within the margins while dragged (until the next move, if the container
  is resized meanwhile), unless the position was computed while the preview was
  hidden.
- `ParsedAsWritten`, `NoSenderForgotten`, `FramesSurvive` (parts, e2ee): the
  one-pass parser agrees with a definition over the whole description (in what it
  finds, what is turned down, and when it throws for a codec), no sender
  is left in plain text in a call that is wired, and what a receiver makes of a
  sender's frame is that frame, or nothing if a byte of it was changed.
- `DeathIsReal` (parts, heartbeat): neither side gives up a live connection, and
  by the time the client reconnects the server has let go of the old member. It
  holds for a delay up to one tick, and excepts a client refused by a full room,
  which gets no pings, is reconnected after 100 s, and refused again.

### Where the code does not do what it says

1. `sfu_duplicates`: the dedup guard of `createSingleConsumer`
   (`server/sfu/peer-handler.ts:401`) is checked before the await and its
   result stored after. A peer joining while another starts to produce can get
   two consumers of that producer.
2. `sfu_cleanup`: a socket that closes while its `sfu-join` waits for the room
   to be created (`peer-handler.ts:40`) is added to the room afterwards.
   Nobody removes it; the Router stays, and later callers see a ghost.
3. `sfu_next_call`: capabilities read after a hang-up load the Device for no
   call (`client/state/effects/sfu.ts:78`); the next call ignores its own
   capabilities and sends no media.
4. `reconnect_stale`: `connectWebSocket`
   (`client/state/effects/roomWebSocket.ts:199`) leaves the handlers of the
   socket it replaces on. Leaving a room and entering one again while the
   first connection is being made is enough: the first socket's close event
   throws the second out of `refs.ws`.
5. `chat_replay`: broadcasts are decrypted and stored by concurrent functions
   (`client/services/db.ts:363`). Of two messages of one sender the second may be
   stored first; the first, never seen, is then refused as what
   `chatProtocol.ts:29` calls a "replay attack or re-delivery".
6. `call_stale`: a client keeps `callActive` over a reconnection, and `handleJoin`
   (`server/handlers.ts:202`) sends no empty list: a call that ended meanwhile stays
   on its screen.

What else was met while modelling. The models take these paths; no run is about them.

- `HANGUP` hides the call (`client/state/reducer.ts:687`) and counts on the list that
  answers its leave-call. A client whose join-call was refused with `CALL_FULL`, and
  that hangs up before it reads so, is not in the call: `leaveCall` returns at once
  (`server/rooms.ts:241`) and no list comes, though `rooms.ts:245` sends it so that the
  leaver can show the indicator. Excepted by `reset` in `CallConverges`. So is what a
  `DISMISS_ERROR` blanks.
- A produce answered after its peer left puts its producer into `producerOwners`
  (`server/sfu/peer-handler.ts:158`) after the transport it is on was closed, so what
  cleans up on close never runs, and the entry stays until the room is removed.
  `SpeakerKnown` and `LeaversForgotten` are about producers that were open.
- Hide the preview, rotate, show it: its corner was computed for a video of no size
  (`client/services/pip-drag.ts:347`), so it lies outside the container. Excepted by
  `blind` in `PreviewInView`.
- The parser "Throws on malformed SDP" (`client/e2ee/e2ee-transform.ts:143`) but takes
  an m-line without payload type for no m-line (line 72). A sender of that kind is
  refused later, by `wireSenderTransform`, so nothing goes out in plain text
  (`NoSenderForgotten`).
- `refs.inCall` stays true when the socket closes (`client/state/effects/roomWebSocket.ts:179`),
  where its comment (`types.ts:54-55`) says it becomes false. The server has forgotten
  the call; the screen has not.
- `roomWebSocket.ts:213` says of the dead timer "60s from now"; `WS_DEAD_DETECTION_MS`
  is 100 s.

## Fairness

- `Rooms`: the pong deadline of a silent member passes, and a close the server
  asked for completes (timers and Bun's close event); a client reads.
- `SfuCall`: mediasoup answers every request and ready promises run. Users need
  not do anything, clients need not read.
- `Chat`, the parts: none is assumed; their properties are invariants.
- `Reconnect`: connection attempts and closes end one way or another, timers
  fire, and a socket that gets no pongs (any but `refs.ws`) is dropped by the
  server's heartbeat. Nobody owes a ping: `DeadTimerFires` is only enabled
  while none can arrive, since the 100 s deadline outlasts three 30 s pings.

## Proofs

`RoomsProofs` proves three invariants of `Rooms` for any finite set of sockets,
any set of rooms and any positive limits, from the assumptions named in
`Rooms`:

- `TypeCorrect`: type correctness, channels included. Messages are built by the
  operators of `Rooms`; `PostType`, `SendsType` and `LeaveSendsType` say that
  sending them keeps the channels typed; `TypeStep` is one step per handler.
- `MembershipAlwaysConsistent`: `MembershipConsistent` is inductive relative to
  type correctness. It carries two conjuncts that are there for the induction:
  a socket that is new or closed is in no room, and a member has asked (without
  it a second join could find the peer elsewhere). `DoLeaveMembership` treats
  what leave message, disconnect and timeout share.
- `CapacityAlwaysRespected`: by cardinality lemmas (`RoomForOne`: one more fits
  below the limit; `RoomForFewer`), using that a call's members are members of
  its room, hence finite.

`RoomsProofs` also proves `RoomsImplementMembership`: initial states map to
initial states, and each handler's step is mapped to `Enter`, `TurnedAway`,
`EnterCall`, `LeaveCall`, `Depart` or a stutter, from the invariants above
(membership must be consistent for `DoLeave` to take a peer out of one room and
call only, and type correctness for the limits to count finite sets).

`ReconnectProofs` proves three invariants of `Reconnect` for any set of sockets
and any bounds: `ConnectionTypeCorrect`, `ConnectedAlwaysWatched` and
`ReconnectingAlwaysTrying`. Their conjunction `RInv` is inductive: every event
either leaves the status the witness it had (a timer, a socket under way) or ends
in `startReconnect` or `connectWebSocket`, which make one.

`PartsProofs` proves `NoWorkerEverForgotten` for any number of slots: each
running process is in exactly one slot, and none is left once the pool is
closed. `PoolInv` adds that numbers are given once (`Numbered`) and that the slot
of a died event on its way still holds the process that ended
(`ExitsPending`), without which a late event could empty another's slot.

It also proves the two other properties of the pool, for any number of slots,
limit and window. `RespawnsAlwaysLimited`: the timestamps a slot keeps are the last
of all its respawns, and those cut off are out of the window (`RespawnInv`); that
the filter of the code cuts a sorted list at one place is `FilterCuts`.
`EveryWorkerAlwaysServes`: slots are counted from `nextIndex` on, and after k calls
of `getNextWorker` the first k filled ones have been chosen (`ServedInTurn`, by
induction over the calls); all the invariant says is that `nextIndex` is a slot.

`PartsProofs` proves `PreviewAlwaysInView` for any containers with room for the
video, any size of the video on each side of the breakpoint, any pointer and any
hiding and showing: `ClampInBounds` and `CornerInBounds` are the arithmetic
(integers, no rounding), `PipInv` the property with the types.

`HeartbeatProofs` proves `DeathAlwaysReal` for any periods between which
`HeartbeatNumbers` leaves its two margins, and any number of pings.
`HeartbeatInv` says why: of a live connection a pong is under way, or the ping it
will answer, or that ping's timer runs, and the pong deadline is later than that
pong's arrival (`PongComes`); and the dead timer, set no earlier than the message
that last set the deadline was sent, is later than the deadline (`NeverOlder`,
`ServerFirst`), so that the server lets go before the client reconnects.
`TickStep`, where every timer and age moves at once, is the step the margins are
for.

`RoomSyncProofs` proves `PeersAlwaysConverge`, `CallAlwaysConverges` (from
`CallPeersAlwaysConverge` and `CallActiveAlwaysConverges`), `NeverStrangerSignal` and
`ViewsTyped` (the types of the views, `SyncTypeOK`, which is proved only) for any
number of sockets and rooms and channels of any length. What a client will believe is a function of its view and its channel;
`TailReads` says that reading the next message does not change it, `AppendReads`
how one more message does. `JoinedRight`, `LeftRight`, `CallRight`, `OtherRight`
and `NewcomerRight` turn that into one fact per message: it changes what the
client comes to (`Right`) as its handler changes the room. `SyncInv` adds what
the convergence rests on: the records of membership agree (from `RoomsProofs`;
that a member of the room is told depends on it), and before its join a client
has been sent no call list and its view of the call is blank but for what its
`reset` has (`FreshFor`), so that a newcomer to a room without a call, which is sent
none, shows none, or is excepted. What a client does by itself (`ClientSync`)
changes its view only into a blank one that `reset` records or an unread list will
replace; a change of the call (`CallNews`) comes with a list to every member.

`E2eeProofs` proves `AlwaysParsedAsWritten` and `NoSenderEverForgotten` for
descriptions of any lines and any length. `ScanInv` says what the one section the
parser keeps stands for (`SectionIsLast`: the last m-line, until the first rtpmap
line of its payload type); a line that is read comes after all others
(`MLineRead`, `RtpmapRead`), so a section that has its codec keeps it
(`CodecStays`) and one that has none takes it (`CodecTaken`).

It also proves `FramesAlwaysSurvive`: `EncryptedFrame` says what a sender makes of
a frame of any length byte by byte, `SameBytes` and `TakenAsSentOnly` that the
receiver gets those bytes with the same key and codec, and nothing with another or
after a change.

`SfuCallProofs` proves five invariants and an action property of `SfuCall` for any peers, kinds and
budgets. Its three assumptions are in `SfuRoom`: audio is one of the kinds, the
bound `MaxObjects` is a number, and `None` is neither a transport, a producer nor
a loop's target. A join that finds no peer state free under `MaxObjects` does not
go on; the bound is of the model, and for any value of it the theorems hold. The
argument is in layers, each inductive given those before it:

- `TypeCorrect`: `Types` adds to `TypeOK` what the operation at each stage is and
  holds on to (`StageOf`): only a create waits at "create", and a loop has the
  peer state it runs for.
- `RoomsAreInhabited`: `RoomInv` follows a room through its creation: pending means
  somebody awaits it, and a room without peers has somebody woken who will enter
  it before any other event.
- `SpeakersAreKnown` and `LeaversAreForgotten`: `TransportInv` says which transport a state, a producer and a
  running request may name (of its own peer, among those made so far), and that
  what a registered peer has is open. A produce whose peer has left meanwhile asks
  on a closed transport (`Held`), so what it adds is not open; and an open producer
  with an entry is of a peer in the room that has it, which is why a leave, going
  through its peer's producers, finds all of its entries.
- `NobodyIsMissed`: `MissedInv` says that at every moment, not only when all is
  still, each receiver has a consumer of each producer or one is `Owed`: the
  newcomer's loop over producers or the producer's loop over peers runs and has
  not been there (`InHand`). That a consumer under way is made on an open transport
  (`OnOpenTransport`) is what keeps `consume()` from failing for a pair that stays.
- `CallbacksAlwaysMatch`: `AnswersInv` looks at what a client asked and the server
  has not answered, what it has not read, and what its callbacks wait for, as three
  sequences of transport numbers (`Viewed`). Numbers grow, a new send transport is
  heard of after everything older was asked (`NewsIsNewer`), at most one produce is
  between its request and its answer's reading (`OneAnswer`), each callback will
  hear something or an error will end its call (`WillHear`), and an answer on its way
  is for every callback there is (`ListensAlone`), unless an error comes first. One
  lemma says what each event does to the sequences (`MessageRead`, `CreatedRead`,
  `ProducedRead`, `ProduceAnswered`, ...), and `StartView` to `OwnView` which event
  each action is.

What a client does to the server is one relation, `ClientEffect` (between events it
appends typed operations, and leaves or does not), so the layers but the last look
at the server's actions only.

`ChatProofs` proves all five invariants of `Chat`, for any devices, writers, earlier
messages, clocks, page size and bounds. `LoadingAlwaysAnswered` needs `SpinnerInv`
only, the property with some types. The others stand on one another, each layer
inductive given those before it:

- What is computed. `Bisect`, `SortByTimestamp` and `NotAmong` are recursive
  functions and `Listed` picks by rank. `LeastNumber` (a set of numbers has a least
  one) gives `Climb` and `Iterated`, an induction over numbers stated for sets, and
  from these: the binary search finds the place (`BisectIs`), inserting and merging
  keep a list in order, without repetition, and lose nothing (`InsertedOnce`,
  `MergedOnce`), and a page holds the newest rows asked for without a gap
  (`ListedIs`, `GetHistoryIs`).
- `ChatTyped` and `OnceAndInOrder`: `TidyInv` has the types, the order of what is on
  screen, and that a message has one row, a broadcast is of a message with a row and
  what is still being encrypted has none.
- `EverythingStoredShown`: `StoredInv` says what keeps a message from being stored
  unseen (but for `leftOut`; that what is not among the newest `CacheLimit` has as many
  newer ones is in `ReadCacheTidy`): a device is told and decrypts only what others sent (`Heard`), each of it
  once; and a message found in the store when its broadcast comes is on screen
  already, because a page brought it or the cache, or is being decrypted from there.
- `RestWithinReach`: `PlacedInv` puts what is on its way in the order of rows: the
  answer to a join is first, broadcasts are newer than all that was read and than
  that answer, other pages are of rows read of, and so is the cursor. `ReachInv`
  then says of every row from the cursor on, and from the oldest row of every page
  that is being decrypted or on its way, that it was had (`Kept`: shown, refused or
  under way) or will be (`Owed`: it is another's, newer than what was read, and the
  device is not connected, has the answer to its join ahead, or has its broadcast
  coming). Reading the answer to a join is the step it is for: either the page takes
  up where the device was, or it falls short and `gap` says so (`JoinReadReach`).

`PartsProofs` proves `CameraGoesOff`, `WhatIsShownIsSent` and `FacingIsKnown` of
`Media` for any number of calls and flips. `MediaInv` says that as long as nothing
`raced`, there is one stream with at most one video track, which alone may be live,
faces where the state says and is the one sent (`InOrder`), and that a flip under
way is the only one and about that track (`FlipAndSend`).

`PartsProofs` proves `ConnectionsAlwaysMatch` of `Mesh` for any finite set of
callers. `MeshInv` is about clients that have not read everything: the last list of
the call on its way to one is the server's, an offer on its way is of somebody in
the call unless a list follows it (`Current`), and a client with no list to read has
a connection to each other member (`UpToDate`).

`AlwaysNegotiated` and `NoCandidateLost` are about calls in which nothing is under
way, but the argument is about every moment. `NegInv`, inductive given `MeshInv`,
puts each pair in the call that did not `overlap` at one of eight stages, from two
who have not heard of each other to two who agree: `Begins`, `Offers`, `Offered`,
`Accepts`, `Answers`, `Answered`, `Concludes`, `Agreed`. A stage says what both
connections have, which promise they wait for, and what is on its way between the
two; a candidate is on its way, buffered or added (`Taken`). What the stages rest
on: nobody has heard of one who never joined (`Newcomers`), a list without x comes
before all that is of x, so that no connection to somebody present is closed by an
old list (`Present`), and connections have their fields (`Records`). One lemma says
what each event does to the stage of a pair (`OfferSet`, `OfferReceived`, ...),
another per action which events it is; a step of one pair leaves the others where
they were (`OnePair`). With nothing under way only `Agreed` is left (`StillAgreed`).
On the way `NothingRejected` shows that no promise of such a pair is rejected, so
`Rejected` belongs to pairs that overlap.

`PartsTyped` puts together the types of all parts, under `PartsSpec`, of which the
six specifications follow. `MeshTyped` is the part that needed an argument: that a
connection makes its offer in no other signalling state than "stable", and that an
answer is made only where there is an offer to answer. It knows that nothing else is
asked of a connection that makes an offer, because a collision is dropped.

So each safety property a passing run checks, and the refinement of `Membership`,
is a theorem.

Only model-checked: all liveness (`SilentMemberEvicted`, `OperationsEnd`,
`ReconnectEnds`, `SilenceIsNoticed`), which is out of the prover's reach; and the
counterexamples, which are runs.

## Not modelled

User interface, cryptography, blob files, configuration, ICE and TURN
credentials, worker extraction and deployment: no state whose order matters, or
plain I/O. Of the modelled components: the second join on a socket (the client
never sends it), nicknames, connect-transport and the server's side of producer
pause (each one request, awaited by nobody else), how remote streams are
assembled, audio tracks, SFU device loading as an await of its own, the
insets of a notch, and the start-up of the E2EE worker. `SfuCall` begins calls from
the idle screen only; `RoomSync` also from the error screen.

## What could follow

1. `SfuCall` with a call begun from the error screen: SWITCH_TO_CALL works there
   (as `RoomSync` has it), while `StartCall` waits for the error to be dismissed.
2. `SfuCall`: the consumer side of the client (streams, a consume-resume that
   fails because the producer has left) and the produce failures that are not
   timeouts.
3. `Mesh` with three callers, for the branch in which not every peer has failed.
