------------------------------ MODULE Heartbeat ------------------------------
(***************************************************************************)
(* The two watches over one connection: the server's pings and pong        *)
(* deadline (server/heartbeat.ts, started and stopped by handlers.ts) and  *)
(* the client's dead timer (roomWebSocket.ts), with the time they take.    *)
(*                                                                         *)
(* Time passes in ticks.  Timers fire when they are due, and messages      *)
(* arrive, in order, within MaxDelay ticks; once the link is cut nothing   *)
(* arrives in either direction, and neither side is told.                  *)
(***************************************************************************)
EXTENDS Naturals, Sequences, SequencesExt

CONSTANTS
    PingInterval,   \* WS_PING_INTERVAL_MS
    PongTimeout,    \* WS_PONG_TIMEOUT_MS
    DeadDetection,  \* WS_DEAD_DETECTION_MS
    MaxDelay        \* bound: how slow a link is that is not cut

ASSUME HeartbeatNumbers ==
    /\ {PingInterval, PongTimeout, DeadDetection, MaxDelay} \subseteq Nat \ {0}
    /\ PingInterval + 2 * MaxDelay < PongTimeout
    /\ PongTimeout + MaxDelay < DeadDetection

VARIABLES
    clientSide,  \* "connected", "left" or "lost" (WS_ROOM_DISCONNECTED)
    serverSide,  \* "opened", "member", "refused", "gone" (it left) or "timedOut"
    pingTimer,   \* ticks to the next ping
    pongDeadline,
    deadTimer,
    up, down,    \* messages on the way to the server and to the client: type and age
    cut

heartbeatVars == <<clientSide, serverSide, pingTimer, pongDeadline, deadTimer, up, down, cut>>

OnWire(type) == [type |-> type, age |-> 0]
Transmitted(channel, type) == IF cut THEN channel ELSE Append(channel, OnWire(type))
Arriving(channel, type) == channel # <<>> /\ Head(channel).type = type

\* WS_ROOM_CONNECTED: the dead timer starts, and the join is sent.
HeartbeatInit ==
    /\ clientSide = "connected"
    /\ serverSide = "opened"
    /\ pingTimer = PingInterval
    /\ pongDeadline = PongTimeout
    /\ deadTimer = DeadDetection
    /\ up = <<OnWire("join")>>
    /\ down = <<>>
    /\ cut = FALSE

-----------------------------------------------------------------------------
(* The server.                                                             *)

\* handleJoin starts the heartbeat, unless the room is full.
JoinArrives ==
    /\ Arriving(up, "join")
    /\ \/ /\ serverSide' = "member"
          /\ pingTimer' = PingInterval
          /\ pongDeadline' = PongTimeout
       \/ /\ serverSide' = "refused"
          /\ UNCHANGED <<pingTimer, pongDeadline>>
    /\ up' = Tail(up)
    /\ UNCHANGED <<clientSide, deadTimer, down, cut>>

PingDue ==
    /\ serverSide = "member"
    /\ pingTimer = 0
    /\ pingTimer' = PingInterval
    /\ down' = Transmitted(down, "ping")
    /\ UNCHANGED <<clientSide, serverSide, pongDeadline, deadTimer, up, cut>>

DeadlineKept == pongDeadline  \* mutant: receivedPong does nothing
DeadlineAfterPong == IF serverSide = "member" THEN PongTimeout ELSE pongDeadline

PongArrives ==
    /\ Arriving(up, "pong")
    /\ pongDeadline' = DeadlineAfterPong
    /\ up' = Tail(up)
    /\ UNCHANGED <<clientSide, serverSide, pingTimer, deadTimer, down, cut>>

\* The leave message, or the close event of a socket the client closed: stopHeartbeat.
LeaveArrives ==
    /\ Arriving(up, "leave")
    /\ serverSide' = IF serverSide = "member" THEN "gone" ELSE serverSide
    /\ up' = Tail(up)
    /\ UNCHANGED <<clientSide, pingTimer, pongDeadline, deadTimer, down, cut>>

\* onTimeout; the client is told by the closing handshake, if anything reaches it.
PongTimedOut ==
    /\ serverSide = "member"
    /\ pongDeadline = 0
    /\ serverSide' = "timedOut"
    /\ down' = Transmitted(down, "close")
    /\ UNCHANGED <<clientSide, pingTimer, pongDeadline, deadTimer, up, cut>>

-----------------------------------------------------------------------------
(* The client.                                                             *)

\* PING_RECEIVED; the handlers of a socket that was closed answer no more.
PingArrives ==
    /\ Arriving(down, "ping")
    /\ IF clientSide = "connected"
       THEN up' = Transmitted(up, "pong") /\ deadTimer' = DeadDetection
       ELSE UNCHANGED <<up, deadTimer>>
    /\ down' = Tail(down)
    /\ UNCHANGED <<clientSide, serverSide, pingTimer, pongDeadline, cut>>

\* resetDeadTimer's callback; the reconnection it starts closes the socket.
DeadTimerDue ==
    /\ clientSide = "connected"
    /\ deadTimer = 0
    /\ clientSide' = "lost"
    /\ up' = Transmitted(up, "leave")
    /\ UNCHANGED <<serverSide, pingTimer, pongDeadline, deadTimer, down, cut>>

\* cleanupRoomResources, or a change of nickname: the dead timer is cleared.
LeaveConnection ==
    /\ clientSide = "connected"
    /\ clientSide' = "left"
    /\ up' = Transmitted(up, "leave")
    /\ UNCHANGED <<serverSide, pingTimer, pongDeadline, deadTimer, down, cut>>

-----------------------------------------------------------------------------
(* The network and the clocks.                                             *)

CutLink ==
    /\ ~cut
    /\ cut' = TRUE
    /\ up' = <<>>
    /\ down' = <<>>
    /\ UNCHANGED <<clientSide, serverSide, pingTimer, pongDeadline, deadTimer>>

Older(channel) == [i \in DOMAIN channel |-> [channel[i] EXCEPT !.age = @ + 1]]

\* What is running, and not yet due.
TimersLeave ==
    /\ serverSide = "member" => pingTimer > 0 /\ pongDeadline > 0
    /\ clientSide = "connected" => deadTimer > 0
    /\ \A m \in ToSet(up) \cup ToSet(down) : m.age < MaxDelay

TimePasses ==
    /\ TimersLeave
    /\ serverSide = "member" \/ clientSide = "connected" \/ up # <<>> \/ down # <<>>
    /\ IF serverSide = "member"
       THEN pingTimer' = pingTimer - 1 /\ pongDeadline' = pongDeadline - 1
       ELSE UNCHANGED <<pingTimer, pongDeadline>>
    /\ deadTimer' = IF clientSide = "connected" THEN deadTimer - 1 ELSE deadTimer
    /\ up' = Older(up)
    /\ down' = Older(down)
    /\ UNCHANGED <<clientSide, serverSide, cut>>

HeartbeatNext ==
    \/ JoinArrives
    \/ PingDue
    \/ PongArrives
    \/ LeaveArrives
    \/ PongTimedOut
    \/ PingArrives
    \/ DeadTimerDue
    \/ LeaveConnection
    \/ CutLink
    \/ TimePasses

HeartbeatSpec == HeartbeatInit /\ [][HeartbeatNext]_heartbeatVars

-----------------------------------------------------------------------------
(* Type invariant *)
HeartbeatTypeOK ==
    /\ clientSide \in {"connected", "left", "lost"}
    /\ serverSide \in {"opened", "member", "refused", "gone", "timedOut"}
    /\ pingTimer \in 0 .. PingInterval
    /\ pongDeadline \in 0 .. PongTimeout
    /\ deadTimer \in 0 .. DeadDetection
    /\ up \in Seq([type : {"join", "pong", "leave"}, age : 0 .. MaxDelay])
    /\ down \in Seq([type : {"ping", "close"}, age : 0 .. MaxDelay])
    /\ cut \in BOOLEAN

(***************************************************************************)
(* Only a connection that is dead is taken for dead, by either side, and   *)
(* by the time the client does so and connects again the server has given  *)
(* the old connection up, so it is not met again as a ghost of itself:     *)
(* "Must exceed WS_PONG_TIMEOUT_MS to avoid premature reconnects"          *)
(* (shared/constants.ts:21).  A client refused by a full room is excepted: *)
(* it gets no pings, and takes a connection for dead that is not.          *)
(***************************************************************************)
DeathIsReal ==
    /\ serverSide = "timedOut" => cut \/ clientSide # "connected"
    /\ clientSide = "lost" /\ serverSide # "refused" => cut /\ serverSide # "member"
=============================================================================
