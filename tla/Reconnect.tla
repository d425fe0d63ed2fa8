----------------------------- MODULE Reconnect -----------------------------
(***************************************************************************)
(* One client's connection: state/effects/roomWebSocket.ts, settings.ts    *)
(* and cleanup.ts, the socket handlers of services/websocket.ts, and what  *)
(* reducer.ts makes of their actions.                                      *)
(*                                                                         *)
(* dispatch is synchronous and so are these effects: an event, the         *)
(* reducer, the effects and the actions they dispatch in turn are one      *)
(* step.  Concurrent are the events: the browser's open and close events   *)
(* of every socket the client ever made and did not detach, two timers,    *)
(* the server's pings and the user.                                        *)
(***************************************************************************)
EXTENDS Naturals, FiniteSets

CONSTANTS
    Sockets,      \* bound: WebSocket objects that are not closed, at once
    NoSocket,     \* refs.ws.current = null
    MaxAttempts,  \* MAX_RECONNECT_ATTEMPTS
    MaxActs       \* bound: what the user does, and silent network losses

ASSUME NoSocketAssumption == NoSocket \notin Sockets
ASSUME BoundsAssumption == MaxAttempts \in Nat /\ MaxActs \in Nat

VARIABLES
    phase,           \* "login" or "room"
    sock,            \* "connecting", "open", "closing" (once open), "aborting" (never open), "closed"
    attached,        \* sockets whose handlers are set
    lost,            \* open sockets over which nothing arrives any more
    ws,              \* refs.ws.current
    status,          \* wsStatus
    attempt,         \* refs.reconnectAttempt
    reconnectTimer,  \* refs.reconnectTimer is set
    deadTimer,       \* refs.deadTimer is set
    screen,          \* "idle", "call" (waiting-for-peer or call) or "error"
    inCall,          \* refs.inCall
    callOn,          \* the socket that carried the last join-call
    acts             \* what the user did, and silent losses, so far

netVars == <<sock, attached, lost>>
callVars == <<screen, inCall, callOn>>
timerVars == <<reconnectTimer, deadTimer, attempt>>
vars == <<phase, netVars, ws, status, timerVars, callVars, acts>>

-----------------------------------------------------------------------------
Act == acts < MaxActs /\ acts' = acts + 1

\* A socket that is not in use any more stands for the next one made.
Unused == {s \in Sockets : sock[s] = "closed" /\ s # ws}

\* close(): of a socket that never opened it fires error and close events in the end.
Closing(f, s) ==
    CASE s \in Sockets /\ f[s] = "open" -> [f EXCEPT ![s] = "closing"]
      [] s \in Sockets /\ f[s] = "connecting" -> [f EXCEPT ![s] = "aborting"]
      [] OTHER -> f

\* createWebSocket and setupWebSocketHandlers, after `before` became of the other sockets.
WireUp(before, wired) ==
    \E s \in Unused :
        /\ sock' = [before EXCEPT ![s] = "connecting"]
        /\ attached' = wired \cup {s}
        /\ lost' = lost \cap (wired \ {s})
        /\ ws' = s

\* connectWebSocket closes the socket it replaces and leaves its handlers on.
ConnectWebSocket == WireUp(Closing(sock, ws), attached)

\* CHANGE_NICKNAME takes them off: nothing is heard of that socket again.
ConnectDetached ==
    WireUp([s \in Sockets |-> IF s = ws THEN "closed" ELSE sock[s]], attached \ {ws})

\* The cleanup effect, whenever a call's screen is left.
LeaveCallScreen(to) ==
    /\ screen' = to
    /\ inCall' = FALSE
    /\ UNCHANGED callOn

\* mutant: no give-up, the attempts count on
ExhaustedNever == FALSE
Exhausted == attempt >= MaxAttempts

\* mutant: an attempt seems to be under way while a socket is still referred to
TimerOrSocket == reconnectTimer \/ ws # NoSocket
TimerPending == reconnectTimer

\* mutant: an attempt does not count
SameAttempt == attempt
NextAttempt == attempt + 1

(* startReconnect, after the reducer has set the status to `down`; `call`  *)
(* is what the triggering action does to the screen.                       *)
StartReconnect(down, call) ==
    \/ /\ TimerPending
       /\ status' = down
       /\ call
       /\ UNCHANGED <<reconnectTimer, attempt>>
    \/ /\ ~TimerPending
       /\ Exhausted
       /\ status' = "disconnected"
       /\ IF screen = "call" THEN LeaveCallScreen("error") ELSE UNCHANGED callVars
       /\ UNCHANGED <<reconnectTimer, attempt>>
    \/ /\ ~TimerPending
       /\ ~Exhausted
       /\ status' = "reconnecting"
       /\ attempt' = NextAttempt
       /\ reconnectTimer' = TRUE
       /\ call

Keep(current) == IF current = "reconnecting" THEN current ELSE "disconnected"

(* WS_CLOSED that is not intentional, alone or after a WS_ERROR: whichever *)
(* socket it was, the current one is forgotten and a reconnect is due.     *)
UnexpectedClose ==
    /\ deadTimer' = FALSE
    /\ ws' = NoSocket
    /\ StartReconnect(Keep(status), UNCHANGED callVars)

\* WS_CLOSED with code 1000 and a reason of ours: the call is over, nothing is retried.
IntentionalClose ==
    /\ status' = "disconnected"
    /\ IF screen = "call" THEN LeaveCallScreen("idle")
       ELSE screen' = "idle" /\ UNCHANGED <<inCall, callOn>>
    /\ UNCHANGED <<ws, timerVars>>

Unheard == UNCHANGED <<ws, status, timerVars, callVars>>

-----------------------------------------------------------------------------
Init ==
    /\ phase = "login"
    /\ sock = [s \in Sockets |-> "closed"]
    /\ attached = {}
    /\ lost = {}
    /\ ws = NoSocket
    /\ status = "connecting"
    /\ attempt = 0
    /\ reconnectTimer = FALSE
    /\ deadTimer = FALSE
    /\ screen = "idle"
    /\ inCall = FALSE
    /\ callOn = NoSocket
    /\ acts = 0

-----------------------------------------------------------------------------
(* The browser's events.                                                   *)

\* mutant: the dead timer is left to the first ping
OpenedDeadTimer == deadTimer
DeadTimerOnOpen == TRUE

\* onopen: WS_ROOM_CONNECTED, whose effect does not look at the phase.
Opened(s) ==
    /\ sock[s] = "connecting"
    /\ sock' = [sock EXCEPT ![s] = "open"]
    /\ IF s \in attached
       THEN /\ status' = IF phase = "room" THEN "connected" ELSE status
            /\ attempt' = 0
            /\ reconnectTimer' = FALSE
            /\ deadTimer' = DeadTimerOnOpen
            /\ UNCHANGED <<ws, callVars>>
       ELSE Unheard
    /\ UNCHANGED <<phase, attached, lost, acts>>

\* A close event; error fires just before it if the socket never opened.
SocketEnds(s, intentional) ==
    /\ sock' = [sock EXCEPT ![s] = "closed"]
    /\ attached' = attached \ {s}
    /\ lost' = lost \ {s}
    /\ IF s \in attached /\ phase = "room"
       THEN IF intentional THEN IntentionalClose ELSE UnexpectedClose
       ELSE Unheard
    /\ UNCHANGED <<phase, acts>>

\* The connection attempt fails, or was aborted by close().
ConnectFails(s) == sock[s] \in {"connecting", "aborting"} /\ SocketEnds(s, FALSE)

\* The server or the network ends an open connection.
Dropped(s) == sock[s] = "open" /\ SocketEnds(s, FALSE)

\* The closing handshake completes, or the connection breaks before it does.
CloseCompletes(s) ==
    /\ sock[s] = "closing"
    /\ \/ s \notin lost /\ SocketEnds(s, TRUE)
       \/ SocketEnds(s, FALSE)

\* The network goes away and no event says so.
FallSilent(s) ==
    /\ sock[s] = "open"
    /\ s \notin lost
    /\ Act
    /\ lost' = lost \cup {s}
    /\ UNCHANGED <<phase, sock, attached, ws, status, timerVars, callVars>>

\* PING_RECEIVED resets the dead timer, whichever socket it came in on.
Ping(s) ==
    /\ sock[s] = "open"
    /\ s \in attached \ lost
    /\ phase = "room"
    /\ deadTimer' = TRUE
    /\ UNCHANGED <<phase, netVars, ws, status, attempt, reconnectTimer, callVars, acts>>

\* Sockets over which the server's pings arrive: the dead timer outlasts three of them.
Heard == {s \in attached \ lost : sock[s] = "open"}

\* WS_ROOM_DISCONNECTED
DeadTimerFires ==
    /\ deadTimer
    /\ Heard = {}
    /\ deadTimer' = FALSE
    /\ IF phase = "room"
       THEN StartReconnect("disconnected",
                IF screen = "call" THEN LeaveCallScreen("error") ELSE UNCHANGED callVars)
       ELSE UNCHANGED <<status, reconnectTimer, attempt, callVars>>
    /\ UNCHANGED <<phase, netVars, ws, acts>>

ReconnectTimerFires ==
    /\ reconnectTimer
    /\ reconnectTimer' = FALSE
    /\ ConnectWebSocket
    /\ UNCHANGED <<phase, status, attempt, deadTimer, callVars, acts>>

-----------------------------------------------------------------------------
(* The user.                                                               *)

\* SUBMIT_LOGIN, once the passphrase is checked: handleRoomEntry.
Login ==
    /\ phase = "login"
    /\ Act
    /\ phase' = "room"
    /\ status' = "connecting"
    /\ screen' = "idle"
    /\ ConnectWebSocket
    /\ UNCHANGED <<timerVars, inCall, callOn>>

\* LEAVE_ROOM: cleanupRoomResources
LeaveRoom ==
    /\ phase = "room"
    /\ Act
    /\ phase' = "login"
    /\ sock' = Closing(sock, ws)
    /\ ws' = NoSocket
    /\ deadTimer' = FALSE
    /\ reconnectTimer' = FALSE
    /\ LeaveCallScreen("idle")
    /\ UNCHANGED <<attached, lost, status, attempt>>

\* The reconnect button, which is there while the status is "disconnected".
ReconnectRequested ==
    /\ phase = "room"
    /\ status = "disconnected"
    /\ Act
    /\ status' = "reconnecting"
    /\ attempt' = 0
    /\ reconnectTimer' = FALSE
    /\ ConnectWebSocket
    /\ UNCHANGED <<phase, deadTimer, callVars>>

\* CHANGE_NICKNAME
ChangeNickname ==
    /\ phase = "room"
    /\ Act
    /\ status' = "connecting"
    /\ attempt' = 0
    /\ reconnectTimer' = FALSE
    /\ ConnectDetached
    /\ UNCHANGED <<phase, deadTimer, callVars>>

\* SWITCH_TO_CALL up to MEDIA_ACQUIRED, which sends join-call.
StartCall ==
    /\ phase = "room"
    /\ status = "connected"
    /\ screen = "idle"
    /\ Act
    /\ screen' = "call"
    /\ inCall' = TRUE
    /\ callOn' = ws
    /\ UNCHANGED <<phase, netVars, ws, status, timerVars>>

\* HANGUP, and DISMISS_ERROR which comes by itself after five seconds.
Hangup ==
    /\ screen = "call"
    /\ Act
    /\ LeaveCallScreen("idle")
    /\ UNCHANGED <<phase, netVars, ws, status, timerVars>>

DismissError ==
    /\ screen = "error"
    /\ LeaveCallScreen("idle")
    /\ UNCHANGED <<phase, netVars, ws, status, timerVars, acts>>

SocketEvent(s) ==
    \/ Opened(s)
    \/ ConnectFails(s)
    \/ Dropped(s)
    \/ CloseCompletes(s)
    \/ FallSilent(s)
    \/ Ping(s)

UserAct ==
    \/ Login
    \/ LeaveRoom
    \/ ReconnectRequested
    \/ ChangeNickname
    \/ StartCall
    \/ Hangup

Next ==
    \/ \E s \in Sockets : SocketEvent(s)
    \/ DeadTimerFires
    \/ ReconnectTimerFires
    \/ DismissError
    \/ UserAct

(* Connecting and closing end one way or the other, and timers fire.  A    *)
(* socket that is not refs.ws gets no pong sent on it, so the server's     *)
(* heartbeat closes it.  Nobody owes a ping.                               *)
Fairness ==
    /\ \A s \in Sockets :
        /\ WF_vars(Opened(s) \/ ConnectFails(s))
        /\ WF_vars(CloseCompletes(s))
        /\ WF_vars(s # ws /\ s \notin lost /\ Dropped(s))
    /\ WF_vars(ReconnectTimerFires)
    /\ WF_vars(DeadTimerFires)

Spec == Init /\ [][Next]_vars /\ Fairness

-----------------------------------------------------------------------------
(* Type invariant *)
SocketStates == {"connecting", "open", "closing", "aborting", "closed"}
TypeOK ==
    /\ phase \in {"login", "room"}
    /\ sock \in [Sockets -> SocketStates]
    /\ attached \subseteq Sockets
    /\ lost \subseteq Sockets
    /\ ws \in Sockets \cup {NoSocket}
    /\ status \in {"connecting", "connected", "reconnecting", "disconnected"}
    /\ attempt \in 0 .. MaxAttempts
    /\ reconnectTimer \in BOOLEAN
    /\ deadTimer \in BOOLEAN
    /\ screen \in {"idle", "call", "error"}
    /\ inCall \in BOOLEAN
    /\ callOn \in Sockets \cup {NoSocket}
    /\ acts \in 0 .. MaxActs

(***************************************************************************)
(* While the client shows itself connected the dead timer is running:      *)
(* whatever order closes, replacements and pings come in, a connection     *)
(* that goes silent is noticed.                                            *)
(***************************************************************************)
ConnectedIsWatched == phase = "room" /\ status = "connected" => deadTimer

(***************************************************************************)
(* "Reconnecting" is never a lie: a timer is pending or an attempt is      *)
(* under way.  The user is shown no button in this state, so nobody but    *)
(* the machine can get out of it.                                          *)
(***************************************************************************)
ReconnectingIsTrying ==
    phase = "room" /\ status \in {"reconnecting", "connecting"} =>
        \/ reconnectTimer
        \/ \E s \in attached : sock[s] \in {"connecting", "aborting", "closing"}

(***************************************************************************)
(* A client that is reconnecting gets through or gives up and offers the   *)
(* button: startReconnect's attempts do not go on for ever.                *)
(***************************************************************************)
ReconnectEnds ==
    phase = "room" /\ status \in {"connecting", "reconnecting"} ~>
        phase = "login" \/ status \in {"connected", "disconnected"}

(***************************************************************************)
(* A client left with no socket on which anything arrives stops calling    *)
(* itself connected.                                                       *)
(***************************************************************************)
SilenceIsNoticed ==
    phase = "room" /\ status = "connected" /\ Heard = {} ~>
        phase = "login" \/ status # "connected" \/ Heard # {}

(***************************************************************************)
(* services/websocket.ts:131-132, of handlers to be detached from "a WS    *)
(* that's being replaced to prevent the stale onclose from dispatching     *)
(* WS_CLOSED and overwriting the new WS state": the end of a socket that   *)
(* was replaced touches neither the status nor the socket in use.          *)
(***************************************************************************)
ReplacedSocketsAreSilent ==
    [][ \A s \in Sockets :
            s # ws /\ sock[s] # "closed" /\ sock'[s] = "closed" => UNCHANGED <<status, ws>> ]_vars
=============================================================================
