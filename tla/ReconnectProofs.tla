-------------------------- MODULE ReconnectProofs --------------------------
(***************************************************************************)
(* Proofs about Reconnect, for any number of sockets, attempts and acts.   *)
(*                                                                         *)
(* The three invariants hold together: each event either leaves the        *)
(* connection's status to the witness it had (a timer, a socket under      *)
(* way), or ends in startReconnect or connectWebSocket, which make one.    *)
(***************************************************************************)
EXTENDS Reconnect, TLAPS

\* The parts of TypeOK that go together.
NetTyped ==
    /\ sock \in [Sockets -> SocketStates]
    /\ attached \subseteq Sockets
    /\ lost \subseteq Sockets
    /\ ws \in Sockets \cup {NoSocket}
StatusTyped ==
    /\ phase \in {"login", "room"}
    /\ status \in {"connecting", "connected", "reconnecting", "disconnected"}
    /\ attempt \in 0 .. MaxAttempts
FlagsTyped ==
    /\ reconnectTimer \in BOOLEAN
    /\ deadTimer \in BOOLEAN
    /\ inCall \in BOOLEAN
CallTyped ==
    /\ screen \in {"idle", "call", "error"}
    /\ callOn \in Sockets \cup {NoSocket}
    /\ acts \in 0 .. MaxActs

Typed == NetTyped /\ StatusTyped /\ FlagsTyped /\ CallTyped

(* The parts are TypeOK. *)
LEMMA TypeParts == Typed => TypeOK
  BY DEF Typed, TypeOK, NetTyped, StatusTyped, FlagsTyped, CallTyped

\* Something is under way that ends by an event.
Trying ==
    \/ reconnectTimer
    \/ \E s \in attached : sock[s] \in {"connecting", "aborting", "closing"}

RInv == Typed /\ ConnectedIsWatched /\ ReconnectingIsTrying

-----------------------------------------------------------------------------
(* The steps that handlers share.                                          *)

(* A socket that is made is typed, and an attempt under way. *)
LEMMA WireUpTries ==
    ASSUME NetTyped, NEW before \in [Sockets -> SocketStates], NEW wired \in SUBSET Sockets,
           WireUp(before, wired)
    PROVE  NetTyped' /\ Trying'
<1>1. PICK s \in Unused :
        /\ sock' = [before EXCEPT ![s] = "connecting"]
        /\ attached' = wired \cup {s}
        /\ lost' = lost \cap (wired \ {s})
        /\ ws' = s
  BY DEF WireUp
<1>2. s \in Sockets
  BY DEF Unused
<1>3. sock'[s] = "connecting" /\ s \in attached'
  BY <1>1, <1>2
<1>4. NetTyped'
  BY <1>1, <1>2 DEF NetTyped, SocketStates
<1>5. QED
  BY <1>3, <1>4 DEF Trying

(* close() leaves the sockets typed. *)
LEMMA ClosingType ==
    ASSUME NetTyped, NEW s
    PROVE  Closing(sock, s) \in [Sockets -> SocketStates]
  BY DEF NetTyped, Closing, SocketStates

(* connectWebSocket makes an attempt. *)
LEMMA ConnectTries ==
    ASSUME NetTyped, ConnectWebSocket
    PROVE  NetTyped' /\ Trying'
<1>1. Closing(sock, ws) \in [Sockets -> SocketStates] /\ attached \in SUBSET Sockets
  BY ClosingType DEF NetTyped
<1>2. QED
  BY <1>1, WireUpTries DEF ConnectWebSocket

(* So does a change of nickname. *)
LEMMA ConnectDetachedTries ==
    ASSUME NetTyped, ConnectDetached
    PROVE  NetTyped' /\ Trying'
<1>1. [s \in Sockets |-> IF s = ws THEN "closed" ELSE sock[s]] \in [Sockets -> SocketStates]
  BY DEF NetTyped, SocketStates
<1>2. attached \ {ws} \in SUBSET Sockets
  BY DEF NetTyped
<1>3. QED
  BY <1>1, <1>2, WireUpTries DEF ConnectDetached

(* startReconnect ends with a timer, or with a status that says there is none; what the *)
(* triggering action does to the screen, or the give-up in its place, is typed.         *)
LEMMA StartReconnectTries ==
    ASSUME StatusTyped, FlagsTyped, CallTyped, phase' = phase, acts' = acts, deadTimer' = FALSE,
           NEW down \in {"reconnecting", "disconnected"}, NEW ACTION call,
           call => UNCHANGED callVars \/ LeaveCallScreen("error"),
           StartReconnect(down, call)
    PROVE  /\ StatusTyped' /\ FlagsTyped' /\ CallTyped'
           /\ status' \in {"reconnecting", "disconnected"}
           /\ status' = "reconnecting" => reconnectTimer'
<1>1. UNCHANGED callVars \/ LeaveCallScreen("error") => CallTyped'
  BY DEF CallTyped, callVars, LeaveCallScreen
<1>2. UNCHANGED callVars \/ LeaveCallScreen("error") => inCall' \in BOOLEAN
  BY Zenon DEF FlagsTyped, callVars, LeaveCallScreen
<1>3. CASE TimerPending /\ status' = down /\ call /\ UNCHANGED <<reconnectTimer, attempt>>
  <2>1. reconnectTimer'
    BY <1>3, Zenon DEF TimerPending
  <2>2. FlagsTyped'
    BY <1>2, <1>3, Zenon DEF FlagsTyped
  <2>3. StatusTyped'
    BY <1>3 DEF StatusTyped
  <2>4. QED
    BY <1>1, <1>3, <2>1, <2>2, <2>3
<1>4. CASE /\ ~TimerPending /\ Exhausted /\ status' = "disconnected"
           /\ IF screen = "call" THEN LeaveCallScreen("error") ELSE UNCHANGED callVars
           /\ UNCHANGED <<reconnectTimer, attempt>>
  <2>1. UNCHANGED callVars \/ LeaveCallScreen("error")
    BY <1>4
  <2>2. FlagsTyped'
    BY <1>2, <1>4, <2>1, Zenon DEF FlagsTyped
  <2>3. StatusTyped' /\ status' = "disconnected"
    BY <1>4 DEF StatusTyped
  <2>4. QED
    BY <1>1, <2>1, <2>2, <2>3
<1>5. CASE /\ ~TimerPending /\ ~Exhausted /\ status' = "reconnecting" /\ attempt' = NextAttempt
           /\ reconnectTimer' = TRUE /\ call
  <2>1. StatusTyped'
    BY <1>5, BoundsAssumption DEF StatusTyped, Exhausted, NextAttempt
  <2>2. FlagsTyped'
    BY <1>2, <1>5, Zenon DEF FlagsTyped
  <2>3. QED
    BY <1>1, <1>5, <2>1, <2>2, Zenon
<1>6. QED
  BY <1>3, <1>4, <1>5 DEF StartReconnect

(* The end of a socket, of whichever, leaves nothing claimed that is not so. *)
LEMMA SocketEndsKeeps ==
    ASSUME RInv, NEW s \in Sockets, NEW intentional \in BOOLEAN, SocketEnds(s, intentional)
    PROVE  RInv'
<1> USE DEF RInv, Typed
<1>1. /\ sock' = [sock EXCEPT ![s] = "closed"] /\ attached' = attached \ {s}
      /\ lost' = lost \ {s} /\ phase' = phase /\ acts' = acts
  BY DEF SocketEnds
<1>2. \A t \in Sockets : sock'[t] = IF t = s THEN "closed" ELSE sock[t]
  BY <1>1 DEF NetTyped
<1>3. ws' \in Sockets \cup {NoSocket} => NetTyped'
  BY <1>1 DEF NetTyped, SocketStates
<1>4. CASE ~(s \in attached /\ phase = "room")
  <2>1. Unheard
    BY <1>4 DEF SocketEnds
  <2>2. NetTyped' /\ StatusTyped' /\ CallTyped'
    BY <1>1, <1>3, <2>1 DEF Unheard, timerVars, callVars, NetTyped, StatusTyped, CallTyped
  <2>3. FlagsTyped'
    BY <2>1, Zenon DEF Unheard, timerVars, callVars, FlagsTyped
  <2>4. ConnectedIsWatched'
    BY <1>1, <2>1 DEF Unheard, timerVars, ConnectedIsWatched
  <2>5. ReconnectingIsTrying'
    BY <1>1, <1>2, <1>4, <2>1 DEF Unheard, timerVars, ReconnectingIsTrying, NetTyped
  <2>6. QED
    BY <2>2, <2>3, <2>4, <2>5
<1>5. CASE s \in attached /\ phase = "room" /\ intentional
  <2>1. IntentionalClose
    BY <1>5 DEF SocketEnds
  <2>2. status' = "disconnected" /\ UNCHANGED <<ws, reconnectTimer, deadTimer, attempt>>
    BY <2>1 DEF IntentionalClose, timerVars
  <2>3. CallTyped'
    BY <1>1, <2>1 DEF IntentionalClose, LeaveCallScreen, CallTyped
  <2>4. NetTyped' /\ StatusTyped'
    BY <1>1, <1>3, <2>2 DEF NetTyped, StatusTyped
  <2>5. inCall' \in BOOLEAN
    BY <2>1, Zenon DEF IntentionalClose, LeaveCallScreen, FlagsTyped
  <2>6. FlagsTyped'
    BY <2>2, <2>5, Zenon DEF FlagsTyped
  <2>7. QED
    BY <2>2, <2>3, <2>4, <2>6 DEF ConnectedIsWatched, ReconnectingIsTrying
<1>6. CASE s \in attached /\ phase = "room" /\ ~intentional
  <2>1. UnexpectedClose
    BY <1>6 DEF SocketEnds
  <2>2. deadTimer' = FALSE /\ ws' = NoSocket /\ StartReconnect(Keep(status), UNCHANGED callVars)
    BY <2>1 DEF UnexpectedClose
  <2>3. Keep(status) \in {"reconnecting", "disconnected"}
    BY DEF Keep
  <2>4. /\ StatusTyped' /\ FlagsTyped' /\ CallTyped'
        /\ status' \in {"reconnecting", "disconnected"}
        /\ status' = "reconnecting" => reconnectTimer'
    BY <1>1, <2>2, <2>3, StartReconnectTries
  <2>5. NetTyped'
    BY <1>3, <2>2
  <2>6. QED
    BY <2>4, <2>5 DEF ConnectedIsWatched, ReconnectingIsTrying
<1>7. QED
  BY <1>4, <1>5, <1>6

-----------------------------------------------------------------------------
(* The steps.                                                              *)

(* The browser's events keep the invariant. *)
LEMMA SocketEventKeeps ==
    ASSUME RInv, NEW s \in Sockets, SocketEvent(s)
    PROVE  RInv'
<1> USE DEF RInv, Typed
<1>1. CASE Opened(s)
  <2>1. /\ sock' = [sock EXCEPT ![s] = "open"]
        /\ UNCHANGED <<phase, attached, lost, acts>>
    BY <1>1 DEF Opened
  <2>2. CASE s \in attached
    <3>1. /\ status' = IF phase = "room" THEN "connected" ELSE status
          /\ attempt' = 0 /\ reconnectTimer' = FALSE /\ deadTimer' = TRUE
          /\ UNCHANGED <<ws, screen, inCall, callOn>>
      BY <1>1, <2>2 DEF Opened, DeadTimerOnOpen, callVars
    <3>2. NetTyped'
      BY <2>1, <3>1 DEF NetTyped, SocketStates
    <3>3. StatusTyped'
      BY <2>1, <3>1, BoundsAssumption DEF StatusTyped
    <3>4. CallTyped'
      BY <2>1, <3>1 DEF CallTyped
    <3>5. FlagsTyped'
      BY <3>1, Zenon DEF FlagsTyped
    <3>6. QED
      BY <2>1, <3>1, <3>2, <3>3, <3>4, <3>5 DEF ConnectedIsWatched, ReconnectingIsTrying
  <2>3. CASE s \notin attached
    <3>1. UNCHANGED <<ws, status, reconnectTimer, deadTimer, attempt, screen, inCall, callOn>>
      BY <1>1, <2>3 DEF Opened, Unheard, timerVars, callVars
    <3>2. NetTyped' /\ StatusTyped' /\ CallTyped'
      BY <2>1, <3>1 DEF NetTyped, StatusTyped, CallTyped, SocketStates
    <3>5. FlagsTyped'
      BY <3>1, Zenon DEF FlagsTyped
    <3>3. \A t \in attached : sock'[t] = sock[t]
      BY <2>1, <2>3 DEF NetTyped
    <3>4. ConnectedIsWatched' /\ ReconnectingIsTrying'
      BY <2>1, <3>1, <3>3 DEF ConnectedIsWatched, ReconnectingIsTrying
    <3>6. QED
      BY <3>2, <3>4, <3>5
  <2>4. QED
    BY <2>2, <2>3
<1>2. CASE ConnectFails(s) \/ Dropped(s) \/ CloseCompletes(s)
  BY <1>2, SocketEndsKeeps DEF ConnectFails, Dropped, CloseCompletes
<1>3. CASE FallSilent(s)
  <2>1. /\ lost' = lost \cup {s} /\ acts' \in 0 .. MaxActs
        /\ UNCHANGED <<phase, sock, attached, ws, status, reconnectTimer, deadTimer, attempt,
                       screen, inCall, callOn>>
    BY <1>3, BoundsAssumption DEF FallSilent, Act, timerVars, callVars, CallTyped
  <2>2. NetTyped' /\ StatusTyped' /\ CallTyped'
    BY <2>1 DEF NetTyped, StatusTyped, CallTyped
  <2>3. FlagsTyped'
    BY <2>1, Zenon DEF FlagsTyped
  <2>4. QED
    BY <2>1, <2>2, <2>3 DEF ConnectedIsWatched, ReconnectingIsTrying
<1>4. CASE Ping(s)
  <2>1. /\ deadTimer' = TRUE
        /\ UNCHANGED <<phase, sock, attached, lost, ws, status, attempt, reconnectTimer, screen,
                       inCall, callOn, acts>>
    BY <1>4 DEF Ping, netVars, callVars
  <2>2. NetTyped' /\ StatusTyped' /\ CallTyped'
    BY <2>1 DEF NetTyped, StatusTyped, CallTyped
  <2>3. FlagsTyped'
    BY <2>1, Zenon DEF FlagsTyped
  <2>4. QED
    BY <2>1, <2>2, <2>3 DEF ConnectedIsWatched, ReconnectingIsTrying
<1>5. QED
  BY <1>1, <1>2, <1>3, <1>4 DEF SocketEvent

(* The two timers keep the invariant. *)
LEMMA TimerKeeps ==
    ASSUME RInv, DeadTimerFires \/ ReconnectTimerFires
    PROVE  RInv'
<1> USE DEF RInv, Typed
<1>1. CASE DeadTimerFires
  <2>1. deadTimer' = FALSE /\ UNCHANGED <<phase, sock, attached, lost, ws, acts>>
    BY <1>1 DEF DeadTimerFires, netVars
  <2>2. NetTyped'
    BY <2>1 DEF NetTyped
  <2>3. CASE phase = "room"
    <3> DEFINE call == IF screen = "call" THEN LeaveCallScreen("error") ELSE UNCHANGED callVars
    <3>1. StartReconnect("disconnected", call)
      BY <1>1, <2>3 DEF DeadTimerFires
    <3>2. call => UNCHANGED callVars \/ LeaveCallScreen("error")
      OBVIOUS
    <3> HIDE DEF call
    <3>3. /\ StatusTyped' /\ FlagsTyped' /\ CallTyped'
          /\ status' \in {"reconnecting", "disconnected"}
          /\ status' = "reconnecting" => reconnectTimer'
      BY <2>1, <3>1, <3>2, StartReconnectTries
    <3>4. QED
      BY <2>2, <3>3 DEF ConnectedIsWatched, ReconnectingIsTrying
  <2>4. CASE phase # "room"
    <3>1. UNCHANGED <<status, reconnectTimer, attempt, screen, inCall, callOn>>
      BY <1>1, <2>4 DEF DeadTimerFires, callVars
    <3>2. StatusTyped' /\ CallTyped'
      BY <2>1, <3>1 DEF StatusTyped, CallTyped
    <3>3. FlagsTyped'
      BY <2>1, <3>1, Zenon DEF FlagsTyped
    <3>4. QED
      BY <2>1, <2>2, <2>4, <3>2, <3>3 DEF ConnectedIsWatched, ReconnectingIsTrying
  <2>5. QED
    BY <2>3, <2>4
<1>2. CASE ReconnectTimerFires
  <2>1. /\ reconnectTimer' = FALSE
        /\ UNCHANGED <<phase, status, attempt, deadTimer, screen, inCall, callOn, acts>>
    BY <1>2 DEF ReconnectTimerFires, callVars
  <2>2. NetTyped' /\ Trying'
    BY <1>2, ConnectTries DEF ReconnectTimerFires
  <2>3. StatusTyped' /\ CallTyped'
    BY <2>1 DEF StatusTyped, CallTyped
  <2>4. FlagsTyped'
    BY <2>1, Zenon DEF FlagsTyped
  <2>5. QED
    BY <2>1, <2>2, <2>3, <2>4 DEF Trying, ConnectedIsWatched, ReconnectingIsTrying
<1>3. QED
  BY <1>1, <1>2

(* What the user does keeps the invariant, and so does the error that goes away by itself. *)
LEMMA UserKeeps ==
    ASSUME RInv, UserAct \/ DismissError
    PROVE  RInv'
<1> USE DEF RInv, Typed
<1>1. Act => acts' \in 0 .. MaxActs
  BY BoundsAssumption DEF Act, CallTyped
<1>2. ASSUME NEW to \in {"idle", "error"}, LeaveCallScreen(to), acts' \in 0 .. MaxActs
      PROVE  CallTyped'
  BY <1>2 DEF LeaveCallScreen, CallTyped
<1>3. CASE Login
  <2>1. /\ phase' = "room" /\ status' = "connecting" /\ screen' = "idle" /\ acts' \in 0 .. MaxActs
        /\ UNCHANGED <<reconnectTimer, deadTimer, attempt, inCall, callOn>>
    BY <1>1, <1>3 DEF Login, timerVars
  <2>2. NetTyped' /\ Trying'
    BY <1>3, ConnectTries DEF Login
  <2>3. StatusTyped' /\ CallTyped'
    BY <2>1 DEF StatusTyped, CallTyped
  <2>4. FlagsTyped'
    BY <2>1, Zenon DEF FlagsTyped
  <2>5. QED
    BY <2>1, <2>2, <2>3, <2>4 DEF Trying, ConnectedIsWatched, ReconnectingIsTrying
<1>4. CASE LeaveRoom
  <2>1. /\ phase' = "login" /\ sock' = Closing(sock, ws) /\ ws' = NoSocket
        /\ deadTimer' = FALSE /\ reconnectTimer' = FALSE /\ LeaveCallScreen("idle")
        /\ UNCHANGED <<attached, lost, status, attempt>> /\ acts' \in 0 .. MaxActs
    BY <1>1, <1>4 DEF LeaveRoom
  <2>2. NetTyped'
    BY <2>1, ClosingType DEF NetTyped
  <2>3. StatusTyped' /\ CallTyped'
    BY <1>2, <2>1 DEF StatusTyped
  <2>4. FlagsTyped'
    BY <2>1, Zenon DEF FlagsTyped, LeaveCallScreen
  <2>5. QED
    BY <2>1, <2>2, <2>3, <2>4 DEF ConnectedIsWatched, ReconnectingIsTrying
<1>5. CASE ReconnectRequested
  <2>1. /\ status' = "reconnecting" /\ attempt' = 0 /\ reconnectTimer' = FALSE
        /\ acts' \in 0 .. MaxActs /\ UNCHANGED <<phase, deadTimer, screen, inCall, callOn>>
    BY <1>1, <1>5 DEF ReconnectRequested, callVars
  <2>2. NetTyped' /\ Trying'
    BY <1>5, ConnectTries DEF ReconnectRequested
  <2>3. StatusTyped' /\ CallTyped'
    BY <2>1, BoundsAssumption DEF StatusTyped, CallTyped
  <2>4. FlagsTyped'
    BY <2>1, Zenon DEF FlagsTyped
  <2>5. QED
    BY <2>1, <2>2, <2>3, <2>4 DEF Trying, ConnectedIsWatched, ReconnectingIsTrying
<1>6. CASE ChangeNickname
  <2>1. /\ status' = "connecting" /\ attempt' = 0 /\ reconnectTimer' = FALSE
        /\ acts' \in 0 .. MaxActs /\ UNCHANGED <<phase, deadTimer, screen, inCall, callOn>>
    BY <1>1, <1>6 DEF ChangeNickname, callVars
  <2>2. NetTyped' /\ Trying'
    BY <1>6, ConnectDetachedTries DEF ChangeNickname
  <2>3. StatusTyped' /\ CallTyped'
    BY <2>1, BoundsAssumption DEF StatusTyped, CallTyped
  <2>4. FlagsTyped'
    BY <2>1, Zenon DEF FlagsTyped
  <2>5. QED
    BY <2>1, <2>2, <2>3, <2>4 DEF Trying, ConnectedIsWatched, ReconnectingIsTrying
<1>7. ASSUME CallTyped', inCall' \in BOOLEAN,
             UNCHANGED <<phase, sock, attached, lost, ws, status, reconnectTimer, deadTimer, attempt>>
      PROVE  RInv'
  <2>1. NetTyped' /\ StatusTyped'
    BY <1>7 DEF NetTyped, StatusTyped
  <2>2. FlagsTyped'
    BY <1>7, Zenon DEF FlagsTyped
  <2>3. QED
    BY <1>7, <2>1, <2>2 DEF ConnectedIsWatched, ReconnectingIsTrying
<1>8. CASE StartCall
  <2>1. /\ screen' = "call" /\ inCall' = TRUE /\ callOn' = ws /\ acts' \in 0 .. MaxActs
    BY <1>1, <1>8 DEF StartCall
  <2>2. CallTyped'
    BY <2>1 DEF CallTyped, NetTyped
  <2>3. QED
    BY <1>7, <1>8, <2>2 DEF StartCall, netVars, timerVars
<1>9. CASE Hangup
  <2>1. LeaveCallScreen("idle") /\ acts' \in 0 .. MaxActs
    BY <1>1, <1>9 DEF Hangup
  <2>2. CallTyped'
    BY <1>2, <2>1
  <2>3. inCall' \in BOOLEAN
    BY <2>1, Zenon DEF LeaveCallScreen
  <2>4. QED
    BY <1>7, <1>9, <2>2, <2>3 DEF Hangup, netVars, timerVars
<1>10. CASE DismissError
  <2>1. LeaveCallScreen("idle") /\ acts' = acts
    BY <1>10 DEF DismissError
  <2>2. CallTyped'
    BY <1>2, <2>1 DEF CallTyped
  <2>3. inCall' \in BOOLEAN
    BY <2>1, Zenon DEF LeaveCallScreen
  <2>4. QED
    BY <1>7, <1>10, <2>2, <2>3 DEF DismissError, netVars, timerVars
<1>11. QED
  BY <1>3, <1>4, <1>5, <1>6, <1>8, <1>9, <1>10 DEF UserAct

(* One step keeps the invariant. *)
LEMMA RInvStep == RInv /\ [Next]_vars => RInv'
<1>1. SUFFICES ASSUME RInv, [Next]_vars PROVE RInv'
  OBVIOUS
<1>2. CASE UNCHANGED vars
  <2>1. UNCHANGED <<phase, sock, attached, lost, ws, status, reconnectTimer, deadTimer, attempt,
                    screen, inCall, callOn, acts>>
    BY <1>2 DEF vars, netVars, timerVars, callVars
  <2>2. NetTyped' /\ StatusTyped' /\ CallTyped'
    BY <1>1, <2>1 DEF RInv, Typed, NetTyped, StatusTyped, CallTyped
  <2>3. FlagsTyped'
    BY <1>1, <2>1, Zenon DEF RInv, Typed, FlagsTyped
  <2>4. QED
    BY <1>1, <2>1, <2>2, <2>3 DEF RInv, Typed, ConnectedIsWatched, ReconnectingIsTrying
<1>3. QED
  BY <1>1, <1>2, SocketEventKeeps, TimerKeeps, UserKeeps DEF Next

(* The invariant holds in every reachable state. *)
LEMMA RInvAlways == Spec => []RInv
<1>1. Init => RInv
  <2>1. SUFFICES ASSUME Init PROVE RInv
    OBVIOUS
  <2>2. NetTyped /\ StatusTyped /\ CallTyped
    BY <2>1, BoundsAssumption DEF Init, NetTyped, StatusTyped, CallTyped, SocketStates
  <2>3. phase = "login"
    BY <2>1 DEF Init
  <2>4. FlagsTyped
    BY <2>1, Zenon DEF Init, FlagsTyped
  <2>5. QED
    BY <2>2, <2>3, <2>4 DEF RInv, Typed, ConnectedIsWatched, ReconnectingIsTrying
<1>2. QED
  BY <1>1, RInvStep, PTL DEF Spec

(* Every variable of the connection keeps its type; the attempts stay within their limit. *)
THEOREM ConnectionTypeCorrect == Spec => []TypeOK
  BY RInvAlways, TypeParts, PTL DEF RInv

(* A client that shows itself connected is watched by the dead timer, always. *)
THEOREM ConnectedAlwaysWatched == Spec => []ConnectedIsWatched
  BY RInvAlways, PTL DEF RInv

(* A client that shows itself reconnecting has a timer or a socket under way, always. *)
THEOREM ReconnectingAlwaysTrying == Spec => []ReconnectingIsTrying
  BY RInvAlways, PTL DEF RInv
=============================================================================
