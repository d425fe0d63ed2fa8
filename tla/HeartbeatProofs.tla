-------------------------- MODULE HeartbeatProofs --------------------------
(***************************************************************************)
(* Proof that neither side of a connection gives up a live one, for any    *)
(* periods between which HeartbeatNumbers leaves the margins it names.     *)
(*                                                                         *)
(* The argument: of a live connection a pong is under way, or the ping it  *)
(* will answer, or that ping's timer runs, and the deadline is later than  *)
(* that one's arrival; and the dead timer, set when the message was sent   *)
(* that set the deadline, is later still.                                  *)
(***************************************************************************)
EXTENDS Heartbeat, TLAPS, SequenceTheorems

Message(types) == [type : types, age : 0 .. MaxDelay]
UpTypes == {"join", "pong", "leave"}
DownTypes == {"ping", "close"}

Online == clientSide = "connected"
Member == serverSide = "member"

CutIsSilent == cut => up = <<>> /\ down = <<>>

\* The join is the first message, and the server is as it was until it comes.
JoinIsFirst ==
    /\ \A i \in DOMAIN up : up[i].type = "join" => i = 1 /\ serverSide = "opened"
    /\ serverSide = "opened" /\ ~cut => up # <<>> /\ up[1].type = "join"

\* What a connected client sent it sent when it last heard of the server, or later.
NeverOlder ==
    Online => \A i \in DOMAIN up : up[i].type # "leave" /\ deadTimer + up[i].age >= DeadDetection

PongUnderWay == \E i \in DOMAIN up : up[i].type = "pong" /\ pongDeadline > MaxDelay - up[i].age
PingUnderWay == \E i \in DOMAIN down : down[i].type = "ping" /\ pongDeadline > 2 * MaxDelay - down[i].age
PingToCome == pongDeadline > pingTimer + 2 * MaxDelay

PongComes == Online /\ Member /\ ~cut => PongUnderWay \/ PingUnderWay \/ PingToCome

ServerFirst == Online /\ Member => deadTimer > pongDeadline

NotGivenUp == Online /\ ~cut => serverSide \in {"opened", "member", "refused"}

HeartbeatInv ==
    /\ HeartbeatTypeOK
    /\ CutIsSilent
    /\ JoinIsFirst
    /\ NeverOlder
    /\ PongComes
    /\ ServerFirst
    /\ NotGivenUp
    /\ DeathIsReal

-----------------------------------------------------------------------------
(* Numbers and channels.                                                   *)

(* The periods, and what fits between them. *)
LEMMA Periods ==
    /\ PingInterval \in Nat /\ PongTimeout \in Nat /\ DeadDetection \in Nat /\ MaxDelay \in Nat
    /\ PingInterval + 2 * MaxDelay < PongTimeout
    /\ PongTimeout + MaxDelay < DeadDetection
  BY HeartbeatNumbers

(* Taking the first message of a channel: the others move up by one. *)
LEMMA RestOf ==
    ASSUME NEW S, NEW s \in Seq(S), s # <<>>
    PROVE  /\ Tail(s) \in Seq(S)
           /\ 1 \in DOMAIN s /\ Head(s) = s[1]
           /\ \A i \in DOMAIN Tail(s) : i + 1 \in DOMAIN s /\ Tail(s)[i] = s[i + 1] /\ i + 1 # 1
           /\ \A i \in DOMAIN s : i # 1 => i - 1 \in DOMAIN Tail(s) /\ Tail(s)[i - 1] = s[i]
<1>1. Len(s) \in Nat \ {0} /\ DOMAIN s = 1 .. Len(s)
  BY EmptySeq, LenProperties
<1>2. /\ Tail(s) \in Seq(S)
      /\ Len(Tail(s)) = Len(s) - 1
      /\ \A i \in 1 .. Len(Tail(s)) : Tail(s)[i] = s[i + 1]
  BY HeadTailProperties
<1>3. DOMAIN Tail(s) = 1 .. Len(s) - 1
  BY <1>1, <1>2, LenProperties
<1>4. Head(s) = s[1]
  OBVIOUS
<1>5. ASSUME NEW i \in DOMAIN s, i # 1 PROVE i - 1 \in DOMAIN Tail(s) /\ Tail(s)[i - 1] = s[i]
  <2>1. i - 1 \in 1 .. Len(s) - 1 /\ (i - 1) + 1 = i
    BY <1>1, <1>5
  <2>2. QED
    BY <2>1, <1>2, <1>3
<1>6. QED
  BY <1>1, <1>2, <1>3, <1>4, <1>5

(* Adding a message at its end: the others stay. *)
LEMMA AppendOf ==
    ASSUME NEW S, NEW s \in Seq(S), NEW e \in S
    PROVE  /\ Append(s, e) \in Seq(S)
           /\ \A i \in DOMAIN s : i \in DOMAIN Append(s, e) /\ Append(s, e)[i] = s[i]
           /\ \E i \in DOMAIN Append(s, e) : Append(s, e)[i] = e
           /\ \A i \in DOMAIN Append(s, e) : i \in DOMAIN s \/ Append(s, e)[i] = e
           /\ s # <<>> => Append(s, e) # <<>> /\ Append(s, e)[1] = s[1]
<1>1. Len(s) \in Nat /\ DOMAIN s = 1 .. Len(s) /\ (s # <<>> => Len(s) # 0)
  BY EmptySeq, LenProperties
<1>2. /\ Append(s, e) \in Seq(S)
      /\ DOMAIN Append(s, e) = 1 .. Len(s) + 1
      /\ \A i \in 1 .. Len(s) : Append(s, e)[i] = s[i]
      /\ Append(s, e)[Len(s) + 1] = e
      /\ Append(s, e) # <<>>
  BY AppendProperties, LenProperties
<1>3. QED
  BY <1>1, <1>2

-----------------------------------------------------------------------------
(* What is sent, and what is on its way.                                   *)

(* A message is sent: nothing changes if the link is cut. *)
LEMMA SentOn ==
    ASSUME NEW types, NEW channel \in Seq(Message(types)), NEW type \in types
    PROVE  LET new == Transmitted(channel, type) IN
           /\ new \in Seq(Message(types))
           /\ cut => new = channel
           /\ \A i \in DOMAIN channel : i \in DOMAIN new /\ new[i] = channel[i]
           /\ ~cut => \E i \in DOMAIN new : new[i].type = type /\ new[i].age = 0
           /\ \A i \in DOMAIN new : \/ i \in DOMAIN channel /\ new[i] = channel[i]
                                    \/ new[i].type = type /\ new[i].age = 0
           /\ channel # <<>> => new # <<>> /\ new[1] = channel[1]
<1>1. OnWire(type) \in Message(types) /\ OnWire(type).type = type /\ OnWire(type).age = 0
  BY Periods DEF OnWire, Message
<1>2. CASE cut
  BY <1>2 DEF Transmitted
<1>3. CASE ~cut
  <2> DEFINE new == Append(channel, OnWire(type))
  <2>1. /\ new \in Seq(Message(types))
        /\ \A i \in DOMAIN channel : i \in DOMAIN new /\ new[i] = channel[i]
        /\ \E i \in DOMAIN new : new[i] = OnWire(type)
        /\ \A i \in DOMAIN new : i \in DOMAIN channel \/ new[i] = OnWire(type)
        /\ channel # <<>> => new # <<>> /\ new[1] = channel[1]
    BY <1>1, AppendOf
  <2>2. Transmitted(channel, type) = new
    BY <1>3 DEF Transmitted
  <2> HIDE DEF new
  <2>3. QED
    BY <1>1, <1>3, <2>1, <2>2
<1>4. QED
  BY <1>2, <1>3

(* The messages on their way grow a tick older. *)
LEMMA OlderOn ==
    ASSUME NEW types, NEW channel \in Seq(Message(types)),
           \A i \in DOMAIN channel : channel[i].age < MaxDelay
    PROVE  /\ Older(channel) \in Seq(Message(types))
           /\ DOMAIN Older(channel) = DOMAIN channel
           /\ channel = <<>> <=> Older(channel) = <<>>
           /\ \A i \in DOMAIN channel :
                Older(channel)[i].type = channel[i].type /\ Older(channel)[i].age = channel[i].age + 1
<1>1. Len(channel) \in Nat /\ DOMAIN channel = 1 .. Len(channel)
  BY LenProperties
<1>2. ASSUME NEW i \in DOMAIN channel
      PROVE  /\ [channel[i] EXCEPT !.age = @ + 1] \in Message(types)
             /\ [channel[i] EXCEPT !.age = @ + 1].type = channel[i].type
             /\ [channel[i] EXCEPT !.age = @ + 1].age = channel[i].age + 1
  <2>1. channel[i] \in Message(types)
    BY <1>1, ElementOfSeq
  <2>2. channel[i].age \in Nat /\ channel[i].age + 1 \in 0 .. MaxDelay
    BY <2>1, Periods DEF Message
  <2>3. QED
    BY <2>1, <2>2 DEF Message
<1>3. Older(channel) = [i \in DOMAIN channel |-> [channel[i] EXCEPT !.age = @ + 1]]
  BY DEF Older
<1>4. Older(channel) \in [1 .. Len(channel) -> Message(types)]
  BY <1>1, <1>2, <1>3
<1>5. Older(channel) \in Seq(Message(types)) /\ DOMAIN Older(channel) = DOMAIN channel
  BY <1>1, <1>3, <1>4
<1>6. Len(Older(channel)) = Len(channel)
  BY <1>1, <1>5, LenProperties
<1>7. channel = <<>> <=> Older(channel) = <<>>
  BY <1>5, <1>6, EmptySeq
<1>8. \A i \in DOMAIN channel :
        Older(channel)[i].type = channel[i].type /\ Older(channel)[i].age = channel[i].age + 1
  BY <1>2, <1>3
<1>9. QED
  BY <1>5, <1>7, <1>8

-----------------------------------------------------------------------------
(* The server's steps.                                                     *)

(* The types, as the steps use them. *)
LEMMA TypedState ==
    ASSUME HeartbeatTypeOK
    PROVE  /\ up \in Seq(Message(UpTypes)) /\ down \in Seq(Message(DownTypes))
           /\ pingTimer \in 0 .. PingInterval /\ pongDeadline \in 0 .. PongTimeout
           /\ deadTimer \in 0 .. DeadDetection
           /\ \A i \in DOMAIN up : up[i].type \in UpTypes /\ up[i].age \in 0 .. MaxDelay
           /\ \A i \in DOMAIN down : down[i].type \in DownTypes /\ down[i].age \in 0 .. MaxDelay
<1>1. /\ up \in Seq(Message(UpTypes)) /\ down \in Seq(Message(DownTypes))
      /\ pingTimer \in 0 .. PingInterval /\ pongDeadline \in 0 .. PongTimeout
      /\ deadTimer \in 0 .. DeadDetection
  BY DEF HeartbeatTypeOK, Message, UpTypes, DownTypes
<1>2. \A i \in DOMAIN up : up[i] \in Message(UpTypes)
  BY <1>1, LenProperties, ElementOfSeq
<1>3. \A i \in DOMAIN down : down[i] \in Message(DownTypes)
  BY <1>1, LenProperties, ElementOfSeq
<1>4. QED
  BY <1>1, <1>2, <1>3 DEF Message

(* Types after a step. *)
LEMMA TypedAfter ==
    ASSUME up' \in Seq(Message(UpTypes)), down' \in Seq(Message(DownTypes)),
           clientSide' \in {"connected", "left", "lost"},
           serverSide' \in {"opened", "member", "refused", "gone", "timedOut"},
           pingTimer' \in 0 .. PingInterval, pongDeadline' \in 0 .. PongTimeout,
           deadTimer' \in 0 .. DeadDetection, cut' \in BOOLEAN
    PROVE  HeartbeatTypeOK'
  BY DEF HeartbeatTypeOK, Message, UpTypes, DownTypes

(* The join, which is the only one. *)
LEMMA JoinArrivesStep ==
    ASSUME HeartbeatInv, JoinArrives
    PROVE  HeartbeatInv'
<1> USE DEF HeartbeatInv
<1>1. /\ up # <<>> /\ Head(up).type = "join" /\ up' = Tail(up)
      /\ serverSide' \in {"member", "refused"}
      /\ serverSide' = "member" => pingTimer' = PingInterval /\ pongDeadline' = PongTimeout
      /\ serverSide' = "refused" => UNCHANGED <<pingTimer, pongDeadline>>
      /\ UNCHANGED <<clientSide, deadTimer, down, cut>>
  BY DEF JoinArrives, Arriving
<1>2. /\ Tail(up) \in Seq(Message(UpTypes))
      /\ 1 \in DOMAIN up /\ up[1].type = "join"
      /\ \A i \in DOMAIN Tail(up) : i + 1 \in DOMAIN up /\ Tail(up)[i] = up[i + 1] /\ i + 1 # 1
  BY <1>1, TypedState, RestOf
<1>3. ~cut
  BY <1>1 DEF CutIsSilent
<1>4. serverSide = "opened"
  BY <1>2 DEF JoinIsFirst
<1>5. Online => deadTimer > PongTimeout
  BY <1>2, TypedState, Periods DEF NeverOlder
<1>6. HeartbeatTypeOK'
  <2>1. pingTimer' \in 0 .. PingInterval /\ pongDeadline' \in 0 .. PongTimeout
    BY <1>1, TypedState, Periods
  <2>2. QED
    BY <1>1, <1>2, <2>1, TypedState, TypedAfter DEF HeartbeatTypeOK
<1>7. CutIsSilent'
  BY <1>1, <1>3 DEF CutIsSilent
<1>8. JoinIsFirst'
  BY <1>1, <1>2 DEF JoinIsFirst
<1>9. NeverOlder'
  BY <1>1, <1>2 DEF NeverOlder, Online
<1>10. PongComes'
  BY <1>1, Periods DEF PongComes, PingToCome, Member
<1>11. ServerFirst'
  BY <1>1, <1>5 DEF ServerFirst, Online, Member
<1>12. NotGivenUp'
  BY <1>1 DEF NotGivenUp
<1>13. DeathIsReal'
  BY <1>1, <1>3, <1>4 DEF DeathIsReal
<1>14. QED
  BY <1>6, <1>7, <1>8, <1>9, <1>10, <1>11, <1>12, <1>13

(* A ping. *)
LEMMA PingStep ==
    ASSUME HeartbeatInv, PingDue
    PROVE  HeartbeatInv'
<1> USE DEF HeartbeatInv
<1> DEFINE new == Transmitted(down, "ping")
<1>1. /\ serverSide = "member" /\ pingTimer = 0 /\ pingTimer' = PingInterval /\ down' = new
      /\ UNCHANGED <<clientSide, serverSide, pongDeadline, deadTimer, up, cut>>
  BY DEF PingDue
<1>2. /\ new \in Seq(Message(DownTypes))
      /\ cut => new = down
      /\ \A i \in DOMAIN down : i \in DOMAIN new /\ new[i] = down[i]
      /\ ~cut => \E i \in DOMAIN new : new[i].type = "ping" /\ new[i].age = 0
  BY TypedState, SentOn, SMTT(30) DEF DownTypes
<1> HIDE DEF new
<1>3. HeartbeatTypeOK'
  BY <1>1, <1>2, TypedState, TypedAfter, Periods DEF HeartbeatTypeOK
<1>4. CutIsSilent'
  BY <1>1, <1>2 DEF CutIsSilent
<1>5. JoinIsFirst' /\ NeverOlder' /\ ServerFirst' /\ NotGivenUp' /\ DeathIsReal'
  BY <1>1 DEF JoinIsFirst, NeverOlder, ServerFirst, NotGivenUp, DeathIsReal, Online, Member
<1>6. PongComes'
  <2>1. SUFFICES ASSUME Online, ~cut PROVE PongUnderWay' \/ PingUnderWay'
    BY <1>1 DEF PongComes, Online
  <2>2. PongUnderWay \/ PingUnderWay \/ PingToCome
    BY <1>1, <2>1 DEF PongComes, Member
  <2>3. CASE PongUnderWay
    BY <1>1, <2>3 DEF PongUnderWay
  <2>4. CASE PingUnderWay
    BY <1>1, <1>2, <2>4 DEF PingUnderWay
  <2>5. CASE PingToCome
    <3>1. pongDeadline > 2 * MaxDelay
      BY <1>1, <2>5, TypedState, Periods DEF PingToCome
    <3>2. QED
      BY <1>1, <1>2, <2>1, <3>1, Periods DEF PingUnderWay
  <2>6. QED
    BY <2>2, <2>3, <2>4, <2>5
<1>7. QED
  BY <1>3, <1>4, <1>5, <1>6

(* A pong: what it says of the client is no older than the longest delay. *)
LEMMA PongStep ==
    ASSUME HeartbeatInv, PongArrives
    PROVE  HeartbeatInv'
<1> USE DEF HeartbeatInv
<1>1. /\ up # <<>> /\ Head(up).type = "pong" /\ up' = Tail(up)
      /\ pongDeadline' = IF serverSide = "member" THEN PongTimeout ELSE pongDeadline
      /\ UNCHANGED <<clientSide, serverSide, pingTimer, deadTimer, down, cut>>
  BY DEF PongArrives, Arriving, DeadlineAfterPong
<1>2. /\ Tail(up) \in Seq(Message(UpTypes))
      /\ 1 \in DOMAIN up /\ up[1].type = "pong"
      /\ \A i \in DOMAIN Tail(up) : i + 1 \in DOMAIN up /\ Tail(up)[i] = up[i + 1] /\ i + 1 # 1
  BY <1>1, TypedState, RestOf
<1>3. ~cut
  BY <1>1 DEF CutIsSilent
<1>4. serverSide # "opened"
  BY <1>2, <1>3 DEF JoinIsFirst
<1>5. Online => deadTimer > PongTimeout
  BY <1>2, TypedState, Periods DEF NeverOlder
<1>6. HeartbeatTypeOK'
  <2>1. pongDeadline' \in 0 .. PongTimeout
    BY <1>1, TypedState, Periods
  <2>2. QED
    BY <1>1, <1>2, <2>1, TypedState, TypedAfter DEF HeartbeatTypeOK
<1>7. CutIsSilent'
  BY <1>1, <1>3 DEF CutIsSilent
<1>8. JoinIsFirst'
  BY <1>1, <1>2, <1>4 DEF JoinIsFirst
<1>9. NeverOlder'
  BY <1>1, <1>2 DEF NeverOlder, Online
<1>10. PongComes'
  BY <1>1, TypedState, Periods DEF PongComes, PingToCome, Member
<1>11. ServerFirst'
  BY <1>1, <1>5 DEF ServerFirst, Online, Member
<1>12. NotGivenUp' /\ DeathIsReal'
  BY <1>1 DEF NotGivenUp, DeathIsReal, Online
<1>13. QED
  BY <1>6, <1>7, <1>8, <1>9, <1>10, <1>11, <1>12

(* A leave message, which no connected client has sent. *)
LEMMA LeaveStep ==
    ASSUME HeartbeatInv, LeaveArrives
    PROVE  HeartbeatInv'
<1> USE DEF HeartbeatInv
<1>1. /\ up # <<>> /\ Head(up).type = "leave" /\ up' = Tail(up)
      /\ serverSide' = IF serverSide = "member" THEN "gone" ELSE serverSide
      /\ UNCHANGED <<clientSide, pingTimer, pongDeadline, deadTimer, down, cut>>
  BY DEF LeaveArrives, Arriving
<1>2. /\ Tail(up) \in Seq(Message(UpTypes))
      /\ 1 \in DOMAIN up /\ up[1].type = "leave"
      /\ \A i \in DOMAIN Tail(up) : i + 1 \in DOMAIN up /\ Tail(up)[i] = up[i + 1] /\ i + 1 # 1
  BY <1>1, TypedState, RestOf
<1>3. ~cut /\ ~Online
  BY <1>1, <1>2 DEF CutIsSilent, NeverOlder
<1>4. serverSide # "opened"
  BY <1>2, <1>3 DEF JoinIsFirst
<1>5. HeartbeatTypeOK'
  BY <1>1, <1>2, TypedState, TypedAfter DEF HeartbeatTypeOK
<1>6. CutIsSilent'
  BY <1>1, <1>3 DEF CutIsSilent
<1>7. JoinIsFirst'
  BY <1>1, <1>2, <1>4 DEF JoinIsFirst
<1>8. NeverOlder' /\ PongComes' /\ ServerFirst' /\ NotGivenUp'
  BY <1>1, <1>3 DEF NeverOlder, PongComes, ServerFirst, NotGivenUp, Online
<1>9. DeathIsReal'
  BY <1>1, <1>3 DEF DeathIsReal, Online
<1>10. QED
  BY <1>5, <1>6, <1>7, <1>8, <1>9

(* The deadline passes: then nothing is under way. *)
LEMMA TimeoutStep ==
    ASSUME HeartbeatInv, PongTimedOut
    PROVE  HeartbeatInv'
<1> USE DEF HeartbeatInv
<1> DEFINE new == Transmitted(down, "close")
<1>1. /\ serverSide = "member" /\ pongDeadline = 0 /\ serverSide' = "timedOut" /\ down' = new
      /\ UNCHANGED <<clientSide, pingTimer, pongDeadline, deadTimer, up, cut>>
  BY DEF PongTimedOut
<1>2. /\ new \in Seq(Message(DownTypes))
      /\ cut => new = down
  BY TypedState, SentOn DEF DownTypes
<1> HIDE DEF new
<1>3. cut \/ ~Online
  <2>1. SUFFICES ASSUME ~cut, Online PROVE FALSE
    OBVIOUS
  <2>2. PongUnderWay \/ PingUnderWay \/ PingToCome
    BY <1>1, <2>1 DEF PongComes, Member
  <2>3. ~PongUnderWay
    BY <1>1, TypedState, Periods DEF PongUnderWay
  <2>4. ~PingUnderWay
    BY <1>1, TypedState, Periods DEF PingUnderWay
  <2>5. ~PingToCome
    BY <1>1, TypedState, Periods DEF PingToCome
  <2>6. QED
    BY <2>2, <2>3, <2>4, <2>5
<1>4. HeartbeatTypeOK'
  BY <1>1, <1>2, TypedState, TypedAfter DEF HeartbeatTypeOK
<1>5. CutIsSilent'
  BY <1>1, <1>2 DEF CutIsSilent
<1>6. JoinIsFirst' /\ NeverOlder'
  BY <1>1 DEF JoinIsFirst, NeverOlder, Online
<1>7. PongComes' /\ ServerFirst' /\ NotGivenUp'
  BY <1>1, <1>3 DEF PongComes, ServerFirst, NotGivenUp, Online, Member
<1>8. DeathIsReal'
  BY <1>1, <1>3 DEF DeathIsReal, Online
<1>9. QED
  BY <1>4, <1>5, <1>6, <1>7, <1>8

-----------------------------------------------------------------------------
(* The client's steps.                                                     *)

(* A ping is answered, and the dead timer starts again. *)
LEMMA AnswerStep ==
    ASSUME HeartbeatInv, PingArrives
    PROVE  HeartbeatInv'
<1> USE DEF HeartbeatInv
<1> DEFINE new == Transmitted(up, "pong")
<1>1. /\ down # <<>> /\ Head(down).type = "ping" /\ down' = Tail(down)
      /\ UNCHANGED <<clientSide, serverSide, pingTimer, pongDeadline, cut>>
      /\ Online => up' = new /\ deadTimer' = DeadDetection
      /\ ~Online => UNCHANGED <<up, deadTimer>>
  BY DEF PingArrives, Arriving, Online
<1>2. /\ Tail(down) \in Seq(Message(DownTypes))
      /\ 1 \in DOMAIN down
      /\ \A i \in DOMAIN down : i # 1 => i - 1 \in DOMAIN Tail(down) /\ Tail(down)[i - 1] = down[i]
  BY <1>1, TypedState, RestOf
<1>3. ~cut
  BY <1>1 DEF CutIsSilent
<1>4. /\ new \in Seq(Message(UpTypes))
      /\ \A i \in DOMAIN up : i \in DOMAIN new /\ new[i] = up[i]
      /\ \E i \in DOMAIN new : new[i].type = "pong" /\ new[i].age = 0
      /\ \A i \in DOMAIN new : \/ i \in DOMAIN up /\ new[i] = up[i]
                               \/ new[i].type = "pong" /\ new[i].age = 0
      /\ up # <<>> => new # <<>> /\ new[1] = up[1]
  <2>1. up \in Seq(Message(UpTypes)) /\ "pong" \in UpTypes
    BY TypedState DEF UpTypes
  <2>2. /\ new \in Seq(Message(UpTypes))
        /\ up # <<>> => new # <<>> /\ new[1] = up[1]
        /\ cut => new = up
    BY <2>1, SentOn
  <2>3. \A i \in DOMAIN new : \/ i \in DOMAIN up /\ new[i] = up[i]
                              \/ new[i].type = "pong" /\ new[i].age = 0
    BY <2>1, SentOn
  <2>4. \A i \in DOMAIN up : i \in DOMAIN new /\ new[i] = up[i]
    BY <2>1, SentOn
  <2>5. \E i \in DOMAIN new : new[i].type = "pong" /\ new[i].age = 0
    BY <1>3, <2>1, SentOn
  <2>6. QED
    BY <2>2, <2>3, <2>4, <2>5
<1> HIDE DEF new
<1>5. HeartbeatTypeOK'
  <2>1. up' \in Seq(Message(UpTypes)) /\ deadTimer' \in 0 .. DeadDetection
    BY <1>1, <1>4, TypedState, Periods
  <2>2. QED
    BY <1>1, <1>2, <2>1, TypedState, TypedAfter DEF HeartbeatTypeOK
<1>6. CutIsSilent' /\ NotGivenUp' /\ DeathIsReal'
  BY <1>1, <1>3 DEF CutIsSilent, NotGivenUp, DeathIsReal, Online
<1>7. CASE ~Online
  <2>1. JoinIsFirst'
    BY <1>1, <1>7 DEF JoinIsFirst
  <2>2. NeverOlder' /\ PongComes' /\ ServerFirst'
    BY <1>1, <1>7 DEF NeverOlder, PongComes, ServerFirst, Online
  <2>3. QED
    BY <1>5, <1>6, <2>1, <2>2
<1>8. CASE Online
  <2>1. up' = new /\ deadTimer' = DeadDetection
    BY <1>1, <1>8
  <2>2. JoinIsFirst'
    BY <1>1, <1>4, <2>1 DEF JoinIsFirst
  <2>3. NeverOlder'
    <3>1. \A i \in DOMAIN new : new[i].type # "leave" /\ new[i].age >= 0
      BY <1>4, <1>8, TypedState DEF NeverOlder
    <3>2. \A i \in DOMAIN new : new[i].age \in Nat
      BY <1>4, TypedState, Periods
    <3>3. QED
      BY <2>1, <3>1, <3>2, Periods DEF NeverOlder
  <2>4. ServerFirst'
    BY <1>1, <2>1, TypedState, Periods DEF ServerFirst
  <2>5. PongComes'
    <3>1. SUFFICES ASSUME Member PROVE PongUnderWay' \/ PingUnderWay' \/ PingToCome'
      BY <1>1 DEF PongComes, Member
    <3>2. PongUnderWay \/ PingUnderWay \/ PingToCome
      BY <1>3, <1>8, <3>1 DEF PongComes
    <3>3. CASE PongUnderWay
      BY <1>1, <1>4, <2>1, <3>3 DEF PongUnderWay
    <3>4. CASE PingToCome
      BY <1>1, <3>4 DEF PingToCome
    <3>5. CASE PingUnderWay
      <4>1. PICK i \in DOMAIN down : down[i].type = "ping" /\ pongDeadline > 2 * MaxDelay - down[i].age
        BY <3>5 DEF PingUnderWay
      <4>2. CASE i = 1
        <5>1. pongDeadline > MaxDelay - 0
          BY <4>1, TypedState, Periods
        <5>2. QED
          BY <1>1, <1>4, <2>1, <5>1 DEF PongUnderWay
      <4>3. CASE i # 1
        BY <1>1, <1>2, <4>1, <4>3 DEF PingUnderWay
      <4>4. QED
        BY <4>2, <4>3
    <3>6. QED
      BY <3>2, <3>3, <3>4, <3>5
  <2>6. QED
    BY <1>5, <1>6, <2>2, <2>3, <2>4, <2>5
<1>9. QED
  BY <1>7, <1>8

(* The client closes the connection: for good reasons, or because it takes it for dead. *)
LEMMA ClosingStep ==
    ASSUME HeartbeatInv, Online, clientSide' \in {"left", "lost"}, up' = Transmitted(up, "leave"),
           UNCHANGED <<serverSide, pingTimer, pongDeadline, deadTimer, down, cut>>,
           DeathIsReal'
    PROVE  HeartbeatInv'
<1> USE DEF HeartbeatInv
<1> DEFINE new == Transmitted(up, "leave")
<1>1. /\ new \in Seq(Message(UpTypes))
      /\ cut => new = up
      /\ \A i \in DOMAIN new : \/ i \in DOMAIN up /\ new[i] = up[i]
                               \/ new[i].type = "leave" /\ new[i].age = 0
      /\ up # <<>> => new # <<>> /\ new[1] = up[1]
  <2>1. up \in Seq(Message(UpTypes)) /\ "leave" \in UpTypes
    BY TypedState DEF UpTypes
  <2>2. /\ new \in Seq(Message(UpTypes))
        /\ up # <<>> => new # <<>> /\ new[1] = up[1]
        /\ cut => new = up
    BY <2>1, SentOn
  <2>3. \A i \in DOMAIN new : \/ i \in DOMAIN up /\ new[i] = up[i]
                              \/ new[i].type = "leave" /\ new[i].age = 0
    BY <2>1, SentOn
  <2>4. QED
    BY <2>2, <2>3
<1>2. up' = new
  OBVIOUS
<1> HIDE DEF new
<1>3. HeartbeatTypeOK'
  BY <1>1, <1>2, TypedState, TypedAfter DEF HeartbeatTypeOK
<1>4. CutIsSilent'
  BY <1>1, <1>2 DEF CutIsSilent
<1>5. JoinIsFirst'
  BY <1>1, <1>2 DEF JoinIsFirst
<1>6. NeverOlder' /\ PongComes' /\ ServerFirst' /\ NotGivenUp'
  BY DEF NeverOlder, PongComes, ServerFirst, NotGivenUp, Online
<1>7. QED
  BY <1>3, <1>4, <1>5, <1>6

(* The dead timer: a live member's, and a member's whose link is cut, has not run down. *)
LEMMA DeadTimerStep ==
    ASSUME HeartbeatInv, DeadTimerDue
    PROVE  HeartbeatInv'
<1> USE DEF HeartbeatInv
<1>1. /\ Online /\ deadTimer = 0 /\ clientSide' = "lost" /\ up' = Transmitted(up, "leave")
      /\ UNCHANGED <<serverSide, pingTimer, pongDeadline, deadTimer, down, cut>>
  BY DEF DeadTimerDue, Online
<1>2. serverSide # "member"
  BY <1>1, TypedState DEF ServerFirst, Member
<1>3. cut \/ serverSide = "refused"
  <2>1. ASSUME ~cut, serverSide = "opened" PROVE FALSE
    <3>1. up # <<>>
      BY <2>1 DEF JoinIsFirst
    <3>2. 1 \in DOMAIN up
      BY <3>1, TypedState, RestOf
    <3>3. deadTimer + up[1].age >= DeadDetection
      BY <1>1, <3>2 DEF NeverOlder
    <3>4. up[1].age \in 0 .. MaxDelay
      BY <3>2, TypedState
    <3>5. QED
      BY <1>1, <3>3, <3>4, Periods
  <2>2. QED
    BY <1>1, <1>2, <2>1 DEF NotGivenUp
<1>4. DeathIsReal'
  BY <1>1, <1>2, <1>3 DEF DeathIsReal, Online
<1>5. QED
  BY <1>1, <1>4, ClosingStep

(* The room is left. *)
LEMMA LeavingStep ==
    ASSUME HeartbeatInv, LeaveConnection
    PROVE  HeartbeatInv'
<1>1. /\ Online /\ clientSide' = "left" /\ up' = Transmitted(up, "leave")
      /\ UNCHANGED <<serverSide, pingTimer, pongDeadline, deadTimer, down, cut>>
  BY DEF LeaveConnection, Online
<1>2. DeathIsReal'
  BY <1>1 DEF DeathIsReal
<1>3. QED
  BY <1>1, <1>2, ClosingStep

-----------------------------------------------------------------------------
(* The network and the clocks.                                             *)

(* The link is cut. *)
LEMMA CutStep ==
    ASSUME HeartbeatInv, CutLink
    PROVE  HeartbeatInv'
<1> USE DEF HeartbeatInv
<1>1. /\ ~cut /\ cut' = TRUE /\ up' = <<>> /\ down' = <<>>
      /\ UNCHANGED <<clientSide, serverSide, pingTimer, pongDeadline, deadTimer>>
  BY DEF CutLink
<1>2. up' \in Seq(Message(UpTypes)) /\ down' \in Seq(Message(DownTypes)) /\ DOMAIN up' = {}
  BY <1>1, EmptySeq
<1>3. HeartbeatTypeOK'
  BY <1>1, <1>2, TypedState, TypedAfter DEF HeartbeatTypeOK
<1>4. CutIsSilent' /\ NotGivenUp'
  BY <1>1 DEF CutIsSilent, NotGivenUp
<1>5. JoinIsFirst' /\ NeverOlder'
  BY <1>1, <1>2 DEF JoinIsFirst, NeverOlder
<1>6. PongComes' /\ ServerFirst' /\ DeathIsReal'
  BY <1>1 DEF PongComes, ServerFirst, DeathIsReal, Online, Member
<1>7. QED
  BY <1>3, <1>4, <1>5, <1>6

(* A tick: what is under way is a tick nearer, and a timer that runs a tick shorter. *)
LEMMA TickStep ==
    ASSUME HeartbeatInv, TimePasses
    PROVE  HeartbeatInv'
<1> USE DEF HeartbeatInv
<1>1. /\ up' = Older(up) /\ down' = Older(down)
      /\ UNCHANGED <<clientSide, serverSide, cut>>
      /\ Member => /\ pingTimer > 0 /\ pongDeadline > 0
                   /\ pingTimer' = pingTimer - 1 /\ pongDeadline' = pongDeadline - 1
      /\ ~Member => UNCHANGED <<pingTimer, pongDeadline>>
      /\ Online => deadTimer > 0 /\ deadTimer' = deadTimer - 1
      /\ ~Online => UNCHANGED deadTimer
  BY DEF TimePasses, TimersLeave, Member, Online
<1>2. /\ \A i \in DOMAIN up : up[i].age < MaxDelay
      /\ \A i \in DOMAIN down : down[i].age < MaxDelay
  BY DEF TimePasses, TimersLeave, ToSet
<1>3. /\ Older(up) \in Seq(Message(UpTypes))
      /\ DOMAIN Older(up) = DOMAIN up
      /\ up = <<>> <=> Older(up) = <<>>
      /\ \A i \in DOMAIN up : Older(up)[i].type = up[i].type /\ Older(up)[i].age = up[i].age + 1
  BY <1>2, TypedState, OlderOn
<1>4. /\ Older(down) \in Seq(Message(DownTypes))
      /\ DOMAIN Older(down) = DOMAIN down
      /\ down = <<>> <=> Older(down) = <<>>
      /\ \A i \in DOMAIN down :
            Older(down)[i].type = down[i].type /\ Older(down)[i].age = down[i].age + 1
  BY <1>2, TypedState, OlderOn
<1>5. HeartbeatTypeOK'
  <2>1. /\ pingTimer' \in 0 .. PingInterval /\ pongDeadline' \in 0 .. PongTimeout
        /\ deadTimer' \in 0 .. DeadDetection
    BY <1>1, TypedState, Periods
  <2>2. QED
    BY <1>1, <1>3, <1>4, <2>1, TypedAfter DEF HeartbeatTypeOK
<1>6. CutIsSilent'
  BY <1>1, <1>3, <1>4 DEF CutIsSilent
<1>7. JoinIsFirst'
  <2>1. up # <<>> => 1 \in DOMAIN up
    BY TypedState, RestOf
  <2>2. QED
    BY <1>1, <1>3, <2>1 DEF JoinIsFirst
<1>8. NeverOlder'
  <2>1. SUFFICES ASSUME Online, NEW i \in DOMAIN up
                 PROVE  /\ Older(up)[i].type # "leave"
                        /\ deadTimer' + Older(up)[i].age >= DeadDetection
    BY <1>1, <1>3 DEF NeverOlder, Online
  <2>2. up[i].type # "leave" /\ deadTimer + up[i].age >= DeadDetection
    BY <2>1 DEF NeverOlder
  <2>3. deadTimer' + Older(up)[i].age = deadTimer + up[i].age
    <3>1. deadTimer' = deadTimer - 1
      BY <1>1, <2>1
    <3>2. Older(up)[i].age = up[i].age + 1
      BY <1>3, <2>1
    <3>3. deadTimer \in Int /\ up[i].age \in Int
      BY <2>1, TypedState, Periods
    <3>4. QED
      BY <3>1, <3>2, <3>3
  <2>4. QED
    BY <1>3, <2>2, <2>3
<1>9. PongComes'
  <2>1. SUFFICES ASSUME Online, Member, ~cut PROVE PongUnderWay' \/ PingUnderWay' \/ PingToCome'
    BY <1>1 DEF PongComes, Online, Member
  <2>2. PongUnderWay \/ PingUnderWay \/ PingToCome
    BY <2>1 DEF PongComes
  <2>3. CASE PongUnderWay
    <3>1. PICK i \in DOMAIN up : up[i].type = "pong" /\ pongDeadline > MaxDelay - up[i].age
      BY <2>3 DEF PongUnderWay
    <3>2. pongDeadline' > MaxDelay - Older(up)[i].age
      BY <1>1, <1>3, <2>1, <3>1, TypedState, Periods, SMTT(30)
    <3>3. QED
      BY <1>1, <1>3, <3>1, <3>2 DEF PongUnderWay
  <2>4. CASE PingUnderWay
    <3>1. PICK i \in DOMAIN down : down[i].type = "ping" /\ pongDeadline > 2 * MaxDelay - down[i].age
      BY <2>4 DEF PingUnderWay
    <3>2. pongDeadline' > 2 * MaxDelay - Older(down)[i].age
      BY <1>1, <1>4, <2>1, <3>1, TypedState, Periods
    <3>3. QED
      BY <1>1, <1>4, <3>1, <3>2 DEF PingUnderWay
  <2>5. CASE PingToCome
    BY <1>1, <2>1, <2>5, TypedState, Periods DEF PingToCome
  <2>6. QED
    BY <2>2, <2>3, <2>4, <2>5
<1>10. ServerFirst'
  BY <1>1, TypedState, Periods DEF ServerFirst, Online, Member
<1>11. NotGivenUp' /\ DeathIsReal'
  BY <1>1 DEF NotGivenUp, DeathIsReal, Online
<1>12. QED
  BY <1>5, <1>6, <1>7, <1>8, <1>9, <1>10, <1>11

-----------------------------------------------------------------------------
(* One step of either side, the network or the clocks keeps the invariant. *)
LEMMA HeartbeatStep ==
    ASSUME HeartbeatInv, [HeartbeatNext]_heartbeatVars
    PROVE  HeartbeatInv'
<1>1. CASE UNCHANGED heartbeatVars
  BY <1>1 DEF heartbeatVars, HeartbeatInv, HeartbeatTypeOK, CutIsSilent, JoinIsFirst, NeverOlder,
     PongComes, PongUnderWay, PingUnderWay, PingToCome, ServerFirst, NotGivenUp, DeathIsReal,
     Online, Member
<1>2. CASE HeartbeatNext
  BY <1>2, JoinArrivesStep, PingStep, PongStep, LeaveStep, TimeoutStep, AnswerStep, DeadTimerStep,
     LeavingStep, CutStep, TickStep DEF HeartbeatNext
<1>3. QED
  BY <1>1, <1>2

(* A connection begins with its join under way. *)
LEMMA HeartbeatStarts == HeartbeatInit => HeartbeatInv
<1>1. SUFFICES ASSUME HeartbeatInit PROVE HeartbeatInv
  OBVIOUS
<1>2. /\ clientSide = "connected" /\ serverSide = "opened" /\ cut = FALSE
      /\ pingTimer = PingInterval /\ pongDeadline = PongTimeout /\ deadTimer = DeadDetection
      /\ up = <<OnWire("join")>> /\ down = <<>>
  BY <1>1 DEF HeartbeatInit
<1>3. /\ OnWire("join") \in Message(UpTypes)
      /\ OnWire("join").type = "join" /\ OnWire("join").age = 0
  BY Periods DEF OnWire, Message, UpTypes
<1>4. up \in Seq(Message(UpTypes)) /\ DOMAIN up = {1} /\ up # <<>> /\ up[1] = OnWire("join")
  BY <1>2, <1>3
<1>5. down \in Seq(Message(DownTypes))
  BY <1>2, EmptySeq
<1>6. HeartbeatTypeOK
  <2>1. /\ pingTimer \in 0 .. PingInterval /\ pongDeadline \in 0 .. PongTimeout
        /\ deadTimer \in 0 .. DeadDetection
    BY <1>2, Periods
  <2>2. QED
    BY <1>2, <1>4, <1>5, <2>1 DEF HeartbeatTypeOK, Message, UpTypes, DownTypes
<1>7. JoinIsFirst
  BY <1>2, <1>3, <1>4 DEF JoinIsFirst
<1>8. NeverOlder
  BY <1>2, <1>3, <1>4, Periods DEF NeverOlder
<1>9. CutIsSilent /\ PongComes /\ ServerFirst /\ NotGivenUp /\ DeathIsReal
  BY <1>2 DEF CutIsSilent, PongComes, ServerFirst, NotGivenUp, DeathIsReal, Member
<1>10. QED
  BY <1>6, <1>7, <1>8, <1>9 DEF HeartbeatInv

(***************************************************************************)
(* Neither heartbeat.ts nor the dead timer gives up a live connection, and *)
(* the client, when it reconnects, is not met by its old membership: for   *)
(* any ping interval, pong timeout and dead timer with the margins of      *)
(* HeartbeatNumbers, and any number of pings.                              *)
(***************************************************************************)
THEOREM DeathAlwaysReal == HeartbeatSpec => []DeathIsReal
<1>1. HeartbeatInv => DeathIsReal
  BY DEF HeartbeatInv
<1>2. HeartbeatInit => HeartbeatInv
  BY HeartbeatStarts
<1>3. HeartbeatInv /\ [HeartbeatNext]_heartbeatVars => HeartbeatInv'
  BY HeartbeatStep
<1>4. QED
  BY <1>1, <1>2, <1>3, PTL DEF HeartbeatSpec

=============================================================================
