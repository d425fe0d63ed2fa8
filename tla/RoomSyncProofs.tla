--------------------------- MODULE RoomSyncProofs ---------------------------
(***************************************************************************)
(* Proof that the clients' views converge: for any number of sockets and   *)
(* rooms, any use of the call and any reconnections, a client that reads   *)
(* its channel to the end shows exactly the other members of its room, and *)
(* of the call what it has not itself blanked or brought from before.      *)
(*                                                                         *)
(* The argument: what a client will believe is a function of its view and  *)
(* its channel.  Reading a message does not change it, each message a      *)
(* handler sends changes it as the handler changes the room, and what a    *)
(* client does to its view by itself is in its reset, or hidden by a list  *)
(* that it has still to read.                                              *)
(***************************************************************************)
EXTENDS RoomSync, RoomsProofs, SequenceTheorems

\* KnownAfter, ListedAfterAll and ActiveAfterAll as functions of a view and a channel.
KnownIn(S, s, n, x) ==
    \/ x \in S /\ \A i \in 1..n : ~TellsPeer(s[i], x)
    \/ \E i \in 1..n :
        /\ ShowsPeer(s[i], x)
        /\ \A j \in (i + 1)..n : ~TellsPeer(s[j], x)

ListedIn(L, s, x) ==
    \/ x \in L /\ \A i \in 1..Len(s) : s[i].type # "call-peers"
    \/ \E i \in 1..Len(s) :
        /\ s[i].type = "call-peers" /\ x \in s[i].peers
        /\ \A j \in (i + 1)..Len(s) : s[j].type # "call-peers"

Known(S, s, x) == KnownIn(S, s, Len(s), x)

NoStranger(S, s) == \A i \in 1..Len(s) : s[i].type = "relay" => KnownIn(S, s, i - 1, s[i].peer)
NoCalls(s) == \A i \in 1..Len(s) : s[i].type # "call-peers"

\* F is the set of clients that show a call.
ActiveIn(F, s, q) == IF NoCalls(s) THEN q \in F ELSE \E x \in Peers : ListedIn({}, s, x)

\* A view of the call and a channel s that come to the call C, but for what the client reset.
CallsRight(V, s, C, q) ==
    /\ ~NoCalls(s) \/ "callPeers" \notin V.reset =>
        \A x \in Peers \ {q} : ListedIn(V.listed, s, x) <=> x \in C
    /\ ~NoCalls(s) \/ "callActive" \notin V.reset =>
        /\ C \ {q} # {} => ActiveIn(V.active, s, q)
        /\ ActiveIn(V.active, s, q) => C # {}

\* A view (S, V) and a channel s that come to the members M of a room and C of its call.
Right(S, V, s, M, C, q) ==
    /\ \A x \in Peers : Known(S, s, x) <=> x \in M \ {q}
    /\ CallsRight(V, s, C, q)

\* What a client that has heard of no call believes, but for what it brought along.
Blank(V, q) ==
    /\ "callPeers" \notin V.reset => V.listed = {}
    /\ "callActive" \notin V.reset => q \notin V.active

View(q) == [listed |-> listed[q], active |-> active, reset |-> reset[q]]

RightFor(q) ==
    InRoom(q) => Right(peers[q], View(q), out[q], roomPeers[wsRoom[q]], callPeers[wsRoom[q]], q)

\* Before its join a client has not heard of any call.
FreshFor(q) == q \notin asked => Blank(View(q), q) /\ NoCalls(out[q])

SyncFor(q) == RightFor(q) /\ FreshFor(q) /\ NoStranger(peers[q], out[q])

\* Nothing is sent on a socket that is not open yet, and nobody sees a call on it.
NewBlank == \A q \in Peers : conn[q] = "new" => out[q] = <<>> /\ q \notin active

SyncInv ==
    /\ TypeOK
    /\ MembershipConsistent
    /\ SyncTypeOK
    /\ NewBlank
    /\ \A q \in Peers : SyncFor(q)

\* A step of the server, as far as the clients' views go.
ServerSeen ==
    /\ peers' = peers /\ listed' = listed /\ active' = active
    /\ CallNews
    /\ MembershipConsistent'

-----------------------------------------------------------------------------
(* Channels.                                                               *)

(* What one more message makes a client believe, and when it may be sent. *)
LEMMA AppendReads ==
    ASSUME NEW S, NEW L, NEW s \in Seq(Message), NEW m \in Message
    PROVE  LET t == Append(s, m) IN
           /\ \A x : Known(S, t, x) <=> ShowsPeer(m, x) \/ (Known(S, s, x) /\ ~TellsPeer(m, x))
           /\ \A x : ListedIn(L, t, x) <=> IF m.type = "call-peers" THEN x \in m.peers
                                           ELSE ListedIn(L, s, x)
           /\ NoStranger(S, s) /\ (m.type = "relay" => Known(S, s, m.peer)) => NoStranger(S, t)
           /\ NoCalls(t) <=> NoCalls(s) /\ m.type # "call-peers"
<1> DEFINE t == Append(s, m)
<1> DEFINE n == Len(s)
<1>1. /\ n \in Nat /\ Len(t) = n + 1
      /\ \A i \in 1..n : t[i] = s[i]
      /\ t[n + 1] = m
  BY AppendProperties, LenProperties
<1> HIDE DEF t, n
<1>2. \A i : i \in 1..(n + 1) <=> i \in 1..n \/ i = n + 1
  BY <1>1
<1>3. \A i \in 1..n : \A j : j \in (i + 1)..(n + 1) <=> j \in (i + 1)..n \/ j = n + 1
  BY <1>1
<1>4. \A i \in 1..n : \A j \in (i + 1)..n : j \in 1..n
  BY <1>1
<1>5. \A j \in (n + 1 + 1)..(n + 1) : FALSE
  BY <1>1
<1>6. ASSUME NEW x
      PROVE  Known(S, t, x) <=> ShowsPeer(m, x) \/ (Known(S, s, x) /\ ~TellsPeer(m, x))
  <2>1. Known(S, t, x) <=>
            \/ x \in S /\ \A i \in 1..(n + 1) : ~TellsPeer(t[i], x)
            \/ \E i \in 1..(n + 1) :
                ShowsPeer(t[i], x) /\ \A j \in (i + 1)..(n + 1) : ~TellsPeer(t[j], x)
    BY <1>1 DEF Known, KnownIn
  <2>2. Known(S, s, x) <=>
            \/ x \in S /\ \A i \in 1..n : ~TellsPeer(s[i], x)
            \/ \E i \in 1..n :
                ShowsPeer(s[i], x) /\ \A j \in (i + 1)..n : ~TellsPeer(s[j], x)
    BY DEF Known, KnownIn, n
  <2>3. (\A i \in 1..(n + 1) : ~TellsPeer(t[i], x)) <=>
            (\A i \in 1..n : ~TellsPeer(s[i], x)) /\ ~TellsPeer(m, x)
    BY <1>1, <1>2
  <2>4. \A i \in 1..n : (\A j \in (i + 1)..(n + 1) : ~TellsPeer(t[j], x)) <=>
            (\A j \in (i + 1)..n : ~TellsPeer(s[j], x)) /\ ~TellsPeer(m, x)
    BY <1>1, <1>3, <1>4
  <2>5. (\E i \in 1..(n + 1) :
            ShowsPeer(t[i], x) /\ \A j \in (i + 1)..(n + 1) : ~TellsPeer(t[j], x)) <=>
            \/ ShowsPeer(m, x)
            \/ \E i \in 1..n :
                ShowsPeer(s[i], x) /\ (\A j \in (i + 1)..n : ~TellsPeer(s[j], x)) /\ ~TellsPeer(m, x)
    BY <1>1, <1>2, <1>5, <2>4
  <2>6. QED
    BY <2>1, <2>2, <2>3, <2>5
<1>7. ASSUME NEW x
      PROVE  ListedIn(L, t, x) <=> IF m.type = "call-peers" THEN x \in m.peers ELSE ListedIn(L, s, x)
  <2>1. ListedIn(L, t, x) <=>
            \/ x \in L /\ \A i \in 1..(n + 1) : t[i].type # "call-peers"
            \/ \E i \in 1..(n + 1) :
                /\ t[i].type = "call-peers" /\ x \in t[i].peers
                /\ \A j \in (i + 1)..(n + 1) : t[j].type # "call-peers"
    BY <1>1 DEF ListedIn
  <2>2. ListedIn(L, s, x) <=>
            \/ x \in L /\ \A i \in 1..n : s[i].type # "call-peers"
            \/ \E i \in 1..n :
                /\ s[i].type = "call-peers" /\ x \in s[i].peers
                /\ \A j \in (i + 1)..n : s[j].type # "call-peers"
    BY DEF ListedIn, n
  <2>3. CASE m.type = "call-peers"
    <3>1. \A i \in 1..n : n + 1 \in (i + 1)..(n + 1)
      BY <1>1
    <3>2. QED
      BY <1>1, <1>2, <1>5, <2>1, <2>3, <3>1
  <2>4. CASE m.type # "call-peers"
    <3>1. (\A i \in 1..(n + 1) : t[i].type # "call-peers") <=> \A i \in 1..n : s[i].type # "call-peers"
      BY <1>1, <1>2, <2>4
    <3>2. \A i \in 1..n : (\A j \in (i + 1)..(n + 1) : t[j].type # "call-peers") <=>
                            \A j \in (i + 1)..n : s[j].type # "call-peers"
      BY <1>1, <1>3, <1>4, <2>4
    <3>3. QED
      BY <1>1, <1>2, <2>1, <2>2, <2>4, <3>1, <3>2
  <2>5. QED
    BY <2>3, <2>4
<1>8. ASSUME NoStranger(S, s), m.type = "relay" => Known(S, s, m.peer) PROVE NoStranger(S, t)
  <2>1. \A k \in 0..n : \A x : KnownIn(S, t, k, x) <=> KnownIn(S, s, k, x)
    <3>1. \A k \in 0..n : \A i \in 1..k : t[i] = s[i] /\ \A j \in (i + 1)..k : t[j] = s[j]
      BY <1>1
    <3>2. QED
      BY <3>1 DEF KnownIn
  <2>2. ASSUME NEW i \in 1..n, t[i].type = "relay" PROVE KnownIn(S, t, i - 1, t[i].peer)
    <3>1. i - 1 \in 0..n /\ t[i] = s[i]
      BY <1>1
    <3>2. KnownIn(S, s, i - 1, s[i].peer)
      BY <1>8, <2>2, <3>1 DEF NoStranger, n
    <3>3. QED
      BY <2>1, <3>1, <3>2
  <2>3. m.type = "relay" => KnownIn(S, t, n + 1 - 1, m.peer)
    <3>1. n + 1 - 1 = n /\ n \in 0..n
      BY <1>1
    <3>2. m.type = "relay" => KnownIn(S, s, n, m.peer)
      BY <1>8 DEF Known, n
    <3>3. QED
      BY <2>1, <3>1, <3>2
  <2>4. QED
    BY <1>1, <1>2, <2>2, <2>3 DEF NoStranger
<1>9. NoCalls(t) <=> NoCalls(s) /\ m.type # "call-peers"
  <2>1. NoCalls(t) <=> \A i \in 1..(n + 1) : t[i].type # "call-peers"
    BY <1>1 DEF NoCalls
  <2>2. NoCalls(s) <=> \A i \in 1..n : s[i].type # "call-peers"
    BY DEF NoCalls, n
  <2>3. QED
    BY <1>1, <1>2, <2>1, <2>2
<1>10. QED
  BY <1>6, <1>7, <1>8, <1>9 DEF t

(* Reading the next message does not change what the channel comes to. *)
LEMMA TailReads ==
    ASSUME NEW S, NEW L, NEW s \in Seq(Message), s # <<>>
    PROVE  LET t == Tail(s)
               m == Head(s)
           IN  /\ \A x : Known(PeersAfter(S, m), t, x) <=> Known(S, s, x)
               /\ \A x : ListedIn(ListedAfter(L, m), t, x) <=> ListedIn(L, s, x)
               /\ NoStranger(S, s) => NoStranger(PeersAfter(S, m), t)
               /\ NoCalls(s) <=> NoCalls(t) /\ m.type # "call-peers"
<1> DEFINE t == Tail(s)
<1> DEFINE m == Head(s)
<1> DEFINE n == Len(t)
<1>1. /\ n \in Nat /\ Len(s) = n + 1
      /\ \A i \in 1..n : t[i] = s[i + 1]
      /\ m = s[1]
  <2>1. Len(s) \in Nat \ {0} /\ Len(t) = Len(s) - 1
    BY EmptySeq, LenProperties, HeadTailProperties
  <2>2. QED
    BY <2>1, HeadTailProperties
<1> DEFINE A == PeersAfter(S, m)
<1> DEFINE B == ListedAfter(L, m)
<1>2. \A x : x \in A <=> ShowsPeer(m, x) \/ (x \in S /\ ~TellsPeer(m, x))
  BY DEF PeersAfter, ShowsPeer, TellsPeer
<1>3. \A x : x \in B <=> IF m.type = "call-peers" THEN x \in m.peers ELSE x \in L
  BY DEF ListedAfter
<1> HIDE DEF t, m, n, A, B
<1>6. ASSUME NEW k \in 0..n, NEW x
      PROVE  KnownIn(A, t, k, x) <=> KnownIn(S, s, k + 1, x)
  <2>1. \A i \in 1..k : t[i] = s[i + 1] /\ i + 1 \in 2..(k + 1)
    BY <1>1
  <2>2. \A i \in 2..(k + 1) : s[i] = t[i - 1] /\ i - 1 \in 1..k
    BY <1>1
  <2>3. \A i : i \in 1..(k + 1) <=> i = 1 \/ i \in 2..(k + 1)
    BY <1>1
  <2>4. (\A i \in 2..(k + 1) : ~TellsPeer(s[i], x)) <=> \A i \in 1..k : ~TellsPeer(t[i], x)
    <3>1. ASSUME \A i \in 2..(k + 1) : ~TellsPeer(s[i], x), NEW i \in 1..k
          PROVE  ~TellsPeer(t[i], x)
      BY <2>1, <3>1
    <3>2. ASSUME \A i \in 1..k : ~TellsPeer(t[i], x), NEW i \in 2..(k + 1)
          PROVE  ~TellsPeer(s[i], x)
      BY <2>2, <3>2
    <3>3. QED
      BY <3>1, <3>2
  <2>5. (\E i \in 2..(k + 1) : ShowsPeer(s[i], x) /\ \A j \in (i + 1)..(k + 1) : ~TellsPeer(s[j], x))
            <=> \E i \in 1..k : ShowsPeer(t[i], x) /\ \A j \in (i + 1)..k : ~TellsPeer(t[j], x)
    <3>1. ASSUME NEW i \in 2..(k + 1), ShowsPeer(s[i], x),
                 \A j \in (i + 1)..(k + 1) : ~TellsPeer(s[j], x)
          PROVE  ShowsPeer(t[i - 1], x) /\ \A j \in (i - 1 + 1)..k : ~TellsPeer(t[j], x)
      <4>1. \A j \in (i - 1 + 1)..k : j + 1 \in (i + 1)..(k + 1) /\ t[j] = s[j + 1]
        BY <1>1
      <4>2. QED
        BY <2>2, <3>1, <4>1
    <3>2. ASSUME NEW i \in 1..k, ShowsPeer(t[i], x), \A j \in (i + 1)..k : ~TellsPeer(t[j], x)
          PROVE  ShowsPeer(s[i + 1], x) /\ \A j \in (i + 1 + 1)..(k + 1) : ~TellsPeer(s[j], x)
      <4>1. \A j \in (i + 1 + 1)..(k + 1) : j - 1 \in (i + 1)..k /\ s[j] = t[j - 1]
        BY <1>1
      <4>2. QED
        BY <2>1, <3>2, <4>1
    <3>3. QED
      BY <2>1, <2>2, <3>1, <3>2
  <2>6. KnownIn(A, t, k, x) <=>
            \/ x \in A /\ \A i \in 1..k : ~TellsPeer(t[i], x)
            \/ \E i \in 1..k : ShowsPeer(t[i], x) /\ \A j \in (i + 1)..k : ~TellsPeer(t[j], x)
    BY DEF KnownIn
  <2>7. KnownIn(S, s, k + 1, x) <=>
            \/ x \in S /\ \A i \in 1..(k + 1) : ~TellsPeer(s[i], x)
            \/ \E i \in 1..(k + 1) : ShowsPeer(s[i], x) /\ \A j \in (i + 1)..(k + 1) : ~TellsPeer(s[j], x)
    BY DEF KnownIn
  <2>8. (\A i \in 1..(k + 1) : ~TellsPeer(s[i], x)) <=>
            ~TellsPeer(m, x) /\ \A i \in 2..(k + 1) : ~TellsPeer(s[i], x)
    BY <1>1, <2>3
  <2>9. (\E i \in 1..(k + 1) : ShowsPeer(s[i], x) /\ \A j \in (i + 1)..(k + 1) : ~TellsPeer(s[j], x)) <=>
            \/ ShowsPeer(m, x) /\ \A j \in 2..(k + 1) : ~TellsPeer(s[j], x)
            \/ \E i \in 2..(k + 1) :
                ShowsPeer(s[i], x) /\ \A j \in (i + 1)..(k + 1) : ~TellsPeer(s[j], x)
    BY <1>1, <2>3
  <2>10. QED
    BY <1>2, <2>4, <2>5, <2>6, <2>7, <2>8, <2>9
<1>7. \A x : Known(A, t, x) <=> Known(S, s, x)
  <2>1. n \in 0..n
    BY <1>1
  <2>2. QED
    BY <1>1, <1>6, <2>1 DEF Known, n
<1>8. NoStranger(S, s) => NoStranger(A, t)
  <2>1. SUFFICES ASSUME NoStranger(S, s), NEW i \in 1..n, t[i].type = "relay"
                 PROVE  KnownIn(A, t, i - 1, t[i].peer)
    BY DEF NoStranger, n
  <2>2. i + 1 \in 1..Len(s) /\ i + 1 - 1 = i /\ t[i] = s[i + 1] /\ i - 1 \in 0..n /\ i - 1 + 1 = i
    BY <1>1
  <2>3. KnownIn(S, s, i, s[i + 1].peer)
    BY <2>1, <2>2 DEF NoStranger
  <2>4. QED
    BY <1>6, <2>2, <2>3
<1>9. NoCalls(s) <=> NoCalls(t) /\ m.type # "call-peers"
  <2>1. NoCalls(s) <=> \A i \in 1..(n + 1) : s[i].type # "call-peers"
    BY <1>1 DEF NoCalls
  <2>2. NoCalls(t) <=> \A i \in 1..n : t[i].type # "call-peers"
    BY DEF NoCalls, n
  <2>3. \A i \in 1..n : i + 1 \in 1..(n + 1) /\ t[i] = s[i + 1]
    BY <1>1
  <2>4. \A i \in 1..(n + 1) : i = 1 \/ (i - 1 \in 1..n /\ s[i] = t[i - 1])
    BY <1>1
  <2>5. 1 \in 1..(n + 1)
    BY <1>1
  <2>6. ASSUME NoCalls(s) PROVE NoCalls(t) /\ m.type # "call-peers"
    BY <1>1, <2>1, <2>2, <2>3, <2>5, <2>6
  <2>7. ASSUME NoCalls(t), m.type # "call-peers" PROVE NoCalls(s)
    BY <1>1, <2>1, <2>2, <2>4, <2>7
  <2>8. QED
    BY <2>6, <2>7
<1>10. ASSUME NEW x PROVE ListedIn(B, t, x) <=> ListedIn(L, s, x)
  <2>1. \A i \in 1..n : t[i] = s[i + 1] /\ i + 1 \in 2..(n + 1)
    BY <1>1
  <2>2. \A i \in 2..(n + 1) : s[i] = t[i - 1] /\ i - 1 \in 1..n
    BY <1>1
  <2>3. \A i : i \in 1..(n + 1) <=> i = 1 \/ i \in 2..(n + 1)
    BY <1>1
  <2>4. (\A i \in 2..(n + 1) : s[i].type # "call-peers") <=> \A i \in 1..n : t[i].type # "call-peers"
    <3>1. ASSUME \A i \in 2..(n + 1) : s[i].type # "call-peers", NEW i \in 1..n
          PROVE  t[i].type # "call-peers"
      BY <2>1, <3>1
    <3>2. ASSUME \A i \in 1..n : t[i].type # "call-peers", NEW i \in 2..(n + 1)
          PROVE  s[i].type # "call-peers"
      BY <2>2, <3>2
    <3>3. QED
      BY <3>1, <3>2
  <2>5. (\E i \in 2..(n + 1) : /\ s[i].type = "call-peers" /\ x \in s[i].peers
                               /\ \A j \in (i + 1)..(n + 1) : s[j].type # "call-peers")
            <=> \E i \in 1..n : /\ t[i].type = "call-peers" /\ x \in t[i].peers
                                /\ \A j \in (i + 1)..n : t[j].type # "call-peers"
    <3>1. ASSUME NEW i \in 2..(n + 1), s[i].type = "call-peers", x \in s[i].peers,
                 \A j \in (i + 1)..(n + 1) : s[j].type # "call-peers"
          PROVE  /\ t[i - 1].type = "call-peers" /\ x \in t[i - 1].peers
                 /\ \A j \in (i - 1 + 1)..n : t[j].type # "call-peers"
      <4>1. \A j \in (i - 1 + 1)..n : j + 1 \in (i + 1)..(n + 1) /\ t[j] = s[j + 1]
        BY <1>1
      <4>2. QED
        BY <2>2, <3>1, <4>1
    <3>2. ASSUME NEW i \in 1..n, t[i].type = "call-peers", x \in t[i].peers,
                 \A j \in (i + 1)..n : t[j].type # "call-peers"
          PROVE  /\ s[i + 1].type = "call-peers" /\ x \in s[i + 1].peers
                 /\ \A j \in (i + 1 + 1)..(n + 1) : s[j].type # "call-peers"
      <4>1. \A j \in (i + 1 + 1)..(n + 1) : j - 1 \in (i + 1)..n /\ s[j] = t[j - 1]
        BY <1>1
      <4>2. QED
        BY <2>1, <3>2, <4>1
    <3>3. QED
      BY <2>1, <2>2, <3>1, <3>2
  <2>6. ListedIn(B, t, x) <=>
            \/ x \in B /\ \A i \in 1..n : t[i].type # "call-peers"
            \/ \E i \in 1..n : /\ t[i].type = "call-peers" /\ x \in t[i].peers
                               /\ \A j \in (i + 1)..n : t[j].type # "call-peers"
    BY DEF ListedIn, n
  <2>7. ListedIn(L, s, x) <=>
            \/ x \in L /\ \A i \in 1..(n + 1) : s[i].type # "call-peers"
            \/ \E i \in 1..(n + 1) : /\ s[i].type = "call-peers" /\ x \in s[i].peers
                                     /\ \A j \in (i + 1)..(n + 1) : s[j].type # "call-peers"
    BY <1>1 DEF ListedIn
  <2>8. (\A i \in 1..(n + 1) : s[i].type # "call-peers") <=>
            m.type # "call-peers" /\ \A i \in 2..(n + 1) : s[i].type # "call-peers"
    BY <1>1, <2>3
  <2>9. (\E i \in 1..(n + 1) : /\ s[i].type = "call-peers" /\ x \in s[i].peers
                               /\ \A j \in (i + 1)..(n + 1) : s[j].type # "call-peers") <=>
            \/ /\ m.type = "call-peers" /\ x \in m.peers
               /\ \A j \in 2..(n + 1) : s[j].type # "call-peers"
            \/ \E i \in 2..(n + 1) : /\ s[i].type = "call-peers" /\ x \in s[i].peers
                                     /\ \A j \in (i + 1)..(n + 1) : s[j].type # "call-peers"
    BY <1>1, <2>3
  <2>10. QED
    BY <1>3, <2>4, <2>5, <2>6, <2>7, <2>8, <2>9
<1>11. QED
  BY <1>7, <1>8, <1>9, <1>10 DEF t, m, A, B

(* The same for whether a call is shown. *)
LEMMA AppendShown ==
    ASSUME NEW F, NEW s \in Seq(Message), NEW m \in Message, NEW q
    PROVE  ActiveIn(F, Append(s, m), q) <=> IF m.type = "call-peers" THEN m.peers # {} ELSE ActiveIn(F, s, q)
<1> DEFINE t == Append(s, m)
<1>1. /\ \A x : ListedIn({}, t, x) <=> IF m.type = "call-peers" THEN x \in m.peers ELSE ListedIn({}, s, x)
      /\ NoCalls(t) <=> NoCalls(s) /\ m.type # "call-peers"
  BY AppendReads
<1>2. m.type = "call-peers" => m.peers \in SUBSET Peers
  BY DEF Message
<1> HIDE DEF t
<1>3. m.type = "call-peers" => (ActiveIn(F, t, q) <=> m.peers # {})
  BY <1>1, <1>2 DEF ActiveIn
<1>4. m.type # "call-peers" => (ActiveIn(F, t, q) <=> ActiveIn(F, s, q))
  BY <1>1 DEF ActiveIn
<1>5. QED
  BY <1>3, <1>4 DEF t

(* With a list in the channel, what is listed before it is of no account. *)
LEMMA ListHides ==
    ASSUME NEW L, NEW K, NEW s, ~NoCalls(s), NEW x
    PROVE  ListedIn(L, s, x) <=> ListedIn(K, s, x)
  BY DEF ListedIn, NoCalls

(* And without one it is all there is. *)
LEMMA NothingHidden ==
    ASSUME NEW L, NEW s, NoCalls(s), NEW x
    PROVE  ListedIn(L, s, x) <=> x \in L
  BY DEF ListedIn, NoCalls

(* Reading the next message does not change whether a call will be shown. *)
LEMMA TailShown ==
    ASSUME NEW F, NEW G, NEW q, NEW s \in Seq(Message), s # <<>>,
           q \in G <=> ActiveAfter(q \in F, Head(s))
    PROVE  ActiveIn(G, Tail(s), q) <=> ActiveIn(F, s, q)
<1> DEFINE t == Tail(s)
<1> DEFINE m == Head(s)
<1>1. /\ \A x : ListedIn(ListedAfter({}, m), t, x) <=> ListedIn({}, s, x)
      /\ NoCalls(s) <=> NoCalls(t) /\ m.type # "call-peers"
  BY TailReads
<1>2. m \in Message
  BY HeadTailProperties
<1>3. m.type = "call-peers" => m.peers \in SUBSET Peers
  BY <1>2 DEF Message
<1>4. q \in G <=> IF m.type = "call-peers" THEN m.peers # {} ELSE q \in F
  BY DEF ActiveAfter
<1> HIDE DEF t, m
<1>5. NoCalls(t) /\ m.type = "call-peers" => (ActiveIn(G, t, q) <=> ActiveIn(F, s, q))
  <2>1. NoCalls(t) /\ m.type = "call-peers" => \A x : ListedIn({}, s, x) <=> x \in m.peers
    BY <1>1, NothingHidden DEF ListedAfter
  <2>2. QED
    BY <1>1, <1>3, <1>4, <2>1 DEF ActiveIn
<1>6. NoCalls(t) /\ m.type # "call-peers" => (ActiveIn(G, t, q) <=> ActiveIn(F, s, q))
  BY <1>1, <1>4 DEF ActiveIn
<1>7. ~NoCalls(t) => (ActiveIn(G, t, q) <=> ActiveIn(F, s, q))
  <2>1. ~NoCalls(t) => \A x : ListedIn({}, s, x) <=> ListedIn({}, t, x)
    BY <1>1, ListHides
  <2>2. QED
    BY <1>1, <2>1 DEF ActiveIn
<1>8. QED
  BY <1>5, <1>6, <1>7 DEF t

-----------------------------------------------------------------------------
(* What each message does to a channel that comes to the right views.      *)

(* A message that is no call list leaves the call as it was. *)
LEMMA SameCall ==
    ASSUME NEW V, NEW s \in Seq(Message), NEW C, NEW q \in Peers, NEW m \in Message,
           m.type # "call-peers", CallsRight(V, s, C, q)
    PROVE  CallsRight(V, Append(s, m), C, q)
<1>1. /\ \A x : ListedIn(V.listed, Append(s, m), x) <=> ListedIn(V.listed, s, x)
      /\ NoCalls(Append(s, m)) <=> NoCalls(s)
  BY AppendReads
<1>2. ActiveIn(V.active, Append(s, m), q) <=> ActiveIn(V.active, s, q)
  BY AppendShown
<1>3. QED
  BY <1>1, <1>2 DEF CallsRight

(* A peer-joined: one more member. *)
LEMMA JoinedRight ==
    ASSUME NEW S, NEW V, NEW s \in Seq(Message), NEW M, NEW C, NEW q \in Peers, NEW p \in Peers \ {q},
           Right(S, V, s, M, C, q)
    PROVE  Right(S, V, Append(s, PeerJoinedMsg(p)), M \cup {p}, C, q)
<1>1. PeerJoinedMsg(p) \in Message /\ PeerJoinedMsg(p).type = "peer-joined" /\ PeerJoinedMsg(p).peer = p
  BY MessageTypes DEF PeerJoinedMsg
<1>2. CallsRight(V, Append(s, PeerJoinedMsg(p)), C, q)
  BY <1>1, SameCall DEF Right
<1>3. QED
  BY <1>1, <1>2, AppendReads DEF Right, ShowsPeer, TellsPeer

(* A peer-left: one member fewer. *)
LEMMA LeftRight ==
    ASSUME NEW S, NEW V, NEW s \in Seq(Message), NEW M, NEW C, NEW q \in Peers, NEW p \in Peers,
           Right(S, V, s, M, C, q)
    PROVE  Right(S, V, Append(s, PeerLeftMsg(p)), M \ {p}, C, q)
<1>1. PeerLeftMsg(p) \in Message /\ PeerLeftMsg(p).type = "peer-left" /\ PeerLeftMsg(p).peer = p
  BY MessageTypes DEF PeerLeftMsg
<1>2. CallsRight(V, Append(s, PeerLeftMsg(p)), C, q)
  BY <1>1, SameCall DEF Right
<1>3. QED
  BY <1>1, <1>2, AppendReads DEF Right, ShowsPeer, TellsPeer

(***************************************************************************)
(* A call list replaces the one before, and whatever the client reset;     *)
(* whether it has the reader's own id does not matter.                     *)
(***************************************************************************)
LEMMA CallRight ==
    ASSUME NEW S, NEW V, NEW W, NEW s \in Seq(Message), NEW M, NEW C, NEW q \in Peers,
           NEW D \in SUBSET Peers, NEW E, D \ {q} = E \ {q}, D # {} => E # {},
           Right(S, V, s, M, C, q)
    PROVE  Right(S, W, Append(s, CallPeersMsg(D)), M, E, q)
<1> DEFINE m == CallPeersMsg(D)
<1>1. m \in Message /\ m.type = "call-peers" /\ m.peers = D
  BY MessageTypes DEF CallPeersMsg
<1>2. \A x \in Peers \ {q} : x \in D <=> x \in E
  OBVIOUS
<1>3. E \ {q} # {} => D # {}
  OBVIOUS
<1> HIDE DEF m
<1>4. \A x : ListedIn(W.listed, Append(s, m), x) <=> x \in D
  BY <1>1, AppendReads
<1>5. ActiveIn(W.active, Append(s, m), q) <=> D # {}
  BY <1>1, AppendShown
<1>6. CallsRight(W, Append(s, m), E, q)
  BY <1>2, <1>3, <1>4, <1>5 DEF CallsRight
<1>7. \A x \in Peers : Known(S, Append(s, m), x) <=> Known(S, s, x)
  BY <1>1, AppendReads DEF ShowsPeer, TellsPeer
<1>8. QED
  BY <1>6, <1>7 DEF Right, m

(* A relay or an error says nothing of either. *)
LEMMA OtherRight ==
    ASSUME NEW S, NEW V, NEW s \in Seq(Message), NEW M, NEW C, NEW q \in Peers,
           NEW m \in Message, m.type \in {"relay", "error"}, Right(S, V, s, M, C, q)
    PROVE  Right(S, V, Append(s, m), M, C, q)
<1>1. CallsRight(V, Append(s, m), C, q)
  BY SameCall DEF Right
<1>2. QED
  BY <1>1, AppendReads DEF Right, ShowsPeer, TellsPeer

(* The list a newcomer is sent makes up for all it does not know. *)
LEMMA NewcomerRight ==
    ASSUME NEW S, NEW V, NEW s \in Seq(Message), NEW M \in SUBSET Peers, NEW q \in Peers \ M,
           Blank(V, q), NoCalls(s)
    PROVE  Right(S, V, Append(s, PeersListMsg(M)), M \cup {q}, {}, q)
<1>1. PeersListMsg(M) \in Message /\ PeersListMsg(M).type = "peers-list" /\ PeersListMsg(M).peers = M
  BY MessageTypes DEF PeersListMsg
<1>2. CallsRight(V, s, {}, q)
  BY NothingHidden DEF CallsRight, Blank, ActiveIn
<1>3. CallsRight(V, Append(s, PeersListMsg(M)), {}, q)
  BY <1>1, <1>2, SameCall
<1>4. QED
  BY <1>1, <1>3, AppendReads DEF Right, ShowsPeer, TellsPeer

(* Only a relay can come from a stranger, and no message but a call list lists a call. *)
LEMMA SafeToSend ==
    ASSUME NEW S, NEW s \in Seq(Message), NEW m \in Message, m.type # "relay", NoStranger(S, s)
    PROVE  NoStranger(S, Append(s, m))
  BY AppendReads

(* Every message is of the type its name says. *)
LEMMA NoneIsRelay ==
    /\ \A S \in SUBSET Peers : PeersListMsg(S).type # "relay" /\ CallPeersMsg(S).type # "relay"
    /\ \A p \in Peers : PeerJoinedMsg(p).type # "relay" /\ PeerLeftMsg(p).type # "relay"
    /\ \A c \in ErrorCodes : ErrorMsg(c).type = "error"
  BY DEF PeersListMsg, CallPeersMsg, PeerJoinedMsg, PeerLeftMsg, ErrorMsg

(* What send() leaves in a channel. *)
LEMMA PostReads ==
    ASSUME NEW o \in [Peers -> Seq(Message)], NEW S, NEW m, NEW q \in Peers
    PROVE  Post(o, S, m)[q] = IF q \in S /\ Live(q) THEN Append(o[q], m) ELSE o[q]
  BY DEF Post

-----------------------------------------------------------------------------
(* The steps, each for one client q that looks on.                         *)

(***************************************************************************)
(* A client to which nothing was sent, and of whose room nothing changed:  *)
(* what it did to its own view of the call, if anything, is in its reset.  *)
(***************************************************************************)
LEMMA ViewKept ==
    ASSUME NEW q \in Peers, SyncFor(q),
           out'[q] = out[q], peers'[q] = peers[q], asked \subseteq asked',
           InRoom(q)' => /\ InRoom(q) /\ wsRoom'[q] = wsRoom[q]
                         /\ roomPeers'[wsRoom[q]] = roomPeers[wsRoom[q]]
                         /\ callPeers'[wsRoom[q]] = callPeers[wsRoom[q]],
           InRoom(q)' \/ q \notin asked' =>
               /\ reset[q] \subseteq reset'[q]
               /\ listed'[q] = listed[q] \/ "callPeers" \in reset'[q]
               /\ (q \in active' <=> q \in active) \/ "callActive" \in reset'[q]
    PROVE  SyncFor(q)'
<1>1. ASSUME InRoom(q)' PROVE RightFor(q)'
  <2> DEFINE C == callPeers[wsRoom[q]]
  <2>1. Right(peers[q], View(q), out[q], roomPeers[wsRoom[q]], C, q)
    BY <1>1 DEF SyncFor, RightFor
  <2>2. \A x \in Peers : ~NoCalls(out[q]) => (ListedIn(listed'[q], out[q], x) <=> ListedIn(listed[q], out[q], x))
    BY ListHides
  <2>3. ~NoCalls(out[q]) \/ "callActive" \notin reset'[q] =>
            (ActiveIn(active', out[q], q) <=> ActiveIn(active, out[q], q))
    BY <1>1 DEF ActiveIn
  <2>4. CallsRight([listed |-> listed'[q], active |-> active', reset |-> reset'[q]], out[q], C, q)
    <3>1. CallsRight([listed |-> listed[q], active |-> active, reset |-> reset[q]], out[q], C, q)
      BY <2>1 DEF Right, View
    <3>2. QED
      BY <1>1, <2>2, <2>3, <3>1 DEF CallsRight
  <2>5. QED
    BY <1>1, <2>1, <2>4 DEF RightFor, Right, View
<1>2. FreshFor(q)'
  <2>1. SUFFICES ASSUME q \notin asked' PROVE Blank(View(q)', q) /\ NoCalls(out[q])
    BY DEF FreshFor
  <2>2. Blank(View(q), q) /\ NoCalls(out[q])
    BY <2>1 DEF SyncFor, FreshFor
  <2>3. QED
    BY <2>1, <2>2 DEF Blank, View
<1>3. NoStranger(peers'[q], out'[q])
  BY DEF SyncFor
<1>4. QED
  BY <1>1, <1>2, <1>3 DEF SyncFor, RightFor

(* What a client reset stays so while the call of its room does. *)
LEMMA ResetStays ==
    ASSUME ServerSeen, NEW q \in Peers, CallOf(q)' = CallOf(q)
    PROVE  reset'[q] = reset[q]
  BY DEF ServerSeen, CallNews

(* Before and after its request is handled, a client that has not asked is in no call's room. *)
LEMMA FreshReset ==
    ASSUME SyncInv, ServerSeen, NEW q \in Peers, asked \subseteq asked', q \notin asked'
    PROVE  reset'[q] = reset[q]
<1>1. wsRoom[q] = NoRoom /\ wsRoom'[q] = NoRoom
  BY DEF SyncInv, ServerSeen, MembershipConsistent
<1>2. CallOf(q)' = CallOf(q)
  BY <1>1 DEF CallOf
<1>3. QED
  BY <1>2, ResetStays

(* A client to which the server sent nothing, and of whose room nothing changed. *)
LEMMA NothingSeen ==
    ASSUME SyncInv, ServerSeen, NEW q \in Peers,
           out'[q] = out[q], asked \subseteq asked',
           InRoom(q)' => /\ InRoom(q) /\ wsRoom'[q] = wsRoom[q]
                         /\ roomPeers'[wsRoom[q]] = roomPeers[wsRoom[q]]
                         /\ callPeers'[wsRoom[q]] = callPeers[wsRoom[q]]
    PROVE  SyncFor(q)'
<1>1. SyncFor(q) /\ peers' = peers /\ listed' = listed /\ active' = active
  BY DEF SyncInv, ServerSeen
<1>2. InRoom(q)' => reset'[q] = reset[q]
  <2>1. InRoom(q)' => CallOf(q)' = CallOf(q)
    BY DEF CallOf, InRoom
  <2>2. QED
    BY <2>1, ResetStays
<1>3. q \notin asked' => reset'[q] = reset[q]
  BY FreshReset
<1>4. QED
  BY <1>1, <1>2, <1>3, ViewKept

(* A client that has a socket from which it is heard of no more, or not yet. *)
LEMMA NotInRoom ==
    ASSUME NEW q \in Peers, ServerSeen, ~InRoom(q)', FreshFor(q)', NoStranger(peers[q], out'[q])
    PROVE  SyncFor(q)'
  BY DEF SyncFor, RightFor, ServerSeen

(* A view that no change of the call makes out of date. *)
LEMMA ViewStays ==
    ASSUME ServerSeen, NEW q \in Peers, CallOf(q)' = CallOf(q)
    PROVE  View(q)' = View(q)
<1>1. reset'[q] = reset[q]
  BY ResetStays
<1>2. QED
  BY <1>1 DEF View, ServerSeen

(* A member of a room whose channel comes to what the room now is. *)
LEMMA MemberRight ==
    ASSUME ServerSeen, NEW q \in Peers, q \in asked', NoStranger(peers[q], out'[q]),
           Right(peers[q], View(q)', out'[q], roomPeers'[wsRoom'[q]], callPeers'[wsRoom'[q]], q)
    PROVE  SyncFor(q)'
<1>1. peers' = peers
  BY DEF ServerSeen
<1>2. RightFor(q)'
  BY <1>1 DEF RightFor
<1>3. FreshFor(q)'
  BY DEF FreshFor
<1>4. QED
  BY <1>1, <1>2, <1>3 DEF SyncFor

(* To have asked, or not to have, with a view that has not changed. *)
LEMMA StillFresh ==
    ASSUME SyncInv, ServerSeen, NEW q \in Peers, asked \subseteq asked',
           NoCalls(out[q]) => NoCalls(out'[q])
    PROVE  FreshFor(q)'
<1>1. q \notin asked' => Blank(View(q), q) /\ NoCalls(out[q]) /\ reset'[q] = reset[q]
  BY FreshReset DEF SyncInv, SyncFor, FreshFor
<1>2. q \notin asked' => View(q)' = View(q)
  BY <1>1 DEF View, ServerSeen
<1>3. QED
  BY <1>1, <1>2 DEF FreshFor

(* A join: the members hear of it, and the newcomer of them and of their call. *)
LEMMA JoinSync ==
    ASSUME SyncInv, ServerSeen, NEW p \in Peers, NEW r \in RoomIds, Join(p, r), NEW q \in Peers
    PROVE  SyncFor(q)'
<1> DEFINE M == roomPeers[r]
<1> DEFINE C == callPeers[r]
<1>1. /\ out \in [Peers -> Seq(Message)] /\ M \in SUBSET Peers /\ C \in SUBSET Peers
      /\ out[q] \in Seq(Message)
      /\ SyncFor(q) /\ SyncFor(p)
  BY DEF SyncInv, TypeOK
<1>2. /\ p \notin asked /\ asked' = asked \cup {p} /\ Live(p)
      /\ UNCHANGED <<conn, silent, callPeers>>
  BY DEF Join, Request
<1>3. wsRoom[p] = NoRoom /\ p \notin M
  BY <1>2, NoRoomAssumption DEF SyncInv, MembershipConsistent
<1>4. \A x \in Peers : Live(x)' <=> Live(x)
  BY <1>2 DEF Live
<1>5. CASE out' = Post(out, {p}, ErrorMsg("ROOM_FULL")) /\ UNCHANGED <<wsRoom, roomPeers>>
  <2>1. CASE q # p
    <3>1. out'[q] = out[q]
      BY <1>1, <1>5, <2>1, PostReads
    <3>2. QED
      BY <1>1, <1>2, <1>4, <1>5, <3>1, NothingSeen DEF InRoom
  <2>2. CASE q = p
    <3>1. ~InRoom(p)' /\ FreshFor(p)'
      BY <1>2, <1>3, <1>5 DEF InRoom, FreshFor
    <3>2. out'[p] = Append(out[p], ErrorMsg("ROOM_FULL"))
      BY <1>1, <1>2, <1>5, PostReads
    <3>3. ErrorMsg("ROOM_FULL") \in Message /\ ErrorMsg("ROOM_FULL").type # "relay"
      BY MessageTypes, NoneIsRelay DEF ErrorCodes
    <3>4. NoStranger(peers[p], out'[p])
      BY <1>1, <2>2, <3>2, <3>3, SafeToSend DEF SyncFor
    <3>5. QED
      BY <2>2, <3>1, <3>4, NotInRoom
  <2>3. QED
    BY <2>1, <2>2
<1>6. CASE /\ roomPeers' = [roomPeers EXCEPT ![r] = @ \cup {p}]
           /\ wsRoom' = [wsRoom EXCEPT ![p] = r]
           /\ out' = JoinSends(p, r)
  <2> DEFINE a == Post(out, M, PeerJoinedMsg(p))
  <2> DEFINE b == Post(a, {p}, PeersListMsg(M))
  <2>1. a \in [Peers -> Seq(Message)]
    BY <1>1, PostType, MessageTypes
  <2>2. a[q] = IF q \in M /\ Live(q) THEN Append(out[q], PeerJoinedMsg(p)) ELSE out[q]
    BY <1>1, PostReads
  <2>3. out' = IF C # {} THEN Post(b, {p}, CallPeersMsg(C)) ELSE b
    BY <1>6 DEF JoinSends
  <2> HIDE DEF a
  <2>4. b \in [Peers -> Seq(Message)]
    BY <1>1, <2>1, PostType, MessageTypes
  <2>5. b[q] = IF q = p THEN Append(a[q], PeersListMsg(M)) ELSE a[q]
    BY <1>2, <2>1, PostReads
  <2> HIDE DEF b
  <2>6. out'[q] = IF C # {} /\ q = p THEN Append(b[q], CallPeersMsg(C)) ELSE b[q]
    BY <1>2, <2>3, <2>4, PostReads
  <2>7. /\ wsRoom'[p] = r
        /\ \A x \in Peers : x # p => wsRoom'[x] = wsRoom[x]
        /\ roomPeers'[r] = M \cup {p}
        /\ \A s \in RoomIds : s # r => roomPeers'[s] = roomPeers[s]
        /\ callPeers' = callPeers
    BY <1>2, <1>6 DEF SyncInv, TypeOK
  <2>8. \A x \in Peers : x \in M <=> wsRoom[x] = r
    BY DEF SyncInv, MembershipConsistent
  <2>9. CASE q = p
    <3> DEFINE u == Append(out[p], PeersListMsg(M))
    <3>1. b[p] = u
      BY <1>3, <2>2, <2>5, <2>9
    <3>2. Blank(View(p), p) /\ NoCalls(out[p]) /\ NoStranger(peers[p], out[p])
      BY <1>1, <1>2 DEF SyncFor, FreshFor
    <3>3. PeersListMsg(M) \in Message /\ CallPeersMsg(C) \in Message
          /\ PeersListMsg(M).type # "relay" /\ CallPeersMsg(C).type # "relay"
      BY <1>1, MessageTypes, NoneIsRelay
    <3>4. u \in Seq(Message) /\ NoStranger(peers[p], u)
          /\ Right(peers[p], View(p), u, M \cup {p}, {}, p)
      BY <1>1, <1>3, <2>9, <3>2, <3>3, SafeToSend, NewcomerRight, SMTT(30)
    <3> HIDE DEF u, M, C
    <3>5. CASE C # {}
      <4> DEFINE v == Append(u, CallPeersMsg(C))
      <4>1. NoStranger(peers[p], v) /\ Right(peers[p], View(p)', v, M \cup {p}, C, p)
        BY <1>1, <3>3, <3>4, SafeToSend, CallRight
      <4>2. out'[p] = v
        BY <2>6, <2>9, <3>1, <3>5
      <4> HIDE DEF v
      <4>3. QED
        BY <1>2, <2>7, <2>9, <4>1, <4>2, MemberRight DEF C
    <3>6. CASE C = {}
      <4>1. out'[p] = u
        BY <2>6, <2>9, <3>1, <3>6
      <4>2. CallOf(p)' = CallOf(p)
        BY <1>3, <2>7, <3>6, NoRoomAssumption DEF CallOf, C
      <4>3. View(p)' = View(p)
        BY <4>2, ViewStays
      <4>4. QED
        BY <1>2, <2>7, <2>9, <3>4, <3>6, <4>1, <4>3, MemberRight DEF C
    <3>7. QED
      BY <3>5, <3>6
  <2>10. CASE q # p /\ q \in M /\ Live(q)
    <3> DEFINE u == Append(out[q], PeerJoinedMsg(p))
    <3>1. out'[q] = u
      BY <2>2, <2>5, <2>6, <2>10
    <3>2. InRoom(q) /\ wsRoom[q] = r /\ wsRoom'[q] = r
      BY <2>7, <2>8, <2>10, NoRoomAssumption DEF InRoom
    <3>3. Right(peers[q], View(q), out[q], M, C, q) /\ NoStranger(peers[q], out[q])
      BY <1>1, <3>2 DEF SyncFor, RightFor
    <3>4. Right(peers[q], View(q), u, M \cup {p}, C, q)
      BY <1>1, <2>10, <3>3, JoinedRight
    <3>5. NoStranger(peers[q], u)
      BY <1>1, <3>3, SafeToSend, MessageTypes, NoneIsRelay
    <3>6. q \in asked
      BY <3>2 DEF SyncInv, MembershipConsistent, InRoom
    <3> HIDE DEF u
    <3>7. View(q)' = View(q)
      BY <2>7, <3>2, ViewStays DEF CallOf
    <3>8. QED
      BY <1>2, <2>7, <3>1, <3>2, <3>4, <3>5, <3>6, <3>7, MemberRight
  <2>11. CASE q # p /\ ~(q \in M /\ Live(q))
    <3>1. out'[q] = out[q]
      BY <2>2, <2>5, <2>6, <2>11
    <3>2. wsRoom'[q] = wsRoom[q] /\ wsRoom[q] \in RoomIds \cup {NoRoom}
      BY <2>7, <2>11 DEF SyncInv, TypeOK
    <3>3. InRoom(q)' => InRoom(q) /\ wsRoom[q] \in RoomIds /\ wsRoom[q] # r
      BY <1>4, <2>8, <2>11, <3>2 DEF InRoom
    <3>4. QED
      BY <1>1, <1>2, <2>7, <3>1, <3>2, <3>3, NothingSeen
  <2>12. QED
    BY <2>9, <2>10, <2>11
<1>7. QED
  BY <1>5, <1>6 DEF Join

(* What a leaver's room is sent. *)
LEMMA LeaveReads ==
    ASSUME SyncInv, NEW p \in Peers, wsRoom[p] \in RoomIds, wsRoom[p] \in rooms, NEW q \in Peers
    PROVE  LET r == wsRoom[p]
               called == IF p \in callPeers[r] /\ q \in roomPeers[r] /\ Live(q)
                         THEN Append(out[q], CallPeersMsg(callPeers[r] \ {p})) ELSE out[q]
           IN  /\ called \in Seq(Message)
               /\ NoStranger(peers[q], called)
               /\ LeaveCallSends(out, p, r)[q] = called
               /\ LeaveSends(p, r)[q] = IF q \in roomPeers[r] \ {p} /\ Live(q)
                                        THEN Append(called, PeerLeftMsg(p)) ELSE called
<1> DEFINE r == wsRoom[p]
<1> DEFINE D == callPeers[r] \ {p}
<1> DEFINE posted == LeaveCallSends(out, p, r)
<1> DEFINE called == IF p \in callPeers[r] /\ q \in roomPeers[r] /\ Live(q)
                     THEN Append(out[q], CallPeersMsg(D)) ELSE out[q]
<1>1. /\ out \in [Peers -> Seq(Message)] /\ out[q] \in Seq(Message)
      /\ D \in SUBSET Peers
      /\ NoStranger(peers[q], out[q])
  BY DEF SyncInv, TypeOK, SyncFor
<1>2. CallPeersMsg(D) \in Message /\ CallPeersMsg(D).type # "relay"
  BY <1>1, MessageTypes, NoneIsRelay
<1>3. posted \in [Peers -> Seq(Message)]
  BY SendsType DEF SyncInv
<1>4. posted[q] = called
  BY <1>1, PostReads DEF LeaveCallSends
<1>5. called \in Seq(Message) /\ NoStranger(peers[q], called)
  <2>1. posted[q] \in Seq(Message)
    BY <1>3
  <2>2. NoStranger(peers[q], Append(out[q], CallPeersMsg(D)))
    BY <1>1, <1>2, SafeToSend
  <2>3. QED
    BY <1>1, <1>4, <2>1, <2>2
<1> HIDE DEF posted, called
<1>6. LeaveSends(p, r)[q] = IF q \in roomPeers[r] \ {p} /\ Live(q)
                            THEN Append(posted[q], PeerLeftMsg(p)) ELSE posted[q]
  BY <1>3, PostReads DEF LeaveSends, posted
<1>7. QED
  BY <1>4, <1>5, <1>6 DEF called, posted

(* handleLeave, as another client sees it. *)
LEMMA OthersSeeLeave ==
    ASSUME SyncInv, ServerSeen, NEW p \in Peers, DoLeave(p), NEW q \in Peers \ {p},
           out'[q] = LeaveSends(p, wsRoom[p])[q],
           conn'[q] = conn[q], silent' = silent, asked' = asked
    PROVE  SyncFor(q)'
<1> DEFINE r == wsRoom[p]
<1>1. SyncFor(q) /\ out[q] \in Seq(Message) /\ wsRoom'[q] = wsRoom[q] /\ (Live(q)' <=> Live(q))
  BY DEF SyncInv, TypeOK, DoLeave, Live
<1>2. CASE r \notin rooms
  <2>1. out'[q] = out[q] /\ roomPeers' = roomPeers /\ callPeers' = callPeers
    BY <1>2 DEF LeaveSends, DoLeave, roomVars
  <2>2. QED
    BY <1>1, <2>1, NothingSeen DEF InRoom
<1>3. CASE r \in rooms
  <2> DEFINE M == roomPeers[r]
  <2> DEFINE C == callPeers[r]
  <2>1. r \in RoomIds /\ M \in SUBSET Peers /\ C \in SUBSET Peers
    BY <1>3 DEF SyncInv, TypeOK
  <2>2. /\ roomPeers'[r] = M \ {p} /\ callPeers'[r] = C \ {p}
        /\ \A s \in RoomIds : s # r => roomPeers'[s] = roomPeers[s] /\ callPeers'[s] = callPeers[s]
    BY <1>3, <2>1 DEF DoLeave, SyncInv, TypeOK
  <2>3. q \in M <=> wsRoom[q] = r
    BY <2>1 DEF SyncInv, MembershipConsistent
  <2>4. CASE q \in M /\ Live(q)
    <3> DEFINE u == IF p \in C THEN Append(out[q], CallPeersMsg(C \ {p})) ELSE out[q]
    <3>1. u \in Seq(Message) /\ NoStranger(peers[q], u) /\ out'[q] = Append(u, PeerLeftMsg(p))
      BY <1>3, <2>1, <2>4, LeaveReads
    <3>2. InRoom(q) /\ q \in asked /\ wsRoom[q] = r
      BY <2>1, <2>3, <2>4, NoRoomAssumption DEF InRoom, SyncInv, MembershipConsistent
    <3>3. Right(peers[q], View(q), out[q], M, C, q)
      BY <1>1, <3>2 DEF SyncFor, RightFor
    <3>4. Right(peers[q], View(q)', u, M, C \ {p}, q)
      <4>1. CASE p \in C
        BY <1>1, <2>1, <3>3, <4>1, CallRight
      <4>2. CASE p \notin C
        <5>1. C \ {p} = C
          BY <4>2
        <5>2. CallOf(q)' = CallOf(q)
          BY <1>1, <2>2, <3>2, <5>1 DEF CallOf
        <5>3. View(q)' = View(q)
          BY <5>2, ViewStays
        <5>4. QED
          BY <3>3, <4>2, <5>1, <5>3
      <4>3. QED
        BY <4>1, <4>2
    <3> HIDE DEF u
    <3> DEFINE v == Append(u, PeerLeftMsg(p))
    <3>5. Right(peers[q], View(q)', v, M \ {p}, C \ {p}, q)
      BY <3>1, <3>4, LeftRight
    <3>6. NoStranger(peers[q], v)
      BY <3>1, MessageTypes, NoneIsRelay, SafeToSend
    <3> HIDE DEF v
    <3>7. out'[q] = v
      BY <3>1 DEF v
    <3>8. QED
      BY <1>1, <2>2, <3>2, <3>5, <3>6, <3>7, MemberRight
  <2>5. CASE ~(q \in M /\ Live(q))
    <3>1. out'[q] = out[q]
      BY <1>3, <2>1, <2>5, LeaveReads
    <3>2. InRoom(q)' => InRoom(q) /\ wsRoom[q] \in RoomIds /\ wsRoom[q] # r
      BY <1>1, <2>3, <2>5 DEF InRoom, SyncInv, TypeOK
    <3>3. QED
      BY <1>1, <2>2, <3>1, <3>2, NothingSeen
  <2>6. QED
    BY <2>4, <2>5
<1>4. QED
  BY <1>2, <1>3

(* A leave message. *)
LEMMA LeaveSync ==
    ASSUME SyncInv, ServerSeen, NEW p \in Peers, Leave(p), NEW q \in Peers
    PROVE  SyncFor(q)'
<1>1. /\ DoLeave(p) /\ out' = LeaveSends(p, wsRoom[p])
      /\ UNCHANGED <<conn, silent, asked>>
  BY DEF Leave
<1>2. CASE q # p
  BY <1>1, <1>2, OthersSeeLeave
<1>3. CASE q = p
  <2>1. ~InRoom(p)' /\ SyncFor(p)
    BY <1>1 DEF InRoom, DoLeave, SyncInv, TypeOK
  <2>2. CASE wsRoom[p] \in rooms
    <3>1. wsRoom[p] \in RoomIds /\ p \in asked
      BY <2>2, NoRoomAssumption DEF SyncInv, TypeOK, MembershipConsistent
    <3>2. NoStranger(peers[p], out'[p])
      BY <1>1, <2>2, <3>1, LeaveReads
    <3>3. FreshFor(p)'
      BY <1>1, <3>1 DEF FreshFor
    <3>4. QED
      BY <1>3, <2>1, <3>2, <3>3, NotInRoom
  <2>3. CASE wsRoom[p] \notin rooms
    <3>1. out' = out
      BY <1>1, <2>3 DEF LeaveSends
    <3>2. QED
      BY <1>1, <1>3, <2>1, <3>1, NothingSeen
  <2>4. QED
    BY <2>2, <2>3
<1>4. QED
  BY <1>2, <1>3

(* A close event: the client's own channel is gone with its socket. *)
LEMMA CloseSync ==
    ASSUME SyncInv, ServerSeen, NEW p \in Peers, Close(p), NEW q \in Peers
    PROVE  SyncFor(q)'
<1>1. /\ DoLeave(p) /\ silent' = silent /\ asked' = asked
      /\ conn' = [conn EXCEPT ![p] = "closed"]
      /\ out' = [LeaveSends(p, wsRoom[p]) EXCEPT ![p] = <<>>]
  BY DEF Close
<1>2. LeaveSends(p, wsRoom[p]) \in [Peers -> Seq(Message)]
  BY LeaveSendsType DEF SyncInv, TypeOK
<1>3. CASE q # p
  <2>1. conn'[q] = conn[q] /\ out'[q] = LeaveSends(p, wsRoom[p])[q]
    BY <1>1, <1>2, <1>3 DEF SyncInv, TypeOK
  <2>2. QED
    BY <1>1, <1>3, <2>1, OthersSeeLeave
<1>4. CASE q = p
  <2>1. out'[p] = <<>> /\ ~InRoom(p)'
    BY <1>1, <1>2 DEF InRoom, Live, SyncInv, TypeOK
  <2>2. FreshFor(p)'
    <3>1. NoCalls(out'[p])
      BY <2>1 DEF NoCalls
    <3>2. QED
      BY <1>1, <3>1, StillFresh
  <2>3. NoStranger(peers[p], out'[p])
    BY <2>1 DEF NoStranger
  <2>4. QED
    BY <1>4, <2>1, <2>2, <2>3, NotInRoom
<1>5. QED
  BY <1>3, <1>4

(* A call list sent to a client of the room whose call it is. *)
LEMMA CallSeen ==
    ASSUME SyncInv, ServerSeen, NEW q \in Peers, InRoom(q), NEW D \in SUBSET Peers,
           out'[q] = Append(out[q], CallPeersMsg(D)),
           UNCHANGED <<conn, silent, asked, wsRoom, roomPeers>>,
           callPeers'[wsRoom[q]] \ {q} = D \ {q}, D # {} => callPeers'[wsRoom[q]] # {}
    PROVE  SyncFor(q)'
<1> DEFINE u == Append(out[q], CallPeersMsg(D))
<1>1. /\ out[q] \in Seq(Message) /\ NoStranger(peers[q], out[q]) /\ q \in asked
      /\ Right(peers[q], View(q), out[q], roomPeers[wsRoom[q]], callPeers[wsRoom[q]], q)
  BY DEF SyncInv, TypeOK, SyncFor, RightFor, MembershipConsistent, InRoom
<1>2. Right(peers[q], View(q)', u, roomPeers[wsRoom[q]], callPeers'[wsRoom[q]], q)
  BY <1>1, CallRight
<1>3. NoStranger(peers[q], u)
  BY <1>1, SafeToSend, MessageTypes, NoneIsRelay
<1> HIDE DEF u
<1>4. out'[q] = u
  BY DEF u
<1>5. QED
  BY <1>1, <1>2, <1>3, <1>4, MemberRight

(* A client is sent a relay or an error, which changes nothing of its room. *)
LEMMA OtherSeen ==
    ASSUME SyncInv, ServerSeen, NEW q \in Peers, NEW m \in Message,
           m.type = "error" \/ (m.type = "relay" /\ Known(peers[q], out[q], m.peer)),
           out'[q] = Append(out[q], m),
           UNCHANGED <<conn, silent, asked, wsRoom, roomPeers, callPeers>>
    PROVE  SyncFor(q)'
<1> DEFINE u == Append(out[q], m)
<1>1. out[q] \in Seq(Message) /\ SyncFor(q)
  BY DEF SyncInv, TypeOK
<1>2. NoStranger(peers[q], u)
  BY <1>1, AppendReads DEF SyncFor
<1>3. NoCalls(out[q]) => NoCalls(u)
  BY <1>1, AppendReads
<1>4. InRoom(q) => Right(peers[q], View(q), u, roomPeers[wsRoom[q]], callPeers[wsRoom[q]], q)
  BY <1>1, OtherRight DEF SyncFor, RightFor
<1> HIDE DEF u
<1>5. out'[q] = u
  BY DEF u
<1>6. View(q)' = View(q)
  BY ViewStays DEF CallOf
<1>7. RightFor(q)'
  BY <1>4, <1>5, <1>6 DEF RightFor, InRoom, Live, ServerSeen
<1>8. FreshFor(q)'
  BY <1>3, <1>5, StillFresh
<1>9. QED
  BY <1>2, <1>5, <1>7, <1>8 DEF SyncFor, ServerSeen

(* A joiner of the call: the others are sent the list with it, the joiner the others. *)
LEMMA JoinCallSync ==
    ASSUME SyncInv, ServerSeen, NEW p \in Peers, JoinCall(p), NEW q \in Peers
    PROVE  SyncFor(q)'
<1> DEFINE r == wsRoom[p]
<1>1. /\ UNCHANGED <<conn, silent, asked, wsRoom, roomPeers>> /\ Live(p)
      /\ out \in [Peers -> Seq(Message)] /\ out[q] \in Seq(Message)
      /\ SyncFor(q) /\ (Live(q)' <=> Live(q))
  BY DEF JoinCall, Request, SyncInv, TypeOK, Live
<1>2. ASSUME NEW c \in ErrorCodes, out' = Post(out, {p}, ErrorMsg(c)), UNCHANGED callPeers
      PROVE  SyncFor(q)'
  <2>1. ErrorMsg(c) \in Message /\ ErrorMsg(c).type = "error"
    BY MessageTypes, NoneIsRelay
  <2>2. CASE q # p
    <3>1. out'[q] = out[q]
      BY <1>1, <1>2, <2>2, PostReads
    <3>2. QED
      BY <1>1, <1>2, <3>1, NothingSeen DEF InRoom
  <2>3. CASE q = p
    <3>1. out'[q] = Append(out[q], ErrorMsg(c))
      BY <1>1, <1>2, <2>3, PostReads
    <3>2. QED
      BY <1>1, <1>2, <2>1, <3>1, OtherSeen
  <2>4. QED
    BY <2>2, <2>3
<1>3. CASE /\ Routable(r, p)
           /\ callPeers' = [callPeers EXCEPT ![r] = @ \cup {p}]
           /\ out' = JoinCallSends(p, r)
  <2> DEFINE M == roomPeers[r]
  <2> DEFINE D == callPeers[r] \cup {p}
  <2> DEFINE a == Post(out, M \ {p}, CallPeersMsg(D))
  <2>1. r \in RoomIds /\ p \in M
    BY <1>3 DEF Routable, SyncInv, TypeOK
  <2>2. /\ M \in SUBSET Peers /\ D \in SUBSET Peers /\ D \ {p} \in SUBSET Peers
        /\ callPeers'[r] = D
        /\ \A s \in RoomIds : s # r => callPeers'[s] = callPeers[s]
    BY <1>3, <2>1 DEF SyncInv, TypeOK
  <2>3. q \in M <=> wsRoom[q] = r
    BY <2>1 DEF SyncInv, MembershipConsistent
  <2>4. a \in [Peers -> Seq(Message)]
    BY <1>1, <2>2, PostType, MessageTypes
  <2>5. a[q] = IF q \in M \ {p} /\ Live(q) THEN Append(out[q], CallPeersMsg(D)) ELSE out[q]
    BY <1>1, PostReads, SMTT(30)
  <2>6. out' = Post(a, {p}, CallPeersMsg(D \ {p}))
    BY <1>3 DEF JoinCallSends
  <2> HIDE DEF a
  <2>7. out'[q] = IF q = p THEN Append(a[q], CallPeersMsg(D \ {p})) ELSE a[q]
    BY <1>1, <2>4, <2>6, PostReads, ZenonT(60)
  <2>8. CASE q \in M /\ Live(q)
    <3>1. InRoom(q) /\ wsRoom[q] = r
      BY <2>1, <2>3, <2>8, NoRoomAssumption DEF InRoom
    <3>2. CASE q = p
      <4>1. out'[q] = Append(out[q], CallPeersMsg(D \ {p}))
        BY <2>5, <2>7, <3>2
      <4>2. callPeers'[wsRoom[q]] \ {q} = (D \ {p}) \ {q}
        BY <2>2, <3>1, <3>2
      <4>3. callPeers'[wsRoom[q]] # {}
        BY <2>2, <3>1
      <4> HIDE DEF D
      <4>4. QED
        BY <1>1, <2>2, <3>1, <4>1, <4>2, <4>3, CallSeen
    <3>3. CASE q # p
      BY <1>1, <2>2, <2>5, <2>7, <2>8, <3>1, <3>3, CallSeen
    <3>4. QED
      BY <3>2, <3>3
  <2>9. CASE ~(q \in M /\ Live(q))
    <3>1. out'[q] = out[q]
      BY <1>1, <2>1, <2>5, <2>7, <2>9
    <3>2. InRoom(q)' => InRoom(q) /\ wsRoom[q] \in RoomIds /\ wsRoom[q] # r
      BY <1>1, <2>3, <2>9 DEF InRoom, SyncInv, TypeOK
    <3>3. QED
      BY <1>1, <2>2, <3>1, <3>2, NothingSeen
  <2>10. QED
    BY <2>8, <2>9
<1>4. QED
  BY <1>2, <1>3 DEF JoinCall, ErrorCodes

(* A leaver of the call: the whole room is sent the list without it. *)
LEMMA LeaveCallSync ==
    ASSUME SyncInv, ServerSeen, NEW p \in Peers, LeaveCall(p), NEW q \in Peers
    PROVE  SyncFor(q)'
<1> DEFINE r == wsRoom[p]
<1> DEFINE M == roomPeers[r]
<1> DEFINE D == callPeers[r] \ {p}
<1>1. /\ UNCHANGED <<conn, silent, asked, wsRoom, roomPeers>>
      /\ r \in RoomIds /\ p \in callPeers[r]
      /\ out \in [Peers -> Seq(Message)]
      /\ SyncFor(q) /\ (Live(q)' <=> Live(q))
      /\ out' = Post(out, M, CallPeersMsg(D))
  BY DEF LeaveCall, LeaveCallSends, SyncInv, TypeOK, Live
<1>2. /\ D \in SUBSET Peers /\ callPeers'[r] = D
      /\ \A s \in RoomIds : s # r => callPeers'[s] = callPeers[s]
  BY <1>1 DEF LeaveCall, SyncInv, TypeOK
<1>3. q \in M <=> wsRoom[q] = r
  BY <1>1 DEF SyncInv, MembershipConsistent
<1>4. out'[q] = IF q \in M /\ Live(q) THEN Append(out[q], CallPeersMsg(D)) ELSE out[q]
  BY <1>1, PostReads
<1>5. CASE q \in M /\ Live(q)
  <2>1. InRoom(q) /\ wsRoom[q] = r
    BY <1>1, <1>3, <1>5, NoRoomAssumption DEF InRoom
  <2>2. QED
    BY <1>1, <1>2, <1>4, <1>5, <2>1, CallSeen
<1>6. CASE ~(q \in M /\ Live(q))
  <2>1. InRoom(q)' => InRoom(q) /\ wsRoom[q] \in RoomIds /\ wsRoom[q] # r
    BY <1>1, <1>3, <1>6 DEF InRoom, SyncInv, TypeOK
  <2>2. QED
    BY <1>1, <1>2, <1>4, <1>6, <2>1, NothingSeen
<1>7. QED
  BY <1>5, <1>6

(***************************************************************************)
(* A relay goes to a member of the sender's room, who has been told of the *)
(* sender; a sender in no room is told so.                                 *)
(***************************************************************************)
LEMMA RelaySync ==
    ASSUME SyncInv, ServerSeen, NEW p \in Peers, NEW to \in Peers \ {p}, Relay(p, to),
           NEW q \in Peers
    PROVE  SyncFor(q)'
<1> DEFINE r == wsRoom[p]
<1>1. /\ UNCHANGED <<conn, silent, asked, wsRoom, roomPeers, callPeers>>
      /\ out \in [Peers -> Seq(Message)] /\ out[q] \in Seq(Message)
      /\ SyncFor(q)
  BY DEF Relay, SyncInv, TypeOK
<1>2. ASSUME NEW x \in Peers, NEW m \in Message, out' = Post(out, {x}, m),
             m.type = "error" \/ (m.type = "relay" /\ (x = q /\ Live(q) => Known(peers[q], out[q], m.peer)))
      PROVE  SyncFor(q)'
  <2>1. CASE q = x /\ Live(q)
    <3>1. out'[q] = Append(out[q], m)
      BY <1>1, <1>2, <2>1, PostReads
    <3>2. QED
      BY <1>1, <1>2, <2>1, <3>1, OtherSeen
  <2>2. CASE ~(q = x /\ Live(q))
    <3>1. out'[q] = out[q]
      BY <1>1, <1>2, <2>2, PostReads
    <3>2. QED
      BY <1>1, <3>1, NothingSeen DEF InRoom, Live
  <2>3. QED
    BY <2>1, <2>2
<1>3. CASE r = NoRoom /\ out' = Post(out, {p}, ErrorMsg("NOT_IN_ROOM"))
  <2>1. ErrorMsg("NOT_IN_ROOM") \in Message /\ ErrorMsg("NOT_IN_ROOM").type = "error"
    BY MessageTypes, NoneIsRelay DEF ErrorCodes
  <2>2. QED
    BY <1>2, <1>3, <2>1
<1>4. CASE r # NoRoom /\ Routable(r, to) /\ out' = Post(out, {to}, RelayMsg(p))
  <2>1. RelayMsg(p) \in Message /\ RelayMsg(p).type = "relay" /\ RelayMsg(p).peer = p
    BY MessageTypes DEF RelayMsg
  <2>2. r \in RoomIds /\ wsRoom[to] = r /\ p \in roomPeers[r]
    BY <1>4 DEF Routable, SyncInv, TypeOK, MembershipConsistent
  <2>3. to = q /\ Live(q) => Known(peers[q], out[q], p)
    <3>1. to = q /\ Live(q) => InRoom(q) /\ wsRoom[q] = r
      BY <2>2, NoRoomAssumption DEF InRoom
    <3>2. to = q /\ Live(q) => Right(peers[q], View(q), out[q], roomPeers[r], callPeers[r], q)
      BY <1>1, <3>1 DEF SyncFor, RightFor
    <3>3. QED
      BY <2>2, <3>2 DEF Right
  <2>4. QED
    BY <1>2, <1>4, <2>1, <2>3
<1>5. QED
  BY <1>3, <1>4 DEF Relay

(* A socket that opens, falls silent or is given up is in no room that is looked at. *)
LEMMA SocketSync ==
    ASSUME SyncInv, ServerSeen, NEW p \in Peers, NEW q \in Peers,
           Open(p) \/ HeartbeatTimeout(p) \/ FallSilent(p)
    PROVE  SyncFor(q)'
<1>1. /\ UNCHANGED <<asked, wsRoom, roomPeers, callPeers>>
      /\ SyncFor(q)
  BY DEF Open, HeartbeatTimeout, FallSilent, SyncInv
<1>2. CASE out'[q] = out[q]
  <2>1. InRoom(q)' => InRoom(q)
    BY DEF Open, HeartbeatTimeout, FallSilent, InRoom, Live, SyncInv, TypeOK, MembershipConsistent
  <2>2. QED
    BY <1>1, <1>2, <2>1, NothingSeen
<1>3. CASE q = p /\ FallSilent(p)
  <2>1. out'[q] = <<>> /\ ~InRoom(q)'
    BY <1>3 DEF FallSilent, InRoom, Live, SyncInv, TypeOK
  <2>2. NoCalls(out'[q]) /\ NoStranger(peers[q], out'[q])
    BY <2>1 DEF NoCalls, NoStranger
  <2>3. FreshFor(q)'
    BY <1>1, <2>2, StillFresh
  <2>4. QED
    BY <2>1, <2>2, <2>3, NotInRoom
<1>4. QED
  BY <1>2, <1>3 DEF Open, HeartbeatTimeout, FallSilent, SyncInv, TypeOK

(* Whatever the server does to the socket p, every client's future view stays right. *)
LEMMA ServerSync ==
    ASSUME SyncInv, ServerSeen, NEW p \in Peers, ServerStep(p), NEW q \in Peers
    PROVE  SyncFor(q)'
  BY SocketSync, JoinSync, LeaveSync, JoinCallSync, LeaveCallSync, RelaySync, CloseSync DEF ServerStep

(* A client reads its next message. *)
LEMMA ReceiveSync ==
    ASSUME SyncInv, NEW p \in Peers, Receive(p), NEW q \in Peers
    PROVE  SyncFor(q)'
<1> DEFINE m == Head(out[p])
<1>1. /\ UNCHANGED <<conn, silent, asked, wsRoom, roomPeers, callPeers>>
      /\ out[p] # <<>> /\ out[p] \in Seq(Message)
      /\ out' = [out EXCEPT ![p] = Tail(@)]
      /\ peers' = [peers EXCEPT ![p] = PeersAfter(@, m)]
      /\ listed' = [listed EXCEPT ![p] = ListedAfter(@, m)]
      /\ active' = WithActive(p, ActiveAfter(p \in active, m))
      /\ reset' = [reset EXCEPT ![p] = IF m.type = "call-peers" THEN {} ELSE @]
      /\ SyncFor(q)
  BY DEF Receive, Deliver, SyncInv, TypeOK
<1>2. CASE q = p
  <2>1. /\ out'[p] = Tail(out[p]) /\ peers'[p] = PeersAfter(peers[p], m)
        /\ listed'[p] = ListedAfter(listed[p], m)
        /\ reset'[p] = IF m.type = "call-peers" THEN {} ELSE reset[p]
    BY <1>1 DEF SyncInv, TypeOK, SyncTypeOK
  <2>2. p \in active' <=> ActiveAfter(p \in active, m)
    BY <1>1 DEF WithActive
  <2>3. /\ \A x : Known(peers'[p], out'[p], x) <=> Known(peers[p], out[p], x)
        /\ \A x : ListedIn(listed'[p], out'[p], x) <=> ListedIn(listed[p], out[p], x)
        /\ NoStranger(peers[p], out[p]) => NoStranger(peers'[p], out'[p])
        /\ NoCalls(out[p]) <=> NoCalls(out'[p]) /\ m.type # "call-peers"
    <3> DEFINE S == peers[p]
    <3> DEFINE L == listed[p]
    <3> DEFINE s == out[p]
    <3>1. s \in Seq(Message) /\ s # <<>>
      BY <1>1
    <3> HIDE DEF S, L, s
    <3>2. /\ \A x : Known(PeersAfter(S, Head(s)), Tail(s), x) <=> Known(S, s, x)
          /\ \A x : ListedIn(ListedAfter(L, Head(s)), Tail(s), x) <=> ListedIn(L, s, x)
          /\ NoStranger(S, s) => NoStranger(PeersAfter(S, Head(s)), Tail(s))
          /\ NoCalls(s) <=> NoCalls(Tail(s)) /\ Head(s).type # "call-peers"
      BY <3>1, TailReads
    <3>3. QED
      BY <2>1, <3>2 DEF S, L, s
  <2>4. ActiveIn(active', out'[p], p) <=> ActiveIn(active, out[p], p)
    <3> DEFINE s == out[p]
    <3>1. s \in Seq(Message) /\ s # <<>> /\ (p \in active' <=> ActiveAfter(p \in active, Head(s)))
      BY <1>1, <2>2
    <3> HIDE DEF s
    <3>2. ActiveIn(active', Tail(s), p) <=> ActiveIn(active, s, p)
      BY <3>1, TailShown
    <3>3. QED
      BY <2>1, <3>2 DEF s
  <2>5. ~NoCalls(out'[p]) \/ m.type = "call-peers" => ~NoCalls(out[p])
    BY <2>3
  <2> HIDE DEF m
  <2>6. RightFor(p)'
    <3>1. SUFFICES ASSUME InRoom(p)'
                   PROVE  Right(peers'[p], View(p)', out'[p], roomPeers[wsRoom[p]], callPeers[wsRoom[p]], p)
      BY <1>1 DEF RightFor
    <3>2. Right(peers[p], View(p), out[p], roomPeers[wsRoom[p]], callPeers[wsRoom[p]], p)
      BY <1>1, <1>2, <3>1 DEF SyncFor, RightFor, InRoom, Live
    <3>3. CallsRight(View(p)', out'[p], callPeers[wsRoom[p]], p)
      BY <2>1, <2>3, <2>4, <2>5, <3>2 DEF Right, CallsRight, View
    <3>4. QED
      BY <2>3, <3>2, <3>3 DEF Right
  <2>7. FreshFor(p)'
    <3>1. SUFFICES ASSUME p \notin asked PROVE Blank(View(p)', p) /\ NoCalls(out'[p])
      BY <1>1 DEF FreshFor
    <3>2. Blank(View(p), p) /\ NoCalls(out[p])
      BY <1>1, <1>2, <3>1 DEF SyncFor, FreshFor
    <3>3. QED
      BY <2>1, <2>2, <2>3, <3>2 DEF Blank, View, ListedAfter, ActiveAfter
  <2>8. QED
    BY <1>1, <1>2, <2>3, <2>6, <2>7 DEF SyncFor
<1>3. CASE q # p
  <2>1. /\ out'[q] = out[q] /\ peers'[q] = peers[q] /\ listed'[q] = listed[q] /\ reset'[q] = reset[q]
        /\ q \in active' <=> q \in active
    BY <1>1, <1>3 DEF SyncInv, TypeOK, SyncTypeOK, WithActive
  <2>2. QED
    BY <1>1, <2>1, ViewKept DEF InRoom, Live
<1>4. QED
  BY <1>2, <1>3

(* What its user does changes a client's own view only, and its reset says so. *)
LEMMA ClientSync ==
    ASSUME SyncInv, NEW p \in Peers, ClientStep(p), NEW q \in Peers
    PROVE  SyncFor(q)'
<1>1. /\ UNCHANGED <<conn, silent, asked, wsRoom, roomPeers, callPeers, out, peers>>
      /\ SyncFor(q)
  BY DEF ClientStep, SwitchToCall, MediaAcquired, CallFails, Hangup, DismissError, LateClose,
         ClientOnly, SyncInv
<1>2. /\ listed \in [Peers -> SUBSET Peers]
      /\ reset \in [Peers -> SUBSET {"callPeers", "callActive"}]
  BY DEF SyncInv, SyncTypeOK
<1>3. /\ reset[q] \subseteq reset'[q]
      /\ listed'[q] = listed[q] \/ "callPeers" \in reset'[q]
      /\ (q \in active' <=> q \in active) \/ "callActive" \in reset'[q]
  <2>1. CASE SwitchToCall(p) \/ MediaAcquired(p) \/ CallFails(p)
    BY <2>1 DEF SwitchToCall, MediaAcquired, CallFails
  <2>2. CASE Hangup(p)
    BY <1>2, <2>2 DEF Hangup, Blanks, Hides
  <2>3. CASE DismissError(p)
    BY <1>2, <2>3 DEF DismissError, Blanks
  <2>4. CASE LateClose(p)
    BY <1>2, <2>4 DEF LateClose, Hides
  <2>5. QED
    BY <2>1, <2>2, <2>3, <2>4 DEF ClientStep
<1>4. QED
  BY <1>1, <1>3, ViewKept DEF InRoom, Live

(* A client goes on with a new socket: what it takes along is in its reset. *)
LEMMA ResumeSync ==
    ASSUME SyncInv, NEW p \in Peers, NEW l \in Peers \ {p}, NEW how \in Losses, Resume(p, l, how),
           NEW q \in Peers
    PROVE  SyncFor(q)'
<1> DEFINE kept == IF how = "cleared" THEN {} ELSE listed[l]
<1> DEFINE shown == how = "kept" /\ l \in active
<1>1. /\ UNCHANGED <<silent, asked, wsRoom, roomPeers, callPeers, out>>
      /\ conn[p] = "new" /\ conn' = [conn EXCEPT ![p] = "open"]
      /\ ~Live(l)
      /\ peers' = [peers EXCEPT ![p] = peers[l]]
      /\ listed' = [listed EXCEPT ![p] = kept, ![l] = {}]
      /\ active' = (active \ {l}) \cup (IF shown THEN {p} ELSE {})
      /\ reset' = [reset EXCEPT ![p] = (IF kept # {} THEN {"callPeers"} ELSE {})
                                           \cup (IF shown THEN {"callActive"} ELSE {}),
                                ![l] = {}]
      /\ SyncFor(q)
  BY DEF Resume, Open, SyncInv
<1>2. /\ conn \in [Peers -> {"new", "open", "closing", "closed"}]
      /\ peers \in [Peers -> SUBSET Peers]
      /\ listed \in [Peers -> SUBSET Peers]
      /\ reset \in [Peers -> SUBSET {"callPeers", "callActive"}]
  BY DEF SyncInv, TypeOK, SyncTypeOK
<1>3. CASE q = p
  <2>1. ~InRoom(p)'
    BY <1>1 DEF InRoom, SyncInv, MembershipConsistent
  <2>2. out'[p] = <<>> /\ p \notin active
    BY <1>1 DEF SyncInv, NewBlank
  <2>3. NoCalls(out'[p]) /\ NoStranger(peers'[p], out'[p])
    BY <2>2 DEF NoCalls, NoStranger
  <2> HIDE DEF kept, shown
  <2>4. /\ listed'[p] = kept
        /\ kept # {} => "callPeers" \in reset'[p]
        /\ shown => "callActive" \in reset'[p]
        /\ p \in active' => shown
    BY <1>1, <1>2, <2>2
  <2>5. Blank(View(p)', p)
    BY <2>4 DEF Blank, View
  <2>6. QED
    BY <1>3, <2>1, <2>3, <2>5 DEF SyncFor, RightFor, FreshFor
<1>4. CASE q = l
  <2>1. ~InRoom(l)'
    BY <1>1, <1>2 DEF InRoom, Live
  <2>2. listed'[l] = {} /\ l \notin active' /\ peers'[l] = peers[l]
    BY <1>1, <1>2
  <2>3. Blank(View(l)', l)
    BY <2>2 DEF Blank, View
  <2>4. QED
    BY <1>1, <1>4, <2>1, <2>2, <2>3 DEF SyncFor, RightFor, FreshFor
<1>5. CASE q # p /\ q # l
  <2>1. /\ listed'[q] = listed[q] /\ reset'[q] = reset[q] /\ peers'[q] = peers[q] /\ conn'[q] = conn[q]
        /\ q \in active' <=> q \in active
    BY <1>1, <1>2, <1>5
  <2>2. QED
    BY <1>1, <2>1, ViewKept DEF InRoom, Live
<1>6. QED
  BY <1>3, <1>4, <1>5

-----------------------------------------------------------------------------
(* The types, and the sockets that are not open yet.                       *)

(* A client's own steps and what it reads keep its view typed. *)
LEMMA ClientTyped ==
    ASSUME TypeOK, SyncTypeOK, NEW p \in Peers, Receive(p) \/ ClientStep(p)
    PROVE  SyncTypeOK'
<1>1. /\ peers \in [Peers -> SUBSET Peers]
      /\ listed \in [Peers -> SUBSET Peers]
      /\ active \in SUBSET Peers
      /\ screen \in [Peers -> {"none", "idle", "acquiring", "call", "error"}]
      /\ sent \in [Peers -> Seq({"join-call", "leave-call"})]
      /\ late \in SUBSET Peers
      /\ reset \in [Peers -> SUBSET {"callPeers", "callActive"}]
  BY DEF SyncTypeOK
<1>2. Append(sent[p], "join-call") \in Seq({"join-call", "leave-call"})
      /\ Append(sent[p], "leave-call") \in Seq({"join-call", "leave-call"})
  BY <1>1, AppendProperties
<1>3. CleanUp(p) => sent' \in [Peers -> Seq({"join-call", "leave-call"})]
  BY <1>1, <1>2 DEF CleanUp
<1>4. ShowError(p) => /\ screen' \in [Peers -> {"none", "idle", "acquiring", "call", "error"}]
                      /\ sent' \in [Peers -> Seq({"join-call", "leave-call"})]
  BY <1>1, <1>3 DEF ShowError
<1>5. CASE Receive(p)
  <2> DEFINE m == Head(out[p])
  <2>1. /\ out[p] \in Seq(Message) /\ out[p] # <<>>
        /\ peers' = [peers EXCEPT ![p] = PeersAfter(@, m)]
        /\ listed' = [listed EXCEPT ![p] = ListedAfter(@, m)]
        /\ active' = WithActive(p, ActiveAfter(p \in active, m))
        /\ reset' = [reset EXCEPT ![p] = IF m.type = "call-peers" THEN {} ELSE @]
        /\ late' = late
        /\ ShowError(p) \/ UNCHANGED <<screen, sent>>
    BY <1>5 DEF Receive, Deliver, TypeOK
  <2>2. m \in Message
    BY <2>1, HeadTailProperties
  <2> HIDE DEF m
  <2>3. /\ m.type \in {"peers-list", "call-peers"} => m.peers \in SUBSET Peers
        /\ m.type = "peer-joined" => m.peer \in Peers
    BY <2>2 DEF Message
  <2>4. PeersAfter(peers[p], m) \in SUBSET Peers /\ ListedAfter(listed[p], m) \in SUBSET Peers
    BY <1>1, <2>3 DEF PeersAfter, ListedAfter
  <2>5. peers' \in [Peers -> SUBSET Peers] /\ listed' \in [Peers -> SUBSET Peers]
    BY <1>1, <2>1, <2>4
  <2>6. active' \in SUBSET Peers /\ reset' \in [Peers -> SUBSET {"callPeers", "callActive"}]
    BY <1>1, <2>1 DEF WithActive
  <2>7. QED
    BY <1>1, <1>4, <2>1, <2>5, <2>6 DEF SyncTypeOK
<1>6. CASE SwitchToCall(p)
  BY <1>1, <1>6 DEF SwitchToCall, ClientOnly, SyncTypeOK
<1>7. CASE MediaAcquired(p)
  BY <1>1, <1>2, <1>7 DEF MediaAcquired, ClientOnly, SyncTypeOK
<1>8. CASE CallFails(p)
  BY <1>1, <1>4, <1>8 DEF CallFails, ClientOnly, SyncTypeOK
<1>9. CASE Hangup(p)
  BY <1>1, <1>3, <1>9 DEF Hangup, ClientOnly, Blanks, Hides, SyncTypeOK
<1>10. CASE DismissError(p)
  BY <1>1, <1>10 DEF DismissError, ClientOnly, Blanks, SyncTypeOK
<1>11. CASE LateClose(p)
  BY <1>1, <1>3, <1>11 DEF LateClose, ClientOnly, Hides, SyncTypeOK
<1>12. QED
  BY <1>5, <1>6, <1>7, <1>8, <1>9, <1>10, <1>11 DEF ClientStep

(* So does what the server does, and a client that gets a socket. *)
LEMMA ServerTyped ==
    ASSUME SyncTypeOK, NEW p \in Peers,
           \/ Handle(p)
           \/ ServerOnly(p)
           \/ Enter(p)
           \/ \E q \in Peers \ {p}, how \in Losses : Resume(p, q, how)
    PROVE  SyncTypeOK'
<1>1. /\ peers \in [Peers -> SUBSET Peers]
      /\ listed \in [Peers -> SUBSET Peers]
      /\ active \in SUBSET Peers
      /\ screen \in [Peers -> {"none", "idle", "acquiring", "call", "error"}]
      /\ sent \in [Peers -> Seq({"join-call", "leave-call"})]
      /\ late \in SUBSET Peers
      /\ reset \in [Peers -> SUBSET {"callPeers", "callActive"}]
  BY DEF SyncTypeOK
<1>2. CallNews => reset' \in [Peers -> SUBSET {"callPeers", "callActive"}]
  BY <1>1 DEF CallNews
<1>3. CASE Handle(p)
  <2>1. sent[p] # <<>> /\ sent' = [sent EXCEPT ![p] = Tail(@)]
    BY <1>3 DEF Handle
  <2>2. Tail(sent[p]) \in Seq({"join-call", "leave-call"})
    BY <1>1, <2>1, HeadTailProperties
  <2>3. QED
    BY <1>1, <1>2, <1>3, <2>1, <2>2 DEF Handle, SyncTypeOK
<1>4. CASE ServerOnly(p)
  <2>1. sent' = [q \in Peers |-> IF Live(q)' THEN sent[q] ELSE <<>>]
    BY <1>4 DEF ServerOnly
  <2>2. sent' \in [Peers -> Seq({"join-call", "leave-call"})]
    BY <1>1, <2>1
  <2>3. QED
    BY <1>1, <1>2, <1>4, <2>2 DEF ServerOnly, SyncTypeOK
<1>5. CASE Enter(p)
  BY <1>1, <1>5 DEF Enter, SyncTypeOK
<1>6. ASSUME NEW q \in Peers \ {p}, NEW how \in Losses, Resume(p, q, how) PROVE SyncTypeOK'
  <2>1. peers' \in [Peers -> SUBSET Peers] /\ late' \in SUBSET Peers /\ sent' = sent
    BY <1>1, <1>6 DEF Resume
  <2>2. listed' \in [Peers -> SUBSET Peers] /\ active' \in SUBSET Peers
    BY <1>1, <1>6 DEF Resume
  <2>3. screen' \in [Peers -> {"none", "idle", "acquiring", "call", "error"}]
    BY <1>1, <1>6 DEF Resume
  <2>4. reset' \in [Peers -> SUBSET {"callPeers", "callActive"}]
    BY <1>1, <1>6 DEF Resume
  <2>5. QED
    BY <1>1, <2>1, <2>2, <2>3, <2>4 DEF SyncTypeOK
<1>7. QED
  BY <1>3, <1>4, <1>5, <1>6

(* send() to a socket that is not open loses the message. *)
LEMMA PostMisses ==
    ASSUME NEW o, NEW S, NEW m, NEW q \in Peers, ~Live(q)
    PROVE  Post(o, S, m)[q] = o[q]
  BY DEF Post

(* The server sends nothing on a socket before it is open. *)
LEMMA NewUnsent ==
    ASSUME TypeOK, MembershipConsistent, NEW p \in Peers, ServerStep(p), NEW q \in Peers, conn'[q] = "new"
    PROVE  conn[q] = "new" /\ (out[q] = <<>> => out'[q] = <<>>)
<1>1. conn \in [Peers -> {"new", "open", "closing", "closed"}] /\ out \in [Peers -> Seq(Message)]
  BY DEF TypeOK
<1>2. conn[q] = "new"
  BY <1>1 DEF ServerStep, Open, Join, Leave, JoinCall, LeaveCall, Relay, HeartbeatTimeout, Close, FallSilent
<1>3. ~Live(q)
  BY <1>2 DEF Live
<1>4. \A r : JoinSends(p, r)[q] = out[q] /\ JoinCallSends(p, r)[q] = out[q]
  BY <1>3, PostMisses DEF JoinSends, JoinCallSends
<1>5. \A r : LeaveCallSends(out, p, r)[q] = out[q]
  BY <1>3, PostMisses DEF LeaveCallSends
<1>6. \A r : LeaveSends(p, r)[q] = out[q]
  BY <1>3, <1>5, PostMisses DEF LeaveSends
<1>7. CASE Open(p) \/ HeartbeatTimeout(p)
  BY <1>2, <1>7 DEF Open, HeartbeatTimeout
<1>8. CASE \E r \in RoomIds : Join(p, r)
  BY <1>2, <1>3, <1>4, <1>8, PostMisses DEF Join
<1>9. CASE Leave(p)
  BY <1>2, <1>6, <1>9 DEF Leave
<1>10. CASE JoinCall(p)
  BY <1>2, <1>3, <1>4, <1>10, PostMisses DEF JoinCall
<1>11. CASE LeaveCall(p)
  BY <1>2, <1>5, <1>11 DEF LeaveCall
<1>12. CASE \E to \in Peers \ {p} : Relay(p, to)
  BY <1>2, <1>3, <1>12, PostMisses DEF Relay
<1>13. CASE Close(p)
  <2>1. LeaveSends(p, wsRoom[p]) \in [Peers -> Seq(Message)]
    BY LeaveSendsType DEF TypeOK
  <2>2. QED
    BY <1>2, <1>6, <1>13, <2>1 DEF Close
<1>14. CASE FallSilent(p)
  BY <1>1, <1>2, <1>14 DEF FallSilent
<1>15. QED
  BY <1>7, <1>8, <1>9, <1>10, <1>11, <1>12, <1>13, <1>14 DEF ServerStep

-----------------------------------------------------------------------------
(* A step of the server, with what the clients make of it. *)
LEMMA SeenStep ==
    ASSUME SyncInv, SyncTypeOK', ServerSeen, TypeOK', NEW p \in Peers, ServerStep(p)
    PROVE  SyncInv'
<1>1. NewBlank'
  BY NewUnsent DEF NewBlank, SyncInv, ServerSeen
<1>2. \A q \in Peers : SyncFor(q)'
  BY ServerSync
<1>3. QED
  BY <1>1, <1>2 DEF SyncInv, ServerSeen

(* One step of the server or a client keeps every client's future view right. *)
LEMMA SyncStep ==
    ASSUME SyncInv, [SyncNext]_syncVars
    PROVE  SyncInv'
<1>1. [Next]_vars
  <2>1. CASE UNCHANGED syncVars
    BY <2>1 DEF syncVars, vars
  <2>2. ASSUME NEW p \in Peers, Receive(p) PROVE Next
    BY <2>2 DEF Receive, Next
  <2>3. ASSUME NEW p \in Peers, ClientStep(p) PROVE UNCHANGED vars
    BY <2>3 DEF ClientStep, SwitchToCall, MediaAcquired, CallFails, Hangup, DismissError, LateClose,
                ClientOnly, vars
  <2>4. ASSUME NEW p \in Peers, Handle(p) PROVE [Next]_vars
    BY <2>4 DEF Handle, Next, ServerStep
  <2>5. ASSUME NEW p \in Peers, ServerOnly(p) PROVE Next
    BY <2>5 DEF ServerOnly, Next, ServerStep
  <2>6. ASSUME NEW p \in Peers, Enter(p) PROVE Next
    BY <2>6 DEF Enter, Next, ServerStep
  <2>7. ASSUME NEW p \in Peers, NEW q \in Peers \ {p}, NEW how \in Losses, Resume(p, q, how) PROVE Next
    BY <2>7 DEF Resume, Next, ServerStep
  <2>8. QED
    BY <2>1, <2>2, <2>3, <2>4, <2>5, <2>6, <2>7 DEF SyncNext
<1>2. TypeOK' /\ MembershipConsistent'
  BY <1>1, TypeStep, MembershipStep DEF SyncInv
<1>3. CASE UNCHANGED syncVars
  BY <1>3 DEF syncVars, SyncInv, TypeOK, MembershipConsistent, SyncTypeOK, NewBlank, SyncFor, RightFor,
              FreshFor, View, InRoom, Live
<1>4. ASSUME NEW p \in Peers, Receive(p) \/ ClientStep(p) PROVE SyncInv'
  <2>1. SyncTypeOK'
    BY <1>4, ClientTyped DEF SyncInv
  <2>2. \A q \in Peers : SyncFor(q)'
    BY <1>4, ReceiveSync, ClientSync
  <2>3. NewBlank'
    <3>1. CASE Receive(p)
      BY <3>1 DEF Receive, Deliver, Live, WithActive, NewBlank, SyncInv, TypeOK
    <3>2. CASE ClientStep(p)
      BY <3>2 DEF ClientStep, SwitchToCall, MediaAcquired, CallFails, Hangup, DismissError, LateClose,
                  ClientOnly, NewBlank, SyncInv
    <3>3. QED
      BY <1>4, <3>1, <3>2
  <2>4. QED
    BY <1>2, <2>1, <2>2, <2>3 DEF SyncInv
<1>5. ASSUME NEW p \in Peers, Handle(p) PROVE SyncInv'
  <2>1. SyncTypeOK' /\ ServerSeen
    BY <1>2, <1>5, ServerTyped DEF SyncInv, Handle, ServerSeen
  <2>2. CASE ServerStep(p)
    BY <1>2, <2>1, <2>2, SeenStep
  <2>3. CASE UNCHANGED vars
    <3>1. \A q \in Peers : SyncFor(q)'
      BY <2>1, <2>3, NothingSeen DEF vars, InRoom, Live
    <3>2. NewBlank'
      BY <2>1, <2>3 DEF vars, NewBlank, ServerSeen, SyncInv
    <3>3. QED
      BY <1>2, <2>1, <3>1, <3>2 DEF SyncInv
  <2>4. QED
    BY <1>5, <2>2, <2>3 DEF Handle, ServerStep
<1>6. ASSUME NEW p \in Peers, ServerOnly(p) PROVE SyncInv'
  <2>1. SyncTypeOK' /\ ServerSeen
    BY <1>2, <1>6, ServerTyped DEF SyncInv, ServerOnly, ServerSeen
  <2>2. ServerStep(p)
    BY <1>6 DEF ServerOnly, ServerStep
  <2>3. QED
    BY <1>2, <2>1, <2>2, SeenStep
<1>7. ASSUME NEW p \in Peers, Enter(p) PROVE SyncInv'
  <2>1. SyncTypeOK'
    BY <1>7, ServerTyped DEF SyncInv
  <2>2. ServerSeen
    <3>1. UNCHANGED <<peers, listed, active, reset, wsRoom, callPeers>>
      BY <1>7 DEF Enter, Open
    <3>2. reset' = [q \in Peers |-> reset[q]]
      BY <3>1 DEF SyncInv, SyncTypeOK
    <3>3. QED
      BY <1>2, <3>1, <3>2 DEF ServerSeen, CallNews, CallOf
  <2>3. ServerStep(p)
    BY <1>7 DEF Enter, ServerStep
  <2>4. QED
    BY <1>2, <2>1, <2>2, <2>3, SeenStep
<1>8. ASSUME NEW p \in Peers, NEW l \in Peers \ {p}, NEW how \in Losses, Resume(p, l, how) PROVE SyncInv'
  <2>1. SyncTypeOK'
    BY <1>8, ServerTyped DEF SyncInv
  <2>2. \A q \in Peers : SyncFor(q)'
    BY <1>8, ResumeSync
  <2>3. NewBlank'
    <3>1. /\ out' = out /\ conn' = [conn EXCEPT ![p] = "open"]
          /\ active' \subseteq active \cup {p}
      BY <1>8 DEF Resume, Open
    <3>2. QED
      BY <3>1 DEF NewBlank, SyncInv, TypeOK
  <2>4. QED
    BY <1>2, <2>1, <2>2, <2>3 DEF SyncInv
<1>9. QED
  BY <1>3, <1>4, <1>5, <1>6, <1>7, <1>8 DEF SyncNext

(* Nobody is in a room at first, and nobody has been sent anything. *)
LEMMA SyncStarts == SyncInit => SyncInv
<1>1. SUFFICES ASSUME SyncInit PROVE SyncInv
  OBVIOUS
<1>2. TypeOK /\ MembershipConsistent
  BY <1>1, NoRoomAssumption DEF SyncInit, Init, TypeOK, MembershipConsistent
<1>3. SyncTypeOK /\ NewBlank
  BY <1>1 DEF SyncInit, Init, SyncTypeOK, NewBlank
<1>4. ASSUME NEW q \in Peers PROVE SyncFor(q)
  <2>1. out[q] = <<>> /\ listed[q] = {} /\ q \notin active /\ ~InRoom(q)
    BY <1>1 DEF SyncInit, Init, InRoom
  <2>2. QED
    BY <2>1 DEF SyncFor, RightFor, FreshFor, Blank, View, NoCalls, NoStranger
<1>5. QED
  BY <1>2, <1>3, <1>4 DEF SyncInv

(* The invariant holds throughout. *)
LEMMA SyncHolds == SyncSpec => []SyncInv
  BY SyncStarts, SyncStep, PTL DEF SyncSpec

(* What the properties say of a channel is what the invariant does. *)
LEMMA ListsMeanTheSame ==
    ASSUME SyncInv, NEW p \in Peers
    PROVE  /\ ListWaits(p) <=> ~NoCalls(out[p])
           /\ \A x : ListedAfterAll(p, x) <=> ListedIn(listed[p], out[p], x)
           /\ ActiveAfterAll(p) <=> ActiveIn(active, out[p], p)
<1> DEFINE s == out[p]
<1>1. s \in Seq(Message) /\ DOMAIN s = 1..Len(s)
  BY DEF SyncInv, TypeOK
<1>2. \A i \in DOMAIN s : s[i].type = "call-peers" => s[i].peers \in SUBSET Peers
  <2>1. \A i \in DOMAIN s : s[i] \in Message
    BY <1>1
  <2>2. QED
    BY <2>1 DEF Message
<1>3. ListWaits(p) <=> ~NoCalls(s)
  BY <1>1 DEF ListWaits, NoCalls
<1>4. \A x : ListedAfterAll(p, x) <=> ListedIn(listed[p], s, x)
  BY <1>1 DEF ListedAfterAll, LastList, ListWaits, ListedIn
<1>5. \A x : ListedIn({}, s, x) <=> \E i \in DOMAIN s : LastList(p, i) /\ x \in s[i].peers
  BY <1>1 DEF ListedIn, LastList
<1>6. (\E x \in Peers : ListedIn({}, s, x)) <=> \E i \in DOMAIN s : LastList(p, i) /\ s[i].peers # {}
  BY <1>2, <1>5 DEF LastList
<1>7. (\E i \in DOMAIN s : LastList(p, i) /\ s[i].peers # {}) => ~NoCalls(s)
  BY <1>1 DEF LastList, NoCalls
<1>8. ActiveAfterAll(p) <=> (p \in active /\ NoCalls(s)) \/ \E x \in Peers : ListedIn({}, s, x)
  BY <1>3, <1>6 DEF ActiveAfterAll
<1>9. ActiveAfterAll(p) <=> ActiveIn(active, s, p)
  BY <1>6, <1>7, <1>8 DEF ActiveIn
<1>10. QED
  BY <1>3, <1>4, <1>9

-----------------------------------------------------------------------------
(***************************************************************************)
(* After reading its channel a client shows exactly the other members of   *)
(* its room, however joins, leaves, disconnects and evictions interleave   *)
(* with what is in flight (PEERS_LIST, PEER_JOINED_ROOM, PEER_LEFT_ROOM),  *)
(* for any number of sockets and rooms.                                    *)
(***************************************************************************)
THEOREM PeersAlwaysConverge == SyncSpec => []PeersConverge
<1>1. SyncInv => PeersConverge
  <2>1. SUFFICES ASSUME SyncInv, NEW p \in Peers, InRoom(p), NEW q \in Peers
                 PROVE  KnownAfter(p, q, Len(out[p])) <=> q \in roomPeers[wsRoom[p]] \ {p}
    BY DEF PeersConverge
  <2>2. Right(peers[p], View(p), out[p], roomPeers[wsRoom[p]], callPeers[wsRoom[p]], p)
    BY <2>1 DEF SyncInv, SyncFor, RightFor
  <2>3. QED
    BY <2>2 DEF Right, Known, KnownIn, KnownAfter
<1>2. QED
  BY <1>1, SyncHolds, PTL

(***************************************************************************)
(* The same for the call: what a client lists after its channel is read is *)
(* the call of its room, but for its own id (CALL_PEERS_RECEIVED), and for *)
(* what it blanked (HANGUP, DISMISS_ERROR) or brought from before while    *)
(* its room's call has been the same since and no list is on its way.      *)
(***************************************************************************)
THEOREM CallPeersAlwaysConverge == SyncSpec => []CallPeersConverge
<1>1. SyncInv => CallPeersConverge
  <2>1. SUFFICES ASSUME SyncInv, NEW p \in Peers, InRoom(p), Told(p, "callPeers"), NEW q \in Peers \ {p}
                 PROVE  ListedAfterAll(p, q) <=> q \in callPeers[wsRoom[p]]
    BY DEF CallPeersConverge
  <2>2. CallsRight(View(p), out[p], callPeers[wsRoom[p]], p)
    BY <2>1 DEF SyncInv, SyncFor, RightFor, Right
  <2>3. QED
    BY <2>1, <2>2, ListsMeanTheSame DEF CallsRight, Told, View
<1>2. QED
  BY <1>1, SyncHolds, PTL

(***************************************************************************)
(* And for the indicator: with the same exception, a client shows a call   *)
(* (callActive) when someone else is in the call of its room, and none     *)
(* when nobody is.                                                         *)
(***************************************************************************)
THEOREM CallActiveAlwaysConverges == SyncSpec => []CallActiveConverges
<1>1. SyncInv => CallActiveConverges
  <2>1. SUFFICES ASSUME SyncInv, NEW p \in Peers, InRoom(p), Told(p, "callActive")
                 PROVE  /\ callPeers[wsRoom[p]] \ {p} # {} => ActiveAfterAll(p)
                        /\ ActiveAfterAll(p) => callPeers[wsRoom[p]] # {}
    BY DEF CallActiveConverges
  <2>2. CallsRight(View(p), out[p], callPeers[wsRoom[p]], p)
    BY <2>1 DEF SyncInv, SyncFor, RightFor, Right
  <2>3. QED
    BY <2>1, <2>2, ListsMeanTheSame DEF CallsRight, Told, View
<1>2. QED
  BY <1>1, SyncHolds, PTL

(* The client's view of the call, both fields of it, with the exceptions above. *)
THEOREM CallAlwaysConverges == SyncSpec => []CallConverges
  BY CallPeersAlwaysConverge, CallActiveAlwaysConverges, PTL DEF CallConverges

(***************************************************************************)
(* The sender of a relayed message is, when it is read, a peer its reader  *)
(* has been told of and not been told has left.                            *)
(***************************************************************************)
THEOREM NeverStrangerSignal == SyncSpec => []NoStrangerSignal
<1>1. SyncInv => NoStrangerSignal
  <2>1. SUFFICES ASSUME SyncInv, NEW p \in Peers, NEW i \in DOMAIN out[p], out[p][i].type = "relay"
                 PROVE  KnownAfter(p, out[p][i].peer, i - 1)
    BY DEF NoStrangerSignal
  <2>2. NoStranger(peers[p], out[p]) /\ i \in 1..Len(out[p])
    BY <2>1 DEF SyncInv, SyncFor, TypeOK
  <2>3. KnownIn(peers[p], out[p], i - 1, out[p][i].peer)
    BY <2>1, <2>2 DEF NoStranger
  <2>4. QED
    BY <2>3 DEF KnownIn, KnownAfter
<1>2. QED
  BY <1>1, SyncHolds, PTL

(* The clients' views, screens and requests stay what they are throughout. *)
THEOREM ViewsTyped == SyncSpec => []SyncTypeOK
<1>1. SyncInv => SyncTypeOK
  BY DEF SyncInv
<1>2. QED
  BY <1>1, SyncHolds, PTL
=============================================================================
