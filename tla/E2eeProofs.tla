----------------------------- MODULE E2eeProofs -----------------------------
(***************************************************************************)
(* Proof that parseNegotiatedCodecs, which keeps one section and one       *)
(* payload type while it reads, finds what the whole description says, for *)
(* descriptions of any lines and any length; that no sender is left        *)
(* without a transform; and that frames survive, however long they are.    *)
(*                                                                         *)
(* The argument: the section the parser keeps is the last m-line, until    *)
(* the first rtpmap line of its payload type; and a line that is read      *)
(* comes after all others, so it is the first of its payload type only in  *)
(* a section that had none.                                                *)
(***************************************************************************)
EXTENDS E2ee, TLAPS, SequenceTheorems

\* The definitions of E2ee on what a description says, with the description as a parameter.
Heads(s) == {i \in DOMAIN s : s[i].line = "m"}
TakenUp(s, k) == {i \in Heads(s) : s[i].media = k /\ ~s[i].zeroPort /\ s[i].pt # NoPt}
IsLast(s, i) == \A m \in Heads(s) : ~(i < m)
Maps(s, i) ==
    {j \in i + 1 .. Len(s) :
        /\ s[j].line = "rtpmap"
        /\ s[j].pt = s[i].pt
        /\ ~\E m \in Heads(s) : i < m /\ m < j}
FirstMap(s, i, j) == j \in Maps(s, i) /\ \A k \in Maps(s, i) : j <= k
CodecOf(s, i) == s[Min(Maps(s, i))].codec

TurnedDown(s) == {k \in Kinds : \E i \in Heads(s) : s[i].media = k /\ s[i].zeroPort}
WithCodec(s) == {k \in Kinds : \E i \in TakenUp(s, k) : Maps(s, i) # {}}
HasOther(s) ==
    \E k \in Kinds : \E i \in TakenUp(s, k) : Maps(s, i) # {} /\ CodecOf(s, i) # Normalized[k]

HasFirst(s) == \A i \in Heads(s) : Maps(s, i) # {} => \E j : FirstMap(s, i, j)

\* What the parser is looking for: the payload type of the last section, if it lacks a codec.
Awaited(s, i, k) == i \in TakenUp(s, k) /\ IsLast(s, i) /\ Maps(s, i) = {}

SectionIsLast ==
    /\ section = [kind |-> section.kind, pt |-> section.pt]
    /\ section.kind \in Kinds \cup {"none"}
    /\ ~unsupported =>
        /\ section.pt # NoPt =>
            /\ section.kind \in Kinds
            /\ \E i \in Heads(sdp) : Awaited(sdp, i, section.kind) /\ sdp[i].pt = section.pt
        /\ \A k \in Kinds : \A i \in Heads(sdp) :
            Awaited(sdp, i, k) => section.kind = k /\ section.pt = sdp[i].pt

ReadSoFar ==
    /\ rejected = TurnedDown(sdp)
    /\ unsupported <=> HasOther(sdp)
    /\ ~unsupported => DOMAIN codecs = WithCodec(sdp)

WiredForAll ==
    wiring = "wired" => ~unsupported /\ \A k \in Sending : ~Refused(k)

ScanInv ==
    /\ sdp \in Seq(Lines)
    /\ DOMAIN codecs \subseteq Kinds
    /\ unsupported \in BOOLEAN
    /\ wiring \in {"parsing", "wired", "refused"}
    /\ HasFirst(sdp)
    /\ SectionIsLast
    /\ ReadSoFar
    /\ WiredForAll

-----------------------------------------------------------------------------
(* The least of a set of numbers is its minimum. *)
LEMMA LeastIsMin ==
    ASSUME NEW S \in SUBSET Nat, NEW j \in S, \A k \in S : j <= k
    PROVE  Min(S) = j
<1>1. \A x \in S : (\A y \in S : x <= y) => x = j
  OBVIOUS
<1>2. QED
  BY <1>1 DEF Min

(* What a line at the end leaves as it was. *)
LEMMA OneLineMore ==
    ASSUME NEW s \in Seq(Lines), NEW l \in Lines
    PROVE  LET t == Append(s, l) IN
           /\ t \in Seq(Lines) /\ Len(s) \in Nat /\ Len(t) = Len(s) + 1
           /\ DOMAIN s = 1 .. Len(s) /\ DOMAIN t = 1 .. Len(s) + 1
           /\ \A i \in 1 .. Len(s) : t[i] = s[i]
           /\ t[Len(s) + 1] = l
  BY AppendProperties, LenProperties

(* An m-line begins a section without rtpmap lines and changes no other. *)
LEMMA MLineRead ==
    ASSUME NEW s \in Seq(Lines), NEW l \in Lines, l.line = "m"
    PROVE  LET t == Append(s, l) IN
           /\ Heads(t) = Heads(s) \cup {Len(s) + 1}
           /\ Maps(t, Len(s) + 1) = {}
           /\ \A i \in Heads(s) : t[i] = s[i] /\ Maps(t, i) = Maps(s, i)
           /\ IsLast(t, Len(s) + 1)
           /\ \A i \in Heads(s) : ~IsLast(t, i)
<1> DEFINE t == Append(s, l)
<1>1. /\ Len(s) \in Nat /\ Len(t) = Len(s) + 1
      /\ DOMAIN s = 1 .. Len(s) /\ DOMAIN t = 1 .. Len(s) + 1
      /\ \A i \in 1 .. Len(s) : t[i] = s[i]
      /\ t[Len(s) + 1] = l
  BY OneLineMore
<1> HIDE DEF t
<1>2. Heads(t) = Heads(s) \cup {Len(s) + 1}
  BY <1>1 DEF Heads
<1>3. Heads(s) \subseteq 1 .. Len(s)
  BY <1>1 DEF Heads
<1>4. Maps(t, Len(s) + 1) = {}
  BY <1>1 DEF Maps
<1>5. ASSUME NEW i \in Heads(s) PROVE t[i] = s[i] /\ Maps(t, i) = Maps(s, i)
  <2>1. i \in 1 .. Len(s) /\ t[i] = s[i]
    BY <1>1, <1>3
  <2>2. ASSUME NEW j \in i + 1 .. Len(s)
        PROVE  /\ t[j] = s[j]
               /\ (\E m \in Heads(t) : i < m /\ m < j) <=> (\E m \in Heads(s) : i < m /\ m < j)
    BY <1>1, <1>2, <1>3, <2>1
  <2>3. t[Len(s) + 1].line # "rtpmap"
    BY <1>1
  <2>4. QED
    BY <1>1, <2>1, <2>2, <2>3 DEF Maps
<1>6. IsLast(t, Len(s) + 1)
  BY <1>1, <1>2, <1>3 DEF IsLast
<1>7. \A i \in Heads(s) : ~IsLast(t, i)
  BY <1>1, <1>2, <1>3 DEF IsLast
<1>8. QED
  BY <1>2, <1>4, <1>5, <1>6, <1>7 DEF t

(* An rtpmap line is the first of the last section, if that has none of its payload type yet. *)
LEMMA RtpmapRead ==
    ASSUME NEW s \in Seq(Lines), NEW l \in Lines, l.line = "rtpmap"
    PROVE  LET t == Append(s, l) IN
           /\ Heads(t) = Heads(s)
           /\ \A i \in Heads(s) :
                /\ t[i] = s[i]
                /\ IsLast(t, i) <=> IsLast(s, i)
                /\ IF IsLast(s, i) /\ s[i].pt = l.pt
                   THEN Maps(t, i) = Maps(s, i) \cup {Len(s) + 1}
                   ELSE Maps(t, i) = Maps(s, i)
<1> DEFINE t == Append(s, l)
<1>1. /\ Len(s) \in Nat /\ Len(t) = Len(s) + 1
      /\ DOMAIN s = 1 .. Len(s) /\ DOMAIN t = 1 .. Len(s) + 1
      /\ \A i \in 1 .. Len(s) : t[i] = s[i]
      /\ t[Len(s) + 1] = l
  BY OneLineMore
<1> HIDE DEF t
<1>2. Heads(t) = Heads(s)
  BY <1>1 DEF Heads
<1>3. Heads(s) \subseteq 1 .. Len(s)
  BY <1>1 DEF Heads
<1>4. ASSUME NEW i \in Heads(s)
      PROVE  /\ t[i] = s[i]
             /\ IsLast(t, i) <=> IsLast(s, i)
             /\ IF IsLast(s, i) /\ s[i].pt = l.pt
                THEN Maps(t, i) = Maps(s, i) \cup {Len(s) + 1}
                ELSE Maps(t, i) = Maps(s, i)
  <2>1. i \in 1 .. Len(s) /\ t[i] = s[i]
    BY <1>1, <1>3
  <2>2. IsLast(t, i) <=> IsLast(s, i)
    BY <1>2 DEF IsLast
  <2>3. \A j \in i + 1 .. Len(s) : t[j] = s[j]
    BY <1>1, <2>1
  <2>4. (\E m \in Heads(s) : i < m /\ m < Len(s) + 1) <=> ~IsLast(s, i)
    BY <1>1, <1>3 DEF IsLast
  <2>5. \A j : j \in i + 1 .. Len(s) + 1 <=> j \in i + 1 .. Len(s) \/ j = Len(s) + 1
    BY <1>1, <2>1
  <2>6. \A j : j \in Maps(t, i) <=>
            \/ j \in Maps(s, i)
            \/ j = Len(s) + 1 /\ IsLast(s, i) /\ s[i].pt = l.pt
    BY <1>1, <1>2, <2>1, <2>3, <2>4, <2>5 DEF Maps
  <2>7. CASE IsLast(s, i) /\ s[i].pt = l.pt
    BY <2>1, <2>2, <2>6, <2>7
  <2>8. CASE ~(IsLast(s, i) /\ s[i].pt = l.pt)
    <3>1. Maps(t, i) = Maps(s, i)
      BY <2>6, <2>8
    <3>2. QED
      BY <2>1, <2>2, <2>8, <3>1
  <2>9. QED
    BY <2>7, <2>8
<1>5. QED
  BY <1>2, <1>4 DEF t

(* A section that has its codec keeps it: what is read later is not its first. *)
LEMMA CodecStays ==
    ASSUME NEW s \in Seq(Lines), NEW l \in Lines, NEW i \in Heads(s), HasFirst(s), Maps(s, i) # {},
           \/ Maps(Append(s, l), i) = Maps(s, i)
           \/ Maps(Append(s, l), i) = Maps(s, i) \cup {Len(s) + 1}
    PROVE  LET t == Append(s, l) IN
           /\ Maps(t, i) # {}
           /\ \E j : FirstMap(t, i, j)
           /\ CodecOf(t, i) = CodecOf(s, i)
<1> DEFINE t == Append(s, l)
<1>1. /\ Len(s) \in Nat /\ DOMAIN s = 1 .. Len(s)
      /\ \A k \in 1 .. Len(s) : t[k] = s[k]
  BY OneLineMore
<1>2. i \in 1 .. Len(s) /\ Maps(s, i) \subseteq 1 .. Len(s)
  BY <1>1 DEF Heads, Maps
<1>3. PICK j : FirstMap(s, i, j)
  BY DEF HasFirst
<1>4. j \in Maps(s, i) /\ \A k \in Maps(s, i) : j <= k
  BY <1>3 DEF FirstMap
<1>5. Maps(t, i) \in SUBSET Nat /\ j \in Maps(t, i) /\ \A k \in Maps(t, i) : j <= k
  BY <1>1, <1>2, <1>4
<1> HIDE DEF t
<1>6. Min(Maps(s, i)) = j /\ Min(Maps(t, i)) = j
  <2>1. Maps(s, i) \in SUBSET Nat
    BY <1>1, <1>2
  <2>2. QED
    BY <1>4, <1>5, <2>1, LeastIsMin
<1>7. t[j] = s[j]
  BY <1>1, <1>2, <1>4
<1>8. QED
  BY <1>5, <1>6, <1>7 DEF FirstMap, CodecOf, t

(* A section that had none takes it from the line that is read. *)
LEMMA CodecTaken ==
    ASSUME NEW s \in Seq(Lines), NEW l \in Lines, NEW i \in Heads(s),
           Maps(Append(s, l), i) = {Len(s) + 1}
    PROVE  LET t == Append(s, l) IN
           /\ \E j : FirstMap(t, i, j)
           /\ CodecOf(t, i) = l.codec
<1> DEFINE t == Append(s, l)
<1>1. Len(s) \in Nat /\ t[Len(s) + 1] = l
  BY OneLineMore
<1>2. Maps(t, i) = {Len(s) + 1}
  OBVIOUS
<1> HIDE DEF t
<1>3. FirstMap(t, i, Len(s) + 1)
  BY <1>1, <1>2 DEF FirstMap
<1>4. Min(Maps(t, i)) = Len(s) + 1
  BY <1>1, <1>2, LeastIsMin
<1>5. QED
  BY <1>1, <1>3, <1>4 DEF CodecOf, t

-----------------------------------------------------------------------------
(* The steps.                                                              *)

(* The codecs of a description after an m-line: those there were. *)
LEMMA MLineStep ==
    ASSUME ScanInv, NEW l \in Lines, ReadLine(l), ReadMLine(l)
    PROVE  ScanInv'
<1> USE DEF ScanInv
<1> DEFINE t == Append(sdp, l)
<1>1. /\ sdp' = t /\ l.line = "m" /\ ~unsupported /\ wiring = "parsing"
      /\ section' = SectionOf(l)
      /\ rejected' = IF l.media \in Kinds /\ l.zeroPort THEN rejected \cup {l.media} ELSE rejected
      /\ UNCHANGED <<codecs, unsupported, wiring>>
  BY DEF ReadLine, ReadMLine
<1>2. /\ t \in Seq(Lines) /\ t[Len(sdp) + 1] = l /\ Len(sdp) + 1 \notin Heads(sdp)
      /\ Heads(t) = Heads(sdp) \cup {Len(sdp) + 1}
      /\ Maps(t, Len(sdp) + 1) = {}
      /\ \A i \in Heads(sdp) : t[i] = sdp[i] /\ Maps(t, i) = Maps(sdp, i)
      /\ IsLast(t, Len(sdp) + 1)
      /\ \A i \in Heads(sdp) : ~IsLast(t, i)
  BY <1>1, OneLineMore, MLineRead DEF Heads
<1>3. \A i \in Heads(sdp) : Maps(sdp, i) # {} =>
        (\E j : FirstMap(t, i, j)) /\ CodecOf(t, i) = CodecOf(sdp, i)
  BY <1>2, CodecStays
<1> HIDE DEF t
<1> DEFINE new == Len(sdp) + 1
<1>4. HasFirst(t)
  BY <1>2, <1>3 DEF HasFirst
<1>5. \A k : \A i \in Heads(sdp) : i \in TakenUp(t, k) <=> i \in TakenUp(sdp, k)
  BY <1>2 DEF TakenUp
<1>6. \A k : \A i \in TakenUp(sdp, k) : i \in Heads(sdp)
  BY DEF TakenUp
<1>7. \A k : \A i \in TakenUp(t, k) : i \in Heads(sdp) \/ i = new
  BY <1>2 DEF TakenUp
<1>8. WithCodec(t) = WithCodec(sdp)
  BY <1>2, <1>5, <1>6, <1>7 DEF WithCodec
<1>9. HasOther(t) <=> HasOther(sdp)
  BY <1>2, <1>3, <1>5, <1>6, <1>7 DEF HasOther
<1>10. TurnedDown(t) = IF l.media \in Kinds /\ l.zeroPort
                       THEN TurnedDown(sdp) \cup {l.media} ELSE TurnedDown(sdp)
  BY <1>2 DEF TurnedDown
<1>11. ReadSoFar'
  BY <1>1, <1>8, <1>9, <1>10 DEF ReadSoFar
<1>12. SectionIsLast'
  <2>1. \A k : \A i \in Heads(t) : Awaited(t, i, k) <=>
            i = new /\ l.media = k /\ ~l.zeroPort /\ l.pt # NoPt
    BY <1>2 DEF Awaited, TakenUp
  <2>2. CASE l.media \in Kinds /\ ~l.zeroPort /\ l.pt # NoPt
    <3>1. section' = [kind |-> l.media, pt |-> l.pt]
      BY <1>1, <2>2 DEF SectionOf
    <3>2. new \in Heads(t) /\ Awaited(t, new, l.media) /\ t[new].pt = l.pt
      BY <1>2, <2>1, <2>2
    <3>3. QED
      BY <1>1, <1>2, <2>1, <2>2, <3>1, <3>2 DEF SectionIsLast
  <2>3. CASE ~(l.media \in Kinds /\ ~l.zeroPort /\ l.pt # NoPt)
    <3>1. section' = NoSection
      BY <1>1, <2>3 DEF SectionOf
    <3>2. QED
      BY <1>1, <2>1, <2>3, <3>1 DEF SectionIsLast, NoSection
  <2>4. QED
    BY <2>2, <2>3
<1>13. WiredForAll'
  BY <1>1 DEF WiredForAll
<1>14. QED
  BY <1>1, <1>2, <1>4, <1>11, <1>12, <1>13

(* An rtpmap line that no section waits for changes nothing that was found. *)
LEMMA RtpmapPassed ==
    ASSUME ScanInv, NEW l \in Lines, ReadLine(l), ReadRtpmap(l), section.pt = NoPt \/ l.pt # section.pt
    PROVE  ScanInv'
<1> USE DEF ScanInv
<1> DEFINE t == Append(sdp, l)
<1>1. /\ sdp' = t /\ l.line = "rtpmap" /\ ~unsupported /\ wiring = "parsing"
      /\ UNCHANGED <<section, codecs, rejected, unsupported, wiring>>
  BY DEF ReadLine, ReadRtpmap
<1>2. /\ t \in Seq(Lines)
      /\ Heads(t) = Heads(sdp)
      /\ \A i \in Heads(sdp) :
            /\ t[i] = sdp[i]
            /\ IsLast(t, i) <=> IsLast(sdp, i)
            /\ IF IsLast(sdp, i) /\ sdp[i].pt = l.pt
               THEN Maps(t, i) = Maps(sdp, i) \cup {Len(sdp) + 1}
               ELSE Maps(t, i) = Maps(sdp, i)
  BY <1>1, OneLineMore, RtpmapRead, ZenonT(60)
<1>3. \A i \in Heads(sdp) : Maps(sdp, i) # {} =>
        Maps(t, i) # {} /\ (\E j : FirstMap(t, i, j)) /\ CodecOf(t, i) = CodecOf(sdp, i)
  BY <1>2, CodecStays
<1>4. \A i \in Heads(sdp) : Maps(t, i) = {Len(sdp) + 1} => \E j : FirstMap(t, i, j)
  BY CodecTaken
<1> HIDE DEF t
<1>5. HasFirst(t)
  BY <1>2, <1>3, <1>4 DEF HasFirst
<1>6. \A k : TakenUp(t, k) = TakenUp(sdp, k) /\ TakenUp(sdp, k) \subseteq Heads(sdp)
  BY <1>2 DEF TakenUp
<1>7. ASSUME NEW k \in Kinds, NEW i \in TakenUp(sdp, k), Maps(sdp, i) = {}
      PROVE  Maps(t, i) = {}
  <2>1. i \in Heads(sdp)
    BY <1>6
  <2>2. CASE IsLast(sdp, i)
    <3>1. section.pt = sdp[i].pt /\ sdp[i].pt # NoPt
      BY <1>1, <1>7, <2>1, <2>2 DEF SectionIsLast, Awaited, TakenUp
    <3>2. QED
      BY <1>2, <1>7, <2>1, <3>1
  <2>3. CASE ~IsLast(sdp, i)
    BY <1>2, <1>7, <2>1, <2>3
  <2>4. QED
    BY <2>2, <2>3
<1>8. \A k \in Kinds : \A i \in TakenUp(sdp, k) :
        /\ Maps(t, i) = {} <=> Maps(sdp, i) = {}
        /\ Maps(sdp, i) # {} => CodecOf(t, i) = CodecOf(sdp, i)
  BY <1>3, <1>6, <1>7
<1>9. WithCodec(t) = WithCodec(sdp) /\ (HasOther(t) <=> HasOther(sdp))
  BY <1>6, <1>8 DEF WithCodec, HasOther
<1>10. TurnedDown(t) = TurnedDown(sdp)
  BY <1>2 DEF TurnedDown
<1>11. ReadSoFar'
  BY <1>1, <1>9, <1>10 DEF ReadSoFar
<1>12. \A k \in Kinds : \A i \in Heads(sdp) : Awaited(t, i, k) <=> Awaited(sdp, i, k)
  BY <1>2, <1>6, <1>8 DEF Awaited
<1>13. SectionIsLast'
  BY <1>1, <1>2, <1>12 DEF SectionIsLast
<1>14. WiredForAll'
  BY <1>1 DEF WiredForAll
<1>15. QED
  BY <1>1, <1>2, <1>5, <1>11, <1>13, <1>14

(* The first rtpmap line of the last section gives its kind a codec, or is not supported. *)
LEMMA RtpmapTaken ==
    ASSUME ScanInv, NEW l \in Lines, ReadLine(l), ReadRtpmap(l), section.pt # NoPt, l.pt = section.pt
    PROVE  ScanInv'
<1> USE DEF ScanInv
<1> DEFINE t == Append(sdp, l)
<1> DEFINE kind == section.kind
<1>1. /\ sdp' = t /\ l.line = "rtpmap" /\ ~unsupported /\ wiring = "parsing"
      /\ UNCHANGED <<rejected, wiring>>
      /\ IF l.codec = Normalized[kind]
         THEN /\ DOMAIN codecs' = DOMAIN codecs \cup {kind}
              /\ section' = Found
              /\ UNCHANGED unsupported
         ELSE unsupported' = TRUE /\ UNCHANGED <<codecs, section>>
  BY DEF ReadLine, ReadRtpmap
<1>2. PICK last \in Heads(sdp) : Awaited(sdp, last, kind) /\ sdp[last].pt = l.pt
  BY <1>1 DEF SectionIsLast
<1>3. kind \in Kinds
  BY <1>1 DEF SectionIsLast
<1>4. /\ t \in Seq(Lines)
      /\ Heads(t) = Heads(sdp)
      /\ \A i \in Heads(sdp) :
            /\ t[i] = sdp[i]
            /\ IsLast(t, i) <=> IsLast(sdp, i)
            /\ IF IsLast(sdp, i) /\ sdp[i].pt = l.pt
               THEN Maps(t, i) = Maps(sdp, i) \cup {Len(sdp) + 1}
               ELSE Maps(t, i) = Maps(sdp, i)
  <2> HIDE DEF ScanInv, kind
  <2>1. t \in Seq(Lines)
    BY OneLineMore DEF ScanInv
  <2>2. sdp \in Seq(Lines) /\ l.line = "rtpmap"
    BY <1>1 DEF ScanInv
  <2>3. QED
    BY <2>1, <2>2, RtpmapRead
<1>5. \A i \in Heads(sdp) : Maps(sdp, i) # {} =>
        Maps(t, i) # {} /\ (\E j : FirstMap(t, i, j)) /\ CodecOf(t, i) = CodecOf(sdp, i)
  BY <1>4, CodecStays
<1>6. Maps(t, last) = {Len(sdp) + 1}
  BY <1>2, <1>4 DEF Awaited
<1>7. CodecOf(t, last) = l.codec /\ \E j : FirstMap(t, last, j)
  BY <1>6, CodecTaken
<1>8. \A i \in Heads(sdp) : IsLast(sdp, i) => i = last
  <2>1. Heads(sdp) \subseteq Nat
    BY OneLineMore DEF Heads
  <2>2. IsLast(sdp, last)
    BY <1>2 DEF Awaited
  <2>3. QED
    BY <2>1, <2>2 DEF IsLast
<1> HIDE DEF t, kind
<1>9. \A i \in Heads(sdp) : i # last => Maps(t, i) = Maps(sdp, i)
  BY <1>4, <1>8
<1>10. HasFirst(t)
  BY <1>4, <1>5, <1>7, <1>9 DEF HasFirst
<1>11. \A k : TakenUp(t, k) = TakenUp(sdp, k) /\ TakenUp(sdp, k) \subseteq Heads(sdp)
  BY <1>4 DEF TakenUp
<1>12. last \in TakenUp(sdp, kind) /\ Maps(sdp, last) = {} /\ \A k : last \in TakenUp(sdp, k) => k = kind
  BY <1>2 DEF Awaited, TakenUp
<1>13. \A k \in Kinds : \A i \in TakenUp(sdp, k) : i # last =>
        /\ Maps(t, i) = Maps(sdp, i)
        /\ Maps(sdp, i) # {} => CodecOf(t, i) = CodecOf(sdp, i)
  BY <1>5, <1>9, <1>11
<1>14. WithCodec(t) = WithCodec(sdp) \cup {kind}
  BY <1>3, <1>6, <1>11, <1>12, <1>13 DEF WithCodec
<1>15. HasOther(t) <=> HasOther(sdp) \/ l.codec # Normalized[kind]
  BY <1>3, <1>6, <1>7, <1>11, <1>12, <1>13 DEF HasOther
<1>16. TurnedDown(t) = TurnedDown(sdp)
  BY <1>4 DEF TurnedDown
<1>17. ReadSoFar'
  BY <1>1, <1>14, <1>15, <1>16 DEF ReadSoFar
<1>18. \A k \in Kinds : \A i \in Heads(sdp) : ~Awaited(t, i, k)
  BY <1>4, <1>6, <1>8 DEF Awaited
<1>19. SectionIsLast'
  <2>1. CASE l.codec = Normalized[kind]
    <3>1. section' = [kind |-> section.kind, pt |-> NoPt]
      BY <1>1, <2>1 DEF SectionIsLast, Found
    <3>2. QED
      BY <1>1, <1>4, <1>18, <3>1 DEF SectionIsLast
  <2>2. CASE l.codec # Normalized[kind]
    BY <1>1, <2>2 DEF SectionIsLast
  <2>3. QED
    BY <2>1, <2>2
<1>20. WiredForAll' /\ DOMAIN codecs' \subseteq Kinds /\ unsupported' \in BOOLEAN
  BY <1>1, <1>3 DEF WiredForAll
<1>21. QED
  BY <1>1, <1>4, <1>10, <1>17, <1>19, <1>20

(* Applying looks at what was read, and changes none of it. *)
LEMMA ApplyStep ==
    ASSUME ScanInv, ApplyE2eeTransforms
    PROVE  ScanInv'
<1>1. /\ UNCHANGED <<sdp, section, codecs, rejected, unsupported>>
      /\ wiring' \in {"wired", "refused"}
      /\ wiring' = "wired" => ~unsupported /\ \A k \in Sending : ~Refused(k)
  BY DEF ApplyE2eeTransforms
<1>2. WiredForAll'
  BY <1>1 DEF WiredForAll, Refused
<1>3. SectionIsLast' /\ ReadSoFar'
  BY <1>1 DEF ScanInv, SectionIsLast, ReadSoFar
<1>4. QED
  BY <1>1, <1>2, <1>3 DEF ScanInv

(* Before the first line nothing is found and nothing awaited. *)
LEMMA ScanStarts == E2eeInit => ScanInv
<1>1. SUFFICES ASSUME E2eeInit PROVE ScanInv
  OBVIOUS
<1>2. /\ sdp = <<>> /\ section = NoSection /\ DOMAIN codecs = {} /\ rejected = {}
      /\ unsupported = FALSE /\ wiring = "parsing"
  BY <1>1 DEF E2eeInit
<1>3. sdp \in Seq(Lines) /\ Heads(sdp) = {}
  BY <1>2 DEF Heads
<1>4. \A k : TakenUp(sdp, k) = {}
  BY <1>3 DEF TakenUp
<1>5. SectionIsLast
  BY <1>2, <1>3 DEF SectionIsLast, NoSection
<1>6. ReadSoFar
  BY <1>2, <1>3, <1>4 DEF ReadSoFar, TurnedDown, WithCodec, HasOther
<1>7. QED
  BY <1>2, <1>3, <1>5, <1>6 DEF ScanInv, HasFirst, WiredForAll

(* Reading a line or applying what was read keeps the invariant. *)
LEMMA ScanStep ==
    ASSUME ScanInv, [E2eeNext]_e2eeVars
    PROVE  ScanInv'
<1>1. CASE UNCHANGED e2eeVars
  BY <1>1 DEF e2eeVars, ScanInv, SectionIsLast, ReadSoFar, WiredForAll, Refused
<1>2. CASE ApplyE2eeTransforms
  BY <1>2, ApplyStep
<1>3. ASSUME NEW l \in Lines, ReadLine(l) PROVE ScanInv'
  <2>1. CASE ReadMLine(l)
    BY <1>3, <2>1, MLineStep
  <2>2. CASE ReadRtpmap(l) /\ (section.pt = NoPt \/ l.pt # section.pt)
    BY <1>3, <2>2, RtpmapPassed
  <2>3. CASE ReadRtpmap(l) /\ section.pt # NoPt /\ l.pt = section.pt
    BY <1>3, <2>3, RtpmapTaken
  <2>4. QED
    BY <1>3, <2>1, <2>2, <2>3 DEF ReadLine
<1>4. QED
  BY <1>1, <1>2, <1>3 DEF E2eeNext

-----------------------------------------------------------------------------
(* What the invariant says of the description. *)
LEMMA ScanSays == ScanInv => ParsedAsWritten /\ NoSenderForgotten
<1>1. SUFFICES ASSUME ScanInv PROVE ParsedAsWritten /\ NoSenderForgotten
  OBVIOUS
<1>2. /\ MLines = Heads(sdp)
      /\ \A k : Accepted(k) = TakenUp(sdp, k)
      /\ \A i : Mapped(i) = Maps(sdp, i) /\ CodecAt(i) = CodecOf(sdp, i)
  BY DEF MLines, Heads, Accepted, TakenUp, Mapped, Maps, CodecAt, CodecOf
<1>3. /\ rejected = TurnedDown(sdp)
      /\ unsupported <=> HasOther(sdp)
      /\ ~unsupported => DOMAIN codecs = WithCodec(sdp)
  BY <1>1 DEF ScanInv, ReadSoFar
<1>4. ParsedAsWritten
  BY <1>2, <1>3 DEF ParsedAsWritten, TurnedDown, HasOther, WithCodec
<1>5. NoSenderForgotten
  <2>1. SUFFICES ASSUME wiring = "wired", NEW k \in Sending
                 PROVE  \/ \E i \in TakenUp(sdp, k) : Maps(sdp, i) # {} /\ CodecOf(sdp, i) = Normalized[k]
                        \/ \E i \in Heads(sdp) : sdp[i].media = k /\ sdp[i].zeroPort
    BY <1>2 DEF NoSenderForgotten
  <2>2. ~unsupported /\ ~Refused(k)
    BY <1>1, <2>1 DEF ScanInv, WiredForAll
  <2>3. k \in WithCodec(sdp) \/ k \in TurnedDown(sdp)
    BY <1>3, <2>2 DEF Refused
  <2>4. QED
    BY <1>3, <2>2, <2>3 DEF WithCodec, TurnedDown, HasOther
<1>6. QED
  BY <1>4, <1>5

(***************************************************************************)
(* parseNegotiatedCodecs, in one pass, finds for each kind the codec that  *)
(* the description as a whole gives it, and refuses what it must refuse,   *)
(* for any lines in any order and number.                                  *)
(***************************************************************************)
THEOREM AlwaysParsedAsWritten == E2eeSpec => []ParsedAsWritten
<1>1. ScanInv => ParsedAsWritten
  BY ScanSays
<1>2. QED
  BY <1>1, ScanStarts, ScanStep, PTL DEF E2eeSpec

(***************************************************************************)
(* applyE2eeTransformsWithConfig never leaves a sender untransformed whose *)
(* kind the description has and does not turn down, for any description.   *)
(***************************************************************************)
THEOREM NoSenderEverForgotten == E2eeSpec => []NoSenderForgotten
<1>1. ScanInv => NoSenderForgotten
  BY ScanSays
<1>2. QED
  BY <1>1, ScanStarts, ScanStep, PTL DEF E2eeSpec

-----------------------------------------------------------------------------
(* processFrame at both ends, for frames of any length.                    *)
(*                                                                         *)
(* What is sent is known byte by byte: the header, the IV, and sealed      *)
(* bytes, numbered from 1.  What the receiver takes says where it must     *)
(* have been cut and that no byte of it is another; a frame that was       *)
(* changed, shortened or read with another header differs somewhere.       *)

PlainFrame(n) == [i \in 1 .. n |-> Byte(i)]
HeaderPart(type, n) == SubSeq(PlainFrame(n), 1, HeaderOf[type])
PayloadPart(type, n) == SubSeq(PlainFrame(n), HeaderOf[type] + 1, n)
SealedByte(type, n, i) ==
    [kind |-> "sealed", of |-> <<"k", Iv("k"), HeaderPart(type, n), PayloadPart(type, n), i>>]

IvByte(i) == [kind |-> "iv", of |-> <<"k", i>>]

\* The bytes of a frame that is sent.
SentFrame(type, n, s) ==
    /\ DOMAIN s = 1 .. n + IvLength + TagLength
    /\ \A i \in 1 .. HeaderOf[type] : s[i] = Byte(i)
    /\ \A i \in 1 .. IvLength : s[HeaderOf[type] + i] = IvByte(i)
    /\ \A i \in 1 .. n - HeaderOf[type] + TagLength :
        s[HeaderOf[type] + IvLength + i] = SealedByte(type, n, i)

LEMMA PlainParts ==
    ASSUME NEW type \in DOMAIN HeaderOf, NEW n \in Nat, HeaderOf[type] <= n
    PROVE  /\ HeaderOf[type] \in Nat \ {0} /\ IvLength \in Nat \ {0} /\ TagLength \in Nat \ {0}
           /\ PlainFrame(n) \in Seq({Byte(i) : i \in Nat}) /\ Len(PlainFrame(n)) = n
           /\ HeaderPart(type, n) \in Seq({Byte(i) : i \in Nat})
           /\ Len(HeaderPart(type, n)) = HeaderOf[type]
           /\ \A i \in 1 .. HeaderOf[type] : HeaderPart(type, n)[i] = Byte(i)
           /\ PayloadPart(type, n) \in Seq({Byte(i) : i \in Nat})
           /\ Len(PayloadPart(type, n)) = n - HeaderOf[type]
           /\ \A i \in 1 .. n - HeaderOf[type] : PayloadPart(type, n)[i] = Byte(HeaderOf[type] + i)
<1> DEFINE h == HeaderOf[type]
           B == {Byte(i) : i \in Nat}
<1>1. h \in Nat \ {0} /\ IvLength \in Nat \ {0} /\ TagLength \in Nat \ {0}
  BY E2eeAssumption
<1>2. /\ PlainFrame(n) \in Seq(B) /\ Len(PlainFrame(n)) = n
      /\ \A i \in 1 .. n : PlainFrame(n)[i] = Byte(i)
  BY DEF PlainFrame
<1> HIDE DEF h, B
<1>3. h <= n
  BY DEF h
<1>4. /\ SubSeq(PlainFrame(n), 1, h) \in Seq(B)
      /\ Len(SubSeq(PlainFrame(n), 1, h)) = h
      /\ \A i \in 1 .. h : SubSeq(PlainFrame(n), 1, h)[i] = Byte(i)
  BY <1>1, <1>2, <1>3
<1>5. /\ SubSeq(PlainFrame(n), h + 1, n) \in Seq(B)
      /\ Len(SubSeq(PlainFrame(n), h + 1, n)) = n - h
      /\ \A i \in 1 .. n - h : SubSeq(PlainFrame(n), h + 1, n)[i] = Byte(h + i)
  BY <1>1, <1>2, <1>3
<1>6. QED
  BY <1>1, <1>2, <1>4, <1>5 DEF h, B, HeaderPart, PayloadPart

LEMMA EncryptedFrame ==
    ASSUME NEW type \in DOMAIN HeaderOf, NEW n \in Nat, HeaderOf[type] <= n
    PROVE  \E s, S : /\ Encrypt("k", type, PlainFrame(n)) = Ok(s)
                     /\ s \in Seq(S)
                     /\ Len(s) = n + IvLength + TagLength
                     /\ SentFrame(type, n, s)
<1> DEFINE h == HeaderOf[type]
           header == HeaderPart(type, n)
           payload == PayloadPart(type, n)
           seal == Seal("k", Iv("k"), header, payload)
           S == {Byte(i) : i \in Nat} \cup {IvByte(i) : i \in Nat}
                  \cup {SealedByte(type, n, i) : i \in Nat}
<1>1. /\ h \in Nat \ {0} /\ IvLength \in Nat \ {0} /\ TagLength \in Nat \ {0} /\ h <= n
      /\ Len(PlainFrame(n)) = n
      /\ header \in Seq(S) /\ Len(header) = h /\ \A i \in 1 .. h : header[i] = Byte(i)
      /\ Len(payload) = n - h
  <2>1. header \in Seq({Byte(i) : i \in Nat})
    BY PlainParts
  <2>2. header \in Seq(S)
    BY <2>1
  <2>3. QED
    BY <2>2, PlainParts
<1>2. /\ Iv("k") \in Seq(S) /\ Len(Iv("k")) = IvLength
      /\ \A i \in 1 .. IvLength : Iv("k")[i] = IvByte(i)
  <2>1. Iv("k") = [i \in 1 .. IvLength |-> IvByte(i)]
    BY DEF Iv, IvByte
  <2>2. \A i \in 1 .. IvLength : IvByte(i) \in S
    BY <1>1
  <2> HIDE DEF S
  <2>3. QED
    BY <1>1, <2>1, <2>2
<1>3. /\ seal \in Seq(S) /\ Len(seal) = n - h + TagLength
      /\ \A i \in 1 .. n - h + TagLength : seal[i] = SealedByte(type, n, i)
  <2>1. seal = [i \in 1 .. n - h + TagLength |-> SealedByte(type, n, i)]
    BY <1>1 DEF Seal, SealedByte
  <2>2. \A i \in 1 .. n - h + TagLength : SealedByte(type, n, i) \in S
    BY <1>1
  <2> HIDE DEF S, seal
  <2>3. n - h + TagLength \in Nat
    BY <1>1
  <2>4. QED
    BY <2>1, <2>2, <2>3
<1>4. Encrypt("k", type, PlainFrame(n)) = Ok(header \o Iv("k") \o seal)
  <2>1. ~(n < h)
    BY <1>1
  <2>2. QED
    BY <1>1, <2>1 DEF Encrypt, Aad, HeaderPart, PayloadPart
<1> HIDE DEF S, seal, header, payload, h
<1> DEFINE front == header \o Iv("k")
<1>5. /\ front \in Seq(S) /\ Len(front) = h + IvLength
      /\ \A i \in 1 .. h + IvLength : front[i] = IF i <= h THEN header[i] ELSE Iv("k")[i - h]
  BY <1>1, <1>2, ConcatProperties
<1> HIDE DEF front
<1> DEFINE s == front \o seal
<1>6. /\ s \in Seq(S) /\ Len(s) = Len(front) + Len(seal)
      /\ \A i \in 1 .. Len(front) + Len(seal) :
            s[i] = IF i <= Len(front) THEN front[i] ELSE seal[i - Len(front)]
  BY <1>3, <1>5, ConcatProperties
<1> HIDE DEF s
<1>7. Len(s) = n + IvLength + TagLength /\ DOMAIN s = 1 .. n + IvLength + TagLength
  BY <1>1, <1>3, <1>5, <1>6
<1>8. \A i \in 1 .. h : s[i] = Byte(i)
  BY <1>1, <1>3, <1>5, <1>6
<1>9. \A i \in 1 .. IvLength : s[h + i] = IvByte(i)
  <2>1. SUFFICES ASSUME NEW i \in 1 .. IvLength PROVE s[h + i] = Iv("k")[i]
    BY <1>2
  <2>2. h + i \in 1 .. h + IvLength /\ ~(h + i <= h) /\ (h + i) - h = i /\ h + i \in 1 .. Len(front) + Len(seal)
    BY <1>1, <1>3, <1>5
  <2>3. QED
    BY <1>5, <1>6, <2>2
<1>10. \A i \in 1 .. n - h + TagLength : s[h + IvLength + i] = SealedByte(type, n, i)
  <2>1. SUFFICES ASSUME NEW i \in 1 .. n - h + TagLength PROVE s[h + IvLength + i] = seal[i]
    BY <1>3
  <2>2. /\ h + IvLength + i \in 1 .. Len(front) + Len(seal)
        /\ ~(h + IvLength + i <= Len(front)) /\ (h + IvLength + i) - Len(front) = i
    BY <1>1, <1>3, <1>5
  <2>3. QED
    BY <1>6, <2>2
<1>11. SentFrame(type, n, s)
  BY <1>7, <1>8, <1>9, <1>10 DEF SentFrame, h
<1>12. Encrypt("k", type, PlainFrame(n)) = Ok(s)
  BY <1>4 DEF s, front
<1>13. QED
  BY <1>6, <1>7, <1>11, <1>12

\* Where the receiver must have cut a frame it takes, and what it must have found there.
LEMMA OpenedFrame ==
    ASSUME NEW S, NEW f \in Seq(S), NEW type \in DOMAIN HeaderOf, NEW key,
           Decrypt(key, type, f).result = "ok"
    PROVE  LET h == HeaderOf[type]
               start == h + IvLength
           IN  /\ h + IvLength + TagLength <= Len(f)
               /\ f[start + 1].kind = "sealed"
               /\ f[start + 1].of = <<key, SubSeq(f, h + 1, start), SubSeq(f, 1, h), f[start + 1].of[4], 1>>
               /\ 1 .. Len(f) - start = 1 .. Len(f[start + 1].of[4]) + TagLength
               /\ \A i \in 1 .. Len(f) - start : f[start + i].kind = "sealed"
<1> DEFINE h == HeaderOf[type]
           start == h + IvLength
           header == SubSeq(f, 1, h)
           iv == SubSeq(f, h + 1, start)
           ciphertext == SubSeq(f, start + 1, Len(f))
           payload == ciphertext[1].of[4]
           seal == Seal(key, iv, header, payload)
<1>1. h \in Nat \ {0} /\ IvLength \in Nat \ {0} /\ TagLength \in Nat \ {0}
  BY E2eeAssumption
<1>2. ~TooShort(type, f) /\ ciphertext[1].kind = "sealed" /\ ciphertext = seal
  BY DEF Decrypt, Malformed, CryptoFailed, Aad
<1>3. ~(Len(f) < h + IvLength + TagLength)
  BY <1>2 DEF TooShort
<1> HIDE DEF h
<1>4. Len(f) \in Nat /\ h + IvLength + TagLength <= Len(f) /\ start \in Nat /\ start + 1 <= Len(f)
  BY <1>1, <1>3
<1> HIDE DEF start, header, iv
<1>5. /\ Len(ciphertext) = Len(f) - start /\ DOMAIN ciphertext = 1 .. Len(f) - start
      /\ \A i \in 1 .. Len(f) - start : ciphertext[i] = f[start + i]
  BY <1>4
<1> HIDE DEF ciphertext
<1>6. 1 \in 1 .. Len(f) - start /\ ciphertext[1] = f[start + 1]
  BY <1>4, <1>5
<1> HIDE DEF payload
<1>7. /\ DOMAIN seal = 1 .. Len(payload) + TagLength
      /\ \A i \in 1 .. Len(payload) + TagLength :
            seal[i] = [kind |-> "sealed", of |-> <<key, iv, header, payload, i>>]
  BY DEF Seal
<1> HIDE DEF seal
<1>8. 1 .. Len(f) - start = 1 .. Len(payload) + TagLength
  BY <1>2, <1>5, <1>7
<1>9. \A i \in 1 .. Len(f) - start :
        f[start + i] = [kind |-> "sealed", of |-> <<key, iv, header, payload, i>>]
  BY <1>2, <1>5, <1>7, <1>8
<1>10. f[start + 1] = [kind |-> "sealed", of |-> <<key, iv, header, payload, 1>>]
  BY <1>6, <1>9
<1>11. payload = f[start + 1].of[4]
  BY <1>6 DEF payload
<1>12. \A i \in 1 .. Len(f) - start : f[start + i].kind = "sealed"
  <2>1. SUFFICES ASSUME NEW i \in 1 .. Len(f) - start PROVE f[start + i].kind = "sealed"
    OBVIOUS
  <2>2. f[start + i] = [kind |-> "sealed", of |-> <<key, iv, header, payload, i>>]
    BY <1>9, Zenon
  <2>3. QED
    BY <2>2
<1>13. f[start + 1].kind = "sealed" /\ f[start + 1].of = <<key, iv, header, payload, 1>>
  BY <1>10
<1> HIDE DEF payload
<1>14. QED
  BY <1>4, <1>8, <1>11, <1>12, <1>13 DEF h, start, header, iv

\* A frame that was not touched.
LEMMA SameBytes ==
    ASSUME NEW S, NEW s \in Seq(S), NEW type \in DOMAIN HeaderOf, NEW n \in Nat,
           HeaderOf[type] <= n, Len(s) = n + IvLength + TagLength, SentFrame(type, n, s)
    PROVE  Decrypt("k", type, s) = Ok(PlainFrame(n))
<1> DEFINE h == HeaderOf[type]
           start == h + IvLength
           header == SubSeq(s, 1, h)
           iv == SubSeq(s, h + 1, start)
           ciphertext == SubSeq(s, start + 1, Len(s))
           B == {Byte(i) : i \in Nat}
<1>1. /\ h \in Nat \ {0} /\ IvLength \in Nat \ {0} /\ TagLength \in Nat \ {0} /\ h <= n
      /\ \A i \in 1 .. h : s[i] = Byte(i)
      /\ \A i \in 1 .. IvLength : s[h + i] = IvByte(i)
      /\ \A i \in 1 .. n - h + TagLength : s[start + i] = SealedByte(type, n, i)
      /\ HeaderPart(type, n) \in Seq(B) /\ Len(HeaderPart(type, n)) = h
      /\ \A i \in 1 .. h : HeaderPart(type, n)[i] = Byte(i)
      /\ PayloadPart(type, n) \in Seq(B) /\ Len(PayloadPart(type, n)) = n - h
      /\ \A i \in 1 .. n - h : PayloadPart(type, n)[i] = Byte(h + i)
      /\ PlainFrame(n) \in Seq(B) /\ Len(PlainFrame(n)) = n
  BY PlainParts DEF SentFrame
<1>2. ~TooShort(type, s)
  BY <1>1 DEF TooShort
<1> HIDE DEF h, B
<1>3. /\ header \in Seq(S) /\ Len(header) = h /\ \A i \in 1 .. h : header[i] = s[i]
      /\ iv \in Seq(S) /\ Len(iv) = IvLength /\ \A i \in 1 .. IvLength : iv[i] = s[h + i]
      /\ ciphertext \in Seq(S) /\ Len(ciphertext) = n - h + TagLength
      /\ \A i \in 1 .. n - h + TagLength : ciphertext[i] = s[start + i]
  <2>1. header \in Seq(S) /\ Len(header) = h /\ \A i \in 1 .. h : header[i] = s[i]
    BY <1>1
  <2>2. iv \in Seq(S) /\ Len(iv) = IvLength /\ \A i \in 1 .. IvLength : iv[i] = s[h + i]
    BY <1>1
  <2>3. /\ ciphertext \in Seq(S) /\ Len(ciphertext) = n - h + TagLength
        /\ \A i \in 1 .. n - h + TagLength : ciphertext[i] = s[start + i]
    BY <1>1
  <2>4. QED
    BY <2>1, <2>2, <2>3
<1> HIDE DEF header, iv, ciphertext
<1>4. header = HeaderPart(type, n)
  <2>1. \A i \in 1 .. h : header[i] = HeaderPart(type, n)[i]
    BY <1>1, <1>3
  <2>2. header = [i \in 1 .. h |-> header[i]] /\ HeaderPart(type, n) = [i \in 1 .. h |-> HeaderPart(type, n)[i]]
    BY <1>1, <1>3
  <2>3. QED
    BY <2>1, <2>2
<1>5. iv = Iv("k")
  <2>1. iv = [i \in 1 .. IvLength |-> iv[i]]
    BY <1>3
  <2>2. \A i \in 1 .. IvLength : iv[i] = IvByte(i)
    BY <1>1, <1>3
  <2>3. QED
    BY <2>1, <2>2 DEF Iv, IvByte
<1>6. 1 \in 1 .. n - h + TagLength
  BY <1>1
<1>7. ciphertext[1] = SealedByte(type, n, 1)
  BY <1>1, <1>3, <1>6
<1>8. ciphertext[1].kind = "sealed" /\ ciphertext[1].of[4] = PayloadPart(type, n)
  BY <1>7 DEF SealedByte
<1>9. ciphertext = Seal("k", iv, header, PayloadPart(type, n))
  <2>1. ciphertext = [i \in 1 .. n - h + TagLength |-> ciphertext[i]]
    BY <1>1, <1>3
  <2>2. \A i \in 1 .. n - h + TagLength : ciphertext[i] = SealedByte(type, n, i)
    BY <1>1, <1>3
  <2>3. QED
    BY <2>1, <2>2, <1>1, <1>4, <1>5 DEF Seal, SealedByte
<1>10. HeaderPart(type, n) \o PayloadPart(type, n) = PlainFrame(n)
  <2> DEFINE first == HeaderPart(type, n)
             last == PayloadPart(type, n)
             whole == first \o last
  <2>1. first \in Seq(B) /\ Len(first) = h /\ last \in Seq(B) /\ Len(last) = n - h
    BY <1>1
  <2> HIDE DEF first, last
  <2>2. /\ whole \in Seq(B) /\ Len(whole) = Len(first) + Len(last)
        /\ \A i \in 1 .. Len(first) + Len(last) :
            whole[i] = IF i <= Len(first) THEN first[i] ELSE last[i - Len(first)]
    BY <2>1, ConcatProperties
  <2> HIDE DEF whole
  <2>3. /\ whole \in Seq(B) /\ Len(whole) = h + (n - h)
        /\ \A i \in 1 .. h + (n - h) :
            whole[i] = IF i <= h THEN first[i] ELSE last[i - h]
    BY <2>1, <2>2
  <2>4. Len(whole) = n /\ whole = [i \in 1 .. n |-> whole[i]]
    BY <1>1, <2>3
  <2>5. ASSUME NEW i \in 1 .. n PROVE whole[i] = Byte(i)
    <3>1. CASE i <= h
      <4>1. whole[i] = first[i] /\ i \in 1 .. h
        BY <3>1, <1>1, <2>3, SMTT(30)
      <4>2. \A k \in 1 .. h : first[k] = Byte(k)
        BY <1>1 DEF first
      <4>3. QED
        BY <4>1, <4>2
    <3>2. CASE ~(i <= h)
      <4>1. i - h \in 1 .. n - h /\ h + (i - h) = i /\ i \in 1 .. h + (n - h)
        BY <3>2, <1>1
      <4>2. whole[i] = PayloadPart(type, n)[i - h]
        BY <3>2, <4>1, <2>3 DEF last
      <4>3. PayloadPart(type, n)[i - h] = Byte(h + (i - h))
        BY <4>1, <1>1
      <4>4. QED
        BY <4>1, <4>2, <4>3
    <3>3. QED
      BY <3>1, <3>2
  <2>6. whole = PlainFrame(n)
    BY <2>4, <2>5 DEF PlainFrame
  <2>7. QED
    BY <2>6 DEF whole, first, last
<1>11. Decrypt("k", type, s) = Ok(header \o ciphertext[1].of[4])
  BY <1>2, <1>8, <1>9 DEF Decrypt, Aad, header, iv, ciphertext, h, start
<1>12. QED
  BY <1>4, <1>8, <1>10, <1>11

LEMMA ByteParts ==
    ASSUME NEW type, NEW n, NEW i
    PROVE  /\ SealedByte(type, n, i).kind = "sealed"
           /\ SealedByte(type, n, i).of[1] = "k"
           /\ SealedByte(type, n, i).of[2] = Iv("k")
           /\ SealedByte(type, n, i).of[3] = HeaderPart(type, n)
           /\ SealedByte(type, n, i).of[4] = PayloadPart(type, n)
           /\ SealedByte(type, n, i).of[5] = i
           /\ IvByte(i).kind = "iv"
           /\ Byte(i).kind = "plain"
           /\ Byte(i).of[1] = i
  BY DEF SealedByte, IvByte, Byte

\* The same as OpenedFrame says, part by part.
LEMMA OpenedParts ==
    ASSUME NEW S, NEW f \in Seq(S), NEW type \in DOMAIN HeaderOf, NEW key,
           Decrypt(key, type, f).result = "ok",
           NEW h, h = HeaderOf[type], NEW start, start = h + IvLength
    PROVE  /\ start + TagLength <= Len(f)
           /\ f[start + 1].kind = "sealed"
           /\ f[start + 1].of[1] = key
           /\ f[start + 1].of[2] = SubSeq(f, h + 1, start)
           /\ f[start + 1].of[3] = SubSeq(f, 1, h)
           /\ f[start + 1].of[5] = 1
           /\ 1 .. Len(f) - start = 1 .. Len(f[start + 1].of[4]) + TagLength
           /\ \A i \in 1 .. Len(f) - start : f[start + i].kind = "sealed"
<1> DEFINE payload == f[start + 1].of[4]
           header == SubSeq(f, 1, h)
           iv == SubSeq(f, h + 1, start)
<1>1. /\ start + TagLength <= Len(f)
      /\ f[start + 1].kind = "sealed"
      /\ f[start + 1].of = <<key, iv, header, payload, 1>>
      /\ 1 .. Len(f) - start = 1 .. Len(payload) + TagLength
      /\ \A i \in 1 .. Len(f) - start : f[start + i].kind = "sealed"
  BY OpenedFrame
<1> DEFINE of == f[start + 1].of
<1>2. of = <<key, iv, header, payload, 1>>
  BY <1>1
<1> HIDE DEF payload, header, iv, of
<1>3. of[1] = key /\ of[2] = iv /\ of[3] = header /\ of[5] = 1
  BY <1>2
<1>4. QED
  BY <1>1, <1>3 DEF payload, header, iv, of

LEMMA TakenAsSentOnly ==
    ASSUME NEW S, NEW s \in Seq(S), NEW type \in DOMAIN HeaderOf, NEW n \in Nat,
           HeaderOf[type] <= n, Len(s) = n + IvLength + TagLength, SentFrame(type, n, s)
    PROVE  /\ Decrypt("l", type, s).result # "ok"
           /\ \A other \in DOMAIN HeaderOf :
                HeaderOf[other] # HeaderOf[type] => Decrypt("k", other, s).result # "ok"
           /\ \A i \in DOMAIN s :
                /\ Decrypt("k", type, [s EXCEPT ![i] = Byte(0)]).result # "ok"
                /\ Decrypt("k", type, SubSeq(s, 1, i - 1)).result # "ok"
<1> DEFINE h == HeaderOf[type]
           start == h + IvLength
<1>1. /\ h \in Nat \ {0} /\ IvLength \in Nat \ {0} /\ TagLength \in Nat \ {0} /\ h <= n
      /\ \A i \in 1 .. h : s[i] = Byte(i)
      /\ \A i \in 1 .. IvLength : s[h + i] = IvByte(i)
      /\ \A i \in 1 .. n - h + TagLength : s[start + i] = SealedByte(type, n, i)
      /\ \A i \in 1 .. h : HeaderPart(type, n)[i] = Byte(i)
      /\ Len(PayloadPart(type, n)) = n - h
      /\ DOMAIN s = 1 .. n + IvLength + TagLength
  BY PlainParts DEF SentFrame
<1>2. h = HeaderOf[type]
  OBVIOUS
<1> HIDE DEF h
<1>3. s[start + 1] = SealedByte(type, n, 1) /\ start \in Nat /\ start + 1 \in DOMAIN s
  BY <1>1
<1>4. start = h + IvLength
  OBVIOUS
<1> HIDE DEF start
<1>5. Decrypt("l", type, s).result # "ok"
  <2>1. SUFFICES ASSUME Decrypt("l", type, s).result = "ok" PROVE FALSE
    OBVIOUS
  <2>2. s[start + 1].of[1] = "l"
    BY <1>2, <1>4, <2>1, OpenedParts
  <2>3. s[start + 1].of[1] = "k"
    BY <1>3, ByteParts
  <2>4. QED
    BY <2>2, <2>3
<1>6. ASSUME NEW other \in DOMAIN HeaderOf, HeaderOf[other] # h,
             Decrypt("k", other, s).result = "ok"
      PROVE  FALSE
  <2> DEFINE g == HeaderOf[other]
             cut == g + IvLength
  <2>1. g \in Nat \ {0} /\ g # h
    BY <1>6, E2eeAssumption
  <2>2. cut + TagLength <= Len(s) /\ s[cut + 1].kind = "sealed" /\ s[cut + 1].of[5] = 1
    BY <1>6, OpenedParts
  <2> HIDE DEF g
  <2>3. CASE cut + 1 <= h
    <3>1. cut + 1 \in 1 .. h
      BY <2>1, <2>3, <1>1
    <3>2. s[cut + 1].kind = "plain"
      BY <3>1, <1>1, ByteParts
    <3>3. QED
      BY <2>2, <3>2
  <2>4. CASE h < cut + 1 /\ g < h
    <3>1. (cut + 1) - h \in 1 .. IvLength /\ h + ((cut + 1) - h) = cut + 1
      BY <2>1, <2>4, <1>1
    <3>2. s[h + ((cut + 1) - h)] = IvByte((cut + 1) - h)
      BY <3>1, <1>1
    <3>3. s[cut + 1].kind = "iv"
      BY <3>1, <3>2, ByteParts
    <3>4. QED
      BY <2>2, <3>3
  <2>5. CASE h < g
    <3>1. /\ (g - h) + 1 \in 1 .. n - h + TagLength /\ start + ((g - h) + 1) = cut + 1
          /\ (g - h) + 1 # 1
      BY <2>1, <2>2, <2>5, <1>1, <1>4
    <3>2. s[start + ((g - h) + 1)] = SealedByte(type, n, (g - h) + 1)
      BY <3>1, <1>1
    <3>3. s[cut + 1].of[5] = (g - h) + 1
      BY <3>1, <3>2, ByteParts
    <3>4. QED
      BY <2>2, <3>1, <3>3
  <2>6. QED
    BY <2>1, <2>3, <2>4, <2>5, <1>1
<1>7. ASSUME NEW i \in DOMAIN s, Decrypt("k", type, [s EXCEPT ![i] = Byte(0)]).result = "ok"
      PROVE  FALSE
  <2> DEFINE f == [s EXCEPT ![i] = Byte(0)]
             T == S \cup {Byte(0)}
  <2>1. /\ f \in Seq(T) /\ Len(f) = Len(s) /\ f[i] = Byte(0) /\ Len(s) \in Nat
        /\ \A j \in DOMAIN s : j # i => f[j] = s[j]
    <3> HIDE DEF T
    <3>1. s \in Seq(T) /\ Byte(0) \in T
      BY DEF T
    <3>2. QED
      BY <3>1
  <2>2. Decrypt("k", type, f).result = "ok"
    BY <1>7
  <2> HIDE DEF f, T
  <2>3. /\ f[start + 1].of[2] = SubSeq(f, h + 1, start)
        /\ f[start + 1].of[3] = SubSeq(f, 1, h)
        /\ \A j \in 1 .. Len(f) - start : f[start + j].kind = "sealed"
    <3>1. f \in Seq(T)
      BY <2>1
    <3>2. f[start + 1].of[2] = SubSeq(f, h + 1, start)
      BY <1>2, <1>4, <2>2, <3>1, OpenedParts, SMTT(30)
    <3>3. f[start + 1].of[3] = SubSeq(f, 1, h)
      BY <1>2, <1>4, <2>2, <3>1, OpenedParts, SMTT(30)
    <3>4. \A j \in 1 .. Len(f) - start : f[start + j].kind = "sealed"
      BY <1>2, <1>4, <2>2, <3>1, OpenedParts
    <3>5. QED
      BY <3>2, <3>3, <3>4
  <2>4. i \in 1 .. n + IvLength + TagLength
    BY <1>1
  <2>5. f[i].kind = "plain"
    BY <2>1, ByteParts
  <2>6. CASE i > start
    <3>1. i - start \in 1 .. Len(f) - start /\ start + (i - start) = i
      BY <2>1, <2>4, <2>6, <1>3
    <3>2. f[start + (i - start)].kind = "sealed"
      BY <2>3, <3>1
    <3>3. QED
      BY <2>5, <3>1, <3>2
  <2>7. CASE i <= start
    <3>1. f[start + 1] = SealedByte(type, n, 1)
      BY <1>3, <2>1, <2>4, <2>7
    <3>2. SubSeq(f, h + 1, start) = Iv("k") /\ SubSeq(f, 1, h) = HeaderPart(type, n)
      BY <2>3, <3>1, ByteParts
    <3>3. /\ \A j \in 1 .. IvLength : SubSeq(f, h + 1, start)[j] = f[h + j]
          /\ \A j \in 1 .. h : SubSeq(f, 1, h)[j] = f[j]
      <4>1. h <= Len(f) /\ start <= Len(f)
        BY <1>1, <1>4, <2>1
      <4>2. \A j \in 1 .. IvLength : SubSeq(f, h + 1, start)[j] = f[h + j]
        BY <1>1, <1>4, <2>1, <4>1
      <4>3. \A j \in 1 .. h : SubSeq(f, 1, h)[j] = f[j]
        BY <1>1, <2>1, <4>1
      <4>4. QED
        BY <4>2, <4>3
    <3>4. CASE i <= h
      <4>1. i \in 1 .. h /\ i # 0
        BY <2>4, <3>4, <1>1
      <4>2. Byte(i) = Byte(0)
        BY <4>1, <1>1, <2>1, <3>2, <3>3
      <4>3. Byte(i).of[1] = i /\ Byte(0).of[1] = 0
        BY DEF Byte
      <4>4. QED
        BY <4>1, <4>2, <4>3
    <3>5. CASE i > h
      <4>1. i - h \in 1 .. IvLength /\ h + (i - h) = i
        BY <2>4, <2>7, <3>5, <1>1, <1>4
      <4>2. Iv("k")[i - h] = f[i]
        BY <4>1, <3>2, <3>3
      <4>3. Iv("k")[i - h].kind = "iv"
        BY <4>1 DEF Iv
      <4>4. QED
        BY <2>5, <4>2, <4>3
    <3>6. QED
      BY <3>4, <3>5, <2>4, <1>1
  <2>8. QED
    BY <2>4, <2>6, <2>7, <1>3
<1>8. ASSUME NEW i \in DOMAIN s, Decrypt("k", type, SubSeq(s, 1, i - 1)).result = "ok"
      PROVE  FALSE
  <2> DEFINE f == SubSeq(s, 1, i - 1)
  <2>1. i \in 1 .. Len(s) /\ Len(s) \in Nat
    OBVIOUS
  <2>2. f \in Seq(S) /\ Len(f) = i - 1 /\ \A j \in 1 .. i - 1 : f[j] = s[j]
    BY <2>1
  <2>3. Decrypt("k", type, f).result = "ok"
    BY <1>8
  <2> HIDE DEF f
  <2>4. /\ start + TagLength <= Len(f)
        /\ 1 .. Len(f) - start = 1 .. Len(f[start + 1].of[4]) + TagLength
    BY <1>2, <1>4, <2>2, <2>3, OpenedParts, SMTT(30)
  <2>5. start + 1 \in 1 .. i - 1
    <3>1. start + TagLength <= i - 1 /\ TagLength \in Nat \ {0} /\ start \in Nat /\ i \in Nat
      BY <1>1, <1>3, <2>1, <2>2, <2>4
    <3>2. QED
      BY <3>1
  <2>6. f[start + 1].of[4] = PayloadPart(type, n)
    BY <1>3, <2>2, <2>5, ByteParts
  <2>7. 1 .. (i - 1) - start = 1 .. (n - h) + TagLength
    BY <1>1, <2>2, <2>4, <2>6
  <2>8. (n - h) + TagLength \in 1 .. (i - 1) - start
    <3>1. (n - h) + TagLength \in 1 .. (n - h) + TagLength
      BY <1>1
    <3>2. QED
      BY <3>1, <2>7
  <2>9. QED
    BY <1>1, <1>3, <1>4, <2>1, <2>8
<1>9. QED
  BY <1>2, <1>5, <1>6, <1>7, <1>8

(***************************************************************************)
(* What a sender encrypts the receiver of the same key and codec gets back *)
(* byte for byte, and nothing else is ever taken for it, for headers, IVs, *)
(* tags and payloads of any length.                                        *)
(***************************************************************************)
LEMMA EveryFrameSurvives ==
    ASSUME NEW type \in DOMAIN HeaderOf
    PROVE  FrameSurvives[type]
<1> DEFINE Survives(n) ==
        LET data == [i \in 1 .. n |-> Byte(i)]
            sent == Encrypt("k", type, data)
        IN  sent.result = "ok" =>
                /\ Decrypt("k", type, sent.data) = Ok(data)
                /\ Decrypt("l", type, sent.data).result # "ok"
                /\ \A other \in DOMAIN HeaderOf :
                    HeaderOf[other] # HeaderOf[type] => Decrypt("k", other, sent.data).result # "ok"
                /\ \A i \in DOMAIN sent.data :
                    /\ Decrypt("k", type, [sent.data EXCEPT ![i] = Byte(0)]).result # "ok"
                    /\ Decrypt("k", type, SubSeq(sent.data, 1, i - 1)).result # "ok"
<1>1. ASSUME NEW n \in Nat, HeaderOf[type] <= n
      PROVE  Survives(n)
  <2>1. PICK s, S : /\ Encrypt("k", type, PlainFrame(n)) = Ok(s)
                    /\ s \in Seq(S)
                    /\ Len(s) = n + IvLength + TagLength
                    /\ SentFrame(type, n, s)
    BY <1>1, EncryptedFrame
  <2>2. Encrypt("k", type, PlainFrame(n)).data = s
    BY <2>1 DEF Ok
  <2>3. Decrypt("k", type, s) = Ok(PlainFrame(n))
    BY <1>1, <2>1, SameBytes
  <2>4. /\ Decrypt("l", type, s).result # "ok"
        /\ \A other \in DOMAIN HeaderOf :
            HeaderOf[other] # HeaderOf[type] => Decrypt("k", other, s).result # "ok"
        /\ \A i \in DOMAIN s :
            /\ Decrypt("k", type, [s EXCEPT ![i] = Byte(0)]).result # "ok"
            /\ Decrypt("k", type, SubSeq(s, 1, i - 1)).result # "ok"
    BY <1>1, <2>1, TakenAsSentOnly
  <2>5. QED
    BY <2>2, <2>3, <2>4 DEF PlainFrame
<1>2. ASSUME NEW n \in Nat, n < HeaderOf[type]
      PROVE  Survives(n)
  <2>1. Len(PlainFrame(n)) = n
    BY DEF PlainFrame
  <2>2. Encrypt("k", type, PlainFrame(n)) = Malformed
    BY <1>2, <2>1 DEF Encrypt
  <2>3. Encrypt("k", type, PlainFrame(n)).result # "ok"
    BY <2>2 DEF Malformed
  <2>4. QED
    BY <2>3 DEF PlainFrame
<1>3. HeaderOf[type] \in Nat
  BY E2eeAssumption
<1>4. \A n \in 0 .. HeaderOf[type] + MaxPayload : Survives(n)
  <2> HIDE DEF Survives
  <2>1. \A n \in Nat : Survives(n)
    BY <1>1, <1>2, <1>3
  <2>2. QED
    BY <2>1, <1>3, E2eeAssumption
<1>5. QED
  BY <1>4 DEF FrameSurvives

(***************************************************************************)
(* Of every frame of a wired track the receiver gets the same bytes        *)
(* (processFrame of e2ee-worker.ts at both ends), and of a changed one     *)
(* nothing.                                                                *)
(***************************************************************************)
THEOREM FramesAlwaysSurvive == E2eeSpec => []FramesSurvive
<1>1. FramesSurvive
  <2>1. SUFFICES ASSUME NEW kind \in Sending, NEW type \in FrameTypes[kind]
                 PROVE  FrameSurvives[type]
    BY DEF FramesSurvive
  <2>2. kind \in {"audio", "video"}
    BY E2eeAssumption DEF Kinds
  <2>3. type \in DOMAIN HeaderOf
    BY <2>2, E2eeAssumption DEF FrameTypes
  <2>4. QED
    BY <2>3, EveryFrameSurvives
<1>2. QED
  BY <1>1, PTL
=============================================================================
