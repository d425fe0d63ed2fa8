-------------------------------- MODULE E2ee --------------------------------
(***************************************************************************)
(* End-to-end encryption of media: which codec a sender and a receiver are *)
(* wired for (parseNegotiatedCodecs of e2ee-transform.ts, the wiring in    *)
(* services/webrtc.ts) and what becomes of a frame (e2ee-worker.ts).       *)
(*                                                                         *)
(* A session description is read line by line, as the parser does.  Lines  *)
(* other than m= and a=rtpmap: have no effect and are left out.            *)
(***************************************************************************)
EXTENDS Naturals, Sequences, FiniteSets, FiniteSetsExt

CONSTANTS
    Lines,       \* bound: the lines descriptions are made of
    MaxLines,    \* bound: how many
    Sending,     \* the kinds there is a local track of
    IvLength,    \* IV_LENGTH
    TagLength,   \* GCM_TAG_LENGTH
    HeaderOf,    \* unencrypted bytes by frame type: "opus", "key", "delta"
    MaxPayload   \* bound: bytes of a frame after its header

Kinds == {"audio", "video"}
NoPt == 0

ASSUME E2eeAssumption ==
    /\ Sending \subseteq Kinds
    /\ IvLength \in Nat \ {0}
    /\ TagLength \in Nat \ {0}
    /\ HeaderOf \in [{"opus", "key", "delta"} -> Nat \ {0}]
    /\ MaxPayload \in Nat

VARIABLES
    sdp,          \* the lines read
    section,      \* the kind and payload type whose codec is looked for
    codecs,       \* the codec found for a kind
    rejected,     \* kinds whose m-line has port 0
    unsupported,  \* normalizeCodec threw, and the parser with it
    wiring        \* "parsing", or what applying came to: "wired" or "refused"

e2eeVars == <<sdp, section, codecs, rejected, unsupported, wiring>>

NoSection == [kind |-> "none", pt |-> NoPt]

E2eeInit ==
    /\ sdp = <<>>
    /\ section = NoSection
    /\ codecs = [k \in {} |-> ""]
    /\ rejected = {}
    /\ unsupported = FALSE
    /\ wiring = "parsing"

-----------------------------------------------------------------------------
(* parseNegotiatedCodecs                                                   *)

Normalized == [audio |-> "opus", video |-> "vp8"]

\* parseMLine
SectionOfAny(l) == [kind |-> l.media, pt |-> l.pt]  \* mutant: port 0 is not looked at
SectionOf(l) ==
    IF l.media \in Kinds /\ ~l.zeroPort /\ l.pt # NoPt
    THEN [kind |-> l.media, pt |-> l.pt]
    ELSE NoSection

ReadMLine(l) ==
    /\ l.line = "m"
    /\ section' = SectionOf(l)
    /\ rejected' = IF l.media \in Kinds /\ l.zeroPort THEN rejected \cup {l.media} ELSE rejected
    /\ UNCHANGED <<codecs, unsupported>>

Found == [section EXCEPT !.pt = NoPt]

ReadRtpmap(l) ==
    /\ l.line = "rtpmap"
    /\ IF section.pt = NoPt \/ l.pt # section.pt
       THEN UNCHANGED <<codecs, section, unsupported>>
       ELSE LET kind == section.kind IN
            IF l.codec = Normalized[kind]
            THEN /\ codecs' = [k \in DOMAIN codecs \cup {kind} |->
                                 IF k = kind THEN l.codec ELSE codecs[k]]
                 /\ section' = Found
                 /\ UNCHANGED unsupported
            ELSE unsupported' = TRUE /\ UNCHANGED <<codecs, section>>
    /\ UNCHANGED rejected

ReadLine(l) ==
    /\ wiring = "parsing"
    /\ ~unsupported
    /\ Len(sdp) < MaxLines
    /\ sdp' = Append(sdp, l)
    /\ ReadMLine(l) \/ ReadRtpmap(l)
    /\ UNCHANGED wiring

\* wireSenderTransform: a track without codec is only skipped where its kind was rejected.
SkippedIfAbsent(kind) == FALSE  \* mutant
Refused(kind) == kind \notin DOMAIN codecs /\ kind \notin rejected

\* wireReceiverTransform: a track without codec brings no frames, whatever the reason.
Decrypted(kind) == kind \in DOMAIN codecs

\* applyE2eeTransformsWithConfig, at the end of the description.
ApplyE2eeTransforms ==
    /\ wiring = "parsing"
    /\ wiring' = IF unsupported \/ \E kind \in Sending : Refused(kind) THEN "refused" ELSE "wired"
    /\ UNCHANGED <<sdp, section, codecs, rejected, unsupported>>

E2eeNext == ApplyE2eeTransforms \/ \E l \in Lines : ReadLine(l)

E2eeSpec == E2eeInit /\ [][E2eeNext]_e2eeVars

-----------------------------------------------------------------------------
(* processFrame.  Frames are sequences of bytes; a sealed byte says what   *)
(* AES-GCM binds: the key, the IV, the additional data and the payload.    *)

Byte(v) == [kind |-> "plain", of |-> <<v>>]
Iv(key) == [i \in 1 .. IvLength |-> [kind |-> "iv", of |-> <<key, i>>]]
Seal(key, iv, header, payload) ==
    [i \in 1 .. Len(payload) + TagLength |->
        [kind |-> "sealed", of |-> <<key, iv, header, payload, i>>]]

\* The types of frames of a codec: VP8 has two, which frame.type tells.
FrameTypes == [audio |-> {"opus"}, video |-> {"key", "delta"}]

Malformed == [result |-> "malformed", data |-> <<>>]
CryptoFailed == [result |-> "crypto-failed", data |-> <<>>]
Ok(data) == [result |-> "ok", data |-> data]

UnboundAad(header) == <<>>  \* mutant: the header is not authenticated
Aad(header) == header

Encrypt(key, type, data) ==
    LET h == HeaderOf[type]
        header == SubSeq(data, 1, h)
    IN  IF Len(data) < h THEN Malformed
        ELSE Ok(header \o Iv(key) \o Seal(key, Iv(key), Aad(header), SubSeq(data, h + 1, Len(data))))

TooShort(type, data) == Len(data) < HeaderOf[type] + IvLength + TagLength

Decrypt(key, type, data) ==
    LET h == HeaderOf[type]
        header == SubSeq(data, 1, h)
        iv == SubSeq(data, h + 1, h + IvLength)
        ciphertext == SubSeq(data, h + IvLength + 1, Len(data))
    IN  IF TooShort(type, data) THEN Malformed
        ELSE IF /\ ciphertext[1].kind = "sealed"
                /\ ciphertext = Seal(key, iv, Aad(header), ciphertext[1].of[4])
        THEN Ok(header \o ciphertext[1].of[4])
        ELSE CryptoFailed

-----------------------------------------------------------------------------
(* Type invariant *)
E2eeTypeOK ==
    /\ sdp \in Seq(Lines)
    /\ section.kind \in Kinds \cup {"none"}
    /\ DOMAIN codecs \subseteq Kinds
    /\ rejected \subseteq Kinds
    /\ unsupported \in BOOLEAN
    /\ wiring \in {"parsing", "wired", "refused"}

(* What a description says, without the scan: its m-lines, each with the   *)
(* lines up to the next, and the first rtpmap line of its payload type.    *)
MLines == {i \in DOMAIN sdp : sdp[i].line = "m"}
Accepted(kind) == {i \in MLines : sdp[i].media = kind /\ ~sdp[i].zeroPort /\ sdp[i].pt # NoPt}
Mapped(i) ==
    {j \in i + 1 .. Len(sdp) :
        /\ sdp[j].line = "rtpmap"
        /\ sdp[j].pt = sdp[i].pt
        /\ ~\E m \in MLines : i < m /\ m < j}
CodecAt(i) == sdp[Min(Mapped(i))].codec

(***************************************************************************)
(* The scan finds what the description says, whatever the order of its     *)
(* lines: a kind has a codec exactly if some m-line of it that is not      *)
(* turned down and names a payload type has one, the parser throws exactly *)
(* if one of those is of an unsupported codec, and a kind is turned down   *)
(* exactly if an m-line says so.  A codec of a neighbouring section would  *)
(* garble every frame.  An m-line without a payload type counts for        *)
(* nothing: the code does not throw there, although e2ee-transform.ts:143  *)
(* says that it "Throws on malformed SDP".  When wiring is refused is      *)
(* NoSenderForgotten's matter.                                             *)
(***************************************************************************)
ParsedAsWritten ==
    /\ rejected = {k \in Kinds : \E i \in MLines : sdp[i].media = k /\ sdp[i].zeroPort}
    /\ unsupported <=>
        \E k \in Kinds : \E i \in Accepted(k) : Mapped(i) # {} /\ CodecAt(i) # Normalized[k]
    /\ ~unsupported =>
        DOMAIN codecs = {k \in Kinds : \E i \in Accepted(k) : Mapped(i) # {}}

(***************************************************************************)
(* No track is sent untransformed: once wiring is done every sender has    *)
(* the codec of an m-line of its kind, unless the description turns the    *)
(* kind down; one that does not mention the kind at all is refused.        *)
(***************************************************************************)
NoSenderForgotten ==
    wiring = "wired" =>
        \A k \in Sending :
            \/ \E i \in Accepted(k) : Mapped(i) # {} /\ CodecAt(i) = Normalized[k]
            \/ \E i \in MLines : sdp[i].media = k /\ sdp[i].zeroPort

\* A frame of each length: what the receiver makes of it, as it was sent and changed on the way.
FrameSurvives == [type \in DOMAIN HeaderOf |->
    \A n \in 0 .. HeaderOf[type] + MaxPayload :
        LET data == [i \in 1 .. n |-> Byte(i)]
            sent == Encrypt("k", type, data)
        IN  sent.result = "ok" =>
                /\ Decrypt("k", type, sent.data) = Ok(data)
                /\ Decrypt("l", type, sent.data).result # "ok"
                /\ \A other \in DOMAIN HeaderOf :
                    HeaderOf[other] # HeaderOf[type] => Decrypt("k", other, sent.data).result # "ok"
                /\ \A i \in DOMAIN sent.data :
                    /\ Decrypt("k", type, [sent.data EXCEPT ![i] = Byte(0)]).result # "ok"
                    /\ Decrypt("k", type, SubSeq(sent.data, 1, i - 1)).result # "ok"]

(***************************************************************************)
(* Of every frame of a track wired at both ends the receiver gets the same *)
(* bytes, an empty payload included; with another key, another codec's     *)
(* header, a byte changed (one of the header too) or the end cut off it    *)
(* takes nothing, so a frame is never passed on garbled.                   *)
(***************************************************************************)
FramesSurvive ==
    wiring = "wired" =>
        \A kind \in Sending : Decrypted(kind) => \A type \in FrameTypes[kind] : FrameSurvives[type]
=============================================================================
