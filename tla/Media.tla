------------------------------- MODULE Media -------------------------------
(***************************************************************************)
(* The camera of one client in mesh and SFU calls: services/media.ts with  *)
(* state/effects/media.ts, sfu.ts, error.ts, cleanup.ts and the call       *)
(* screens of reducer.ts.  getUserMedia, applyConstraints and produce      *)
(* settle at any time, whatever the user did meanwhile.                    *)
(*                                                                         *)
(* Only the video track is followed: the audio track is acquired and       *)
(* stopped with it and never replaced.  One connection stands for all.     *)
(* In SFU mode it is the video producer of mediasoup-client, which (by     *)
(* default) disables its track while paused, and stops the track it gives  *)
(* up or is closed with.                                                   *)
(***************************************************************************)
EXTENDS Naturals, Sequences, SequencesExt

CONSTANTS
    MaxAcquisitions,  \* bound: calls started
    MaxFlips          \* bound: FLIP_CAMERA

ASSUME MediaNumbers == MaxAcquisitions \in Nat /\ MaxFlips \in Nat

VARIABLES
    mediaScreen,  \* "idle", "acquiring-media", "active" (waiting-for-peer or call) or "error"
    sfuMode,      \* state.sfuMode
    videoOff,     \* state.screen.videoOff
    acquiring,    \* getUserMedia requests under way
    tracks,       \* the video tracks there have been
    streams,      \* the MediaStreams there have been: their video tracks
    local,        \* refs.localStream, 0 for null
    sender,       \* the track the connection or producer sends, 0 when there is none
    producer,     \* SFU mode: "none", "asked" for, "kept" in refs.sfuProducers, or "failed"
    paused,       \* the producer is
    flips,        \* flipCamera calls under way
    facing,       \* currentFacingMode
    acquisitions, flipped,
    raced         \* read by no code: one of the races has happened that the properties except

producerVars == <<sfuMode, producer, paused>>
mediaVars == <<mediaScreen, videoOff, acquiring, tracks, streams, local, sender, flips, facing,
               acquisitions, flipped, raced, producerVars>>

Opposite(mode) == IF mode = "user" THEN "environment" ELSE "user"
NewTrack(mode) == [live |-> TRUE, enabled |-> TRUE, facing |-> mode]
Stopped(S) == [t \in DOMAIN tracks |-> IF t \in S THEN [tracks[t] EXCEPT !.live = FALSE] ELSE tracks[t]]

MediaInit ==
    /\ sfuMode \in BOOLEAN
    /\ producer = "none"
    /\ paused = FALSE
    /\ mediaScreen = "idle"
    /\ videoOff = FALSE
    /\ acquiring = 0
    /\ tracks = <<>>
    /\ streams = <<>>
    /\ local = 0
    /\ sender = 0
    /\ flips = {}
    /\ facing = "user"
    /\ acquisitions = 0
    /\ flipped = 0
    /\ raced = FALSE

NoTracks(stream) == {}  \* mutant: the stream is dropped but not stopped
TracksOf(stream) == ToSet(streams[stream])

KeptFacing == facing  \* mutant
ResetFacing == "user"

\* cleanupCallResources: stopMediaStream, with resetFacingMode, if there is a stream; a transport
\* that closes stops what its producer sends.
Release(underWay) ==
    /\ tracks' = Stopped((IF local # 0 THEN TracksOf(local) ELSE {})
                           \cup (IF sfuMode THEN {sender} ELSE {}))
    /\ facing' = IF local # 0 THEN ResetFacing ELSE facing
    /\ local' = 0
    /\ sender' = 0
    /\ producer' = "none"
    /\ paused' = FALSE
    /\ raced' = (raced \/ underWay)
    /\ UNCHANGED <<sfuMode, streams, videoOff, acquisitions, flipped>>

Waiting == UNCHANGED <<acquiring, flips>>

-----------------------------------------------------------------------------
\* SWITCH_TO_CALL while connected: the effect asks for media.
StartCall ==
    /\ mediaScreen = "idle"
    /\ acquisitions < MaxAcquisitions
    /\ mediaScreen' = "acquiring-media"
    /\ acquiring' = acquiring + 1
    /\ acquisitions' = acquisitions + 1
    /\ UNCHANGED <<videoOff, tracks, streams, local, sender, flips, facing, flipped, raced,
                   producerVars>>

\* MEDIA_ACQUIRED: the stream is kept whatever the screen, which moves on only if it waits for it.
\* With the camera refused the stream has audio only.
Acquired(withVideo) ==
    /\ acquiring > 0
    /\ acquiring' = acquiring - 1
    /\ tracks' = IF withVideo THEN Append(tracks, NewTrack("user")) ELSE tracks
    /\ streams' = Append(streams, IF withVideo THEN <<Len(tracks')>> ELSE <<>>)
    /\ local' = Len(streams')
    /\ IF mediaScreen = "acquiring-media"
       THEN mediaScreen' = "active" /\ videoOff' = FALSE
       ELSE UNCHANGED <<mediaScreen, videoOff>>
    /\ UNCHANGED <<sender, flips, facing, acquisitions, flipped, raced, producerVars>>

\* MEDIA_ERROR shows only on the acquiring screen, whichever request it is of.
MediaError(underWay) ==
    IF mediaScreen = "acquiring-media"
    THEN mediaScreen' = "error" /\ Release(underWay)
    ELSE UNCHANGED <<mediaScreen, videoOff, tracks, streams, local, sender, facing, acquisitions,
                     flipped, raced, producerVars>>

\* The microphone is refused too.
Denied ==
    /\ acquiring > 0
    /\ acquiring' = acquiring - 1
    /\ MediaError(acquiring > 1 \/ flips # {})
    /\ UNCHANGED flips

\* SERVER_ERROR, a lost connection, every peer failed.
ErrorShown ==
    /\ mediaScreen \in {"acquiring-media", "active"}
    /\ mediaScreen' = "error"
    /\ Release(acquiring > 0 \/ flips # {})
    /\ Waiting

\* By the user, or after five seconds.
DismissError ==
    /\ mediaScreen = "error"
    /\ mediaScreen' = "idle"
    /\ Release(acquiring > 0 \/ flips # {})
    /\ Waiting

HangUpCall ==
    /\ mediaScreen = "active"
    /\ mediaScreen' = "idle"
    /\ Release(acquiring > 0 \/ flips # {})
    /\ Waiting

\* There is video to send, flip or switch off: otherwise the buttons are disabled.
Showing == mediaScreen = "active" /\ local # 0 /\ streams[local] # <<>>

\* createPeerConnection adds the tracks of the local stream.
ConnectPeer ==
    /\ ~sfuMode
    /\ Showing
    /\ sender = 0
    /\ sender' = Head(streams[local])
    /\ UNCHANGED <<mediaScreen, videoOff, acquiring, tracks, streams, local, flips, facing,
                   acquisitions, flipped, raced, producerVars>>

\* produceLocalTracks, once the audio is produced; a track that has ended cannot be.
Produce ==
    /\ sfuMode
    /\ Showing
    /\ producer = "none"
    /\ IF tracks[Head(streams[local])].live
       THEN producer' = "asked" /\ sender' = Head(streams[local])
       ELSE producer' = "failed" /\ UNCHANGED sender
    /\ UNCHANGED <<mediaScreen, videoOff, acquiring, tracks, streams, local, flips, facing,
                   acquisitions, flipped, raced, sfuMode, paused>>

\* The server's answer.
Produced ==
    /\ producer = "asked"
    /\ producer' = "kept"
    /\ UNCHANGED <<mediaScreen, videoOff, acquiring, tracks, streams, local, sender, flips, facing,
                   acquisitions, flipped, raced, sfuMode, paused>>

\* It times out; the error screen, if there is one, is ErrorShown.
ProduceFails ==
    /\ producer = "asked"
    /\ producer' = "failed"
    /\ tracks' = Stopped({sender})
    /\ sender' = 0
    /\ UNCHANGED <<mediaScreen, videoOff, acquiring, streams, local, flips, facing, acquisitions,
                   flipped, raced, sfuMode, paused>>

\* TOGGLE_VIDEO in a mesh call.
ToggleTrack ==
    /\ ~sfuMode
    /\ tracks' = [tracks EXCEPT ![Head(streams[local])].enabled = videoOff]
    /\ UNCHANGED <<paused, raced>>

\* TOGGLE_VIDEO in an SFU call: a producer not kept yet hears nothing.
ToggleProducer ==
    /\ sfuMode
    /\ IF producer = "kept"
       THEN /\ paused' = ~videoOff
            /\ tracks' = [tracks EXCEPT ![sender].enabled = videoOff]
            /\ UNCHANGED raced
       ELSE /\ raced' = TRUE
            /\ UNCHANGED <<tracks, paused>>

ToggleVideo ==
    /\ Showing
    /\ videoOff' = ~videoOff
    /\ ToggleTrack \/ ToggleProducer
    /\ UNCHANGED <<mediaScreen, acquiring, streams, local, sender, flips, facing, acquisitions,
                   flipped, sfuMode, producer>>

-----------------------------------------------------------------------------
(* flipCamera                                                              *)

FlipCamera ==
    /\ Showing
    /\ ~videoOff
    /\ flipped < MaxFlips
    /\ flipped' = flipped + 1
    /\ flips' = flips \cup {[id |-> flipped', stream |-> local, track |-> Head(streams[local]),
                             facing |-> Opposite(facing), stage |-> "constrain"]}
    /\ raced' = (raced \/ flips # {})
    /\ UNCHANGED <<mediaScreen, videoOff, acquiring, tracks, streams, local, sender, facing,
                   acquisitions, producerVars>>

\* The producer's replaceTrack: the track it gives up is stopped, the new one is off if it is paused.
ProducerTakes(new, known) ==
    IF producer = "kept" /\ new # sender /\ known[new].live
    THEN /\ sender' = new
         /\ tracks' = [known EXCEPT ![sender].live = FALSE, ![new].enabled = ~paused]
    ELSE tracks' = known /\ UNCHANGED sender

SenderKept(new) == sender  \* mutant: what is sent is forgotten
SenderAfterFlip(new) == IF sender # 0 THEN new ELSE 0

\* What is sent after a flip that brought the new track: in SFU mode whatever comes first in the
\* local stream of that moment, if there is one.
Replaced(new, known) ==
    IF sfuMode
    THEN IF local # 0 /\ streams'[local] # <<>>
         THEN ProducerTakes(Head(streams'[local]), known)
         ELSE tracks' = known /\ UNCHANGED sender
    ELSE tracks' = known /\ sender' = SenderAfterFlip(new)

\* applyConstraints turns a live track.
Constrained(f) ==
    /\ f.stage = "constrain"
    /\ tracks[f.track].live
    /\ facing' = f.facing
    /\ flips' = flips \ {f}
    /\ UNCHANGED streams
    /\ LET turned == [tracks EXCEPT ![f.track].facing = f.facing] IN
       IF sfuMode THEN Replaced(f.track, turned) ELSE tracks' = turned /\ UNCHANGED sender
    /\ UNCHANGED <<mediaScreen, videoOff, acquiring, local, acquisitions, flipped, raced,
                   producerVars>>

\* It cannot: the track is stopped and another camera asked for.
ConstraintRefused(f) ==
    /\ f.stage = "constrain"
    /\ tracks' = Stopped({f.track})
    /\ flips' = (flips \ {f}) \cup {[f EXCEPT !.stage = "acquire"]}
    /\ UNCHANGED <<mediaScreen, videoOff, acquiring, streams, local, sender, facing, acquisitions,
                   flipped, raced, producerVars>>

\* removeTrack: a stream has a track at most once.
WithoutTrack(stream, t) ==
    IF t \in ToSet(stream)
    THEN RemoveAt(stream, CHOOSE i \in DOMAIN stream : stream[i] = t)
    ELSE stream

\* The new track takes the place of the old one in its stream, and of whatever is sent.
Flipped(f) ==
    LET new == Len(tracks) + 1 IN
    /\ f.stage = "acquire"
    /\ streams' = [streams EXCEPT ![f.stream] = Append(WithoutTrack(@, f.track), new)]
    /\ Replaced(new, Append(tracks, NewTrack(f.facing)))
    /\ facing' = f.facing
    /\ flips' = flips \ {f}
    /\ raced' = (raced \/ (videoOff /\ ~sfuMode) \/ producer = "asked")
    /\ UNCHANGED <<mediaScreen, videoOff, acquiring, local, acquisitions, flipped, producerVars>>

FlipFails(f) ==
    /\ f.stage = "acquire"
    /\ flips' = flips \ {f}
    /\ MediaError(TRUE)
    /\ UNCHANGED acquiring

MediaNext ==
    \/ StartCall
    \/ \E withVideo \in BOOLEAN : Acquired(withVideo)
    \/ Denied
    \/ ErrorShown
    \/ DismissError
    \/ HangUpCall
    \/ ConnectPeer
    \/ Produce
    \/ Produced
    \/ ProduceFails
    \/ ToggleVideo
    \/ FlipCamera
    \/ \E f \in flips :
        Constrained(f) \/ ConstraintRefused(f) \/ Flipped(f) \/ FlipFails(f)

MediaSpec == MediaInit /\ [][MediaNext]_mediaVars

-----------------------------------------------------------------------------
(* Type invariant *)
MediaTypeOK ==
    /\ mediaScreen \in {"idle", "acquiring-media", "active", "error"}
    /\ videoOff \in BOOLEAN
    /\ paused => producer = "kept"
    /\ producer # "none" => sfuMode
    /\ tracks \in Seq([live : BOOLEAN, enabled : BOOLEAN, facing : {"user", "environment"}])
    /\ local \in 0 .. Len(streams)
    /\ \A s \in DOMAIN streams : TracksOf(s) \subseteq DOMAIN tracks
    /\ \A f \in flips : f.track \in DOMAIN tracks /\ f.stream \in DOMAIN streams
    /\ facing \in {"user", "environment"}
    /\ mediaScreen = "active" => local # 0

(***************************************************************************)
(* The camera is off when there is no call: with nothing under way and no  *)
(* local stream no track is live, whatever flips and refusals there were.  *)
(* `raced` excepts a call torn down with a request or a flip under way:    *)
(* what that brings is kept by nobody, or by the screen of no call.        *)
(***************************************************************************)
CameraReleased ==
    local = 0 /\ acquiring = 0 /\ flips = {} /\ ~raced =>
        \A t \in DOMAIN tracks : ~tracks[t].live

(***************************************************************************)
(* What is sent is what the preview shows and the buttons switch: the      *)
(* first video track of the local stream, on exactly when videoOff is not  *)
(* set.  `raced` excepts two flips at once, which leave two tracks; a new  *)
(* camera taken in a mesh call while the video was off, which is on; and a *)
(* toggle or flip before the producer is kept, of which it never hears.    *)
(***************************************************************************)
SentIsShown ==
    sender # 0 /\ flips = {} /\ ~raced =>
        /\ sender = Head(streams[local])
        /\ tracks[sender].enabled = ~videoOff
        /\ producer = "kept" => paused = videoOff

(***************************************************************************)
(* currentFacingMode, which outlives streams and calls, is the way the     *)
(* live camera faces: a flip turns it round and never asks for the same.   *)
(***************************************************************************)
FacingIsActual ==
    ~raced /\ flips = {} =>
        \A t \in DOMAIN tracks : tracks[t].live => tracks[t].facing = facing
=============================================================================
