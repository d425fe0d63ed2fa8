------------------------------ MODULE MCParts ------------------------------
(***************************************************************************)
(* One model for the parts that share no state with one another: every     *)
(* behaviour is a behaviour of one of them, chosen at the start, while the *)
(* others stay in an initial state.                                        *)
(***************************************************************************)
EXTENDS Mesh, Media, Workers, PipDrag, E2ee, Heartbeat

VARIABLE
    part  \* the one that runs

partsVars == <<part, meshVars, mediaVars, workerVars, pipVars, e2eeVars, heartbeatVars>>

PartsInit ==
    /\ part \in {"mesh", "media", "workers", "pip", "e2ee", "heartbeat"}
    /\ MeshInit
    /\ MediaInit
    /\ WorkersInit
    /\ PipInit
    /\ E2eeInit
    /\ HeartbeatInit
    /\ part # "media" => ~sfuMode
    /\ part # "pip" => container = CHOOSE size \in Sizes : TRUE

PartsNext ==
    /\ UNCHANGED part
    /\ IF part = "mesh" THEN MeshNext ELSE UNCHANGED meshVars
    /\ IF part = "media" THEN MediaNext ELSE UNCHANGED mediaVars
    /\ IF part = "workers" THEN WorkersNext ELSE UNCHANGED workerVars
    /\ IF part = "pip" THEN PipNext ELSE UNCHANGED pipVars
    /\ IF part = "e2ee" THEN E2eeNext ELSE UNCHANGED e2eeVars
    /\ IF part = "heartbeat" THEN HeartbeatNext ELSE UNCHANGED heartbeatVars

PartsSpec == PartsInit /\ [][PartsNext]_partsVars

\* The types of all the parts.
PartsTypeOK ==
    /\ MeshTypeOK
    /\ MediaTypeOK
    /\ WorkersTypeOK
    /\ PipTypeOK
    /\ E2eeTypeOK
    /\ HeartbeatTypeOK

-----------------------------------------------------------------------------
(* Values of the constants.                                                *)

MCSizes == {[x |-> 7, y |-> 12], [x |-> 12, y |-> 7]}
MCMobileVideo == [x |-> 2, y |-> 3]
MCDesktopVideo == [x |-> 3, y |-> 2]
MCPointers == [x : {0, 4, 8}, y : {0, 4, 8}]

MCHeaderOf == [opus |-> 1, key |-> 4, delta |-> 2]
MCLines ==
    [line : {"m"}, media : {"audio", "video", "application"}, zeroPort : BOOLEAN, pt : {1}]
        \cup [line : {"m"}, media : {"video"}, zeroPort : {FALSE}, pt : {NoPt, 2}]
        \cup [line : {"rtpmap"}, pt : {1, 2}, codec : {"opus", "vp8"}]
=============================================================================
