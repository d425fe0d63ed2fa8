----------------------------- MODULE MCRoomSync -----------------------------
(***************************************************************************)
(* Instances of RoomSync for TLC.  One run checks two plans, chosen at the *)
(* start, since all clients doing everything are too many states: in       *)
(* "talk" nobody calls; in "call" nobody relays or leaves, there are two   *)
(* clients at a time, one socket is lost (by its timeout, then its close), *)
(* and the server acts when no client has anything to read.                *)
(***************************************************************************)
EXTENDS RoomSync, TLC

VARIABLE plan

Talks == \A p \in Peers : screen'[p] # "acquiring"

\* The server handles a join, a join-call, a leave-call, a timeout or a close.
ServerActs(p) ==
    \/ p \in asked' \ asked
    \/ Live(p)' /\ Len(sent'[p]) < Len(sent[p])
    \/ conn'[p] # conn[p] /\ conn'[p] # "open"

Calls ==
    /\ Cardinality({p \in Peers : screen'[p] # "none"}) <= 2
    /\ Cardinality({p \in Peers : conn'[p] # "new" /\ ~Live(p)'}) <= 1
    /\ silent' = {}
    /\ \A p \in Peers :
        /\ conn[p] = "open" => conn'[p] # "closed"
        /\ ServerActs(p) => \A q \in Peers : out[q] = <<>>
        /\ \A i \in (Len(out[p]) + 1)..Len(out'[p]) :
            out'[p][i].type # "relay" /\ (out'[p][i].type = "error" => sent' # sent)
        /\ Live(p)' /\ wsRoom[p] # NoRoom => wsRoom'[p] # NoRoom

MCInit == SyncInit /\ plan \in {"talk", "call"}
MCNext ==
    /\ SyncNext
    /\ IF plan = "talk" THEN Talks ELSE Calls
    /\ UNCHANGED plan
MCSpec == MCInit /\ [][MCNext]_<<syncVars, plan>>

Symmetry == Permutations(Peers) \cup Permutations(RoomIds)
=============================================================================
