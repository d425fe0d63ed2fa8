------------------------------ MODULE Workers ------------------------------
(***************************************************************************)
(* The pool of mediasoup workers: server/sfu/worker-manager.ts.            *)
(*                                                                         *)
(* A worker process ends on its own; the pool hears of it by the "died"    *)
(* event, some time later.  createWorker is awaited, and the pool may be   *)
(* closed meanwhile.                                                       *)
(***************************************************************************)
EXTENDS Naturals, Sequences, FiniteSets, FiniteSetsExt

CONSTANTS
    SlotCount,     \* slots.length
    NoWorker,      \* slot.worker = null
    RespawnLimit,  \* RESPAWN_RATE_LIMIT
    Window,        \* respawnWindowMs, in ticks
    MaxTicks,      \* bound: the clock stops there
    MaxRespawns    \* bound: no process ends once that many were restarted

ASSUME WorkersNumbers ==
    /\ SlotCount \in Nat \ {0}
    /\ NoWorker \notin Nat
    /\ {RespawnLimit, Window, MaxTicks, MaxRespawns} \subseteq Nat

VARIABLES
    slot,        \* slots[i].worker
    running,     \* the processes there are
    exits,       \* "died" events not yet delivered
    respawning,  \* slots a new worker is being created for
    stamps,      \* slots[i].respawnTimestamps
    poolClosed,  \* closed
    nextIndex,
    ticks,       \* Date.now()
    started,     \* processes started, which are numbered
    spawnedAt    \* read by no code: when each slot's respawns began

workerVars == <<slot, running, exits, respawning, stamps, poolClosed, nextIndex, ticks, started,
                spawnedAt>>

Slots == 0 .. SlotCount - 1

WorkersInit ==
    /\ slot = [i \in Slots |-> i]
    /\ running = Slots
    /\ exits = {}
    /\ respawning = {}
    /\ stamps = [i \in Slots |-> <<>>]
    /\ poolClosed = FALSE
    /\ nextIndex = 0
    /\ ticks = 0
    /\ started = SlotCount
    /\ spawnedAt = [i \in Slots |-> <<>>]

\* A worker process ends.
Exit(i, clean) ==
    /\ slot[i] \in running
    /\ started < SlotCount + MaxRespawns
    /\ running' = running \ {slot[i]}
    /\ exits' = exits \cup {[slot |-> i, clean |-> clean]}
    /\ UNCHANGED <<slot, respawning, stamps, poolClosed, nextIndex, ticks, started, spawnedAt>>

\* The timestamps that count: the filter, one after the other.
Recent(i) ==
    LET kept[n \in 0 .. Len(stamps[i])] ==
            IF n = 0 THEN <<>>
            ELSE IF ticks - stamps[i][n] < Window THEN Append(kept[n - 1], stamps[i][n])
            ELSE kept[n - 1]
    IN  kept[Len(stamps[i])]

AllForgotten(i) == <<ticks>>  \* mutant: the list starts afresh
Stamped(i) == Append(Recent(i), ticks)

\* The died handler, and respawnWorker up to its await, if the exit was clean.
Died(e) ==
    LET i == e.slot IN
    /\ exits' = exits \ {e}
    /\ slot' = [slot EXCEPT ![i] = NoWorker]
    /\ IF ~e.clean \/ poolClosed
       THEN UNCHANGED <<stamps, respawning, spawnedAt>>
       ELSE IF Len(Recent(i)) >= RespawnLimit
       THEN /\ stamps' = [stamps EXCEPT ![i] = Recent(i)]
            /\ UNCHANGED <<respawning, spawnedAt>>
       ELSE /\ stamps' = [stamps EXCEPT ![i] = Stamped(i)]
            /\ respawning' = respawning \cup {i}
            /\ spawnedAt' = [spawnedAt EXCEPT ![i] = Append(@, ticks)]
    /\ UNCHANGED <<running, poolClosed, nextIndex, ticks, started>>

KeptAnyway == TRUE  \* mutant: closed is not looked at after the await
Kept == ~poolClosed

\* createWorker is done: the worker gets the slot, or is closed at once.
Created(i) ==
    /\ i \in respawning
    /\ respawning' = respawning \ {i}
    /\ started' = started + 1
    /\ IF Kept
       THEN /\ slot' = [slot EXCEPT ![i] = started]
            /\ running' = running \cup {started}
       ELSE UNCHANGED <<slot, running>>
    /\ UNCHANGED <<exits, stamps, poolClosed, nextIndex, ticks, spawnedAt>>

CreateFails(i) ==
    /\ i \in respawning
    /\ respawning' = respawning \ {i}
    /\ UNCHANGED <<slot, running, exits, stamps, poolClosed, nextIndex, ticks, started, spawnedAt>>

\* getNextWorker from `next`: the slot after `n` others that are empty.
SlotAt(next, n) == (next + n) % SlotCount
FilledAfter(next) == {n \in Slots : slot[SlotAt(next, n)] # NoWorker}

SameAgain(next) == SlotAt(next, Min(FilledAfter(next)))  \* mutant: nextIndex stays on the chosen
PastTheEnd(next) == SlotAt(next, Min(FilledAfter(next))) + 1  \* mutant: it does not go round
NextAfter(next) == SlotAt(next, Min(FilledAfter(next)) + 1)

Chosen(next) == slot[SlotAt(next, Min(FilledAfter(next)))]

\* A room is created.  With no worker to be had nextIndex goes once round: it throws.
GetNextWorker ==
    /\ ~poolClosed
    /\ FilledAfter(nextIndex) # {}
    /\ nextIndex' = NextAfter(nextIndex)
    /\ UNCHANGED <<slot, running, exits, respawning, stamps, poolClosed, ticks, started, spawnedAt>>

ClosePool ==
    /\ ~poolClosed
    /\ poolClosed' = TRUE
    /\ running' = running \ {slot[i] : i \in Slots}
    /\ slot' = [i \in Slots |-> NoWorker]
    /\ UNCHANGED <<exits, respawning, stamps, nextIndex, ticks, started, spawnedAt>>

Tick ==
    /\ ticks < MaxTicks
    /\ ticks' = ticks + 1
    /\ UNCHANGED <<slot, running, exits, respawning, stamps, poolClosed, nextIndex, started, spawnedAt>>

WorkersNext ==
    \/ \E i \in Slots : (\E clean \in BOOLEAN : Exit(i, clean)) \/ Created(i) \/ CreateFails(i)
    \/ \E e \in exits : Died(e)
    \/ GetNextWorker
    \/ ClosePool
    \/ Tick

WorkersSpec == WorkersInit /\ [][WorkersNext]_workerVars

-----------------------------------------------------------------------------
(* Type invariant *)
WorkersTypeOK ==
    /\ slot \in [Slots -> Nat \cup {NoWorker}]
    /\ running \subseteq Nat
    /\ exits \subseteq [slot : Slots, clean : BOOLEAN]
    /\ respawning \subseteq Slots
    /\ stamps \in [Slots -> Seq(Nat)]
    /\ poolClosed \in BOOLEAN
    /\ nextIndex \in Slots
    /\ ticks \in Nat
    /\ started \in Nat

(***************************************************************************)
(* Every worker process is held by one slot, so that close() reaches it,   *)
(* and once the pool is closed none is left: neither a respawn that was    *)
(* being awaited nor a late died event puts one where nobody looks, or     *)
(* over another.                                                           *)
(***************************************************************************)
NoWorkerForgotten ==
    /\ running \subseteq {slot[i] : i \in Slots}
    /\ \A i, j \in Slots : i # j /\ slot[i] \in running => slot[i] # slot[j]
    /\ poolClosed => running = {}
    /\ \A i \in respawning : slot[i] = NoWorker

(***************************************************************************)
(* Rooms are spread over the pool: whichever slots are empty and wherever  *)
(* the round-robin stands, as many calls of getNextWorker as there are     *)
(* workers choose every one of them.                                       *)
(***************************************************************************)
EveryWorkerServes ==
    LET filled == {i \in Slots : slot[i] # NoWorker}
        stand[n \in 0 .. SlotCount] == IF n = 0 THEN nextIndex ELSE NextAfter(stand[n - 1])
    IN  filled # {} =>
            {Chosen(stand[n]) : n \in 0 .. Cardinality(filled) - 1} = {slot[i] : i \in filled}

(***************************************************************************)
(* A worker that keeps exiting is not restarted for ever: in no window of  *)
(* time does a slot begin more than RespawnLimit respawns, whatever the    *)
(* list of timestamps has been cut down to.                                *)
(***************************************************************************)
RespawnsLimited ==
    \A i \in Slots : \A k \in DOMAIN spawnedAt[i] :
        k > RespawnLimit => spawnedAt[i][k] - spawnedAt[i][k - RespawnLimit] >= Window
=============================================================================
