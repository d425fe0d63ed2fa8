----------------------------- MODULE PartsProofs -----------------------------
(***************************************************************************)
(* Proofs about parts that share no state with one another: the pool of    *)
(* mediasoup workers, the draggable preview, the camera and the            *)
(* connections of a mesh call; and the types of these and of the parts     *)
(* that E2eeProofs and HeartbeatProofs are about.                          *)
(***************************************************************************)
EXTENDS MCParts, E2eeProofs, HeartbeatProofs, SequenceTheorems, FiniteSetTheorems, TLAPS

-----------------------------------------------------------------------------
(* Workers, for a pool of any size.                                        *)
(*                                                                         *)
(* NoWorkerForgotten alone is not inductive: a "died" event that is still  *)
(* on its way must not be of a slot that has been filled again meanwhile.  *)
(* It never is, for a slot with such an event is not respawned before the  *)
(* event has come, and there is one event for a slot at a time.            *)

\* The types the argument needs.
PoolTypes ==
    /\ slot \in [Slots -> Nat \cup {NoWorker}]
    /\ running \subseteq Nat
    /\ exits \subseteq [slot : Slots, clean : BOOLEAN]
    /\ respawning \subseteq Slots
    /\ poolClosed \in BOOLEAN
    /\ started \in Nat

\* Worker numbers are given once, to one slot.
Numbered ==
    /\ \A i \in Slots : slot[i] # NoWorker => slot[i] < started
    /\ \A i, j \in Slots : i # j /\ slot[i] # NoWorker => slot[i] # slot[j]

\* The slot of an event on its way holds the process that ended, unless the pool was closed.
ExitsPending ==
    /\ \A e \in exits : slot[e.slot] \notin running
    /\ ~poolClosed => \A e \in exits : slot[e.slot] # NoWorker
    /\ ~poolClosed => \A e, f \in exits : e.slot = f.slot => e = f

Held ==
    /\ running \subseteq {slot[i] : i \in Slots}
    /\ poolClosed => running = {}
    /\ \A i \in respawning : slot[i] = NoWorker

PoolInv == PoolTypes /\ Numbered /\ ExitsPending /\ Held

(* The invariant is strong enough. *)
LEMMA PoolInvImplies == PoolInv => NoWorkerForgotten
  BY WorkersNumbers DEF PoolInv, PoolTypes, Numbered, Held, NoWorkerForgotten

(* One step of a process, an event or a caller keeps the invariant. *)
LEMMA PoolStep ==
    ASSUME PoolInv, [WorkersNext]_workerVars
    PROVE  PoolInv'
<1> USE WorkersNumbers DEF PoolInv
<1>1. CASE UNCHANGED <<slot, running, exits, respawning, poolClosed, started>>
  BY <1>1 DEF PoolTypes, Numbered, ExitsPending, Held
<1>2. ASSUME NEW i \in Slots, NEW clean \in BOOLEAN, Exit(i, clean) PROVE PoolInv'
  <2> DEFINE x == [slot |-> i, clean |-> clean]
  <2>1. /\ running' = running \ {slot[i]} /\ exits' = exits \cup {x} /\ slot[i] \in running
        /\ UNCHANGED <<slot, respawning, poolClosed, started>>
    BY <1>2 DEF Exit
  <2>2. PoolTypes'
    <3>1. x \in [slot : Slots, clean : BOOLEAN]
      OBVIOUS
    <3> HIDE DEF x
    <3>2. QED
      BY <2>1, <3>1 DEF PoolTypes
  <2>3. Numbered'
    BY <2>1 DEF Numbered
  <2>4. ~\E e \in exits : e.slot = i
    BY <2>1 DEF ExitsPending
  <2>5. slot[i] # NoWorker /\ x.slot = i
    BY <2>1 DEF PoolTypes
  <2> HIDE DEF x
  <2>6. ExitsPending'
    BY <2>1, <2>4, <2>5 DEF ExitsPending
  <2>7. Held'
    BY <2>1 DEF Held
  <2>8. QED
    BY <2>2, <2>3, <2>6, <2>7
<1>3. ASSUME NEW i \in Slots, Created(i) PROVE PoolInv'
  <2>1. /\ i \in respawning /\ respawning' = respawning \ {i} /\ started' = started + 1
        /\ UNCHANGED <<exits, poolClosed>>
    BY <1>3 DEF Created
  <2>2. CASE ~Kept
    <3>1. slot' = slot /\ running' = running
      BY <1>3, <2>2 DEF Created
    <3>2. QED
      BY <2>1, <3>1 DEF PoolTypes, Numbered, ExitsPending, Held
  <2>3. CASE Kept
    <3>1. slot' = [slot EXCEPT ![i] = started] /\ running' = running \cup {started} /\ ~poolClosed
      BY <1>3, <2>3 DEF Created, Kept
    <3>2. slot[i] = NoWorker
      BY <2>1 DEF Held
    <3>3. slot'[i] = started /\ \A j \in Slots \ {i} : slot'[j] = slot[j]
      BY <3>1 DEF PoolTypes
    <3>4. PoolTypes'
      BY <2>1, <3>1 DEF PoolTypes
    <3>5. Numbered'
      BY <2>1, <3>3 DEF Numbered, PoolTypes
    <3>6. \A e \in exits : e.slot \in Slots \ {i}
      BY <3>1, <3>2 DEF ExitsPending, PoolTypes
    <3>7. \A e \in exits : slot'[e.slot] # started
      BY <3>3, <3>6 DEF Numbered, PoolTypes
    <3>8. ExitsPending'
      BY <2>1, <3>1, <3>3, <3>6, <3>7 DEF ExitsPending
    <3>9. running' \subseteq {slot'[j] : j \in Slots}
      <4>1. \A w \in running : \E j \in Slots : w = slot[j] /\ j # i
        BY <3>2 DEF Held, PoolTypes
      <4>2. QED
        BY <3>1, <3>3, <4>1
    <3>10. Held'
      BY <2>1, <3>1, <3>3, <3>9 DEF Held, PoolTypes
    <3>11. QED
      BY <3>4, <3>5, <3>8, <3>10
  <2>4. QED
    BY <2>2, <2>3
<1>4. ASSUME NEW i \in Slots, CreateFails(i) PROVE PoolInv'
  BY <1>4 DEF CreateFails, PoolTypes, Numbered, ExitsPending, Held
<1>5. ASSUME NEW e \in exits, Died(e) PROVE PoolInv'
  <2> DEFINE i == e.slot
  <2>1. /\ exits' = exits \ {e} /\ slot' = [slot EXCEPT ![i] = NoWorker]
        /\ UNCHANGED <<running, poolClosed, started>>
    BY <1>5 DEF Died
  <2>2. respawning' \in {respawning, respawning \cup {i}}
    BY <1>5 DEF Died
  <2>3. i \in Slots
    BY DEF PoolTypes
  <2>4. slot'[i] = NoWorker /\ \A j \in Slots \ {i} : slot'[j] = slot[j]
    BY <2>1, <2>3 DEF PoolTypes
  <2>5. slot[i] \notin running /\ NoWorker \notin running
    BY DEF ExitsPending, PoolTypes
  <2>6. \A f \in exits' : f.slot \in Slots
    BY <2>1 DEF PoolTypes
  <2>7. ~poolClosed => \A f \in exits' : f.slot # i
    BY <2>1 DEF ExitsPending
  <2> HIDE DEF i
  <2>8. PoolTypes'
    BY <2>1, <2>2, <2>3 DEF PoolTypes
  <2>9. Numbered'
    BY <2>1, <2>3, <2>4 DEF Numbered
  <2>10. ExitsPending'
    <3>1. \A f \in exits' : slot'[f.slot] \notin running'
      BY <2>1, <2>4, <2>5, <2>6 DEF ExitsPending
    <3>2. ~poolClosed => \A f \in exits' : slot'[f.slot] # NoWorker
      BY <2>1, <2>4, <2>6, <2>7 DEF ExitsPending
    <3>3. QED
      BY <2>1, <3>1, <3>2 DEF ExitsPending
  <2>11. running' \subseteq {slot'[j] : j \in Slots}
    <3>1. \A w \in running : \E j \in Slots : w = slot[j] /\ j # i
      BY <2>3, <2>5 DEF Held
    <3>2. QED
      BY <2>1, <2>4, <3>1
  <2>12. Held'
    BY <2>1, <2>2, <2>3, <2>4, <2>11 DEF Held, PoolTypes
  <2>13. QED
    BY <2>8, <2>9, <2>10, <2>12
<1>6. CASE ClosePool
  <2>1. /\ poolClosed' = TRUE /\ running' = {} /\ slot' = [j \in Slots |-> NoWorker]
        /\ UNCHANGED <<exits, respawning, started>>
    BY <1>6 DEF ClosePool, Held
  <2>2. \A e \in exits : e.slot \in Slots
    BY DEF PoolTypes
  <2>3. QED
    BY <2>1, <2>2 DEF PoolTypes, Numbered, ExitsPending, Held
<1>7. CASE GetNextWorker \/ Tick
  BY <1>1, <1>7 DEF GetNextWorker, Tick
<1>8. QED
  BY <1>1, <1>2, <1>3, <1>4, <1>5, <1>6, <1>7 DEF WorkersNext, workerVars

(* Every step keeps it. *)
LEMMA PoolInductive == WorkersSpec => []PoolInv
<1>1. WorkersInit => PoolInv
  <2>1. SUFFICES ASSUME WorkersInit PROVE PoolTypes /\ Numbered /\ ExitsPending /\ Held
    BY DEF PoolInv
  <2>2. /\ slot = [i \in Slots |-> i] /\ running = Slots /\ exits = {} /\ respawning = {}
        /\ poolClosed = FALSE /\ started = SlotCount
    BY <2>1 DEF WorkersInit
  <2>3. Slots \subseteq Nat /\ SlotCount \in Nat /\ \A i \in Slots : i < SlotCount
    BY WorkersNumbers DEF Slots
  <2>4. \A i \in Slots : slot[i] = i
    BY <2>2
  <2>5. PoolTypes
    BY <2>2, <2>3 DEF PoolTypes
  <2>6. Numbered
    BY <2>2, <2>3, <2>4 DEF Numbered
  <2>7. ExitsPending
    BY <2>2 DEF ExitsPending
  <2>8. Held
    BY <2>2, <2>4 DEF Held
  <2>9. QED
    BY <2>5, <2>6, <2>7, <2>8
<1>2. PoolInv /\ [WorkersNext]_workerVars => PoolInv'
  BY PoolStep
<1>3. QED
  BY <1>1, <1>2, PTL DEF WorkersSpec

(***************************************************************************)
(* No worker process is ever without a slot that close() would find it in, *)
(* in a pool of any size and for any rate limit.                           *)
(***************************************************************************)
THEOREM NoWorkerEverForgotten == WorkersSpec => []NoWorkerForgotten
  BY PoolInductive, PoolInvImplies, PTL

-----------------------------------------------------------------------------
(* Numbers and functions on them.                                          *)

(* Every set of numbers has a least one. *)
LEMMA LeastNumber ==
    ASSUME NEW T \in SUBSET Nat, T # {}
    PROVE  \E x \in T : \A y \in T : x <= y
<1>1. PICK x \in T : \A y \in T : ~(<<y, x>> \in OpToRel(<, Nat))
  BY NatLessThanWellFounded, WFMin
<1>2. \A y \in T : y < x => <<y, x>> \in OpToRel(<, Nat)
  BY DEF OpToRel
<1>3. \A y \in T : ~(y < x)
  BY <1>1, <1>2, Zenon
<1>4. \A y \in T : y \in Nat
  OBVIOUS
<1>5. \A y \in T : x <= y
  BY <1>3, <1>4
<1>6. QED
  BY <1>5

(* Induction up to m, over a set of numbers. *)
LEMMA Climb ==
    ASSUME NEW m \in Nat, NEW T, 0 \in T, \A n \in 0 .. m : n \in T /\ n < m => n + 1 \in T
    PROVE  \A n \in 0 .. m : n \in T
<1> DEFINE Bad == {n \in 0 .. m : n \notin T}
<1>1. SUFFICES ASSUME Bad # {} PROVE FALSE
  OBVIOUS
<1>2. Bad \in SUBSET Nat
  OBVIOUS
<1>2a. PICK x \in Bad : \A y \in Bad : x <= y
  BY <1>1, <1>2, LeastNumber
<1>3. x \in Nat /\ x # 0 /\ x <= m /\ x \notin T
  OBVIOUS
<1>4. x - 1 \in 0 .. m /\ x - 1 < m /\ x - 1 \notin Bad
  BY <1>2a, <1>3
<1>5. (x - 1) + 1 \in T
  BY <1>4
<1>6. QED
  BY <1>3, <1>5

IsStep(S, m, step) == step \in [S \X (1 .. m) -> S]
Iterates(S, first, m, step) ==
    \E g \in [0 .. m -> S] :
        \A n \in 0 .. m : g[n] = IF n = 0 THEN first ELSE step[<<g[n - 1], n>>]

(* A function defined by what it is at 0 and by a step from each number to the next exists. *)
LEMMA Iterated ==
    ASSUME NEW S, NEW first \in S, NEW m \in Nat, NEW step, IsStep(S, m, step)
    PROVE  Iterates(S, first, m, step)
<1>0. step \in [S \X (1 .. m) -> S]
  BY DEF IsStep
<1> DEFINE Goes(g, k) == \A n \in 0 .. k : g[n] = IF n = 0 THEN first ELSE step[<<g[n - 1], n>>]
           T == {k \in 0 .. m : \E g \in [0 .. k -> S] : Goes(g, k)}
<1>1. 0 \in T
  <2> DEFINE g == [n \in 0 .. 0 |-> first]
  <2>1. g \in [0 .. 0 -> S] /\ Goes(g, 0)
    OBVIOUS
  <2> HIDE DEF g, Goes
  <2>2. QED
    BY <2>1
<1>2. ASSUME NEW k \in 0 .. m, k \in T, k < m PROVE k + 1 \in T
  <2>1. PICK g \in [0 .. k -> S] : Goes(g, k)
    BY <1>2
  <2> DEFINE h == [n \in 0 .. k + 1 |-> IF n <= k THEN g[n] ELSE step[<<g[k], k + 1>>]]
  <2>2. step[<<g[k], k + 1>>] \in S
    BY <1>0, <1>2
  <2>3. h \in [0 .. k + 1 -> S]
    BY <2>2
  <2>4. ASSUME NEW n \in 0 .. k + 1
        PROVE  h[n] = IF n = 0 THEN first ELSE step[<<h[n - 1], n>>]
    <3>1. CASE n <= k
      <4>1. h[n] = g[n] /\ (n # 0 => n - 1 \in 0 .. k /\ h[n - 1] = g[n - 1])
        BY <3>1
      <4>2. g[n] = IF n = 0 THEN first ELSE step[<<g[n - 1], n>>]
        BY <2>1, <3>1
      <4> HIDE DEF h, Goes
      <4>3. QED
        BY <4>1, <4>2
    <3>2. CASE n = k + 1
      <4>1. h[n] = step[<<g[k], k + 1>>] /\ h[n - 1] = g[k] /\ n # 0
        BY <3>2
      <4>2. QED
        BY <3>2, <4>1
    <3>3. QED
      BY <3>1, <3>2
  <2>5. Goes(h, k + 1)
    BY <2>4
  <2> HIDE DEF h, Goes
  <2>6. QED
    BY <1>2, <2>3, <2>5
<1> HIDE DEF T
<1>3. m \in T
  BY <1>1, <1>2, Climb
<1>4. PICK g \in [0 .. m -> S] : Goes(g, m)
  BY <1>3 DEF T
<1>5. QED
  BY <1>4 DEF Iterates

-----------------------------------------------------------------------------
(* The rate limit, for any limit and any window.                           *)
(*                                                                         *)
(* RespawnsLimited speaks of all respawns of a slot, the code only keeps   *)
(* the timestamps the filter has left.  The invariant is that these are    *)
(* the last of all, and that those cut off are out of the window: then the *)
(* respawn RespawnLimit before a new one is either cut off or would have   *)
(* made the list too long.                                                 *)

\* What the filter of list s leaves at time t: all from one place on, and nothing recent before it.
Pruned(s, t, r) ==
    \E m \in 0 .. Len(s) :
        /\ r \in Seq(Nat) /\ Len(r) = Len(s) - m
        /\ \A k \in 1 .. Len(r) : r[k] = s[m + k] /\ t - r[k] < Window
        /\ \A k \in 1 .. m : t - s[k] >= Window

(* In a list in order of time the filter leaves the end of it. *)
LEMMA RecentIs ==
    ASSUME NEW i, stamps[i] \in Seq(Nat), ticks \in Nat,
           \A j, k \in 1 .. Len(stamps[i]) : j < k => stamps[i][j] <= stamps[i][k]
    PROVE  Pruned(stamps[i], ticks, Recent(i))
<1>0. PICK list, now : list = stamps[i] /\ now = ticks
  OBVIOUS
<1> DEFINE m == Len(list)
           S == Seq(Nat)
           Next0(s, n) == IF now - list[n] < Window THEN Append(s, list[n]) ELSE s
           step == [x \in S \X (1 .. m) |-> Next0(x[1], x[2])]
           kept == CHOOSE f : f = [n \in 0 .. m |->
                                        IF n = 0 THEN <<>>
                                        ELSE IF now - list[n] < Window THEN Append(f[n - 1], list[n])
                                        ELSE f[n - 1]]
<1>1. /\ m \in Nat /\ now \in Nat /\ \A n \in 1 .. m : list[n] \in Nat
      /\ \A j, k \in 1 .. m : j < k => list[j] <= list[k]
  BY <1>0
<1>2. <<>> \in S
  OBVIOUS
<1>3. ASSUME NEW s \in S, NEW n \in 1 .. m
      PROVE  Next0(s, n) \in S /\ step[<<s, n>>] = Next0(s, n)
  BY <1>1
<1>4. step \in [S \X (1 .. m) -> S]
  BY <1>3
<1> HIDE DEF S, step, m
<1>4a. Iterates(S, <<>>, m, step)
  BY <1>1, <1>2, <1>4, Iterated DEF IsStep
<1>5. PICK g \in [0 .. m -> S] :
            \A n \in 0 .. m : g[n] = IF n = 0 THEN <<>> ELSE step[<<g[n - 1], n>>]
  BY <1>4a DEF Iterates
<1>6. ASSUME NEW n \in 0 .. m
      PROVE  g[n] = IF n = 0 THEN <<>> ELSE Next0(g[n - 1], n)
  <2>1. g[n] = IF n = 0 THEN <<>> ELSE step[<<g[n - 1], n>>]
    BY <1>5
  <2>2. n # 0 => n \in 1 .. m /\ g[n - 1] \in S
    BY <1>1, <1>5
  <2> HIDE DEF Next0
  <2>3. QED
    BY <1>3, <2>1, <2>2
<1>7. g = [n \in 0 .. m |-> IF n = 0 THEN <<>>
                            ELSE IF now - list[n] < Window THEN Append(g[n - 1], list[n])
                            ELSE g[n - 1]]
  BY <1>5, <1>6
<1>8. kept = [n \in 0 .. m |-> IF n = 0 THEN <<>>
                               ELSE IF now - list[n] < Window THEN Append(kept[n - 1], list[n])
                               ELSE kept[n - 1]]
  BY <1>7
<1>9. Recent(i) = kept[m]
  BY <1>0 DEF Recent, m
<1> HIDE DEF kept
<1>10. ASSUME NEW n \in 0 .. m
       PROVE  kept[n] = IF n = 0 THEN <<>> ELSE Next0(kept[n - 1], n)
  BY <1>8
\* Of the first n: those from the b-th on were kept.
<1> DEFINE From(n, b) == /\ kept[n] \in Seq(Nat) /\ Len(kept[n]) = n - b
                         /\ \A k \in 1 .. n - b : kept[n][k] = list[b + k] /\ now - list[b + k] < Window
                         /\ \A k \in 1 .. b : now - list[k] >= Window
           T == {n \in 0 .. m : \E b \in 0 .. n : From(n, b)}
<1>11. 0 \in T
  <2>1. kept[0] = <<>>
    BY <1>1, <1>10
  <2>2. From(0, 0)
    BY <2>1
  <2> HIDE DEF From
  <2>3. QED
    BY <1>1, <2>2
<1>12. ASSUME NEW n \in 0 .. m, n \in T, n < m PROVE n + 1 \in T
  <2>1. n + 1 \in 0 .. m /\ n + 1 \in 1 .. m /\ n + 1 # 0 /\ (n + 1) - 1 = n /\ n \in Nat
    BY <1>1, <1>12
  <2>2. kept[n + 1] = Next0(kept[n], n + 1)
    BY <1>10, <2>1
  <2>3. PICK b \in 0 .. n : From(n, b)
    BY <1>12
  <2>4. PICK x : x = list[n + 1] /\ x \in Nat
    BY <1>1, <2>1
  <2>5. PICK r : r = kept[n] /\ r \in Seq(Nat) /\ Len(r) = n - b
    BY <2>3
  <2>6. CASE now - x < Window
    <3>1. kept[n + 1] = Append(r, x)
      BY <2>2, <2>4, <2>5, <2>6
    <3>2. Append(r, x) \in Seq(Nat) /\ Len(Append(r, x)) = (n + 1) - b
      BY <2>1, <2>4, <2>5
    <3>3. ASSUME NEW k \in 1 .. (n + 1) - b
          PROVE  Append(r, x)[k] = list[b + k] /\ now - list[b + k] < Window
      <4>1. CASE k = (n + 1) - b
        BY <2>1, <2>4, <2>5, <2>6, <4>1
      <4>2. CASE k # (n + 1) - b
        <5>1. k \in 1 .. n - b /\ Append(r, x)[k] = r[k]
          BY <2>1, <2>5, <4>2
        <5>2. QED
          BY <2>3, <2>5, <5>1
      <4>3. QED
        BY <4>1, <4>2
    <3>4. From(n + 1, b)
      BY <2>3, <3>1, <3>2, <3>3
    <3>5. b \in 0 .. n + 1
      BY <2>1
    <3> HIDE DEF From
    <3>6. QED
      BY <2>1, <3>4, <3>5
  <2>7. CASE ~(now - x < Window)
    <3>1. \A k \in 1 .. n + 1 : now - list[k] >= Window
      <4>1. ASSUME NEW k \in 1 .. n + 1 PROVE now - list[k] >= Window
        <5>1. list[k] \in Nat /\ list[k] <= x
          BY <1>1, <2>1, <2>4
        <5>2. Window \in Nat
          BY WorkersNumbers
        <5>3. QED
          BY <1>1, <2>4, <2>7, <5>1, <5>2
      <4>2. QED
        BY <4>1
    <3>2. b = n
      <4>1. SUFFICES ASSUME b < n PROVE FALSE
        BY <2>1
      <4>2. n - b \in 1 .. n - b /\ b + (n - b) = n /\ n \in 1 .. n + 1
        BY <2>1, <4>1
      <4>3. now - list[n] < Window
        BY <2>3, <4>2
      <4>4. list[n] \in Nat /\ Window \in Nat
        BY <1>1, <2>1, <4>1, WorkersNumbers
      <4>5. QED
        BY <1>1, <3>1, <4>2, <4>3, <4>4
    <3>3. kept[n + 1] = r
      BY <2>2, <2>4, <2>5, <2>7
    <3>4. r = <<>>
      <4>1. Len(r) = 0
        BY <2>1, <2>5, <3>2
      <4>2. QED
        BY <2>5, <4>1, EmptySeq
    <3>5. From(n + 1, n + 1)
      BY <2>1, <3>1, <3>3, <3>4
    <3> HIDE DEF From
    <3>6. QED
      BY <2>1, <3>5
  <2>8. QED
    BY <2>6, <2>7
<1> HIDE DEF T
<1>13. m \in T
  <2>1. \A n \in 0 .. m : n \in T
    BY <1>1, <1>11, <1>12, Climb
  <2>2. QED
    BY <1>1, <2>1
<1>14. PICK b \in 0 .. m : From(m, b)
  BY <1>13 DEF T
<1>15. QED
  <2>1. \A k \in 1 .. Len(kept[m]) : kept[m][k] = list[b + k] /\ now - kept[m][k] < Window
    BY <1>14
  <2>2. \A k \in 1 .. b : now - list[k] >= Window
    BY <1>14
  <2>3. kept[m] \in Seq(Nat) /\ Len(kept[m]) = m - b
    BY <1>14
  <2>4. Pruned(list, now, kept[m])
    BY <2>1, <2>2, <2>3 DEF Pruned, m
  <2>5. QED
    BY <1>0, <1>9, <2>4

\* Of slot i: the list is the end of all its respawns, and those cut off are out of the window.
Stamps(i) ==
    /\ stamps[i] \in Seq(Nat) /\ spawnedAt[i] \in Seq(Nat)
    /\ Len(stamps[i]) <= Len(spawnedAt[i])
    /\ \A k \in 1 .. Len(stamps[i]) :
            stamps[i][k] = spawnedAt[i][Len(spawnedAt[i]) - Len(stamps[i]) + k]
    /\ \A k \in 1 .. Len(spawnedAt[i]) - Len(stamps[i]) : ticks - spawnedAt[i][k] >= Window
\* Respawns are in order of time and far enough apart.
Apart(a) ==
    /\ \A k \in 1 .. Len(a) : a[k] <= ticks
    /\ \A j, k \in 1 .. Len(a) : j < k => a[j] <= a[k]
    /\ \A k \in 1 .. Len(a) : k > RespawnLimit => a[k] - a[k - RespawnLimit] >= Window

RespawnInv ==
    /\ stamps = [i \in Slots |-> stamps[i]] /\ spawnedAt = [i \in Slots |-> spawnedAt[i]]
    /\ ticks \in Nat
    /\ \A i \in Slots : Stamps(i) /\ Apart(spawnedAt[i])

(* Respawns that are far enough apart are within the limit. *)
LEMMA RespawnInvImplies == RespawnInv => RespawnsLimited
<1> SUFFICES ASSUME RespawnInv, NEW i \in Slots, NEW k \in DOMAIN spawnedAt[i], k > RespawnLimit
             PROVE  spawnedAt[i][k] - spawnedAt[i][k - RespawnLimit] >= Window
  BY DEF RespawnsLimited
<1>1. spawnedAt[i] \in Seq(Nat) /\ Apart(spawnedAt[i])
  BY DEF RespawnInv, Stamps
<1>2. k \in 1 .. Len(spawnedAt[i])
  BY <1>1
<1>3. QED
  BY <1>1, <1>2 DEF Apart

\* What the filter does to the list and to the respawns it is the end of.
Cut(s, a, r) ==
    /\ r \in Seq(Nat) /\ Len(r) <= Len(a)
    /\ \A k \in 1 .. Len(r) : r[k] = a[Len(a) - Len(r) + k]
    /\ \A k \in 1 .. Len(a) - Len(r) : ticks - a[k] >= Window

(* After the filter the list is still the end of all respawns. *)
LEMMA FilterCuts ==
    ASSUME RespawnInv, NEW i \in Slots
    PROVE  Cut(stamps[i], spawnedAt[i], Recent(i))
<1>1. PICK s, a, t : s = stamps[i] /\ a = spawnedAt[i] /\ t = ticks
  OBVIOUS
<1>2. /\ s \in Seq(Nat) /\ a \in Seq(Nat) /\ t \in Nat /\ Len(s) \in Nat /\ Len(a) \in Nat
      /\ Len(s) <= Len(a)
      /\ \A k \in 1 .. Len(s) : s[k] = a[Len(a) - Len(s) + k]
      /\ \A k \in 1 .. Len(a) - Len(s) : t - a[k] >= Window
      /\ \A j, k \in 1 .. Len(a) : j < k => a[j] <= a[k]
  BY <1>1 DEF RespawnInv, Stamps, Apart
<1>3. \A j, k \in 1 .. Len(s) : j < k => s[j] <= s[k]
  <2>1. ASSUME NEW j \in 1 .. Len(s), NEW k \in 1 .. Len(s), j < k PROVE s[j] <= s[k]
    <3>1. PICK x, y : x = Len(a) - Len(s) + j /\ y = Len(a) - Len(s) + k
      OBVIOUS
    <3>2. x \in 1 .. Len(a) /\ y \in 1 .. Len(a) /\ x < y
      BY <1>2, <2>1, <3>1
    <3>3. s[j] = a[x] /\ s[k] = a[y]
      BY <1>2, <3>1
    <3>4. QED
      BY <1>2, <3>2, <3>3
  <2>2. QED
    BY <2>1
<1>4. PICK r : r = Recent(i)
  OBVIOUS
<1>5. Pruned(s, t, r)
  BY <1>1, <1>2, <1>3, <1>4, RecentIs
<1>6. PICK m \in 0 .. Len(s) :
        /\ r \in Seq(Nat) /\ Len(r) = Len(s) - m
        /\ \A k \in 1 .. Len(r) : r[k] = s[m + k]
        /\ \A k \in 1 .. m : t - s[k] >= Window
  BY <1>5 DEF Pruned
<1>7. \A k \in 1 .. Len(r) : r[k] = a[Len(a) - Len(r) + k]
  <2>1. ASSUME NEW k \in 1 .. Len(r) PROVE r[k] = a[Len(a) - Len(r) + k]
    <3>1. m + k \in 1 .. Len(s) /\ Len(a) - Len(s) + (m + k) = Len(a) - Len(r) + k
      BY <1>2, <1>6, <2>1
    <3>2. r[k] = s[m + k]
      BY <1>6
    <3>3. s[m + k] = a[Len(a) - Len(s) + (m + k)]
      BY <1>2, <3>1
    <3>4. QED
      BY <3>1, <3>2, <3>3
  <2>2. QED
    BY <2>1
<1>8. \A k \in 1 .. Len(a) - Len(r) : t - a[k] >= Window
  <2>1. ASSUME NEW k \in 1 .. Len(a) - Len(r) PROVE t - a[k] >= Window
    <3>1. CASE k \in 1 .. Len(a) - Len(s)
      BY <1>2, <3>1
    <3>2. CASE k \notin 1 .. Len(a) - Len(s)
      <4>1. PICK j : j = k - (Len(a) - Len(s))
        OBVIOUS
      <4>2. j \in 1 .. m /\ j \in 1 .. Len(s) /\ Len(a) - Len(s) + j = k
        BY <1>2, <1>6, <2>1, <3>2, <4>1
      <4>3. s[j] = a[k]
        BY <1>2, <4>2
      <4>4. QED
        BY <1>6, <4>2, <4>3
    <3>3. QED
      BY <3>1, <3>2
  <2>2. QED
    BY <2>1
<1>9. Len(r) <= Len(a)
  BY <1>2, <1>6
<1>10. QED
  BY <1>1, <1>4, <1>6, <1>7, <1>8, <1>9 DEF Cut

(* A respawn too many is given up; another one is far enough from the one that counts. *)
LEMMA DiedStamps ==
    ASSUME RespawnInv, NEW e, Died(e)
    PROVE  RespawnInv'
<1>1. PICK i : i = e.slot
  OBVIOUS
<1>2. /\ ticks' = ticks /\ ticks \in Nat
      /\ stamps = [j \in Slots |-> stamps[j]] /\ spawnedAt = [j \in Slots |-> spawnedAt[j]]
      /\ \/ UNCHANGED <<stamps, spawnedAt>>
         \/ stamps' = [stamps EXCEPT ![i] = Recent(i)] /\ spawnedAt' = spawnedAt
         \/ /\ ~(Len(Recent(i)) >= RespawnLimit)
            /\ stamps' = [stamps EXCEPT ![i] = Append(Recent(i), ticks)]
            /\ spawnedAt' = [spawnedAt EXCEPT ![i] = Append(spawnedAt[i], ticks)]
  BY <1>1 DEF Died, Stamped, RespawnInv
<1>3. stamps' = [j \in Slots |-> stamps'[j]] /\ spawnedAt' = [j \in Slots |-> spawnedAt'[j]]
  BY <1>2
<1>4. ASSUME NEW j \in Slots PROVE Stamps(j)' /\ Apart(spawnedAt[j])'
  <2>1. Stamps(j) /\ Apart(spawnedAt[j])
    BY DEF RespawnInv
  <2>2. CASE stamps'[j] = stamps[j] /\ spawnedAt'[j] = spawnedAt[j]
    BY <1>2, <2>1, <2>2 DEF Stamps, Apart
  <2>3. CASE i = j /\ ~(stamps'[j] = stamps[j] /\ spawnedAt'[j] = spawnedAt[j])
    <3>1. PICK r, a, t : r = Recent(j) /\ a = spawnedAt[j] /\ t = ticks
      OBVIOUS
    <3>2. /\ r \in Seq(Nat) /\ Len(r) <= Len(a) /\ t \in Nat /\ a \in Seq(Nat)
          /\ Len(r) \in Nat /\ Len(a) \in Nat
          /\ \A k \in 1 .. Len(r) : r[k] = a[Len(a) - Len(r) + k]
          /\ \A k \in 1 .. Len(a) - Len(r) : t - a[k] >= Window
      <4>1. Cut(stamps[j], a, r)
        BY <3>1, FilterCuts
      <4>2. a \in Seq(Nat) /\ t \in Nat
        BY <1>2, <2>1, <3>1 DEF Stamps
      <4>3. r \in Seq(Nat)
        BY <4>1 DEF Cut
      <4>4. /\ Len(r) <= Len(a)
            /\ \A k \in 1 .. Len(r) : r[k] = a[Len(a) - Len(r) + k]
        BY <4>1 DEF Cut
      <4>5. \A k \in 1 .. Len(a) - Len(r) : t - a[k] >= Window
        BY <3>1, <4>1 DEF Cut
      <4>6. Len(r) \in Nat /\ Len(a) \in Nat
        BY <4>2, <4>3
      <4>7. QED
        BY <4>2, <4>3, <4>4, <4>5, <4>6
    <3>3. CASE stamps'[j] = r /\ spawnedAt'[j] = a
      BY <1>2, <2>1, <3>1, <3>2, <3>3 DEF Stamps, Apart
    <3>4. CASE /\ Len(r) < RespawnLimit
               /\ stamps'[j] = Append(r, t) /\ spawnedAt'[j] = Append(a, t)
      <4>1. PICK x, y : x = Append(r, t) /\ y = Append(a, t)
        OBVIOUS
      <4>2. /\ x \in Seq(Nat) /\ y \in Seq(Nat) /\ Len(x) = Len(r) + 1 /\ Len(y) = Len(a) + 1
            /\ x[Len(r) + 1] = t /\ y[Len(a) + 1] = t
            /\ \A k \in 1 .. Len(r) : x[k] = r[k]
            /\ \A k \in 1 .. Len(a) : y[k] = a[k] /\ a[k] \in Nat
        BY <3>2, <4>1
      <4>3. Stamps(j)'
        <5>1. \A k \in 1 .. Len(x) : x[k] = y[Len(y) - Len(x) + k]
          <6>1. ASSUME NEW k \in 1 .. Len(x) PROVE x[k] = y[Len(y) - Len(x) + k]
            <7>1. Len(y) - Len(x) + k = Len(a) - Len(r) + k
              BY <3>2, <4>2
            <7>2. CASE k = Len(r) + 1
              BY <3>2, <4>2, <7>1, <7>2
            <7>3. CASE k \in 1 .. Len(r)
              <8>1. Len(a) - Len(r) + k \in 1 .. Len(a)
                BY <3>2, <7>3
              <8>2. QED
                BY <3>2, <4>2, <7>1, <7>3, <8>1
            <7>4. QED
              BY <3>2, <4>2, <7>2, <7>3
          <6>2. QED
            BY <6>1
        <5>2. \A k \in 1 .. Len(y) - Len(x) : t - y[k] >= Window
          <6>1. ASSUME NEW k \in 1 .. Len(y) - Len(x) PROVE t - y[k] >= Window
            <7>1. k \in 1 .. Len(a) - Len(r) /\ k \in 1 .. Len(a)
              BY <3>2, <4>2
            <7>2. QED
              BY <3>2, <4>2, <7>1
          <6>2. QED
            BY <6>1
        <5>3. Len(x) <= Len(y)
          BY <3>2, <4>2
        <5>4. QED
          BY <1>2, <3>1, <3>4, <4>1, <4>2, <5>1, <5>2, <5>3 DEF Stamps
      <4>4. Apart(spawnedAt[j])'
        <5>1. /\ \A k \in 1 .. Len(a) : a[k] <= t
              /\ \A l, k \in 1 .. Len(a) : l < k => a[l] <= a[k]
              /\ \A k \in 1 .. Len(a) : k > RespawnLimit => a[k] - a[k - RespawnLimit] >= Window
          BY <2>1, <3>1 DEF Apart
        <5>2. \A k \in 1 .. Len(y) : k \in 1 .. Len(a) \/ k = Len(a) + 1
          BY <3>2, <4>2
        <5>3. \A k \in 1 .. Len(y) : y[k] <= t
          <6>1. t <= t
            BY <3>2
          <6>2. QED
            BY <4>2, <5>1, <5>2, <6>1
        <5>4. \A l, k \in 1 .. Len(y) : l < k => y[l] <= y[k]
          <6>1. ASSUME NEW l \in 1 .. Len(y), NEW k \in 1 .. Len(y), l < k PROVE y[l] <= y[k]
            <7>1. l \in 1 .. Len(a)
              BY <3>2, <4>2, <6>1
            <7>2. QED
              BY <4>2, <5>1, <5>2, <6>1, <7>1
          <6>2. QED
            BY <6>1
        <5>5. ASSUME NEW k \in 1 .. Len(y), k > RespawnLimit
              PROVE  y[k] - y[k - RespawnLimit] >= Window
          <6>1. RespawnLimit \in Nat /\ RespawnLimit # 0
            BY <3>2, <3>4, WorkersNumbers
          <6>2. k - RespawnLimit \in 1 .. Len(a)
            BY <3>2, <4>2, <5>5, <6>1
          <6>3. CASE k \in 1 .. Len(a)
            BY <4>2, <5>1, <5>5, <6>2, <6>3
          <6>4. CASE k = Len(a) + 1
            <7>1. k - RespawnLimit \in 1 .. Len(a) - Len(r)
              BY <3>2, <3>4, <5>5, <6>1, <6>4
            <7>2. QED
              BY <3>2, <4>2, <6>2, <6>4, <7>1
          <6>5. QED
            BY <5>2, <6>3, <6>4
        <5>6. QED
          BY <1>2, <3>1, <3>4, <4>1, <5>3, <5>4, <5>5 DEF Apart
      <4>5. QED
        BY <4>3, <4>4
    <3>5. QED
      <4>1. Len(r) < RespawnLimit <=> ~(Len(r) >= RespawnLimit)
        BY <3>2, WorkersNumbers
      <4>2. \/ stamps'[j] = r /\ spawnedAt'[j] = a
            \/ Len(r) < RespawnLimit /\ stamps'[j] = Append(r, t) /\ spawnedAt'[j] = Append(a, t)
        <5>1. CASE stamps' = [stamps EXCEPT ![i] = Recent(i)] /\ spawnedAt' = spawnedAt
          <6>1. stamps'[j] = Recent(j)
            BY <1>2, <2>3, <5>1
          <6>2. stamps'[j] = r
            BY <3>1, <6>1
          <6>3. spawnedAt'[j] = a
            BY <3>1, <5>1
          <6>4. QED
            BY <6>2, <6>3
        <5>2. CASE /\ ~(Len(Recent(i)) >= RespawnLimit)
                   /\ stamps' = [stamps EXCEPT ![i] = Append(Recent(i), ticks)]
                   /\ spawnedAt' = [spawnedAt EXCEPT ![i] = Append(spawnedAt[i], ticks)]
          <6>1. /\ stamps'[j] = Append(Recent(j), ticks)
                /\ spawnedAt'[j] = Append(spawnedAt[j], ticks)
            BY <1>2, <2>3, <5>2
          <6>2. QED
            BY <2>3, <3>1, <4>1, <5>2, <6>1
        <5>3. QED
          BY <1>2, <2>3, <5>1, <5>2
      <4>3. QED
        BY <3>3, <3>4, <4>2
  <2>4. (stamps'[j] = stamps[j] /\ spawnedAt'[j] = spawnedAt[j]) \/ i = j
    BY <1>2
  <2>5. QED
    BY <2>2, <2>3, <2>4
<1>5. QED
  BY <1>2, <1>3, <1>4 DEF RespawnInv

(* Every step keeps what the list of timestamps says of the respawns. *)
LEMMA RespawnStep == RespawnInv /\ [WorkersNext]_workerVars => RespawnInv'
<1> SUFFICES ASSUME RespawnInv, [WorkersNext]_workerVars PROVE RespawnInv'
  OBVIOUS
<1>1. CASE UNCHANGED <<stamps, spawnedAt, ticks>>
  BY <1>1 DEF RespawnInv, Stamps, Apart
<1>2. ASSUME NEW e \in exits, Died(e) PROVE RespawnInv'
  BY <1>2, DiedStamps
<1>3. CASE Tick
  <2>1. UNCHANGED <<stamps, spawnedAt>> /\ ticks' = ticks + 1 /\ ticks \in Nat
    BY <1>3 DEF Tick, RespawnInv
  <2>2. ASSUME NEW i \in Slots PROVE Stamps(i)' /\ Apart(spawnedAt[i])'
    <3>1. PICK s, a, t : s = stamps[i] /\ a = spawnedAt[i] /\ t = ticks
      OBVIOUS
    <3>2. /\ Stamps(i) /\ Apart(a) /\ s \in Seq(Nat) /\ a \in Seq(Nat) /\ t \in Nat
          /\ stamps'[i] = s /\ spawnedAt'[i] = a /\ ticks' = t + 1
      BY <2>1, <3>1 DEF RespawnInv, Stamps
    <3>3. /\ Len(s) \in Nat /\ Len(a) \in Nat /\ Len(s) <= Len(a) /\ Window \in Nat
          /\ \A k \in 1 .. Len(a) : a[k] \in Nat
      BY <3>1, <3>2, WorkersNumbers DEF Stamps
    <3>4. \A k \in 1 .. Len(a) - Len(s) : (t + 1) - a[k] >= Window
      <4>0. \A k \in 1 .. Len(a) - Len(s) : k \in 1 .. Len(a)
        BY <3>3
      <4>00. \A k \in 1 .. Len(a) - Len(s) : t - a[k] >= Window
        BY <3>1, <3>2 DEF Stamps
      <4>1. \A k \in 1 .. Len(a) - Len(s) : k \in 1 .. Len(a) /\ t - a[k] >= Window
        BY <4>0, <4>00
      <4>2. QED
        BY <3>2, <3>3, <4>1
    <3>5. Stamps(i)'
      BY <3>1, <3>2, <3>4 DEF Stamps
    <3>6. \A k \in 1 .. Len(a) : a[k] <= t + 1
      <4>1. \A k \in 1 .. Len(a) : a[k] <= t
        BY <3>1, <3>2 DEF Apart
      <4>2. QED
        BY <3>2, <3>3, <4>1
    <3>7. Apart(spawnedAt[i])'
      BY <3>2, <3>6 DEF Apart
    <3>8. QED
      BY <3>5, <3>7
  <2>3. QED
    BY <2>1, <2>2 DEF RespawnInv
<1>4. QED
  BY <1>1, <1>2, <1>3 DEF WorkersNext, workerVars, Exit, Created, CreateFails, GetNextWorker, ClosePool

(* Every step keeps it. *)
LEMMA RespawnInductive == WorkersSpec => []RespawnInv
<1>1. WorkersInit => RespawnInv
  <2>1. SUFFICES ASSUME WorkersInit PROVE RespawnInv
    OBVIOUS
  <2>2. /\ stamps = [i \in Slots |-> <<>>] /\ spawnedAt = [i \in Slots |-> <<>>] /\ ticks = 0
    BY <2>1 DEF WorkersInit
  <2>3. \A i \in Slots : Stamps(i) /\ Apart(spawnedAt[i])
    BY <2>2 DEF Stamps, Apart
  <2>4. QED
    BY <2>2, <2>3 DEF RespawnInv
<1>2. QED
  BY <1>1, RespawnStep, PTL DEF WorkersSpec

(***************************************************************************)
(* A worker that keeps exiting is not restarted for ever: no more often    *)
(* than the limit in any window of time, for any limit, any window and any *)
(* sequence of exits, although the list of timestamps is cut down each     *)
(* time.                                                                   *)
(***************************************************************************)
THEOREM RespawnsAlwaysLimited == WorkersSpec => []RespawnsLimited
  BY RespawnInductive, RespawnInvImplies, PTL

-----------------------------------------------------------------------------
(* The round-robin, for a pool of any size.                                *)
(*                                                                         *)
(* The slots are counted from nextIndex on.  After k calls the first k of  *)
(* the filled ones have been chosen, and the round-robin stands behind     *)
(* the last of these.                                                      *)

\* (r + m) modulo the number of slots, apart from which no division is needed.
Round(x) == x % SlotCount

(* Going on from a slot by less than one round. *)
LEMMA Around ==
    ASSUME NEW x \in Nat, x < 2 * SlotCount
    PROVE  Round(x) = IF x < SlotCount THEN x ELSE x - SlotCount
<1>1. SlotCount \in Nat /\ SlotCount > 0
  BY WorkersNumbers
<1>2. PICK N : N = SlotCount /\ N \in Nat /\ N > 0 /\ x < 2 * N
  BY <1>1
<1>3. x % N = IF x < N THEN x ELSE x - N
  BY <1>2
<1>4. QED
  BY <1>2, <1>3 DEF Round

\* The n-th slot from q on.
Place(q, n) == IF q + n < SlotCount THEN q + n ELSE q + n - SlotCount

(* Where the next call goes: to the first filled slot, wherever the search begins. *)
LEMMA Turn ==
    ASSUME NEW q \in Slots, NEW o \in Nat, NEW e \in Nat, o <= e, e < SlotCount,
           slot[Place(q, e)] # NoWorker, \A n \in o .. e - 1 : slot[Place(q, n)] = NoWorker
    PROVE  /\ Chosen(Place(q, o)) = slot[Place(q, e)]
           /\ NextAfter(Place(q, o)) = Place(q, e + 1)
<1>1. PICK N : N = SlotCount
  OBVIOUS
<1>2. N \in Nat /\ N > 0 /\ q \in 0 .. N - 1
  BY <1>1, WorkersNumbers DEF Slots
<1>3. PICK r : r = Place(q, o)
  OBVIOUS
<1>4. r \in 0 .. N - 1 /\ r = IF q + o < N THEN q + o ELSE q + o - N
  BY <1>1, <1>2, <1>3 DEF Place
<1>5. ASSUME NEW m \in 0 .. e - o + 1 PROVE SlotAt(r, m) = Place(q, o + m)
  <2>1. r + m \in Nat /\ r + m < 2 * N /\ o + m <= N
    <3>1. m \in Nat /\ m <= e - o + 1 /\ r \in Nat /\ r <= N - 1 /\ e <= N - 1
      BY <1>1, <1>2, <1>4
    <3>2. o + m <= N /\ m <= N
      BY <1>2, <3>1
    <3>3. r + m \in Nat
      BY <3>1
    <3>4. r + m <= (N - 1) + N
      BY <1>2, <3>1, <3>2
    <3>5. (N - 1) + N < 2 * N
      BY <1>2
    <3>6. r + m < 2 * N
      BY <1>2, <3>3, <3>4, <3>5
    <3>7. QED
      BY <3>2, <3>3, <3>6
  <2>2. Round(r + m) = IF r + m < N THEN r + m ELSE r + m - N
    <3>1. PICK x : x = r + m
      OBVIOUS
    <3>2. x \in Nat /\ x < 2 * SlotCount
      BY <1>1, <2>1, <3>1
    <3>3. PICK y : y = Round(x)
      OBVIOUS
    <3>4. y = IF x < SlotCount THEN x ELSE x - SlotCount
      BY <3>2, <3>3, Around
    <3>5. Round(r + m) = y
      BY <3>1, <3>3
    <3>6. y = IF r + m < N THEN r + m ELSE r + m - N
      BY <1>1, <1>2, <1>4, <3>1, <3>2, <3>4
    <3>7. QED
      BY <3>5, <3>6
  <2>3. Round(r + m) = IF q + (o + m) < N THEN q + (o + m) ELSE q + (o + m) - N
    BY <1>1, <1>2, <1>4, <2>1, <2>2
  <2>4. QED
    <3>1. SlotAt(r, m) = Round(r + m)
      BY DEF SlotAt, Round
    <3>2. QED
      BY <1>1, <2>3, <3>1 DEF Place
<1>6. PICK F : F = FilledAfter(r)
  OBVIOUS
<1>7. PICK d : d = e - o /\ d \in 0 .. N - 1 /\ d \in 0 .. e - o + 1 /\ o + d = e
  BY <1>1, <1>2
<1>8. d \in F
  <2>1. SlotAt(r, d) = Place(q, e)
    BY <1>5, <1>7
  <2>2. QED
    BY <1>1, <1>6, <1>7, <2>1 DEF FilledAfter, Slots
<1>9. ASSUME NEW m \in F PROVE m \in Nat /\ d <= m
  <2>1. m \in 0 .. N - 1 /\ slot[SlotAt(r, m)] # NoWorker
    BY <1>1, <1>6, <1>9 DEF FilledAfter, Slots
  <2>2. SUFFICES ASSUME m < d PROVE FALSE
    BY <1>7, <2>1
  <2>3. m \in 0 .. e - o + 1 /\ o + m \in o .. e - 1
    BY <1>7, <2>1, <2>2
  <2>4. SlotAt(r, m) = Place(q, o + m) /\ slot[Place(q, o + m)] = NoWorker
    BY <1>5, <2>3
  <2>5. QED
    BY <2>1, <2>4
<1>10. Min(F) = d
  <2>1. Min(F) = CHOOSE x \in F : \A y \in F : x <= y
    BY DEF Min
  <2>2. d \in F /\ \A y \in F : d <= y
    BY <1>8, <1>9
  <2>3. \A x \in F : (\A y \in F : x <= y) => x = d
    BY <1>7, <1>8, <1>9
  <2>4. QED
    BY <2>1, <2>2, <2>3
<1>11. SlotAt(r, d) = Place(q, e)
  BY <1>5, <1>7
<1>12. SlotAt(r, d + 1) = Place(q, e + 1)
  <2>1. d + 1 \in 0 .. e - o + 1 /\ o + (d + 1) = e + 1
    BY <1>7
  <2>2. QED
    BY <1>5, <2>1
<1>13. QED
  BY <1>3, <1>6, <1>10, <1>11, <1>12 DEF Chosen, NextAfter

\* The filled slots, counted from q on, and how many of them come before the o-th.
FilledFrom(q) == {n \in Slots : slot[Place(q, n)] # NoWorker}
Before(q, o) == {n \in FilledFrom(q) : n < o}

(* The slots counted from q on are the slots. *)
LEMMA PlacesAreSlots ==
    ASSUME NEW q \in Slots
    PROVE  /\ \A n \in 0 .. SlotCount : Place(q, n) \in Slots
           /\ \A n, m \in Slots : Place(q, n) = Place(q, m) => n = m
           /\ \A i \in Slots : \E n \in Slots : Place(q, n) = i
<1>1. PICK N : N = SlotCount
  OBVIOUS
<1>2. N \in Nat /\ N > 0 /\ q \in 0 .. N - 1 /\ Slots = 0 .. N - 1
  BY <1>1, WorkersNumbers DEF Slots
<1>3. \A n \in 0 .. N : Place(q, n) = IF q + n < N THEN q + n ELSE q + n - N
  BY <1>1 DEF Place
<1>4. \A n \in 0 .. N : Place(q, n) \in 0 .. N - 1
  BY <1>2, <1>3
<1>5. \A n, m \in 0 .. N - 1 : Place(q, n) = Place(q, m) => n = m
  BY <1>2, <1>3
<1>6. ASSUME NEW i \in 0 .. N - 1 PROVE \E n \in 0 .. N - 1 : Place(q, n) = i
  <2>1. PICK n : n = IF i >= q THEN i - q ELSE i - q + N
    OBVIOUS
  <2>2. n \in 0 .. N - 1 /\ (IF q + n < N THEN q + n ELSE q + n - N) = i
    BY <1>2, <2>1
  <2>3. n \in 0 .. N
    BY <1>2, <2>2
  <2>4. QED
    BY <1>3, <2>2, <2>3
<1>7. QED
  BY <1>1, <1>2, <1>4, <1>5, <1>6

(* As many slots are filled, counted from wherever. *)
LEMMA FilledCounted ==
    ASSUME NEW q \in Slots, NEW filled, filled = {i \in Slots : slot[i] # NoWorker}
    PROVE  /\ IsFiniteSet(FilledFrom(q)) /\ IsFiniteSet(filled)
           /\ Cardinality(FilledFrom(q)) = Cardinality(filled)
           /\ Cardinality(filled) \in 0 .. SlotCount
           /\ {slot[Place(q, n)] : n \in FilledFrom(q)} = {slot[i] : i \in filled}
<1>1. PICK D : D = FilledFrom(q)
  OBVIOUS
<1>2. D = {n \in Slots : slot[Place(q, n)] # NoWorker}
  BY <1>1 DEF FilledFrom
<1>3. IsFiniteSet(Slots) /\ Cardinality(Slots) = SlotCount
  <2>1. SlotCount \in Nat /\ SlotCount > 0 /\ 0 \in Int /\ SlotCount - 1 \in Int /\ ~(0 > SlotCount - 1)
    BY WorkersNumbers
  <2>2. IsFiniteSet(0 .. SlotCount - 1) /\ Cardinality(0 .. SlotCount - 1) = (SlotCount - 1) - 0 + 1
    BY <2>1, FS_Interval
  <2>3. QED
    BY <2>1, <2>2 DEF Slots
<1>4. /\ IsFiniteSet(D) /\ IsFiniteSet(filled) /\ Cardinality(filled) \in Nat
      /\ Cardinality(filled) <= SlotCount
  <2>1. D \in SUBSET Slots /\ filled \in SUBSET Slots
    BY <1>2
  <2>2. QED
    BY <1>3, <2>1, FS_Subset, FS_CardinalityType
<1>5. PICK f : f = [n \in D |-> Place(q, n)]
  OBVIOUS
<1>6. \A n \in D : n \in 0 .. SlotCount /\ n \in Slots
  BY <1>2, WorkersNumbers DEF Slots
<1>7. \A n \in D : f[n] \in filled
  BY <1>2, <1>5, <1>6, PlacesAreSlots
<1>8. \A n, m \in D : f[n] = f[m] => n = m
  BY <1>5, <1>6, PlacesAreSlots
<1>9. \A i \in filled : \E n \in D : f[n] = i
  <2>1. ASSUME NEW i \in filled PROVE \E n \in D : f[n] = i
    <3>1. PICK n \in Slots : Place(q, n) = i
      BY PlacesAreSlots
    <3>2. n \in D
      BY <1>2, <3>1
    <3>3. QED
      BY <1>5, <3>1, <3>2
  <2>2. QED
    BY <2>1
<1>10. f \in Bijection(D, filled)
  <2>1. f \in [D -> filled]
    BY <1>5, <1>7
  <2>2. f \in Injection(D, filled)
    BY <1>8, <2>1 DEF Injection, IsInjective
  <2>3. f \in Surjection(D, filled)
    BY <1>9, <2>1 DEF Surjection
  <2>4. QED
    BY <2>2, <2>3 DEF Bijection
<1>11. ExistsBijection(D, filled)
  BY <1>10 DEF ExistsBijection
<1>12. Cardinality(D) = Cardinality(filled)
  BY <1>4, <1>11, FS_Bijection
<1>13. {slot[Place(q, n)] : n \in D} = {slot[i] : i \in filled}
  <2>1. \A n \in D : Place(q, n) \in filled
    BY <1>5, <1>7
  <2>2. \A i \in filled : \E n \in D : Place(q, n) = i
    BY <1>5, <1>9
  <2>3. QED
    BY <2>1, <2>2
<1>14. QED
  BY <1>1, <1>4, <1>12, <1>13, WorkersNumbers

(* The round-robin stays among the slots, if one is filled. *)
LEMMA NextInside ==
    ASSUME NEW r \in Slots, NEW i \in Slots, slot[i] # NoWorker
    PROVE  NextAfter(r) \in Slots
<1> DEFINE T == {k \in Slots : slot[Place(r, k)] # NoWorker}
<1>1. SlotCount \in Nat /\ Slots = 0 .. SlotCount - 1
  BY WorkersNumbers DEF Slots
<1>2. PICK n \in Slots : Place(r, n) = i
  BY PlacesAreSlots
<1>3. T \in SUBSET Nat /\ T # {}
  BY <1>1, <1>2
<1>4. PICK e \in T : \A k \in T : e <= k
  BY <1>3, LeastNumber
<1>5. /\ e \in Nat /\ e < SlotCount /\ slot[Place(r, e)] # NoWorker
      /\ 0 \in Nat /\ 0 <= e /\ e + 1 \in 0 .. SlotCount
  BY <1>1, <1>4
<1>6. ASSUME NEW k \in 0 .. e - 1 PROVE slot[Place(r, k)] = NoWorker
  <2>1. k \in Slots /\ k < e
    BY <1>1, <1>5
  <2>2. k \notin T
    BY <1>4, <1>5, <2>1
  <2>3. QED
    BY <2>1, <2>2
<1>7. NextAfter(Place(r, 0)) = Place(r, e + 1)
  BY <1>5, <1>6, Turn
<1>8. Place(r, 0) = r
  BY <1>1 DEF Place
<1>9. Place(r, e + 1) \in Slots
  BY <1>5, PlacesAreSlots
<1>10. QED
  BY <1>7, <1>8, <1>9

(* Wherever the round-robin stands, each call chooses another worker. *)
LEMMA ServedInTurn ==
    ASSUME nextIndex \in Slots
    PROVE  EveryWorkerServes
<1>1. PICK q, filled : q = nextIndex /\ filled = {i \in Slots : slot[i] # NoWorker}
  OBVIOUS
<1> DEFINE stand == CHOOSE f : f = [n \in 0 .. SlotCount |->
                                        IF n = 0 THEN nextIndex ELSE NextAfter(f[n - 1])]
<1>2. EveryWorkerServes <=>
        (filled # {} => {Chosen(stand[n]) : n \in 0 .. Cardinality(filled) - 1} = {slot[i] : i \in filled})
  BY <1>1 DEF EveryWorkerServes
<1>3. SUFFICES ASSUME filled # {}
               PROVE  {Chosen(stand[n]) : n \in 0 .. Cardinality(filled) - 1} = {slot[i] : i \in filled}
  BY <1>2
<1>4. PICK D, c : D = FilledFrom(q) /\ c = Cardinality(filled)
  OBVIOUS
<1>5. /\ IsFiniteSet(D) /\ IsFiniteSet(filled) /\ Cardinality(D) = c /\ c \in 0 .. SlotCount
      /\ {slot[Place(q, n)] : n \in D} = {slot[i] : i \in filled}
  BY <1>1, <1>4, FilledCounted
<1>6. SlotCount \in Nat /\ c \in Nat /\ c <= SlotCount /\ Slots = 0 .. SlotCount - 1 /\ q \in Slots
  BY <1>1, <1>5, WorkersNumbers DEF Slots
<1>7. D \in SUBSET Slots /\ \A n \in Slots : n \in D <=> slot[Place(q, n)] # NoWorker
  BY <1>4 DEF FilledFrom
\* Some filled slot is the next, if not all have had their turn.
<1>7a. \A n \in D : n \in Nat /\ n < SlotCount /\ n \in Slots
  BY <1>6, <1>7
<1>8. ASSUME NEW o \in Nat, \E n \in D : n >= o
      PROVE  \E e \in D : /\ e >= o /\ \A n \in D : n >= o => e <= n
                          /\ Chosen(Place(q, o)) = slot[Place(q, e)]
                          /\ NextAfter(Place(q, o)) = Place(q, e + 1)
  <2> DEFINE T == {n \in D : n >= o}
  <2>1. T \in SUBSET Nat /\ T # {}
    BY <1>7a, <1>8
  <2>2. PICK e \in T : \A n \in T : e <= n
    BY <2>1, LeastNumber
  <2>3. e \in D /\ e >= o /\ e \in Nat /\ e < SlotCount /\ slot[Place(q, e)] # NoWorker
    BY <1>6, <1>7, <2>2
  <2>4. ASSUME NEW n \in o .. e - 1 PROVE slot[Place(q, n)] = NoWorker
    <3>1. n \in Slots /\ n >= o /\ n < e
      BY <1>6, <2>3
    <3>2. n \notin D
      BY <2>2, <2>3, <3>1
    <3>3. QED
      BY <1>7, <3>1, <3>2
  <2>5. o <= e
    BY <2>3
  <2>6. /\ Chosen(Place(q, o)) = slot[Place(q, e)]
        /\ NextAfter(Place(q, o)) = Place(q, e + 1)
    BY <1>6, <2>3, <2>4, <2>5, Turn
  <2>7. \A n \in D : n >= o => e <= n
    BY <2>2
  <2>8. QED
    BY <2>3, <2>6, <2>7
\* There is such a function.
<1>9. ASSUME NEW n \in 0 .. SlotCount PROVE Place(q, n) \in Slots
  BY <1>6, PlacesAreSlots
<1>10. ASSUME NEW r \in Slots PROVE NextAfter(r) \in Slots
  <2>1. PICK i \in Slots : slot[i] # NoWorker
    BY <1>1, <1>3
  <2>2. QED
    BY <2>1, NextInside
<1>11. PICK S, step : S = Slots /\ step = [x \in Slots \X (1 .. SlotCount) |-> NextAfter(x[1])]
  OBVIOUS
<1>12. step \in [S \X (1 .. SlotCount) -> S] /\ q \in S
  BY <1>6, <1>10, <1>11
<1>13. Iterates(S, q, SlotCount, step)
  BY <1>6, <1>12, Iterated DEF IsStep
<1>14. PICK g \in [0 .. SlotCount -> S] :
            \A n \in 0 .. SlotCount : g[n] = IF n = 0 THEN q ELSE step[<<g[n - 1], n>>]
  BY <1>13 DEF Iterates
<1>15. ASSUME NEW n \in 0 .. SlotCount
       PROVE  g[n] = IF n = 0 THEN nextIndex ELSE NextAfter(g[n - 1])
  <2>1. CASE n = 0
    BY <1>1, <1>14, <2>1
  <2>2. CASE n # 0
    <3>1. n \in 1 .. SlotCount /\ n - 1 \in 0 .. SlotCount
      BY <1>6, <2>2
    <3>2. g[n - 1] \in Slots
      BY <1>11, <1>14, <3>1
    <3>3. step[<<g[n - 1], n>>] = NextAfter(g[n - 1])
      BY <1>11, <3>1, <3>2
    <3>4. QED
      BY <1>14, <2>2, <3>3
  <2>3. QED
    BY <2>1, <2>2
<1>16. g = [n \in 0 .. SlotCount |-> IF n = 0 THEN nextIndex ELSE NextAfter(g[n - 1])]
  BY <1>14, <1>15
<1>17. stand = [n \in 0 .. SlotCount |-> IF n = 0 THEN nextIndex ELSE NextAfter(stand[n - 1])]
  BY <1>16
<1> HIDE DEF stand
<1>18. PICK s : s = stand
  OBVIOUS
<1>19. \A n \in 0 .. SlotCount : s[n] = IF n = 0 THEN q ELSE NextAfter(s[n - 1])
  BY <1>1, <1>17, <1>18
<1>20. PICK chosen : chosen = [n \in 0 .. SlotCount |-> Chosen(s[n])]
  OBVIOUS
\* After k calls, k of the filled slots have had their turn, which are the first.
<1>21. PICK w, next : /\ w = [n \in Slots |-> slot[Place(q, n)]]
                      /\ next = [r \in Slots |-> NextAfter(r)]
  OBVIOUS
<1> DEFINE Had(o) == {n \in D : n < o}
           Turns(k, o) == /\ s[k] = Place(q, o)
                          /\ Cardinality(Had(o)) = k
                          /\ {chosen[j] : j \in 0 .. k - 1} = {w[n] : n \in Had(o)}
           T == {k \in 0 .. c : \E o \in 0 .. SlotCount : Turns(k, o)}
<1>22. 0 \in T
  <2>1. Had(0) = {} /\ Cardinality(Had(0)) = 0
    <3>1. Had(0) = {}
      <4>1. \A n \in D : ~(n < 0)
        BY <1>7a
      <4>2. QED
        BY <4>1
    <3>2. Cardinality({}) = 0
      BY FS_EmptySet
    <3>3. QED
      BY <3>1, <3>2
  <2>2. s[0] = Place(q, 0)
    BY <1>6, <1>19 DEF Place
  <2>3. {chosen[j] : j \in 0 .. 0 - 1} = {w[n] : n \in Had(0)}
    BY <2>1
  <2>4. Turns(0, 0)
    BY <2>1, <2>2, <2>3
  <2> HIDE DEF Turns
  <2>5. 0 \in 0 .. SlotCount /\ 0 \in 0 .. c
    BY <1>6
  <2>6. QED
    BY <2>4, <2>5
<1>23. ASSUME NEW k \in 0 .. c, k \in T, k < c PROVE k + 1 \in T
  <2>1. PICK o \in 0 .. SlotCount : Turns(k, o)
    BY <1>23
  <2>2. \E n \in D : n >= o
    <3>1. SUFFICES ASSUME \A n \in D : ~(n >= o) PROVE FALSE
      OBVIOUS
    <3>2. \A n \in D : n < o
      BY <1>7a, <3>1
    <3>3. Had(o) = D
      BY <3>2
    <3>4. Cardinality(Had(o)) = k
      BY <2>1
    <3> HIDE DEF Had
    <3>5. QED
      BY <1>5, <1>6, <1>23, <3>3, <3>4
  <2>3. o \in Nat /\ o <= SlotCount
    BY <1>6
  <2>4. PICK e \in D : /\ e >= o /\ \A n \in D : n >= o => e <= n
                       /\ Chosen(Place(q, o)) = slot[Place(q, e)]
                       /\ NextAfter(Place(q, o)) = Place(q, e + 1)
    BY <1>8, <2>2, <2>3
  <2>5. e \in Nat /\ e < SlotCount /\ e + 1 \in 0 .. SlotCount /\ e \in Slots
    BY <1>6, <1>7a, <2>4
  <2>6. \A n \in D : ~(n >= o /\ n < e)
    BY <1>7a, <2>4, <2>5
  <2>7. k \in 0 .. SlotCount /\ k + 1 \in 0 .. SlotCount /\ k + 1 # 0 /\ (k + 1) - 1 = k /\ k + 1 \in 0 .. c
    BY <1>6, <1>23
  <2>8. s[k] = Place(q, o)
    BY <2>1
  <2>9. s[k + 1] = Place(q, e + 1)
    BY <1>19, <2>4, <2>7, <2>8
  <2>10. chosen[k] = w[e]
    BY <1>20, <1>21, <2>4, <2>5, <2>7, <2>8
  <2>11. Had(e + 1) = Had(o) \cup {e} /\ e \notin Had(o)
    <3>1. \A n \in D : n < e + 1 <=> n < o \/ n = e
      BY <1>7a, <2>3, <2>4, <2>5, <2>6
    <3>2. ~(e < o)
      BY <2>3, <2>4, <2>5
    <3>3. QED
      BY <2>4, <3>1, <3>2
  <2>12. Cardinality(Had(e + 1)) = k + 1
    <3>1. Had(o) \in SUBSET D /\ Cardinality(Had(o)) = k
      BY <2>1
    <3>2. IsFiniteSet(Had(o))
      BY <1>5, <3>1, FS_Subset
    <3> HIDE DEF Had
    <3>3. QED
      BY <2>11, <3>1, <3>2, FS_AddElement
  <2>13. {chosen[j] : j \in 0 .. (k + 1) - 1} = {w[n] : n \in Had(e + 1)}
    <3>1. {chosen[j] : j \in 0 .. k - 1} = {w[n] : n \in Had(o)}
      BY <2>1
    <3>2. 0 .. (k + 1) - 1 = (0 .. k - 1) \cup {k}
      BY <2>7
    <3> HIDE DEF Had
    <3>3. QED
      BY <2>10, <2>11, <3>1, <3>2
  <2>14. Turns(k + 1, e + 1)
    BY <2>9, <2>12, <2>13
  <2> HIDE DEF Turns
  <2>15. QED
    BY <2>5, <2>7, <2>14
<1> HIDE DEF T
<1>24. c \in T
  <2>1. \A k \in 0 .. c : k \in T /\ k < c => k + 1 \in T
    BY <1>23
  <2>2. \A k \in 0 .. c : k \in T
    BY <1>6, <1>22, <2>1, Climb
  <2>3. QED
    BY <1>6, <2>2
<1> USE DEF T
<1>25. PICK o \in 0 .. SlotCount : Turns(c, o)
  BY <1>24
<1>26. Had(o) = D
  <2>1. Had(o) \in SUBSET D /\ Cardinality(Had(o)) = Cardinality(D)
    BY <1>5, <1>25
  <2> HIDE DEF Had
  <2>2. QED
    BY <1>5, <2>1, FS_Subset
<1>27. {chosen[j] : j \in 0 .. c - 1} = {slot[i] : i \in filled}
  <2>1. {chosen[j] : j \in 0 .. c - 1} = {w[n] : n \in Had(o)}
    BY <1>25
  <2>2. {w[n] : n \in D} = {slot[Place(q, n)] : n \in D}
    BY <1>7a, <1>21
  <2> HIDE DEF Had
  <2>3. QED
    BY <1>5, <1>26, <2>1, <2>2
<1>28. {Chosen(stand[n]) : n \in 0 .. c - 1} = {chosen[j] : j \in 0 .. c - 1}
  BY <1>6, <1>18, <1>20
<1>29. QED
  BY <1>4, <1>27, <1>28

\* Where the next search begins: at a slot.
BeginsAtSlot == nextIndex \in Slots

(* getNextWorker leaves it there. *)
LEMMA SlotInductive == WorkersSpec => []BeginsAtSlot
<1>1. WorkersInit => BeginsAtSlot
  BY WorkersNumbers DEF WorkersInit, Slots, BeginsAtSlot
<1>2. BeginsAtSlot /\ [WorkersNext]_workerVars => BeginsAtSlot'
  <2>1. ASSUME nextIndex \in Slots, GetNextWorker PROVE nextIndex' \in Slots
    <3>1. nextIndex' = NextAfter(nextIndex) /\ FilledAfter(nextIndex) # {}
      BY <2>1 DEF GetNextWorker
    <3>2. PICK n \in Slots : slot[SlotAt(nextIndex, n)] # NoWorker
      BY <3>1 DEF FilledAfter
    <3>3. SlotAt(nextIndex, n) = Round(nextIndex + n)
      BY DEF SlotAt, Round
    <3>4. PICK x : x = nextIndex + n
      OBVIOUS
    <3>5. SlotCount \in Nat /\ x \in Nat /\ x < 2 * SlotCount /\ SlotCount > 0
      BY <2>1, <3>4, WorkersNumbers DEF Slots
    <3>6. PICK y : y = Round(x)
      OBVIOUS
    <3>7. y = IF x < SlotCount THEN x ELSE x - SlotCount
      BY <3>5, <3>6, Around
    <3>8. y \in Slots
      BY <3>5, <3>7 DEF Slots
    <3>9. SlotAt(nextIndex, n) = y
      BY <3>3, <3>4, <3>6
    <3>10. QED
      BY <2>1, <3>1, <3>2, <3>8, <3>9, NextInside
  <2>2. ASSUME [WorkersNext]_workerVars, ~GetNextWorker PROVE UNCHANGED nextIndex
    <3>1. \A i, clean : Exit(i, clean) => UNCHANGED nextIndex
      BY DEF Exit
    <3>2. \A i : Created(i) \/ CreateFails(i) => UNCHANGED nextIndex
      BY DEF Created, CreateFails
    <3>3. \A e : Died(e) => UNCHANGED nextIndex
      BY DEF Died
    <3>4. ClosePool \/ Tick \/ UNCHANGED workerVars => UNCHANGED nextIndex
      BY DEF ClosePool, Tick, workerVars
    <3>5. QED
      BY <2>2, <3>1, <3>2, <3>3, <3>4 DEF WorkersNext
  <2>3. QED
    BY <2>1, <2>2 DEF BeginsAtSlot
<1>3. QED
  BY <1>1, <1>2, PTL DEF WorkersSpec

(***************************************************************************)
(* Every worker serves: for a pool of any size, whatever slots are empty   *)
(* and wherever the round-robin stands, as many calls of getNextWorker as  *)
(* there are workers choose every one of them.                             *)
(***************************************************************************)
THEOREM EveryWorkerAlwaysServes == WorkersSpec => []EveryWorkerServes
<1>1. BeginsAtSlot => EveryWorkerServes
  BY ServedInTurn DEF BeginsAtSlot
<1>2. QED
  BY <1>1, SlotInductive, PTL

-----------------------------------------------------------------------------
(* PipDrag, for any containers that have room for the video, any margins   *)
(* and any pointer.                                                        *)

(* The margins leave room: no lower bound is above the upper one, the preview hidden or not. *)
LEMMA RoomInside ==
    ASSUME NEW size \in Sizes, NEW off \in BOOLEAN
    PROVE  /\ Lowest \in Point /\ Highest(size, off) \in Point
           /\ Lowest.x <= Highest(size, off).x
           /\ Lowest.y <= Highest(size, off).y
<1>1. /\ size.x \in Nat /\ size.y \in Nat
      /\ Extent(size, FALSE).x \in Nat /\ Extent(size, FALSE).y \in Nat
      /\ BottomMargin(size) \in Nat /\ EdgeMargin \in Nat
  <2>1. size.x \in Nat /\ size.y \in Nat
    BY PipNumbers
  <2>2. Extent(size, FALSE) \in {MobileVideo, DesktopVideo}
    BY DEF Extent
  <2>3. Extent(size, FALSE).x \in Nat /\ Extent(size, FALSE).y \in Nat
    BY <2>2, PipNumbers
  <2>4. BottomMargin(size) \in Nat /\ EdgeMargin \in Nat
    BY PipNumbers DEF BottomMargin
  <2>5. QED
    BY <2>1, <2>3, <2>4
<1>2. \/ off = FALSE
      \/ Extent(size, off).x = 0 /\ Extent(size, off).y = 0
  BY DEF Extent, Nothing
<1>3. /\ Highest(size, off).x = size.x - Extent(size, off).x - EdgeMargin
      /\ Highest(size, off).y = size.y - Extent(size, off).y - BottomMargin(size)
      /\ Highest(size, off) = [x |-> Highest(size, off).x, y |-> Highest(size, off).y]
      /\ Lowest = [x |-> EdgeMargin, y |-> EdgeMargin]
  BY DEF Highest, Lowest
<1>4. /\ size.x >= Extent(size, FALSE).x + 2 * EdgeMargin
      /\ size.y >= Extent(size, FALSE).y + EdgeMargin + BottomMargin(size)
  BY PipSizes
<1>5. ASSUME NEW s \in Nat, NEW full \in Nat, NEW e, NEW low \in Nat, NEW high \in Nat,
             e = full \/ e = 0,
             s >= full + low + high
      PROVE  s - e - high \in Int /\ low <= s - e - high
  <2>1. CASE e = full
    BY <1>5, <2>1
  <2>2. CASE e = 0
    BY <1>5, <2>2
  <2>3. QED
    BY <1>5, <2>1, <2>2
<1>6. /\ Highest(size, off).x \in Int /\ Lowest.x \in Int /\ Lowest.x <= Highest(size, off).x
      /\ Highest(size, off).y \in Int /\ Lowest.y \in Int /\ Lowest.y <= Highest(size, off).y
  <2>1. /\ Extent(size, off).x = Extent(size, FALSE).x \/ Extent(size, off).x = 0
        /\ Extent(size, off).y = Extent(size, FALSE).y \/ Extent(size, off).y = 0
    BY <1>2
  <2>2. ASSUME NEW full \in Nat, NEW e \in Nat, size.x >= full + 2 * e
        PROVE  size.x >= full + e + e
    BY <1>1, <2>2
  <2>3. /\ size.x - Extent(size, off).x - EdgeMargin \in Int
        /\ EdgeMargin <= size.x - Extent(size, off).x - EdgeMargin
    <3>1. size.x >= Extent(size, FALSE).x + EdgeMargin + EdgeMargin
      BY <1>1, <1>4, <2>2
    <3>2. QED
      BY <1>1, <1>5, <2>1, <3>1
  <2>4. /\ size.y - Extent(size, off).y - BottomMargin(size) \in Int
        /\ EdgeMargin <= size.y - Extent(size, off).y - BottomMargin(size)
    BY <1>1, <1>4, <1>5, <2>1
  <2>5. QED
    BY <1>1, <1>3, <2>3, <2>4
<1>7. Lowest \in Point
  BY <1>1, <1>3 DEF Point
<1>8. Highest(size, off) \in Point
  BY <1>3, <1>6 DEF Point
<1>9. QED
  BY <1>6, <1>7, <1>8

(* An unset position is a point. *)
LEMMA OriginType == Origin \in Point
  BY DEF Origin, Nothing, Point

(* A corner is made of bounds. *)
LEMMA CornerInBounds ==
    ASSUME NEW size \in Sizes, NEW at \in Point, hidden \in BOOLEAN
    PROVE  /\ ClosestCorner(size, at) \in Point
           /\ ClosestCorner(size, at).x \in {Lowest.x, Highest(size, hidden).x}
           /\ ClosestCorner(size, at).y \in {Lowest.y, Highest(size, hidden).y}
<1>1. Lowest \in Point /\ Highest(size, hidden) \in Point
  BY RoomInside
<1>2. /\ ClosestCorner(size, at).x \in {Lowest.x, Highest(size, hidden).x}
      /\ ClosestCorner(size, at).y \in {Lowest.y, Highest(size, hidden).y}
  BY DEF ClosestCorner, CornerOn
<1>3. ClosestCorner(size, at) = [x |-> ClosestCorner(size, at).x, y |-> ClosestCorner(size, at).y]
  BY DEF ClosestCorner
<1>4. QED
  BY <1>1, <1>2, <1>3 DEF Point

(* Clamp keeps a coordinate between the bounds of the container. *)
LEMMA ClampInBounds ==
    ASSUME container \in Sizes, hidden \in BOOLEAN, NEW axis \in {"x", "y"}, NEW v \in Int
    PROVE  Clamp(axis, v) \in Lowest[axis] .. Highest(container, hidden)[axis]
<1>1. /\ Lowest[axis] \in Int /\ Highest(container, hidden)[axis] \in Int
      /\ Lowest[axis] <= Highest(container, hidden)[axis]
  BY RoomInside DEF Point
<1>2. QED
  BY <1>1 DEF Clamp, Greatest, Least

PipInv == PipTypeOK /\ PreviewInView

(* One step of a handler, or of the button that hides and shows it, keeps the preview in view. *)
LEMMA PipStep ==
    ASSUME PipInv, [PipNext]_pipVars
    PROVE  PipInv'
<1> USE DEF PipInv, InCorner, Inside
<1>1. CASE UNCHANGED pipVars
  BY <1>1 DEF pipVars, PipTypeOK, PreviewInView
<1>2. CASE SetupPipDrag
  <2>1. PipTypeOK'
    BY <1>2, RoomInside DEF SetupPipDrag, ResetPipPosition, PipTypeOK
  <2>2. PreviewInView'
    BY <1>2 DEF SetupPipDrag, ResetPipPosition, PipTypeOK, PreviewInView
  <2>3. QED
    BY <2>1, <2>2
<1>3. CASE CleanupPipDrag
  <2>1. ~attached' /\ ~dragging' /\ ~resized' /\ ~blind' /\ position' = Origin
    BY <1>3 DEF CleanupPipDrag
  <2>2. UNCHANGED <<container, hidden, pointer, initial>>
    BY <1>3 DEF CleanupPipDrag
  <2>3. /\ attached' \in BOOLEAN /\ dragging' \in BOOLEAN /\ resized' \in BOOLEAN
        /\ blind' \in BOOLEAN
    BY <1>3 DEF CleanupPipDrag
  <2>4. QED
    BY <2>1, <2>2, <2>3, OriginType DEF PipTypeOK, PreviewInView
<1>4. CASE TogglePip
  <2>1. hidden' = ~hidden
        /\ UNCHANGED <<container, attached, dragging, position, pointer, initial, resized, blind>>
    BY <1>4 DEF TogglePip
  <2>2. PipTypeOK'
    BY <2>1 DEF PipTypeOK
  <2>3. PreviewInView'
    BY <2>1 DEF PreviewInView
  <2>4. QED
    BY <2>2, <2>3
<1>5. ASSUME NEW at \in Pointers, PointerDown(at) PROVE PipInv'
  <2>1. PipTypeOK'
    BY <1>5, PipNumbers DEF PointerDown, PipTypeOK, Point
  <2>2. PreviewInView'
    BY <1>5 DEF PointerDown, PreviewInView, PipTypeOK
  <2>3. QED
    BY <2>1, <2>2
<1>6. ASSUME NEW at \in Pointers, PointerMove(at) PROVE PipInv'
  <2> DEFINE goal == [x |-> initial.x + at.x - pointer.x, y |-> initial.y + at.y - pointer.y]
  <2>1. goal.x \in Int /\ goal.y \in Int
    BY PipNumbers DEF PipTypeOK, Point
  <2>2. /\ Clamp("x", goal.x) \in Lowest.x .. Highest(container, hidden).x
        /\ Clamp("y", goal.y) \in Lowest.y .. Highest(container, hidden).y
    BY <2>1, ClampInBounds DEF PipTypeOK
  <2>3. position' = [x |-> Clamp("x", goal.x), y |-> Clamp("y", goal.y)]
    BY <1>6 DEF PointerMove
  <2>4. /\ UNCHANGED <<container, attached, hidden, dragging, pointer, initial>>
        /\ dragging /\ resized' = FALSE /\ blind' = hidden
    BY <1>6 DEF PointerMove
  <2> HIDE DEF goal
  <2>5. position' \in Point
    BY <2>2, <2>3, RoomInside DEF PipTypeOK, Point
  <2>6. PipTypeOK'
    BY <2>4, <2>5 DEF PipTypeOK
  <2>7. \A axis \in {"x", "y"} : position'[axis] \in Lowest[axis] .. Highest(container', hidden)[axis]
    BY <2>2, <2>3, <2>4
  <2>8. PreviewInView'
    BY <2>4, <2>7 DEF PreviewInView, PipTypeOK
  <2>9. QED
    BY <2>6, <2>8
<1>7. CASE PointerEnd
  <2>1. /\ position' = ClosestCorner(container, position) /\ blind' = hidden
        /\ UNCHANGED <<container, hidden>>
    BY <1>7 DEF PointerEnd, Snapped
  <2>2. PipTypeOK'
    BY <1>7, <2>1, CornerInBounds DEF PointerEnd, PipTypeOK
  <2>3. PreviewInView'
    BY <2>1, CornerInBounds DEF PreviewInView, PipTypeOK
  <2>4. QED
    BY <2>2, <2>3
<1>8. ASSUME NEW size \in Sizes, Resize(size) PROVE PipInv'
  <2>1. container' = size /\ UNCHANGED <<attached, hidden, dragging, pointer, initial>>
    BY <1>8 DEF Resize
  <2>2. CASE attached /\ ~dragging
    <3>1. position' = ClosestCorner(size, position) /\ blind' = hidden
      BY <1>8, <2>2 DEF Resize
    <3>2. PipTypeOK'
      BY <1>8, <2>1, <3>1, CornerInBounds DEF Resize, PipTypeOK
    <3>3. PreviewInView'
      BY <2>1, <3>1, CornerInBounds DEF PreviewInView, PipTypeOK
    <3>4. QED
      BY <3>2, <3>3
  <2>3. CASE ~(attached /\ ~dragging)
    <3>1. UNCHANGED <<position, blind>> /\ resized' \in BOOLEAN /\ (dragging => resized')
      BY <1>8, <2>3 DEF Resize, PipTypeOK
    <3>2. PipTypeOK'
      BY <2>1, <3>1 DEF PipTypeOK
    <3>3. PreviewInView'
      BY <2>1, <2>3, <3>1 DEF PreviewInView
    <3>4. QED
      BY <3>2, <3>3
  <2>4. QED
    BY <2>2, <2>3
<1>9. QED
  BY <1>1, <1>2, <1>3, <1>4, <1>5, <1>6, <1>7, <1>8 DEF PipNext

(* Every step keeps it. *)
LEMMA PipInductive == PipSpec => []PipInv
<1>1. PipInit => PipInv
  <2>1. SUFFICES ASSUME PipInit PROVE PipTypeOK /\ PreviewInView
    BY DEF PipInv
  <2>2. ~attached /\ ~dragging /\ container \in Sizes
    BY <2>1 DEF PipInit
  <2>3. /\ attached \in BOOLEAN /\ hidden \in BOOLEAN /\ dragging \in BOOLEAN
        /\ resized \in BOOLEAN /\ blind \in BOOLEAN
    BY <2>1 DEF PipInit
  <2>4. position \in Point /\ pointer \in Point /\ initial \in Point
    BY <2>1, OriginType DEF PipInit
  <2>5. QED
    BY <2>2, <2>3, <2>4 DEF PipTypeOK, PreviewInView
<1>2. PipInv /\ [PipNext]_pipVars => PipInv'
  BY PipStep
<1>3. QED
  BY <1>1, <1>2, PTL DEF PipSpec

(***************************************************************************)
(* A preview that was not hidden when its position was last computed       *)
(* is in a corner, or within the margins while it is dragged,    *)
(* after any sequence of pointer events, rotations, hidings and clean-ups. *)
(***************************************************************************)
THEOREM PreviewAlwaysInView == PipSpec => []PreviewInView
<1>1. PipInv => PreviewInView
  BY DEF PipInv
<1>2. QED
  BY <1>1, PipInductive, PTL

-----------------------------------------------------------------------------
(* Media, for any number of calls and flips.                               *)
(*                                                                         *)
(* As long as no race has happened a call has one stream with at most one  *)
(* video track, the only one that may be live, and it is that one that is  *)
(* sent.                                                                   *)

Facings == {"user", "environment"}
Track == [live : BOOLEAN, enabled : BOOLEAN, facing : Facings]
Flip == [id : Nat, stream : Nat, track : Nat, facing : Facings, stage : {"constrain", "acquire"}]

MediaTypes ==
    /\ mediaScreen \in {"idle", "acquiring-media", "active", "error"}
    /\ sfuMode \in BOOLEAN /\ videoOff \in BOOLEAN /\ paused \in BOOLEAN /\ raced \in BOOLEAN
    /\ producer \in {"none", "asked", "kept", "failed"}
    /\ producer # "none" => sfuMode
    /\ paused => producer = "kept"
    /\ acquiring \in Nat /\ flipped \in Nat
    /\ tracks \in Seq(Track)
    /\ streams \in Seq(Seq(Nat))
    /\ \A s \in DOMAIN streams : \A i \in DOMAIN streams[s] : streams[s][i] \in DOMAIN tracks
    /\ local \in 0 .. Len(streams)
    /\ sender \in 0 .. Len(tracks)
    /\ flips \subseteq Flip
    /\ \A f \in flips : f.track \in DOMAIN tracks /\ f.stream \in DOMAIN streams
    /\ facing \in Facings
    /\ mediaScreen = "active" => local # 0
    /\ producer \in {"asked", "kept"} => sender # 0

\* Where a call stands, who holds its stream, and the one track there is in it.
InOrder ==
    /\ acquiring = IF mediaScreen = "acquiring-media" THEN 1 ELSE 0
    /\ mediaScreen # "active" => local = 0 /\ sender = 0 /\ flips = {} /\ producer = "none"
    /\ local = 0 => facing = "user"
    /\ \A s \in DOMAIN streams : Len(streams[s]) <= 1
    /\ \A t \in DOMAIN tracks : tracks[t].live =>
        local # 0 /\ streams[local] = <<t>> /\ tracks[t].facing = facing

\* What a flip is about, and what is sent.
FlipAndSend ==
    /\ \A f, g \in flips : f = g
    /\ \A f \in flips :
        /\ f.stream = local /\ streams[local] = <<f.track>>
        /\ f.stage = "acquire" => ~tracks[f.track].live
    /\ sender # 0 => local # 0 /\ streams[local] = <<sender>>
    /\ local # 0 /\ streams[local] # <<>> => tracks[Head(streams[local])].enabled = ~videoOff
    /\ producer = "kept" => paused = videoOff
    /\ sfuMode /\ mediaScreen = "active" /\ producer # "kept" => ~videoOff
    /\ sfuMode => (sender # 0 <=> producer \in {"asked", "kept"})

MediaInv == MediaTypes /\ (~raced => InOrder /\ FlipAndSend)

-----------------------------------------------------------------------------
(* What the helpers do to tracks and streams.                              *)

LEMMA StoppedTracks ==
    ASSUME tracks \in Seq(Track), NEW S
    PROVE  /\ Stopped(S) \in Seq(Track)
           /\ Len(Stopped(S)) = Len(tracks)
           /\ DOMAIN Stopped(S) = DOMAIN tracks
           /\ \A t \in DOMAIN tracks :
               /\ Stopped(S)[t].live <=> tracks[t].live /\ t \notin S
               /\ Stopped(S)[t].facing = tracks[t].facing
               /\ Stopped(S)[t].enabled = tracks[t].enabled
<1>0. DOMAIN tracks = 1 .. Len(tracks)
    OBVIOUS
<1>1. /\ DOMAIN Stopped(S) = 1 .. Len(tracks)
      /\ \A t \in 1 .. Len(tracks) :
          Stopped(S)[t] = IF t \in S THEN [tracks[t] EXCEPT !.live = FALSE] ELSE tracks[t]
    BY <1>0, Zenon DEF Stopped
<1>2. \A t \in 1 .. Len(tracks) : tracks[t] \in Track
    OBVIOUS
<1>3. \A t \in 1 .. Len(tracks) :
        /\ Stopped(S)[t] \in Track
        /\ Stopped(S)[t].live <=> tracks[t].live /\ t \notin S
        /\ Stopped(S)[t].facing = tracks[t].facing
        /\ Stopped(S)[t].enabled = tracks[t].enabled
    BY <1>1, <1>2 DEF Track
<1>4. Stopped(S) = [t \in 1 .. Len(tracks) |-> Stopped(S)[t]]
    BY DEF Stopped
<1>5. Stopped(S) \in Seq(Track) /\ Len(Stopped(S)) = Len(tracks)
    BY <1>3, <1>4
<1> QED
    BY <1>1, <1>3, <1>5

LEMMA StreamWithout ==
    ASSUME NEW stream \in Seq(Nat), NEW t \in Nat
    PROVE  /\ WithoutTrack(stream, t) \in Seq(Nat)
           /\ \A i \in DOMAIN WithoutTrack(stream, t) :
               \E j \in DOMAIN stream : WithoutTrack(stream, t)[i] = stream[j]
           /\ stream = <<t>> => WithoutTrack(stream, t) = <<>>
<1>1. CASE t \notin ToSet(stream)
  <2>1. WithoutTrack(stream, t) = stream
      BY <1>1 DEF WithoutTrack
  <2>2. stream # <<t>>
      BY <1>1 DEF ToSet
  <2> QED
      BY <2>1, <2>2
<1>2. CASE t \in ToSet(stream)
  <2> DEFINE i == CHOOSE j \in DOMAIN stream : stream[j] = t
             front == SubSeq(stream, 1, i - 1)
             back == SubSeq(stream, i + 1, Len(stream))
  <2>1. i \in 1 .. Len(stream)
      BY <1>2 DEF ToSet
  <2>2. WithoutTrack(stream, t) = front \o back
      BY <1>2 DEF WithoutTrack, RemoveAt
  <2> HIDE DEF i
  <2>3. /\ front \in Seq(Nat) /\ Len(front) = i - 1
        /\ \A n \in 1 .. Len(front) : front[n] = stream[n]
      BY <2>1
  <2>4. /\ back \in Seq(Nat) /\ Len(back) = Len(stream) - i
        /\ \A n \in 1 .. Len(back) : back[n] = stream[i + n]
      BY <2>1
  <2> HIDE DEF front, back
  <2>5. /\ front \o back \in Seq(Nat)
        /\ Len(front \o back) = Len(front) + Len(back)
        /\ \A n \in 1 .. Len(front) + Len(back) :
            (front \o back)[n] = IF n <= Len(front) THEN front[n] ELSE back[n - Len(front)]
      BY <2>3, <2>4, ConcatProperties
  <2>6. \A n \in 1 .. Len(front \o back) : \E j \in 1 .. Len(stream) : (front \o back)[n] = stream[j]
    <3> SUFFICES ASSUME NEW n \in 1 .. Len(front \o back)
                 PROVE  \E j \in 1 .. Len(stream) : (front \o back)[n] = stream[j]
        OBVIOUS
    <3> DEFINE both == front \o back
    <3>1. /\ Len(both) = Len(front) + Len(back)
          /\ \A m \in 1 .. Len(front) + Len(back) :
                both[m] = IF m <= Len(front) THEN front[m] ELSE back[m - Len(front)]
        BY <2>5
    <3>2. n \in 1 .. Len(both)
        OBVIOUS
    <3> HIDE DEF both
    <3>3. /\ Len(front) = i - 1 /\ Len(back) = Len(stream) - i
          /\ i \in 1 .. Len(stream) /\ Len(stream) \in Nat
          /\ n \in 1 .. Len(front) + Len(back)
          /\ both[n] = IF n <= Len(front) THEN front[n] ELSE back[n - Len(front)]
      <4>1. Len(front) = i - 1 /\ Len(back) = Len(stream) - i
          BY <2>3, <2>4
      <4>2. i \in 1 .. Len(stream) /\ Len(stream) \in Nat
          BY <2>1
      <4> QED
          BY <3>1, <3>2, <4>1, <4>2
    <3>4. CASE n <= i - 1
      <4>1. both[n] = front[n] /\ n \in 1 .. Len(front) /\ n \in 1 .. Len(stream)
          BY <3>3, <3>4
      <4>2. front[n] = stream[n]
          BY <4>1, <2>3
      <4> QED
          BY <4>1, <4>2 DEF both
    <3>5. CASE n > i - 1
      <4>1. (front \o back)[n] = back[n - (i - 1)] /\ n - (i - 1) \in 1 .. Len(back)
        <5>1. both[n] = back[n - (i - 1)] /\ n - (i - 1) \in 1 .. Len(back)
            BY <3>3, <3>5
        <5> QED
            BY <5>1 DEF both
      <4>2. back[n - (i - 1)] = stream[i + (n - (i - 1))] /\ i + (n - (i - 1)) \in 1 .. Len(stream)
          BY <4>1, <2>1, <2>4
      <4> QED
          BY <4>1, <4>2
    <3> QED
        BY <3>4, <3>5, <2>1
  <2>7. stream = <<t>> => front \o back = <<>>
    <3>1. stream = <<t>> => Len(front \o back) = 0
        BY <2>1, <2>3, <2>4, <2>5
    <3> QED
        BY <3>1, <2>5
  <2>8. DOMAIN (front \o back) = 1 .. Len(front \o back) /\ DOMAIN stream = 1 .. Len(stream)
      BY <2>5
  <2> QED
      BY <2>2, <2>5, <2>6, <2>7, <2>8
<1> QED
    BY <1>1, <1>2

-----------------------------------------------------------------------------
(* Every action keeps the types.                                           *)

LEMMA ReleaseTypes ==
    ASSUME MediaTypes, NEW underWay \in BOOLEAN, Release(underWay),
           mediaScreen' \in {"idle", "error"}, acquiring' \in Nat,
           flips' \subseteq flips
    PROVE  MediaTypes'
<1> DEFINE S == (IF local # 0 THEN TracksOf(local) ELSE {}) \cup (IF sfuMode THEN {sender} ELSE {})
<1>1. tracks' = Stopped(S)
    BY DEF Release
<1> HIDE DEF S
<1>2. tracks' \in Seq(Track) /\ Len(tracks') = Len(tracks) /\ DOMAIN tracks' = DOMAIN tracks
    BY <1>1, StoppedTracks DEF MediaTypes
<1>3. /\ streams' = streams /\ sfuMode' = sfuMode /\ videoOff' = videoOff /\ flipped' = flipped
      /\ local' = 0 /\ sender' = 0 /\ producer' = "none" /\ paused' = FALSE
      /\ facing' \in Facings /\ raced' \in BOOLEAN
    BY DEF Release, MediaTypes, ResetFacing, Facings
<1>4. \A f \in flips' : f.track \in DOMAIN tracks' /\ f.stream \in DOMAIN streams'
    BY <1>2, <1>3 DEF MediaTypes
<1>5. /\ \A s \in DOMAIN streams' : \A i \in DOMAIN streams'[s] : streams'[s][i] \in DOMAIN tracks'
      /\ streams' \in Seq(Seq(Nat)) /\ local' \in 0 .. Len(streams') /\ sender' \in 0 .. Len(tracks')
    BY <1>2, <1>3 DEF MediaTypes
<1>6. flips' \subseteq Flip
    BY DEF MediaTypes
<1> QED
    BY <1>2, <1>3, <1>4, <1>5, <1>6 DEF MediaTypes

LEMMA MediaErrorTypes ==
    ASSUME MediaTypes, NEW underWay \in BOOLEAN, MediaError(underWay), acquiring' \in Nat,
           flips' \subseteq flips
    PROVE  MediaTypes'
<1>1. CASE mediaScreen = "acquiring-media"
    BY <1>1, ReleaseTypes DEF MediaError
<1>2. CASE mediaScreen # "acquiring-media"
    BY <1>2 DEF MediaError, MediaTypes, producerVars
<1> QED
    BY <1>1, <1>2

LEMMA AcquiredTypes ==
    ASSUME MediaTypes, NEW withVideo \in BOOLEAN, Acquired(withVideo)
    PROVE  MediaTypes'
<1>1. NewTrack("user") \in Track
    BY DEF NewTrack, Track, Facings
<1>2. /\ tracks' \in Seq(Track) /\ Len(tracks') >= Len(tracks)
      /\ DOMAIN tracks' = 1 .. Len(tracks') /\ DOMAIN tracks = 1 .. Len(tracks)
      /\ withVideo => Len(tracks') > 0
    BY <1>1 DEF MediaTypes, Acquired
<1> DEFINE stream == IF withVideo THEN <<Len(tracks')>> ELSE <<>>
<1>3. stream \in Seq(Nat) /\ \A i \in DOMAIN stream : stream[i] \in DOMAIN tracks'
    BY <1>2
<1> HIDE DEF stream
<1>4. streams' = Append(streams, stream)
    BY DEF Acquired, stream
<1>5. /\ streams' \in Seq(Seq(Nat)) /\ Len(streams') = Len(streams) + 1
      /\ DOMAIN streams' = 1 .. Len(streams') /\ DOMAIN streams = 1 .. Len(streams)
      /\ streams'[Len(streams')] = stream
      /\ \A s \in DOMAIN streams : streams'[s] = streams[s]
    BY <1>3, <1>4 DEF MediaTypes
<1>6. \A s \in DOMAIN streams' : \A i \in DOMAIN streams'[s] : streams'[s][i] \in DOMAIN tracks'
  <2> SUFFICES ASSUME NEW s \in DOMAIN streams'
               PROVE  \A i \in DOMAIN streams'[s] : streams'[s][i] \in DOMAIN tracks'
      OBVIOUS
  <2>1. CASE s \in DOMAIN streams
      BY <2>1, <1>2, <1>5 DEF MediaTypes
  <2>2. CASE s \notin DOMAIN streams
    <3>1. streams'[s] = stream
        BY <2>2, <1>5 DEF MediaTypes
    <3> QED
        BY <3>1, <1>3
  <2> QED
      BY <2>1, <2>2
<1>7. local' = Len(streams') /\ local' # 0
    BY <1>5 DEF Acquired, MediaTypes
<1>8. \A f \in flips' : f.track \in DOMAIN tracks' /\ f.stream \in DOMAIN streams'
    BY <1>2, <1>5 DEF Acquired, MediaTypes
<1>9. /\ mediaScreen' \in {"idle", "acquiring-media", "active", "error"}
      /\ acquiring' \in Nat /\ videoOff' \in BOOLEAN
  <2>1. acquiring' \in Nat
      BY DEF Acquired, MediaTypes
  <2>2. CASE mediaScreen = "acquiring-media"
      BY <2>1, <2>2 DEF Acquired
  <2>3. CASE mediaScreen # "acquiring-media"
      BY <2>1, <2>3 DEF Acquired, MediaTypes
  <2> QED
      BY <2>2, <2>3
<1>10. sender' \in 0 .. Len(tracks') /\ local' \in 0 .. Len(streams')
    BY <1>2, <1>5, <1>7 DEF Acquired, MediaTypes
<1>11. /\ sfuMode' = sfuMode /\ paused' = paused /\ producer' = producer /\ sender' = sender
       /\ raced' = raced /\ flipped' = flipped /\ flips' = flips /\ facing' = facing
    BY DEF Acquired, producerVars
<1> QED
    BY <1>2, <1>5, <1>6, <1>7, <1>8, <1>9, <1>10, <1>11 DEF MediaTypes

\* Every track of a stream, the first one above all.
LEMMA FirstTrack ==
    ASSUME MediaTypes, Showing
    PROVE  Head(streams[local]) \in DOMAIN tracks /\ Head(streams[local]) \in 1 .. Len(tracks)
<1>1. local \in DOMAIN streams /\ streams[local] \in Seq(Nat) /\ streams[local] # <<>>
    BY DEF MediaTypes, Showing
<1>2. 1 \in DOMAIN streams[local] /\ Head(streams[local]) = streams[local][1]
    BY <1>1
<1> QED
    BY <1>1, <1>2 DEF MediaTypes

LEMMA SendTypes ==
    ASSUME MediaTypes, ConnectPeer \/ Produce \/ Produced \/ ProduceFails
    PROVE  MediaTypes'
<1>1. CASE ConnectPeer
    BY <1>1, FirstTrack DEF ConnectPeer, MediaTypes, producerVars
<1>2. CASE Produce
    BY <1>2, FirstTrack DEF Produce, MediaTypes
<1>3. CASE Produced
    BY <1>3 DEF Produced, MediaTypes
<1>4. CASE ProduceFails
  <2>1. tracks' = Stopped({sender})
      BY <1>4 DEF ProduceFails
  <2>2. tracks' \in Seq(Track) /\ Len(tracks') = Len(tracks) /\ DOMAIN tracks' = DOMAIN tracks
      BY <2>1, StoppedTracks DEF MediaTypes
  <2>3. /\ streams' = streams /\ sfuMode' = sfuMode /\ videoOff' = videoOff /\ flipped' = flipped
        /\ local' = local /\ sender' = 0 /\ producer = "asked" /\ producer' = "failed"
        /\ paused' = paused /\ mediaScreen' = mediaScreen /\ acquiring' = acquiring
        /\ facing' = facing /\ raced' = raced /\ flips' = flips
      BY <1>4 DEF ProduceFails
  <2> QED
      BY <2>2, <2>3 DEF MediaTypes
<1> QED
    BY <1>1, <1>2, <1>3, <1>4

\* A track switched or turned is still a track, and the others stay as they are.
LEMMA TrackChanged ==
    ASSUME NEW known \in Seq(Track), NEW t \in DOMAIN known, NEW changed \in Track
    PROVE  /\ [known EXCEPT ![t] = changed] \in Seq(Track)
           /\ Len([known EXCEPT ![t] = changed]) = Len(known)
           /\ DOMAIN [known EXCEPT ![t] = changed] = DOMAIN known
           /\ \A u \in DOMAIN known :
               [known EXCEPT ![t] = changed][u] = IF u = t THEN changed ELSE known[u]
    OBVIOUS

LEMMA ToggleTypes ==
    ASSUME MediaTypes, ToggleVideo, producer = "kept" => sender # 0
    PROVE  MediaTypes'
<1>1. Head(streams[local]) \in DOMAIN tracks
    BY FirstTrack DEF ToggleVideo
<1>2. sender # 0 => sender \in DOMAIN tracks
    BY DEF MediaTypes
<1>3. \A t \in DOMAIN tracks : tracks[t] \in Track /\ [tracks[t] EXCEPT !.enabled = videoOff] \in Track
  <2> SUFFICES ASSUME NEW t \in DOMAIN tracks
               PROVE  tracks[t] \in Track /\ [tracks[t] EXCEPT !.enabled = videoOff] \in Track
      OBVIOUS
  <2>1. tracks[t] \in Track
      BY DEF MediaTypes
  <2> QED
      BY <2>1 DEF MediaTypes, Track
<1>4. tracks' \in Seq(Track) /\ Len(tracks') = Len(tracks) /\ DOMAIN tracks' = DOMAIN tracks
  <2>1. CASE tracks' = tracks
      BY <2>1 DEF MediaTypes
  <2>2. ASSUME NEW t \in DOMAIN tracks, tracks' = [tracks EXCEPT ![t].enabled = videoOff]
        PROVE  tracks' \in Seq(Track) /\ Len(tracks') = Len(tracks) /\ DOMAIN tracks' = DOMAIN tracks
    <3> DEFINE changed == [tracks[t] EXCEPT !.enabled = videoOff]
    <3>1. changed \in Track /\ tracks \in Seq(Track)
        BY <1>3 DEF MediaTypes
    <3>2. tracks' = [tracks EXCEPT ![t] = changed]
        BY <2>2
    <3> HIDE DEF changed
    <3> QED
        BY <3>1, <3>2, TrackChanged
  <2> QED
      BY <1>1, <1>2, <2>1, <2>2 DEF ToggleVideo, ToggleTrack, ToggleProducer
<1>5. paused' \in BOOLEAN /\ (paused' => producer' = "kept") /\ raced' \in BOOLEAN /\ videoOff' \in BOOLEAN
    BY DEF ToggleVideo, ToggleTrack, ToggleProducer, MediaTypes
<1>6. /\ streams' = streams /\ sfuMode' = sfuMode /\ flipped' = flipped /\ local' = local
      /\ sender' = sender /\ producer' = producer /\ mediaScreen' = mediaScreen
      /\ acquiring' = acquiring /\ facing' = facing /\ flips' = flips
    BY DEF ToggleVideo
<1> QED
    BY <1>4, <1>5, <1>6 DEF MediaTypes

LEMMA FlipCameraTypes ==
    ASSUME MediaTypes, FlipCamera
    PROVE  MediaTypes'
<1> DEFINE f == [id |-> flipped', stream |-> local, track |-> Head(streams[local]),
                 facing |-> Opposite(facing), stage |-> "constrain"]
<1>1. f \in Flip /\ f.track \in DOMAIN tracks /\ f.stream \in DOMAIN streams
  <2>1. Head(streams[local]) \in DOMAIN tracks /\ Head(streams[local]) \in Nat
      BY FirstTrack DEF FlipCamera, MediaTypes
  <2>2. local \in DOMAIN streams /\ local \in Nat
      BY DEF FlipCamera, Showing, MediaTypes
  <2>3. flipped' \in Nat /\ Opposite(facing) \in Facings
      BY DEF FlipCamera, MediaTypes, Opposite, Facings
  <2> QED
      BY <2>1, <2>2, <2>3 DEF Flip
<1>2. flips' = flips \cup {f}
    BY DEF FlipCamera
<1> HIDE DEF f
<1>3. /\ streams' = streams /\ sfuMode' = sfuMode /\ flipped' \in Nat /\ local' = local
      /\ sender' = sender /\ producer' = producer /\ mediaScreen' = mediaScreen /\ tracks' = tracks
      /\ acquiring' = acquiring /\ facing' = facing /\ videoOff' = videoOff /\ paused' = paused
      /\ raced' \in BOOLEAN
    BY DEF FlipCamera, MediaTypes, producerVars
<1> QED
    BY <1>1, <1>2, <1>3 DEF MediaTypes

\* What is sent after a flip.
LEMMA ReplacedTypes ==
    ASSUME MediaTypes, NEW known \in Seq(Track), Len(known) >= Len(tracks),
           NEW new \in 1 .. Len(known), Replaced(new, known), streams' \in Seq(Seq(Nat)),
           \A s \in DOMAIN streams' : \A i \in DOMAIN streams'[s] : streams'[s][i] \in DOMAIN known,
           Len(streams') = Len(streams)
    PROVE  /\ tracks' \in Seq(Track) /\ Len(tracks') = Len(known)
           /\ sender' \in 0 .. Len(known)
           /\ sender # 0 => sender' # 0
<1>1. CASE ~sfuMode
    BY <1>1 DEF Replaced, SenderAfterFlip, MediaTypes
<1>2. CASE sfuMode /\ ~(local # 0 /\ streams'[local] # <<>>)
    BY <1>2, SMTT(30) DEF Replaced, MediaTypes
<1>3. CASE sfuMode /\ local # 0 /\ streams'[local] # <<>>
  <2> DEFINE first == Head(streams'[local])
  <2>1. first \in DOMAIN known
    <3>1. local \in DOMAIN streams' /\ streams'[local] \in Seq(Nat)
        BY <1>3 DEF MediaTypes
    <3>2. 1 \in DOMAIN streams'[local] /\ first = streams'[local][1]
        BY <1>3, <3>1
    <3> QED
        BY <3>1, <3>2
  <2>2. ProducerTakes(first, known)
      BY <1>3 DEF Replaced
  <2> HIDE DEF first
  <2>3. CASE producer = "kept" /\ first # sender /\ known[first].live
    <3>1. sender \in DOMAIN known
        BY <2>3 DEF MediaTypes
    <3> DEFINE given == [known[sender] EXCEPT !.live = FALSE]
               taken == [known[first] EXCEPT !.enabled = ~paused]
               between == [known EXCEPT ![sender] = given]
    <3>2. given \in Track /\ taken \in Track
      <4>1. known[sender] \in Track /\ known[first] \in Track
          BY <2>1, <3>1
      <4> QED
          BY <4>1 DEF Track
    <3> HIDE DEF given
    <3>3. /\ between \in Seq(Track) /\ Len(between) = Len(known) /\ DOMAIN between = DOMAIN known
          /\ between[first] = known[first]
        BY <2>1, <2>3, <3>1, <3>2, TrackChanged
    <3>4. tracks' = [between EXCEPT ![first].enabled = ~paused] /\ sender' = first
        BY <2>2, <2>3 DEF ProducerTakes, given
    <3>5. tracks' = [between EXCEPT ![first] = taken]
        BY <3>3, <3>4
    <3> HIDE DEF between, taken
    <3>6. tracks' \in Seq(Track) /\ Len(tracks') = Len(between)
        BY <2>1, <3>2, <3>3, <3>5, TrackChanged
    <3> QED
        BY <2>1, <3>3, <3>4, <3>6
  <2>4. CASE ~(producer = "kept" /\ first # sender /\ known[first].live)
      BY <2>2, <2>4 DEF ProducerTakes, MediaTypes
  <2> QED
      BY <2>3, <2>4
<1> QED
    BY <1>1, <1>2, <1>3

LEMMA ConstrainedTypes ==
    ASSUME MediaTypes, NEW f \in flips, Constrained(f)
    PROVE  MediaTypes'
<1> DEFINE changed == [tracks[f.track] EXCEPT !.facing = f.facing]
           turned == [tracks EXCEPT ![f.track] = changed]
<1>1. f \in Flip /\ f.track \in DOMAIN tracks /\ tracks \in Seq(Track)
    BY DEF MediaTypes
<1>2. tracks[f.track] \in Track /\ f.facing \in Facings
    BY <1>1 DEF Flip
<1>3. changed \in Track
    BY <1>2 DEF Track
<1>4. /\ turned = [tracks EXCEPT ![f.track].facing = f.facing]
      /\ IF sfuMode THEN Replaced(f.track, turned) ELSE tracks' = turned /\ sender' = sender
    BY DEF Constrained
<1> HIDE DEF changed
<1>5. turned \in Seq(Track) /\ Len(turned) = Len(tracks) /\ DOMAIN turned = DOMAIN tracks
    BY <1>1, <1>3, TrackChanged
<1> HIDE DEF turned
<1>6. /\ streams' = streams /\ sfuMode' = sfuMode /\ flipped' = flipped /\ local' = local
      /\ producer' = producer /\ mediaScreen' = mediaScreen /\ facing' = f.facing
      /\ acquiring' = acquiring /\ videoOff' = videoOff /\ paused' = paused
      /\ raced' = raced /\ flips' \subseteq flips
    BY DEF Constrained, producerVars
<1>7. tracks' \in Seq(Track) /\ Len(tracks') = Len(tracks) /\ sender' \in 0 .. Len(tracks)
      /\ (sender # 0 => sender' # 0)
  <2>1. CASE sfuMode
    <3>1. \A s \in DOMAIN streams' : \A i \in DOMAIN streams'[s] : streams'[s][i] \in DOMAIN turned
        BY <1>5, <1>6 DEF MediaTypes
    <3>2. f.track \in 1 .. Len(turned) /\ Len(turned) >= Len(tracks)
        BY <1>1, <1>5
    <3>3. streams' \in Seq(Seq(Nat)) /\ Len(streams') = Len(streams)
        BY <1>6 DEF MediaTypes
    <3>4. Replaced(f.track, turned)
        BY <1>4, <2>1
    <3> QED
        BY <1>5, <3>1, <3>2, <3>3, <3>4, ReplacedTypes
  <2>2. CASE ~sfuMode
      BY <2>2, <1>4, <1>5 DEF MediaTypes
  <2> QED
      BY <2>1, <2>2
<1>8. DOMAIN tracks' = DOMAIN tracks
    BY <1>1, <1>7
<1> QED
    BY <1>2, <1>6, <1>7, <1>8 DEF MediaTypes

LEMMA RefusedTypes ==
    ASSUME MediaTypes, NEW f \in flips, ConstraintRefused(f)
    PROVE  MediaTypes'
<1>1. tracks' = Stopped({f.track})
    BY DEF ConstraintRefused
<1>2. tracks' \in Seq(Track) /\ Len(tracks') = Len(tracks) /\ DOMAIN tracks' = DOMAIN tracks
    BY <1>1, StoppedTracks DEF MediaTypes
<1> DEFINE g == [f EXCEPT !.stage = "acquire"]
<1>3. g \in Flip /\ g.track = f.track /\ g.stream = f.stream
  <2>1. f \in Flip
      BY DEF MediaTypes
  <2> QED
      BY <2>1 DEF Flip
<1>4. flips' = (flips \ {f}) \cup {g}
    BY DEF ConstraintRefused
<1> HIDE DEF g
<1>5. /\ streams' = streams /\ sfuMode' = sfuMode /\ flipped' = flipped /\ local' = local
      /\ producer' = producer /\ mediaScreen' = mediaScreen /\ facing' = facing
      /\ acquiring' = acquiring /\ videoOff' = videoOff /\ paused' = paused
      /\ raced' = raced /\ sender' = sender
    BY DEF ConstraintRefused, producerVars
<1> QED
    BY <1>2, <1>3, <1>4, <1>5 DEF MediaTypes

\* The streams and tracks a flip leaves that another camera served.
LEMMA FlippedStreams ==
    ASSUME MediaTypes, NEW f \in flips, Flipped(f)
    PROVE  /\ Append(tracks, NewTrack(f.facing)) \in Seq(Track)
           /\ Len(Append(tracks, NewTrack(f.facing))) = Len(tracks) + 1
           /\ streams' \in Seq(Seq(Nat)) /\ Len(streams') = Len(streams)
           /\ DOMAIN streams' = DOMAIN streams
           /\ streams'[f.stream] = Append(WithoutTrack(streams[f.stream], f.track), Len(tracks) + 1)
           /\ \A s \in DOMAIN streams : s # f.stream => streams'[s] = streams[s]
           /\ \A s \in DOMAIN streams' : \A i \in DOMAIN streams'[s] :
                streams'[s][i] \in 1 .. Len(tracks) + 1
<1>1. /\ f \in Flip /\ f.track \in DOMAIN tracks /\ f.stream \in DOMAIN streams
      /\ tracks \in Seq(Track) /\ streams \in Seq(Seq(Nat))
      /\ DOMAIN tracks = 1 .. Len(tracks)
    BY DEF MediaTypes
<1>2. NewTrack(f.facing) \in Track
    BY <1>1 DEF NewTrack, Track, Flip
<1>3. streams[f.stream] \in Seq(Nat) /\ f.track \in Nat
    BY <1>1
<1> DEFINE rest == WithoutTrack(streams[f.stream], f.track)
           stream == Append(rest, Len(tracks) + 1)
<1>4. /\ rest \in Seq(Nat)
      /\ \A i \in DOMAIN rest : \E j \in DOMAIN streams[f.stream] : rest[i] = streams[f.stream][j]
    BY <1>3, StreamWithout
<1>5. streams' = [streams EXCEPT ![f.stream] = stream]
    BY DEF Flipped
<1> HIDE DEF rest
<1>6. \A i \in DOMAIN rest : rest[i] \in 1 .. Len(tracks)
    BY <1>1, <1>4 DEF MediaTypes
<1>7. stream \in Seq(Nat) /\ \A i \in DOMAIN stream : stream[i] \in 1 .. Len(tracks) + 1
  <2>1. /\ stream \in Seq(Nat) /\ DOMAIN stream = 1 .. Len(rest) + 1 /\ DOMAIN rest = 1 .. Len(rest)
        /\ stream[Len(rest) + 1] = Len(tracks) + 1
        /\ \A i \in 1 .. Len(rest) : stream[i] = rest[i]
      BY <1>1, <1>4
  <2> HIDE DEF stream
  <2>2. ASSUME NEW i \in 1 .. Len(rest) + 1
        PROVE  stream[i] \in 1 .. Len(tracks) + 1
    <3>1. CASE i \in 1 .. Len(rest)
      <4>1. stream[i] = rest[i] /\ rest[i] \in 1 .. Len(tracks)
          BY <3>1, <2>1, <1>6
      <4> QED
          BY <4>1, <1>1
    <3>2. CASE i = Len(rest) + 1
        BY <3>2, <2>1, <1>1
    <3> QED
        BY <3>1, <3>2, <1>4
  <2> QED
      BY <2>1, <2>2
<1>8. stream = Append(WithoutTrack(streams[f.stream], f.track), Len(tracks) + 1)
    BY DEF rest
<1> HIDE DEF stream
<1>9. /\ streams' \in Seq(Seq(Nat)) /\ Len(streams') = Len(streams)
      /\ DOMAIN streams' = DOMAIN streams
      /\ streams'[f.stream] = stream
      /\ \A s \in DOMAIN streams : s # f.stream => streams'[s] = streams[s]
    BY <1>1, <1>5, <1>7
<1>10. \A s \in DOMAIN streams' : \A i \in DOMAIN streams'[s] : streams'[s][i] \in 1 .. Len(tracks) + 1
  <2> SUFFICES ASSUME NEW s \in DOMAIN streams', NEW i \in DOMAIN streams'[s]
               PROVE  streams'[s][i] \in 1 .. Len(tracks) + 1
      OBVIOUS
  <2>1. CASE s = f.stream
      BY <2>1, <1>7, <1>9
  <2>2. CASE s # f.stream
    <3>1. streams'[s] = streams[s] /\ s \in DOMAIN streams
        BY <2>2, <1>9
    <3>2. streams[s][i] \in DOMAIN tracks
        BY <3>1 DEF MediaTypes
    <3> QED
        BY <3>1, <3>2, <1>1
  <2> QED
      BY <2>1, <2>2
<1> QED
    BY <1>1, <1>2, <1>8, <1>9, <1>10

LEMMA FlippedTypes ==
    ASSUME MediaTypes, NEW f \in flips, Flipped(f)
    PROVE  MediaTypes'
<1> DEFINE known == Append(tracks, NewTrack(f.facing))
           new == Len(tracks) + 1
<1>1. Replaced(new, known)
    BY DEF Flipped
<1>2. /\ known \in Seq(Track) /\ Len(known) = new
      /\ streams' \in Seq(Seq(Nat)) /\ Len(streams') = Len(streams) /\ DOMAIN streams' = DOMAIN streams
      /\ \A s \in DOMAIN streams' : \A i \in DOMAIN streams'[s] : streams'[s][i] \in 1 .. new
    BY FlippedStreams
<1> HIDE DEF known
<1>3. Len(tracks) \in Nat /\ DOMAIN tracks = 1 .. Len(tracks) /\ DOMAIN known = 1 .. Len(known)
    BY <1>2 DEF MediaTypes
<1>4. new \in 1 .. Len(known) /\ Len(known) >= Len(tracks)
    BY <1>2, <1>3
<1>5. \A s \in DOMAIN streams' : \A i \in DOMAIN streams'[s] : streams'[s][i] \in DOMAIN known
    BY <1>2, <1>3
<1> HIDE DEF new
<1>6. /\ tracks' \in Seq(Track) /\ Len(tracks') = Len(known)
      /\ sender' \in 0 .. Len(known)
      /\ sender # 0 => sender' # 0
    BY <1>1, <1>2, <1>4, <1>5, ReplacedTypes
<1>7. DOMAIN tracks' = DOMAIN known /\ DOMAIN tracks \subseteq DOMAIN known
    BY <1>2, <1>3, <1>4, <1>6
<1>8. f.facing \in Facings
    BY DEF MediaTypes, Flip
<1>9. /\ sfuMode' = sfuMode /\ flipped' = flipped /\ local' = local
      /\ producer' = producer /\ mediaScreen' = mediaScreen /\ facing' = f.facing
      /\ acquiring' = acquiring /\ videoOff' = videoOff /\ paused' = paused
      /\ raced' \in BOOLEAN /\ flips' \subseteq flips
    BY DEF Flipped, producerVars, MediaTypes
<1> QED
    BY <1>2, <1>5, <1>6, <1>7, <1>8, <1>9 DEF MediaTypes

LEMMA MediaTypesKept ==
    ASSUME MediaTypes, [MediaNext]_mediaVars
    PROVE  MediaTypes'
<1>1. CASE StartCall
    BY <1>1 DEF StartCall, MediaTypes, producerVars
<1>2. CASE \E withVideo \in BOOLEAN : Acquired(withVideo)
    BY <1>2, AcquiredTypes
<1>3. CASE Denied
  <2>1. acquiring' \in Nat /\ flips' \subseteq flips
      BY <1>3 DEF Denied, MediaTypes
  <2> QED
      BY <1>3, <2>1, MediaErrorTypes DEF Denied
<1>4. CASE ErrorShown \/ DismissError \/ HangUpCall
  <2>1. acquiring' \in Nat /\ flips' \subseteq flips /\ mediaScreen' \in {"idle", "error"}
      BY <1>4 DEF ErrorShown, DismissError, HangUpCall, Waiting, MediaTypes
  <2> QED
      BY <1>4, <2>1, ReleaseTypes DEF ErrorShown, DismissError, HangUpCall
<1>5. CASE ConnectPeer \/ Produce \/ Produced \/ ProduceFails
    BY <1>5, SendTypes
<1>6. CASE ToggleVideo
    BY <1>6, ToggleTypes DEF MediaTypes
<1>7. CASE FlipCamera
    BY <1>7, FlipCameraTypes
<1>8. CASE \E f \in flips : Constrained(f) \/ ConstraintRefused(f) \/ Flipped(f) \/ FlipFails(f)
  <2>1. ASSUME NEW f \in flips, FlipFails(f)
        PROVE  MediaTypes'
    <3>1. acquiring' \in Nat /\ flips' \subseteq flips /\ MediaError(TRUE)
        BY <2>1 DEF FlipFails, MediaTypes
    <3> QED
        BY <3>1, MediaErrorTypes
  <2> QED
      BY <1>8, <2>1, ConstrainedTypes, RefusedTypes, FlippedTypes
<1>9. CASE UNCHANGED mediaVars
    BY <1>9 DEF mediaVars, producerVars, MediaTypes
<1> QED
    BY <1>1, <1>2, <1>3, <1>4, <1>5, <1>6, <1>7, <1>8, <1>9 DEF MediaNext

-----------------------------------------------------------------------------
(* While no race has happened, every action keeps the order.               *)

LEMMA OneTrack ==
    ASSUME NEW stream \in Seq(Nat), stream # <<>>, Len(stream) <= 1
    PROVE  stream = <<Head(stream)>>
<1> DEFINE n == Len(stream)
<1>1. n \in Nat \ {0} /\ n <= 1
    BY EmptySeq, Zenon
<1>2. \A m \in Nat \ {0} : m <= 1 => m = 1
    OBVIOUS
<1> HIDE DEF n
<1>3. n = 1
    BY <1>1, <1>2, Zenon
<1> QED
    BY <1>3 DEF n

\* What the button needs, and what it shows.
LEMMA TrackShown ==
    ASSUME MediaTypes, InOrder, Showing
    PROVE  /\ Head(streams[local]) \in 1 .. Len(tracks)
           /\ streams[local] = <<Head(streams[local])>>
<1>1. local \in DOMAIN streams /\ streams[local] \in Seq(Nat) /\ streams[local] # <<>>
    BY DEF MediaTypes, Showing
<1>2. Len(streams[local]) <= 1
    BY <1>1 DEF InOrder
<1> QED
    BY <1>1, <1>2, FirstTrack, OneTrack

LEMMA ReleaseOrder ==
    ASSUME MediaTypes, InOrder, NEW underWay \in BOOLEAN, Release(underWay),
           mediaScreen' \in {"idle", "error"}, acquiring' = 0, flips' = {}
    PROVE  InOrder' /\ FlipAndSend'
<1> DEFINE S == (IF local # 0 THEN TracksOf(local) ELSE {}) \cup (IF sfuMode THEN {sender} ELSE {})
<1>1. tracks' = Stopped(S)
    BY DEF Release
<1>2. local # 0 => TracksOf(local) \subseteq S
    OBVIOUS
<1> HIDE DEF S
<1>3. /\ DOMAIN tracks' = DOMAIN tracks
      /\ \A t \in DOMAIN tracks : tracks'[t].live <=> tracks[t].live /\ t \notin S
    BY <1>1, StoppedTracks DEF MediaTypes
<1>4. /\ streams' = streams /\ local' = 0 /\ sender' = 0 /\ producer' = "none"
      /\ sfuMode' = sfuMode /\ facing' = IF local # 0 THEN "user" ELSE facing
    BY DEF Release, ResetFacing
<1>5. \A t \in DOMAIN tracks : ~tracks'[t].live
  <2> SUFFICES ASSUME NEW t \in DOMAIN tracks, tracks[t].live
               PROVE  t \in S
      BY <1>3
  <2>1. local # 0 /\ streams[local] = <<t>>
      BY DEF InOrder
  <2>2. t \in TracksOf(local)
      BY <2>1 DEF TracksOf, ToSet
  <2> QED
      BY <1>2, <2>1, <2>2
<1>6. InOrder'
    BY <1>3, <1>4, <1>5 DEF InOrder
<1>7. FlipAndSend'
    BY <1>4 DEF FlipAndSend
<1> QED
    BY <1>6, <1>7

LEMMA AcquiredOrder ==
    ASSUME MediaTypes, InOrder, FlipAndSend, NEW withVideo \in BOOLEAN, Acquired(withVideo)
    PROVE  InOrder' /\ FlipAndSend'
<1>1. mediaScreen = "acquiring-media" /\ acquiring = 1
    BY DEF InOrder, Acquired
<1>2. /\ mediaScreen' = "active" /\ videoOff' = FALSE /\ acquiring' = 0
      /\ local = 0 /\ sender' = 0 /\ flips' = {} /\ producer' = "none" /\ facing' = "user"
      /\ sfuMode' = sfuMode
    BY <1>1 DEF InOrder, Acquired, producerVars
<1>3. \A t \in DOMAIN tracks : ~tracks[t].live
    BY <1>2 DEF InOrder
<1> DEFINE stream == IF withVideo THEN <<Len(tracks')>> ELSE <<>>
<1>4. NewTrack("user") \in Track /\ NewTrack("user").live /\ NewTrack("user").enabled
      /\ NewTrack("user").facing = "user"
    BY DEF NewTrack, Track, Facings
<1>5. tracks \in Seq(Track) /\ streams \in Seq(Seq(Nat))
    BY DEF MediaTypes
<1>6. withVideo => /\ tracks' = Append(tracks, NewTrack("user"))
                   /\ Len(tracks') = Len(tracks) + 1
                   /\ DOMAIN tracks' = 1 .. Len(tracks) + 1
                   /\ DOMAIN tracks = 1 .. Len(tracks)
                   /\ tracks'[Len(tracks')] = NewTrack("user")
                   /\ \A t \in DOMAIN tracks : tracks'[t] = tracks[t]
    BY <1>4, <1>5 DEF Acquired
<1>7. ~withVideo => tracks' = tracks
    BY DEF Acquired
<1>8. /\ stream \in Seq(Nat) /\ Len(stream) <= 1
      /\ stream # <<>> => withVideo
      /\ withVideo => stream = <<Len(tracks')>> /\ Head(stream) = Len(tracks')
    BY <1>5, <1>6
<1>9. streams' = Append(streams, stream) /\ local' = Len(streams')
    BY DEF Acquired
<1> HIDE DEF stream
<1>10. /\ streams'[local'] = stream /\ local' # 0
       /\ DOMAIN streams' = 1 .. Len(streams) + 1 /\ DOMAIN streams = 1 .. Len(streams)
       /\ \A s \in DOMAIN streams : streams'[s] = streams[s]
       /\ local' = Len(streams) + 1
    BY <1>5, <1>8, <1>9
<1>11. \A s \in DOMAIN streams' : Len(streams'[s]) <= 1
  <2> SUFFICES ASSUME NEW s \in DOMAIN streams'
               PROVE  Len(streams'[s]) <= 1
      OBVIOUS
  <2>1. CASE s \in DOMAIN streams
      BY <2>1, <1>10 DEF InOrder
  <2>2. CASE s \notin DOMAIN streams
    <3>1. s = local'
        BY <2>2, <1>5, <1>10
    <3> QED
        BY <3>1, <1>8, <1>10
  <2> QED
      BY <2>1, <2>2
<1>12. \A t \in DOMAIN tracks' : tracks'[t].live =>
            local' # 0 /\ streams'[local'] = <<t>> /\ tracks'[t].facing = facing'
  <2>1. CASE ~withVideo
      BY <2>1, <1>3, <1>7
  <2>2. CASE withVideo
    <3> SUFFICES ASSUME NEW t \in DOMAIN tracks', tracks'[t].live
                 PROVE  t = Len(tracks')
        BY <2>2, <1>2, <1>4, <1>6, <1>8, <1>10
    <3>1. t \notin DOMAIN tracks
        BY <2>2, <1>3, <1>6
    <3> QED
        BY <3>1, <2>2, <1>5, <1>6
  <2> QED
      BY <2>1, <2>2
<1>13. streams'[local'] # <<>> => tracks'[Head(streams'[local'])].enabled = ~videoOff'
  <2> SUFFICES ASSUME streams'[local'] # <<>>
               PROVE  tracks'[Head(streams'[local'])].enabled = TRUE
      BY <1>2
  <2>1. withVideo /\ tracks'[Head(streams'[local'])] = NewTrack("user")
      BY <1>6, <1>8, <1>10
  <2> QED
      BY <2>1 DEF NewTrack
<1>14. InOrder'
    BY <1>2, <1>11, <1>12, <1>10 DEF InOrder
<1>15. FlipAndSend'
    BY <1>2, <1>13 DEF FlipAndSend
<1> QED
    BY <1>14, <1>15

LEMMA SendOrder ==
    ASSUME MediaTypes, InOrder, FlipAndSend, ConnectPeer \/ Produce \/ Produced
    PROVE  InOrder' /\ FlipAndSend'
<1>1. CASE ConnectPeer
  <2>1. streams[local] = <<sender'>> /\ local # 0
      BY <1>1, TrackShown DEF ConnectPeer, Showing
  <2>2. /\ streams' = streams /\ sfuMode' = sfuMode /\ videoOff' = videoOff /\ local' = local
        /\ producer' = producer /\ mediaScreen' = mediaScreen /\ tracks' = tracks
        /\ acquiring' = acquiring /\ facing' = facing /\ flips' = flips /\ paused' = paused
        /\ ~sfuMode /\ mediaScreen = "active"
      BY <1>1 DEF ConnectPeer, producerVars, Showing
  <2>3. InOrder'
      BY <2>2 DEF InOrder
  <2>4. FlipAndSend'
      BY <2>1, <2>2 DEF FlipAndSend
  <2> QED
      BY <2>3, <2>4
<1>2. CASE Produce
  <2>1. streams[local] = <<Head(streams[local])>> /\ Head(streams[local]) \in 1 .. Len(tracks)
        /\ local # 0
      BY <1>2, TrackShown DEF Produce, Showing
  <2>2. /\ streams' = streams /\ sfuMode' = sfuMode /\ videoOff' = videoOff /\ local' = local
        /\ mediaScreen' = mediaScreen /\ tracks' = tracks
        /\ acquiring' = acquiring /\ facing' = facing /\ flips' = flips /\ paused' = paused
        /\ producer = "none" /\ sfuMode /\ mediaScreen = "active"
      BY <1>2 DEF Produce, Showing
  <2>3. InOrder'
      BY <2>2 DEF InOrder
  <2>4. \/ producer' = "asked" /\ sender' = Head(streams[local])
        \/ producer' = "failed" /\ sender' = sender
      BY <1>2 DEF Produce
  <2>5. /\ sender' # 0 <=> producer' \in {"asked", "kept"}
        /\ sender' # 0 => streams[local] = <<sender'>>
      BY <2>1, <2>2, <2>4 DEF FlipAndSend, MediaTypes
  <2>6. FlipAndSend'
      BY <2>1, <2>2, <2>4, <2>5 DEF FlipAndSend
  <2> QED
      BY <2>3, <2>6
<1>3. CASE Produced
  <2>1. /\ streams' = streams /\ sfuMode' = sfuMode /\ videoOff' = videoOff /\ local' = local
        /\ mediaScreen' = mediaScreen /\ tracks' = tracks /\ sender' = sender
        /\ acquiring' = acquiring /\ facing' = facing /\ flips' = flips /\ paused' = paused
        /\ producer = "asked" /\ producer' = "kept" /\ sfuMode
      BY <1>3 DEF Produced, MediaTypes
  <2>2. mediaScreen = "active" /\ ~videoOff /\ ~paused
      BY <2>1 DEF InOrder, FlipAndSend, MediaTypes
  <2>3. paused' = videoOff'
      BY <2>1, <2>2 DEF MediaTypes
  <2>4. InOrder'
      BY <2>1, <2>2 DEF InOrder
  <2>5. FlipAndSend'
      BY <2>1, <2>3 DEF FlipAndSend
  <2> QED
      BY <2>4, <2>5
<1> QED
    BY <1>1, <1>2, <1>3

LEMMA ProduceFailsOrder ==
    ASSUME MediaTypes, InOrder, FlipAndSend, ProduceFails
    PROVE  InOrder' /\ FlipAndSend'
<1>1. tracks' = Stopped({sender})
    BY DEF ProduceFails
<1>2. /\ DOMAIN tracks' = DOMAIN tracks
      /\ \A t \in DOMAIN tracks :
          /\ tracks'[t].live => tracks[t].live
          /\ tracks'[t].facing = tracks[t].facing
          /\ tracks'[t].enabled = tracks[t].enabled
    BY <1>1, StoppedTracks DEF MediaTypes
<1>3. /\ streams' = streams /\ sfuMode' = sfuMode /\ videoOff' = videoOff /\ local' = local
      /\ mediaScreen' = mediaScreen /\ sender' = 0
      /\ acquiring' = acquiring /\ facing' = facing /\ flips' = flips /\ paused' = paused
      /\ producer = "asked" /\ producer' = "failed"
    BY DEF ProduceFails
<1>4. mediaScreen = "active" /\ (sfuMode => ~videoOff) /\ local # 0
    BY <1>3 DEF InOrder, FlipAndSend, MediaTypes
<1>5. streams[local] # <<>> => Head(streams[local]) \in DOMAIN tracks
    BY <1>4, FirstTrack DEF Showing
<1>6. streams'[local'] # <<>> => tracks'[Head(streams'[local'])].enabled = ~videoOff'
    BY <1>2, <1>3, <1>4, <1>5 DEF FlipAndSend
<1>7. InOrder'
    BY <1>2, <1>3, <1>4 DEF InOrder
<1>8. \A f \in flips : f.track \in DOMAIN tracks
    BY DEF MediaTypes
<1>9. FlipAndSend'
    BY <1>2, <1>3, <1>4, <1>6, <1>8 DEF FlipAndSend
<1> QED
    BY <1>7, <1>9

\* What is switched on a track, or its side, leaves the others as they are.
LEMMA ToggleOrder ==
    ASSUME MediaTypes, InOrder, FlipAndSend, ToggleVideo, ~raced'
    PROVE  InOrder' /\ FlipAndSend'
<1> DEFINE t == Head(streams[local])
<1>1. t \in DOMAIN tracks /\ streams[local] = <<t>> /\ local # 0 /\ mediaScreen = "active"
    BY TrackShown DEF ToggleVideo, Showing, MediaTypes
<1> HIDE DEF t
<1>2. /\ \/ ~sfuMode /\ paused' = paused /\ producer # "kept"
         \/ producer = "kept" /\ paused' = ~videoOff
      /\ tracks' = [tracks EXCEPT ![t].enabled = videoOff]
  <2>1. CASE ToggleTrack
      BY <2>1 DEF ToggleTrack, MediaTypes, t
  <2>2. CASE ToggleProducer
    <3>1. producer = "kept" /\ paused' = ~videoOff
          /\ tracks' = [tracks EXCEPT ![sender].enabled = videoOff]
        BY <2>2 DEF ToggleProducer
    <3>2. sender = t
        BY <1>1, <3>1 DEF FlipAndSend, MediaTypes
    <3> QED
        BY <3>1, <3>2
  <2> QED
      BY <2>1, <2>2 DEF ToggleVideo
<1> DEFINE changed == [tracks[t] EXCEPT !.enabled = videoOff]
<1>3. tracks[t] \in Track
    BY <1>1 DEF MediaTypes
<1>4. /\ changed \in Track /\ changed.enabled = videoOff
      /\ changed.live = tracks[t].live /\ changed.facing = tracks[t].facing
    BY <1>3 DEF Track, MediaTypes
<1>5. tracks' = [tracks EXCEPT ![t] = changed]
    BY <1>2
<1> HIDE DEF changed
<1>6. /\ DOMAIN tracks' = DOMAIN tracks
      /\ tracks'[t] = changed
      /\ \A u \in DOMAIN tracks : u # t => tracks'[u] = tracks[u]
    BY <1>1, <1>4, <1>5, TrackChanged DEF MediaTypes
<1>7. /\ streams' = streams /\ sfuMode' = sfuMode /\ videoOff' = ~videoOff /\ local' = local
      /\ mediaScreen' = mediaScreen /\ sender' = sender
      /\ acquiring' = acquiring /\ facing' = facing /\ flips' = flips
      /\ producer' = producer
    BY DEF ToggleVideo
<1>8. \A u \in DOMAIN tracks :
        (tracks'[u].live <=> tracks[u].live) /\ tracks'[u].facing = tracks[u].facing
    BY <1>4, <1>6
<1>9. tracks'[Head(streams'[local'])].enabled = ~videoOff'
  <2>1. Head(streams'[local']) = t
      BY <1>1, <1>7
  <2> QED
      BY <2>1, <1>4, <1>6, <1>7 DEF MediaTypes
<1>10. producer' = "kept" => paused' = videoOff'
    BY <1>2, <1>7
<1>11. InOrder'
    BY <1>6, <1>7, <1>8 DEF InOrder
<1>12. sfuMode => producer = "kept"
    BY <1>2
<1>13. \A f \in flips : f.track \in DOMAIN tracks
    BY DEF MediaTypes
<1>14. FlipAndSend'
    BY <1>7, <1>8, <1>9, <1>10, <1>12, <1>13 DEF FlipAndSend
<1> QED
    BY <1>11, <1>14

LEMMA FlipCameraOrder ==
    ASSUME MediaTypes, InOrder, FlipAndSend, FlipCamera, ~raced'
    PROVE  InOrder' /\ FlipAndSend'
<1> DEFINE f == [id |-> flipped', stream |-> local, track |-> Head(streams[local]),
                 facing |-> Opposite(facing), stage |-> "constrain"]
<1>1. /\ flips' = {f} /\ f.stream = local /\ f.track = Head(streams[local])
      /\ f.stage = "constrain"
    BY DEF FlipCamera
<1> HIDE DEF f
<1>2. streams[local] = <<f.track>> /\ local # 0 /\ mediaScreen = "active"
    BY <1>1, TrackShown DEF FlipCamera, Showing
<1>3. /\ streams' = streams /\ sfuMode' = sfuMode /\ local' = local
      /\ sender' = sender /\ producer' = producer /\ mediaScreen' = mediaScreen /\ tracks' = tracks
      /\ acquiring' = acquiring /\ facing' = facing /\ videoOff' = videoOff /\ paused' = paused
    BY DEF FlipCamera, producerVars
<1>4. InOrder'
    BY <1>2, <1>3 DEF InOrder
<1>5. FlipAndSend'
    BY <1>1, <1>2, <1>3 DEF FlipAndSend
<1> QED
    BY <1>4, <1>5

\* The flip there is, of the track there is.
LEMMA TheFlip ==
    ASSUME MediaTypes, InOrder, FlipAndSend, NEW f \in flips
    PROVE  /\ flips = {f}
           /\ mediaScreen = "active" /\ local # 0 /\ local \in DOMAIN streams
           /\ f.stream = local /\ streams[local] = <<f.track>>
           /\ f.track \in DOMAIN tracks /\ f.track \in 1 .. Len(tracks)
           /\ Head(streams[local]) = f.track
           /\ \A t \in DOMAIN tracks : tracks[t].live => t = f.track
<1>1. flips = {f} /\ f.stream = local /\ streams[local] = <<f.track>>
    BY DEF FlipAndSend
<1>2. mediaScreen = "active" /\ local # 0
    BY <1>1 DEF InOrder, MediaTypes
<1>3. f.track \in DOMAIN tracks /\ DOMAIN tracks = 1 .. Len(tracks) /\ local \in DOMAIN streams
    BY <1>2 DEF MediaTypes
<1>4. \A t \in DOMAIN tracks : tracks[t].live => t = f.track
    BY <1>1 DEF InOrder
<1> QED
    BY <1>1, <1>2, <1>3, <1>4

LEMMA ConstrainedOrder ==
    ASSUME MediaTypes, InOrder, FlipAndSend, NEW f \in flips, Constrained(f)
    PROVE  InOrder' /\ FlipAndSend'
<1>1. /\ flips = {f} /\ mediaScreen = "active" /\ local # 0
      /\ streams[local] = <<f.track>> /\ Head(streams[local]) = f.track
      /\ f.track \in DOMAIN tracks
      /\ \A t \in DOMAIN tracks : tracks[t].live => t = f.track
    BY TheFlip
<1> DEFINE turned == [tracks EXCEPT ![f.track].facing = f.facing]
<1>2. /\ streams' = streams /\ sfuMode' = sfuMode /\ local' = local
      /\ producer' = producer /\ mediaScreen' = mediaScreen /\ flips' = {}
      /\ acquiring' = acquiring /\ facing' = f.facing /\ videoOff' = videoOff /\ paused' = paused
      /\ IF sfuMode THEN Replaced(f.track, turned) ELSE tracks' = turned /\ sender' = sender
    BY <1>1 DEF Constrained, producerVars
<1>3. tracks' = turned /\ sender' = sender
  <2>1. CASE sfuMode
    <3>1. ProducerTakes(f.track, turned)
        BY <2>1, <1>1, <1>2 DEF Replaced
    <3>2. producer = "kept" => sender = f.track
        BY <1>1 DEF FlipAndSend, MediaTypes
    <3> QED
        BY <3>1, <3>2 DEF ProducerTakes
  <2> QED
      BY <2>1, <1>2
<1>4. tracks[f.track] \in Track
    BY <1>1 DEF MediaTypes
<1>5. /\ DOMAIN tracks' = DOMAIN tracks
      /\ tracks'[f.track].facing = f.facing
      /\ \A t \in DOMAIN tracks :
          (tracks'[t].live <=> tracks[t].live) /\ tracks'[t].enabled = tracks[t].enabled
  <2> DEFINE changed == [tracks[f.track] EXCEPT !.facing = f.facing]
  <2>1. changed.facing = f.facing /\ changed.live = tracks[f.track].live
        /\ changed.enabled = tracks[f.track].enabled
      BY <1>4 DEF Track
  <2>2. turned = [tracks EXCEPT ![f.track] = changed]
      OBVIOUS
  <2> HIDE DEF changed
  <2>3. DOMAIN tracks' = DOMAIN tracks /\ tracks'[f.track] = changed
        /\ \A t \in DOMAIN tracks : t # f.track => tracks'[t] = tracks[t]
      BY <1>1, <1>3, <2>2
  <2> QED
      BY <2>1, <2>3
<1> HIDE DEF turned
<1>6. InOrder'
    BY <1>1, <1>2, <1>3, <1>5 DEF InOrder
<1>7. tracks'[Head(streams'[local'])].enabled = ~videoOff'
    BY <1>1, <1>2, <1>5 DEF FlipAndSend
<1>8. FlipAndSend'
    BY <1>1, <1>2, <1>3, <1>7 DEF FlipAndSend
<1> QED
    BY <1>6, <1>8

LEMMA RefusedOrder ==
    ASSUME MediaTypes, InOrder, FlipAndSend, NEW f \in flips, ConstraintRefused(f)
    PROVE  InOrder' /\ FlipAndSend'
<1>1. /\ flips = {f} /\ mediaScreen = "active" /\ local # 0
      /\ f.stream = local /\ streams[local] = <<f.track>> /\ Head(streams[local]) = f.track
      /\ f.track \in DOMAIN tracks
      /\ \A t \in DOMAIN tracks : tracks[t].live => t = f.track
    BY TheFlip
<1> DEFINE g == [f EXCEPT !.stage = "acquire"]
<1>2. g.track = f.track /\ g.stream = f.stream
  <2>1. f \in Flip
      BY DEF MediaTypes
  <2> QED
      BY <2>1 DEF Flip
<1>3. flips' = {g}
    BY <1>1 DEF ConstraintRefused
<1> HIDE DEF g
<1>4. tracks' = Stopped({f.track})
    BY DEF ConstraintRefused
<1>5. /\ DOMAIN tracks' = DOMAIN tracks
      /\ \A t \in DOMAIN tracks : ~tracks'[t].live /\ tracks'[t].enabled = tracks[t].enabled
  <2>1. tracks \in Seq(Track)
      BY DEF MediaTypes
  <2>2. /\ DOMAIN tracks' = DOMAIN tracks
        /\ \A t \in DOMAIN tracks :
            /\ tracks'[t].live <=> tracks[t].live /\ t \notin {f.track}
            /\ tracks'[t].enabled = tracks[t].enabled
      BY <1>4, <2>1, StoppedTracks
  <2> QED
      BY <1>1, <2>2
<1>6. /\ streams' = streams /\ sfuMode' = sfuMode /\ local' = local
      /\ sender' = sender /\ producer' = producer /\ mediaScreen' = mediaScreen
      /\ acquiring' = acquiring /\ facing' = facing /\ videoOff' = videoOff /\ paused' = paused
    BY DEF ConstraintRefused, producerVars
<1>7. tracks'[Head(streams'[local'])].enabled = ~videoOff'
    BY <1>1, <1>5, <1>6 DEF FlipAndSend
<1>8. InOrder'
    BY <1>1, <1>5, <1>6 DEF InOrder
<1>9. FlipAndSend'
    BY <1>1, <1>2, <1>3, <1>5, <1>6, <1>7 DEF FlipAndSend
<1> QED
    BY <1>8, <1>9

LEMMA FlippedOrder ==
    ASSUME MediaTypes, InOrder, FlipAndSend, NEW f \in flips, Flipped(f), ~raced'
    PROVE  InOrder' /\ FlipAndSend'
<1> DEFINE taken == NewTrack(f.facing)
           known == Append(tracks, taken)
           new == Len(tracks) + 1
<1>1. /\ flips = {f} /\ mediaScreen = "active" /\ local # 0 /\ local \in DOMAIN streams
      /\ f.stream = local /\ streams[local] = <<f.track>>
      /\ f.track \in 1 .. Len(tracks)
      /\ \A t \in DOMAIN tracks : tracks[t].live => t = f.track
    BY TheFlip
<1>2. ~tracks[f.track].live
    BY <1>1 DEF FlipAndSend, Flipped
<1>3. /\ tracks \in Seq(Track) /\ streams \in Seq(Seq(Nat)) /\ Len(tracks) \in Nat
      /\ DOMAIN tracks = 1 .. Len(tracks) /\ sender \in 0 .. Len(tracks) /\ paused \in BOOLEAN
    BY DEF MediaTypes
<1>4. taken \in Track /\ taken.live = TRUE /\ taken.enabled = TRUE /\ taken.facing = f.facing
  <2>1. f.facing \in Facings
      BY DEF MediaTypes, Flip
  <2> QED
      BY <2>1 DEF NewTrack, Track
<1> HIDE DEF taken
<1>5. /\ known \in Seq(Track) /\ Len(known) = new /\ DOMAIN known = 1 .. new
      /\ known[new] = taken
      /\ \A t \in 1 .. Len(tracks) : known[t] = tracks[t]
    BY <1>3, <1>4
<1>6. /\ DOMAIN streams' = DOMAIN streams
      /\ streams'[local] = Append(WithoutTrack(streams[local], f.track), new)
      /\ \A s \in DOMAIN streams : s # local => streams'[s] = streams[s]
    BY <1>1, FlippedStreams
<1>7. WithoutTrack(streams[local], f.track) = <<>>
  <2>1. streams[local] \in Seq(Nat) /\ f.track \in Nat
      BY <1>1, <1>3
  <2> QED
      BY <1>1, <2>1, StreamWithout
<1>8. streams'[local] = <<new>> /\ Head(streams'[local]) = new /\ streams'[local] # <<>>
      /\ Len(streams'[local]) = 1
    BY <1>6, <1>7
<1>9. /\ sfuMode' = sfuMode /\ local' = local /\ producer' = producer
      /\ mediaScreen' = mediaScreen /\ flips' = {} /\ acquiring' = acquiring
      /\ facing' = f.facing /\ videoOff' = videoOff /\ paused' = paused
      /\ producer # "asked" /\ (~sfuMode => ~videoOff)
      /\ Replaced(new, known)
  <2>1. flips' = flips \ {f} /\ Replaced(new, known) /\ facing' = f.facing
      BY DEF Flipped, taken
  <2>2. producer # "asked" /\ (~sfuMode => ~videoOff)
      BY DEF Flipped, MediaTypes
  <2>3. /\ sfuMode' = sfuMode /\ local' = local /\ producer' = producer
        /\ mediaScreen' = mediaScreen /\ acquiring' = acquiring
        /\ videoOff' = videoOff /\ paused' = paused
      BY DEF Flipped, producerVars
  <2> HIDE DEF known, new
  <2> QED
      BY <1>1, <2>1, <2>2, <2>3
<1> HIDE DEF known
<1>10. \A t \in 1 .. Len(tracks) : ~known[t].live
    BY <1>1, <1>2, <1>3, <1>5
\* The new track is the only live one, is what is sent if anything is, and is on unless it is paused.
<1>11. /\ DOMAIN tracks' = 1 .. new
       /\ \A t \in 1 .. Len(tracks) : ~tracks'[t].live
       /\ tracks'[new].facing = f.facing
       /\ tracks'[new].enabled = ~videoOff
       /\ sender' = IF sender # 0 THEN new ELSE 0
  <2>1. CASE tracks' = known /\ ~videoOff /\ sender' = IF sender # 0 THEN new ELSE 0
      BY <2>1, <1>4, <1>5, <1>10
  <2>2. CASE ~sfuMode
      BY <2>1, <2>2, <1>9 DEF Replaced, SenderAfterFlip
  <2>3. CASE sfuMode
    <3>1. ProducerTakes(new, known)
        BY <2>3, <1>1, <1>8, <1>9 DEF Replaced
    <3>2. CASE producer # "kept"
      <4>1. sender = 0 /\ ~videoOff
          BY <2>3, <3>2, <1>1, <1>9 DEF FlipAndSend, MediaTypes
      <4>2. tracks' = known /\ sender' = sender
          BY <3>1, <3>2 DEF ProducerTakes
      <4> QED
          BY <2>1, <4>1, <4>2
    <3>3. CASE producer = "kept"
      <4>1. sender # 0 /\ sender \in 1 .. Len(tracks) /\ new # sender
          BY <3>3, <1>3 DEF MediaTypes
      <4> DEFINE given == [known[sender] EXCEPT !.live = FALSE]
                 between == [known EXCEPT ![sender] = given]
                 on == [taken EXCEPT !.enabled = ~paused]
      <4>2. sender' = new /\ tracks' = [between EXCEPT ![new].enabled = ~paused]
          BY <3>1, <3>3, <4>1, <1>4, <1>5 DEF ProducerTakes
      <4>3. known[sender] \in Track
          BY <4>1, <1>5
      <4>4. given.live = FALSE
          BY <4>3 DEF Track
      <4> HIDE DEF given
      <4>5. /\ DOMAIN between = 1 .. new /\ between[new] = taken /\ between[sender] = given
            /\ \A t \in 1 .. Len(tracks) : t # sender => between[t] = known[t]
          BY <4>1, <1>3, <1>5
      <4> HIDE DEF between
      <4>6. on.facing = f.facing /\ on.enabled = ~paused
          BY <1>4 DEF Track
      <4>7. tracks' = [between EXCEPT ![new] = on]
          BY <4>2, <4>5, <1>3
      <4> HIDE DEF on
      <4>8. /\ DOMAIN tracks' = 1 .. new /\ tracks'[new] = on
            /\ \A t \in 1 .. Len(tracks) : tracks'[t] = between[t]
          BY <4>5, <4>7, <1>3
      <4>9. \A t \in 1 .. Len(tracks) : ~tracks'[t].live
          BY <4>4, <4>5, <4>8, <1>10
      <4>10. paused = videoOff
          BY <3>3 DEF FlipAndSend
      <4>11. tracks'[new].enabled = ~videoOff
          BY <4>6, <4>8, <4>10
      <4>12. sender' = IF sender # 0 THEN new ELSE 0
          BY <4>1, <4>2
      <4> HIDE DEF new
      <4> QED
          BY <4>6, <4>8, <4>9, <4>11, <4>12
    <3> QED
        BY <3>2, <3>3
  <2> QED
      BY <2>2, <2>3
<1>12. \A t \in 1 .. new : t \in 1 .. Len(tracks) \/ t = new
    BY <1>3
<1>13. \A t \in DOMAIN tracks' : tracks'[t].live =>
            local' # 0 /\ streams'[local'] = <<t>> /\ tracks'[t].facing = facing'
    BY <1>1, <1>8, <1>9, <1>11, <1>12
<1>14. \A s \in DOMAIN streams' : Len(streams'[s]) <= 1
  <2> SUFFICES ASSUME NEW s \in DOMAIN streams'
               PROVE  Len(streams'[s]) <= 1
      OBVIOUS
  <2>1. CASE s = local
      BY <2>1, <1>8
  <2>2. CASE s # local
      BY <2>2, <1>6 DEF InOrder
  <2> QED
      BY <2>1, <2>2
<1>15. new # 0
    BY <1>3
<1> HIDE DEF new
<1>16. InOrder'
    BY <1>1, <1>9, <1>13, <1>14 DEF InOrder
<1>17. tracks'[Head(streams'[local'])].enabled = ~videoOff'
    BY <1>8, <1>9, <1>11
<1>18. FlipAndSend'
    BY <1>1, <1>8, <1>9, <1>11, <1>15, <1>17 DEF FlipAndSend
<1> QED
    BY <1>16, <1>18

LEMMA FlipFailsOrder ==
    ASSUME MediaTypes, InOrder, FlipAndSend, NEW f \in flips, FlipFails(f)
    PROVE  InOrder' /\ FlipAndSend'
<1>1. flips = {f} /\ mediaScreen = "active"
    BY TheFlip
<1>2. /\ streams' = streams /\ sfuMode' = sfuMode /\ local' = local /\ tracks' = tracks
      /\ sender' = sender /\ producer' = producer /\ mediaScreen' = mediaScreen /\ flips' = {}
      /\ acquiring' = acquiring /\ facing' = facing /\ videoOff' = videoOff /\ paused' = paused
    BY <1>1 DEF FlipFails, MediaError, producerVars
<1>3. InOrder'
    BY <1>1, <1>2 DEF InOrder
<1>4. FlipAndSend'
    BY <1>2 DEF FlipAndSend
<1> QED
    BY <1>3, <1>4

LEMMA OrderKept ==
    ASSUME MediaTypes, InOrder, FlipAndSend, [MediaNext]_mediaVars, ~raced'
    PROVE  InOrder' /\ FlipAndSend'
<1>1. CASE StartCall
  <2>1. /\ streams' = streams /\ sfuMode' = sfuMode /\ local' = local /\ tracks' = tracks
        /\ sender' = sender /\ producer' = producer /\ mediaScreen = "idle"
        /\ mediaScreen' = "acquiring-media" /\ flips' = flips
        /\ acquiring' = acquiring + 1 /\ facing' = facing /\ videoOff' = videoOff /\ paused' = paused
      BY <1>1 DEF StartCall, producerVars
  <2>2. InOrder'
      BY <2>1 DEF InOrder
  <2>3. FlipAndSend'
      BY <2>1 DEF FlipAndSend
  <2> QED
      BY <2>2, <2>3
<1>2. CASE \E withVideo \in BOOLEAN : Acquired(withVideo)
    BY <1>2, AcquiredOrder
<1>3. CASE Denied
  <2>1. mediaScreen = "acquiring-media" /\ acquiring' = 0
      BY <1>3 DEF Denied, InOrder, MediaTypes
  <2>2. mediaScreen' = "error" /\ Release(acquiring > 1 \/ flips # {})
      BY <1>3, <2>1 DEF Denied, MediaError
  <2>3. flips' = {}
      BY <1>3, <2>1 DEF Denied, InOrder
  <2> DEFINE underWay == acquiring > 1 \/ flips # {}
  <2>4. underWay \in BOOLEAN /\ Release(underWay)
      BY <2>2
  <2> HIDE DEF underWay
  <2> QED
      BY <2>1, <2>2, <2>3, <2>4, ReleaseOrder
<1>4. CASE ErrorShown \/ DismissError \/ HangUpCall
  <2> DEFINE underWay == acquiring > 0 \/ flips # {}
  <2>1. underWay \in BOOLEAN /\ Release(underWay) /\ mediaScreen' \in {"idle", "error"}
      BY <1>4 DEF ErrorShown, DismissError, HangUpCall
  <2>2. acquiring' = acquiring /\ flips' = flips
      BY <1>4 DEF ErrorShown, DismissError, HangUpCall, Waiting
  <2>3. ~underWay
      BY <2>1 DEF Release
  <2>4. acquiring' = 0 /\ flips' = {}
      BY <2>2, <2>3 DEF MediaTypes
  <2> HIDE DEF underWay
  <2> QED
      BY <2>1, <2>4, ReleaseOrder
<1>5. CASE ConnectPeer \/ Produce \/ Produced
    BY <1>5, SendOrder
<1>6. CASE ProduceFails
    BY <1>6, ProduceFailsOrder
<1>7. CASE ToggleVideo
    BY <1>7, ToggleOrder
<1>8. CASE FlipCamera
    BY <1>8, FlipCameraOrder
<1>9. CASE \E f \in flips : Constrained(f) \/ ConstraintRefused(f) \/ Flipped(f) \/ FlipFails(f)
    BY <1>9, ConstrainedOrder, RefusedOrder, FlippedOrder, FlipFailsOrder
<1>10. CASE UNCHANGED mediaVars
  <2>1. InOrder'
      BY <1>10 DEF mediaVars, producerVars, InOrder
  <2>2. FlipAndSend'
      BY <1>10 DEF mediaVars, producerVars, FlipAndSend
  <2> QED
      BY <2>1, <2>2
<1> QED
    BY <1>1, <1>2, <1>3, <1>4, <1>5, <1>6, <1>7, <1>8, <1>9, <1>10 DEF MediaNext

LEMMA RacedForGood ==
    ASSUME [MediaNext]_mediaVars, raced
    PROVE  raced'
<1> QED
    BY DEF MediaNext, mediaVars, producerVars, StartCall, Acquired, Denied, MediaError, Release,
           ErrorShown, DismissError, HangUpCall, ConnectPeer, Produce, Produced, ProduceFails,
           ToggleVideo, ToggleTrack, ToggleProducer, FlipCamera, Constrained, ConstraintRefused,
           Flipped, FlipFails

LEMMA MediaInductive == MediaSpec => []MediaInv
<1>1. MediaInit => MediaInv
  <2> SUFFICES ASSUME MediaInit
               PROVE  MediaInv
      OBVIOUS
  <2>1. MediaTypes
    <3>1. /\ tracks = <<>> /\ streams = <<>> /\ DOMAIN streams = {} /\ Len(streams) = 0
          /\ Len(tracks) = 0 /\ tracks \in Seq(Track) /\ streams \in Seq(Seq(Nat))
        BY DEF MediaInit
    <3>2. /\ mediaScreen = "idle" /\ sfuMode \in BOOLEAN /\ videoOff = FALSE /\ paused = FALSE
          /\ raced = FALSE /\ producer = "none" /\ acquiring = 0 /\ flipped = 0 /\ local = 0
          /\ sender = 0 /\ flips = {} /\ facing = "user"
        BY DEF MediaInit
    <3>3. /\ \A s \in DOMAIN streams : \A i \in DOMAIN streams[s] : streams[s][i] \in DOMAIN tracks
          /\ local \in 0 .. Len(streams) /\ sender \in 0 .. Len(tracks)
        BY <3>1, <3>2
    <3> QED
        BY <3>1, <3>2, <3>3, Zenon DEF MediaTypes, Facings
  <2>2. InOrder
      BY DEF MediaInit, InOrder
  <2>3. FlipAndSend
      BY DEF MediaInit, FlipAndSend
  <2> QED
      BY <2>1, <2>2, <2>3 DEF MediaInv
<1>2. MediaInv /\ [MediaNext]_mediaVars => MediaInv'
  <2> SUFFICES ASSUME MediaInv, [MediaNext]_mediaVars
               PROVE  MediaInv'
      OBVIOUS
  <2>1. MediaTypes'
      BY MediaTypesKept DEF MediaInv
  <2>2. ~raced' => InOrder' /\ FlipAndSend'
      BY RacedForGood, OrderKept DEF MediaInv
  <2> QED
      BY <2>1, <2>2 DEF MediaInv
<1> QED
    BY <1>1, <1>2, PTL DEF MediaSpec

\* Nothing under way and no local stream: every track there ever was is stopped
\* (cleanupCallResources, stopMediaStream).
THEOREM CameraGoesOff == MediaSpec => []CameraReleased
<1>1. MediaInv => CameraReleased
    BY DEF MediaInv, InOrder, CameraReleased
<1> QED
    BY <1>1, MediaInductive, PTL

\* What is sent is the video track of the preview, on exactly when the button says so.
THEOREM WhatIsShownIsSent == MediaSpec => []SentIsShown
<1>1. MediaInv => SentIsShown
  <2> SUFFICES ASSUME MediaTypes, InOrder, FlipAndSend, sender # 0
               PROVE  /\ sender = Head(streams[local])
                      /\ tracks[sender].enabled = ~videoOff
                      /\ producer = "kept" => paused = videoOff
      BY DEF MediaInv, SentIsShown
  <2>1. local # 0 /\ streams[local] = <<sender>> /\ streams[local] # <<>>
      BY DEF FlipAndSend
  <2>2. sender = Head(streams[local])
      BY <2>1
  <2> QED
      BY <2>1, <2>2 DEF FlipAndSend
<1> QED
    BY <1>1, MediaInductive, PTL

\* The next flip asks for the other camera: currentFacingMode is the side of the live one.
THEOREM FacingIsKnown == MediaSpec => []FacingIsActual
<1>1. MediaInv => FacingIsActual
    BY DEF MediaInv, InOrder, FacingIsActual
<1> QED
    BY <1>1, MediaInductive, PTL

-----------------------------------------------------------------------------
(* Mesh, for any set of callers.                                           *)
(*                                                                         *)
(* ConnectionsMatchCall speaks of clients that have read everything.  For  *)
(* one that has not, the last list of the call on its way is the one the   *)
(* server has; and an offer on its way is of somebody in the call, unless  *)
(* a list follows it.                                                      *)

IsSequence(s) == Len(s) \in Nat /\ s = [i \in 1 .. Len(s) |-> s[i]]
MeshScreens == {"idle", "acquiring-media", "waiting-for-peer", "call", "error"}

\* A list of the call comes in s after the i-th message.
ListAfter(s, i) == \E j \in 1 .. Len(s) : i < j /\ s[j].type = "call-peers"

MeshTypes ==
    /\ callScreen \in [Callers -> MeshScreens]
    /\ serverCall \subseteq Callers
    /\ DOMAIN wire = Callers /\ \A p \in Callers : IsSequence(wire[p])
    /\ DOMAIN pc = Callers /\ \A p \in Callers : DOMAIN pc[p] \subseteq Callers \ {p}

\* The server and the client agree on who is in the call, and nobody else has connections.
Attended ==
    \A p \in Callers :
        /\ InCall(p) <=> p \in serverCall
        /\ ~InCall(p) => DOMAIN pc[p] = {}

\* What the messages s on their way to p say of the call with the members S.
Current(S, p, s) ==
    \A i \in 1 .. Len(s) :
        /\ s[i].type = "call-peers" =>
            s[i].peers \subseteq Callers /\ (~ListAfter(s, i) => s[i].peers = S)
        /\ s[i].type = "offer" =>
            s[i].from \in Callers \ {p} /\ (~ListAfter(s, i) => s[i].from \in S)

\* A client in the call that has no list to read knows who is in it.
UpToDate(p) ==
    /\ DOMAIN pc[p] = serverCall \ {p}
    /\ callScreen[p] = "call" <=> serverCall # {p}

MeshInv ==
    /\ MeshTypes
    /\ Attended
    /\ \A p \in Callers : Current(serverCall, p, wire[p])
    /\ \A p \in Callers : InCall(p) /\ ~ListAfter(wire[p], 0) => UpToDate(p)

-----------------------------------------------------------------------------
(* What is on its way, when something is sent or read.                     *)

LEMMA InSeq ==
    ASSUME NEW s, IsSequence(s)
    PROVE  s \in Seq({s[i] : i \in 1 .. Len(s)})
    BY DEF IsSequence

LEMMA AppendedTo ==
    ASSUME NEW s, IsSequence(s), NEW m
    PROVE  LET t == Append(s, m) IN
           /\ Len(t) = Len(s) + 1 /\ Len(s) \in Nat
           /\ IsSequence(t)
           /\ t[Len(s) + 1] = m
           /\ \A i \in 1 .. Len(s) : t[i] = s[i]
<1> DEFINE t == Append(s, m)
           S == {s[i] : i \in 1 .. Len(s)} \cup {m}
<1>1. s \in Seq(S) /\ m \in S
  <2>1. s \in Seq({s[i] : i \in 1 .. Len(s)})
      BY InSeq
  <2> QED
      BY <2>1
<1> HIDE DEF S
<1>2. /\ t \in Seq(S) /\ Len(t) = Len(s) + 1 /\ Len(s) \in Nat
      /\ t[Len(s) + 1] = m /\ \A i \in 1 .. Len(s) : t[i] = s[i]
    BY <1>1, AppendProperties
<1> HIDE DEF t
<1>3. IsSequence(t)
    BY <1>2 DEF IsSequence
<1> QED
    BY <1>2, <1>3 DEF t

LEMMA TailOf ==
    ASSUME NEW s, IsSequence(s), s # <<>>
    PROVE  LET t == Tail(s) IN
           /\ Len(t) = Len(s) - 1 /\ Len(s) \in Nat \ {0}
           /\ IsSequence(t)
           /\ Head(s) = s[1]
           /\ \A i \in 1 .. Len(t) : t[i] = s[i + 1]
<1> DEFINE t == Tail(s)
           S == {s[i] : i \in 1 .. Len(s)}
<1>1. s \in Seq(S)
    BY InSeq
<1> HIDE DEF S
<1>2. Len(s) \in Nat \ {0}
    BY <1>1, EmptySeq
<1>3. /\ t \in Seq(S) /\ Len(t) = Len(s) - 1 /\ Head(s) = s[1]
      /\ \A i \in 1 .. Len(t) : t[i] = s[i + 1]
    BY <1>1, <1>2, HeadTailProperties
<1> HIDE DEF t
<1>4. IsSequence(t)
    BY <1>3, <1>2 DEF IsSequence
<1> QED
    BY <1>2, <1>3, <1>4 DEF t

\* A list of the call put at the end of what a client has to read.
LEMMA ListAppended ==
    ASSUME NEW p \in Callers, NEW s, IsSequence(s), NEW S, Current(S, p, s),
           NEW T \in SUBSET Callers
    PROVE  LET t == Append(s, CallPeersList(T)) IN
           IsSequence(t) /\ Current(T, p, t) /\ ListAfter(t, 0)
<1> DEFINE m == CallPeersList(T)
           t == Append(s, m)
<1>1. m.type = "call-peers" /\ m.peers = T
    BY DEF CallPeersList
<1> HIDE DEF m
<1>2. /\ Len(t) = Len(s) + 1 /\ Len(s) \in Nat
      /\ IsSequence(t)
      /\ t[Len(s) + 1] = m
      /\ \A i \in 1 .. Len(s) : t[i] = s[i]
    BY AppendedTo
<1> HIDE DEF t
<1>3. \A i \in 0 .. Len(s) : ListAfter(t, i)
    BY <1>1, <1>2 DEF ListAfter
<1>4. \A i \in 1 .. Len(t) : i \in 1 .. Len(s) \/ i = Len(t)
    BY <1>2
<1>5. Current(T, p, t)
    BY <1>1, <1>2, <1>3, <1>4 DEF Current
<1>6. ListAfter(t, 0)
    BY <1>2, <1>3
<1> QED
    BY <1>2, <1>5, <1>6 DEF t, m

\* Another message put there.
LEMMA MessageAppended ==
    ASSUME NEW p \in Callers, NEW s, IsSequence(s), NEW S, Current(S, p, s),
           NEW m, m.type # "call-peers",
           m.type = "offer" => m.from \in Callers \ {p} /\ m.from \in S
    PROVE  LET t == Append(s, m) IN
           IsSequence(t) /\ Current(S, p, t) /\ (ListAfter(t, 0) <=> ListAfter(s, 0))
<1> DEFINE t == Append(s, m)
<1>1. /\ Len(t) = Len(s) + 1 /\ Len(s) \in Nat
      /\ IsSequence(t)
      /\ t[Len(s) + 1] = m
      /\ \A i \in 1 .. Len(s) : t[i] = s[i]
    BY AppendedTo
<1> HIDE DEF t
<1>2. \A i \in 1 .. Len(t) : i \in 1 .. Len(s) \/ i = Len(t)
    BY <1>1
<1>3. \A i \in 0 .. Len(s) : ListAfter(t, i) <=> ListAfter(s, i)
  <2> SUFFICES ASSUME NEW i \in 0 .. Len(s)
               PROVE  ListAfter(t, i) <=> ListAfter(s, i)
      OBVIOUS
  <2>1. ListAfter(s, i) => ListAfter(t, i)
      BY <1>1 DEF ListAfter
  <2>2. ListAfter(t, i) => ListAfter(s, i)
      BY <1>1, <1>2 DEF ListAfter
  <2> QED
      BY <2>1, <2>2
<1>4. Current(S, p, t)
    BY <1>1, <1>2, <1>3 DEF Current
<1>5. ListAfter(t, 0) <=> ListAfter(s, 0)
    BY <1>1, <1>3
<1> QED
    BY <1>1, <1>4, <1>5 DEF t

\* The first message read.
LEMMA FirstRead ==
    ASSUME NEW p \in Callers, NEW s, IsSequence(s), s # <<>>, NEW S, Current(S, p, s)
    PROVE  /\ IsSequence(Tail(s)) /\ Current(S, p, Tail(s))
           /\ Head(s) = s[1] /\ 1 \in 1 .. Len(s)
           /\ ListAfter(Tail(s), 0) <=> ListAfter(s, 1)
           /\ Head(s).type # "call-peers" => (ListAfter(Tail(s), 0) <=> ListAfter(s, 0))
<1> DEFINE t == Tail(s)
<1>1. /\ Len(t) = Len(s) - 1 /\ Len(s) \in Nat \ {0}
      /\ IsSequence(t)
      /\ Head(s) = s[1]
      /\ \A i \in 1 .. Len(t) : t[i] = s[i + 1]
    BY TailOf
<1> HIDE DEF t
<1>2. \A i \in 0 .. Len(t) : ListAfter(t, i) <=> ListAfter(s, i + 1)
  <2> SUFFICES ASSUME NEW i \in 0 .. Len(t)
               PROVE  ListAfter(t, i) <=> ListAfter(s, i + 1)
      OBVIOUS
  <2>1. ASSUME ListAfter(t, i) PROVE ListAfter(s, i + 1)
    <3>1. PICK j \in 1 .. Len(t) : i < j /\ t[j].type = "call-peers"
        BY <2>1 DEF ListAfter
    <3>2. j + 1 \in 1 .. Len(s) /\ i + 1 < j + 1 /\ s[j + 1].type = "call-peers"
        BY <3>1, <1>1
    <3> QED
        BY <3>2 DEF ListAfter
  <2>2. ASSUME ListAfter(s, i + 1) PROVE ListAfter(t, i)
    <3>1. PICK j \in 1 .. Len(s) : i + 1 < j /\ s[j].type = "call-peers"
        BY <2>2 DEF ListAfter
    <3>2. j - 1 \in 1 .. Len(t) /\ i < j - 1 /\ (j - 1) + 1 = j
        BY <3>1, <1>1
    <3>3. t[j - 1].type = "call-peers"
        BY <3>1, <3>2, <1>1
    <3> QED
        BY <3>2, <3>3 DEF ListAfter
  <2> QED
      BY <2>1, <2>2
<1>3. Current(S, p, t)
  <2> SUFFICES ASSUME NEW i \in 1 .. Len(t)
               PROVE  /\ t[i].type = "call-peers" =>
                          t[i].peers \subseteq Callers /\ (~ListAfter(t, i) => t[i].peers = S)
                      /\ t[i].type = "offer" =>
                          t[i].from \in Callers \ {p} /\ (~ListAfter(t, i) => t[i].from \in S)
      BY DEF Current
  <2>1. i + 1 \in 1 .. Len(s) /\ t[i] = s[i + 1] /\ (ListAfter(t, i) <=> ListAfter(s, i + 1))
      BY <1>1, <1>2
  <2> QED
      BY <2>1 DEF Current
<1>4. ListAfter(t, 0) <=> ListAfter(s, 1)
    BY <1>1, <1>2
<1>5. s[1].type # "call-peers" => (ListAfter(s, 1) <=> ListAfter(s, 0))
  <2> SUFFICES ASSUME s[1].type # "call-peers"
               PROVE  ListAfter(s, 1) <=> ListAfter(s, 0)
      OBVIOUS
  <2>1. \A j \in 1 .. Len(s) : s[j].type = "call-peers" => (1 < j <=> 0 < j)
      BY <1>1
  <2> QED
      BY <2>1 DEF ListAfter
<1> QED
    BY <1>1, <1>3, <1>4, <1>5 DEF t

-----------------------------------------------------------------------------
(* The kinds of steps.                                                     *)

\* The server has told everyone who is in the call now.
LEMMA AnnouncedStep ==
    ASSUME MeshInv, callScreen' \in [Callers -> MeshScreens], serverCall' \subseteq Callers,
           wire' = Announced(wire, serverCall'), DOMAIN pc' = Callers,
           \A p \in Callers : DOMAIN pc'[p] \subseteq Callers \ {p}, Attended'
    PROVE  MeshInv'
<1>1. DOMAIN wire' = Callers
    BY DEF Announced
<1>2. ASSUME NEW p \in Callers
      PROVE  /\ IsSequence(wire'[p]) /\ Current(serverCall', p, wire'[p])
             /\ ListAfter(wire'[p], 0)
  <2>1. wire'[p] = Append(wire[p], CallPeersList(serverCall'))
      BY DEF Announced
  <2>2. IsSequence(wire[p]) /\ Current(serverCall, p, wire[p])
      BY DEF MeshInv, MeshTypes
  <2> QED
      BY <2>1, <2>2, ListAppended
<1>3. MeshTypes'
    BY <1>1, <1>2 DEF MeshTypes
<1> QED
    BY <1>2, <1>3 DEF MeshInv

\* Nothing is sent, read or announced, and the screens and connections there are stay.
LEMMA QuietStep ==
    ASSUME MeshInv, UNCHANGED <<callScreen, serverCall, wire>>, DOMAIN pc' = DOMAIN pc,
           \A p \in Callers : DOMAIN pc'[p] = DOMAIN pc[p]
    PROVE  MeshInv'
<1>1. MeshTypes'
    BY DEF MeshInv, MeshTypes
<1>2. Attended'
    BY DEF MeshInv, Attended, InCall
<1>3. \A p \in Callers : InCall(p)' /\ ~ListAfter(wire'[p], 0) => UpToDate(p)'
    BY DEF MeshInv, UpToDate, InCall
<1> QED
    BY <1>1, <1>2, <1>3 DEF MeshInv

\* One connected to another tells it something.
LEMMA SentStep ==
    ASSUME MeshInv, NEW p \in Callers, NEW q \in DOMAIN pc[p], NEW m, m.from = p,
           m.type # "call-peers", wire' = Sent(wire, q, m), UNCHANGED <<callScreen, serverCall>>,
           DOMAIN pc' = DOMAIN pc, \A r \in Callers : DOMAIN pc'[r] = DOMAIN pc[r]
    PROVE  MeshInv'
<1>1. q \in Callers /\ q # p /\ p \in serverCall
    BY DEF MeshInv, MeshTypes, Attended
<1>2. /\ DOMAIN wire' = Callers
      /\ wire'[q] = Append(wire[q], m)
      /\ \A r \in Callers \ {q} : wire'[r] = wire[r]
    BY <1>1 DEF Sent, MeshInv, MeshTypes
<1>3. ASSUME NEW r \in Callers
      PROVE  /\ IsSequence(wire'[r]) /\ Current(serverCall, r, wire'[r])
             /\ ListAfter(wire'[r], 0) <=> ListAfter(wire[r], 0)
  <2>1. IsSequence(wire[r]) /\ Current(serverCall, r, wire[r])
      BY DEF MeshInv, MeshTypes
  <2>2. CASE r = q
    <3>1. wire'[r] = Append(wire[r], m) /\ p \in Callers \ {r}
        BY <1>1, <1>2, <2>2
    <3> QED
        BY <1>1, <2>1, <3>1, MessageAppended
  <2>3. CASE r # q
      BY <1>2, <2>1, <2>3
  <2> QED
      BY <2>2, <2>3
<1>4. MeshTypes'
    BY <1>2, <1>3 DEF MeshInv, MeshTypes
<1>5. Attended'
    BY DEF MeshInv, Attended, InCall
<1>6. \A r \in Callers : InCall(r)' /\ ~ListAfter(wire'[r], 0) => UpToDate(r)'
    BY <1>3 DEF MeshInv, UpToDate, InCall
<1>7. \A r \in Callers : Current(serverCall', r, wire'[r])
    BY <1>3
<1> QED
    BY <1>4, <1>5, <1>6, <1>7 DEF MeshInv

\* A message that is no list of the call is read.
LEMMA ReadStep ==
    ASSUME MeshInv, NEW p \in Callers, wire[p] # <<>>, Head(wire[p]).type # "call-peers",
           wire' = Consumed(p), UNCHANGED <<callScreen, serverCall>>,
           DOMAIN pc' = DOMAIN pc, \A r \in Callers \ {p} : DOMAIN pc'[r] = DOMAIN pc[r],
           DOMAIN pc'[p] \subseteq Callers \ {p},
           ~InCall(p) \/ ~ListAfter(wire[p], 0) => DOMAIN pc'[p] = DOMAIN pc[p]
    PROVE  MeshInv'
<1>1. /\ DOMAIN wire' = Callers
      /\ wire'[p] = Tail(wire[p])
      /\ \A r \in Callers \ {p} : wire'[r] = wire[r]
    BY DEF Consumed, MeshInv, MeshTypes
<1>2. ASSUME NEW r \in Callers
      PROVE  /\ IsSequence(wire'[r]) /\ Current(serverCall, r, wire'[r])
             /\ ListAfter(wire'[r], 0) <=> ListAfter(wire[r], 0)
  <2>1. IsSequence(wire[r]) /\ Current(serverCall, r, wire[r])
      BY DEF MeshInv, MeshTypes
  <2>2. CASE r = p
    <3>1. /\ IsSequence(Tail(wire[p])) /\ Current(serverCall, p, Tail(wire[p]))
          /\ ListAfter(Tail(wire[p]), 0) <=> ListAfter(wire[p], 0)
        BY <2>1, <2>2, FirstRead
    <3> QED
        BY <1>1, <2>2, <3>1
  <2>3. CASE r # p
      BY <1>1, <2>1, <2>3
  <2> QED
      BY <2>2, <2>3
<1>3. MeshTypes'
    BY <1>1, <1>2 DEF MeshInv, MeshTypes
<1>4. Attended'
    BY DEF MeshInv, Attended, InCall
<1>5. \A r \in Callers : InCall(r)' /\ ~ListAfter(wire'[r], 0) => UpToDate(r)'
    BY <1>2 DEF MeshInv, UpToDate, InCall
<1>6. \A r \in Callers : Current(serverCall', r, wire'[r])
    BY <1>2
<1> QED
    BY <1>3, <1>4, <1>5, <1>6 DEF MeshInv

-----------------------------------------------------------------------------
(* The actions.                                                            *)

LEMMA JoinStep ==
    ASSUME MeshInv, NEW p \in Callers, MediaAcquired(p)
    PROVE  MeshInv'
<1>1. /\ callScreen[p] = "acquiring-media"
      /\ callScreen' = [callScreen EXCEPT ![p] = "waiting-for-peer"]
      /\ serverCall' = serverCall \cup {p} /\ wire' = Announced(wire, serverCall') /\ pc' = pc
    BY DEF MediaAcquired
<1>2. callScreen' \in [Callers -> MeshScreens] /\ callScreen'[p] = "waiting-for-peer"
      /\ \A r \in Callers \ {p} : callScreen'[r] = callScreen[r]
    BY <1>1 DEF MeshInv, MeshTypes, MeshScreens
<1>3. Attended'
    BY <1>1, <1>2 DEF MeshInv, Attended, InCall, InCallScreens
<1>4. serverCall' \subseteq Callers /\ DOMAIN pc' = Callers
      /\ \A r \in Callers : DOMAIN pc'[r] \subseteq Callers \ {r}
    BY <1>1 DEF MeshInv, MeshTypes
<1> QED
    BY <1>1, <1>2, <1>3, <1>4, AnnouncedStep

\* The end of a call, whatever ends it.
LEMMA CleanStep ==
    ASSUME MeshInv, NEW p \in Callers, NEW screen \in {"idle", "error"},
           callScreen' = [callScreen EXCEPT ![p] = screen], CleanedUp(p)
    PROVE  MeshInv'
<1>1. /\ callScreen' \in [Callers -> MeshScreens] /\ callScreen'[p] = screen
      /\ \A r \in Callers \ {p} : callScreen'[r] = callScreen[r]
    BY DEF MeshInv, MeshTypes, MeshScreens
<1>2. /\ DOMAIN pc' = Callers /\ DOMAIN pc'[p] = {}
      /\ \A r \in Callers \ {p} : pc'[r] = pc[r]
    BY DEF CleanedUp, Empty, MeshInv, MeshTypes
<1>3. \A r \in Callers : DOMAIN pc'[r] \subseteq Callers \ {r}
    BY <1>2 DEF MeshInv, MeshTypes
<1>4. CASE InCall(p)
  <2>1. serverCall' = serverCall \ {p} /\ wire' = Announced(wire, serverCall')
      BY <1>4 DEF CleanedUp
  <2>2. Attended'
      BY <1>1, <1>2, <2>1 DEF MeshInv, Attended, InCall, InCallScreens
  <2>3. serverCall' \subseteq Callers
      BY <2>1 DEF MeshInv, MeshTypes
  <2> QED
      BY <1>1, <1>2, <1>3, <2>1, <2>2, <2>3, AnnouncedStep
<1>5. CASE ~InCall(p)
  <2>1. serverCall' = serverCall /\ wire' = wire
      BY <1>5 DEF CleanedUp
  <2>2. DOMAIN pc[p] = {} /\ p \notin serverCall
      BY <1>5 DEF MeshInv, Attended
  <2>3. MeshTypes'
      BY <1>1, <1>2, <1>3, <2>1 DEF MeshInv, MeshTypes
  <2>4. Attended'
      BY <1>1, <1>2, <2>1, <2>2 DEF MeshInv, Attended, InCall, InCallScreens
  <2>5. \A r \in Callers : InCall(r)' /\ ~ListAfter(wire'[r], 0) => UpToDate(r)'
      BY <1>1, <1>2, <2>1, <2>2, <2>4 DEF MeshInv, UpToDate, InCall, InCallScreens
  <2> QED
      BY <2>1, <2>3, <2>4, <2>5 DEF MeshInv
<1> QED
    BY <1>4, <1>5

LEMMA ListStep ==
    ASSUME MeshInv, NEW p \in Callers, ReadCallPeers(p)
    PROVE  MeshInv'
<1> DEFINE remote == Head(wire[p]).peers \ {p}
           screen == ScreenAfterList(callScreen[p], remote)
<1>1. /\ wire[p] # <<>> /\ Head(wire[p]).type = "call-peers"
      /\ callScreen' = [callScreen EXCEPT ![p] = screen]
      /\ wire' = Consumed(p) /\ serverCall' = serverCall
    BY DEF ReadCallPeers, NextIs
<1>2. IF screen \in InCallScreens
      THEN pc' = [pc EXCEPT ![p] = ConnectionsAfterList(p, remote)]
      ELSE pc' = pc
    BY DEF ReadCallPeers
<1>3. /\ IsSequence(Tail(wire[p])) /\ Current(serverCall, p, Tail(wire[p]))
      /\ ListAfter(Tail(wire[p]), 0) <=> ListAfter(wire[p], 1)
      /\ Head(wire[p]).peers \subseteq Callers
      /\ ~ListAfter(wire[p], 1) => Head(wire[p]).peers = serverCall
  <2>1. IsSequence(wire[p]) /\ Current(serverCall, p, wire[p])
      BY DEF MeshInv, MeshTypes
  <2>2. /\ IsSequence(Tail(wire[p])) /\ Current(serverCall, p, Tail(wire[p]))
        /\ Head(wire[p]) = wire[p][1] /\ 1 \in 1 .. Len(wire[p])
        /\ ListAfter(Tail(wire[p]), 0) <=> ListAfter(wire[p], 1)
      BY <1>1, <2>1, FirstRead
  <2> QED
      BY <1>1, <2>1, <2>2 DEF Current
<1>4. remote \subseteq Callers \ {p}
    BY <1>3
<1> HIDE DEF remote
<1>5. /\ screen \in InCallScreens <=> InCall(p)
      /\ screen \in MeshScreens
      /\ screen \in InCallScreens => (screen = "call" <=> remote # {})
    BY DEF ScreenAfterList, InCall, InCallScreens, MeshScreens, MeshInv, MeshTypes
<1> HIDE DEF screen
<1>6. /\ callScreen' \in [Callers -> MeshScreens] /\ callScreen'[p] = screen
      /\ \A r \in Callers \ {p} : callScreen'[r] = callScreen[r]
    BY <1>1, <1>5 DEF MeshInv, MeshTypes
<1>7. /\ DOMAIN pc' = Callers
      /\ DOMAIN pc'[p] = IF InCall(p) THEN remote ELSE {}
      /\ \A r \in Callers \ {p} : pc'[r] = pc[r]
  <2>1. CASE InCall(p)
      BY <2>1, <1>2, <1>5 DEF ConnectionsAfterList, MeshInv, MeshTypes
  <2>2. CASE ~InCall(p)
      BY <2>2, <1>2, <1>5 DEF MeshInv, MeshTypes, Attended
  <2> QED
      BY <2>1, <2>2
<1>8. /\ DOMAIN wire' = Callers
      /\ wire'[p] = Tail(wire[p])
      /\ \A r \in Callers \ {p} : wire'[r] = wire[r]
    BY <1>1 DEF Consumed, MeshInv, MeshTypes
<1>9. \A r \in Callers : InCall(r)' <=> InCall(r)
    BY <1>5, <1>6 DEF InCall
<1>10. MeshTypes'
  <2>1. \A r \in Callers : IsSequence(wire'[r])
      BY <1>3, <1>8 DEF MeshInv, MeshTypes
  <2>2. \A r \in Callers : DOMAIN pc'[r] \subseteq Callers \ {r}
      BY <1>4, <1>7 DEF MeshInv, MeshTypes
  <2>3. serverCall' \subseteq Callers
      BY <1>1 DEF MeshInv, MeshTypes
  <2> QED
      BY <1>6, <1>7, <1>8, <2>1, <2>2, <2>3 DEF MeshTypes
<1>11. Attended'
    BY <1>1, <1>7, <1>9 DEF MeshInv, Attended
<1>12. \A r \in Callers : Current(serverCall', r, wire'[r])
    BY <1>1, <1>3, <1>8 DEF MeshInv
<1>13. ASSUME NEW r \in Callers, InCall(r)', ~ListAfter(wire'[r], 0)
       PROVE  UpToDate(r)'
  <2>1. CASE r = p
    <3>1. remote = serverCall \ {p}
        BY <2>1, <1>3, <1>8, <1>13 DEF remote
    <3>2. InCall(p) /\ p \in serverCall
        BY <2>1, <1>9, <1>13 DEF MeshInv, Attended
    <3>3. remote # {} <=> serverCall # {p}
        BY <3>1, <3>2
    <3> QED
        BY <2>1, <3>1, <3>2, <3>3, <1>1, <1>5, <1>6, <1>7 DEF UpToDate, InCall
  <2>2. CASE r # p
    <3>1. UpToDate(r)
        BY <2>2, <1>8, <1>9, <1>13 DEF MeshInv
    <3> QED
        BY <2>2, <3>1, <1>1, <1>6, <1>7 DEF UpToDate
  <2> QED
      BY <2>1, <2>2
<1> QED
    BY <1>10, <1>11, <1>12, <1>13 DEF MeshInv

LEMMA MessageStep ==
    ASSUME MeshInv, NEW p \in Callers, ReadOffer(p) \/ ReadAnswer(p) \/ ReadCandidate(p)
    PROVE  MeshInv'
<1> DEFINE q == Head(wire[p]).from
<1>1. CASE ReadOffer(p)
  <2>1. /\ wire[p] # <<>> /\ Head(wire[p]).type = "offer"
        /\ wire' = Consumed(p) /\ UNCHANGED <<callScreen, serverCall>>
      BY <1>1 DEF ReadOffer, NextIs
  <2>2. q \in Callers \ {p} /\ (~ListAfter(wire[p], 0) => q \in serverCall)
    <3>1. IsSequence(wire[p]) /\ Current(serverCall, p, wire[p])
        BY DEF MeshInv, MeshTypes
    <3>2. /\ Head(wire[p]) = wire[p][1] /\ 1 \in 1 .. Len(wire[p])
          /\ ListAfter(Tail(wire[p]), 0) <=> ListAfter(wire[p], 1)
          /\ ListAfter(Tail(wire[p]), 0) <=> ListAfter(wire[p], 0)
        BY <2>1, <3>1, FirstRead
    <3> QED
        BY <2>1, <3>1, <3>2 DEF Current
  <2> HIDE DEF q
  <2>3. /\ DOMAIN pc' = Callers
        /\ \A r \in Callers \ {p} : pc'[r] = pc[r]
        /\ DOMAIN pc'[p] = IF InCall(p) THEN DOMAIN pc[p] \cup {q} ELSE DOMAIN pc[p]
    <3>1. CASE ~InCall(p)
        BY <3>1, <1>1 DEF ReadOffer, MeshInv, MeshTypes
    <3>2. CASE InCall(p)
      <4>1. PICK c : pc' = [pc EXCEPT ![p] = With(pc[p], q, c)]
          BY <3>2, <1>1 DEF ReadOffer, q
      <4> QED
          BY <3>2, <4>1 DEF With, MeshInv, MeshTypes
    <3> QED
        BY <3>1, <3>2
  <2>4. DOMAIN pc'[p] \subseteq Callers \ {p}
      BY <2>2, <2>3 DEF MeshInv, MeshTypes
  <2>5. InCall(p) /\ ~ListAfter(wire[p], 0) => q \in DOMAIN pc[p]
      BY <2>2 DEF MeshInv, UpToDate
  <2>6. ~InCall(p) \/ ~ListAfter(wire[p], 0) => DOMAIN pc'[p] = DOMAIN pc[p]
      BY <2>3, <2>5
  <2>7. DOMAIN pc' = DOMAIN pc
      BY <2>3 DEF MeshInv, MeshTypes
  <2> QED
      BY <2>1, <2>3, <2>4, <2>6, <2>7, ReadStep
<1>2. CASE ReadAnswer(p) \/ ReadCandidate(p)
  <2>1. /\ wire[p] # <<>> /\ Head(wire[p]).type # "call-peers"
        /\ wire' = Consumed(p) /\ UNCHANGED <<callScreen, serverCall>>
      BY <1>2 DEF ReadAnswer, ReadCandidate, NextIs
  <2>2. pc' = pc \/ \E r, c : pc' = [pc EXCEPT ![p] = [pc[p] EXCEPT ![r] = c]]
      BY <1>2 DEF ReadAnswer, ReadCandidate
  <2>3. /\ DOMAIN pc' = Callers /\ DOMAIN pc = Callers
        /\ \A r \in Callers : DOMAIN pc'[r] = DOMAIN pc[r]
      BY <2>2 DEF MeshInv, MeshTypes
  <2>4. DOMAIN pc'[p] \subseteq Callers \ {p}
      BY <2>3 DEF MeshInv, MeshTypes
  <2> QED
      BY <2>1, <2>3, <2>4, ReadStep
<1> QED
    BY <1>1, <1>2

\* A promise settles, or candidates are found: nothing is sent, or one thing to the other side.
LEMMA SettleStep ==
    ASSUME MeshInv, NEW p \in Callers, NEW q \in Callers,
           \/ CreateOffer(p, q)
           \/ SetOffer(p, q)
           \/ AcceptOffer(p, q)
           \/ CreateAnswer(p, q)
           \/ SetAnswer(p, q)
           \/ AcceptAnswer(p, q)
           \/ Gather(p, q)
    PROVE  MeshInv'
<1>1. q \in DOMAIN pc[p]
    BY DEF CreateOffer, SetOffer, AcceptOffer, CreateAnswer, SetAnswer, AcceptAnswer, Gather, Settling
<1>2. UNCHANGED <<callScreen, serverCall>>
    BY DEF CreateOffer, SetOffer, AcceptOffer, CreateAnswer, SetAnswer, AcceptAnswer, Gather,
           OtherUnchanged
<1>3. \E c : pc' = [pc EXCEPT ![p] = [pc[p] EXCEPT ![q] = c]]
  <2>1. CASE CreateOffer(p, q)
      BY <2>1 DEF CreateOffer
  <2>2. CASE SetOffer(p, q)
      BY <2>2 DEF SetOffer
  <2>3. CASE AcceptOffer(p, q)
      BY <2>3 DEF AcceptOffer
  <2>4. CASE CreateAnswer(p, q)
      BY <2>4 DEF CreateAnswer
  <2>5. CASE SetAnswer(p, q)
      BY <2>5 DEF SetAnswer
  <2>6. CASE AcceptAnswer(p, q)
      BY <2>6 DEF AcceptAnswer
  <2>7. CASE Gather(p, q)
      BY <2>7 DEF Gather
  <2> QED
      BY <2>1, <2>2, <2>3, <2>4, <2>5, <2>6, <2>7
<1>4. DOMAIN pc' = DOMAIN pc /\ \A r \in Callers : DOMAIN pc'[r] = DOMAIN pc[r]
    BY <1>3 DEF MeshInv, MeshTypes
<1>5. CASE wire' = wire
    BY <1>2, <1>4, <1>5, QuietStep
<1>6. ASSUME NEW type \in {"offer", "answer", "ice-candidate"}, NEW o,
             wire' = Sent(wire, q, Signal(type, p, o))
      PROVE  MeshInv'
  <2> DEFINE m == Signal(type, p, o)
  <2>1. m.from = p /\ m.type # "call-peers"
      BY DEF Signal
  <2>2. wire' = Sent(wire, q, m)
      BY <1>6
  <2> HIDE DEF m
  <2> QED
      BY <1>1, <1>2, <1>4, <2>1, <2>2, SentStep
<1>7. \/ wire' = wire
      \/ \E type \in {"offer", "answer", "ice-candidate"} : \E o :
            wire' = Sent(wire, q, Signal(type, p, o))
    BY DEF CreateOffer, SetOffer, AcceptOffer, CreateAnswer, SetAnswer, AcceptAnswer, Gather
<1> QED
    BY <1>5, <1>6, <1>7

\* A failure leaves the call, or leaves it as it is.
LEMMA FailureStep ==
    ASSUME MeshInv, NEW p \in Callers, NEW q \in Callers, Rejected(p, q) \/ Fails(p, q)
    PROVE  MeshInv'
<1>1. CASE callScreen' = [callScreen EXCEPT ![p] = "error"] /\ CleanedUp(p)
    BY <1>1, CleanStep
<1>2. CASE UNCHANGED <<callScreen, serverCall, wire>>
           /\ (pc' = pc \/ \E c : pc' = [pc EXCEPT ![p] = [pc[p] EXCEPT ![q] = c]])
  <2>1. DOMAIN pc' = DOMAIN pc /\ \A r \in Callers : DOMAIN pc'[r] = DOMAIN pc[r]
      BY <1>2 DEF MeshInv, MeshTypes
  <2> QED
      BY <1>2, <2>1, QuietStep
<1>3. CASE Rejected(p, q)
  <2>1. RtcFailed(p, q, [pc EXCEPT ![p][q] = Done(@)])
      BY <1>3 DEF Rejected
  <2> QED
      BY <1>1, <1>2, <2>1 DEF RtcFailed
<1>4. CASE Fails(p, q)
  <2>1. RtcFailed(p, q, pc)
      BY <1>4 DEF Fails
  <2> QED
      BY <1>1, <1>2, <2>1 DEF RtcFailed
<1> QED
    BY <1>3, <1>4

LEMMA ConnectedStep ==
    ASSUME MeshInv, NEW p \in Callers, NEW q \in Callers, Connected(p, q)
    PROVE  MeshInv'
<1>1. /\ q \in DOMAIN pc[p] /\ q # p
      /\ callScreen' = [callScreen EXCEPT ![p] = IF @ = "waiting-for-peer" THEN "call" ELSE @]
      /\ UNCHANGED <<serverCall, wire, pc>>
    BY DEF Connected, MeshInv, MeshTypes
<1>2. InCall(p)
    BY <1>1 DEF MeshInv, Attended
<1>3. /\ callScreen' \in [Callers -> MeshScreens] /\ callScreen'[p] = "call"
      /\ \A r \in Callers \ {p} : callScreen'[r] = callScreen[r]
    BY <1>1, <1>2 DEF InCall, InCallScreens, MeshScreens, MeshInv, MeshTypes
<1>4. \A r \in Callers : InCall(r)' <=> InCall(r)
    BY <1>2, <1>3 DEF InCall, InCallScreens
<1>5. MeshTypes'
    BY <1>1, <1>3 DEF MeshInv, MeshTypes
<1>6. Attended'
    BY <1>1, <1>4 DEF MeshInv, Attended
<1>7. ASSUME NEW r \in Callers, InCall(r)', ~ListAfter(wire'[r], 0)
      PROVE  UpToDate(r)'
  <2>1. UpToDate(r)
      BY <1>1, <1>4, <1>7 DEF MeshInv
  <2>2. CASE r = p
    <3>1. q \in serverCall
        BY <2>1, <2>2, <1>1 DEF UpToDate
    <3> QED
        BY <2>1, <2>2, <3>1, <1>1, <1>3 DEF UpToDate
  <2>3. CASE r # p
      BY <2>1, <2>3, <1>1, <1>3 DEF UpToDate
  <2> QED
      BY <2>2, <2>3
<1> QED
    BY <1>1, <1>5, <1>6, <1>7 DEF MeshInv

LEMMA MeshInductive == MeshSpec => []MeshInv
<1>1. MeshInit => MeshInv
  <2> SUFFICES ASSUME MeshInit
               PROVE  MeshInv
      OBVIOUS
  <2>1. MeshTypes
    <3>1. \A p \in Callers : IsSequence(wire[p])
        BY DEF MeshInit, IsSequence
    <3> QED
        BY <3>1 DEF MeshInit, MeshTypes, MeshScreens, Empty
  <2>2. Attended
      BY DEF MeshInit, Attended, InCall, InCallScreens, Empty
  <2>3. \A p \in Callers : Current(serverCall, p, wire[p]) /\ ~InCall(p)
      BY DEF MeshInit, Current, InCall, InCallScreens
  <2> QED
      BY <2>1, <2>2, <2>3 DEF MeshInv
<1>2. MeshInv /\ [MeshNext]_meshVars => MeshInv'
  <2> SUFFICES ASSUME MeshInv, [MeshNext]_meshVars
               PROVE  MeshInv'
      OBVIOUS
  <2>1. ASSUME NEW p \in Callers, CallerStep(p)
        PROVE  MeshInv'
    <3>1. CASE SwitchToCall(p)
      <4>1. /\ callScreen[p] = "idle"
            /\ callScreen' = [callScreen EXCEPT ![p] = "acquiring-media"]
            /\ UNCHANGED <<serverCall, wire, pc>>
          BY <3>1 DEF SwitchToCall
      <4>2. /\ callScreen' \in [Callers -> MeshScreens] /\ callScreen'[p] = "acquiring-media"
            /\ \A r \in Callers \ {p} : callScreen'[r] = callScreen[r]
          BY <4>1 DEF MeshScreens, MeshInv, MeshTypes
      <4>3. \A r \in Callers : /\ InCall(r)' <=> InCall(r)
                               /\ InCall(r) => callScreen'[r] = callScreen[r]
          BY <4>1, <4>2 DEF InCall, InCallScreens
      <4>4. MeshTypes'
          BY <4>1, <4>2 DEF MeshInv, MeshTypes
      <4>5. Attended'
          BY <4>1, <4>3 DEF MeshInv, Attended
      <4>6. \A r \in Callers : InCall(r)' /\ ~ListAfter(wire'[r], 0) => UpToDate(r)'
          BY <4>1, <4>3 DEF MeshInv, UpToDate
      <4> QED
          BY <4>1, <4>4, <4>5, <4>6 DEF MeshInv
    <3>2. CASE MediaAcquired(p)
        BY <3>2, JoinStep
    <3>3. CASE HangUp(p) \/ Dismiss(p)
        BY <3>3, CleanStep DEF HangUp, Dismiss
    <3>4. CASE ReadCallPeers(p)
        BY <3>4, ListStep
    <3>5. CASE ReadOffer(p) \/ ReadAnswer(p) \/ ReadCandidate(p)
        BY <3>5, MessageStep
    <3> QED
        BY <2>1, <3>1, <3>2, <3>3, <3>4, <3>5 DEF CallerStep
  <2>2. ASSUME NEW p \in Callers, NEW q \in Callers, ConnectionStep(p, q)
        PROVE  MeshInv'
    <3>1. CASE Disconnected(p, q)
      <4>1. UNCHANGED <<callScreen, serverCall, wire, pc>>
          BY <3>1 DEF Disconnected
      <4> QED
          BY <4>1, QuietStep
    <3> QED
        BY <2>2, <3>1, SettleStep, FailureStep, ConnectedStep DEF ConnectionStep
  <2>3. CASE UNCHANGED meshVars
    <3>1. UNCHANGED <<callScreen, serverCall, wire, pc>>
        BY <2>3 DEF meshVars
    <3> QED
        BY <3>1, QuietStep
  <2> QED
      BY <2>1, <2>2, <2>3 DEF MeshNext
<1> QED
    BY <1>1, <1>2, PTL DEF MeshSpec

\* A client that has read everything has a connection for each of the others in the call
\* (handleCallPeersEffect, handleOffer, cleanupCallResources), for any number of callers.
THEOREM ConnectionsAlwaysMatch == MeshSpec => []ConnectionsMatchCall
<1>1. MeshInv => ConnectionsMatchCall
  <2> SUFFICES ASSUME MeshInv, MeshStill, NEW p \in Callers
               PROVE  /\ InCall(p) <=> p \in serverCall
                      /\ DOMAIN pc[p] = IF InCall(p) THEN serverCall \ {p} ELSE {}
                      /\ InCall(p) => (callScreen[p] = "call" <=> serverCall # {p})
      BY DEF ConnectionsMatchCall
  <2>1. ~ListAfter(wire[p], 0)
    <3>1. wire[p] = <<>>
        BY DEF MeshStill
    <3> QED
        BY <3>1 DEF ListAfter
  <2>2. InCall(p) => UpToDate(p)
      BY <2>1 DEF MeshInv
  <2> QED
      BY <2>2 DEF MeshInv, Attended, UpToDate
<1> QED
    BY <1>1, MeshInductive, PTL

-----------------------------------------------------------------------------
(* Negotiations, for any set of callers.                                   *)
(*                                                                         *)
(* Negotiated and CandidatesApplied speak of calls where nothing is under  *)
(* way.  At every moment, each pair in the call of which none rejoined too *)
(* early is at one of eight stages, from two who have not heard of each    *)
(* other to two who agree.  A stage says what each has, which promises it  *)
(* waits for, and what is on its way between them.                         *)

\* What p has to talk to q, and what it says of the negotiation.
NoConnection == <<>>
Between(p, q) == IF q \in DOMAIN pc[p] THEN pc[p][q] ELSE NoConnection
Fields == {"id", "sig", "local", "remote", "ops", "making", "pending", "added", "gathered"}
At(c, sig, remote, ops) == DOMAIN c = Fields /\ c.sig = sig /\ c.remote = remote /\ c.ops = ops

IsList(m) == m.type = "call-peers"
ListWith(m, x) == IsList(m) /\ x \in m.peers
ListWithout(m, x) == IsList(m) /\ x \notin m.peers
SaidBy(m, x) == ~IsList(m) /\ m.from = x
Openings == {"offer", "answer"}
Candidate(x, o) == Signal("ice-candidate", x, o)

\* In s: nothing x said; first what opens a negotiation, then candidates; candidates only; one of them.
Silent(s, x) == \A i \in 1 .. Len(s) : ~SaidBy(s[i], x)
Opens(s, x, type, o) ==
    \E i \in 1 .. Len(s) :
        /\ s[i] = Signal(type, x, o)
        /\ \A j \in 1 .. Len(s) : SaidBy(s[j], x) /\ j # i => i < j /\ s[j] = Candidate(x, o)
Trickles(s, x, o) == \A j \in 1 .. Len(s) : SaidBy(s[j], x) => s[j] = Candidate(x, o)
Coming(s, x, o) == \E j \in 1 .. Len(s) : s[j] = Candidate(x, o)

\* The candidate of c's description, once there is one, is on its way in s or d has it.
Taken(s, x, c, d) ==
    /\ Trickles(s, x, c.local)
    /\ d.pending \cup d.added \subseteq {c.local}
    /\ c.gathered => Coming(s, x, c.local) \/ c.local \in d.pending \cup d.added

(***************************************************************************)
(* The stages of a negotiation between x, which offers and has the         *)
(* connection c, and y, which has d; s is on its way to y and t to x.      *)
(***************************************************************************)
Untouched(d) ==
    d = NoConnection \/ /\ At(d, "stable", NoDescription, <<>>) /\ ~d.making
                        /\ d.local = NoDescription /\ d.pending = {} /\ d.added = {} /\ d.gathered
Begins(x, y, c, d, s, t) ==
    c = NoConnection /\ Untouched(d) /\ Silent(s, x) /\ Silent(t, y)
OfferOps(ops) ==
    \/ ops = <<[op |-> "createOffer"]>>
    \/ \E o : o # NoDescription /\ ops = <<[op |-> "setOffer", sdp |-> o]>>
Offers(x, y, c, d, s, t) ==
    /\ Untouched(d) /\ Silent(s, x) /\ Silent(t, y)
    /\ At(c, "stable", NoDescription, c.ops) /\ OfferOps(c.ops)
    /\ c.local = NoDescription /\ c.pending = {} /\ c.added = {} /\ c.gathered
Waits(c, ops) ==
    At(c, "have-local-offer", NoDescription, ops) /\ c.local # NoDescription /\ c.added = {}
Offered(x, y, c, d, s, t) ==
    /\ Untouched(d) /\ Silent(t, y)
    /\ Waits(c, <<>>) /\ c.pending = {}
    /\ Opens(s, x, "offer", c.local) /\ (c.gathered => Coming(s, x, c.local))
Accepts(x, y, c, d, s, t) ==
    /\ Silent(t, y)
    /\ Waits(c, <<>>) /\ c.pending = {}
    /\ At(d, "stable", NoDescription, <<[op |-> "acceptOffer", sdp |-> c.local]>>)
    /\ d.local = NoDescription /\ d.added = {} /\ d.gathered
    /\ Taken(s, x, c, d)
AnswerOps(ops) ==
    \/ ops = <<[op |-> "createAnswer", sdp |-> NoDescription]>>
    \/ \E a : a # NoDescription /\ ops = <<[op |-> "setAnswer", sdp |-> a]>>
Answers(x, y, c, d, s, t) ==
    /\ Silent(t, y)
    /\ Waits(c, <<>>) /\ c.pending = {}
    /\ At(d, "have-remote-offer", c.local, d.ops) /\ AnswerOps(d.ops)
    /\ d.local = NoDescription /\ d.pending = {} /\ d.gathered
    /\ Taken(s, x, c, d)
Gave(x, c, d, s) ==
    /\ At(d, "stable", c.local, <<>>) /\ d.local # NoDescription /\ d.pending = {}
    /\ Taken(s, x, c, d)
Answered(x, y, c, d, s, t) ==
    /\ Gave(x, c, d, s)
    /\ Waits(c, <<>>) /\ c.pending = {}
    /\ Opens(t, y, "answer", d.local) /\ (d.gathered => Coming(t, y, d.local))
Concludes(x, y, c, d, s, t) ==
    /\ Gave(x, c, d, s)
    /\ Waits(c, <<[op |-> "acceptAnswer", sdp |-> d.local]>>)
    /\ Taken(t, y, d, c)
Agreed(x, y, c, d, s, t) ==
    /\ Gave(x, c, d, s)
    /\ At(c, "stable", d.local, <<>>) /\ c.local # NoDescription /\ c.pending = {}
    /\ Taken(t, y, d, c)
Stage(x, y, c, d, s, t) ==
    \/ Begins(x, y, c, d, s, t)
    \/ Offers(x, y, c, d, s, t)
    \/ Offered(x, y, c, d, s, t)
    \/ Accepts(x, y, c, d, s, t)
    \/ Answers(x, y, c, d, s, t)
    \/ Answered(x, y, c, d, s, t)
    \/ Concludes(x, y, c, d, s, t)
    \/ Agreed(x, y, c, d, s, t)

Records == \A p \in Callers : \A q \in DOMAIN pc[p] : DOMAIN pc[p][q] = Fields

\* Nobody has heard of x.
Unheard(x) ==
    /\ \A y \in Callers : /\ Silent(wire[y], x) /\ \A i \in 1 .. Len(wire[y]) : ~ListWith(wire[y][i], x)
                          /\ Between(y, x) = NoConnection
    /\ \A i \in 1 .. Len(wire[x]) : IsList(wire[x][i])
Newcomers ==
    /\ joins \in [Callers -> Nat]
    /\ \A x \in Callers : joins[x] = 0 => x \notin serverCall /\ Unheard(x)

\* A list without x comes in s before all that is of x.
Stays(s, x, known) ==
    \A j \in 1 .. Len(s) :
        ListWithout(s[j], x) => ~known /\ \A i \in 1 .. j - 1 : ~SaidBy(s[i], x) /\ ~ListWith(s[i], x)
Present ==
    \A x \in serverCall : \A y \in Callers \ {x} :
        {x, y} \notin overlap => Stays(wire[y], x, Between(y, x) # NoConnection)

InStages ==
    \A x, y \in serverCall :
        x > y /\ {x, y} \notin overlap =>
            Stage(x, y, Between(x, y), Between(y, x), wire[y], wire[x])
NegInv == Records /\ Newcomers /\ Present /\ InStages

-----------------------------------------------------------------------------
(* What is said on its way, when something is sent or read.                *)

\* All that is known of what x said in s holds in t.
Same(s, t, x) ==
    /\ Silent(s, x) => Silent(t, x)
    /\ \A type \in Openings : \A o : Opens(s, x, type, o) => Opens(t, x, type, o)
    /\ \A o : Trickles(s, x, o) => Trickles(t, x, o)
    /\ \A o : Coming(s, x, o) => Coming(t, x, o)

\* What somebody else says changes nothing of what x said.
LEMMA OthersSay ==
    ASSUME NEW s, IsSequence(s), NEW x, NEW m, ~SaidBy(m, x)
    PROVE  Same(s, Append(s, m), x)
<1> DEFINE t == Append(s, m)
<1>1. /\ Len(t) = Len(s) + 1 /\ Len(s) \in Nat /\ t[Len(s) + 1] = m
      /\ \A i \in 1 .. Len(s) : t[i] = s[i]
  BY AppendedTo
<1> HIDE DEF t
<1>2. \A j \in 1 .. Len(t) : SaidBy(t[j], x) => j \in 1 .. Len(s) /\ t[j] = s[j]
  BY <1>1
<1>3. \A j \in 1 .. Len(s) : j \in 1 .. Len(t) /\ t[j] = s[j]
  BY <1>1
<1>4. Silent(s, x) => Silent(t, x)
  BY <1>2 DEF Silent
<1>5. ASSUME NEW type \in Openings, NEW o, Opens(s, x, type, o) PROVE Opens(t, x, type, o)
  BY <1>2, <1>3, <1>5 DEF Opens
<1>6. ASSUME NEW o, Trickles(s, x, o) PROVE Trickles(t, x, o)
  BY <1>2, <1>6 DEF Trickles
<1>7. ASSUME NEW o, Coming(s, x, o) PROVE Coming(t, x, o)
  BY <1>3, <1>7 DEF Coming
<1>8. QED
  BY <1>4, <1>5, <1>6, <1>7 DEF Same, t

\* Nor does reading what somebody else said.
LEMMA OthersRead ==
    ASSUME NEW s, IsSequence(s), s # <<>>, NEW x, ~SaidBy(Head(s), x)
    PROVE  Same(s, Tail(s), x)
<1> DEFINE t == Tail(s)
<1>1. /\ Len(t) = Len(s) - 1 /\ Len(s) \in Nat \ {0} /\ Head(s) = s[1]
      /\ \A i \in 1 .. Len(t) : t[i] = s[i + 1]
  BY TailOf
<1> HIDE DEF t
<1>2. \A j \in 1 .. Len(t) : j + 1 \in 1 .. Len(s) /\ t[j] = s[j + 1]
  BY <1>1
<1>3. ASSUME NEW i \in 1 .. Len(s), SaidBy(s[i], x)
      PROVE  i - 1 \in 1 .. Len(t) /\ t[i - 1] = s[i]
  <2>1. i # 1
    BY <1>1, <1>3
  <2>2. i - 1 \in 1 .. Len(t) /\ (i - 1) + 1 = i
    BY <1>1, <2>1
  <2>3. QED
    BY <1>2, <2>2
<1>4. Silent(s, x) => Silent(t, x)
  BY <1>2 DEF Silent
<1>5. ASSUME NEW type \in Openings, NEW o, Opens(s, x, type, o) PROVE Opens(t, x, type, o)
  <2>1. PICK i \in 1 .. Len(s) :
            /\ s[i] = Signal(type, x, o)
            /\ \A j \in 1 .. Len(s) :
                    SaidBy(s[j], x) /\ j # i => i < j /\ s[j] = Candidate(x, o)
    BY <1>5 DEF Opens
  <2>2. SaidBy(s[i], x)
    BY <2>1 DEF SaidBy, IsList, Signal, Openings
  <2>3. QED
    <3>1. i - 1 \in 1 .. Len(t) /\ t[i - 1] = Signal(type, x, o)
      BY <1>3, <2>1, <2>2
    <3>2. ASSUME NEW j \in 1 .. Len(t), SaidBy(t[j], x), j # i - 1
          PROVE  i - 1 < j /\ t[j] = Candidate(x, o)
      <4>1. j + 1 \in 1 .. Len(s) /\ t[j] = s[j + 1] /\ j + 1 # i
        BY <1>1, <1>2, <3>2
      <4>2. i < j + 1 /\ s[j + 1] = Candidate(x, o)
        BY <2>1, <3>2, <4>1
      <4>3. QED
        BY <1>1, <4>1, <4>2
    <3>3. QED
      BY <3>1, <3>2 DEF Opens
<1>6. ASSUME NEW o, Trickles(s, x, o) PROVE Trickles(t, x, o)
  BY <1>2, <1>6 DEF Trickles
<1>7. ASSUME NEW o, Coming(s, x, o) PROVE Coming(t, x, o)
  <2>1. PICK i \in 1 .. Len(s) : s[i] = Candidate(x, o)
    BY <1>7 DEF Coming
  <2>2. SaidBy(s[i], x)
    BY <2>1 DEF SaidBy, IsList, Candidate, Signal
  <2>3. QED
    BY <1>3, <2>1, <2>2 DEF Coming
<1>8. QED
  BY <1>4, <1>5, <1>6, <1>7 DEF Same, t

\* The first of what x says.
LEMMA OpeningSent ==
    ASSUME NEW s, IsSequence(s), NEW x, NEW type \in Openings, NEW o, Silent(s, x)
    PROVE  Opens(Append(s, Signal(type, x, o)), x, type, o)
<1> DEFINE m == Signal(type, x, o)
           t == Append(s, m)
<1>1. /\ Len(t) = Len(s) + 1 /\ Len(s) \in Nat /\ t[Len(s) + 1] = m
      /\ \A i \in 1 .. Len(s) : t[i] = s[i]
  BY AppendedTo
<1> HIDE DEF t
<1>2. \A j \in 1 .. Len(t) : SaidBy(t[j], x) => j = Len(s) + 1
  BY <1>1 DEF Silent
<1>3. QED
  BY <1>1, <1>2 DEF Opens, t

\* A candidate after what it belongs to.
LEMMA CandidateSent ==
    ASSUME NEW s, IsSequence(s), NEW x, NEW o
    PROVE  LET t == Append(s, Candidate(x, o)) IN
           /\ \A type \in Openings : Opens(s, x, type, o) => Opens(t, x, type, o)
           /\ Trickles(s, x, o) => Trickles(t, x, o)
           /\ Coming(t, x, o)
<1> DEFINE m == Candidate(x, o)
           t == Append(s, m)
<1>1. /\ Len(t) = Len(s) + 1 /\ Len(s) \in Nat /\ t[Len(s) + 1] = m
      /\ \A i \in 1 .. Len(s) : t[i] = s[i]
  BY AppendedTo
<1> HIDE DEF t, m
<1>2. \A j \in 1 .. Len(t) : (j \in 1 .. Len(s) /\ t[j] = s[j]) \/ (j = Len(s) + 1 /\ t[j] = m)
  BY <1>1
<1>3. \A j \in 1 .. Len(s) : j \in 1 .. Len(t) /\ t[j] = s[j] /\ j < Len(s) + 1
  BY <1>1
<1>4. ASSUME NEW type \in Openings, Opens(s, x, type, o) PROVE Opens(t, x, type, o)
  BY <1>2, <1>3, <1>4 DEF Opens, m
<1>5. ASSUME Trickles(s, x, o) PROVE Trickles(t, x, o)
  BY <1>2, <1>5 DEF Trickles, m
<1>6. Coming(t, x, o)
  BY <1>1 DEF Coming, m
<1>7. QED
  BY <1>4, <1>5, <1>6 DEF t, m

\* What is read after nothing, after an opening, and after candidates.
LEMMA FirstSaid ==
    ASSUME NEW s, IsSequence(s), s # <<>>, NEW x, SaidBy(Head(s), x)
    PROVE  /\ ~Silent(s, x)
           /\ \A type \in Openings : \A o : Opens(s, x, type, o) =>
                    /\ Head(s) = Signal(type, x, o) /\ Trickles(Tail(s), x, o)
                    /\ Coming(s, x, o) => Coming(Tail(s), x, o)
           /\ \A o : Trickles(s, x, o) =>
                    Head(s) = Candidate(x, o) /\ Trickles(Tail(s), x, o)
<1> DEFINE t == Tail(s)
<1>1. /\ Len(t) = Len(s) - 1 /\ Len(s) \in Nat \ {0} /\ Head(s) = s[1]
      /\ \A i \in 1 .. Len(t) : t[i] = s[i + 1]
  BY TailOf
<1> HIDE DEF t
<1>2. \A j \in 1 .. Len(t) : j + 1 \in 1 .. Len(s) /\ t[j] = s[j + 1] /\ j + 1 # 1
  BY <1>1
<1>3. 1 \in 1 .. Len(s) /\ SaidBy(s[1], x)
  BY <1>1
<1>4. ~Silent(s, x)
  BY <1>3 DEF Silent
<1>5. ASSUME NEW type \in Openings, NEW o, Opens(s, x, type, o)
      PROVE  /\ Head(s) = Signal(type, x, o) /\ Trickles(t, x, o)
             /\ Coming(s, x, o) => Coming(t, x, o)
  <2>1. PICK i \in 1 .. Len(s) :
            /\ s[i] = Signal(type, x, o)
            /\ \A j \in 1 .. Len(s) :
                    SaidBy(s[j], x) /\ j # i => i < j /\ s[j] = Candidate(x, o)
    BY <1>5 DEF Opens
  <2>2. i = 1
    <3>1. ~(i < 1)
      BY <1>1
    <3>2. QED
      BY <1>3, <2>1, <3>1
  <2>3. Trickles(t, x, o)
    BY <1>2, <2>1, <2>2 DEF Trickles
  <2>4. ASSUME Coming(s, x, o) PROVE Coming(t, x, o)
    <3>1. PICK j \in 1 .. Len(s) : s[j] = Candidate(x, o)
      BY <2>4 DEF Coming
    <3>2. j # 1
      <4>1. Candidate(x, o).type = "ice-candidate" /\ Signal(type, x, o).type = type
             /\ type # "ice-candidate"
        BY DEF Candidate, Signal, Openings
      <4>2. QED
        BY <2>1, <2>2, <3>1, <4>1
    <3>3. j - 1 \in 1 .. Len(t) /\ (j - 1) + 1 = j
      BY <1>1, <3>2
    <3>4. QED
      BY <1>2, <3>1, <3>3 DEF Coming
  <2>5. QED
    BY <1>1, <2>1, <2>2, <2>3, <2>4
<1>6. ASSUME NEW o, Trickles(s, x, o)
      PROVE  Head(s) = Candidate(x, o) /\ Trickles(t, x, o)
  BY <1>1, <1>2, <1>3, <1>6 DEF Trickles
<1>7. QED
  BY <1>4, <1>5, <1>6 DEF t

-----------------------------------------------------------------------------
(* What the methods make of a connection.                                  *)

\* b is c but for some fields.
Alike(b, c, but) == DOMAIN b = Fields /\ \A f \in Fields \ but : b[f] = c[f]

\* The promise at the head has settled.
LEMMA DoneIs ==
    ASSUME NEW c, DOMAIN c = Fields
    PROVE  Alike(Done(c), c, {"ops"}) /\ Done(c).ops = Tail(c.ops)
  BY DEF Done, Fields, Alike

\* A method of an idle connection called.
LEMMA QueueIs ==
    ASSUME NEW c, DOMAIN c = Fields, c.ops = <<>>, NEW op, NEW o
    PROVE  /\ Alike(Queue(c, op, o), c, {"ops"})
           /\ Queue(c, op, o).ops = <<[op |-> op, sdp |-> o]>>
<1> DEFINE e == [op |-> op, sdp |-> o]
<1>1. Append(<<>>, e) = <<e>>
  OBVIOUS
<1> HIDE DEF e
<1>2. QED
  BY <1>1 DEF Queue, Fields, Alike, e

\* flushPendingCandidates: what was buffered is added.
LEMMA FlushedIs ==
    ASSUME NEW c, DOMAIN c = Fields
    PROVE  /\ Alike(Flushed(c), c, {"pending", "added"})
           /\ Flushed(c).pending = {} /\ Flushed(c).added = c.added \cup c.pending
  BY DEF Flushed, Fields, Alike

\* A candidate is buffered or added.
LEMMA TakenIs ==
    ASSUME NEW c, DOMAIN c = Fields, NEW o
    PROVE  LET b == CandidateTaken(c, o) IN
           /\ Alike(b, c, {"pending", "added"})
           /\ b.pending = IF c.remote = NoDescription THEN c.pending \cup {o} ELSE c.pending
           /\ b.added = IF c.remote = NoDescription THEN c.added ELSE c.added \cup {o}
  BY DEF CandidateTaken, Fields, Alike

\* A new connection.
LEMMA NewIs ==
    ASSUME NEW p, NEW q
    PROVE  LET n == NewConnection(p, q) IN
           /\ At(n, "stable", NoDescription, <<>>) /\ ~n.making
           /\ n.local = NoDescription /\ n.pending = {} /\ n.added = {} /\ n.gathered
  BY DEF NewConnection, At, Fields

\* A new connection of the one who offers.
LEMMA OfferingIs ==
    ASSUME NEW c, DOMAIN c = Fields
    PROVE  Alike(Offering(c), c, {"making", "ops"}) /\ Offering(c).ops = <<[op |-> "createOffer"]>>
  BY DEF Offering, Fields, Alike

\* The candidate of the description is there.
LEMMA GatheredIs ==
    ASSUME NEW c, DOMAIN c = Fields
    PROVE  LET b == [c EXCEPT !.gathered = TRUE] IN Alike(b, c, {"gathered"}) /\ b.gathered
  BY DEF Fields, Alike

\* A list of one operation.
LEMMA OneOp ==
    ASSUME NEW e
    PROVE  <<e>> # <<>> /\ Head(<<e>>) = e /\ Tail(<<e>>) = <<>>
  OBVIOUS

\* No connection is none.
LEMMA NoFields == DOMAIN NoConnection # Fields
<1>1. DOMAIN <<>> = {}
  OBVIOUS
<1>2. QED
  BY <1>1 DEF NoConnection, Fields

-----------------------------------------------------------------------------
(* From one stage of a negotiation to the next.                            *)

\* What others say to the two changes nothing between them.
LEMMA StageKept ==
    ASSUME NEW x, NEW y, NEW c, NEW d, NEW s, NEW t, NEW u, NEW v,
           Stage(x, y, c, d, s, t), Same(s, u, x), Same(t, v, y)
    PROVE  Stage(x, y, c, d, u, v)
<1>1. \A o : (c.gathered => Coming(s, x, o)) => (c.gathered => Coming(u, x, o))
  BY DEF Same
<1>2. Taken(s, x, c, d) => Taken(u, x, c, d)
  BY DEF Taken, Same
<1>3. Taken(t, y, d, c) => Taken(v, y, d, c)
  BY DEF Taken, Same
<1>4. Silent(s, x) => Silent(u, x)
  BY DEF Same
<1>5. Silent(t, y) => Silent(v, y)
  BY DEF Same
<1>6. Opens(s, x, "offer", c.local) => Opens(u, x, "offer", c.local)
  BY DEF Same, Openings
<1>7. Opens(t, y, "answer", d.local) => Opens(v, y, "answer", d.local)
  BY DEF Same, Openings
<1>8. (d.gathered => Coming(t, y, d.local)) => (d.gathered => Coming(v, y, d.local))
  BY DEF Same
<1>9. CASE Begins(x, y, c, d, s, t)
  BY <1>4, <1>5, <1>9 DEF Begins, Stage
<1>10. CASE Offers(x, y, c, d, s, t)
  BY <1>4, <1>5, <1>10 DEF Offers, Stage
<1>11. CASE Offered(x, y, c, d, s, t)
  BY <1>1, <1>5, <1>6, <1>11 DEF Offered, Stage
<1>12. CASE Accepts(x, y, c, d, s, t)
  BY <1>2, <1>5, <1>12 DEF Accepts, Stage
<1>13. CASE Answers(x, y, c, d, s, t)
  BY <1>2, <1>5, <1>13 DEF Answers, Stage
<1>14. CASE Answered(x, y, c, d, s, t)
  BY <1>2, <1>7, <1>8, <1>14 DEF Answered, Gave, Stage
<1>15. CASE Concludes(x, y, c, d, s, t)
  BY <1>2, <1>3, <1>15 DEF Concludes, Gave, Stage
<1>16. CASE Agreed(x, y, c, d, s, t)
  BY <1>2, <1>3, <1>16 DEF Agreed, Gave, Stage
<1>17. QED
  BY <1>9, <1>10, <1>11, <1>12, <1>13, <1>14, <1>15, <1>16 DEF Stage

\* createOffer settles: setLocalDescription is next.
LEMMA OfferCreated ==
    ASSUME NEW x, NEW y, NEW c, NEW d, NEW s, NEW t, Offers(x, y, c, d, s, t),
           Head(c.ops).op = "createOffer", NEW o, o # NoDescription
    PROVE  Offers(x, y, Queue(Done(c), "setOffer", o), d, s, t)
<1> DEFINE b == Done(c)
           e == Queue(b, "setOffer", o)
<1>1. DOMAIN c = Fields
  BY DEF Offers, At
<1>2. c.ops = <<[op |-> "createOffer"]>>
  <2>1. ASSUME NEW p, c.ops = <<[op |-> "setOffer", sdp |-> p]>> PROVE FALSE
    BY <2>1, OneOp
  <2>2. QED
    BY <2>1 DEF Offers, OfferOps
<1>3. Alike(b, c, {"ops"}) /\ b.ops = <<>>
  BY <1>1, <1>2, DoneIs, OneOp
<1> HIDE DEF b
<1>4. Alike(e, b, {"ops"}) /\ e.ops = <<[op |-> "setOffer", sdp |-> o]>>
  <2>1. DOMAIN b = Fields
    BY <1>3 DEF Alike
  <2>2. QED
    BY <1>3, <2>1, QueueIs
<1> HIDE DEF e
<1>5. At(e, "stable", NoDescription, e.ops) /\ e.local = NoDescription /\ e.pending = {} /\ e.added = {}
      /\ e.gathered = c.gathered
  BY <1>3, <1>4 DEF Offers, At, Alike, Fields
<1>6. OfferOps(e.ops)
  BY <1>4 DEF OfferOps
<1>7. QED
  BY <1>5, <1>6 DEF Offers, e, b

\* The offerer's setLocalDescription settles: the offer is sent.
LEMMA OfferSet ==
    ASSUME NEW x, NEW y, NEW c, NEW d, NEW s, NEW t, IsSequence(s), Offers(x, y, c, d, s, t),
           Head(c.ops).op = "setOffer"
    PROVE  LET o == Head(c.ops).sdp
               e == [Done(c) EXCEPT !.sig = "have-local-offer", !.local = o,
                                    !.making = FALSE, !.gathered = FALSE]
           IN  Offered(x, y, e, d, Append(s, Signal("offer", x, o)), t)
<1> DEFINE o == Head(c.ops).sdp
           e == [Done(c) EXCEPT !.sig = "have-local-offer", !.local = o, !.making = FALSE, !.gathered = FALSE]
<1>1. DOMAIN c = Fields
  BY DEF Offers, At
<1>2. PICK p : p # NoDescription /\ c.ops = <<[op |-> "setOffer", sdp |-> p]>>
  <2>1. c.ops # <<[op |-> "createOffer"]>>
    BY OneOp
  <2>2. QED
    BY <2>1 DEF Offers, OfferOps
<1>3. o = p /\ Tail(c.ops) = <<>>
  BY <1>2, OneOp
<1> HIDE DEF o
<1>4. /\ Alike(e, c, {"ops", "sig", "local", "making", "gathered"})
      /\ e.ops = <<>> /\ e.sig = "have-local-offer" /\ e.local = o /\ ~e.gathered
  <2>1. /\ Alike(e, c, {"ops", "sig", "local", "making", "gathered"})
        /\ e.ops = Tail(c.ops) /\ e.sig = "have-local-offer" /\ e.local = o /\ ~e.gathered
    BY <1>1, DoneIs DEF Fields, Alike
  <2>2. QED
    BY <1>3, <2>1
<1> HIDE DEF e
<1>5. Waits(e, <<>>) /\ e.pending = {}
  BY <1>2, <1>3, <1>4 DEF Offers, Waits, At, Alike, Fields
<1>6. Opens(Append(s, Signal("offer", x, o)), x, "offer", o)
  BY OpeningSent DEF Offers, Openings
<1>7. QED
  BY <1>4, <1>5, <1>6 DEF Offers, Offered, e, o

\* setRemoteDescription settles: what was buffered is added, and createAnswer is next.
LEMMA OfferAccepted ==
    ASSUME NEW x, NEW y, NEW c, NEW d, NEW s, NEW t, Accepts(x, y, c, d, s, t)
    PROVE  LET offered == [Done(d) EXCEPT !.sig = "have-remote-offer", !.remote = Head(d.ops).sdp] IN
           Answers(x, y, c, Queue(Flushed(offered), "createAnswer", NoDescription), s, t)
<1> DEFINE o == Head(d.ops).sdp
           f == [Done(d) EXCEPT !.sig = "have-remote-offer", !.remote = o]
           g == Flushed(f)
           e == Queue(g, "createAnswer", NoDescription)
<1>1. DOMAIN d = Fields
  BY DEF Accepts, At
<1>2. o = c.local /\ Tail(d.ops) = <<>>
  BY OneOp DEF Accepts, At
<1> HIDE DEF o
<1>3. Alike(f, d, {"ops", "sig", "remote"}) /\ f.ops = <<>> /\ f.sig = "have-remote-offer" /\ f.remote = o
  <2>1. /\ Alike(f, d, {"ops", "sig", "remote"})
        /\ f.ops = Tail(d.ops) /\ f.sig = "have-remote-offer" /\ f.remote = o
    BY <1>1, DoneIs DEF Fields, Alike
  <2>2. QED
    BY <1>2, <2>1
<1> HIDE DEF f
<1>4. /\ Alike(g, f, {"pending", "added"})
      /\ g.pending = {} /\ g.added = f.added \cup f.pending
  <2>1. DOMAIN f = Fields
    BY <1>3 DEF Alike
  <2>2. QED
    BY <2>1, FlushedIs
<1> HIDE DEF g
<1>5. g.ops = <<>> /\ DOMAIN g = Fields
  BY <1>3, <1>4 DEF Alike, Fields
<1>6. /\ Alike(e, g, {"ops"})
      /\ e.ops = <<[op |-> "createAnswer", sdp |-> NoDescription]>>
  BY <1>5, QueueIs
<1> HIDE DEF e
<1>7. /\ At(e, "have-remote-offer", c.local, e.ops) /\ e.local = NoDescription /\ e.pending = {}
      /\ e.gathered = d.gathered
  BY <1>2, <1>3, <1>4, <1>6 DEF At, Alike, Fields, Accepts
<1>8. e.added = d.pending \cup d.added
  BY <1>3, <1>4, <1>6 DEF At, Alike, Fields
<1>9. Taken(s, x, c, e)
  BY <1>7, <1>8 DEF Accepts, Taken
<1>10. AnswerOps(e.ops)
  BY <1>6 DEF AnswerOps
<1>11. QED
  BY <1>7, <1>9, <1>10 DEF Accepts, Answers, e, g, f, o

\* createAnswer settles: setLocalDescription is next.
LEMMA AnswerCreated ==
    ASSUME NEW x, NEW y, NEW c, NEW d, NEW s, NEW t, Answers(x, y, c, d, s, t),
           Head(d.ops).op = "createAnswer", NEW a, a # NoDescription
    PROVE  Answers(x, y, c, Queue(Done(d), "setAnswer", a), s, t)
<1> DEFINE b == Done(d)
           e == Queue(b, "setAnswer", a)
<1>1. DOMAIN d = Fields
  BY DEF Answers, At
<1>2. Tail(d.ops) = <<>>
  BY OneOp DEF Answers, AnswerOps
<1>3. Alike(b, d, {"ops"}) /\ b.ops = <<>>
  BY <1>1, <1>2, DoneIs
<1> HIDE DEF b
<1>4. Alike(e, b, {"ops"}) /\ e.ops = <<[op |-> "setAnswer", sdp |-> a]>>
  <2>1. DOMAIN b = Fields
    BY <1>3 DEF Alike
  <2>2. QED
    BY <1>3, <2>1, QueueIs
<1> HIDE DEF e
<1>5. /\ At(e, "have-remote-offer", c.local, e.ops) /\ e.local = NoDescription /\ e.pending = {}
      /\ e.added = d.added /\ e.gathered = d.gathered
  BY <1>3, <1>4 DEF Answers, At, Alike, Fields
<1>6. AnswerOps(e.ops)
  BY <1>4 DEF AnswerOps
<1>7. Taken(s, x, c, e)
  BY <1>5 DEF Answers, Taken
<1>8. QED
  BY <1>5, <1>6, <1>7 DEF Answers, e, b

\* The answerer's setLocalDescription settles: the answer is sent.
LEMMA AnswerSet ==
    ASSUME NEW x, NEW y, NEW c, NEW d, NEW s, NEW t, IsSequence(t), Answers(x, y, c, d, s, t),
           Head(d.ops).op = "setAnswer"
    PROVE  LET a == Head(d.ops).sdp
               e == [Done(d) EXCEPT !.sig = "stable", !.local = a, !.gathered = FALSE]
           IN  Answered(x, y, c, e, s, Append(t, Signal("answer", y, a)))
<1> DEFINE a == Head(d.ops).sdp
           e == [Done(d) EXCEPT !.sig = "stable", !.local = a, !.gathered = FALSE]
<1>1. DOMAIN d = Fields
  BY DEF Answers, At
<1>2. PICK p : p # NoDescription /\ d.ops = <<[op |-> "setAnswer", sdp |-> p]>>
  <2>1. d.ops # <<[op |-> "createAnswer", sdp |-> NoDescription]>>
    BY OneOp
  <2>2. QED
    BY <2>1 DEF Answers, AnswerOps
<1>3. a = p /\ Tail(d.ops) = <<>>
  BY <1>2, OneOp
<1> HIDE DEF a
<1>4. /\ Alike(e, d, {"ops", "sig", "local", "gathered"})
      /\ e.ops = <<>> /\ e.sig = "stable" /\ e.local = a /\ ~e.gathered
  <2>1. /\ Alike(e, d, {"ops", "sig", "local", "gathered"})
        /\ e.ops = Tail(d.ops) /\ e.sig = "stable" /\ e.local = a /\ ~e.gathered
    BY <1>1, DoneIs DEF Fields, Alike
  <2>2. QED
    BY <1>3, <2>1
<1> HIDE DEF e
<1>5. /\ At(e, "stable", c.local, <<>>) /\ e.local # NoDescription /\ e.pending = {}
      /\ e.added = d.added
  BY <1>2, <1>3, <1>4 DEF Answers, At, Alike, Fields
<1>6. Gave(x, c, e, s)
  BY <1>5 DEF Answers, Taken, Gave
<1>7. Opens(Append(t, Signal("answer", y, a)), y, "answer", a)
  BY OpeningSent DEF Answers, Openings
<1>8. QED
  BY <1>4, <1>6, <1>7 DEF Answers, Answered, e, a

\* The offerer's setRemoteDescription settles: the two agree.
LEMMA AnswerAccepted ==
    ASSUME NEW x, NEW y, NEW c, NEW d, NEW s, NEW t, Concludes(x, y, c, d, s, t)
    PROVE  LET answered == [Done(c) EXCEPT !.sig = "stable", !.remote = Head(c.ops).sdp] IN
           Agreed(x, y, Flushed(answered), d, s, t)
<1> DEFINE a == Head(c.ops).sdp
           f == [Done(c) EXCEPT !.sig = "stable", !.remote = a]
           e == Flushed(f)
<1>1. DOMAIN c = Fields
  BY DEF Concludes, Waits, At
<1>2. a = d.local /\ Tail(c.ops) = <<>>
  BY OneOp DEF Concludes, Waits, At
<1> HIDE DEF a
<1>3. Alike(f, c, {"ops", "sig", "remote"}) /\ f.ops = <<>> /\ f.sig = "stable" /\ f.remote = a
  <2>1. /\ Alike(f, c, {"ops", "sig", "remote"})
        /\ f.ops = Tail(c.ops) /\ f.sig = "stable" /\ f.remote = a
    BY <1>1, DoneIs DEF Fields, Alike
  <2>2. QED
    BY <1>2, <2>1
<1> HIDE DEF f
<1>4. /\ Alike(e, f, {"pending", "added"})
      /\ e.pending = {} /\ e.added = f.added \cup f.pending
  <2>1. DOMAIN f = Fields
    BY <1>3 DEF Alike
  <2>2. QED
    BY <2>1, FlushedIs
<1> HIDE DEF e
<1>5. /\ At(e, "stable", d.local, <<>>) /\ e.local = c.local /\ e.pending = {}
      /\ e.gathered = c.gathered /\ e.added = c.added \cup c.pending
  BY <1>2, <1>3, <1>4 DEF At, Alike, Fields
<1>6. Gave(x, e, d, s)
  BY <1>5 DEF Concludes, Gave, Taken
<1>7. Taken(t, y, d, e)
  BY <1>5 DEF Concludes, Taken
<1>8. QED
  BY <1>5, <1>6, <1>7 DEF Agreed, Concludes, Waits, e, f, a

-----------------------------------------------------------------------------
(* Candidates.                                                             *)

\* onicecandidate, on either side.
LEMMA OffererGathers ==
    ASSUME NEW x, NEW y, NEW c, NEW d, NEW s, NEW t, IsSequence(s), Stage(x, y, c, d, s, t),
           DOMAIN c = Fields, ~c.gathered
    PROVE  Stage(x, y, [c EXCEPT !.gathered = TRUE], d, Append(s, Candidate(x, c.local)), t)
<1> DEFINE e == [c EXCEPT !.gathered = TRUE]
           u == Append(s, Candidate(x, c.local))
<1>1. Alike(e, c, {"gathered"}) /\ e.gathered
  BY GatheredIs
<1> HIDE DEF e
<1>2. /\ Opens(s, x, "offer", c.local) => Opens(u, x, "offer", c.local)
      /\ Trickles(s, x, c.local) => Trickles(u, x, c.local)
      /\ Coming(u, x, c.local)
  BY CandidateSent DEF Openings
<1> HIDE DEF u
<1>3. /\ DOMAIN e = Fields /\ e.sig = c.sig /\ e.local = c.local /\ e.remote = c.remote /\ e.ops = c.ops
      /\ e.pending = c.pending /\ e.added = c.added
  BY <1>1 DEF Alike, Fields
<1>4. Taken(s, x, c, d) => Taken(u, x, e, d)
  BY <1>2, <1>3 DEF Taken
<1>5. Taken(t, y, d, c) => Taken(t, y, d, e)
  BY <1>3 DEF Taken
<1>6. Gave(x, c, d, s) => Gave(x, e, d, u)
  BY <1>3, <1>4 DEF Gave
<1>7. \A ops : Waits(c, ops) => Waits(e, ops)
  BY <1>3 DEF Waits, At
<1>8. CASE Offered(x, y, c, d, s, t)
  BY <1>2, <1>3, <1>7, <1>8 DEF Offered, Stage, u, e
<1>9. CASE Accepts(x, y, c, d, s, t)
  BY <1>3, <1>4, <1>7, <1>9 DEF Accepts, Stage, u, e
<1>10. CASE Answers(x, y, c, d, s, t)
  BY <1>3, <1>4, <1>7, <1>10 DEF Answers, Stage, u, e
<1>11. CASE Answered(x, y, c, d, s, t)
  BY <1>3, <1>6, <1>7, <1>11 DEF Answered, Stage, u, e
<1>12. CASE Concludes(x, y, c, d, s, t)
  BY <1>3, <1>5, <1>6, <1>7, <1>12 DEF Concludes, Stage, u, e
<1>13. CASE Agreed(x, y, c, d, s, t)
  BY <1>3, <1>5, <1>6, <1>13 DEF Agreed, At, Stage, u, e
<1>14. ~Begins(x, y, c, d, s, t)
  BY NoFields DEF Begins
<1>15. ~Offers(x, y, c, d, s, t)
  BY DEF Offers
<1>16. QED
  BY <1>8, <1>9, <1>10, <1>11, <1>12, <1>13, <1>14, <1>15 DEF Stage

LEMMA AnswererGathers ==
    ASSUME NEW x, NEW y, NEW c, NEW d, NEW s, NEW t, IsSequence(t), Stage(x, y, c, d, s, t),
           DOMAIN d = Fields, ~d.gathered
    PROVE  Stage(x, y, c, [d EXCEPT !.gathered = TRUE], s, Append(t, Candidate(y, d.local)))
<1> DEFINE e == [d EXCEPT !.gathered = TRUE]
           u == Append(t, Candidate(y, d.local))
<1>1. Alike(e, d, {"gathered"}) /\ e.gathered
  BY GatheredIs
<1> HIDE DEF e
<1>2. /\ Opens(t, y, "answer", d.local) => Opens(u, y, "answer", d.local)
      /\ Trickles(t, y, d.local) => Trickles(u, y, d.local)
      /\ Coming(u, y, d.local)
  BY CandidateSent DEF Openings
<1> HIDE DEF u
<1>3. /\ DOMAIN e = Fields /\ e.sig = d.sig /\ e.local = d.local /\ e.remote = d.remote /\ e.ops = d.ops
      /\ e.pending = d.pending /\ e.added = d.added
  BY <1>1 DEF Alike, Fields
<1>4. Taken(t, y, d, c) => Taken(u, y, e, c)
  BY <1>2, <1>3 DEF Taken
<1>5. Gave(x, c, d, s) => Gave(x, c, e, s)
  BY <1>3 DEF Gave, Taken, At
<1>6. CASE Answered(x, y, c, d, s, t)
  BY <1>2, <1>3, <1>5, <1>6 DEF Answered, Stage, u, e
<1>7. CASE Concludes(x, y, c, d, s, t)
  BY <1>3, <1>4, <1>5, <1>7 DEF Concludes, Stage, u, e
<1>8. CASE Agreed(x, y, c, d, s, t)
  BY <1>3, <1>4, <1>5, <1>8 DEF Agreed, Stage, u, e
<1>9. ~Untouched(d)
  BY NoFields DEF Untouched
<1>10. QED
  BY <1>6, <1>7, <1>8, <1>9 DEF Stage, Begins, Offers, Offered, Accepts, Answers

-----------------------------------------------------------------------------
(* What the two read of each other.                                        *)

\* What the answerer can hear of the offerer next: the offer, or the offer's candidate.
LEMMA HeardOfOfferer ==
    ASSUME NEW x, NEW y, NEW c, NEW d, NEW s, NEW t, IsSequence(s), s # <<>>,
           Stage(x, y, c, d, s, t), SaidBy(Head(s), x)
    PROVE  \/ /\ Offered(x, y, c, d, s, t) /\ Head(s) = Signal("offer", x, c.local)
              /\ Trickles(Tail(s), x, c.local) /\ (c.gathered => Coming(Tail(s), x, c.local))
           \/ /\ \/ Accepts(x, y, c, d, s, t) \/ Answers(x, y, c, d, s, t) \/ Answered(x, y, c, d, s, t)
                 \/ Concludes(x, y, c, d, s, t) \/ Agreed(x, y, c, d, s, t)
              /\ Head(s) = Candidate(x, c.local) /\ Trickles(Tail(s), x, c.local)
<1>1. /\ ~Silent(s, x)
      /\ Opens(s, x, "offer", c.local) =>
            /\ Head(s) = Signal("offer", x, c.local) /\ Trickles(Tail(s), x, c.local)
            /\ Coming(s, x, c.local) => Coming(Tail(s), x, c.local)
      /\ Trickles(s, x, c.local) => Head(s) = Candidate(x, c.local) /\ Trickles(Tail(s), x, c.local)
  BY FirstSaid DEF Openings
<1>2. ~Begins(x, y, c, d, s, t) /\ ~Offers(x, y, c, d, s, t)
  BY <1>1 DEF Begins, Offers
<1>3. CASE Offered(x, y, c, d, s, t)
  BY <1>1, <1>3 DEF Offered
<1>4. CASE \/ Accepts(x, y, c, d, s, t) \/ Answers(x, y, c, d, s, t) \/ Answered(x, y, c, d, s, t)
           \/ Concludes(x, y, c, d, s, t) \/ Agreed(x, y, c, d, s, t)
  <2>1. Taken(s, x, c, d)
    BY <1>4 DEF Accepts, Answers, Answered, Concludes, Agreed, Gave
  <2>2. QED
    BY <1>1, <1>4, <2>1 DEF Taken
<1>5. QED
  BY <1>2, <1>3, <1>4 DEF Stage

\* What the offerer can hear of the answerer next: the answer, or the answer's candidate.
LEMMA HeardOfAnswerer ==
    ASSUME NEW x, NEW y, NEW c, NEW d, NEW s, NEW t, IsSequence(t), t # <<>>,
           Stage(x, y, c, d, s, t), SaidBy(Head(t), y)
    PROVE  \/ /\ Answered(x, y, c, d, s, t) /\ Head(t) = Signal("answer", y, d.local)
              /\ Taken(Tail(t), y, d, c)
           \/ /\ Concludes(x, y, c, d, s, t) \/ Agreed(x, y, c, d, s, t)
              /\ Head(t) = Candidate(y, d.local) /\ Trickles(Tail(t), y, d.local)
<1>1. /\ ~Silent(t, y)
      /\ Opens(t, y, "answer", d.local) =>
            /\ Head(t) = Signal("answer", y, d.local) /\ Trickles(Tail(t), y, d.local)
            /\ Coming(t, y, d.local) => Coming(Tail(t), y, d.local)
      /\ Trickles(t, y, d.local) => Head(t) = Candidate(y, d.local) /\ Trickles(Tail(t), y, d.local)
  BY FirstSaid DEF Openings
<1>2. CASE Answered(x, y, c, d, s, t)
  BY <1>1, <1>2 DEF Answered, Waits, Taken
<1>3. CASE Concludes(x, y, c, d, s, t) \/ Agreed(x, y, c, d, s, t)
  BY <1>1, <1>3 DEF Concludes, Agreed, Taken
<1>4. QED
  BY <1>1, <1>2, <1>3 DEF Stage, Begins, Offers, Offered, Accepts, Answers

\* handleOffer: the answerer is stable, so there is no collision.
LEMMA OfferReceived ==
    ASSUME NEW x, NEW y, NEW c, NEW d, NEW s, NEW t, IsSequence(s), s # <<>>,
           Stage(x, y, c, d, s, t), SaidBy(Head(s), x), Head(s).type = "offer",
           NEW e, e # NoConnection, e = d \/ (d = NoConnection /\ Untouched(e))
    PROVE  ~Collision(e) /\ Accepts(x, y, c, Queue(e, "acceptOffer", Head(s).sdp), Tail(s), t)
<1> DEFINE o == Head(s).sdp
           f == Queue(e, "acceptOffer", o)
<1>1. /\ Offered(x, y, c, d, s, t) /\ Head(s) = Signal("offer", x, c.local)
      /\ Trickles(Tail(s), x, c.local) /\ (c.gathered => Coming(Tail(s), x, c.local))
  <2>1. Candidate(x, c.local).type # "offer"
    BY DEF Candidate, Signal
  <2>2. QED
    BY <2>1, HeardOfOfferer
<1>2. o = c.local
  BY <1>1 DEF Signal
<1> HIDE DEF o
<1>3. Untouched(e)
  BY <1>1 DEF Offered
<1>4. /\ At(e, "stable", NoDescription, <<>>) /\ ~e.making
      /\ e.local = NoDescription /\ e.pending = {} /\ e.added = {} /\ e.gathered
  BY <1>3 DEF Untouched
<1>5. Alike(f, e, {"ops"}) /\ f.ops = <<[op |-> "acceptOffer", sdp |-> o]>>
  BY <1>4, QueueIs DEF At
<1> HIDE DEF f
<1>6. /\ At(f, "stable", NoDescription, <<[op |-> "acceptOffer", sdp |-> c.local]>>)
      /\ f.local = NoDescription /\ f.pending = {} /\ f.added = {} /\ f.gathered = e.gathered
  BY <1>2, <1>4, <1>5 DEF At, Alike, Fields
<1>7. Taken(Tail(s), x, c, f)
  BY <1>1, <1>6 DEF Taken
<1>8. Accepts(x, y, c, f, Tail(s), t)
  BY <1>1, <1>4, <1>6, <1>7 DEF Offered, Accepts
<1>9. ~Collision(e)
  BY <1>4 DEF Collision, At
<1>10. QED
  BY <1>8, <1>9 DEF f, o

\* handleAnswer: the offerer waits for it.
LEMMA AnswerReceived ==
    ASSUME NEW x, NEW y, NEW c, NEW d, NEW s, NEW t, IsSequence(t), t # <<>>,
           Stage(x, y, c, d, s, t), SaidBy(Head(t), y), Head(t).type = "answer"
    PROVE  /\ c # NoConnection /\ c.sig = "have-local-offer"
           /\ Concludes(x, y, Queue(c, "acceptAnswer", Head(t).sdp), d, s, Tail(t))
<1> DEFINE a == Head(t).sdp
           f == Queue(c, "acceptAnswer", a)
<1>1. /\ Answered(x, y, c, d, s, t) /\ Head(t) = Signal("answer", y, d.local)
      /\ Taken(Tail(t), y, d, c)
  <2>1. Candidate(y, d.local).type # "answer"
    BY DEF Candidate, Signal
  <2>2. QED
    BY <2>1, HeardOfAnswerer
<1>2. a = d.local
  BY <1>1 DEF Signal
<1> HIDE DEF a
<1>3. Waits(c, <<>>) /\ c.pending = {} /\ Gave(x, c, d, s)
  BY <1>1 DEF Answered
<1>4. Alike(f, c, {"ops"}) /\ f.ops = <<[op |-> "acceptAnswer", sdp |-> a]>>
  BY <1>3, QueueIs DEF Waits, At
<1> HIDE DEF f
<1>5. /\ Waits(f, <<[op |-> "acceptAnswer", sdp |-> d.local]>>)
      /\ f.local = c.local /\ f.pending = c.pending /\ f.added = c.added /\ f.gathered = c.gathered
  BY <1>2, <1>3, <1>4 DEF Waits, At, Alike, Fields
<1>6. Taken(Tail(t), y, d, f)
  BY <1>1, <1>5 DEF Taken
<1>7. Gave(x, f, d, s)
  BY <1>3, <1>5 DEF Gave, Taken
<1>8. Concludes(x, y, f, d, s, Tail(t))
  BY <1>5, <1>6, <1>7 DEF Concludes
<1>9. c # NoConnection /\ c.sig = "have-local-offer"
  BY <1>3, NoFields DEF Waits, At
<1>10. QED
  BY <1>8, <1>9 DEF f, a

\* The offerer's candidate, buffered or added by the answerer.
LEMMA AnswererTakes ==
    ASSUME NEW x, NEW y, NEW c, NEW d, NEW s, NEW t, IsSequence(s), s # <<>>,
           Stage(x, y, c, d, s, t), SaidBy(Head(s), x), Head(s).type = "ice-candidate"
    PROVE  d # NoConnection /\ Stage(x, y, c, CandidateTaken(d, Head(s).sdp), Tail(s), t)
<1> DEFINE o == Head(s).sdp
           e == CandidateTaken(d, o)
<1>1. /\ \/ Accepts(x, y, c, d, s, t) \/ Answers(x, y, c, d, s, t) \/ Answered(x, y, c, d, s, t)
         \/ Concludes(x, y, c, d, s, t) \/ Agreed(x, y, c, d, s, t)
      /\ Head(s) = Candidate(x, c.local) /\ Trickles(Tail(s), x, c.local)
  <2>1. Signal("offer", x, c.local).type # "ice-candidate"
    BY DEF Signal
  <2>2. QED
    BY <2>1, HeardOfOfferer
<1>2. o = c.local
  BY <1>1 DEF Candidate, Signal
<1> HIDE DEF o
<1>3. DOMAIN d = Fields /\ Taken(s, x, c, d) /\ c.local # NoDescription
  BY <1>1 DEF Accepts, Answers, Answered, Concludes, Agreed, Gave, At, Waits
<1>4. /\ Alike(e, d, {"pending", "added"})
      /\ e.pending = IF d.remote = NoDescription THEN d.pending \cup {o} ELSE d.pending
      /\ e.added = IF d.remote = NoDescription THEN d.added ELSE d.added \cup {o}
  BY <1>3, TakenIs
<1> HIDE DEF e
<1>5. /\ DOMAIN e = Fields /\ e.sig = d.sig /\ e.local = d.local /\ e.remote = d.remote /\ e.ops = d.ops
      /\ e.gathered = d.gathered
  BY <1>4 DEF Alike, Fields
<1>6. Taken(Tail(s), x, c, e)
  BY <1>1, <1>2, <1>3, <1>4 DEF Taken
<1>7. ASSUME Accepts(x, y, c, d, s, t) PROVE Stage(x, y, c, e, Tail(s), t)
  <2>1. e.added = {}
    BY <1>4, <1>7 DEF Accepts, At
  <2>2. QED
    BY <1>5, <1>6, <1>7, <2>1 DEF Accepts, At, Stage
<1>8. ASSUME Answers(x, y, c, d, s, t) PROVE Stage(x, y, c, e, Tail(s), t)
  <2>1. e.pending = {}
    BY <1>3, <1>4, <1>8 DEF Answers, At
  <2>2. QED
    BY <1>5, <1>6, <1>8, <2>1 DEF Answers, At, Stage
<1>9. ASSUME Gave(x, c, d, s) PROVE Gave(x, c, e, Tail(s))
  <2>1. e.pending = {}
    BY <1>3, <1>4, <1>9 DEF Gave, At
  <2>2. QED
    BY <1>5, <1>6, <1>9, <2>1 DEF Gave, At
<1>10. Taken(t, y, d, c) => Taken(t, y, e, c)
  BY <1>5 DEF Taken
<1>11. ASSUME Answered(x, y, c, d, s, t) PROVE Stage(x, y, c, e, Tail(s), t)
  BY <1>5, <1>9, <1>11 DEF Answered, Stage
<1>12. ASSUME Concludes(x, y, c, d, s, t) PROVE Stage(x, y, c, e, Tail(s), t)
  BY <1>5, <1>9, <1>10, <1>12 DEF Concludes, Stage
<1>13. ASSUME Agreed(x, y, c, d, s, t) PROVE Stage(x, y, c, e, Tail(s), t)
  BY <1>5, <1>9, <1>10, <1>13 DEF Agreed, Stage
<1>14. Stage(x, y, c, e, Tail(s), t)
  BY <1>1, <1>7, <1>8, <1>11, <1>12, <1>13
<1>15. QED
  BY <1>3, <1>14, NoFields DEF e, o

\* The answerer's candidate, buffered or added by the offerer.
LEMMA OffererTakes ==
    ASSUME NEW x, NEW y, NEW c, NEW d, NEW s, NEW t, IsSequence(t), t # <<>>,
           Stage(x, y, c, d, s, t), SaidBy(Head(t), y), Head(t).type = "ice-candidate"
    PROVE  c # NoConnection /\ Stage(x, y, CandidateTaken(c, Head(t).sdp), d, s, Tail(t))
<1> DEFINE o == Head(t).sdp
           e == CandidateTaken(c, o)
<1>1. /\ Concludes(x, y, c, d, s, t) \/ Agreed(x, y, c, d, s, t)
      /\ Head(t) = Candidate(y, d.local) /\ Trickles(Tail(t), y, d.local)
  <2>1. Signal("answer", y, d.local).type # "ice-candidate"
    BY DEF Signal
  <2>2. QED
    BY <2>1, HeardOfAnswerer
<1>2. o = d.local
  BY <1>1 DEF Candidate, Signal
<1> HIDE DEF o
<1>3. DOMAIN c = Fields /\ Taken(t, y, d, c) /\ Gave(x, c, d, s) /\ d.local # NoDescription
  BY <1>1 DEF Concludes, Agreed, Gave, At, Waits
<1>4. /\ Alike(e, c, {"pending", "added"})
      /\ e.pending = IF c.remote = NoDescription THEN c.pending \cup {o} ELSE c.pending
      /\ e.added = IF c.remote = NoDescription THEN c.added ELSE c.added \cup {o}
  BY <1>3, TakenIs
<1> HIDE DEF e
<1>5. /\ DOMAIN e = Fields /\ e.sig = c.sig /\ e.local = c.local /\ e.remote = c.remote /\ e.ops = c.ops
      /\ e.gathered = c.gathered
  BY <1>4 DEF Alike, Fields
<1>6. Taken(Tail(t), y, d, e)
  BY <1>1, <1>2, <1>3, <1>4 DEF Taken
<1>7. Gave(x, e, d, s)
  BY <1>3, <1>5 DEF Gave, Taken
<1>8. ASSUME Concludes(x, y, c, d, s, t) PROVE Stage(x, y, e, d, s, Tail(t))
  <2>1. e.added = {}
    BY <1>4, <1>8 DEF Concludes, Waits, At
  <2>2. QED
    BY <1>5, <1>6, <1>7, <1>8, <2>1 DEF Concludes, Waits, At, Stage
<1>9. ASSUME Agreed(x, y, c, d, s, t) PROVE Stage(x, y, e, d, s, Tail(t))
  <2>1. e.pending = {}
    BY <1>3, <1>4, <1>9 DEF Agreed, At
  <2>2. QED
    BY <1>5, <1>6, <1>7, <1>9, <2>1 DEF Agreed, At, Stage
<1>10. Stage(x, y, e, d, s, Tail(t))
  BY <1>1, <1>8, <1>9
<1>11. QED
  BY <1>3, <1>10, NoFields DEF e, o

-----------------------------------------------------------------------------
(* What a list makes.                                                      *)

\* The offerer makes its connection: it starts to offer.
LEMMA OffererConnects ==
    ASSUME NEW x, NEW y, NEW d, NEW s, NEW t, Stage(x, y, NoConnection, d, s, t), NEW p, NEW q
    PROVE  Offers(x, y, Offering(NewConnection(p, q)), d, s, t)
<1> DEFINE n == NewConnection(p, q)
           e == Offering(n)
<1>1. Begins(x, y, NoConnection, d, s, t)
  BY NoFields DEF Stage, Offers, Offered, Accepts, Answers, Answered, Concludes, Agreed, Waits, At
<1>2. /\ At(n, "stable", NoDescription, <<>>) /\ ~n.making
      /\ n.local = NoDescription /\ n.pending = {} /\ n.added = {} /\ n.gathered
  BY NewIs
<1> HIDE DEF n
<1>3. Alike(e, n, {"making", "ops"}) /\ e.ops = <<[op |-> "createOffer"]>>
  BY <1>2, OfferingIs DEF At
<1> HIDE DEF e
<1>4. /\ At(e, "stable", NoDescription, e.ops) /\ OfferOps(e.ops)
      /\ e.local = NoDescription /\ e.pending = {} /\ e.added = {} /\ e.gathered = n.gathered
  BY <1>2, <1>3 DEF At, Alike, Fields, OfferOps
<1>5. QED
  BY <1>1, <1>2, <1>4 DEF Begins, Offers, e, n

\* The answerer makes its connection, before the offer or with it.
LEMMA AnswererConnects ==
    ASSUME NEW x, NEW y, NEW c, NEW s, NEW t, Stage(x, y, c, NoConnection, s, t), NEW p, NEW q
    PROVE  Stage(x, y, c, NewConnection(p, q), s, t)
<1>1. Untouched(NewConnection(p, q))
  BY NewIs DEF Untouched
<1>2. \/ Begins(x, y, c, NoConnection, s, t) \/ Offers(x, y, c, NoConnection, s, t)
      \/ Offered(x, y, c, NoConnection, s, t)
  BY NoFields DEF Stage, Accepts, Answers, Answered, Concludes, Agreed, Gave, At
<1>3. QED
  BY <1>1, <1>2 DEF Stage, Begins, Offers, Offered

-----------------------------------------------------------------------------
(* The lists of the call on their way.                                     *)

\* A list is put at the end that has x, or something else than a list.
LEMMA StaysAppended ==
    ASSUME NEW s, IsSequence(s), NEW x, NEW known, Stays(s, x, known), NEW m, ~ListWithout(m, x)
    PROVE  Stays(Append(s, m), x, known)
<1> DEFINE t == Append(s, m)
<1>1. /\ Len(t) = Len(s) + 1 /\ Len(s) \in Nat /\ t[Len(s) + 1] = m
      /\ \A i \in 1 .. Len(s) : t[i] = s[i]
  BY AppendedTo
<1> HIDE DEF t
<1>2. \A j \in 1 .. Len(t) : ListWithout(t[j], x) => j \in 1 .. Len(s)
  BY <1>1
<1>3. \A j \in 1 .. Len(s) : t[j] = s[j] /\ \A i \in 1 .. j - 1 : t[i] = s[i]
  BY <1>1
<1>4. Stays(t, x, known)
  BY <1>2, <1>3 DEF Stays
<1>5. QED
  BY <1>4 DEF t

\* The first message is read: whether x is known may change with one that speaks of x.
LEMMA StaysRead ==
    ASSUME NEW s, IsSequence(s), s # <<>>, NEW x, NEW known, Stays(s, x, known)
    PROVE  /\ Stays(Tail(s), x, known)
           /\ SaidBy(Head(s), x) \/ ListWith(Head(s), x) => \A k : Stays(Tail(s), x, k)
           /\ ListWithout(Head(s), x) => ~known
<1> DEFINE t == Tail(s)
<1>1. /\ Len(t) = Len(s) - 1 /\ Len(s) \in Nat \ {0} /\ Head(s) = s[1]
      /\ \A i \in 1 .. Len(t) : t[i] = s[i + 1]
  BY TailOf
<1> HIDE DEF t
<1>2. \A j \in 1 .. Len(t) : j + 1 \in 1 .. Len(s) /\ t[j] = s[j + 1] /\ 1 \in 1 .. (j + 1) - 1
  BY <1>1
<1>3. \A j \in 1 .. Len(t) : \A i \in 1 .. j - 1 : i + 1 \in 1 .. (j + 1) - 1 /\ t[i] = s[i + 1]
  BY <1>1
<1>4. Stays(t, x, known)
  BY <1>2, <1>3 DEF Stays
<1>5. ASSUME SaidBy(s[1], x) \/ ListWith(s[1], x) PROVE \A k : Stays(t, x, k)
  BY <1>2, <1>5 DEF Stays
<1>6. ListWithout(s[1], x) => ~known
  BY <1>1 DEF Stays
<1>7. QED
  BY <1>1, <1>4, <1>5, <1>6 DEF t

\* Nothing is in s that speaks of x.
Unmentioned(s, x) == Silent(s, x) /\ \A i \in 1 .. Len(s) : ~ListWith(s[i], x)

\* A message that does not speak of x is put at the end.
LEMMA UnmentionedAppended ==
    ASSUME NEW s, IsSequence(s), NEW x, Unmentioned(s, x), NEW m, ~SaidBy(m, x), ~ListWith(m, x)
    PROVE  Unmentioned(Append(s, m), x)
<1> DEFINE t == Append(s, m)
<1>1. /\ Len(t) = Len(s) + 1 /\ Len(s) \in Nat /\ t[Len(s) + 1] = m
      /\ \A i \in 1 .. Len(s) : t[i] = s[i]
  BY AppendedTo
<1> HIDE DEF t
<1>2. \A j \in 1 .. Len(t) : t[j] = m \/ (j \in 1 .. Len(s) /\ t[j] = s[j])
  BY <1>1
<1>3. QED
  BY <1>2 DEF Unmentioned, Silent, t

\* The first message is read.
LEMMA UnmentionedRead ==
    ASSUME NEW s, IsSequence(s), s # <<>>, NEW x, Unmentioned(s, x)
    PROVE  Unmentioned(Tail(s), x) /\ ~SaidBy(Head(s), x) /\ ~ListWith(Head(s), x)
<1> DEFINE t == Tail(s)
<1>1. /\ Len(t) = Len(s) - 1 /\ Len(s) \in Nat \ {0} /\ Head(s) = s[1]
      /\ \A i \in 1 .. Len(t) : t[i] = s[i + 1]
  BY TailOf
<1> HIDE DEF t
<1>2. \A j \in 1 .. Len(t) : j + 1 \in 1 .. Len(s) /\ t[j] = s[j + 1]
  BY <1>1
<1>3. 1 \in 1 .. Len(s)
  BY <1>1
<1>4. QED
  BY <1>1, <1>2, <1>3 DEF Unmentioned, Silent, t

\* Only lists are in s.
OnlyLists(s) == \A i \in 1 .. Len(s) : IsList(s[i])

\* A list is put at the end.
LEMMA ListsAppended ==
    ASSUME NEW s, IsSequence(s), OnlyLists(s), NEW m, IsList(m)
    PROVE  OnlyLists(Append(s, m))
<1> DEFINE t == Append(s, m)
<1>1. /\ Len(t) = Len(s) + 1 /\ Len(s) \in Nat /\ t[Len(s) + 1] = m
      /\ \A i \in 1 .. Len(s) : t[i] = s[i]
  BY AppendedTo
<1> HIDE DEF t
<1>2. \A j \in 1 .. Len(t) : t[j] = m \/ (j \in 1 .. Len(s) /\ t[j] = s[j])
  BY <1>1
<1>3. QED
  BY <1>2 DEF OnlyLists, t

\* The first message is read.
LEMMA ListsRead ==
    ASSUME NEW s, IsSequence(s), s # <<>>, OnlyLists(s)
    PROVE  OnlyLists(Tail(s)) /\ IsList(Head(s))
<1> DEFINE t == Tail(s)
<1>1. /\ Len(t) = Len(s) - 1 /\ Len(s) \in Nat \ {0} /\ Head(s) = s[1]
      /\ \A i \in 1 .. Len(t) : t[i] = s[i + 1]
  BY TailOf
<1> HIDE DEF t
<1>2. \A j \in 1 .. Len(t) : j + 1 \in 1 .. Len(s) /\ t[j] = s[j + 1]
  BY <1>1
<1>3. 1 \in 1 .. Len(s)
  BY <1>1
<1>4. QED
  BY <1>1, <1>2, <1>3 DEF OnlyLists, t

-----------------------------------------------------------------------------
(* One step of one connection.                                             *)

\* Who is connected, and by which connection.
LEMMA BetweenIs ==
    ASSUME Records, NEW p \in Callers, NEW q
    PROVE  /\ q \in DOMAIN pc[p] <=> Between(p, q) # NoConnection
           /\ q \in DOMAIN pc[p] => Between(p, q) = pc[p][q] /\ DOMAIN pc[p][q] = Fields
<1>1. q \in DOMAIN pc[p] => Between(p, q) = pc[p][q] /\ DOMAIN pc[p][q] = Fields
  BY DEF Records, Between
<1>2. q \notin DOMAIN pc[p] => Between(p, q) = NoConnection
  BY DEF Between
<1>3. QED
  BY <1>1, <1>2, NoFields

\* What p has to talk to q is all that changes of the connections.
OnlyBetween(p, q) ==
    \A a, b \in Callers : (a = p /\ b = q) \/ Between(a, b)' = Between(a, b)
CallKept == UNCHANGED <<serverCall, joins, overlap>>

\* The stage of p and q, the higher of which offers.
Paired(p, q, c, d, s, t) ==
    (p > q => Stage(p, q, c, d, s, t)) /\ (q > p => Stage(q, p, d, c, t, s))

\* If only p and q have something new, the other pairs stay where they were.
LEMMA OnePair ==
    ASSUME InStages, serverCall \subseteq Callers, NEW p \in Callers, NEW q,
           CallKept, OnlyBetween(p, q),
           \A x, y \in Callers : {x, y} = {p, q} \/ Same(wire[y], wire'[y], x),
           p \in serverCall /\ q \in serverCall /\ p # q /\ {p, q} \notin overlap =>
                Paired(p, q, Between(p, q)', Between(q, p)', wire'[q], wire'[p])
    PROVE  InStages'
<1> SUFFICES ASSUME NEW x \in serverCall, NEW y \in serverCall, x > y, {x, y} \notin overlap
             PROVE  Stage(x, y, Between(x, y)', Between(y, x)', wire'[y], wire'[x])
  BY DEF InStages, CallKept
<1>0. x # y
  BY CallersAssumption
<1>1. CASE x = p /\ y = q
  BY <1>0, <1>1 DEF Paired
<1>2. CASE x = q /\ y = p
  <2>1. {x, y} = {p, q}
    BY <1>2
  <2>2. QED
    BY <1>0, <1>2, <2>1 DEF Paired
<1>3. CASE {x, y} # {p, q}
  <2>1. Between(x, y)' = Between(x, y) /\ Between(y, x)' = Between(y, x)
    BY <1>3 DEF OnlyBetween
  <2>2. Same(wire[y], wire'[y], x) /\ Same(wire[x], wire'[x], y)
    <3>1. {y, x} # {p, q}
      BY <1>3
    <3>2. QED
      BY <1>3, <3>1
  <2>3. Stage(x, y, Between(x, y), Between(y, x), wire[y], wire[x])
    BY DEF InStages
  <2>4. QED
    BY <2>1, <2>2, <2>3, StageKept
<1>4. QED
  BY <1>1, <1>2, <1>3

\* What p has to talk to q becomes v.
Sets(p, q, v) ==
    /\ \A a \in Callers \ {p} : pc'[a] = pc[a]
    /\ DOMAIN pc'[p] = DOMAIN pc[p] \cup {q}
    /\ \A r \in DOMAIN pc[p] \cup {q} : pc'[p][r] = IF r = q THEN v ELSE pc[p][r]

\* What setting one connection changes.
LEMMA ConnectionSet ==
    ASSUME NegInv, MeshInv, NEW p \in Callers, NEW q, NEW v, DOMAIN v = Fields, Sets(p, q, v)
    PROVE  Records' /\ OnlyBetween(p, q) /\ Between(p, q)' = v
<1>1. Records'
  BY DEF Sets, NegInv, Records
<1>2. OnlyBetween(p, q)
  <2> SUFFICES ASSUME NEW a \in Callers, NEW b \in Callers, ~(a = p /\ b = q)
               PROVE  Between(a, b)' = Between(a, b)
    BY DEF OnlyBetween
  <2>1. CASE a # p
    BY <2>1 DEF Sets, Between
  <2>2. CASE a = p
    BY <2>2 DEF Sets, Between
  <2>3. QED
    BY <2>1, <2>2
<1>3. Between(p, q)' = v
  BY DEF Sets, Between
<1>4. QED
  BY <1>1, <1>2, <1>3

\* Both ends of a connection have been in a call.
LEMMA BothHaveJoined ==
    ASSUME NegInv, MeshInv, NEW p \in Callers, NEW q \in DOMAIN pc[p]
    PROVE  p \in serverCall /\ q \in Callers /\ q # p /\ joins[p] # 0 /\ joins[q] # 0
<1>1. p \in serverCall /\ q \in Callers /\ q # p
  BY DEF MeshInv, Attended, MeshTypes
<1>2. joins[p] # 0
  BY <1>1 DEF NegInv, Newcomers
<1>3. Between(p, q) # NoConnection
  BY BetweenIs DEF NegInv
<1>4. joins[q] # 0
  BY <1>1, <1>3 DEF NegInv, Newcomers, Unheard
<1>5. QED
  BY <1>1, <1>2, <1>4

\* Nobody has heard of x, part by part.
LEMMA UnheardIs ==
    ASSUME NEW x
    PROVE  Unheard(x) <=> /\ \A y \in Callers : Unmentioned(wire[y], x) /\ Between(y, x) = NoConnection
                          /\ OnlyLists(wire[x])
  BY DEF Unheard, Unmentioned, OnlyLists

\* A connection goes on, and perhaps its owner says something of it.
LEMMA ConnectionStepKeeps ==
    ASSUME NegInv, MeshInv, NEW p \in Callers, NEW q \in DOMAIN pc[p], NEW v, DOMAIN v = Fields,
           Sets(p, q, v), CallKept,
           NEW m, ~IsList(m), SaidBy(m, p), wire' = wire \/ wire' = Sent(wire, q, m),
           q \in serverCall /\ {p, q} \notin overlap =>
                Paired(p, q, v, Between(q, p), wire'[q], wire[p])
    PROVE  NegInv'
<1>1. p \in serverCall /\ q \in Callers /\ q # p /\ joins[p] # 0 /\ joins[q] # 0
  BY BothHaveJoined
<1>2. Records' /\ OnlyBetween(p, q) /\ Between(p, q)' = v
  BY ConnectionSet
<1>3. /\ \A z \in Callers \ {q} : wire'[z] = wire[z]
      /\ wire'[q] = wire[q] \/ wire'[q] = Append(wire[q], m)
      /\ \A z \in Callers : IsSequence(wire[z])
  BY <1>1 DEF Sent, MeshInv, MeshTypes
<1>4. Newcomers'
  <2>1. joins' \in [Callers -> Nat]
    BY DEF NegInv, Newcomers, CallKept
  <2>2. ASSUME NEW x \in Callers, joins'[x] = 0 PROVE x \notin serverCall' /\ Unheard(x)'
    <3>1. joins[x] = 0 /\ x # p /\ x # q
      BY <1>1, <2>2 DEF CallKept
    <3>2. x \notin serverCall /\ Unheard(x)
      BY <3>1 DEF NegInv, Newcomers
    <3>3. ASSUME NEW y \in Callers PROVE Unmentioned(wire'[y], x) /\ Between(y, x)' = NoConnection
      <4>1. Unmentioned(wire[y], x) /\ Between(y, x) = NoConnection
        BY <3>2, UnheardIs
      <4>2. ~SaidBy(m, x) /\ ~ListWith(m, x)
        BY <3>1 DEF SaidBy, ListWith
      <4>3. Unmentioned(Append(wire[q], m), x)
        BY <1>1, <1>3, <3>2, <4>2, UnheardIs, UnmentionedAppended
      <4>4. QED
        BY <1>2, <1>3, <3>1, <4>1, <4>3 DEF OnlyBetween
    <3>4. OnlyLists(wire'[x])
      BY <1>3, <3>1, <3>2, UnheardIs
    <3>5. Unheard(x)'
      BY <3>3, <3>4 DEF Unheard, Unmentioned, OnlyLists
    <3>6. QED
      BY <3>2, <3>5 DEF CallKept
  <2>3. QED
    BY <2>1, <2>2 DEF Newcomers
<1>5. Present'
  <2> SUFFICES ASSUME NEW x \in serverCall, NEW y \in Callers \ {x}, {x, y} \notin overlap
               PROVE  Stays(wire'[y], x, (Between(y, x) # NoConnection)')
    BY DEF Present, CallKept
  <2>1. x \in Callers
    BY DEF MeshInv, MeshTypes
  <2>2. Stays(wire[y], x, Between(y, x) # NoConnection)
    BY DEF NegInv, Present
  <2>3. (Between(y, x) # NoConnection)' <=> Between(y, x) # NoConnection
    <3>1. Between(p, q) # NoConnection /\ v # NoConnection
      BY BetweenIs, NoFields DEF NegInv
    <3>2. QED
      BY <1>2, <2>1, <3>1 DEF OnlyBetween
  <2>4. Stays(wire'[y], x, Between(y, x) # NoConnection)
    <3>1. ~ListWithout(m, x)
      BY DEF ListWithout
    <3>2. Stays(Append(wire[y], m), x, Between(y, x) # NoConnection)
      BY <1>3, <2>2, <3>1, StaysAppended
    <3>3. QED
      BY <1>1, <1>3, <2>2, <3>2
  <2>5. QED
    BY <2>3, <2>4 DEF Stays
<1>6. InStages'
  <2>1. \A x, y \in Callers : {x, y} = {p, q} \/ Same(wire[y], wire'[y], x)
    <3> SUFFICES ASSUME NEW x \in Callers, NEW y \in Callers, {x, y} # {p, q}
                 PROVE  Same(wire[y], wire'[y], x)
      OBVIOUS
    <3>1. Same(wire[y], wire[y], x)
      BY DEF Same
    <3>2. ASSUME y = q PROVE Same(wire[y], Append(wire[y], m), x)
      <4>1. ~SaidBy(m, x)
        BY <3>2 DEF SaidBy
      <4>2. QED
        BY <1>3, <4>1, OthersSay
    <3>3. QED
      BY <1>3, <3>1, <3>2
  <2>2. Between(q, p)' = Between(q, p) /\ wire'[p] = wire[p]
    BY <1>1, <1>2, <1>3 DEF OnlyBetween
  <2>3. q \in serverCall /\ {p, q} \notin overlap =>
            Paired(p, q, Between(p, q)', Between(q, p)', wire'[q], wire'[p])
    BY <1>2, <2>2
  <2>4. QED
    BY <1>2, <2>1, <2>3, OnePair DEF NegInv, MeshInv, MeshTypes
<1>7. QED
  BY <1>2, <1>4, <1>5, <1>6 DEF NegInv

-----------------------------------------------------------------------------
(* The promises that settle.                                               *)

\* The promises the offerer can wait for.
LEMMA OffererDoes ==
    ASSUME NEW x, NEW y, NEW c, NEW d, NEW s, NEW t, Stage(x, y, c, d, s, t), c # NoConnection,
           c.ops # <<>>
    PROVE  \/ Offers(x, y, c, d, s, t) /\ Head(c.ops).op \in {"createOffer", "setOffer"}
           \/ /\ Concludes(x, y, c, d, s, t) /\ Head(c.ops).op = "acceptAnswer"
              /\ c.sig = "have-local-offer"
<1>1. CASE Offers(x, y, c, d, s, t)
  <2>1. CASE c.ops = <<[op |-> "createOffer"]>>
    BY <1>1, <2>1, OneOp
  <2>2. ASSUME NEW o, c.ops = <<[op |-> "setOffer", sdp |-> o]>> PROVE Head(c.ops).op = "setOffer"
    BY <2>2, OneOp
  <2>3. QED
    BY <1>1, <2>1, <2>2 DEF Offers, OfferOps
<1>2. CASE Concludes(x, y, c, d, s, t)
  <2>1. \E e : c.ops = <<e>> /\ e.op = "acceptAnswer"
    BY <1>2 DEF Concludes, Waits, At
  <2>2. QED
    BY <1>2, <2>1 DEF Concludes, Waits, At
<1>3. QED
  BY <1>1, <1>2 DEF Stage, Begins, Offered, Accepts, Answers, Answered, Agreed, Waits, At

\* The promises the answerer can wait for.
LEMMA AnswererDoes ==
    ASSUME NEW x, NEW y, NEW c, NEW d, NEW s, NEW t, Stage(x, y, c, d, s, t), d # NoConnection,
           d.ops # <<>>
    PROVE  \/ Accepts(x, y, c, d, s, t) /\ Head(d.ops).op = "acceptOffer"
           \/ /\ Answers(x, y, c, d, s, t) /\ Head(d.ops).op \in {"createAnswer", "setAnswer"}
              /\ d.sig = "have-remote-offer"
<1>1. CASE Accepts(x, y, c, d, s, t)
  <2>1. \E e : d.ops = <<e>> /\ e.op = "acceptOffer"
    BY <1>1 DEF Accepts, At
  <2>2. QED
    BY <1>1, <2>1
<1>2. CASE Answers(x, y, c, d, s, t)
  <2>1. d.sig = "have-remote-offer"
    BY <1>2 DEF Answers, At
  <2>2. CASE d.ops = <<[op |-> "createAnswer", sdp |-> NoDescription]>>
    BY <1>2, <2>1, <2>2, OneOp
  <2>3. ASSUME NEW a, d.ops = <<[op |-> "setAnswer", sdp |-> a]>> PROVE Head(d.ops).op = "setAnswer"
    BY <2>3, OneOp
  <2>4. QED
    BY <1>2, <2>1, <2>2, <2>3 DEF Answers, AnswerOps
<1>3. QED
  BY <1>1, <1>2
    DEF Stage, Begins, Untouched, Offers, Offered, Answered, Concludes, Agreed, Gave, At

\* The stage of two who are in the call, from the side of either.
LEMMA PairIsStaged ==
    ASSUME NegInv, MeshInv, NEW p \in Callers, NEW q \in DOMAIN pc[p], q \in serverCall, {p, q} \notin overlap
    PROVE  LET c == pc[p][q]
               d == Between(q, p)
           IN  /\ DOMAIN c = Fields /\ c # NoConnection
               /\ \/ p > q /\ Stage(p, q, c, d, wire[q], wire[p])
                  \/ q > p /\ Stage(q, p, d, c, wire[p], wire[q])
<1>1. p \in serverCall /\ q \in Callers /\ q # p
  BY BothHaveJoined
<1>2. Between(p, q) = pc[p][q] /\ DOMAIN pc[p][q] = Fields /\ pc[p][q] # NoConnection
  BY BetweenIs, NoFields DEF NegInv
<1>3. p > q \/ q > p
  BY <1>1, CallersAssumption
<1>4. {q, p} = {p, q}
  OBVIOUS
<1>5. QED
  BY <1>1, <1>2, <1>3, <1>4 DEF NegInv, InStages

\* Each connection has its fields.
LEMMA RecordOf ==
    ASSUME NegInv, NEW p \in Callers, NEW q \in DOMAIN pc[p]
    PROVE  DOMAIN pc[p][q] = Fields
  BY DEF NegInv, Records

\* Offers and answers are descriptions.
LEMMA SomeDescription ==
    ASSUME NEW i, NEW o
    PROVE  Offer(i) # NoDescription /\ Answer(i, o) # NoDescription
<1>1. DOMAIN NoDescription = {}
  BY DEF NoDescription
<1>2. QED
  BY <1>1 DEF Offer, Answer

\* One of the two offers.
LEMMA Asymmetric == \A p, q \in Callers : p > q => ~(q > p)
  BY CallersAssumption

\* createOffer
LEMMA CreateOfferKeeps ==
    ASSUME NegInv, MeshInv, NEW p \in Callers, NEW q \in Callers, CreateOffer(p, q)
    PROVE  NegInv'
<1> DEFINE c == pc[p][q]
           d == Between(q, p)
           v == Queue(Done(c), "setOffer", Offer(Id(p, q)))
           m == Signal("offer", p, NoDescription)
<1>1. q \in DOMAIN pc[p] /\ c.ops # <<>> /\ Head(c.ops).op = "createOffer"
  BY DEF CreateOffer, Settling
<1>2. Sets(p, q, v) /\ wire' = wire /\ CallKept
  BY <1>1 DEF CreateOffer, OtherUnchanged, CallKept, MeshInv, MeshTypes, Sets
<1>3. DOMAIN v = Fields
  BY <1>1, RecordOf DEF Queue, Done
<1>4. ASSUME q \in serverCall, {p, q} \notin overlap
      PROVE  Paired(p, q, v, d, wire[q], wire[p])
  <2>1. CASE p > q /\ Stage(p, q, c, d, wire[q], wire[p])
    <3>1. Offers(p, q, c, d, wire[q], wire[p])
      BY <1>1, <1>4, <2>1, PairIsStaged, OffererDoes
    <3>2. Offers(p, q, v, d, wire[q], wire[p])
      BY <1>1, <3>1, OfferCreated, SomeDescription
    <3>3. QED
      BY <2>1, <3>2, Asymmetric DEF Paired, Stage
  <2>2. CASE q > p /\ Stage(q, p, d, c, wire[p], wire[q])
    BY <1>1, <1>4, <2>2, PairIsStaged, AnswererDoes
  <2>3. QED
    BY <1>1, <1>4, <2>1, <2>2, PairIsStaged
<1>5. ~IsList(m) /\ SaidBy(m, p)
  BY DEF IsList, SaidBy, Signal
<1>6. QED
  BY <1>1, <1>2, <1>3, <1>4, <1>5, ConnectionStepKeeps

\* setLocalDescription with an offer
LEMMA SetOfferKeeps ==
    ASSUME NegInv, MeshInv, NEW p \in Callers, NEW q \in Callers, SetOffer(p, q)
    PROVE  NegInv'
<1> DEFINE c == pc[p][q]
           d == Between(q, p)
           o == Head(c.ops).sdp
           v == [Done(c) EXCEPT !.sig = "have-local-offer", !.local = o, !.making = FALSE, !.gathered = FALSE]
           m == Signal("offer", p, o)
<1>1. q \in DOMAIN pc[p] /\ c.ops # <<>> /\ Head(c.ops).op = "setOffer"
  BY DEF SetOffer, Settling
<1>2. Sets(p, q, v) /\ wire' = Sent(wire, q, m) /\ CallKept
  BY <1>1 DEF SetOffer, OtherUnchanged, CallKept, MeshInv, MeshTypes, Sets
<1>3. DOMAIN v = Fields
  BY <1>1, RecordOf, DoneIs DEF Alike
<1>4. IsSequence(wire[q]) /\ wire'[q] = Append(wire[q], m)
  BY <1>2 DEF MeshInv, MeshTypes, Sent
<1>5. ASSUME q \in serverCall, {p, q} \notin overlap
      PROVE  Paired(p, q, v, d, wire'[q], wire[p])
  <2>1. CASE p > q /\ Stage(p, q, c, d, wire[q], wire[p])
    <3>1. Offers(p, q, c, d, wire[q], wire[p])
      BY <1>1, <1>5, <2>1, PairIsStaged, OffererDoes
    <3>2. Offered(p, q, v, d, Append(wire[q], m), wire[p])
      BY <1>1, <1>4, <3>1, OfferSet
    <3>3. QED
      BY <1>4, <2>1, <3>2, Asymmetric DEF Paired, Stage
  <2>2. CASE q > p /\ Stage(q, p, d, c, wire[p], wire[q])
    BY <1>1, <1>5, <2>2, PairIsStaged, AnswererDoes
  <2>3. QED
    BY <1>1, <1>5, <2>1, <2>2, PairIsStaged
<1>6. ~IsList(m) /\ SaidBy(m, p)
  BY DEF IsList, SaidBy, Signal
<1> HIDE DEF v, m
<1>7. QED
  BY <1>1, <1>2, <1>3, <1>5, <1>6, ConnectionStepKeeps

\* setRemoteDescription with an offer
LEMMA AcceptOfferKeeps ==
    ASSUME NegInv, MeshInv, NEW p \in Callers, NEW q \in Callers, AcceptOffer(p, q)
    PROVE  NegInv'
<1> DEFINE c == pc[p][q]
           d == Between(q, p)
           f == [Done(c) EXCEPT !.sig = "have-remote-offer", !.remote = Head(c.ops).sdp]
           v == Queue(Flushed(f), "createAnswer", NoDescription)
           m == Signal("offer", p, NoDescription)
<1>1. q \in DOMAIN pc[p] /\ c.ops # <<>> /\ Head(c.ops).op = "acceptOffer"
  BY DEF AcceptOffer, Settling
<1>2. Sets(p, q, v) /\ wire' = wire /\ CallKept
  BY <1>1 DEF AcceptOffer, OtherUnchanged, CallKept, MeshInv, MeshTypes, Sets
<1>3. DOMAIN v = Fields
  <2>1. DOMAIN f = Fields
    BY <1>1, RecordOf, DoneIs DEF Alike
  <2> HIDE DEF f
  <2>2. DOMAIN Flushed(f) = Fields
    BY <2>1, FlushedIs DEF Alike
  <2>3. QED
    BY <2>2 DEF Queue
<1>4. ASSUME q \in serverCall, {p, q} \notin overlap
      PROVE  Paired(p, q, v, d, wire[q], wire[p])
  <2>1. CASE p > q /\ Stage(p, q, c, d, wire[q], wire[p])
    BY <1>1, <1>4, <2>1, PairIsStaged, OffererDoes
  <2>2. CASE q > p /\ Stage(q, p, d, c, wire[p], wire[q])
    <3>1. Accepts(q, p, d, c, wire[p], wire[q])
      BY <1>1, <1>4, <2>2, PairIsStaged, AnswererDoes
    <3>2. Answers(q, p, d, v, wire[p], wire[q])
      BY <3>1, OfferAccepted
    <3>3. QED
      BY <2>2, <3>2, Asymmetric DEF Paired, Stage
  <2>3. QED
    BY <1>1, <1>4, <2>1, <2>2, PairIsStaged
<1>5. ~IsList(m) /\ SaidBy(m, p)
  BY DEF IsList, SaidBy, Signal
<1> HIDE DEF v, m
<1>6. QED
  BY <1>1, <1>2, <1>3, <1>4, <1>5, ConnectionStepKeeps

\* createAnswer
LEMMA CreateAnswerKeeps ==
    ASSUME NegInv, MeshInv, NEW p \in Callers, NEW q \in Callers, CreateAnswer(p, q)
    PROVE  NegInv'
<1> DEFINE c == pc[p][q]
           d == Between(q, p)
           v == Queue(Done(c), "setAnswer", Answer(Id(p, q), c.remote))
           m == Signal("answer", p, NoDescription)
<1>1. q \in DOMAIN pc[p] /\ c.ops # <<>> /\ Head(c.ops).op = "createAnswer"
  BY DEF CreateAnswer, Settling
<1>2. Sets(p, q, v) /\ wire' = wire /\ CallKept
  BY <1>1 DEF CreateAnswer, OtherUnchanged, CallKept, MeshInv, MeshTypes, Sets
<1>3. DOMAIN v = Fields
  BY <1>1, RecordOf DEF Queue, Done
<1>4. ASSUME q \in serverCall, {p, q} \notin overlap
      PROVE  Paired(p, q, v, d, wire[q], wire[p])
  <2>1. CASE p > q /\ Stage(p, q, c, d, wire[q], wire[p])
    BY <1>1, <1>4, <2>1, PairIsStaged, OffererDoes
  <2>2. CASE q > p /\ Stage(q, p, d, c, wire[p], wire[q])
    <3>1. Answers(q, p, d, c, wire[p], wire[q])
      BY <1>1, <1>4, <2>2, PairIsStaged, AnswererDoes
    <3>2. Answers(q, p, d, v, wire[p], wire[q])
      BY <1>1, <3>1, AnswerCreated, SomeDescription
    <3>3. QED
      BY <2>2, <3>2, Asymmetric DEF Paired, Stage
  <2>3. QED
    BY <1>1, <1>4, <2>1, <2>2, PairIsStaged
<1>5. ~IsList(m) /\ SaidBy(m, p)
  BY DEF IsList, SaidBy, Signal
<1> HIDE DEF v, m
<1>6. QED
  BY <1>1, <1>2, <1>3, <1>4, <1>5, ConnectionStepKeeps

\* setLocalDescription with an answer
LEMMA SetAnswerKeeps ==
    ASSUME NegInv, MeshInv, NEW p \in Callers, NEW q \in Callers, SetAnswer(p, q)
    PROVE  NegInv'
<1> DEFINE c == pc[p][q]
           d == Between(q, p)
           a == Head(c.ops).sdp
           v == [Done(c) EXCEPT !.sig = "stable", !.local = a, !.gathered = FALSE]
           m == Signal("answer", p, a)
<1>1. q \in DOMAIN pc[p] /\ c.ops # <<>> /\ Head(c.ops).op = "setAnswer"
  BY DEF SetAnswer, Settling
<1>2. Sets(p, q, v) /\ wire' = Sent(wire, q, m) /\ CallKept
  BY <1>1 DEF SetAnswer, OtherUnchanged, CallKept, MeshInv, MeshTypes, Sets
<1>3. DOMAIN v = Fields
  BY <1>1, RecordOf, DoneIs DEF Alike
<1>4. IsSequence(wire[q]) /\ wire'[q] = Append(wire[q], m)
  BY <1>2 DEF MeshInv, MeshTypes, Sent
<1>5. ASSUME q \in serverCall, {p, q} \notin overlap
      PROVE  Paired(p, q, v, d, wire'[q], wire[p])
  <2>1. CASE p > q /\ Stage(p, q, c, d, wire[q], wire[p])
    BY <1>1, <1>5, <2>1, PairIsStaged, OffererDoes
  <2>2. CASE q > p /\ Stage(q, p, d, c, wire[p], wire[q])
    <3>1. Answers(q, p, d, c, wire[p], wire[q])
      BY <1>1, <1>5, <2>2, PairIsStaged, AnswererDoes
    <3>2. Answered(q, p, d, v, wire[p], Append(wire[q], m))
      BY <1>1, <1>4, <3>1, AnswerSet
    <3>3. QED
      BY <1>4, <2>2, <3>2, Asymmetric DEF Paired, Stage
  <2>3. QED
    BY <1>1, <1>5, <2>1, <2>2, PairIsStaged
<1>6. ~IsList(m) /\ SaidBy(m, p)
  BY DEF IsList, SaidBy, Signal
<1> HIDE DEF v, m
<1>7. QED
  BY <1>1, <1>2, <1>3, <1>5, <1>6, ConnectionStepKeeps

\* setRemoteDescription with an answer
LEMMA AcceptAnswerKeeps ==
    ASSUME NegInv, MeshInv, NEW p \in Callers, NEW q \in Callers, AcceptAnswer(p, q)
    PROVE  NegInv'
<1> DEFINE c == pc[p][q]
           d == Between(q, p)
           f == [Done(c) EXCEPT !.sig = "stable", !.remote = Head(c.ops).sdp]
           v == Flushed(f)
           m == Signal("answer", p, NoDescription)
<1>1. q \in DOMAIN pc[p] /\ c.ops # <<>> /\ Head(c.ops).op = "acceptAnswer"
  BY DEF AcceptAnswer, Settling
<1>2. Sets(p, q, v) /\ wire' = wire /\ CallKept
  BY <1>1 DEF AcceptAnswer, OtherUnchanged, CallKept, MeshInv, MeshTypes, Sets
<1>3. DOMAIN v = Fields
  <2>1. DOMAIN f = Fields
    BY <1>1, RecordOf, DoneIs DEF Alike
  <2> HIDE DEF f
  <2>2. QED
    BY <2>1, FlushedIs DEF Alike
<1>4. ASSUME q \in serverCall, {p, q} \notin overlap
      PROVE  Paired(p, q, v, d, wire[q], wire[p])
  <2>1. CASE p > q /\ Stage(p, q, c, d, wire[q], wire[p])
    <3>1. Concludes(p, q, c, d, wire[q], wire[p])
      BY <1>1, <1>4, <2>1, PairIsStaged, OffererDoes
    <3>2. Agreed(p, q, v, d, wire[q], wire[p])
      BY <3>1, AnswerAccepted
    <3>3. QED
      BY <2>1, <3>2, Asymmetric DEF Paired, Stage
  <2>2. CASE q > p /\ Stage(q, p, d, c, wire[p], wire[q])
    BY <1>1, <1>4, <2>2, PairIsStaged, AnswererDoes
  <2>3. QED
    BY <1>1, <1>4, <2>1, <2>2, PairIsStaged
<1>5. ~IsList(m) /\ SaidBy(m, p)
  BY DEF IsList, SaidBy, Signal
<1> HIDE DEF v, m
<1>6. QED
  BY <1>1, <1>2, <1>3, <1>4, <1>5, ConnectionStepKeeps

\* onicecandidate
LEMMA GatherKeeps ==
    ASSUME NegInv, MeshInv, NEW p \in Callers, NEW q \in Callers, Gather(p, q)
    PROVE  NegInv'
<1> DEFINE c == pc[p][q]
           d == Between(q, p)
           v == [c EXCEPT !.gathered = TRUE]
           m == Candidate(p, c.local)
<1>1. q \in DOMAIN pc[p] /\ ~c.gathered
  BY DEF Gather
<1>2. Sets(p, q, v) /\ wire' = Sent(wire, q, m) /\ CallKept
  BY <1>1 DEF Gather, OtherUnchanged, CallKept, MeshInv, MeshTypes, Sets, Candidate
<1>3. DOMAIN c = Fields /\ DOMAIN v = Fields
  BY <1>1, RecordOf, GatheredIs DEF Alike
<1>4. IsSequence(wire[q]) /\ wire'[q] = Append(wire[q], m)
  BY <1>2 DEF MeshInv, MeshTypes, Sent
<1>5. ASSUME q \in serverCall, {p, q} \notin overlap
      PROVE  Paired(p, q, v, d, wire'[q], wire[p])
  <2>1. CASE p > q /\ Stage(p, q, c, d, wire[q], wire[p])
    <3>1. Stage(p, q, v, d, Append(wire[q], m), wire[p])
      BY <1>1, <1>3, <1>4, <2>1, OffererGathers
    <3>2. QED
      BY <1>4, <2>1, <3>1, Asymmetric DEF Paired
  <2>2. CASE q > p /\ Stage(q, p, d, c, wire[p], wire[q])
    <3>1. Stage(q, p, d, v, wire[p], Append(wire[q], m))
      BY <1>1, <1>3, <1>4, <2>2, AnswererGathers
    <3>2. QED
      BY <1>4, <2>2, <3>1, Asymmetric DEF Paired
  <2>3. QED
    BY <1>1, <1>5, <2>1, <2>2, PairIsStaged
<1>6. ~IsList(m) /\ SaidBy(m, p)
  BY DEF IsList, SaidBy, Signal, Candidate
<1> HIDE DEF v, m
<1>7. QED
  BY <1>1, <1>2, <1>3, <1>5, <1>6, ConnectionStepKeeps

\* No call on a connection of a pair that did not overlap is rejected.
LEMMA NothingRejected ==
    ASSUME NegInv, MeshInv, NEW p \in Callers, NEW q \in DOMAIN pc[p], pc[p][q].ops # <<>>,
           Head(pc[p][q].ops).op \in DOMAIN Needed, pc[p][q].sig # Needed[Head(pc[p][q].ops).op]
    PROVE  ~(q \in serverCall /\ {p, q} \notin overlap)
<1> DEFINE c == pc[p][q]
           d == Between(q, p)
<1> SUFFICES ASSUME q \in serverCall, {p, q} \notin overlap
             PROVE  FALSE
  OBVIOUS
<1>1. /\ DOMAIN Needed = {"createAnswer", "setAnswer", "acceptAnswer"}
      /\ Needed["createAnswer"] = "have-remote-offer" /\ Needed["setAnswer"] = "have-remote-offer"
      /\ Needed["acceptAnswer"] = "have-local-offer"
  BY DEF Needed
<1>2. CASE p > q /\ Stage(p, q, c, d, wire[q], wire[p])
  BY <1>1, <1>2, PairIsStaged, OffererDoes
<1>3. CASE q > p /\ Stage(q, p, d, c, wire[p], wire[q])
  BY <1>1, <1>3, PairIsStaged, AnswererDoes
<1>4. QED
  BY <1>2, <1>3, PairIsStaged

\* A rejection of a pair that overlapped.
LEMMA RejectionKeeps ==
    ASSUME NegInv, MeshInv, NEW p \in Callers, NEW q \in DOMAIN pc[p],
           ~(q \in serverCall /\ {p, q} \notin overlap),
           pc' = [pc EXCEPT ![p][q] = Done(@)], wire' = wire, CallKept
    PROVE  NegInv'
<1> DEFINE v == Done(pc[p][q])
           m == Signal("offer", p, NoDescription)
<1>1. Sets(p, q, v)
  BY DEF MeshInv, MeshTypes, Sets
<1>2. DOMAIN v = Fields
  BY RecordOf, DoneIs DEF Alike
<1>3. ~IsList(m) /\ SaidBy(m, p)
  BY DEF IsList, SaidBy, Signal
<1> HIDE DEF v, m
<1>4. QED
  BY <1>1, <1>2, <1>3, ConnectionStepKeeps

-----------------------------------------------------------------------------
(* Messages of other clients read.                                         *)

\* A message of q, whatever p makes of it.
LEMMA ReadKeeps ==
    ASSUME NegInv, MeshInv, NEW p \in Callers, wire[p] # <<>>, ~IsList(Head(wire[p])),
           wire' = Consumed(p), CallKept, Records', NEW q, q = Head(wire[p]).from, OnlyBetween(p, q),
           p \in serverCall /\ q \in serverCall /\ p # q /\ {p, q} \notin overlap =>
                Paired(p, q, Between(p, q)', Between(q, p), wire[q], wire'[p])
    PROVE  NegInv'
<1>1. /\ \A z \in Callers \ {p} : wire'[z] = wire[z]
      /\ wire'[p] = Tail(wire[p])
      /\ \A z \in Callers : IsSequence(wire[z])
  BY DEF Consumed, MeshInv, MeshTypes
<1>2. SaidBy(Head(wire[p]), q)
  BY DEF SaidBy
<1>3. Newcomers'
  <2>1. joins' \in [Callers -> Nat]
    BY DEF NegInv, Newcomers, CallKept
  <2>2. ASSUME NEW x \in Callers, joins'[x] = 0 PROVE x \notin serverCall' /\ Unheard(x)'
    <3>1. x \notin serverCall /\ Unheard(x)
      BY <2>2 DEF NegInv, Newcomers, CallKept
    <3>2. \A y \in Callers : Unmentioned(wire[y], x) /\ Between(y, x) = NoConnection
      BY <3>1, UnheardIs
    <3>3. Unmentioned(Tail(wire[p]), x) /\ x # q
      BY <1>1, <1>2, <3>2, UnmentionedRead
    <3>4. \A y \in Callers : Unmentioned(wire'[y], x) /\ Between(y, x)' = NoConnection
      BY <1>1, <3>2, <3>3 DEF OnlyBetween
    <3>5. OnlyLists(wire'[x])
      <4>1. OnlyLists(wire[x])
        BY <3>1, UnheardIs
      <4>2. x # p
        BY <1>1, <4>1, ListsRead
      <4>3. QED
        BY <1>1, <4>1, <4>2
    <3>6. Unheard(x)'
      BY <3>4, <3>5 DEF Unheard, Unmentioned, OnlyLists
    <3>7. QED
      BY <3>1, <3>6 DEF CallKept
  <2>3. QED
    BY <2>1, <2>2 DEF Newcomers
<1>4. Present'
  <2> SUFFICES ASSUME NEW x \in serverCall, NEW y \in Callers \ {x}, {x, y} \notin overlap
               PROVE  Stays(wire'[y], x, (Between(y, x) # NoConnection)')
    BY DEF Present, CallKept
  <2> DEFINE known == Between(y, x) # NoConnection
  <2>1. x \in Callers
    BY DEF MeshInv, MeshTypes
  <2>2. Stays(wire[y], x, known)
    BY DEF NegInv, Present
  <2>3. CASE y = p /\ x = q
    <3>1. \A k : Stays(Tail(wire[p]), x, k)
      BY <1>1, <1>2, <2>2, <2>3, StaysRead
    <3>2. QED
      BY <1>1, <2>3, <3>1
  <2>4. CASE ~(y = p /\ x = q)
    <3>1. known' <=> known
      BY <2>1, <2>4 DEF OnlyBetween
    <3>2. Stays(wire'[y], x, known)
      <4>1. CASE y = p
        BY <1>1, <2>2, <4>1, StaysRead
      <4>2. CASE y # p
        BY <1>1, <2>2, <4>2
      <4>3. QED
        BY <4>1, <4>2
    <3>3. QED
      BY <3>1, <3>2 DEF Stays
  <2>5. QED
    BY <2>3, <2>4
<1>5. InStages'
  <2>1. \A x, y \in Callers : {x, y} = {p, q} \/ Same(wire[y], wire'[y], x)
    <3> SUFFICES ASSUME NEW x \in Callers, NEW y \in Callers, {x, y} # {p, q}
                 PROVE  Same(wire[y], wire'[y], x)
      OBVIOUS
    <3>1. Same(wire[y], wire[y], x)
      BY DEF Same
    <3>2. ASSUME y = p PROVE Same(wire[y], Tail(wire[y]), x)
      <4>1. ~SaidBy(Head(wire[y]), x)
        BY <3>2 DEF SaidBy
      <4>2. QED
        BY <1>1, <3>2, <4>1, OthersRead
    <3>3. QED
      BY <1>1, <3>1, <3>2
  <2>2. ASSUME p \in serverCall, q \in serverCall, p # q, {p, q} \notin overlap
        PROVE  Paired(p, q, Between(p, q)', Between(q, p)', wire'[q], wire'[p])
    <3>1. q \in Callers
      BY <2>2 DEF MeshInv, MeshTypes
    <3>2. Between(q, p)' = Between(q, p) /\ wire'[q] = wire[q]
      BY <1>1, <2>2, <3>1 DEF OnlyBetween
    <3>3. QED
      BY <2>2, <3>2
  <2>3. QED
    BY <2>1, <2>2, OnePair DEF NegInv, MeshInv, MeshTypes
<1>6. QED
  BY <1>3, <1>4, <1>5 DEF NegInv

\* The stage of two who are in the call, whether they are connected or not.
LEMMA BothAreStaged ==
    ASSUME NegInv, MeshInv, NEW p \in serverCall, NEW q \in serverCall, p # q, {p, q} \notin overlap
    PROVE  \/ p > q /\ ~(q > p) /\ Stage(p, q, Between(p, q), Between(q, p), wire[q], wire[p])
           \/ q > p /\ ~(p > q) /\ Stage(q, p, Between(q, p), Between(p, q), wire[p], wire[q])
<1>1. p \in Callers /\ q \in Callers
  BY DEF MeshInv, MeshTypes
<1>2. (p > q /\ ~(q > p)) \/ (q > p /\ ~(p > q))
  <2>1. p \in Nat /\ q \in Nat
    BY <1>1, CallersAssumption
  <2>2. QED
    BY <2>1
<1>3. {q, p} = {p, q}
  OBVIOUS
<1>4. QED
  BY <1>2, <1>3 DEF NegInv, InStages

\* Nothing changes of the connections.
LEMMA UnchangedBetween ==
    ASSUME NegInv, pc' = pc
    PROVE  Records' /\ \A p, q : OnlyBetween(p, q) /\ Between(p, q)' = Between(p, q)
  BY DEF NegInv, Records, OnlyBetween, Between

\* RECEIVED_OFFER
LEMMA ReadOfferKeeps ==
    ASSUME NegInv, MeshInv, NEW p \in Callers, ReadOffer(p)
    PROVE  NegInv'
<1>0. PICK q : q = Head(wire[p]).from
  OBVIOUS
<1> DEFINE s == wire[p]
           e == IF q \in DOMAIN pc[p] THEN pc[p][q] ELSE NewConnection(p, q)
           o == Head(s).sdp
           v == IF Collision(e) THEN e ELSE Queue(e, "acceptOffer", o)
<1>1. s # <<>> /\ Head(s).type = "offer" /\ ~IsList(Head(s)) /\ wire' = Consumed(p) /\ CallKept
  BY DEF ReadOffer, NextIs, CallKept, IsList
<1>2. SaidBy(Head(s), q) /\ IsSequence(s)
  BY <1>0, <1>1 DEF SaidBy, MeshInv, MeshTypes
<1>3. wire'[p] = Tail(s)
  BY <1>1 DEF Consumed, MeshInv, MeshTypes
<1>4. CASE ~InCall(p)
  <2>1. pc' = pc /\ p \notin serverCall
    BY <1>4 DEF ReadOffer, MeshInv, Attended
  <2>2. QED
    BY <1>0, <1>1, <2>1, UnchangedBetween, ReadKeeps
<1>5. CASE InCall(p)
  <2>1. DOMAIN e = Fields
    <3>1. CASE q \in DOMAIN pc[p]
      BY <3>1, RecordOf
    <3>2. CASE q \notin DOMAIN pc[p]
      BY <3>2, NewIs DEF At
    <3>3. QED
      BY <3>1, <3>2
  <2>2. e # NoConnection
    BY <2>1, NoFields
  <2>3. e = Between(p, q) \/ (Between(p, q) = NoConnection /\ Untouched(e))
    BY NewIs DEF Between, Untouched
  <2>4. Sets(p, q, v)
    BY <1>0, <1>5 DEF ReadOffer, Sets, MeshInv, MeshTypes, With
  <2> HIDE DEF e
  <2>5. DOMAIN v = Fields
    BY <2>1 DEF Queue
  <2>6. Records' /\ OnlyBetween(p, q) /\ Between(p, q)' = v
    <3> HIDE DEF v
    <3>1. QED
      BY <2>4, <2>5, ConnectionSet
  <2>7. ASSUME p \in serverCall, q \in serverCall, p # q, {p, q} \notin overlap
        PROVE  Paired(p, q, v, Between(q, p), wire[q], wire'[p])
    <3>1. CASE p > q /\ ~(q > p) /\ Stage(p, q, Between(p, q), Between(q, p), wire[q], s)
      <4>1. Head(s) = Signal("answer", q, Between(q, p).local) \/ Head(s) = Candidate(q, Between(q, p).local)
        BY <1>1, <1>2, <3>1, HeardOfAnswerer
      <4>2. QED
        BY <1>1, <4>1 DEF Signal, Candidate
    <3>2. CASE q > p /\ ~(p > q) /\ Stage(q, p, Between(q, p), Between(p, q), s, wire[q])
      <4>1. /\ ~Collision(e)
            /\ Accepts(q, p, Between(q, p), Queue(e, "acceptOffer", o), Tail(s), wire[q])
        BY <1>1, <1>2, <2>2, <2>3, <3>2, OfferReceived
      <4>2. QED
        BY <1>3, <3>2, <4>1 DEF Paired, Stage
    <3>3. QED
      BY <2>7, <3>1, <3>2, BothAreStaged
  <2> HIDE DEF v
  <2>8. QED
    BY <1>0, <1>1, <2>6, <2>7, ReadKeeps
<1>6. QED
  BY <1>4, <1>5

\* handleAnswer
LEMMA ReadAnswerKeeps ==
    ASSUME NegInv, MeshInv, NEW p \in Callers, ReadAnswer(p)
    PROVE  NegInv'
<1>0. PICK q : q = Head(wire[p]).from
  OBVIOUS
<1> DEFINE s == wire[p]
           c == Between(p, q)
           v == Queue(pc[p][q], "acceptAnswer", Head(s).sdp)
           AwaitsAnswer == InCall(p) /\ q \in DOMAIN pc[p] /\ pc[p][q].sig = "have-local-offer"
<1>1. s # <<>> /\ Head(s).type = "answer" /\ ~IsList(Head(s)) /\ wire' = Consumed(p) /\ CallKept
  BY DEF ReadAnswer, NextIs, CallKept, IsList
<1>2. SaidBy(Head(s), q) /\ IsSequence(s)
  BY <1>0, <1>1 DEF SaidBy, MeshInv, MeshTypes
<1>3. wire'[p] = Tail(s)
  BY <1>1 DEF Consumed, MeshInv, MeshTypes
<1>4. ASSUME p \in serverCall, q \in serverCall, p # q, {p, q} \notin overlap
      PROVE  AwaitsAnswer /\ Paired(p, q, v, Between(q, p), wire[q], wire'[p])
  <2>1. CASE p > q /\ ~(q > p) /\ Stage(p, q, c, Between(q, p), wire[q], s)
    <3>1. /\ c # NoConnection /\ c.sig = "have-local-offer"
          /\ Concludes(p, q, Queue(c, "acceptAnswer", Head(s).sdp), Between(q, p), wire[q], Tail(s))
      BY <1>1, <1>2, <2>1, AnswerReceived
    <3>2. q \in DOMAIN pc[p] /\ c = pc[p][q]
      BY <3>1, BetweenIs DEF NegInv
    <3>3. InCall(p)
      BY <1>4 DEF MeshInv, Attended
    <3>4. QED
      BY <1>3, <2>1, <3>1, <3>2, <3>3 DEF Paired, Stage
  <2>2. CASE q > p /\ ~(p > q) /\ Stage(q, p, Between(q, p), c, s, wire[q])
    <3>1. Head(s) = Signal("offer", q, Between(q, p).local) \/ Head(s) = Candidate(q, Between(q, p).local)
      BY <1>1, <1>2, <2>2, HeardOfOfferer
    <3>2. QED
      BY <1>1, <3>1 DEF Signal, Candidate
  <2>3. QED
    BY <1>4, <2>1, <2>2, BothAreStaged
<1>5. CASE AwaitsAnswer
  <2>1. Sets(p, q, v)
    BY <1>0, <1>5 DEF ReadAnswer, Sets, MeshInv, MeshTypes
  <2>2. DOMAIN v = Fields
    BY <1>5, RecordOf DEF Queue
  <2> HIDE DEF v
  <2>3. Records' /\ OnlyBetween(p, q) /\ Between(p, q)' = v
    BY <2>1, <2>2, ConnectionSet
  <2>4. QED
    BY <1>0, <1>1, <1>4, <2>3, ReadKeeps
<1>6. CASE ~AwaitsAnswer
  <2>1. pc' = pc
    BY <1>0, <1>6 DEF ReadAnswer
  <2>2. QED
    BY <1>0, <1>1, <1>4, <1>6, <2>1, UnchangedBetween, ReadKeeps
<1>7. QED
  BY <1>5, <1>6

\* handleIceCandidate
LEMMA ReadCandidateKeeps ==
    ASSUME NegInv, MeshInv, NEW p \in Callers, ReadCandidate(p)
    PROVE  NegInv'
<1>0. PICK q : q = Head(wire[p]).from
  OBVIOUS
<1> DEFINE s == wire[p]
           c == Between(p, q)
           v == CandidateTaken(pc[p][q], Head(s).sdp)
           Known == InCall(p) /\ q \in DOMAIN pc[p]
<1>1. s # <<>> /\ Head(s).type = "ice-candidate" /\ ~IsList(Head(s)) /\ wire' = Consumed(p) /\ CallKept
  BY DEF ReadCandidate, NextIs, CallKept, IsList
<1>2. SaidBy(Head(s), q) /\ IsSequence(s)
  BY <1>0, <1>1 DEF SaidBy, MeshInv, MeshTypes
<1>3. wire'[p] = Tail(s)
  BY <1>1 DEF Consumed, MeshInv, MeshTypes
<1>4. ASSUME p \in serverCall, q \in serverCall, p # q, {p, q} \notin overlap
      PROVE  Known /\ Paired(p, q, v, Between(q, p), wire[q], wire'[p])
  <2>1. c # NoConnection /\ Paired(p, q, CandidateTaken(c, Head(s).sdp), Between(q, p), wire[q], Tail(s))
    <3>1. CASE p > q /\ ~(q > p) /\ Stage(p, q, c, Between(q, p), wire[q], s)
      <4>1. /\ c # NoConnection
            /\ Stage(p, q, CandidateTaken(c, Head(s).sdp), Between(q, p), wire[q], Tail(s))
        BY <1>1, <1>2, <3>1, OffererTakes
      <4>2. QED
        BY <3>1, <4>1 DEF Paired
    <3>2. CASE q > p /\ ~(p > q) /\ Stage(q, p, Between(q, p), c, s, wire[q])
      <4>1. /\ c # NoConnection
            /\ Stage(q, p, Between(q, p), CandidateTaken(c, Head(s).sdp), Tail(s), wire[q])
        BY <1>1, <1>2, <3>2, AnswererTakes
      <4>2. QED
        BY <3>2, <4>1 DEF Paired
    <3>3. QED
      BY <1>4, <3>1, <3>2, BothAreStaged
  <2>2. q \in DOMAIN pc[p] /\ c = pc[p][q]
    BY <2>1, BetweenIs DEF NegInv
  <2>3. InCall(p)
    BY <1>4 DEF MeshInv, Attended
  <2>4. QED
    BY <1>3, <2>1, <2>2, <2>3
<1>5. CASE Known
  <2>1. Sets(p, q, v)
    BY <1>0, <1>5 DEF ReadCandidate, Sets, MeshInv, MeshTypes
  <2>2. DOMAIN v = Fields
    BY <1>5, RecordOf, TakenIs DEF Alike
  <2> HIDE DEF v
  <2>3. Records' /\ OnlyBetween(p, q) /\ Between(p, q)' = v
    BY <2>1, <2>2, ConnectionSet
  <2>4. QED
    BY <1>0, <1>1, <1>4, <2>3, ReadKeeps
<1>6. CASE ~Known
  <2>1. pc' = pc
    BY <1>0, <1>6 DEF ReadCandidate
  <2>2. QED
    BY <1>0, <1>1, <1>4, <1>6, <2>1, UnchangedBetween, ReadKeeps
<1>7. QED
  BY <1>5, <1>6

-----------------------------------------------------------------------------
(* Lists of the call read.                                                 *)

\* What p has to talk to others, and what they say to each other, is all that changes.
LEMMA OneClient ==
    ASSUME InStages, serverCall \subseteq Callers, NEW p \in Callers, CallKept,
           \A a \in Callers \ {p} : \A b \in Callers : Between(a, b)' = Between(a, b),
           \A x, y \in Callers : Same(wire[y], wire'[y], x),
           \A q \in serverCall \ {p} : p \in serverCall /\ {p, q} \notin overlap =>
                Paired(p, q, Between(p, q)', Between(q, p)', wire'[q], wire'[p])
    PROVE  InStages'
<1> SUFFICES ASSUME NEW x \in serverCall, NEW y \in serverCall, x > y, {x, y} \notin overlap
             PROVE  Stage(x, y, Between(x, y)', Between(y, x)', wire'[y], wire'[x])
  BY DEF InStages, CallKept
<1>1. x # y
  BY CallersAssumption
<1>2. CASE x = p
  BY <1>1, <1>2 DEF Paired
<1>3. CASE y = p
  <2>1. {y, x} = {x, y}
    OBVIOUS
  <2>2. QED
    BY <1>1, <1>3, <2>1 DEF Paired
<1>4. CASE x # p /\ y # p
  <2>1. Stage(x, y, Between(x, y), Between(y, x), wire[y], wire[x])
    BY DEF InStages
  <2>2. QED
    BY <1>4, <2>1, StageKept
<1>5. QED
  BY <1>2, <1>3, <1>4

\* Nothing is said.
LEMMA SameAsItIs == \A s, x : Same(s, s, x)
  BY DEF Same

\* Nothing changes that the invariant speaks of.
LEMMA QuietKeeps ==
    ASSUME NegInv, CallKept, wire' = wire, Records',
           \A a, b \in Callers : Between(a, b)' = Between(a, b), serverCall \subseteq Callers
    PROVE  NegInv'
<1>1. Newcomers'
  <2>1. ASSUME NEW x \in Callers, Unheard(x) PROVE Unheard(x)'
    BY <2>1 DEF Unheard
  <2>2. QED
    BY <2>1 DEF NegInv, Newcomers, CallKept
<1>2. Present'
  <2>1. \A x \in serverCall : x \in Callers
    OBVIOUS
  <2>2. QED
    BY <2>1 DEF NegInv, Present, CallKept, Stays
<1>3. InStages'
  <2>1. \A x \in serverCall : x \in Callers
    OBVIOUS
  <2>2. QED
    BY <2>1 DEF NegInv, InStages, CallKept
<1>4. QED
  BY <1>1, <1>2, <1>3 DEF NegInv

\* A connection to a newcomer.
LEMMA NewConnectionKeeps ==
    ASSUME NEW p \in Callers, NEW q \in Callers, p # q, NEW d, NEW s, NEW t,
           Paired(p, q, NoConnection, d, s, t)
    PROVE  Paired(p, q, CallPeerConnection(p, q), d, s, t)
<1>1. ASSUME p > q PROVE Stage(p, q, CallPeerConnection(p, q), d, s, t)
  BY <1>1, OffererConnects DEF Paired, CallPeerConnection, Stage
<1>2. ASSUME q > p PROVE Stage(q, p, d, CallPeerConnection(p, q), t, s)
  BY <1>2, AnswererConnects, Asymmetric DEF Paired, CallPeerConnection
<1>3. QED
  BY <1>1, <1>2 DEF Paired

\* handleCallPeersEffect
LEMMA ReadCallPeersKeeps ==
    ASSUME NegInv, MeshInv, NEW p \in Callers, ReadCallPeers(p)
    PROVE  NegInv'
<1>0. PICK m : m = Head(wire[p])
  OBVIOUS
<1> DEFINE s == wire[p]
           remote == m.peers \ {p}
<1>1. s # <<>> /\ IsList(m) /\ wire' = Consumed(p) /\ CallKept
  BY <1>0 DEF ReadCallPeers, NextIs, CallKept, IsList
<1>2. /\ \A z \in Callers \ {p} : wire'[z] = wire[z]
      /\ wire'[p] = Tail(s)
      /\ \A z \in Callers : IsSequence(wire[z])
  BY <1>1 DEF Consumed, MeshInv, MeshTypes
<1>3. /\ \A a \in Callers \ {p} : pc'[a] = pc[a]
      /\ InCall(p) =>
            /\ DOMAIN pc'[p] = remote
            /\ \A r \in remote :
                    pc'[p][r] = IF r \in DOMAIN pc[p] THEN pc[p][r] ELSE CallPeerConnection(p, r)
      /\ ~InCall(p) => pc' = pc
  <2>1. ScreenAfterList(callScreen[p], remote) \in InCallScreens <=> InCall(p)
    BY DEF ScreenAfterList, InCall, InCallScreens
  <2>2. CASE InCall(p)
    <3>1. pc' = [pc EXCEPT ![p] = ConnectionsAfterList(p, remote)]
      BY <1>0, <2>1, <2>2 DEF ReadCallPeers
    <3>2. QED
      BY <2>2, <3>1 DEF ConnectionsAfterList, MeshInv, MeshTypes
  <2>3. CASE ~InCall(p)
    BY <1>0, <2>1, <2>3 DEF ReadCallPeers
  <2>4. QED
    BY <2>2, <2>3
<1>4. \A q \in Callers : DOMAIN CallPeerConnection(p, q) = Fields
  BY NewIs, OfferingIs DEF CallPeerConnection, At, Alike
<1>5. \A z \in Callers : DOMAIN pc[z] \subseteq Callers
  BY DEF MeshInv, MeshTypes
<1>6. remote \subseteq Callers
  BY <1>0, <1>1, FirstRead DEF MeshInv, Current, IsList, MeshTypes
<1>7. Records'
  BY <1>3, <1>4, <1>6 DEF NegInv, Records
<1>8. /\ \A a \in Callers \ {p} : \A b \in Callers : Between(a, b)' = Between(a, b)
      /\ ~InCall(p) => \A b \in Callers : Between(p, b)' = Between(p, b)
      /\ InCall(p) =>
            /\ \A r \in remote :
                  Between(p, r)' = IF Between(p, r) = NoConnection THEN CallPeerConnection(p, r)
                                                                   ELSE Between(p, r)
            /\ \A r \in Callers \ remote : Between(p, r)' = NoConnection
  <2>1. \A r \in remote : r \in DOMAIN pc[p] <=> Between(p, r) # NoConnection
    BY BetweenIs DEF NegInv
  <2>2. QED
    BY <1>3, <2>1 DEF Between
<1>9. Newcomers'
  <2>1. joins' \in [Callers -> Nat]
    BY <1>1 DEF NegInv, Newcomers, CallKept
  <2>2. ASSUME NEW x \in Callers, joins'[x] = 0 PROVE x \notin serverCall' /\ Unheard(x)'
    <3>1. x \notin serverCall /\ Unheard(x)
      BY <1>1, <2>2 DEF NegInv, Newcomers, CallKept
    <3>2. \A y \in Callers : Unmentioned(wire[y], x) /\ Between(y, x) = NoConnection
      BY <3>1, UnheardIs
    <3>3. Unmentioned(Tail(s), x) /\ x \notin remote
      BY <1>0, <1>1, <1>2, <3>2, UnmentionedRead DEF ListWith
    <3>4. \A y \in Callers : Unmentioned(wire'[y], x) /\ Between(y, x)' = NoConnection
      BY <1>2, <1>8, <3>2, <3>3
    <3>5. OnlyLists(wire'[x])
      BY <1>1, <1>2, <3>1, UnheardIs, ListsRead
    <3>6. Unheard(x)'
      BY <3>4, <3>5 DEF Unheard, Unmentioned, OnlyLists
    <3>7. QED
      BY <1>1, <3>1, <3>6 DEF CallKept
  <2>3. QED
    BY <2>1, <2>2 DEF Newcomers
<1>10. \A q \in serverCall \ {p} : {p, q} \notin overlap /\ q \notin remote => Between(p, q) = NoConnection
  <2> SUFFICES ASSUME NEW q \in serverCall \ {p}, {p, q} \notin overlap, q \notin remote
               PROVE  Between(p, q) = NoConnection
    OBVIOUS
  <2>1. Stays(s, q, Between(p, q) # NoConnection)
    <3>1. {q, p} = {p, q}
      OBVIOUS
    <3>2. QED
      BY <3>1 DEF NegInv, Present
  <2>2. ListWithout(m, q)
    BY <1>1 DEF ListWithout
  <2>3. QED
    BY <1>0, <1>1, <1>2, <2>1, <2>2, StaysRead
<1>11. Present'
  <2> SUFFICES ASSUME NEW x \in serverCall, NEW y \in Callers \ {x}, {x, y} \notin overlap
               PROVE  Stays(wire'[y], x, (Between(y, x) # NoConnection)')
    BY <1>1 DEF Present, CallKept
  <2> DEFINE known == Between(y, x) # NoConnection
  <2>1. x \in Callers
    BY DEF MeshInv, MeshTypes
  <2>2. Stays(wire[y], x, known)
    BY DEF NegInv, Present
  <2>3. CASE y # p
    <3>1. known' <=> known
      BY <1>8, <2>1, <2>3
    <3>2. QED
      BY <1>2, <2>2, <2>3, <3>1 DEF Stays
  <2>4. CASE y = p /\ x \in remote
    <3>1. ListWith(m, x)
      BY <1>1, <2>4 DEF ListWith
    <3>2. \A k : Stays(Tail(s), x, k)
      BY <1>0, <1>1, <1>2, <2>2, <2>4, <3>1, StaysRead
    <3>3. QED
      BY <1>2, <2>4, <3>2
  <2>5. CASE y = p /\ x \notin remote
    <3>1. {x, y} = {p, x}
      BY <2>5
    <3>2. Between(p, x) = NoConnection /\ Between(p, x)' = NoConnection
      BY <1>8, <1>10, <2>1, <2>5, <3>1
    <3>3. Stays(Tail(s), x, known)
      BY <1>1, <1>2, <2>2, <2>5, StaysRead
    <3>4. known' <=> known
      BY <2>5, <3>2
    <3>5. QED
      BY <1>2, <2>5, <3>3, <3>4 DEF Stays
  <2>6. QED
    BY <2>3, <2>4, <2>5
<1>12. \A x, y \in Callers : Same(wire[y], wire'[y], x)
  <2> SUFFICES ASSUME NEW x \in Callers, NEW y \in Callers
               PROVE  Same(wire[y], wire'[y], x)
    OBVIOUS
  <2>1. CASE y = p
    <3>1. ~SaidBy(m, x)
      BY <1>1 DEF SaidBy
    <3>2. QED
      BY <1>0, <1>1, <1>2, <2>1, <3>1, OthersRead
  <2>2. CASE y # p
    BY <1>2, <2>2, SameAsItIs
  <2>3. QED
    BY <2>1, <2>2
<1>13. InStages'
  <2>1. ASSUME NEW q \in serverCall \ {p}, p \in serverCall, {p, q} \notin overlap
        PROVE  Paired(p, q, Between(p, q)', Between(q, p)', wire'[q], wire'[p])
    <3>1. InCall(p) /\ q \in Callers
      BY <2>1 DEF MeshInv, Attended, MeshTypes
    <3>2. Paired(p, q, Between(p, q), Between(q, p), wire'[q], wire'[p])
      BY <1>12, <2>1, <3>1, BothAreStaged, StageKept DEF Paired
    <3>3. Between(q, p)' = Between(q, p)
      BY <1>8, <3>1
    <3>4. CASE Between(p, q)' = Between(p, q)
      BY <3>2, <3>3, <3>4
    <3>5. CASE Between(p, q) = NoConnection /\ Between(p, q)' = CallPeerConnection(p, q)
      BY <3>1, <3>2, <3>3, <3>5, NewConnectionKeeps
    <3>6. QED
      BY <1>8, <1>10, <2>1, <3>1, <3>4, <3>5
  <2>2. QED
    BY <1>1, <1>8, <1>12, <2>1, OneClient DEF NegInv, MeshInv, MeshTypes
<1>14. QED
  BY <1>7, <1>9, <1>11, <1>13 DEF NegInv

-----------------------------------------------------------------------------
(* Joins and leaves, of which the server tells everyone.                   *)

\* The list that the server sends to everyone.
LEMMA ToldOfCall ==
    ASSUME MeshInv, NEW S, wire' = Announced(wire, S), NEW y \in Callers, NEW x
    PROVE  /\ Same(wire[y], wire'[y], x)
           /\ Unmentioned(wire[y], x) /\ x \notin S => Unmentioned(wire'[y], x)
           /\ OnlyLists(wire[y]) => OnlyLists(wire'[y])
           /\ \A known : x \in S /\ Stays(wire[y], x, known) => Stays(wire'[y], x, known)
<1> DEFINE m == CallPeersList(S)
<1>1. IsSequence(wire[y]) /\ wire'[y] = Append(wire[y], m)
  BY DEF MeshInv, MeshTypes, Announced
<1>2. IsList(m) /\ m.peers = S
  BY DEF IsList, CallPeersList
<1> HIDE DEF m
<1>3. ~SaidBy(m, x) /\ (ListWith(m, x) <=> x \in S) /\ (ListWithout(m, x) <=> x \notin S)
  BY <1>2 DEF SaidBy, ListWith, ListWithout
<1>4. QED
  BY <1>1, <1>2, <1>3, OthersSay, UnmentionedAppended, ListsAppended, StaysAppended

\* Between one who joins and another, nothing is left of the calls before, unless they overlap.
LEMMA JoinerIsFresh ==
    ASSUME NegInv, MeshInv, NEW p \in Callers, MediaAcquired(p), NEW y \in Callers \ {p},
           {p, y} \notin overlap'
    PROVE  /\ Between(p, y) = NoConnection /\ Between(y, p) = NoConnection
           /\ Unmentioned(wire[y], p) /\ Silent(wire[p], y)
<1>1. Between(p, y) = NoConnection
  BY DEF MediaAcquired, MeshInv, Attended, InCall, InCallScreens, Between
<1>2. CASE joins[p] = 0
  <2>1. Unheard(p)
    BY <1>2 DEF NegInv, Newcomers
  <2>2. \A i \in 1 .. Len(wire[p]) : ~SaidBy(wire[p][i], y)
    BY <2>1 DEF Unheard, SaidBy
  <2>3. QED
    BY <1>1, <2>1, <2>2, UnheardIs DEF Silent
<1>3. CASE joins[p] # 0
  <2>1. joins[p] > 0
    BY <1>3 DEF NegInv, Newcomers
  <2>2. ~NotDoneWith(p, y)
    BY <2>1 DEF MediaAcquired
  <2>3. p \notin DOMAIN pc[y] /\ wire[p] = <<>> /\ wire[y] = <<>>
    BY <2>2 DEF NotDoneWith
  <2>4. Between(y, p) = NoConnection
    BY <2>3 DEF Between
  <2>5. QED
    BY <1>1, <2>3, <2>4 DEF Unmentioned, Silent
<1>4. QED
  BY <1>2, <1>3

\* MEDIA_ACQUIRED
LEMMA MediaAcquiredKeeps ==
    ASSUME NegInv, MeshInv, NEW p \in Callers, MediaAcquired(p)
    PROVE  NegInv'
<1>1. /\ serverCall' = serverCall \cup {p} /\ wire' = Announced(wire, serverCall') /\ pc' = pc
      /\ joins' = [joins EXCEPT ![p] = @ + 1] /\ overlap \subseteq overlap'
  BY DEF MediaAcquired
<1>2. serverCall \subseteq Callers /\ p \notin serverCall
  BY DEF MediaAcquired, MeshInv, MeshTypes, Attended, InCall, InCallScreens
<1>3. Records' /\ \A a, b : Between(a, b)' = Between(a, b)
  BY <1>1, UnchangedBetween
<1>4. Newcomers'
  <2>1. joins \in [Callers -> Nat]
    BY DEF NegInv, Newcomers
  <2>2. joins' \in [Callers -> Nat]
    BY <1>1, <2>1
  <2>3. ASSUME NEW x \in Callers, joins'[x] = 0 PROVE x \notin serverCall' /\ Unheard(x)'
    <3>1. x # p /\ joins[x] = 0
      BY <1>1, <2>1, <2>3
    <3>2. x \notin serverCall /\ Unheard(x)
      BY <3>1 DEF NegInv, Newcomers
    <3>3. x \notin serverCall'
      BY <1>1, <3>1, <3>2
    <3>4. \A y \in Callers : Unmentioned(wire'[y], x) /\ Between(y, x)' = NoConnection
      BY <1>1, <1>3, <3>2, <3>3, UnheardIs, ToldOfCall
    <3>5. OnlyLists(wire'[x])
      BY <1>1, <3>2, UnheardIs, ToldOfCall
    <3>6. Unheard(x)'
      BY <3>4, <3>5 DEF Unheard, Unmentioned, OnlyLists
    <3>7. QED
      BY <3>3, <3>6
  <2>4. QED
    BY <2>2, <2>3 DEF Newcomers
<1>5. Present'
  <2> SUFFICES ASSUME NEW x \in serverCall', NEW y \in Callers \ {x}, {x, y} \notin overlap'
               PROVE  Stays(wire'[y], x, (Between(y, x) # NoConnection)')
    BY DEF Present
  <2>1. Stays(wire[y], x, Between(y, x) # NoConnection)
    <3>1. CASE x = p
      <4>1. Between(y, p) = NoConnection /\ Unmentioned(wire[y], p)
        BY <3>1, JoinerIsFresh
      <4>2. \A i \in 1 .. Len(wire[y]) : ~SaidBy(wire[y][i], p) /\ ~ListWith(wire[y][i], p)
        BY <4>1 DEF Unmentioned, Silent
      <4>3. IsSequence(wire[y])
        BY DEF MeshInv, MeshTypes
      <4>4. \A j \in 1 .. Len(wire[y]) : \A i \in 1 .. j - 1 : i \in 1 .. Len(wire[y])
        BY <4>3 DEF IsSequence
      <4>5. QED
        BY <3>1, <4>1, <4>2, <4>4 DEF Stays
    <3>2. CASE x # p
      BY <1>1, <3>2 DEF NegInv, Present
    <3>3. QED
      BY <3>1, <3>2
  <2>2. Stays(wire'[y], x, Between(y, x) # NoConnection)
    BY <1>1, <2>1, ToldOfCall
  <2>3. QED
    BY <1>3, <2>2
<1>6. InStages'
  <2> SUFFICES ASSUME NEW x \in serverCall', NEW y \in serverCall', x > y, {x, y} \notin overlap'
               PROVE  Stage(x, y, Between(x, y)', Between(y, x)', wire'[y], wire'[x])
    BY DEF InStages
  <2>1. x \in Callers /\ y \in Callers
    BY <1>1, <1>2
  <2>2. x # y
    BY <2>1, CallersAssumption
  <2>3. {y, x} = {x, y}
    OBVIOUS
  <2>4. Stage(x, y, Between(x, y), Between(y, x), wire[y], wire[x])
    <3>1. CASE x = p
      BY <2>1, <2>2, <3>1, JoinerIsFresh DEF Stage, Begins, Untouched, Unmentioned
    <3>2. CASE y = p
      BY <2>1, <2>2, <2>3, <3>2, JoinerIsFresh DEF Stage, Begins, Untouched, Unmentioned
    <3>3. CASE x # p /\ y # p
      BY <1>1, <3>3 DEF NegInv, InStages
    <3>4. QED
      BY <3>1, <3>2, <3>3
  <2>5. Same(wire[y], wire'[y], x) /\ Same(wire[x], wire'[x], y)
    BY <1>1, <2>1, ToldOfCall
  <2>6. QED
    BY <1>3, <2>4, <2>5, StageKept
<1>7. QED
  BY <1>3, <1>4, <1>5, <1>6 DEF NegInv

\* cleanupCallResources
LEMMA CleanedUpKeeps ==
    ASSUME NegInv, MeshInv, NEW p \in Callers, CleanedUp(p), UNCHANGED <<joins, overlap>>
    PROVE  NegInv'
<1>1. (\A a \in Callers \ {p} : pc'[a] = pc[a]) /\ DOMAIN pc'[p] = {}
  BY DEF CleanedUp, Empty, MeshInv, MeshTypes
<1>2. Records'
  BY <1>1 DEF NegInv, Records
<1>3. /\ \A a \in Callers \ {p} : \A b : Between(a, b)' = Between(a, b)
      /\ \A b : Between(p, b)' = NoConnection
  BY <1>1 DEF Between
<1>4. serverCall \subseteq Callers
  BY DEF MeshInv, MeshTypes
<1>5. CASE ~InCall(p)
  <2>1. \A b : Between(p, b) = NoConnection
    BY <1>5 DEF MeshInv, Attended, Between
  <2>2. wire' = wire /\ CallKept
    BY <1>5 DEF CleanedUp, CallKept
  <2>3. QED
    BY <1>2, <1>3, <1>4, <2>1, <2>2, QuietKeeps
<1>6. CASE InCall(p)
  <2>1. /\ serverCall' = serverCall \ {p} /\ wire' = Announced(wire, serverCall')
        /\ joins' = joins /\ overlap' = overlap
    BY <1>6 DEF CleanedUp
  <2>2. Newcomers'
    <3>1. joins' \in [Callers -> Nat]
      BY <2>1 DEF NegInv, Newcomers
    <3>2. ASSUME NEW x \in Callers, joins'[x] = 0 PROVE x \notin serverCall' /\ Unheard(x)'
      <4>1. x \notin serverCall' /\ Unheard(x)
        BY <2>1, <3>2 DEF NegInv, Newcomers
      <4>2. \A y \in Callers : Unmentioned(wire'[y], x) /\ Between(y, x)' = NoConnection
        BY <1>3, <2>1, <4>1, UnheardIs, ToldOfCall
      <4>3. OnlyLists(wire'[x])
        BY <2>1, <4>1, UnheardIs, ToldOfCall
      <4>4. Unheard(x)'
        BY <4>2, <4>3 DEF Unheard, Unmentioned, OnlyLists
      <4>5. QED
        BY <4>1, <4>4
    <3>3. QED
      BY <3>1, <3>2 DEF Newcomers
  <2>3. Present'
    <3> SUFFICES ASSUME NEW x \in serverCall', NEW y \in Callers \ {x}, {x, y} \notin overlap
                 PROVE  Stays(wire'[y], x, (Between(y, x) # NoConnection)')
      BY <2>1 DEF Present
    <3> DEFINE known == Between(y, x) # NoConnection
    <3>1. Stays(wire[y], x, known)
      BY <2>1 DEF NegInv, Present
    <3>2. Stays(wire'[y], x, known)
      BY <2>1, <3>1, ToldOfCall
    <3>3. known' => known
      BY <1>3
    <3>4. QED
      BY <3>2, <3>3 DEF Stays
  <2>4. InStages'
    <3> SUFFICES ASSUME NEW x \in serverCall', NEW y \in serverCall', x > y, {x, y} \notin overlap
                 PROVE  Stage(x, y, Between(x, y)', Between(y, x)', wire'[y], wire'[x])
      BY <2>1 DEF InStages
    <3>1. x \in Callers \ {p} /\ y \in Callers \ {p}
      BY <1>4, <2>1
    <3>2. Stage(x, y, Between(x, y), Between(y, x), wire[y], wire[x])
      BY <2>1 DEF NegInv, InStages
    <3>3. Same(wire[y], wire'[y], x) /\ Same(wire[x], wire'[x], y)
      BY <2>1, <3>1, ToldOfCall
    <3>4. QED
      BY <1>3, <3>1, <3>2, <3>3, StageKept
  <2>5. QED
    BY <1>2, <2>2, <2>3, <2>4 DEF NegInv
<1>7. QED
  BY <1>5, <1>6

-----------------------------------------------------------------------------
(* All steps.                                                              *)

\* RTC_FAILED, and rejections.
LEMMA FailureKeeps ==
    ASSUME NegInv, MeshInv, NEW p \in Callers, NEW q \in Callers, Rejected(p, q) \/ Fails(p, q)
    PROVE  NegInv'
<1>1. UNCHANGED <<joins, overlap>> /\ serverCall \subseteq Callers
  BY DEF Rejected, Fails, RtcFailed, MeshInv, MeshTypes
<1>2. CASE CleanedUp(p)
  BY <1>1, <1>2, CleanedUpKeeps
<1>3. CASE Rejected(p, q) /\ ~CleanedUp(p)
  <2>1. pc' = [pc EXCEPT ![p][q] = Done(@)] /\ wire' = wire /\ CallKept
    BY <1>1, <1>3 DEF Rejected, RtcFailed, CallKept
  <2>2. /\ q \in DOMAIN pc[p] /\ pc[p][q].ops # <<>>
        /\ Head(pc[p][q].ops).op \in DOMAIN Needed
        /\ pc[p][q].sig # Needed[Head(pc[p][q].ops).op]
    BY <1>3 DEF Rejected
  <2>3. QED
    BY <2>1, <2>2, NothingRejected, RejectionKeeps
<1>4. CASE Fails(p, q) /\ ~CleanedUp(p)
  <2>1. pc' = pc /\ wire' = wire /\ CallKept
    BY <1>1, <1>4 DEF Fails, RtcFailed, CallKept
  <2>2. QED
    BY <1>1, <2>1, UnchangedBetween, QuietKeeps
<1>5. QED
  BY <1>2, <1>3, <1>4

\* Every step keeps every pair that did not overlap in one of the stages.
LEMMA NegInductive == MeshSpec => []NegInv
<1>1. MeshInit => NegInv
  <2> SUFFICES ASSUME MeshInit
               PROVE  NegInv
    OBVIOUS
  <2>1. /\ joins = [p \in Callers |-> 0] /\ serverCall = {}
        /\ \A p \in Callers : wire[p] = <<>> /\ DOMAIN pc[p] = {}
    BY DEF MeshInit, Empty
  <2>2. Records /\ \A p \in Callers : \A q : Between(p, q) = NoConnection
    BY <2>1 DEF Records, Between
  <2>3. Newcomers
    BY <2>1, <2>2 DEF Newcomers, Unheard, Silent
  <2>4. QED
    BY <2>1, <2>2, <2>3 DEF NegInv, Present, InStages
<1>2. MeshInv /\ NegInv /\ [MeshNext]_meshVars => NegInv'
  <2> SUFFICES ASSUME MeshInv, NegInv, [MeshNext]_meshVars
               PROVE  NegInv'
    OBVIOUS
  <2>1. ASSUME UNCHANGED <<serverCall, wire, pc, joins, overlap>> PROVE NegInv'
    BY <2>1, UnchangedBetween, QuietKeeps DEF CallKept, MeshInv, MeshTypes
  <2>2. ASSUME NEW p \in Callers, CallerStep(p)
        PROVE  NegInv'
    <3>1. CASE SwitchToCall(p)
      BY <2>1, <3>1 DEF SwitchToCall
    <3>2. CASE MediaAcquired(p)
      BY <3>2, MediaAcquiredKeeps
    <3>3. CASE HangUp(p) \/ Dismiss(p)
      BY <3>3, CleanedUpKeeps DEF HangUp, Dismiss
    <3>4. CASE ReadCallPeers(p)
      BY <3>4, ReadCallPeersKeeps
    <3>5. CASE ReadOffer(p)
      BY <3>5, ReadOfferKeeps
    <3>6. CASE ReadAnswer(p)
      BY <3>6, ReadAnswerKeeps
    <3>7. CASE ReadCandidate(p)
      BY <3>7, ReadCandidateKeeps
    <3>8. QED
      BY <2>2, <3>1, <3>2, <3>3, <3>4, <3>5, <3>6, <3>7 DEF CallerStep
  <2>3. ASSUME NEW p \in Callers, NEW q \in Callers, ConnectionStep(p, q)
        PROVE  NegInv'
    <3>1. CASE CreateOffer(p, q)
      BY <3>1, CreateOfferKeeps
    <3>2. CASE SetOffer(p, q)
      BY <3>2, SetOfferKeeps
    <3>3. CASE AcceptOffer(p, q)
      BY <3>3, AcceptOfferKeeps
    <3>4. CASE CreateAnswer(p, q)
      BY <3>4, CreateAnswerKeeps
    <3>5. CASE SetAnswer(p, q)
      BY <3>5, SetAnswerKeeps
    <3>6. CASE AcceptAnswer(p, q)
      BY <3>6, AcceptAnswerKeeps
    <3>7. CASE Gather(p, q)
      BY <3>7, GatherKeeps
    <3>8. CASE Rejected(p, q) \/ Fails(p, q)
      BY <3>8, FailureKeeps
    <3>9. CASE Connected(p, q) \/ Disconnected(p, q)
      BY <2>1, <3>9 DEF Connected, Disconnected
    <3>10. QED
      BY <2>3, <3>1, <3>2, <3>3, <3>4, <3>5, <3>6, <3>7, <3>8, <3>9 DEF ConnectionStep
  <2>4. CASE UNCHANGED meshVars
    BY <2>1, <2>4 DEF meshVars
  <2>5. QED
    BY <2>2, <2>3, <2>4 DEF MeshNext
<1>3. QED
  BY <1>1, <1>2, MeshInductive, PTL DEF MeshSpec

\* Where nothing is under way, the two agree.
LEMMA StillAgreed ==
    ASSUME NEW x, NEW y, NEW c, NEW d, Stage(x, y, c, d, <<>>, <<>>), c # NoConnection, d # NoConnection,
           c.ops = <<>>, d.ops = <<>>, c.gathered, d.gathered
    PROVE  /\ c.sig = "stable" /\ d.sig = "stable"
           /\ c.local # NoDescription /\ c.local = d.remote /\ c.remote = d.local
           /\ d.local # NoDescription
           /\ c.pending = {} /\ c.added = {d.local} /\ d.pending = {} /\ d.added = {c.local}
<1>1. \A z, type, o : ~Opens(<<>>, z, type, o) /\ ~Coming(<<>>, z, o)
  BY DEF Opens, Coming
<1>2. \A e : <<e>> # <<>>
  BY OneOp
<1>3. ~Begins(x, y, c, d, <<>>, <<>>)
  BY DEF Begins
<1>4. ~Offers(x, y, c, d, <<>>, <<>>)
  BY <1>2 DEF Offers, OfferOps
<1>5. ~Offered(x, y, c, d, <<>>, <<>>)
  BY <1>1 DEF Offered
<1>6. ~Accepts(x, y, c, d, <<>>, <<>>)
  BY <1>2 DEF Accepts, At
<1>7. ~Answers(x, y, c, d, <<>>, <<>>)
  BY <1>2 DEF Answers, AnswerOps
<1>8. ~Answered(x, y, c, d, <<>>, <<>>)
  BY <1>1 DEF Answered
<1>9. ~Concludes(x, y, c, d, <<>>, <<>>)
  BY <1>2 DEF Concludes, Waits, At
<1>10. Agreed(x, y, c, d, <<>>, <<>>)
  BY <1>3, <1>4, <1>5, <1>6, <1>7, <1>8, <1>9 DEF Stage
<1>11. /\ d.added \subseteq {c.local} /\ c.local \in d.pending \cup d.added
       /\ c.added \subseteq {d.local} /\ d.local \in c.pending \cup c.added
  BY <1>1, <1>10 DEF Agreed, Gave, Taken
<1>12. QED
  BY <1>10, <1>11 DEF Agreed, Gave, At

\* Where nothing is under way, each pair in the call agrees.
LEMMA StillPair ==
    ASSUME NegInv, MeshInv, MeshStill, NEW p \in serverCall, NEW q \in serverCall \ {p},
           {p, q} \notin overlap
    PROVE  LET c == pc[p][q]
               d == pc[q][p]
           IN  /\ q \in DOMAIN pc[p] /\ p \in DOMAIN pc[q]
               /\ c.sig = "stable" /\ c.local # NoDescription
               /\ c.local = d.remote /\ c.remote = d.local
               /\ c.pending = {} /\ c.added = {d.local}
<1>1. p \in Callers /\ q \in Callers
  BY DEF MeshInv, MeshTypes
<1>2. wire[p] = <<>> /\ wire[q] = <<>>
  BY <1>1 DEF MeshStill
<1>3. UpToDate(p) /\ UpToDate(q)
  <2>1. ~ListAfter(wire[p], 0) /\ ~ListAfter(wire[q], 0)
    BY <1>2 DEF ListAfter
  <2>2. QED
    BY <1>1, <2>1 DEF MeshInv, Attended
<1>4. q \in DOMAIN pc[p] /\ p \in DOMAIN pc[q]
  BY <1>3 DEF UpToDate
<1>5. /\ Between(p, q) = pc[p][q] /\ Between(p, q) # NoConnection
      /\ Between(q, p) = pc[q][p] /\ Between(q, p) # NoConnection
  BY <1>1, <1>4, BetweenIs DEF NegInv
<1>6. /\ pc[p][q].ops = <<>> /\ pc[p][q].gathered
      /\ pc[q][p].ops = <<>> /\ pc[q][p].gathered
  BY <1>1, <1>4 DEF MeshStill
<1>7. \/ Stage(p, q, pc[p][q], pc[q][p], <<>>, <<>>)
      \/ Stage(q, p, pc[q][p], pc[p][q], <<>>, <<>>)
  BY <1>2, <1>5, BothAreStaged
<1>8. QED
  BY <1>4, <1>5, <1>6, <1>7, StillAgreed

\* Every pair in a call ends up stable on descriptions of each other's connection
\* (handleOffer, handleAnswer), for any number of callers.
THEOREM AlwaysNegotiated == MeshSpec => []Negotiated
<1>1. NegInv /\ MeshInv => Negotiated
  BY StillPair DEF Negotiated, Matched
<1>2. QED
  BY <1>1, NegInductive, MeshInductive, PTL

\* Every candidate reaches the other's connection (handleIceCandidate,
\* flushPendingCandidates), for any number of callers.
THEOREM NoCandidateLost == MeshSpec => []CandidatesApplied
<1>1. NegInv /\ MeshInv => CandidatesApplied
  BY StillPair DEF CandidatesApplied
<1>2. QED
  BY <1>1, NegInductive, MeshInductive, PTL

-----------------------------------------------------------------------------
(* Types, for any set of callers.                                          *)
(*                                                                         *)
(* That no connection makes an offer in another signalling state than      *)
(* "stable" needs to know that nothing else is asked of it meanwhile; and  *)
(* that an answer is a description, that the offer it answers is there.    *)

Described == Description \ {NoDescription}
MessageTyped(m) ==
    /\ m.type \in Openings => m.sdp \in Described
    /\ m.type = "ice-candidate" => m.sdp \in Description
OpTyped(e) ==
    e.op \in {"setOffer", "acceptOffer", "setAnswer", "acceptAnswer"} => e.sdp \in Described
Making(e) == e.op \in {"createOffer", "setOffer"}

\* c is one of the first n connections to somebody.
ConnectionTyped(c, n) ==
    /\ DOMAIN c = Fields
    /\ c.id \in 1 .. n
    /\ c.sig \in {"stable", "have-local-offer", "have-remote-offer"}
    /\ c.local \in Description /\ c.remote \in Description
    /\ c.pending \subseteq Description /\ c.added \subseteq Description
    /\ c.sig = "have-remote-offer" => c.remote # NoDescription
    /\ IsSequence(c.ops) /\ \A i \in 1 .. Len(c.ops) : OpTyped(c.ops[i])
    /\ c.making \in BOOLEAN
    /\ c.making => c.sig = "stable" /\ Len(c.ops) = 1 /\ Making(c.ops[1])
    /\ ~c.making => \A i \in 1 .. Len(c.ops) : ~Making(c.ops[i])

MeshTyped ==
    /\ DOMAIN states = Callers /\ \A p \in Callers : DOMAIN states[p] \subseteq Callers \ {p}
    /\ made \in [Callers -> [Callers -> Nat]]
    /\ \A p \in Callers : \A i \in 1 .. Len(wire[p]) : MessageTyped(wire[p][i])
    /\ \A p \in Callers : \A q \in DOMAIN pc[p] : ConnectionTyped(pc[p][q], made[p][q])

-----------------------------------------------------------------------------
(* What a connection is after a step.                                      *)

\* A message is sent.
LEMMA MessageSent ==
    ASSUME NEW s, IsSequence(s), \A i \in 1 .. Len(s) : MessageTyped(s[i]), NEW m, MessageTyped(m)
    PROVE  \A i \in 1 .. Len(Append(s, m)) : MessageTyped(Append(s, m)[i])
<1> DEFINE t == Append(s, m)
<1>1. /\ Len(t) = Len(s) + 1 /\ Len(s) \in Nat
      /\ t[Len(s) + 1] = m /\ \A i \in 1 .. Len(s) : t[i] = s[i]
  BY AppendedTo
<1> HIDE DEF t
<1>2. \A i \in 1 .. Len(t) : i \in 1 .. Len(s) \/ i = Len(s) + 1
  BY <1>1
<1>3. QED
  BY <1>1, <1>2 DEF t

\* A message is read.
LEMMA MessageGone ==
    ASSUME NEW s, IsSequence(s), s # <<>>, \A i \in 1 .. Len(s) : MessageTyped(s[i])
    PROVE  MessageTyped(Head(s)) /\ \A i \in 1 .. Len(Tail(s)) : MessageTyped(Tail(s)[i])
<1> DEFINE t == Tail(s)
<1>1. /\ Len(t) = Len(s) - 1 /\ Len(s) \in Nat \ {0} /\ Head(s) = s[1]
      /\ \A i \in 1 .. Len(t) : t[i] = s[i + 1]
  BY TailOf
<1> HIDE DEF t
<1>2. 1 \in 1 .. Len(s) /\ \A i \in 1 .. Len(t) : i + 1 \in 1 .. Len(s)
  BY <1>1
<1>3. QED
  BY <1>1, <1>2 DEF t

\* The promise at the head settles.
LEMMA DoneTyped ==
    ASSUME NEW c, NEW n, ConnectionTyped(c, n), c.ops # <<>>
    PROVE  LET b == Done(c) IN
           /\ Alike(b, c, {"ops"})
           /\ OpTyped(Head(c.ops)) /\ (c.making <=> Making(Head(c.ops)))
           /\ IsSequence(b.ops) /\ \A i \in 1 .. Len(b.ops) : OpTyped(b.ops[i])
           /\ c.making => Len(b.ops) = 0
           /\ ~c.making => \A i \in 1 .. Len(b.ops) : ~Making(b.ops[i])
<1> DEFINE t == Tail(c.ops)
<1>1. IsSequence(c.ops) /\ DOMAIN c = Fields
  BY DEF ConnectionTyped
<1>2. /\ Len(t) = Len(c.ops) - 1 /\ Len(c.ops) \in Nat \ {0} /\ Head(c.ops) = c.ops[1]
      /\ IsSequence(t) /\ \A i \in 1 .. Len(t) : t[i] = c.ops[i + 1]
  BY <1>1, TailOf
<1>3. Alike(Done(c), c, {"ops"}) /\ Done(c).ops = t
  BY <1>1, DoneIs
<1> HIDE DEF t
<1>4. 1 \in 1 .. Len(c.ops) /\ \A i \in 1 .. Len(t) : i + 1 \in 1 .. Len(c.ops)
  BY <1>2
<1>5. /\ \A i \in 1 .. Len(c.ops) : OpTyped(c.ops[i])
      /\ c.making \in BOOLEAN
      /\ c.making => Len(c.ops) = 1 /\ Making(c.ops[1])
      /\ ~c.making => \A i \in 1 .. Len(c.ops) : ~Making(c.ops[i])
  BY DEF ConnectionTyped
<1>6. OpTyped(Head(c.ops)) /\ (c.making <=> Making(Head(c.ops)))
  BY <1>2, <1>4, <1>5
<1>7. /\ \A i \in 1 .. Len(t) : OpTyped(t[i])
      /\ c.making => Len(t) = 0
      /\ ~c.making => \A i \in 1 .. Len(t) : ~Making(t[i])
  BY <1>2, <1>4, <1>5
<1>8. QED
  BY <1>2, <1>3, <1>6, <1>7

\* A method is called.
LEMMA Queued ==
    ASSUME NEW c, DOMAIN c = Fields, IsSequence(c.ops), \A i \in 1 .. Len(c.ops) : OpTyped(c.ops[i]),
           NEW op, NEW o, NEW e, e = [op |-> op, sdp |-> o], OpTyped(e)
    PROVE  LET b == Queue(c, op, o) IN
           /\ Alike(b, c, {"ops"})
           /\ IsSequence(b.ops) /\ \A i \in 1 .. Len(b.ops) : OpTyped(b.ops[i])
           /\ Len(b.ops) = Len(c.ops) + 1 /\ Len(c.ops) \in Nat
           /\ \A i \in 1 .. Len(c.ops) : b.ops[i] = c.ops[i]
           /\ b.ops[Len(c.ops) + 1] = e /\ e.op = op
<1> DEFINE t == Append(c.ops, e)
<1>1. OpTyped(e) /\ e.op = op
  OBVIOUS
<1>2. /\ Len(t) = Len(c.ops) + 1 /\ Len(c.ops) \in Nat /\ IsSequence(t)
      /\ t[Len(c.ops) + 1] = e /\ \A i \in 1 .. Len(c.ops) : t[i] = c.ops[i]
  BY AppendedTo
<1>3. Alike(Queue(c, op, o), c, {"ops"}) /\ Queue(c, op, o).ops = t
  BY DEF Queue, Fields, Alike
<1> HIDE DEF t
<1>4. \A i \in 1 .. Len(t) : i \in 1 .. Len(c.ops) \/ i = Len(c.ops) + 1
  BY <1>2
<1>5. QED
  BY <1>1, <1>2, <1>3, <1>4

\* A method that makes no offer is called on a connection that makes none.
LEMMA QueuedTyped ==
    ASSUME NEW c, NEW n, ConnectionTyped(c, n), ~c.making, NEW op, NEW o,
           NEW e, e = [op |-> op, sdp |-> o], OpTyped(e), ~Making(e)
    PROVE  ConnectionTyped(Queue(c, op, o), n)
<1> DEFINE b == Queue(c, op, o)
<1>1. DOMAIN c = Fields /\ IsSequence(c.ops) /\ \A i \in 1 .. Len(c.ops) : OpTyped(c.ops[i])
  BY DEF ConnectionTyped
<1>2. /\ Alike(b, c, {"ops"})
      /\ IsSequence(b.ops) /\ \A i \in 1 .. Len(b.ops) : OpTyped(b.ops[i])
      /\ Len(b.ops) = Len(c.ops) + 1 /\ Len(c.ops) \in Nat
      /\ \A i \in 1 .. Len(c.ops) : b.ops[i] = c.ops[i]
      /\ b.ops[Len(c.ops) + 1] = e /\ ~Making(e)
  BY <1>1, Queued
<1> HIDE DEF b
<1>3. \A i \in 1 .. Len(b.ops) : i \in 1 .. Len(c.ops) \/ i = Len(c.ops) + 1
  BY <1>2
<1>4. \A i \in 1 .. Len(b.ops) : ~Making(b.ops[i])
  BY <1>2, <1>3 DEF ConnectionTyped
<1>5. QED
  BY <1>2, <1>4 DEF ConnectionTyped, Alike, Fields, b

\* A new connection, and one whose offer begins.
LEMMA NewTyped ==
    ASSUME MeshTyped, NEW p \in Callers, NEW q \in Callers
    PROVE  /\ ConnectionTyped(NewConnection(p, q), made[p][q] + 1) /\ ~NewConnection(p, q).making
           /\ NewConnection(p, q).id = made[p][q] + 1
           /\ ConnectionTyped(CallPeerConnection(p, q), made[p][q] + 1)
<1> DEFINE c == NewConnection(p, q)
           b == Offering(c)
           e == [op |-> "createOffer"]
<1>1. made[p][q] + 1 \in 1 .. made[p][q] + 1
  BY DEF MeshTyped
<1>2. At(c, "stable", NoDescription, <<>>) /\ ~c.making /\ c.making \in BOOLEAN
      /\ c.local = NoDescription /\ c.pending = {} /\ c.added = {} /\ c.id = made[p][q] + 1
  BY NewIs DEF NewConnection
<1>3. NoDescription \in Description
  BY DEF Description
<1>4. Len(<<>>) = 0 /\ IsSequence(<<>>)
  BY DEF IsSequence
<1> HIDE DEF c
<1>5. ConnectionTyped(c, made[p][q] + 1)
  BY <1>1, <1>2, <1>3, <1>4 DEF ConnectionTyped, At
<1>6. Alike(b, c, {"making", "ops"}) /\ b.ops = <<e>> /\ b.making = TRUE
  BY <1>2, OfferingIs DEF At, Offering, Fields
<1>7. e.op = "createOffer"
  OBVIOUS
<1>8. Making(e) /\ OpTyped(e)
  BY <1>7 DEF Making, OpTyped
<1> HIDE DEF b, e
<1>9. Len(<<e>>) = 1 /\ IsSequence(<<e>>) /\ <<e>>[1] = e
  BY DEF IsSequence
<1>10. ConnectionTyped(b, made[p][q] + 1)
  <2>1. /\ b.id = c.id /\ b.sig = "stable" /\ b.local = c.local /\ b.remote = NoDescription
        /\ b.pending = c.pending /\ b.added = c.added /\ DOMAIN b = Fields
    BY <1>2, <1>6 DEF Alike, Fields, At
  <2>2. IsSequence(b.ops) /\ Len(b.ops) = 1 /\ b.ops[1] = e
    BY <1>6, <1>9
  <2>3. \A i \in 1 .. Len(b.ops) : OpTyped(b.ops[i])
    BY <1>8, <2>2
  <2>4. QED
    BY <1>2, <1>3, <1>1, <1>6, <1>8, <2>1, <2>2, <2>3 DEF ConnectionTyped
<1>11. QED
  BY <1>2, <1>5, <1>10 DEF CallPeerConnection, b, c

-----------------------------------------------------------------------------
(* The steps.                                                              *)

WiresTyped == \A p \in Callers : \A i \in 1 .. Len(wire[p]) : MessageTyped(wire[p][i])

\* Lists of the call are sent to all, or one message to one.
LEMMA SentTyped ==
    ASSUME MeshInv, WiresTyped,
           \/ wire' = wire
           \/ \E S : wire' = Announced(wire, S)
           \/ \E q, m : MessageTyped(m) /\ wire' = Sent(wire, q, m)
    PROVE  WiresTyped'
<1> SUFFICES ASSUME NEW r \in Callers
             PROVE  \A i \in 1 .. Len(wire'[r]) : MessageTyped(wire'[r][i])
  BY DEF WiresTyped
<1>1. DOMAIN wire = Callers /\ IsSequence(wire[r]) /\ \A i \in 1 .. Len(wire[r]) : MessageTyped(wire[r][i])
  BY DEF MeshInv, MeshTypes, WiresTyped
<1>2. ASSUME NEW S, wire' = Announced(wire, S)
      PROVE  \A i \in 1 .. Len(wire'[r]) : MessageTyped(wire'[r][i])
  <2>1. wire'[r] = Append(wire[r], CallPeersList(S))
    BY <1>2 DEF Announced
  <2>2. MessageTyped(CallPeersList(S))
    BY DEF MessageTyped, CallPeersList, Openings
  <2>3. QED
    BY <1>1, <2>1, <2>2, MessageSent
<1>3. ASSUME NEW q, NEW m, MessageTyped(m), wire' = Sent(wire, q, m)
      PROVE  \A i \in 1 .. Len(wire'[r]) : MessageTyped(wire'[r][i])
  <2>1. wire'[r] = wire[r] \/ wire'[r] = Append(wire[r], m)
    BY <1>1, <1>3 DEF Sent
  <2>2. QED
    BY <1>1, <1>3, <2>1, MessageSent
<1>4. QED
  BY <1>1, <1>2, <1>3

\* One message is read.
LEMMA ReadTyped ==
    ASSUME MeshInv, WiresTyped, NEW p \in Callers, wire[p] # <<>>, wire' = Consumed(p)
    PROVE  WiresTyped' /\ MessageTyped(Head(wire[p]))
<1>1. /\ \A r \in Callers : IsSequence(wire[r]) /\ \A i \in 1 .. Len(wire[r]) : MessageTyped(wire[r][i])
      /\ wire'[p] = Tail(wire[p]) /\ \A r \in Callers \ {p} : wire'[r] = wire[r]
  BY DEF MeshInv, MeshTypes, WiresTyped, Consumed
<1>2. MessageTyped(Head(wire[p])) /\ \A i \in 1 .. Len(Tail(wire[p])) : MessageTyped(Tail(wire[p])[i])
  BY <1>1, MessageGone
<1>3. QED
  BY <1>1, <1>2 DEF WiresTyped

\* One connection becomes v.
LEMMA ConnectionBecomes ==
    ASSUME MeshInv, MeshTyped, WiresTyped', NEW p \in Callers, NEW q \in DOMAIN pc[p], NEW v,
           ConnectionTyped(v, made[p][q]), pc' = [pc EXCEPT ![p] = [pc[p] EXCEPT ![q] = v]],
           UNCHANGED <<states, made>>
    PROVE  MeshTyped'
<1>1. /\ \A a \in Callers \ {p} : pc'[a] = pc[a]
      /\ DOMAIN pc'[p] = DOMAIN pc[p] /\ pc'[p][q] = v
      /\ \A r \in DOMAIN pc[p] \ {q} : pc'[p][r] = pc[p][r]
  BY DEF MeshInv, MeshTypes
<1>2. ASSUME NEW a \in Callers, NEW r \in DOMAIN pc'[a] PROVE ConnectionTyped(pc'[a][r], made[a][r])
  <2>1. CASE a = p /\ r = q
    BY <1>1, <2>1
  <2>2. CASE ~(a = p /\ r = q)
    <3>1. r \in DOMAIN pc[a] /\ pc'[a][r] = pc[a][r]
      BY <1>1, <1>2, <2>2
    <3>2. QED
      BY <3>1 DEF MeshTyped
  <2>3. QED
    BY <2>1, <2>2
<1>3. QED
  BY <1>2 DEF MeshTyped, WiresTyped

\* The wires, of which MeshTyped says the same.
LEMMA WiresAre == MeshTyped => WiresTyped
  BY DEF MeshTyped, WiresTyped

\* Connections are as they were or gone.
LEMMA ConnectionsKept ==
    ASSUME MeshInv, MeshTyped, WiresTyped', made' = made,
           DOMAIN states' = Callers, \A p \in Callers : DOMAIN states'[p] \subseteq Callers \ {p},
           \A p \in Callers : pc'[p] = pc[p] \/ pc'[p] = Empty
    PROVE  MeshTyped'
<1>1. ASSUME NEW a \in Callers, NEW r \in DOMAIN pc'[a] PROVE ConnectionTyped(pc'[a][r], made[a][r])
  <2>1. DOMAIN Empty = {}
    BY DEF Empty
  <2>2. pc'[a] = pc[a]
    BY <1>1, <2>1
  <2>3. QED
    BY <1>1, <2>2 DEF MeshTyped
<1>2. QED
  BY <1>1 DEF MeshTyped, WiresTyped

\* SWITCH_TO_CALL, join-call, RTC_CONNECTED, RTC_DISCONNECTED
LEMMA QuietTyped ==
    ASSUME MeshInv, MeshTyped, NEW p \in Callers, NEW q \in Callers,
           SwitchToCall(p) \/ MediaAcquired(p) \/ Connected(p, q) \/ Disconnected(p, q)
    PROVE  MeshTyped'
<1>1. UNCHANGED <<pc, made>>
  BY DEF SwitchToCall, MediaAcquired, Connected, Disconnected
<1>2. wire' = wire \/ \E S : wire' = Announced(wire, S)
  BY DEF SwitchToCall, MediaAcquired, Connected, Disconnected
<1>3. WiresTyped'
  BY <1>2, SentTyped, WiresAre
<1>4. DOMAIN states = Callers /\ \A r \in Callers : DOMAIN states[r] \subseteq Callers \ {r}
  BY DEF MeshTyped
<1>5. CASE states' = states
  BY <1>1, <1>3, <1>4, <1>5, ConnectionsKept
<1>6. CASE Connected(p, q)
  <2>1. q \in Callers \ {p} /\ states' = [states EXCEPT ![p] = With(states[p], q, "connected")]
    BY <1>6 DEF Connected, MeshInv, MeshTypes
  <2>2. DOMAIN With(states[p], q, "connected") = DOMAIN states[p] \cup {q}
    BY DEF With
  <2>3. DOMAIN states' = Callers /\ \A r \in Callers : DOMAIN states'[r] \subseteq Callers \ {r}
    BY <1>4, <2>1, <2>2
  <2>4. QED
    BY <1>1, <1>3, <2>3, ConnectionsKept
<1>7. CASE Disconnected(p, q)
  <2>1. states' = [states EXCEPT ![p] = [states[p] EXCEPT ![q] = "disconnected"]]
    BY <1>7 DEF Disconnected
  <2>2. DOMAIN states' = Callers /\ \A r \in Callers : DOMAIN states'[r] \subseteq Callers \ {r}
    BY <1>4, <2>1
  <2>3. QED
    BY <1>1, <1>3, <2>2, ConnectionsKept
<1>8. QED
  BY <1>5, <1>6, <1>7 DEF SwitchToCall, MediaAcquired

\* cleanupCallResources
LEMMA CleanTyped ==
    ASSUME MeshInv, MeshTyped, NEW p \in Callers, CleanedUp(p), made' = made,
           DOMAIN states' = Callers, \A r \in Callers : DOMAIN states'[r] \subseteq Callers \ {r}
    PROVE  MeshTyped'
<1>1. wire' = wire \/ \E S : wire' = Announced(wire, S)
  BY DEF CleanedUp
<1>2. WiresTyped'
  BY <1>1, SentTyped, WiresAre
<1>3. \A r \in Callers : pc'[r] = pc[r] \/ pc'[r] = Empty
  BY DEF CleanedUp, MeshInv, MeshTypes
<1>4. QED
  BY <1>2, <1>3, ConnectionsKept

\* The end of a call by the user.
LEMMA LeaveTyped ==
    ASSUME MeshInv, MeshTyped, NEW p \in Callers, HangUp(p) \/ Dismiss(p)
    PROVE  MeshTyped'
<1>1. states' = [states EXCEPT ![p] = Empty] /\ CleanedUp(p) /\ made' = made
  BY DEF HangUp, Dismiss
<1>2. DOMAIN states' = Callers /\ \A r \in Callers : DOMAIN states'[r] \subseteq Callers \ {r}
  BY <1>1 DEF MeshTyped, Empty
<1>3. QED
  BY <1>1, <1>2, CleanTyped

\* RTC_FAILED
LEMMA FailureTyped ==
    ASSUME MeshInv, MeshTyped, NEW p \in Callers, NEW q \in Callers, Rejected(p, q) \/ Fails(p, q)
    PROVE  MeshTyped'
<1>1. q \in DOMAIN pc[p] /\ q \in Callers \ {p}
  BY DEF Rejected, Fails, MeshInv, MeshTypes
<1>2. PICK connections :
        /\ RtcFailed(p, q, connections)
        /\ \/ connections = pc
           \/ /\ connections = [pc EXCEPT ![p] = [pc[p] EXCEPT ![q] = Done(pc[p][q])]]
              /\ pc[p][q].ops # <<>> /\ Head(pc[p][q].ops).op \in DOMAIN Needed
  BY DEF Rejected, Fails
<1>3. /\ states' = [states EXCEPT ![p] = With(states[p], q, "failed")] /\ made' = made
      /\ CleanedUp(p) \/ (pc' = connections /\ wire' = wire)
  BY <1>2 DEF RtcFailed
<1>4. DOMAIN states' = Callers /\ \A r \in Callers : DOMAIN states'[r] \subseteq Callers \ {r}
  <2>1. DOMAIN With(states[p], q, "failed") = DOMAIN states[p] \cup {q}
    BY DEF With
  <2>2. QED
    BY <1>1, <1>3, <2>1 DEF MeshTyped
<1>5. CASE CleanedUp(p)
  BY <1>3, <1>4, <1>5, CleanTyped
<1>6. CASE pc' = connections /\ wire' = wire
  <2>1. WiresTyped'
    BY <1>6, SentTyped, WiresAre
  <2>2. CASE connections = pc
    BY <1>3, <1>4, <1>6, <2>1, <2>2, ConnectionsKept
  <2>3. CASE connections # pc
    <3> DEFINE c == pc[p][q]
               v == Done(c)
    <3>1. c.ops # <<>> /\ Head(c.ops).op \in DOMAIN Needed /\ ConnectionTyped(c, made[p][q])
      BY <1>1, <1>2, <2>3 DEF MeshTyped
    <3>2. ~Making(Head(c.ops))
      BY <3>1 DEF Needed, Making
    <3>3. ConnectionTyped(v, made[p][q])
      <4>1. /\ Alike(v, c, {"ops"}) /\ ~c.making
            /\ IsSequence(v.ops) /\ \A i \in 1 .. Len(v.ops) : OpTyped(v.ops[i])
            /\ \A i \in 1 .. Len(v.ops) : ~Making(v.ops[i])
        BY <3>1, <3>2, DoneTyped
      <4> HIDE DEF v, c
      <4>2. QED
        BY <3>1, <4>1 DEF ConnectionTyped, Alike, Fields
    <3>4. pc' = [pc EXCEPT ![p] = [pc[p] EXCEPT ![q] = v]]
      BY <1>2, <1>6, <2>3
    <3> HIDE DEF v
    <3>5. \A a \in Callers : \A r \in DOMAIN pc'[a] : ConnectionTyped(pc'[a][r], made[a][r])
      <4>1. /\ \A a \in Callers \ {p} : pc'[a] = pc[a]
            /\ DOMAIN pc'[p] = DOMAIN pc[p] /\ pc'[p][q] = v
            /\ \A r \in DOMAIN pc[p] \ {q} : pc'[p][r] = pc[p][r]
        BY <1>1, <3>4 DEF MeshInv, MeshTypes
      <4>2. SUFFICES ASSUME NEW a \in Callers, NEW r \in DOMAIN pc'[a]
                     PROVE  ConnectionTyped(pc'[a][r], made[a][r])
        OBVIOUS
      <4>3. CASE a = p /\ r = q
        BY <3>3, <4>1, <4>3
      <4>4. CASE ~(a = p /\ r = q)
        <5>1. r \in DOMAIN pc[a] /\ pc'[a][r] = pc[a][r]
          BY <4>1, <4>2, <4>4
        <5>2. QED
          BY <5>1 DEF MeshTyped
      <4>5. QED
        BY <4>3, <4>4
    <3>6. QED
      BY <1>3, <1>4, <2>1, <3>5 DEF MeshTyped, WiresTyped
  <2>4. QED
    BY <2>2, <2>3
<1>7. QED
  BY <1>3, <1>5, <1>6

\* A promise settles whose connection becomes v, and nothing or m is sent.
LEMMA Settled ==
    ASSUME MeshInv, MeshTyped, NEW p \in Callers, NEW q \in DOMAIN pc[p], NEW v,
           pc' = [pc EXCEPT ![p] = [pc[p] EXCEPT ![q] = v]], ConnectionTyped(v, made[p][q]),
           NEW type, NEW o, MessageTyped(Signal(type, p, o)),
           wire' = wire \/ wire' = Sent(wire, q, Signal(type, p, o)), OtherUnchanged
    PROVE  MeshTyped'
<1>1. WiresTyped'
  BY SentTyped, WiresAre
<1>2. UNCHANGED <<states, made>>
  BY DEF OtherUnchanged
<1>3. QED
  BY <1>1, <1>2, ConnectionBecomes

\* What a client says of its connection has a type.
LEMMA SignalTyped ==
    ASSUME NEW p, NEW o
    PROVE  /\ \A type \in Openings : o \in Described => MessageTyped(Signal(type, p, o))
           /\ o \in Description => MessageTyped(Signal("ice-candidate", p, o))
  BY DEF MessageTyped, Signal, Openings, Described

\* A description of the connection of p to q.
LEMMA DescriptionMade ==
    ASSUME MeshInv, MeshTyped, NEW p \in Callers, NEW q \in DOMAIN pc[p]
    PROVE  /\ Offer(Id(p, q)) \in Described
           /\ \A o \in Described : Answer(Id(p, q), o) \in Described
           /\ NoDescription \in Description
<1>1. q \in Callers
  BY DEF MeshInv, MeshTypes
<1>2. pc[p][q].id \in 1 .. made[p][q] /\ made[p][q] \in Nat
  BY <1>1 DEF MeshTyped, ConnectionTyped
<1>3. Id(p, q) \in Callers \X Callers \X Nat
  BY <1>1, <1>2 DEF Id
<1> HIDE DEF Id
<1>4. Offer(Id(p, q)) \in Description /\ Offer(Id(p, q)) # NoDescription
  BY <1>3, SomeDescription DEF Offer, Description
<1>5. ASSUME NEW o \in Described
      PROVE  Answer(Id(p, q), o) \in Description /\ Answer(Id(p, q), o) # NoDescription
  <2>1. o.of \in Callers \X Callers \X Nat
    BY DEF Described, Description
  <2>2. QED
    BY <1>3, <2>1, SomeDescription DEF Answer, Description
<1>6. QED
  BY <1>4, <1>5 DEF Described, Description

\* setLocalDescription is called once the offer is there.
LEMMA OfferQueued ==
    ASSUME NEW d, DOMAIN d = Fields, IsSequence(d.ops), \A i \in 1 .. Len(d.ops) : OpTyped(d.ops[i]),
           NEW o \in Described
    PROVE  LET v == Queue(d, "setOffer", o) IN
           /\ Alike(v, d, {"ops"}) /\ IsSequence(v.ops)
           /\ \A i \in 1 .. Len(v.ops) : OpTyped(v.ops[i])
           /\ Len(v.ops) = Len(d.ops) + 1 /\ Making(v.ops[Len(d.ops) + 1])
<1>1. PICK op : op = "setOffer"
  OBVIOUS
<1>2. PICK e : e = [op |-> op, sdp |-> o]
  OBVIOUS
<1>3. e.op = op /\ e.sdp = o
  BY <1>2
<1>4. OpTyped(e) /\ Making(e)
  BY <1>1, <1>3 DEF OpTyped, Making
<1>5. PICK w : w = Queue(d, op, o)
  OBVIOUS
<1>6. /\ Alike(w, d, {"ops"}) /\ IsSequence(w.ops) /\ \A i \in 1 .. Len(w.ops) : OpTyped(w.ops[i])
      /\ Len(w.ops) = Len(d.ops) + 1 /\ w.ops[Len(d.ops) + 1] = e
  BY <1>2, <1>4, <1>5, Queued
<1>7. QED
  BY <1>1, <1>4, <1>5, <1>6

\* createOffer
LEMMA CreateOfferTyped ==
    ASSUME MeshInv, MeshTyped, NEW p \in Callers, NEW q \in Callers, CreateOffer(p, q)
    PROVE  MeshTyped'
<1> DEFINE c == pc[p][q]
           d == Done(c)
           o == Offer(Id(p, q))
           v == Queue(d, "setOffer", o)
<1>1. q \in DOMAIN pc[p] /\ c.ops # <<>> /\ Head(c.ops).op = "createOffer"
  BY DEF CreateOffer, Settling
<1>2. pc' = [pc EXCEPT ![p] = [pc[p] EXCEPT ![q] = v]] /\ wire' = wire /\ OtherUnchanged
  BY DEF CreateOffer
<1>3. ConnectionTyped(c, made[p][q])
  BY <1>1 DEF MeshTyped
<1>4. /\ Alike(d, c, {"ops"}) /\ c.making /\ DOMAIN d = Fields
      /\ IsSequence(d.ops) /\ \A i \in 1 .. Len(d.ops) : OpTyped(d.ops[i])
  BY <1>1, <1>3, DoneTyped DEF Making, Alike
<1>5. o \in Described /\ MessageTyped(Signal("offer", p, o))
  BY <1>1, DescriptionMade, SignalTyped DEF Openings
<1>6. Len(d.ops) = 0
  BY <1>1, <1>3, <1>4, DoneTyped
<1> HIDE DEF c, d, o
<1>7. /\ Alike(v, d, {"ops"}) /\ IsSequence(v.ops) /\ \A i \in 1 .. Len(v.ops) : OpTyped(v.ops[i])
      /\ Len(v.ops) = Len(d.ops) + 1 /\ Making(v.ops[Len(d.ops) + 1])
  BY <1>4, <1>5, OfferQueued
<1> HIDE DEF v
<1>8. Len(v.ops) = 1 /\ Making(v.ops[1])
  BY <1>6, <1>7
<1>9. ConnectionTyped(v, made[p][q])
  BY <1>3, <1>4, <1>7, <1>8 DEF ConnectionTyped, Alike, Fields
<1>10. QED
  BY <1>1, <1>2, <1>5, <1>9, Settled

\* setLocalDescription with an offer
LEMMA SetOfferTyped ==
    ASSUME MeshInv, MeshTyped, NEW p \in Callers, NEW q \in Callers, SetOffer(p, q)
    PROVE  MeshTyped'
<1> DEFINE c == pc[p][q]
           d == Done(c)
           o == Head(c.ops).sdp
           v == [d EXCEPT !.sig = "have-local-offer", !.local = o, !.making = FALSE, !.gathered = FALSE]
<1>1. q \in DOMAIN pc[p] /\ c.ops # <<>> /\ Head(c.ops).op = "setOffer"
  BY DEF SetOffer, Settling
<1>2. /\ pc' = [pc EXCEPT ![p] = [pc[p] EXCEPT ![q] = v]]
      /\ wire' = Sent(wire, q, Signal("offer", p, o)) /\ OtherUnchanged
  BY DEF SetOffer
<1>3. ConnectionTyped(c, made[p][q])
  BY <1>1 DEF MeshTyped
<1>4. /\ Alike(d, c, {"ops"}) /\ c.making /\ DOMAIN d = Fields
      /\ IsSequence(d.ops) /\ Len(d.ops) = 0
  BY <1>1, <1>3, DoneTyped DEF Making, Alike
<1>5. o \in Described
  BY <1>1, <1>3, DoneTyped DEF OpTyped
<1>6. MessageTyped(Signal("offer", p, o))
  BY <1>5, SignalTyped DEF Openings
<1> HIDE DEF c, d, o
<1>7. /\ Alike(v, d, {"sig", "local", "making", "gathered"})
      /\ v.sig = "have-local-offer" /\ v.local = o /\ v.making = FALSE
  BY <1>4 DEF Alike, Fields
<1> HIDE DEF v
<1>8. /\ v.id = c.id /\ v.remote = c.remote /\ v.pending = c.pending /\ v.added = c.added
      /\ v.ops = d.ops /\ DOMAIN v = Fields
  BY <1>4, <1>7 DEF Alike, Fields
<1>9. o \in Description
  BY <1>5 DEF Described
<1>10. ConnectionTyped(v, made[p][q])
  <2>1. IsSequence(v.ops) /\ \A i \in 1 .. Len(v.ops) : OpTyped(v.ops[i])
    BY <1>4, <1>8
  <2>2. v.making \in BOOLEAN /\ ~v.making
    BY <1>7, Zenon
  <2>5. \A i \in 1 .. Len(v.ops) : ~Making(v.ops[i])
    BY <1>4, <1>8
  <2>3. v.sig = "have-local-offer" /\ v.local \in Description
    BY <1>7, <1>9
  <2>4. QED
    BY <1>3, <1>8, <2>1, <2>2, <2>3, <2>5 DEF ConnectionTyped
<1>11. QED
  BY <1>1, <1>2, <1>6, <1>10, Settled

\* A promise that makes no offer settles, whatever it does to the descriptions.
LEMMA AnswererTyped ==
    ASSUME NEW c, NEW n, ConnectionTyped(c, n), c.ops # <<>>, ~Making(Head(c.ops)),
           NEW v, Alike(v, Done(c), {"sig", "local", "remote", "pending", "added", "gathered"}),
           v.sig \in {"stable", "have-local-offer", "have-remote-offer"},
           v.local \in Description, v.remote \in Description,
           v.sig = "have-remote-offer" => v.remote # NoDescription,
           v.pending \subseteq Description, v.added \subseteq Description
    PROVE  ConnectionTyped(v, n) /\ ~v.making
<1> DEFINE d == Done(c)
<1>1. /\ Alike(d, c, {"ops"}) /\ ~c.making
      /\ IsSequence(d.ops) /\ \A i \in 1 .. Len(d.ops) : OpTyped(d.ops[i])
      /\ \A i \in 1 .. Len(d.ops) : ~Making(d.ops[i])
  BY DoneTyped
<1>2. Alike(v, d, {"sig", "local", "remote", "pending", "added", "gathered"})
  OBVIOUS
<1> HIDE DEF d
<1>3. v.id = c.id /\ v.making = c.making /\ v.ops = d.ops /\ DOMAIN v = Fields
  BY <1>1, <1>2 DEF Alike, Fields
<1>4. QED
  BY <1>1, <1>3 DEF ConnectionTyped

\* setRemoteDescription with an offer
LEMMA AcceptOfferTyped ==
    ASSUME MeshInv, MeshTyped, NEW p \in Callers, NEW q \in Callers, AcceptOffer(p, q)
    PROVE  MeshTyped'
<1> DEFINE c == pc[p][q]
           d == Done(c)
           o == Head(c.ops).sdp
           b == [d EXCEPT !.sig = "have-remote-offer", !.remote = o]
           f == Flushed(b)
           e == [op |-> "createAnswer", sdp |-> NoDescription]
           v == Queue(f, "createAnswer", NoDescription)
<1>1. q \in DOMAIN pc[p] /\ c.ops # <<>> /\ Head(c.ops).op = "acceptOffer"
  BY DEF AcceptOffer, Settling
<1>2. pc' = [pc EXCEPT ![p] = [pc[p] EXCEPT ![q] = v]] /\ wire' = wire /\ OtherUnchanged
  BY DEF AcceptOffer
<1>3. ConnectionTyped(c, made[p][q]) /\ ~Making(Head(c.ops))
  BY <1>1 DEF MeshTyped, Making
<1>4. Alike(d, c, {"ops"}) /\ DOMAIN d = Fields
  BY <1>1, <1>3, DoneTyped DEF Alike
<1>5. o \in Described
  BY <1>1, <1>3, DoneTyped DEF OpTyped
<1>6. MessageTyped(Signal("offer", p, o))
  BY <1>5, SignalTyped DEF Openings
<1>7. /\ Alike(b, d, {"sig", "remote"}) /\ b.sig = "have-remote-offer" /\ b.remote = o /\ DOMAIN b = Fields
  BY <1>4 DEF Alike, Fields
<1> HIDE DEF b, o
<1>8. Alike(f, b, {"pending", "added"}) /\ f.pending = {} /\ f.added = b.added \cup b.pending
  BY <1>7, FlushedIs
<1> HIDE DEF f
<1>9. /\ Alike(f, d, {"sig", "local", "remote", "pending", "added", "gathered"})
      /\ f.sig = "have-remote-offer" /\ f.remote = o /\ f.local = d.local
      /\ f.pending = {} /\ f.added = d.added \cup d.pending
  BY <1>7, <1>8 DEF Alike, Fields
<1>10. d.local = c.local /\ d.added = c.added /\ d.pending = c.pending
  BY <1>4 DEF Alike, Fields
<1>11. ConnectionTyped(f, made[p][q]) /\ ~f.making
  <2>1. /\ c.local \in Description /\ c.added \subseteq Description /\ c.pending \subseteq Description
        /\ o \in Description /\ o # NoDescription
    BY <1>3, <1>5 DEF ConnectionTyped, Described
  <2> HIDE DEF c
  <2>2. QED
    BY <1>1, <1>3, <1>9, <1>10, <2>1, AnswererTyped
<1>12. e.op = "createAnswer"
  OBVIOUS
<1>13. OpTyped(e) /\ ~Making(e)
  BY <1>12 DEF OpTyped, Making
<1>14. ConnectionTyped(v, made[p][q])
  BY <1>11, <1>13, QueuedTyped
<1> HIDE DEF v
<1>15. QED
  BY <1>1, <1>2, <1>6, <1>14, Settled

\* createAnswer
LEMMA CreateAnswerTyped ==
    ASSUME MeshInv, MeshTyped, NEW p \in Callers, NEW q \in Callers, CreateAnswer(p, q)
    PROVE  MeshTyped'
<1> DEFINE c == pc[p][q]
           d == Done(c)
           o == Answer(Id(p, q), d.remote)
           e == [op |-> "setAnswer", sdp |-> o]
           v == Queue(d, "setAnswer", o)
<1>1. /\ q \in DOMAIN pc[p] /\ c.ops # <<>> /\ Head(c.ops).op = "createAnswer"
      /\ c.sig = "have-remote-offer"
  BY DEF CreateAnswer, Settling, Needed
<1>2. ConnectionTyped(c, made[p][q]) /\ ~Making(Head(c.ops))
  BY <1>1 DEF MeshTyped, Making
<1>3. Alike(d, c, {"ops"})
  BY <1>1, <1>2, DoneTyped
<1>4. d.remote = c.remote /\ c.remote \in Described
  BY <1>1, <1>2, <1>3 DEF Alike, Fields, ConnectionTyped, Described
<1>5. o \in Described /\ MessageTyped(Signal("answer", p, o))
  BY <1>1, <1>4, DescriptionMade, SignalTyped DEF Openings
<1>6. pc' = [pc EXCEPT ![p] = [pc[p] EXCEPT ![q] = v]] /\ wire' = wire /\ OtherUnchanged
  BY <1>4 DEF CreateAnswer
<1>7. ConnectionTyped(d, made[p][q]) /\ ~d.making
  <2>1. Alike(d, Done(c), {"sig", "local", "remote", "pending", "added", "gathered"})
    BY <1>3 DEF Alike
  <2>2. /\ d.sig = c.sig /\ d.local = c.local /\ d.remote = c.remote
        /\ d.pending = c.pending /\ d.added = c.added
    BY <1>3 DEF Alike, Fields
  <2> HIDE DEF c, d
  <2>3. QED
    BY <1>1, <1>2, <2>1, <2>2, AnswererTyped DEF ConnectionTyped
<1> HIDE DEF c, d, o
<1>8. e.op = "setAnswer" /\ e.sdp = o
  OBVIOUS
<1>9. OpTyped(e) /\ ~Making(e)
  BY <1>5, <1>8 DEF OpTyped, Making
<1>10. ConnectionTyped(v, made[p][q])
  BY <1>7, <1>9, QueuedTyped
<1> HIDE DEF v
<1>11. QED
  BY <1>1, <1>5, <1>6, <1>10, Settled

\* setLocalDescription with an answer
LEMMA SetAnswerTyped ==
    ASSUME MeshInv, MeshTyped, NEW p \in Callers, NEW q \in Callers, SetAnswer(p, q)
    PROVE  MeshTyped'
<1> DEFINE c == pc[p][q]
           d == Done(c)
           o == Head(c.ops).sdp
           v == [d EXCEPT !.sig = "stable", !.local = o, !.gathered = FALSE]
<1>1. q \in DOMAIN pc[p] /\ c.ops # <<>> /\ Head(c.ops).op = "setAnswer"
  BY DEF SetAnswer, Settling
<1>2. /\ pc' = [pc EXCEPT ![p] = [pc[p] EXCEPT ![q] = v]]
      /\ wire' = Sent(wire, q, Signal("answer", p, o)) /\ OtherUnchanged
  BY DEF SetAnswer
<1>3. ConnectionTyped(c, made[p][q]) /\ ~Making(Head(c.ops))
  BY <1>1 DEF MeshTyped, Making
<1>4. Alike(d, c, {"ops"}) /\ DOMAIN d = Fields
  BY <1>1, <1>3, DoneTyped DEF Alike
<1>5. o \in Described
  BY <1>1, <1>3, DoneTyped DEF OpTyped
<1>6. MessageTyped(Signal("answer", p, o)) /\ o \in Description
  BY <1>5, SignalTyped DEF Openings, Described
<1>7. /\ Alike(v, d, {"sig", "local", "gathered"}) /\ v.sig = "stable" /\ v.local = o
  BY <1>4 DEF Alike, Fields
<1> HIDE DEF v, o
<1>8. /\ Alike(v, d, {"sig", "local", "remote", "pending", "added", "gathered"})
      /\ v.remote = c.remote /\ v.pending = c.pending /\ v.added = c.added
  BY <1>4, <1>7 DEF Alike, Fields
<1> HIDE DEF c
<1>9. ConnectionTyped(v, made[p][q])
  <2>1. c.remote \in Description /\ c.pending \subseteq Description /\ c.added \subseteq Description
    BY <1>3 DEF ConnectionTyped
  <2>2. QED
    BY <1>1, <1>3, <1>6, <1>7, <1>8, <2>1, AnswererTyped
<1>10. QED
  BY <1>1, <1>2, <1>6, <1>9, Settled

\* setRemoteDescription with an answer
LEMMA AcceptAnswerTyped ==
    ASSUME MeshInv, MeshTyped, NEW p \in Callers, NEW q \in Callers, AcceptAnswer(p, q)
    PROVE  MeshTyped'
<1> DEFINE c == pc[p][q]
           d == Done(c)
           o == Head(c.ops).sdp
           b == [d EXCEPT !.sig = "stable", !.remote = o]
           v == Flushed(b)
<1>1. q \in DOMAIN pc[p] /\ c.ops # <<>> /\ Head(c.ops).op = "acceptAnswer"
  BY DEF AcceptAnswer, Settling
<1>2. pc' = [pc EXCEPT ![p] = [pc[p] EXCEPT ![q] = v]] /\ wire' = wire /\ OtherUnchanged
  BY DEF AcceptAnswer
<1>3. ConnectionTyped(c, made[p][q]) /\ ~Making(Head(c.ops))
  BY <1>1 DEF MeshTyped, Making
<1>4. Alike(d, c, {"ops"}) /\ DOMAIN d = Fields
  BY <1>1, <1>3, DoneTyped DEF Alike
<1>5. o \in Described
  BY <1>1, <1>3, DoneTyped DEF OpTyped
<1>6. MessageTyped(Signal("offer", p, o)) /\ o \in Description
  BY <1>5, SignalTyped DEF Openings, Described
<1>7. Alike(b, d, {"sig", "remote"}) /\ b.sig = "stable" /\ b.remote = o /\ DOMAIN b = Fields
  BY <1>4 DEF Alike, Fields
<1> HIDE DEF b, o
<1>8. Alike(v, b, {"pending", "added"}) /\ v.pending = {} /\ v.added = b.added \cup b.pending
  BY <1>7, FlushedIs
<1> HIDE DEF v
<1>9. /\ Alike(v, d, {"sig", "local", "remote", "pending", "added", "gathered"})
      /\ v.sig = "stable" /\ v.remote = o /\ v.local = c.local
      /\ v.pending = {} /\ v.added = c.added \cup c.pending
  BY <1>4, <1>7, <1>8 DEF Alike, Fields
<1> HIDE DEF c
<1>10. ConnectionTyped(v, made[p][q])
  <2>1. c.local \in Description /\ c.pending \subseteq Description /\ c.added \subseteq Description
    BY <1>3 DEF ConnectionTyped
  <2>2. v.pending \subseteq Description /\ v.added \subseteq Description
    BY <1>9, <2>1
  <2>3. QED
    BY <1>1, <1>3, <1>6, <1>9, <2>1, <2>2, AnswererTyped
<1>11. QED
  BY <1>1, <1>2, <1>6, <1>10, Settled

\* onicecandidate
LEMMA GatherTyped ==
    ASSUME MeshInv, MeshTyped, NEW p \in Callers, NEW q \in Callers, Gather(p, q)
    PROVE  MeshTyped'
<1> DEFINE c == pc[p][q]
           v == [c EXCEPT !.gathered = TRUE]
<1>1. /\ q \in DOMAIN pc[p] /\ pc' = [pc EXCEPT ![p] = [pc[p] EXCEPT ![q] = v]]
      /\ wire' = Sent(wire, q, Signal("ice-candidate", p, c.local)) /\ OtherUnchanged
  BY DEF Gather
<1>2. ConnectionTyped(c, made[p][q])
  BY <1>1 DEF MeshTyped
<1> HIDE DEF c
<1>3. Alike(v, c, {"gathered"})
  BY <1>2, GatheredIs DEF ConnectionTyped
<1> HIDE DEF v
<1>4. ConnectionTyped(v, made[p][q])
  BY <1>2, <1>3 DEF ConnectionTyped, Alike, Fields
<1>5. MessageTyped(Signal("ice-candidate", p, c.local))
  BY <1>2, SignalTyped DEF ConnectionTyped
<1>6. QED
  BY <1>1, <1>4, <1>5, Settled

\* RECEIVED_OFFER
LEMMA ReadOfferTyped ==
    ASSUME MeshInv, MeshTyped, NEW p \in Callers, ReadOffer(p)
    PROVE  MeshTyped'
<1>0. PICK m : m = Head(wire[p])
  OBVIOUS
<1>1. wire[p] # <<>> /\ m.type = "offer" /\ wire' = Consumed(p) /\ states' = states
  BY <1>0 DEF ReadOffer, NextIs
<1>2. WiresTyped' /\ MessageTyped(m)
  BY <1>0, <1>1, ReadTyped, WiresAre
<1>3. m.sdp \in Described
  BY <1>1, <1>2 DEF MessageTyped, Openings
<1>4. PICK q : q = m.from
  OBVIOUS
<1>5. q \in Callers \ {p}
  <2>1. IsSequence(wire[p]) /\ Current(serverCall, p, wire[p])
    BY DEF MeshInv, MeshTypes
  <2>2. m = wire[p][1] /\ 1 \in 1 .. Len(wire[p])
    BY <1>0, <1>1, <2>1, FirstRead
  <2>3. QED
    BY <1>1, <1>4, <2>1, <2>2 DEF Current
<1>6. CASE ~InCall(p)
  <2>1. UNCHANGED <<pc, made>>
    BY <1>6 DEF ReadOffer
  <2>2. QED
    BY <1>1, <1>2, <2>1, ConnectionsKept DEF MeshTyped
<1>7. CASE InCall(p)
  <2> DEFINE new == q \notin DOMAIN pc[p]
             c == IF new THEN NewConnection(p, q) ELSE pc[p][q]
             n == IF new THEN made[p][q] + 1 ELSE made[p][q]
             v == IF Collision(c) THEN c ELSE Queue(c, "acceptOffer", m.sdp)
  <2>1. /\ pc' = [pc EXCEPT ![p] = With(pc[p], q, v)]
        /\ made' = [made EXCEPT ![p] = [made[p] EXCEPT ![q] = c.id]]
    BY <1>0, <1>4, <1>7 DEF ReadOffer
  <2>2. ConnectionTyped(c, n)
    BY <1>5, NewTyped DEF MeshTyped
  <2>3. c.id \in 1 .. c.id /\ c.id \in Nat
    <3>1. n \in Nat
      BY <1>5 DEF MeshTyped
    <3>2. QED
      BY <2>2, <3>1 DEF ConnectionTyped
  <2> HIDE DEF c, n
  <2>4. ConnectionTyped(c, c.id)
    BY <2>2, <2>3 DEF ConnectionTyped
  <2>5. ConnectionTyped(v, c.id)
    <3>1. CASE ~Collision(c)
      <4>1. ~c.making
        BY <3>1 DEF Collision
      <4>2. PICK e : e = [op |-> "acceptOffer", sdp |-> m.sdp]
        OBVIOUS
      <4>3. e.op = "acceptOffer" /\ e.sdp = m.sdp
        BY <4>2
      <4>4. OpTyped(e) /\ ~Making(e)
        BY <1>3, <4>3 DEF OpTyped, Making
      <4>5. ConnectionTyped(Queue(c, "acceptOffer", m.sdp), c.id)
        BY <2>4, <4>1, <4>2, <4>4, QueuedTyped
      <4>6. QED
        BY <3>1, <4>5
    <3>2. CASE Collision(c)
      BY <2>4, <3>2
    <3>3. QED
      BY <3>1, <3>2
  <2>6. DOMAIN pc = Callers /\ made \in [Callers -> [Callers -> Nat]] /\ q \in Callers
    BY <1>5 DEF MeshInv, MeshTypes, MeshTyped
  <2>7. /\ made' \in [Callers -> [Callers -> Nat]] /\ made'[p][q] = c.id
        /\ \A a, r \in Callers : ~(a = p /\ r = q) => made'[a][r] = made[a][r]
    BY <2>1, <2>3, <2>6
  <2> HIDE DEF v
  <2>8. /\ \A a \in Callers \ {p} : pc'[a] = pc[a]
        /\ DOMAIN pc'[p] = DOMAIN pc[p] \cup {q} /\ pc'[p][q] = v
        /\ \A r \in DOMAIN pc[p] \ {q} : pc'[p][r] = pc[p][r]
    BY <2>1, <2>6 DEF With
  <2>9. ASSUME NEW a \in Callers, NEW r \in DOMAIN pc'[a] PROVE ConnectionTyped(pc'[a][r], made'[a][r])
    <3>1. CASE a = p /\ r = q
      BY <2>5, <2>7, <2>8, <3>1
    <3>2. CASE ~(a = p /\ r = q)
      <4>1. r \in DOMAIN pc[a] /\ pc'[a][r] = pc[a][r] /\ r \in Callers
        BY <2>8, <2>9, <3>2 DEF MeshInv, MeshTypes
      <4>2. QED
        BY <2>7, <3>2, <4>1 DEF MeshTyped
    <3>3. QED
      BY <3>1, <3>2
  <2>10. QED
    BY <1>1, <1>2, <2>7, <2>9 DEF MeshTyped, WiresTyped
<1>8. QED
  BY <1>6, <1>7

\* handleAnswer, handleIceCandidate
LEMMA ReadAnswerTyped ==
    ASSUME MeshInv, MeshTyped, NEW p \in Callers, ReadAnswer(p) \/ ReadCandidate(p)
    PROVE  MeshTyped'
<1>0. PICK m : m = Head(wire[p])
  OBVIOUS
<1>1. /\ wire[p] # <<>> /\ wire' = Consumed(p) /\ UNCHANGED <<states, made>>
  BY DEF ReadAnswer, ReadCandidate, NextIs
<1>2. WiresTyped' /\ MessageTyped(m)
  BY <1>0, <1>1, ReadTyped, WiresAre
<1>3. PICK q : q = m.from
  OBVIOUS
<1>4. CASE pc' = pc
  BY <1>1, <1>2, <1>4, ConnectionsKept DEF MeshTyped
<1>5. CASE ReadAnswer(p) /\ pc' # pc
  <2>1. /\ q \in DOMAIN pc[p] /\ pc[p][q].sig = "have-local-offer" /\ m.type = "answer"
        /\ pc' = [pc EXCEPT ![p] = [pc[p] EXCEPT ![q] = Queue(pc[p][q], "acceptAnswer", m.sdp)]]
    BY <1>0, <1>3, <1>5 DEF ReadAnswer, NextIs
  <2>2. ConnectionTyped(pc[p][q], made[p][q]) /\ m.sdp \in Described
    BY <1>2, <2>1 DEF MeshTyped, MessageTyped, Openings
  <2>3. ~pc[p][q].making
    BY <2>1, <2>2 DEF ConnectionTyped
  <2>4. PICK e : e = [op |-> "acceptAnswer", sdp |-> m.sdp]
    OBVIOUS
  <2>5. e.op = "acceptAnswer" /\ e.sdp = m.sdp
    BY <2>4
  <2>6. OpTyped(e) /\ ~Making(e)
    BY <2>2, <2>5 DEF OpTyped, Making
  <2>7. ConnectionTyped(Queue(pc[p][q], "acceptAnswer", m.sdp), made[p][q])
    BY <2>2, <2>3, <2>4, <2>6, QueuedTyped
  <2>8. QED
    BY <1>1, <1>2, <2>1, <2>7, ConnectionBecomes
<1>6. CASE ReadCandidate(p) /\ pc' # pc
  <2> DEFINE c == pc[p][q]
             v == CandidateTaken(c, m.sdp)
  <2>1. /\ q \in DOMAIN pc[p] /\ m.type = "ice-candidate"
        /\ pc' = [pc EXCEPT ![p] = [pc[p] EXCEPT ![q] = v]]
    BY <1>0, <1>3, <1>6 DEF ReadCandidate, NextIs
  <2>2. ConnectionTyped(c, made[p][q]) /\ m.sdp \in Description
    BY <1>2, <2>1 DEF MeshTyped, MessageTyped
  <2>3. /\ Alike(v, c, {"pending", "added"})
        /\ v.pending \subseteq c.pending \cup {m.sdp} /\ v.added \subseteq c.added \cup {m.sdp}
    BY <2>2, TakenIs DEF ConnectionTyped
  <2> HIDE DEF v, c
  <2>4. v.pending \subseteq Description /\ v.added \subseteq Description
    BY <2>2, <2>3 DEF ConnectionTyped
  <2>5. ConnectionTyped(v, made[p][q])
    BY <2>2, <2>3, <2>4 DEF ConnectionTyped, Alike, Fields
  <2>6. QED
    BY <1>1, <1>2, <2>1, <2>5, ConnectionBecomes
<1>7. QED
  BY <1>4, <1>5, <1>6

\* handleCallPeersReceived, handleCallPeersEffect
LEMMA ReadCallPeersTyped ==
    ASSUME MeshInv, MeshTyped, NEW p \in Callers, ReadCallPeers(p)
    PROVE  MeshTyped'
<1>0. PICK m : m = Head(wire[p])
  OBVIOUS
<1> DEFINE remote == m.peers \ {p}
           screen == ScreenAfterList(callScreen[p], remote)
           listed == [q \in remote |-> IF q \in DOMAIN states[p] THEN states[p][q] ELSE "connecting"]
           counted == [q \in Callers |->
                        IF q \in remote \ DOMAIN pc[p] THEN made[p][q] + 1 ELSE made[p][q]]
<1>1. wire[p] # <<>> /\ m.type = "call-peers" /\ wire' = Consumed(p)
  BY <1>0 DEF ReadCallPeers, NextIs
<1>2. WiresTyped'
  BY <1>1, ReadTyped, WiresAre
<1>3. remote \subseteq Callers \ {p}
  <2>1. IsSequence(wire[p]) /\ Current(serverCall, p, wire[p])
    BY DEF MeshInv, MeshTypes
  <2>2. m = wire[p][1] /\ 1 \in 1 .. Len(wire[p])
    BY <1>0, <1>1, <2>1, FirstRead
  <2>3. QED
    BY <1>1, <2>1, <2>2 DEF Current
<1>4. /\ states' = [states EXCEPT ![p] = listed]
      /\ IF screen \in InCallScreens
         THEN /\ pc' = [pc EXCEPT ![p] = ConnectionsAfterList(p, remote)]
              /\ made' = [made EXCEPT ![p] = counted]
         ELSE UNCHANGED <<pc, made>>
  BY <1>0 DEF ReadCallPeers
<1> HIDE DEF remote, screen
<1>5. DOMAIN states' = Callers /\ \A r \in Callers : DOMAIN states'[r] \subseteq Callers \ {r}
  BY <1>3, <1>4 DEF MeshTyped
<1>6. CASE screen \notin InCallScreens
  BY <1>2, <1>4, <1>5, <1>6, ConnectionsKept
<1>7. CASE screen \in InCallScreens
  <2>1. DOMAIN pc = Callers /\ made \in [Callers -> [Callers -> Nat]]
    BY DEF MeshInv, MeshTypes, MeshTyped
  <2>2. /\ made' = [made EXCEPT ![p] = counted] /\ counted \in [Callers -> Nat]
        /\ pc' = [pc EXCEPT ![p] = ConnectionsAfterList(p, remote)]
    BY <1>4, <1>7, <2>1
  <2>3. /\ made' \in [Callers -> [Callers -> Nat]] /\ made'[p] = counted
        /\ \A a \in Callers \ {p} : made'[a] = made[a]
    BY <2>1, <2>2
  <2>4. /\ \A a \in Callers \ {p} : pc'[a] = pc[a]
        /\ DOMAIN pc'[p] = remote
        /\ \A r \in remote :
              pc'[p][r] = IF r \in DOMAIN pc[p] THEN pc[p][r] ELSE CallPeerConnection(p, r)
    BY <2>1, <2>2 DEF ConnectionsAfterList
  <2>5. ASSUME NEW a \in Callers, NEW r \in DOMAIN pc'[a] PROVE ConnectionTyped(pc'[a][r], made'[a][r])
    <3>1. CASE a # p
      BY <2>3, <2>4, <2>5, <3>1 DEF MeshTyped
    <3>2. CASE a = p
      <4>1. r \in remote /\ r \in Callers /\ made'[p][r] = counted[r]
        BY <1>3, <2>3, <2>4, <2>5, <3>2
      <4>2. CASE r \in DOMAIN pc[p]
        <5>1. made'[p][r] = made[p][r]
          BY <4>1, <4>2
        <5>2. QED
          BY <2>4, <3>2, <4>1, <4>2, <5>1 DEF MeshTyped
      <4>3. CASE r \notin DOMAIN pc[p]
        <5>1. made'[p][r] = made[p][r] + 1
          BY <4>1, <4>3
        <5>2. QED
          BY <2>4, <3>2, <4>1, <4>3, <5>1, NewTyped
      <4>4. QED
        BY <4>2, <4>3
    <3>3. QED
      BY <3>1, <3>2
  <2>6. QED
    BY <1>2, <1>5, <2>3, <2>5 DEF MeshTyped, WiresTyped
<1>8. QED
  BY <1>6, <1>7

\* Every step keeps the types.
LEMMA MeshTypedInductive == MeshSpec => []MeshTyped
<1>1. MeshInit => MeshTyped
  <2> SUFFICES ASSUME MeshInit
               PROVE  MeshTyped
    OBVIOUS
  <2>1. /\ states = [p \in Callers |-> Empty] /\ DOMAIN Empty = {}
        /\ made = [p \in Callers |-> [q \in Callers |-> 0]]
        /\ \A p \in Callers : wire[p] = <<>> /\ DOMAIN pc[p] = {}
    BY DEF MeshInit, Empty
  <2>2. made \in [Callers -> [Callers -> Nat]]
    BY <2>1
  <2>3. DOMAIN states = Callers /\ \A p \in Callers : DOMAIN states[p] \subseteq Callers \ {p}
    BY <2>1
  <2>4. QED
    BY <2>1, <2>2, <2>3 DEF MeshTyped
<1>2. MeshInv /\ MeshTyped /\ [MeshNext]_meshVars => MeshTyped'
  <2> SUFFICES ASSUME MeshInv, MeshTyped, [MeshNext]_meshVars
               PROVE  MeshTyped'
    OBVIOUS
  <2>1. ASSUME NEW p \in Callers, NEW q \in Callers, CallerStep(p)
        PROVE  MeshTyped'
    BY <2>1, QuietTyped, LeaveTyped, ReadCallPeersTyped, ReadOfferTyped, ReadAnswerTyped
       DEF CallerStep
  <2>2. ASSUME NEW p \in Callers, NEW q \in Callers, ConnectionStep(p, q)
        PROVE  MeshTyped'
    BY <2>2, CreateOfferTyped, SetOfferTyped, AcceptOfferTyped, CreateAnswerTyped, SetAnswerTyped,
       AcceptAnswerTyped, GatherTyped, FailureTyped, QuietTyped DEF ConnectionStep
  <2>3. CASE UNCHANGED meshVars
    BY <2>3 DEF meshVars, MeshTyped
  <2>4. QED
    BY <2>1, <2>2, <2>3 DEF MeshNext
<1>3. QED
  BY <1>1, <1>2, MeshInductive, PTL DEF MeshSpec

\* What the two invariants say of types.
LEMMA MeshTypesImply == MeshInv /\ MeshTyped => MeshTypeOK
<1> SUFFICES ASSUME MeshInv, MeshTyped
             PROVE  MeshTypeOK
  OBVIOUS
<1>1. ASSUME NEW p \in Callers, NEW q \in DOMAIN pc[p]
      PROVE  LET c == pc[p][q] IN
             /\ c.id \in 1 .. made[p][q]
             /\ c.sig \in {"stable", "have-local-offer", "have-remote-offer"}
             /\ {c.local, c.remote} \cup c.pending \cup c.added \subseteq Description
             /\ c.making => c.sig = "stable"
  <2> DEFINE c == pc[p][q]
  <2>1. ConnectionTyped(c, made[p][q])
    BY DEF MeshTyped
  <2> HIDE DEF c
  <2>2. {c.local, c.remote} \cup c.pending \cup c.added \subseteq Description
    BY <2>1 DEF ConnectionTyped
  <2>3. /\ c.id \in 1 .. made[p][q] /\ (c.making => c.sig = "stable")
        /\ c.sig \in {"stable", "have-local-offer", "have-remote-offer"}
    BY <2>1 DEF ConnectionTyped
  <2>4. QED
    BY <2>2, <2>3 DEF c
<1>2. QED
  BY <1>1 DEF MeshTypeOK, MeshInv, MeshTypes, MeshTyped, MeshScreens

-----------------------------------------------------------------------------
(* The types of all the parts.                                             *)

\* The pool of workers.
LEMMA WorkersTyped == WorkersSpec => []WorkersTypeOK
<1>1. PoolInv /\ RespawnInv /\ BeginsAtSlot => WorkersTypeOK
  <2> SUFFICES ASSUME PoolInv, RespawnInv, BeginsAtSlot
               PROVE  WorkersTypeOK
    OBVIOUS
  <2>1. stamps \in [Slots -> Seq(Nat)] /\ ticks \in Nat
    BY DEF RespawnInv, Stamps
  <2>2. QED
    BY <2>1 DEF PoolInv, PoolTypes, BeginsAtSlot, WorkersTypeOK
<1>2. QED
  BY <1>1, PoolInductive, RespawnInductive, SlotInductive, PTL

\* The camera.
LEMMA MediaTyped == MediaSpec => []MediaTypeOK
<1>1. MediaInv => MediaTypeOK
  <2> SUFFICES ASSUME MediaTypes
               PROVE  MediaTypeOK
    BY DEF MediaInv
  <2>1. \A s \in DOMAIN streams : TracksOf(s) \subseteq DOMAIN tracks
    BY DEF MediaTypes, TracksOf, ToSet
  <2>2. /\ tracks \in Seq([live : BOOLEAN, enabled : BOOLEAN, facing : {"user", "environment"}])
        /\ facing \in {"user", "environment"}
    BY DEF MediaTypes, Track, Facings
  <2>3. QED
    BY <2>1, <2>2 DEF MediaTypes, MediaTypeOK
<1>2. QED
  BY <1>1, MediaInductive, PTL

\* The connections of a mesh call.
LEMMA ConnectionsTyped == MeshSpec => []MeshTypeOK
  BY MeshTypesImply, MeshInductive, MeshTypedInductive, PTL

\* The preview.
LEMMA PreviewTyped == PipSpec => []PipTypeOK
<1>1. PipInv => PipTypeOK
  BY DEF PipInv
<1>2. QED
  BY <1>1, PipInductive, PTL

\* The parser of descriptions.
LEMMA ParserTyped == E2eeSpec => []E2eeTypeOK
<1>1. ScanInv => E2eeTypeOK
  BY DEF ScanInv, E2eeTypeOK, SectionIsLast, ReadSoFar, TurnedDown
<1>2. ScanInv /\ [E2eeNext]_e2eeVars => ScanInv'
  BY ScanStep
<1>3. QED
  BY <1>1, <1>2, ScanStarts, PTL DEF E2eeSpec

\* The heartbeat.
LEMMA HeartbeatTyped == HeartbeatSpec => []HeartbeatTypeOK
<1>1. HeartbeatInv => HeartbeatTypeOK
  BY DEF HeartbeatInv
<1>2. HeartbeatInv /\ [HeartbeatNext]_heartbeatVars => HeartbeatInv'
  BY HeartbeatStep
<1>3. QED
  BY <1>1, <1>2, HeartbeatStarts, PTL DEF HeartbeatSpec

(***************************************************************************)
(* The types of every part, in whichever runs: those of a connection (it   *)
(* makes an offer in state "stable" only, makeOffer), of the media state,  *)
(* of the pool, of the preview, of the parser and of the heartbeat.        *)
(***************************************************************************)
THEOREM PartsTyped == PartsSpec => []PartsTypeOK
<1>1. PartsInit => MeshInit /\ MediaInit /\ WorkersInit /\ PipInit /\ E2eeInit /\ HeartbeatInit
  BY DEF PartsInit
<1>2. [PartsNext]_partsVars =>
        /\ [MeshNext]_meshVars /\ [MediaNext]_mediaVars /\ [WorkersNext]_workerVars
        /\ [PipNext]_pipVars /\ [E2eeNext]_e2eeVars /\ [HeartbeatNext]_heartbeatVars
  BY DEF PartsNext, partsVars
<1>3. MeshTypeOK /\ MediaTypeOK /\ WorkersTypeOK /\ PipTypeOK /\ E2eeTypeOK /\ HeartbeatTypeOK => PartsTypeOK
  BY DEF PartsTypeOK
<1>4. PartsSpec => MeshSpec /\ MediaSpec /\ WorkersSpec /\ PipSpec /\ E2eeSpec /\ HeartbeatSpec
  BY <1>1, <1>2, PTL
     DEF PartsSpec, MeshSpec, MediaSpec, WorkersSpec, PipSpec, E2eeSpec, HeartbeatSpec
<1>5. QED
  BY <1>3, <1>4, ConnectionsTyped, MediaTyped, WorkersTyped, PreviewTyped, ParserTyped,
     HeartbeatTyped, PTL
=============================================================================
