----------------------------- MODULE ChatProofs -----------------------------
(***************************************************************************)
(* Proofs about Chat, for any devices, clocks, earlier messages and page   *)
(* size: the types of all its variables, the spinner, what is on screen,   *)
(* what is stored, and what can be scrolled back to.                       *)
(*                                                                         *)
(* What a recursive function computes (the binary search, the sort, the    *)
(* filter, a page of rows) is proved from its defining equation, by the    *)
(* least number at which a claim would fail.                               *)
(***************************************************************************)
EXTENDS Chat, SequenceTheorems, FiniteSetTheorems, TLAPS

-----------------------------------------------------------------------------
(* The history spinner.                                                    *)

\* A sequence, of whatever it may be.
IsSequence(s) == \E S : s \in Seq(S)

\* LoadingIsAnswered, of one device.
Answered(d) ==
    loading[d] /\ conn[d] = "on" =>
        pages[d] # {} \/ \E i \in DOMAIN inbox[d] : inbox[d][i].type = "history"

SpinnerInv ==
    /\ inbox = [d \in Devices |-> inbox[d]]
    /\ \A d \in Devices : IsSequence(inbox[d])
    /\ loading \in [Devices -> BOOLEAN]
    /\ pages = [d \in Devices |-> pages[d]]
    /\ conn \in [Devices -> {"on", "off"}]
    /\ \A d \in Devices : Answered(d)

(* One more message, at the end. *)
LEMMA Appended ==
    ASSUME NEW s, IsSequence(s), NEW m
    PROVE  /\ IsSequence(Append(s, m))
           /\ \A i \in DOMAIN s : i \in DOMAIN Append(s, m) /\ Append(s, m)[i] = s[i]
           /\ \E i \in DOMAIN Append(s, m) : Append(s, m)[i] = m
<1>1. PICK S : s \in Seq(S)
  BY DEF IsSequence
<1> DEFINE T == S \cup {m}
<1>2. s \in Seq(T) /\ m \in T
  BY <1>1
<1> HIDE DEF T
<1>3. Append(s, m) \in Seq(T)
  BY <1>2
<1>4. /\ DOMAIN s = 1 .. Len(s) /\ DOMAIN Append(s, m) = 1 .. Len(s) + 1 /\ Len(s) \in Nat
      /\ Append(s, m)[Len(s) + 1] = m
      /\ \A i \in 1 .. Len(s) : Append(s, m)[i] = s[i]
  BY <1>2
<1>5. QED
  BY <1>3, <1>4 DEF IsSequence

(* One message less, at the front. *)
LEMMA Behead ==
    ASSUME NEW s, IsSequence(s), s # <<>>
    PROVE  /\ IsSequence(Tail(s))
           /\ Head(s) = s[1]
           /\ \A i \in DOMAIN s : i = 1 \/ (i - 1 \in DOMAIN Tail(s) /\ Tail(s)[i - 1] = s[i])
<1>1. PICK S : s \in Seq(S)
  BY DEF IsSequence
<1>2. Tail(s) \in Seq(S) /\ Len(Tail(s)) = Len(s) - 1 /\ Len(s) \in Nat \ {0}
  BY <1>1
<1>3. DOMAIN s = 1 .. Len(s) /\ DOMAIN Tail(s) = 1 .. Len(s) - 1
  BY <1>1, <1>2
<1>4. \A i \in 1 .. Len(s) - 1 : Tail(s)[i] = s[i + 1]
  BY <1>1, <1>2
<1>5. QED
  BY <1>1, <1>2, <1>3, <1>4 DEF IsSequence

(* A device nothing of which concerns the spinner changes. *)
LEMMA StillAnswered ==
    ASSUME NEW d \in Devices, Answered(d), conn'[d] = conn[d], loading'[d] = loading[d],
           pages'[d] = pages[d], inbox'[d] = inbox[d]
    PROVE  Answered(d)'
  BY DEF Answered

(* The steps that leave connections, channels and pages alone. *)
LEMMA QuietStep ==
    ASSUME SpinnerInv, UNCHANGED <<net, pages, loading>>
    PROVE  SpinnerInv'
  BY DEF SpinnerInv, Answered, net

(* A broadcast. *)
LEMMA TransmitAnswered ==
    ASSUME SpinnerInv, NEW d \in Devices, NEW u \in DOMAIN sending[d], Transmit(d, u)
    PROVE  SpinnerInv'
<1>1. UNCHANGED <<conn, pages, loading>>
  BY DEF Transmit, view
<1>2. CASE UNCHANGED inbox
  BY <1>1, <1>2, QuietStep DEF net
<1>3. CASE inbox' = [e \in Devices |-> IF e # d /\ conn[e] = "on"
                                       THEN Append(inbox[e], ChatMsg(u)) ELSE inbox[e]]
  <2>1. ASSUME NEW e \in Devices PROVE IsSequence(inbox'[e]) /\ Answered(e)'
    <3>1. IsSequence(inbox[e]) /\ Answered(e)
      BY DEF SpinnerInv
    <3>2. CASE inbox'[e] = Append(inbox[e], ChatMsg(u))
      <4>1. /\ IsSequence(inbox'[e])
            /\ \A i \in DOMAIN inbox[e] : i \in DOMAIN inbox'[e] /\ inbox'[e][i] = inbox[e][i]
        BY <3>1, <3>2, Appended
      <4>2. QED
        BY <1>1, <3>1, <4>1 DEF Answered
    <3>3. CASE inbox'[e] = inbox[e]
      BY <1>1, <3>1, <3>3, StillAnswered
    <3>4. QED
      BY <1>3, <3>2, <3>3
  <2>2. QED
    BY <1>1, <1>3, <2>1 DEF SpinnerInv
<1>4. QED
  BY <1>2, <1>3 DEF Transmit

(* One device changes, and with it what is owed to it. *)
LEMMA OneDevice ==
    ASSUME SpinnerInv, NEW d \in Devices,
           NEW c \in {"on", "off"}, conn' = [conn EXCEPT ![d] = c],
           NEW l \in BOOLEAN, loading' = [loading EXCEPT ![d] = l],
           NEW P, pages' = [pages EXCEPT ![d] = P],
           NEW s, IsSequence(s), inbox' = [inbox EXCEPT ![d] = s],
           l /\ c = "on" => P # {} \/ \E i \in DOMAIN s : s[i].type = "history"
    PROVE  SpinnerInv'
<1>1. /\ inbox' = [e \in Devices |-> inbox'[e]] /\ pages' = [e \in Devices |-> pages'[e]]
      /\ conn' \in [Devices -> {"on", "off"}] /\ loading' \in [Devices -> BOOLEAN]
  BY DEF SpinnerInv
<1>2. conn'[d] = c /\ loading'[d] = l /\ pages'[d] = P /\ inbox'[d] = s
  BY DEF SpinnerInv
<1>3. Answered(d)' /\ IsSequence(inbox'[d])
  BY <1>2 DEF Answered
<1>4. ASSUME NEW e \in Devices, e # d PROVE Answered(e)' /\ IsSequence(inbox'[e])
  <2>1. conn'[e] = conn[e] /\ loading'[e] = loading[e] /\ pages'[e] = pages[e] /\ inbox'[e] = inbox[e]
    BY <1>4 DEF SpinnerInv
  <2>2. QED
    BY <2>1, StillAnswered DEF SpinnerInv
<1>5. QED
  BY <1>1, <1>3, <1>4 DEF SpinnerInv

(* What does not change may be said to change to what it is. *)
LEMMA SameOfDevice ==
    ASSUME SpinnerInv, NEW d \in Devices
    PROVE  /\ conn = [conn EXCEPT ![d] = conn[d]] /\ conn[d] \in {"on", "off"}
           /\ loading = [loading EXCEPT ![d] = loading[d]] /\ loading[d] \in BOOLEAN
           /\ pages = [pages EXCEPT ![d] = pages[d]]
           /\ inbox = [inbox EXCEPT ![d] = inbox[d]] /\ IsSequence(inbox[d])
  BY DEF SpinnerInv

(* A broadcast is read: the pages behind it are still there. *)
LEMMA ReceiveChatAnswered ==
    ASSUME SpinnerInv, NEW d \in Devices, ReceiveChat(d)
    PROVE  SpinnerInv'
<1> DEFINE s == Tail(inbox[d])
<1>1. /\ inbox' = [inbox EXCEPT ![d] = s] /\ inbox[d] # <<>> /\ Head(inbox[d]).type = "chat"
      /\ UNCHANGED <<conn, loading, pages>>
  BY DEF ReceiveChat, view
<1>2. Answered(d) /\ IsSequence(inbox[d])
  BY DEF SpinnerInv
<1>3. /\ IsSequence(s) /\ Head(inbox[d]) = inbox[d][1]
      /\ \A i \in DOMAIN inbox[d] : i = 1 \/ (i - 1 \in DOMAIN s /\ s[i - 1] = inbox[d][i])
  BY <1>1, <1>2, Behead
<1> HIDE DEF s
<1>4. loading[d] /\ conn[d] = "on" => pages[d] # {} \/ \E i \in DOMAIN s : s[i].type = "history"
  BY <1>1, <1>2, <1>3 DEF Answered
<1>5. /\ conn' = [conn EXCEPT ![d] = conn[d]] /\ conn[d] \in {"on", "off"}
      /\ loading' = [loading EXCEPT ![d] = loading[d]] /\ loading[d] \in BOOLEAN
      /\ pages' = [pages EXCEPT ![d] = pages[d]]
  BY <1>1, SameOfDevice
<1>6. QED
  BY <1>1, <1>3, <1>4, <1>5, OneDevice

(* A page is read: it is decrypted, or the spinner stops. *)
LEMMA ReceiveHistoryAnswered ==
    ASSUME SpinnerInv, NEW d \in Devices, ReceiveHistory(d)
    PROVE  SpinnerInv'
<1> DEFINE s == Tail(inbox[d])
<1> DEFINE page == Head(inbox[d])
<1>1. /\ inbox' = [inbox EXCEPT ![d] = s] /\ inbox[d] # <<>> /\ UNCHANGED conn
      /\ \/ pages' = pages /\ loading' = [loading EXCEPT ![d] = FALSE]
         \/ pages' = [pages EXCEPT ![d] = @ \cup {page}] /\ loading' = loading
  BY DEF ReceiveHistory, LoadingAfter
<1>2. IsSequence(s)
  BY <1>1, Behead DEF SpinnerInv
<1> HIDE DEF s, page
<1>3. CASE pages' = pages /\ loading' = [loading EXCEPT ![d] = FALSE]
  <2>1. conn' = [conn EXCEPT ![d] = conn[d]] /\ pages' = [pages EXCEPT ![d] = pages[d]]
        /\ conn[d] \in {"on", "off"}
    BY <1>1, <1>3, SameOfDevice
  <2> DEFINE l == FALSE
  <2>2. loading' = [loading EXCEPT ![d] = l] /\ l \in BOOLEAN /\ ~l
    BY <1>3
  <2> HIDE DEF l
  <2>3. QED
    BY <1>1, <1>2, <2>1, <2>2, OneDevice
<1>4. CASE pages' = [pages EXCEPT ![d] = @ \cup {page}] /\ loading' = loading
  <2> DEFINE P == pages[d] \cup {page}
  <2>1. pages' = [pages EXCEPT ![d] = P] /\ P # {}
    BY <1>4
  <2> HIDE DEF P
  <2>2. QED
    BY <1>1, <1>2, <1>4, <2>1, SameOfDevice, OneDevice
<1>5. QED
  BY <1>1, <1>3, <1>4

(* Older history is asked for: the answer is on its way at once. *)
LEMMA RequestHistoryAnswered ==
    ASSUME SpinnerInv, NEW d \in Devices, RequestHistory(d)
    PROVE  SpinnerInv'
<1> DEFINE m == Page(cursor[d], FALSE)
<1> DEFINE s == IF conn[d] = "on" THEN Append(inbox[d], m) ELSE inbox[d]
<1>1. /\ loading' = [loading EXCEPT ![d] = TRUE] /\ UNCHANGED <<conn, pages>>
      /\ inbox' = IF conn[d] = "on" THEN [inbox EXCEPT ![d] = Append(@, m)] ELSE inbox
  BY DEF RequestHistory
<1>2. m.type = "history"
  BY DEF Page, HistoryMsg
<1>3. IsSequence(inbox[d]) /\ inbox = [inbox EXCEPT ![d] = inbox[d]]
  BY SameOfDevice
<1> HIDE DEF m
<1>4. IsSequence(s) /\ (conn[d] = "on" => \E i \in DOMAIN s : s[i].type = "history")
  BY <1>2, <1>3, Appended
<1>5. inbox' = [inbox EXCEPT ![d] = s]
  BY <1>1, <1>3
<1> DEFINE l == TRUE
<1>6. loading' = [loading EXCEPT ![d] = l] /\ l \in BOOLEAN
  BY <1>1
<1> HIDE DEF l, s
<1>7. /\ conn' = [conn EXCEPT ![d] = conn[d]] /\ conn[d] \in {"on", "off"}
      /\ pages' = [pages EXCEPT ![d] = pages[d]]
  BY <1>1, SameOfDevice
<1>8. l /\ conn[d] = "on" => pages[d] # {} \/ \E i \in DOMAIN s : s[i].type = "history"
  BY <1>4
<1>9. IsSequence(s)
  BY <1>4
<1>10. QED
  BY <1>5, <1>6, <1>7, <1>8, <1>9, OneDevice

(* A page is shown, a connection made, lost, or the page reloaded: the spinner stands still, *)
(* or nobody is connected.                                                                   *)
LEMMA OthersAnswered ==
    ASSUME SpinnerInv, NEW d \in Devices,
           \/ \E page \in pages[d] : HistoryLoaded(d, page)
           \/ Connect(d) \/ Disconnect(d) \/ Reload(d)
    PROVE  SpinnerInv'
<1> DEFINE stopped == FALSE
<1>1. stopped \in BOOLEAN /\ ~stopped
  OBVIOUS
<1>2. /\ IsSequence(<<>>) /\ \A m : IsSequence(<<m>>)
  <2>1. <<>> \in Seq({})
    OBVIOUS
  <2>2. ASSUME NEW m PROVE <<m>> \in Seq({m})
    OBVIOUS
  <2>3. QED
    BY <2>1, <2>2 DEF IsSequence
<1>3. CASE \E page \in pages[d] : HistoryLoaded(d, page)
  <2>1. PICK page : HistoryLoaded(d, page)
    BY <1>3
  <2> DEFINE P == pages[d] \ {page}
  <2>2. /\ pages' = [pages EXCEPT ![d] = P] /\ loading' = [loading EXCEPT ![d] = stopped]
        /\ UNCHANGED <<conn, inbox>>
    BY <2>1 DEF HistoryLoaded, LoadingAfter, net
  <2> HIDE DEF P, stopped
  <2>3. QED
    BY <1>1, <2>2, SameOfDevice, OneDevice
<1>4. CASE Connect(d)
  <2> DEFINE s == <<Page(Len(log) + 1, TRUE)>>
  <2>1. /\ conn' = [conn EXCEPT ![d] = "on"] /\ loading' = [loading EXCEPT ![d] = stopped]
        /\ inbox' = [inbox EXCEPT ![d] = s] /\ UNCHANGED pages
    BY <1>4 DEF Connect
  <2>2. IsSequence(s)
    BY <1>2
  <2> HIDE DEF s, stopped
  <2>3. QED
    BY <1>1, <2>1, <2>2, SameOfDevice, OneDevice
<1>5. CASE Disconnect(d)
  <2>1. /\ conn' = [conn EXCEPT ![d] = "off"] /\ inbox' = [inbox EXCEPT ![d] = <<>>]
        /\ UNCHANGED <<pages, loading>>
    BY <1>5 DEF Disconnect, view
  <2>2. QED
    BY <1>2, <2>1, SameOfDevice, OneDevice
<1>6. CASE Reload(d)
  <2>1. /\ conn' = [conn EXCEPT ![d] = "off"] /\ inbox' = [inbox EXCEPT ![d] = <<>>]
        /\ pages' = [pages EXCEPT ![d] = {}] /\ loading' = [loading EXCEPT ![d] = stopped]
    BY <1>6 DEF Reload
  <2> HIDE DEF stopped
  <2>2. QED
    BY <1>1, <1>2, <2>1, OneDevice
<1>7. QED
  BY <1>3, <1>4, <1>5, <1>6

(***************************************************************************)
(* The history spinner is always answered: while it turns on a live        *)
(* connection a page is being decrypted or on its way, whatever was lost   *)
(* with earlier connections and however often history was asked for.       *)
(***************************************************************************)
THEOREM LoadingAlwaysAnswered == Spec => []LoadingIsAnswered
<1>1. Init => SpinnerInv
  <2> SUFFICES ASSUME Init PROVE SpinnerInv
    OBVIOUS
  <2>1. <<>> \in Seq({})
    OBVIOUS
  <2>2. QED
    BY <2>1 DEF Init, SpinnerInv, Answered, IsSequence
<1>2. SpinnerInv /\ [Next]_vars => SpinnerInv'
  <2> SUFFICES ASSUME SpinnerInv, [Next]_vars PROVE SpinnerInv'
    OBVIOUS
  <2>1. CASE Expire
    BY <2>1, QuietStep DEF Expire, view
  <2>2. ASSUME NEW d \in Devices, Step(d) PROVE SpinnerInv'
    <3>1. CASE SendMessage(d) \/ LoadSeq(d) \/ ReadCache(d) \/ ShowCache(d) \/ ClearHistory(d)
      BY <3>1, QuietStep DEF SendMessage, LoadSeq, ReadCache, ShowCache, ClearHistory, view
    <3>2. ASSUME NEW u \in DOMAIN sending[d],
                 PutBlob(d, u) \/ WriteFails(d, u) \/ PutOwnSeq(d, u)
          PROVE  SpinnerInv'
      BY <3>2, QuietStep DEF PutBlob, WriteFails, PutOwnSeq, view
    <3>3. ASSUME NEW u \in DOMAIN opening[d], CheckAndStore(d, u) \/ Show(d, u)
          PROVE  SpinnerInv'
      BY <3>3, QuietStep DEF CheckAndStore, Show, view
    <3>4. QED
      BY <2>2, <3>1, <3>2, <3>3, TransmitAnswered, ReceiveChatAnswered, ReceiveHistoryAnswered,
         RequestHistoryAnswered, OthersAnswered DEF Step
  <2>3. CASE UNCHANGED vars
    BY <2>3, QuietStep DEF vars, view
  <2>4. QED
    BY <2>1, <2>2, <2>3 DEF Next
<1>3. SpinnerInv => LoadingIsAnswered
  BY DEF SpinnerInv, Answered, LoadingIsAnswered
<1>4. QED
  BY <1>1, <1>2, <1>3, PTL DEF Spec

-----------------------------------------------------------------------------
(* Numbers, and functions by recursion.                                    *)

(* Every set of numbers has a least one. *)
LEMMA LeastNumber ==
    ASSUME NEW T \in SUBSET Nat, T # {}
    PROVE  \E x \in T : \A y \in T : x <= y
<1>1. PICK x \in T : \A y \in T : ~(<<y, x>> \in OpToRel(<, Nat))
  BY NatLessThanWellFounded, WFMin
<1>2. \A y \in T : y < x => <<y, x>> \in OpToRel(<, Nat)
  BY DEF OpToRel
<1>3. \A y \in T : ~(y < x)
  BY <1>1, <1>2, Zenon
<1>4. \A y \in T : y \in Nat
  OBVIOUS
<1>5. \A y \in T : x <= y
  BY <1>3, <1>4
<1>6. QED
  BY <1>5

(* Induction up to m, over a set of numbers. *)
LEMMA Climb ==
    ASSUME NEW m \in Nat, NEW T, 0 \in T, \A n \in 0 .. m : n \in T /\ n < m => n + 1 \in T
    PROVE  \A n \in 0 .. m : n \in T
<1> DEFINE Bad == {n \in 0 .. m : n \notin T}
<1>1. SUFFICES ASSUME Bad # {} PROVE FALSE
  OBVIOUS
<1>2. Bad \in SUBSET Nat
  OBVIOUS
<1>2a. PICK x \in Bad : \A y \in Bad : x <= y
  BY <1>1, <1>2, LeastNumber
<1>3. x \in Nat /\ x # 0 /\ x <= m /\ x \notin T
  OBVIOUS
<1>4. x - 1 \in 0 .. m /\ x - 1 < m /\ x - 1 \notin Bad
  BY <1>2a, <1>3
<1>5. (x - 1) + 1 \in T
  BY <1>4
<1>6. QED
  BY <1>3, <1>5

IsStep(S, m, step) == step \in [S \X (1 .. m) -> S]
Iterates(S, first, m, step) ==
    \E g \in [0 .. m -> S] :
        \A n \in 0 .. m : g[n] = IF n = 0 THEN first ELSE step[<<g[n - 1], n>>]

(* A function defined by what it is at 0 and by a step from each number to the next exists. *)
LEMMA Iterated ==
    ASSUME NEW S, NEW first \in S, NEW m \in Nat, NEW step, IsStep(S, m, step)
    PROVE  Iterates(S, first, m, step)
<1>0. step \in [S \X (1 .. m) -> S]
  BY DEF IsStep
<1> DEFINE Goes(g, k) == \A n \in 0 .. k : g[n] = IF n = 0 THEN first ELSE step[<<g[n - 1], n>>]
           T == {k \in 0 .. m : \E g \in [0 .. k -> S] : Goes(g, k)}
<1>1. 0 \in T
  <2> DEFINE g == [n \in 0 .. 0 |-> first]
  <2>1. g \in [0 .. 0 -> S] /\ Goes(g, 0)
    OBVIOUS
  <2> HIDE DEF g, Goes
  <2>2. QED
    BY <2>1
<1>2. ASSUME NEW k \in 0 .. m, k \in T, k < m PROVE k + 1 \in T
  <2>1. PICK g \in [0 .. k -> S] : Goes(g, k)
    BY <1>2
  <2> DEFINE h == [n \in 0 .. k + 1 |-> IF n <= k THEN g[n] ELSE step[<<g[k], k + 1>>]]
  <2>2. step[<<g[k], k + 1>>] \in S
    BY <1>0, <1>2
  <2>3. h \in [0 .. k + 1 -> S]
    BY <2>2
  <2>4. ASSUME NEW n \in 0 .. k + 1
        PROVE  h[n] = IF n = 0 THEN first ELSE step[<<h[n - 1], n>>]
    <3>1. CASE n <= k
      <4>1. h[n] = g[n] /\ (n # 0 => n - 1 \in 0 .. k /\ h[n - 1] = g[n - 1])
        BY <3>1
      <4>2. g[n] = IF n = 0 THEN first ELSE step[<<g[n - 1], n>>]
        BY <2>1, <3>1
      <4> HIDE DEF h, Goes
      <4>3. QED
        BY <4>1, <4>2
    <3>2. CASE n = k + 1
      <4>1. h[n] = step[<<g[k], k + 1>>] /\ h[n - 1] = g[k] /\ n # 0
        BY <3>2
      <4>2. QED
        BY <3>2, <4>1
    <3>3. QED
      BY <3>1, <3>2
  <2>5. Goes(h, k + 1)
    BY <2>4
  <2> HIDE DEF h, Goes
  <2>6. QED
    BY <1>2, <2>3, <2>5
<1> HIDE DEF T
<1>3. m \in T
  BY <1>1, <1>2, Climb
<1>4. PICK g \in [0 .. m -> S] : Goes(g, m)
  BY <1>3 DEF T
<1>5. QED
  BY <1>4 DEF Iterates

-----------------------------------------------------------------------------
(* The binary search.                                                      *)

\* The timestamps of a list of messages, in order.
Ascending(all, list) ==
    \A i, j \in 1 .. Len(list) : i < j => all[list[i]].timestamp <= all[list[j]].timestamp

\* How many messages of the list are not after t.
Placing(all, list, t, k) ==
    /\ k \in 0 .. Len(list)
    /\ \A i \in 1 .. k : all[list[i]].timestamp <= t
    /\ \A i \in k + 1 .. Len(list) : ~(all[list[i]].timestamp <= t)

(* The binary search: what stays before is not newer, what comes after is. *)
LEMMA BisectIs ==
    ASSUME NEW U, NEW all, \A u \in U : all[u].timestamp \in Nat,
           NEW list \in Seq(U), Ascending(all, list), NEW t \in Nat
    PROVE  Placing(all, list, t, Bisect(all, list, t))
<1> DEFINE L == Len(list)
           ts(i) == all[list[i]].timestamp
           Ends == {k \in 0 .. L : k = L \/ ~(ts(k + 1) <= t)}
<1>1. L \in Nat /\ \A i \in 1 .. L : list[i] \in U /\ ts(i) \in Nat
  OBVIOUS
<1>2. L \in Ends /\ Ends \in SUBSET Nat
  BY <1>1
<1>3. PICK K \in Ends : \A y \in Ends : K <= y
  BY <1>2, LeastNumber
<1>4. K \in 0 .. L
  OBVIOUS
<1>5. \A i \in 1 .. K : ts(i) <= t
  <2>1. SUFFICES ASSUME NEW i \in 1 .. K, ~(ts(i) <= t) PROVE FALSE
    OBVIOUS
  <2>2. i - 1 \in 0 .. L /\ (i - 1) + 1 = i
    BY <1>1, <1>4
  <2>3. i - 1 \in Ends
    BY <2>1, <2>2
  <2>4. K <= i - 1
    BY <1>3, <2>3
  <2>5. QED
    BY <1>4, <2>4
<1>6. \A i \in K + 1 .. L : ~(ts(i) <= t)
  <2>1. SUFFICES ASSUME NEW i \in K + 1 .. L PROVE ~(ts(i) <= t)
    OBVIOUS
  <2>2. K # L /\ K + 1 \in 1 .. L /\ i \in 1 .. L
    BY <1>1, <1>4
  <2>3. ~(ts(K + 1) <= t)
    BY <2>2
  <2>4. ts(K + 1) <= ts(i)
    BY <1>1, <2>2 DEF Ascending
  <2>5. QED
    BY <1>1, <2>2, <2>3, <2>4
<1>7. \A i \in 1 .. L : ts(i) <= t <=> i <= K
  BY <1>1, <1>4, <1>5, <1>6
<1> DEFINE D == (0 .. L) \X (0 .. L)
           Body(f, span) ==
                LET lo == span[1]
                    hi == span[2]
                    mid == (lo + hi) \div 2
                IN
                IF lo >= hi THEN lo
                ELSE IF all[list[mid + 1]].timestamp <= t THEN f[<<mid + 1, hi>>]
                ELSE f[<<lo, mid>>]
           clamp(lo, hi) == IF lo >= hi THEN lo
                            ELSE IF K < lo THEN lo ELSE IF K < hi THEN K ELSE hi
<1>8. ASSUME NEW lo \in 0 .. L, NEW hi \in 0 .. L, lo < hi
      PROVE  LET mid == (lo + hi) \div 2 IN
             /\ mid \in 0 .. L /\ mid + 1 \in 0 .. L
             /\ lo <= mid /\ mid < hi
             /\ clamp(lo, hi) = IF ts(mid + 1) <= t THEN clamp(mid + 1, hi) ELSE clamp(lo, mid)
  <2> DEFINE mid == (lo + hi) \div 2
  <2>1. /\ mid \in 0 .. L /\ mid + 1 \in 1 .. L
        /\ lo <= mid /\ mid < hi
    BY <1>1, <1>8
  <2> HIDE DEF mid
  <2>2. clamp(lo, hi) = IF mid + 1 <= K THEN clamp(mid + 1, hi) ELSE clamp(lo, mid)
    BY <1>1, <1>4, <1>8, <2>1
  <2>3. ts(mid + 1) <= t <=> mid + 1 <= K
    BY <1>7, <2>1
  <2>4. QED
    BY <2>1, <2>2, <2>3 DEF mid
<1> HIDE DEF clamp
<1>9. \A lo, hi \in 0 .. L : lo >= hi => clamp(lo, hi) = lo
  BY DEF clamp
<1>10. \E f : f = [span \in D |-> Body(f, span)]
  <2> DEFINE w == [span \in D |-> clamp(span[1], span[2])]
  <2>1. ASSUME NEW span \in D PROVE w[span] = Body(w, span)
    <3> DEFINE lo == span[1]
               hi == span[2]
               mid == (lo + hi) \div 2
    <3>1. lo \in 0 .. L /\ hi \in 0 .. L /\ span = <<lo, hi>>
      OBVIOUS
    <3>2. w[span] = clamp(lo, hi)
      OBVIOUS
    <3>3. \A x, y \in 0 .. L : w[<<x, y>>] = clamp(x, y)
      OBVIOUS
    <3> HIDE DEF w, D
    <3>4. CASE lo >= hi
      BY <3>1, <3>2, <3>4, <1>9
    <3>5. CASE lo < hi
      <4>1. /\ mid \in 0 .. L /\ mid + 1 \in 0 .. L
            /\ clamp(lo, hi) = IF ts(mid + 1) <= t THEN clamp(mid + 1, hi) ELSE clamp(lo, mid)
        BY <1>8, <3>1, <3>5
      <4>2. w[<<mid + 1, hi>>] = clamp(mid + 1, hi) /\ w[<<lo, mid>>] = clamp(lo, mid)
        BY <3>1, <3>3, <4>1
      <4>3. ~(lo >= hi)
        BY <1>1, <3>1, <3>5
      <4> HIDE DEF lo, hi, mid
      <4>4. QED
        BY <3>2, <4>1, <4>2, <4>3 DEF lo, hi, mid
    <3>6. QED
      BY <3>1, <3>4, <3>5, <1>1
  <2>2. w = [span \in D |-> Body(w, span)]
    BY <2>1
  <2> HIDE DEF w
  <2>3. QED
    BY <2>2
<1> DEFINE search == CHOOSE f : f = [span \in D |-> Body(f, span)]
<1>11. search = [span \in D |-> Body(search, span)]
  BY <1>10
<1>12. Bisect(all, list, t) = search[<<0, L>>]
  BY DEF Bisect
<1> HIDE DEF search
<1>13. ASSUME NEW lo \in 0 .. L, NEW hi \in 0 .. L
       PROVE  search[<<lo, hi>>] = Body(search, <<lo, hi>>)
  <2>1. <<lo, hi>> \in D
    OBVIOUS
  <2>2. QED
    BY <1>11, <2>1
<1> DEFINE Good == {n \in 0 .. L : \A lo, hi \in 0 .. L : hi - lo <= n =>
                        search[<<lo, hi>>] = clamp(lo, hi)}
<1>14. 0 \in Good
  <2>1. ASSUME NEW lo \in 0 .. L, NEW hi \in 0 .. L, hi - lo <= 0
        PROVE  search[<<lo, hi>>] = clamp(lo, hi)
    <3>1. lo >= hi
      BY <1>1, <2>1
    <3>2. QED
      BY <1>9, <1>13, <3>1
  <2>2. QED
    BY <1>1, <2>1
<1>15. ASSUME NEW n \in 0 .. L, n \in Good, n < L PROVE n + 1 \in Good
  <2>1. ASSUME NEW lo \in 0 .. L, NEW hi \in 0 .. L, hi - lo <= n + 1
        PROVE  search[<<lo, hi>>] = clamp(lo, hi)
    <3>1. CASE lo >= hi
      BY <1>9, <1>13, <3>1
    <3>2. CASE lo < hi
      <4> DEFINE mid == (lo + hi) \div 2
      <4>1. /\ mid \in 0 .. L /\ mid + 1 \in 0 .. L
            /\ lo <= mid /\ mid < hi
            /\ clamp(lo, hi) = IF ts(mid + 1) <= t THEN clamp(mid + 1, hi) ELSE clamp(lo, mid)
        BY <1>8, <3>2
      <4>2. search[<<lo, hi>>] = IF ts(mid + 1) <= t THEN search[<<mid + 1, hi>>]
                                 ELSE search[<<lo, mid>>]
        BY <1>1, <1>13, <3>2
      <4> HIDE DEF mid
      <4>3. hi - (mid + 1) <= n /\ mid - lo <= n
        BY <1>1, <2>1, <4>1
      <4>4. \A x, y \in 0 .. L : y - x <= n => search[<<x, y>>] = clamp(x, y)
        BY <1>15
      <4>5. search[<<mid + 1, hi>>] = clamp(mid + 1, hi) /\ search[<<lo, mid>>] = clamp(lo, mid)
        BY <4>1, <4>3, <4>4
      <4>6. QED
        BY <4>1, <4>2, <4>5
    <3>3. QED
      BY <1>1, <3>1, <3>2
  <2>2. QED
    BY <1>1, <1>15, <2>1
<1>16. L \in Good
  <2> HIDE DEF Good
  <2>1. \A n \in 0 .. L : n \in Good
    BY <1>1, <1>14, <1>15, Climb
  <2>2. QED
    BY <1>1, <2>1
<1>17. search[<<0, L>>] = clamp(0, L)
  BY <1>1, <1>16
<1>18. clamp(0, L) = K
  BY <1>1, <1>4 DEF clamp
<1>19. QED
  BY <1>4, <1>5, <1>6, <1>12, <1>17, <1>18 DEF Placing
-----------------------------------------------------------------------------
(* insertMessageSorted and mergeHistory.                                   *)

\* No message twice.
Distinct(list) == \A i, j \in 1 .. Len(list) : i < j => list[i] # list[j]

(* One more element, in the middle. *)
LEMMA InsertedAt ==
    ASSUME NEW U, NEW list \in Seq(U), NEW k \in 0 .. Len(list), NEW u \in U
    PROVE  LET r == InsertAt(list, k + 1, u) IN
           /\ r \in Seq(U) /\ Len(r) = Len(list) + 1
           /\ \A i \in 1 .. Len(list) + 1 :
                r[i] = IF i <= k THEN list[i] ELSE IF i = k + 1 THEN u ELSE list[i - 1]
<1> DEFINE L == Len(list)
           front == SubSeq(list, 1, k)
           back == SubSeq(list, k + 1, L)
<1>1. L \in Nat /\ \A i \in 1 .. L : list[i] \in U
  OBVIOUS
<1>2. /\ front \in Seq(U) /\ Len(front) = k
      /\ \A i \in 1 .. k : front[i] = list[i]
  <2>1. \A i \in 1 .. k : list[i] \in U
    BY <1>1
  <2>2. /\ front \in Seq(U) /\ Len(front) = IF 1 <= k THEN k - 1 + 1 ELSE 0
        /\ \A i \in 1 .. k - 1 + 1 : front[i] = list[1 + i - 1]
    BY <1>1, <2>1, SubSeqProperties
  <2> HIDE DEF front
  <2>3. QED
    BY <1>1, <2>2
<1>3. /\ back \in Seq(U) /\ Len(back) = L - k
      /\ \A i \in 1 .. L - k : back[i] = list[k + i]
  <2>1. \A i \in k + 1 .. L : list[i] \in U
    BY <1>1
  <2>2. /\ back \in Seq(U) /\ Len(back) = IF k + 1 <= L THEN L - (k + 1) + 1 ELSE 0
        /\ \A i \in 1 .. L - (k + 1) + 1 : back[i] = list[k + 1 + i - 1]
    BY <1>1, <2>1, SubSeqProperties
  <2> HIDE DEF back
  <2>3. QED
    BY <1>1, <2>2
<1> HIDE DEF front, back
<1> DEFINE r == (front \o <<u>>) \o back
<1>4. InsertAt(list, k + 1, u) = r
  <2>1. (k + 1) - 1 = k
    OBVIOUS
  <2>2. QED
    BY <2>1 DEF InsertAt, front, back
<1>5. /\ front \o <<u>> \in Seq(U) /\ Len(front \o <<u>>) = k + 1
      /\ \A i \in 1 .. k + 1 : (front \o <<u>>)[i] = IF i <= k THEN list[i] ELSE u
  BY <1>1, <1>2
<1>6. /\ r \in Seq(U) /\ Len(r) = L + 1
      /\ \A i \in 1 .. L + 1 : r[i] = IF i <= k + 1 THEN (front \o <<u>>)[i]
                                      ELSE back[i - (k + 1)]
  BY <1>1, <1>3, <1>5
<1>7. \A i \in 1 .. L + 1 :
        r[i] = IF i <= k THEN list[i] ELSE IF i = k + 1 THEN u ELSE list[i - 1]
  <2> SUFFICES ASSUME NEW i \in 1 .. L + 1
               PROVE  r[i] = IF i <= k THEN list[i] ELSE IF i = k + 1 THEN u ELSE list[i - 1]
    OBVIOUS
  <2> HIDE DEF r
  <2>1. CASE i <= k + 1
    BY <1>5, <1>6, <2>1
  <2>2. CASE ~(i <= k + 1)
    <3>1. i - (k + 1) \in 1 .. L - k /\ k + (i - (k + 1)) = i - 1
      BY <1>1, <2>2
    <3>2. QED
      BY <1>3, <1>6, <2>2, <3>1
  <2>3. QED
    BY <2>1, <2>2
<1> HIDE DEF r
<1>8. QED
  BY <1>4, <1>6, <1>7

(* Placing a message keeps a list in order. *)
LEMMA PlaceIs ==
    ASSUME NEW U, NEW all, \A v \in U : all[v].timestamp \in Nat,
           NEW list \in Seq(U), Ascending(all, list), NEW u \in U
    PROVE  /\ Place(all, list, u) \in Seq(U)
           /\ ToSet(Place(all, list, u)) = ToSet(list) \cup {u}
           /\ Ascending(all, Place(all, list, u))
           /\ Distinct(list) /\ u \notin ToSet(list) => Distinct(Place(all, list, u))
<1> DEFINE L == Len(list)
           t == all[u].timestamp
           k == Bisect(all, list, t)
           r == Place(all, list, u)
           ts(v) == all[v].timestamp
<1>1. t \in Nat /\ L \in Nat /\ \A i \in 1 .. L : list[i] \in U /\ ts(list[i]) \in Nat
  OBVIOUS
<1>2. /\ k \in 0 .. L
      /\ \A i \in 1 .. k : ts(list[i]) <= t
      /\ \A i \in k + 1 .. L : ~(ts(list[i]) <= t)
  BY <1>1, BisectIs DEF Placing
<1> HIDE DEF k
<1>3. /\ r \in Seq(U) /\ Len(r) = L + 1
      /\ \A i \in 1 .. L + 1 :
            r[i] = IF i <= k THEN list[i] ELSE IF i = k + 1 THEN u ELSE list[i - 1]
  <2>1. r = InsertAt(list, k + 1, u)
    BY DEF Place, k
  <2> DEFINE q == InsertAt(list, k + 1, u)
  <2>2. /\ q \in Seq(U) /\ Len(q) = L + 1
        /\ \A i \in 1 .. L + 1 :
            q[i] = IF i <= k THEN list[i] ELSE IF i = k + 1 THEN u ELSE list[i - 1]
    BY <1>2, InsertedAt
  <2> HIDE DEF r, q
  <2>3. QED
    BY <2>1, <2>2 DEF q
<1> HIDE DEF r
<1>4. ToSet(r) = ToSet(list) \cup {u}
  <2>1. DOMAIN r = 1 .. L + 1 /\ DOMAIN list = 1 .. L
    BY <1>3
  <2>2. ASSUME NEW i \in 1 .. L + 1 PROVE r[i] \in ToSet(list) \cup {u}
    <3>1. i <= k => i \in 1 .. L
      BY <1>1, <1>2
    <3>2. ~(i <= k) /\ i # k + 1 => i - 1 \in 1 .. L
      BY <1>1, <1>2
    <3>3. QED
      BY <1>3, <2>1, <3>1, <3>2 DEF ToSet
  <2>3. u \in ToSet(r)
    <3>1. k + 1 \in 1 .. L + 1 /\ r[k + 1] = u
      BY <1>1, <1>2, <1>3
    <3>2. QED
      BY <2>1, <3>1 DEF ToSet
  <2>4. ASSUME NEW i \in 1 .. L PROVE list[i] \in ToSet(r)
    <3>1. CASE i <= k
      <4>1. i \in 1 .. L + 1 /\ r[i] = list[i]
        BY <1>1, <1>3, <3>1
      <4>2. QED
        BY <2>1, <4>1 DEF ToSet
    <3>2. CASE ~(i <= k)
      <4>1. i + 1 \in 1 .. L + 1 /\ r[i + 1] = list[i]
        BY <1>1, <1>2, <1>3, <3>2
      <4>2. QED
        BY <2>1, <4>1 DEF ToSet
    <3>3. QED
      BY <3>1, <3>2
  <2>5. QED
    BY <2>1, <2>2, <2>3, <2>4 DEF ToSet
<1>5. Ascending(all, r)
  <2> SUFFICES ASSUME NEW i \in 1 .. L + 1, NEW j \in 1 .. L + 1, i < j
               PROVE  ts(r[i]) <= ts(r[j])
    BY <1>3 DEF Ascending
  <2>1. \A a, b \in 1 .. L : a < b => ts(list[a]) <= ts(list[b])
    BY DEF Ascending
  <2>2. CASE j <= k
    BY <1>1, <1>2, <1>3, <2>1, <2>2
  <2>3. CASE j = k + 1
    BY <1>1, <1>2, <1>3, <2>3
  <2>4. CASE j > k + 1
    <3>1. r[j] = list[j - 1] /\ j - 1 \in k + 1 .. L /\ j - 1 \in 1 .. L
      BY <1>1, <1>2, <1>3, <2>4
    <3>2. CASE i <= k
      <4>1. r[i] = list[i] /\ i \in 1 .. L /\ i < j - 1
        BY <1>1, <1>2, <1>3, <2>4, <3>2
      <4>2. QED
        BY <2>1, <3>1, <4>1
    <3>3. CASE i = k + 1
      <4>1. r[i] = u /\ ~(ts(list[j - 1]) <= t)
        BY <1>2, <1>3, <3>1, <3>3
      <4>2. ts(list[j - 1]) \in Nat
        BY <1>1, <3>1
      <4>3. t <= ts(list[j - 1])
        BY <1>1, <4>1, <4>2
      <4>4. QED
        BY <3>1, <4>1, <4>3
    <3>4. CASE i > k + 1
      <4>1. r[i] = list[i - 1] /\ i - 1 \in 1 .. L /\ i - 1 < j - 1
        BY <1>1, <1>2, <1>3, <3>4, <2>4
      <4>2. QED
        BY <2>1, <3>1, <4>1
    <3>5. QED
      BY <1>2, <3>2, <3>3, <3>4
  <2>5. QED
    BY <1>2, <2>2, <2>3, <2>4
<1>6. ASSUME Distinct(list), u \notin ToSet(list) PROVE Distinct(r)
  <2> SUFFICES ASSUME NEW i \in 1 .. L + 1, NEW j \in 1 .. L + 1, i < j
               PROVE  r[i] # r[j]
    BY <1>3 DEF Distinct
  <2>1. /\ \A a, b \in 1 .. L : a < b => list[a] # list[b]
        /\ \A a \in 1 .. L : list[a] # u
    BY <1>6 DEF Distinct, ToSet
  <2>2. CASE j <= k
    BY <1>1, <1>2, <1>3, <2>1, <2>2
  <2>3. CASE j = k + 1
    <3>1. r[j] = u /\ r[i] = list[i] /\ i \in 1 .. L
      BY <1>1, <1>2, <1>3, <2>3
    <3>2. QED
      BY <2>1, <3>1
  <2>4. CASE j > k + 1
    <3>1. r[j] = list[j - 1] /\ j - 1 \in 1 .. L
      BY <1>1, <1>2, <1>3, <2>4
    <3>2. CASE i <= k
      <4>1. r[i] = list[i] /\ i \in 1 .. L /\ i < j - 1
        BY <1>1, <1>2, <1>3, <2>4, <3>2
      <4>2. QED
        BY <2>1, <3>1, <4>1
    <3>3. CASE i = k + 1
      <4>1. r[i] = u
        BY <1>2, <1>3, <3>3
      <4>2. QED
        BY <2>1, <3>1, <4>1
    <3>4. CASE i > k + 1
      <4>1. r[i] = list[i - 1] /\ i - 1 \in 1 .. L /\ i - 1 < j - 1
        BY <1>1, <1>2, <1>3, <3>4, <2>4
      <4>2. QED
        BY <2>1, <3>1, <4>1
    <3>5. QED
      BY <1>2, <3>2, <3>3, <3>4
  <2>5. QED
    BY <1>2, <2>2, <2>3, <2>4
<1>7. QED
  BY <1>3, <1>4, <1>5, <1>6 DEF r

(* reducer.ts: a message that is already there is not inserted again. *)
LEMMA InsertedOnce ==
    ASSUME NEW U, NEW all, \A v \in U : all[v].timestamp \in Nat,
           NEW list \in Seq(U), Ascending(all, list), Distinct(list), NEW u \in U
    PROVE  LET r == InsertMessageSorted(all, list, u) IN
           /\ r \in Seq(U) /\ ToSet(r) = ToSet(list) \cup {u}
           /\ Ascending(all, r) /\ Distinct(r)
  BY PlaceIs DEF InsertMessageSorted

(* Sorting keeps the messages and puts them in order. *)
LEMMA SortIs ==
    ASSUME NEW U, NEW all, \A v \in U : all[v].timestamp \in Nat, NEW list \in Seq(U)
    PROVE  LET r == SortByTimestamp(all, list) IN
           /\ r \in Seq(U) /\ ToSet(r) = ToSet(list)
           /\ Ascending(all, r)
           /\ Distinct(list) => Distinct(r)
<1> DEFINE m == Len(list)
           S == {s \in Seq(U) : Ascending(all, s)}
           step == [x \in S \X (1 .. m) |-> Place(all, x[1], list[x[2]])]
           sorted == CHOOSE f : f = [n \in 0 .. m |-> IF n = 0 THEN <<>>
                                                      ELSE Place(all, f[n - 1], list[n])]
<1>1. m \in Nat /\ \A i \in 1 .. m : list[i] \in U
  OBVIOUS
<1>2. <<>> \in S
  BY DEF Ascending
<1>3. ASSUME NEW s \in S, NEW n \in 1 .. m
      PROVE  Place(all, s, list[n]) \in S /\ step[<<s, n>>] = Place(all, s, list[n])
  BY <1>1, <1>3, PlaceIs
<1>4. step \in [S \X (1 .. m) -> S]
  BY <1>3
<1> HIDE DEF S, step, m
<1>4a. Iterates(S, <<>>, m, step)
  BY <1>1, <1>2, <1>4, Iterated DEF IsStep
<1>5. PICK g \in [0 .. m -> S] :
            \A n \in 0 .. m : g[n] = IF n = 0 THEN <<>> ELSE step[<<g[n - 1], n>>]
  BY <1>4a DEF Iterates
<1>6. ASSUME NEW n \in 0 .. m
      PROVE  g[n] = IF n = 0 THEN <<>> ELSE Place(all, g[n - 1], list[n])
  <2>1. g[n] = IF n = 0 THEN <<>> ELSE step[<<g[n - 1], n>>]
    BY <1>5
  <2>2. n # 0 => n \in 1 .. m /\ g[n - 1] \in S
    BY <1>1, <1>5
  <2>3. QED
    BY <1>3, <2>1, <2>2
<1>7. g = [n \in 0 .. m |-> IF n = 0 THEN <<>> ELSE Place(all, g[n - 1], list[n])]
  BY <1>5, <1>6
<1>8. sorted = [n \in 0 .. m |-> IF n = 0 THEN <<>> ELSE Place(all, sorted[n - 1], list[n])]
  BY <1>7
<1>9. SortByTimestamp(all, list) = sorted[m]
  BY DEF SortByTimestamp, m
<1> HIDE DEF sorted
<1>10. ASSUME NEW n \in 0 .. m
       PROVE  sorted[n] = IF n = 0 THEN <<>> ELSE Place(all, sorted[n - 1], list[n])
  BY <1>8
<1> DEFINE Good(n) == /\ sorted[n] \in S
                      /\ ToSet(sorted[n]) = {list[i] : i \in 1 .. n}
                      /\ Distinct(list) => Distinct(sorted[n])
           T == {n \in 0 .. m : Good(n)}
<1>11. 0 \in T
  <2>1. sorted[0] = <<>>
    BY <1>1, <1>10
  <2>2. ToSet(<<>>) = {} /\ Distinct(<<>>)
    BY DEF ToSet, Distinct
  <2>3. {list[i] : i \in 1 .. 0} = {}
    OBVIOUS
  <2>4. QED
    BY <1>1, <1>2, <2>1, <2>2, <2>3
<1>12. ASSUME NEW n \in 0 .. m, n \in T, n < m PROVE n + 1 \in T
  <2>1. n + 1 \in 0 .. m /\ n + 1 \in 1 .. m /\ n + 1 # 0 /\ (n + 1) - 1 = n
    BY <1>1, <1>12
  <2>2. sorted[n + 1] = Place(all, sorted[n], list[n + 1])
    BY <1>10, <2>1
  <2>3. sorted[n] \in Seq(U) /\ Ascending(all, sorted[n]) /\ list[n + 1] \in U
    BY <1>1, <1>12, <2>1 DEF S
  <2>4. /\ ToSet(sorted[n + 1]) = ToSet(sorted[n]) \cup {list[n + 1]}
        /\ Distinct(sorted[n]) /\ list[n + 1] \notin ToSet(sorted[n]) => Distinct(sorted[n + 1])
    <3> DEFINE s == sorted[n]
               e == list[n + 1]
    <3>1. s \in Seq(U) /\ Ascending(all, s) /\ e \in U /\ sorted[n + 1] = Place(all, s, e)
      BY <2>2, <2>3
    <3> HIDE DEF s, e
    <3>2. /\ ToSet(Place(all, s, e)) = ToSet(s) \cup {e}
          /\ Distinct(s) /\ e \notin ToSet(s) => Distinct(Place(all, s, e))
      BY <3>1, PlaceIs
    <3>3. QED
      BY <3>1, <3>2 DEF s, e
  <2>5. sorted[n + 1] \in S
    BY <1>3, <1>12, <2>1, <2>2
  <2>6. {list[i] : i \in 1 .. n + 1} = {list[i] : i \in 1 .. n} \cup {list[n + 1]}
    <3>1. 1 .. n + 1 = (1 .. n) \cup {n + 1}
      BY <2>1
    <3>2. QED
      BY <3>1
  <2>7. Distinct(list) => list[n + 1] \notin {list[i] : i \in 1 .. n}
    BY <1>1, <2>1 DEF Distinct, m
  <2>8. QED
    BY <1>12, <2>1, <2>4, <2>5, <2>6, <2>7
<1> HIDE DEF T
<1>13. m \in T
  <2>1. \A n \in 0 .. m : n \in T
    BY <1>1, <1>11, <1>12, Climb
  <2>2. QED
    BY <1>1, <2>1
<1>14. ToSet(list) = {list[i] : i \in 1 .. m}
  BY DEF ToSet, m
<1>15. QED
  BY <1>9, <1>13, <1>14 DEF T, S

(* What the filter keeps. *)
LEMMA NotAmongIs ==
    ASSUME NEW U, NEW list \in Seq(U), NEW existing
    PROVE  LET r == NotAmong(list, existing) IN
           /\ r \in Seq(U) /\ ToSet(r) = ToSet(list) \ ToSet(existing)
           /\ Distinct(list) => Distinct(r)
<1> DEFINE m == Len(list)
           S == Seq(U)
           E == ToSet(existing)
           Next0(s, n) == IF list[n] \in E THEN s ELSE Append(s, list[n])
           step == [x \in S \X (1 .. m) |-> Next0(x[1], x[2])]
           kept == CHOOSE f : f = [n \in 0 .. m |->
                                        IF n = 0 THEN <<>>
                                        ELSE IF list[n] \in ToSet(existing) THEN f[n - 1]
                                        ELSE Append(f[n - 1], list[n])]
<1>1. m \in Nat /\ \A i \in 1 .. m : list[i] \in U
  OBVIOUS
<1>2. <<>> \in S
  OBVIOUS
<1>3. ASSUME NEW s \in S, NEW n \in 1 .. m
      PROVE  Next0(s, n) \in S /\ step[<<s, n>>] = Next0(s, n)
  BY <1>1
<1>4. step \in [S \X (1 .. m) -> S]
  BY <1>3
<1> HIDE DEF S, step, E, m
<1>4a. Iterates(S, <<>>, m, step)
  BY <1>1, <1>2, <1>4, Iterated DEF IsStep
<1>5. PICK g \in [0 .. m -> S] :
            \A n \in 0 .. m : g[n] = IF n = 0 THEN <<>> ELSE step[<<g[n - 1], n>>]
  BY <1>4a DEF Iterates
<1>6. ASSUME NEW n \in 0 .. m
      PROVE  g[n] = IF n = 0 THEN <<>> ELSE Next0(g[n - 1], n)
  <2>1. g[n] = IF n = 0 THEN <<>> ELSE step[<<g[n - 1], n>>]
    BY <1>5
  <2>2. n # 0 => n \in 1 .. m /\ g[n - 1] \in S
    BY <1>1, <1>5
  <2> HIDE DEF Next0
  <2>3. QED
    BY <1>3, <2>1, <2>2
<1>7. g = [n \in 0 .. m |-> IF n = 0 THEN <<>>
                            ELSE IF list[n] \in ToSet(existing) THEN g[n - 1]
                            ELSE Append(g[n - 1], list[n])]
  BY <1>5, <1>6 DEF E
<1>8. kept = [n \in 0 .. m |-> IF n = 0 THEN <<>>
                               ELSE IF list[n] \in ToSet(existing) THEN kept[n - 1]
                               ELSE Append(kept[n - 1], list[n])]
  BY <1>7
<1>9. NotAmong(list, existing) = kept[m]
  BY DEF NotAmong, m
<1> HIDE DEF kept
<1>10. ASSUME NEW n \in 0 .. m
       PROVE  kept[n] = IF n = 0 THEN <<>> ELSE Next0(kept[n - 1], n)
  BY <1>8 DEF E
<1> DEFINE Good(n) == /\ kept[n] \in S
                      /\ ToSet(kept[n]) = {list[i] : i \in 1 .. n} \ E
                      /\ Distinct(list) => Distinct(kept[n])
           T == {n \in 0 .. m : Good(n)}
<1>11. 0 \in T
  <2>1. kept[0] = <<>>
    BY <1>1, <1>10
  <2>2. ToSet(<<>>) = {} /\ Distinct(<<>>)
    BY DEF ToSet, Distinct
  <2>3. {list[i] : i \in 1 .. 0} = {}
    OBVIOUS
  <2>4. QED
    BY <1>1, <1>2, <2>1, <2>2, <2>3
<1>12. ASSUME NEW n \in 0 .. m, n \in T, n < m PROVE n + 1 \in T
  <2>1. n + 1 \in 0 .. m /\ n + 1 \in 1 .. m /\ n + 1 # 0 /\ (n + 1) - 1 = n
    BY <1>1, <1>12
  <2>2. kept[n + 1] = Next0(kept[n], n + 1)
    BY <1>10, <2>1
  <2>3. kept[n] \in Seq(U) /\ list[n + 1] \in U
    BY <1>1, <1>12, <2>1 DEF S
  <2>4. kept[n + 1] \in S
    BY <1>3, <1>12, <2>1, <2>2
  <2>5. {list[i] : i \in 1 .. n + 1} = {list[i] : i \in 1 .. n} \cup {list[n + 1]}
    <3>1. 1 .. n + 1 = (1 .. n) \cup {n + 1}
      BY <2>1
    <3>2. QED
      BY <3>1
  <2>6. Distinct(list) => list[n + 1] \notin {list[i] : i \in 1 .. n}
    BY <1>1, <2>1 DEF Distinct, m
  <2>7. CASE list[n + 1] \in E
    BY <1>12, <2>1, <2>2, <2>4, <2>5, <2>7
  <2>8. CASE list[n + 1] \notin E
    <3> DEFINE s == kept[n]
               e == list[n + 1]
    <3>1. kept[n + 1] = Append(s, e)
      BY <2>2, <2>8
    <3> HIDE DEF s, e
    <3>2. s \in Seq(U) /\ e \in U
      BY <2>3 DEF s, e
    <3>3. /\ Len(s) \in Nat /\ DOMAIN s = 1 .. Len(s)
          /\ Len(Append(s, e)) = Len(s) + 1 /\ DOMAIN Append(s, e) = 1 .. Len(s) + 1
          /\ \A i \in 1 .. Len(s) : Append(s, e)[i] = s[i]
          /\ Append(s, e)[Len(s) + 1] = e
      BY <3>2
    <3>4. ToSet(Append(s, e)) = ToSet(s) \cup {e}
      <4>1. \A i \in 1 .. Len(s) + 1 : i \in 1 .. Len(s) \/ i = Len(s) + 1
        BY <3>3
      <4>2. \A i \in 1 .. Len(s) : i \in 1 .. Len(s) + 1
        BY <3>3
      <4>3. Len(s) + 1 \in 1 .. Len(s) + 1
        BY <3>3
      <4>4. QED
        BY <3>3, <4>1, <4>2, <4>3 DEF ToSet
    <3>5. Distinct(s) /\ e \notin ToSet(s) => Distinct(Append(s, e))
      <4> SUFFICES ASSUME Distinct(s), e \notin ToSet(s),
                          NEW i \in 1 .. Len(s) + 1, NEW j \in 1 .. Len(s) + 1, i < j
                   PROVE  Append(s, e)[i] # Append(s, e)[j]
        BY <3>3 DEF Distinct
      <4>1. i \in 1 .. Len(s) /\ (j \in 1 .. Len(s) \/ j = Len(s) + 1)
        BY <3>3
      <4>2. QED
        BY <3>3, <4>1 DEF Distinct, ToSet
    <3>6. QED
      BY <1>12, <2>1, <2>4, <2>5, <2>6, <2>8, <3>1, <3>4, <3>5 DEF s, e
  <2>9. QED
    BY <2>7, <2>8
<1> HIDE DEF T
<1>13. m \in T
  <2>1. \A n \in 0 .. m : n \in T
    BY <1>1, <1>11, <1>12, Climb
  <2>2. QED
    BY <1>1, <2>1
<1>14. ToSet(list) = {list[i] : i \in 1 .. m}
  BY DEF ToSet, m
<1>15. QED
  BY <1>9, <1>13, <1>14 DEF T, S, E

(* Two lists, one behind the other. *)
LEMMA Joined ==
    ASSUME NEW U, NEW s \in Seq(U), NEW t \in Seq(U)
    PROVE  /\ s \o t \in Seq(U) /\ ToSet(s \o t) = ToSet(s) \cup ToSet(t)
           /\ Distinct(s) /\ Distinct(t) /\ ToSet(s) \cap ToSet(t) = {} => Distinct(s \o t)
<1> DEFINE r == s \o t
           m == Len(s)
           n == Len(t)
<1>1. /\ m \in Nat /\ n \in Nat /\ DOMAIN s = 1 .. m /\ DOMAIN t = 1 .. n
      /\ r \in Seq(U) /\ Len(r) = m + n /\ DOMAIN r = 1 .. m + n
      /\ \A i \in 1 .. m + n : r[i] = IF i <= m THEN s[i] ELSE t[i - m]
  OBVIOUS
<1> HIDE DEF r, m, n
<1>2. \A i \in 1 .. m + n : (i <= m /\ i \in 1 .. m) \/ (~(i <= m) /\ i - m \in 1 .. n)
  BY <1>1
<1>3. ToSet(r) = ToSet(s) \cup ToSet(t)
  <2>1. ASSUME NEW i \in 1 .. m PROVE s[i] \in ToSet(r)
    <3>1. i \in 1 .. m + n /\ i <= m
      BY <1>1
    <3>2. QED
      BY <1>1, <3>1 DEF ToSet
  <2>2. ASSUME NEW i \in 1 .. n PROVE t[i] \in ToSet(r)
    <3>1. i + m \in 1 .. m + n /\ ~(i + m <= m) /\ (i + m) - m = i
      BY <1>1
    <3>2. r[i + m] = t[i]
      BY <1>1, <3>1
    <3>3. QED
      BY <1>1, <3>1, <3>2 DEF ToSet
  <2>3. ASSUME NEW i \in 1 .. m + n PROVE r[i] \in ToSet(s) \cup ToSet(t)
    BY <1>1, <1>2 DEF ToSet
  <2>4. QED
    BY <1>1, <2>1, <2>2, <2>3 DEF ToSet
<1>4. ASSUME Distinct(s), Distinct(t), ToSet(s) \cap ToSet(t) = {} PROVE Distinct(r)
  <2> SUFFICES ASSUME NEW i \in 1 .. m + n, NEW j \in 1 .. m + n, i < j
               PROVE  r[i] # r[j]
    BY <1>1 DEF Distinct
  <2>1. CASE j <= m
    <3>1. i \in 1 .. m /\ j \in 1 .. m /\ i <= m
      BY <1>1, <2>1
    <3>2. QED
      BY <1>1, <1>4, <2>1, <3>1 DEF Distinct, m
  <2>2. CASE i <= m /\ ~(j <= m)
    <3>1. r[i] = s[i] /\ r[j] = t[j - m] /\ i \in 1 .. m /\ j - m \in 1 .. n
      BY <1>1, <1>2, <2>2
    <3>2. QED
      BY <1>1, <1>4, <3>1 DEF ToSet
  <2>3. CASE ~(i <= m)
    <3>1. ~(j <= m) /\ i - m < j - m /\ i - m \in 1 .. n /\ j - m \in 1 .. n
      BY <1>1, <1>2, <2>3
    <3>2. QED
      BY <1>1, <1>4, <2>3, <3>1 DEF Distinct, n
  <2>4. QED
    BY <2>1, <2>2, <2>3
<1>5. QED
  BY <1>1, <1>3, <1>4 DEF r

(* mergeHistory: everything is there, once and in order. *)
LEMMA MergedOnce ==
    ASSUME NEW U, NEW all, \A v \in U : all[v].timestamp \in Nat,
           NEW existing \in Seq(U), Ascending(all, existing), Distinct(existing),
           NEW incoming \in Seq(U), Distinct(incoming)
    PROVE  LET r == MergeHistory(all, existing, incoming) IN
           /\ r \in Seq(U) /\ ToSet(r) = ToSet(existing) \cup ToSet(incoming)
           /\ Ascending(all, r) /\ Distinct(r)
<1> DEFINE new == NotAmong(incoming, existing)
<1>1. /\ new \in Seq(U) /\ ToSet(new) = ToSet(incoming) \ ToSet(existing)
      /\ Distinct(new)
  BY NotAmongIs
<1> HIDE DEF new
<1>2. CASE new = <<>>
  <2>1. ToSet(new) = {}
    BY <1>2 DEF ToSet
  <2>2. MergeHistory(all, existing, incoming) = existing
    BY <1>2 DEF MergeHistory, new
  <2>3. QED
    BY <1>1, <2>1, <2>2
<1>3. CASE new # <<>>
  <2>1. MergeHistory(all, existing, incoming) = SortByTimestamp(all, new \o existing)
    BY <1>3 DEF MergeHistory, new
  <2>2. /\ new \o existing \in Seq(U) /\ Distinct(new \o existing)
        /\ ToSet(new \o existing) = ToSet(new) \cup ToSet(existing)
    BY <1>1, Joined
  <2> DEFINE both == new \o existing
             r == SortByTimestamp(all, both)
  <2>3. /\ r \in Seq(U) /\ ToSet(r) = ToSet(both) /\ Ascending(all, r)
        /\ Distinct(both) => Distinct(r)
    <3>1. both \in Seq(U)
      BY <2>2
    <3> HIDE DEF both
    <3>2. QED
      BY <3>1, SortIs
  <2> HIDE DEF both, r
  <2>4. Distinct(r) /\ ToSet(r) = ToSet(existing) \cup ToSet(incoming)
    BY <1>1, <2>2, <2>3 DEF both
  <2>5. QED
    BY <2>1, <2>3, <2>4 DEF both, r
<1>4. QED
  BY <1>2, <1>3
-----------------------------------------------------------------------------
(* Listed.                                                                 *)

\* The pairs of `before` order S.
Orders(before, S) ==
    /\ \A x \in S : <<x, x>> \notin before
    /\ \A x, y \in S : x # y => <<x, y>> \in before \/ <<y, x>> \in before
    /\ \A x, y, z \in S : <<x, y>> \in before /\ <<y, z>> \in before => <<x, z>> \in before

(* Every element of S is listed, once and in its place. *)
LEMMA ListedIs ==
    ASSUME NEW S, IsFiniteSet(S), NEW before, Orders(before, S)
    PROVE  LET r == Listed(S, before) IN
           /\ r \in Seq(S) /\ Len(r) = Cardinality(S)
           /\ ToSet(r) = S
           /\ \A i, j \in 1 .. Len(r) : i < j => <<r[i], r[j]>> \in before
           /\ \A x \in S : LET k == Cardinality({y \in S : <<y, x>> \in before}) + 1 IN
                k \in 1 .. Len(r) /\ r[k] = x
<1> DEFINE n == Cardinality(S)
           Before(x) == {y \in S : <<y, x>> \in before}
           rank == [x \in S |-> Cardinality(Before(x))]
           r == Listed(S, before)
<1>1. n \in Nat
  BY FS_CardinalityType
<1>2. ASSUME NEW x \in S
      PROVE  IsFiniteSet(Before(x)) /\ Cardinality(Before(x)) \in Nat /\ Cardinality(Before(x)) < n
  <2>1. Before(x) \subseteq S /\ x \notin Before(x)
    BY DEF Orders
  <2>2. IsFiniteSet(Before(x)) /\ Cardinality(Before(x)) <= n
        /\ (n = Cardinality(Before(x)) => S = Before(x))
    BY <2>1, FS_Subset
  <2>3. Cardinality(Before(x)) \in Nat
    BY <2>2, FS_CardinalityType
  <2> HIDE DEF n, Before
  <2>4. QED
    BY <1>1, <2>1, <2>2, <2>3
<1>3. ASSUME NEW x \in S, NEW y \in S, <<x, y>> \in before PROVE rank[x] < rank[y]
  <2>1. Before(x) \subseteq Before(y) /\ x \in Before(y) /\ x \notin Before(x)
    BY <1>3 DEF Orders
  <2>2. Cardinality(Before(x)) <= Cardinality(Before(y))
        /\ (Cardinality(Before(y)) = Cardinality(Before(x)) => Before(y) = Before(x))
    BY <1>2, <2>1, FS_Subset
  <2>3. rank[x] = Cardinality(Before(x)) /\ rank[y] = Cardinality(Before(y))
    OBVIOUS
  <2> HIDE DEF Before, rank
  <2>4. QED
    BY <1>2, <2>1, <2>2, <2>3
<1>4. \A x \in S : rank[x] = Cardinality(Before(x)) /\ rank[x] \in 0 .. n - 1
  <2> SUFFICES ASSUME NEW x \in S
               PROVE  rank[x] = Cardinality(Before(x)) /\ rank[x] \in 0 .. n - 1
    OBVIOUS
  <2>1. rank[x] = Cardinality(Before(x))
    OBVIOUS
  <2> HIDE DEF rank, n, Before
  <2>2. QED
    BY <1>1, <1>2, <2>1
<1>5. rank \in [S -> 0 .. n - 1]
  BY <1>4
<1>6. rank \in Injection(S, 0 .. n - 1)
  <2>1. ASSUME NEW x \in S, NEW y \in S, rank[x] = rank[y] PROVE x = y
    <3>1. \A z \in S : rank[z] \in Nat
      BY <1>1, <1>4
    <3>2. \A a, b \in S : <<a, b>> \in before => rank[a] < rank[b]
      BY <1>3
    <3>3. x # y => <<x, y>> \in before \/ <<y, x>> \in before
      BY DEF Orders
    <3> HIDE DEF rank
    <3>4. ~(rank[x] < rank[y]) /\ ~(rank[y] < rank[x])
      BY <2>1, <3>1
    <3>5. QED
      BY <3>2, <3>3, <3>4
  <2>2. DOMAIN rank = S
    OBVIOUS
  <2> HIDE DEF rank
  <2>3. QED
    BY <1>5, <2>1, <2>2 DEF Injection, IsInjective
<1>7. IsFiniteSet(0 .. n - 1) /\ Cardinality(0 .. n - 1) = n
  <2>1. 0 \in Int /\ n - 1 \in Int
    BY <1>1
  <2>2. /\ IsFiniteSet(0 .. n - 1)
        /\ Cardinality(0 .. n - 1) = IF 0 > n - 1 THEN 0 ELSE (n - 1) - 0 + 1
    BY <2>1, FS_Interval
  <2> HIDE DEF n
  <2>3. QED
    BY <1>1, <2>2
<1> HIDE DEF rank
<1>8. rank \in Surjection(S, 0 .. n - 1)
  BY <1>6, <1>7, FS_Injection
<1>9. ASSUME NEW k \in 1 .. n PROVE r[k] \in S /\ rank[r[k]] = k - 1
  <2>1. k - 1 \in 0 .. n - 1
    BY <1>1
  <2>2. PICK x \in S : rank[x] = k - 1
    BY <1>8, <2>1 DEF Surjection
  <2>3. Cardinality(Before(x)) = k - 1
    BY <1>4, <2>2
  <2>4. r[k] = CHOOSE z \in S : Cardinality(Before(z)) = k - 1
    BY DEF Listed
  <2> HIDE DEF Before, r
  <2>5. r[k] \in S /\ Cardinality(Before(r[k])) = k - 1
    BY <2>3, <2>4
  <2>6. QED
    BY <1>4, <2>5
<1> DEFINE e(k) == CHOOSE x \in S : Cardinality(Before(x)) = k - 1
<1>10. r = [k \in 1 .. n |-> e(k)]
  BY DEF Listed
<1> HIDE DEF r, n, e
<1>11. r \in [1 .. n -> S]
  BY <1>9, <1>10
<1>11a. \A x \in S : rank[x] \in 0 .. n - 1
  BY <1>5
<1>12. r \in Seq(S) /\ Len(r) = n /\ DOMAIN r = 1 .. n
  BY <1>1, <1>11
<1>13. ASSUME NEW x \in S PROVE rank[x] + 1 \in 1 .. n /\ r[rank[x] + 1] = x
  <2>1. rank[x] + 1 \in 1 .. n /\ (rank[x] + 1) - 1 = rank[x]
    BY <1>1, <1>11a
  <2>2. r[rank[x] + 1] \in S /\ rank[r[rank[x] + 1]] = rank[x]
    BY <1>9, <2>1
  <2>3. QED
    BY <1>6, <2>1, <2>2 DEF Injection, IsInjective
<1>13a. ToSet(r) = S
  BY <1>9, <1>12, <1>13 DEF ToSet
<1>13b. \A x \in S : Cardinality(Before(x)) + 1 \in 1 .. Len(r) /\ r[Cardinality(Before(x)) + 1] = x
  BY <1>4, <1>12, <1>13
<1>14. ASSUME NEW i \in 1 .. n, NEW j \in 1 .. n, i < j PROVE <<r[i], r[j]>> \in before
  <2>1. r[i] \in S /\ r[j] \in S /\ rank[r[i]] = i - 1 /\ rank[r[j]] = j - 1
    BY <1>9
  <2>2. rank[r[i]] < rank[r[j]]
    BY <1>1, <1>14, <2>1
  <2>3. r[i] # r[j] /\ <<r[j], r[i]>> \notin before
    <3>1. rank[r[i]] \in Nat /\ rank[r[j]] \in Nat
      BY <1>1, <1>11a, <2>1
    <3>2. QED
      BY <1>3, <2>1, <2>2, <3>1
  <2>4. QED
    BY <2>1, <2>3 DEF Orders
<1>15. QED
  BY <1>12, <1>13a, <1>13b, <1>14 DEF r, n

-----------------------------------------------------------------------------
(* The pages of the server.                                                *)

\* The rows of a page of those before a row: the newest of them, and all of them without a gap.
PageRows(rows, before) ==
    /\ rows \in Seq(RowsBefore(before))
    /\ \A i, j \in 1 .. Len(rows) : i < j => rows[i] > rows[j]
    /\ RowsBefore(before) # {} => rows # <<>>
    /\ rows # <<>> => \A i \in RowsBefore(before) : i >= rows[Len(rows)] => i \in ToSet(rows)
    /\ ~HasOlder(before) => ToSet(rows) = RowsBefore(before)

(* A page is the newest of the rows asked for, newest first. *)
LEMMA GetHistoryIs ==
    ASSUME NEW N \in Nat, Len(log) = N, expired \in Nat, NEW before \in Nat
    PROVE  PageRows(GetHistory(before), before)
<1> DEFINE R == RowsBefore(before)
           order == {p \in R \X R : p[1] > p[2]}
           all == Listed(R, order)
           n == Cardinality(R)
           m == IF HasOlder(before) THEN BatchSize ELSE Len(all)
           rows == GetHistory(before)
<1>1. R \subseteq 1 .. N /\ IsFiniteSet(R)
  <2>1. R \subseteq 1 .. N
    BY DEF RowsBefore
  <2>2. IsFiniteSet(1 .. N)
    BY FS_Interval
  <2>3. QED
    BY <2>1, <2>2, FS_Subset
<1>2. n \in Nat /\ (R # {} => n # 0)
  BY <1>1, FS_CardinalityType, FS_EmptySet
<1>3. Orders(order, R)
  <2>1. \A x \in R : x \in Nat
    BY <1>1
  <2>2. \A x, y \in R : <<x, y>> \in order <=> x > y
    OBVIOUS
  <2> HIDE DEF order, R
  <2>3. QED
    BY <2>1, <2>2 DEF Orders
<1>4. /\ all \in Seq(R) /\ Len(all) = n /\ ToSet(all) = R
      /\ \A i, j \in 1 .. n : i < j => <<all[i], all[j]>> \in order
  BY <1>1, <1>3, ListedIs
<1>5. \A i, j \in 1 .. n : i < j => all[i] > all[j]
  BY <1>4
<1>6. HasOlder(before) <=> n > BatchSize
  BY DEF HasOlder
<1>7. rows = SubSeq(all, 1, m)
  BY DEF GetHistory
<1> HIDE DEF R, order, all, n
<1>8. m \in 0 .. n /\ (n # 0 => m # 0) /\ (~HasOlder(before) => m = n)
  BY <1>2, <1>4, <1>6, ChatNumbers
<1> HIDE DEF m, rows
<1>9. \A i \in 1 .. n : all[i] \in R
  BY <1>4
<1>10. /\ rows \in Seq(R) /\ Len(rows) = m
       /\ \A i \in 1 .. m : rows[i] = all[i]
  <2>1. \A i \in 1 .. m : all[i] \in R
    BY <1>2, <1>8, <1>9
  <2>2. /\ SubSeq(all, 1, m) \in Seq(R)
        /\ Len(SubSeq(all, 1, m)) = IF 1 <= m THEN m - 1 + 1 ELSE 0
        /\ \A i \in 1 .. m - 1 + 1 : SubSeq(all, 1, m)[i] = all[1 + i - 1]
    BY <1>2, <1>8, <2>1, SubSeqProperties
  <2>3. /\ rows \in Seq(R) /\ Len(rows) = IF 1 <= m THEN m - 1 + 1 ELSE 0
        /\ \A i \in 1 .. m - 1 + 1 : rows[i] = all[1 + i - 1]
    BY <1>7, <2>2
  <2>4. QED
    BY <1>2, <1>8, <2>3
<1>11. \A i, j \in 1 .. Len(rows) : i < j => rows[i] > rows[j]
  <2>1. SUFFICES ASSUME NEW i \in 1 .. m, NEW j \in 1 .. m, i < j PROVE rows[i] > rows[j]
    BY <1>10
  <2>2. i \in 1 .. n /\ j \in 1 .. n
    BY <1>2, <1>8
  <2>3. QED
    BY <1>5, <1>10, <2>1, <2>2
<1>12. R # {} => rows # <<>>
  BY <1>2, <1>8, <1>10
<1>13. ASSUME rows # <<>>, NEW i \in R, i >= rows[Len(rows)] PROVE i \in ToSet(rows)
  <2>1. m \in 1 .. n /\ rows[Len(rows)] = all[m]
    BY <1>2, <1>8, <1>10, <1>13
  <2>2. PICK k \in 1 .. n : i = all[k]
    BY <1>4 DEF ToSet
  <2>3. all[k] \in Nat /\ all[m] \in Nat
    <3>1. \A x \in R : x \in Nat
      BY <1>1
    <3>2. QED
      BY <1>9, <2>1, <3>1
  <2>4. ~(m < k)
    BY <1>2, <1>5, <1>13, <2>1, <2>2, <2>3
  <2>5. k \in 1 .. m /\ DOMAIN rows = 1 .. m
    BY <1>2, <1>8, <1>10, <2>4
  <2>6. QED
    BY <1>10, <2>2, <2>5 DEF ToSet
<1>14. ASSUME ~HasOlder(before) PROVE ToSet(rows) = R
  <2>1. m = n
    BY <1>8, <1>14
  <2>2. DOMAIN rows = 1 .. n /\ DOMAIN all = 1 .. n
    BY <1>4, <1>10, <2>1
  <2>3. QED
    BY <1>4, <1>10, <2>1, <2>2 DEF ToSet
<1>15. QED
  BY <1>10, <1>11, <1>12, <1>13, <1>14 DEF PageRows, R, rows
-----------------------------------------------------------------------------
(* What every state has.                                                   *)

Message == [device : Devices, seq : Nat \ {0}, timestamp : Nat]
Broadcast == [type : {"chat"}, uuid : Uuids]
Answer == [type : {"history"}, rows : Seq(1 .. Len(log)), more : BOOLEAN, join : BOOLEAN]

\* The server's tables; a message has one row at most.
ServerOK ==
    /\ sent \in Seq(Message)
    /\ log \in Seq(Uuids)
    /\ \A i, j \in 1 .. Len(log) : log[i] = log[j] => i = j
    /\ expired \in 0 .. Len(log)
    /\ mishaps \in 0 .. MaxMishaps

PerDevice(f) == f = [d \in Devices |-> f[d]]
Maps ==
    /\ PerDevice(conn) /\ PerDevice(inbox) /\ PerDevice(blobs) /\ PerDevice(lastSeen)
    /\ PerDevice(ownSeq) /\ PerDevice(seq) /\ PerDevice(loaded) /\ PerDevice(sending)
    /\ PerDevice(opening) /\ PerDevice(pages) /\ PerDevice(shown) /\ PerDevice(cursor)
    /\ PerDevice(hasMore) /\ PerDevice(loading) /\ PerDevice(readTo) /\ PerDevice(rejected)
    /\ PerDevice(gap) /\ PerDevice(cached) /\ PerDevice(leftOut)

\* TypeOK, of one device.
DeviceTypes(d) ==
    /\ conn[d] \in {"on", "off"}
    /\ inbox[d] \in Seq(Broadcast \cup Answer)
    /\ blobs[d] \subseteq Uuids
    /\ lastSeen[d] \in [Devices -> Nat]
    /\ ownSeq[d] \in Nat
    /\ seq[d] \in Nat
    /\ loaded[d] \subseteq {"seq", "cache"}
    /\ DOMAIN sending[d] \subseteq Uuids
    /\ \A u \in DOMAIN sending[d] : sending[d][u] \in {"encrypt", "put", "putSeq"}
    /\ DOMAIN opening[d] \subseteq Uuids
    /\ \A u \in DOMAIN opening[d] : opening[d][u] \in {"decrypt", "show"}
    /\ pages[d] \subseteq Answer
    /\ shown[d] \in Seq(Uuids)
    /\ cursor[d] \in 0 .. Len(log)
    /\ hasMore[d] \in BOOLEAN
    /\ loading[d] \in BOOLEAN
    /\ readTo[d] \in 0 .. Len(log)
    /\ rejected[d] \subseteq Uuids
    /\ gap[d] \in BOOLEAN
    /\ cached[d] \in Seq(Uuids)
    /\ leftOut[d] \subseteq Uuids

Chats(d) == {k \in DOMAIN inbox[d] : inbox[d][k].type = "chat"}
Answers(d) == {k \in DOMAIN inbox[d] : inbox[d][k].type = "history"}
Descending(rows) == \A i, j \in 1 .. Len(rows) : i < j => rows[i] > rows[j]

\* The screen is in order, the cache is read without repetition, what is being encrypted has no row, what is broadcast has one, and a
\* page goes back in time.
Tidy(d) ==
    /\ Ascending(sent, shown[d])
    /\ Distinct(shown[d]) /\ Distinct(cached[d])
    /\ \A u \in DOMAIN sending[d] : /\ sent[u].device = d
                                    /\ sending[d][u] = "encrypt" => u \notin ToSet(log)
    /\ \A page \in pages[d] : page.rows # <<>> /\ Descending(page.rows)
    /\ \A k \in Answers(d) : Descending(inbox[d][k].rows)
    /\ \A k \in Chats(d) : inbox[d][k].uuid \in ToSet(log)

DeviceOK(d) == DeviceTypes(d) /\ Tidy(d)

TidyInv == ServerOK /\ Maps /\ \A d \in Devices : DeviceOK(d)

\* Nothing of device d changes.
Same(d) ==
    /\ conn'[d] = conn[d] /\ inbox'[d] = inbox[d] /\ blobs'[d] = blobs[d]
    /\ lastSeen'[d] = lastSeen[d] /\ ownSeq'[d] = ownSeq[d] /\ seq'[d] = seq[d]
    /\ loaded'[d] = loaded[d] /\ sending'[d] = sending[d] /\ opening'[d] = opening[d]
    /\ pages'[d] = pages[d] /\ shown'[d] = shown[d] /\ cursor'[d] = cursor[d]
    /\ hasMore'[d] = hasMore[d] /\ loading'[d] = loading[d] /\ readTo'[d] = readTo[d]
    /\ rejected'[d] = rejected[d] /\ gap'[d] = gap[d]
    /\ cached'[d] = cached[d] /\ leftOut'[d] = leftOut[d]

Elsewhere(d) == Maps' /\ \A e \in Devices : e # d => Same(e)

\* An operation of d that leaves the server alone.
OwnStep(d) ==
    \/ \E u \in DOMAIN sending[d] : PutBlob(d, u) \/ WriteFails(d, u) \/ PutOwnSeq(d, u)
    \/ ReceiveChat(d) \/ ReceiveHistory(d)
    \/ \E u \in DOMAIN opening[d] : CheckAndStore(d, u) \/ Show(d, u)
    \/ \E page \in pages[d] : HistoryLoaded(d, page)
    \/ RequestHistory(d) \/ LoadSeq(d) \/ ReadCache(d) \/ ShowCache(d)
    \/ Connect(d) \/ Disconnect(d) \/ Reload(d) \/ ClearHistory(d)

(* The steps of a device leave the others alone. *)
LEMMA SendLocal ==
    ASSUME Maps, NEW d \in Devices, SendMessage(d)
    PROVE  Elsewhere(d)
  BY DEF SendMessage, Maps, PerDevice, Elsewhere, Same, net, idb, ghosts, fromCache

(* A device's own operations concern that device alone. *)
LEMMA SendingLocal ==
    ASSUME Maps, NEW d \in Devices, NEW u,
           PutBlob(d, u) \/ WriteFails(d, u) \/ PutOwnSeq(d, u)
    PROVE  Elsewhere(d)
<1>1. CASE PutBlob(d, u)
  BY <1>1 DEF PutBlob, Maps, PerDevice, Elsewhere, Same, net, view, ghosts, fromCache
<1>2. CASE WriteFails(d, u)
  BY <1>2 DEF WriteFails, Maps, PerDevice, Elsewhere, Same, net, view, idb, ghosts, fromCache
<1>3. CASE PutOwnSeq(d, u)
  BY <1>3 DEF PutOwnSeq, Maps, PerDevice, Elsewhere, Same, net, view, ghosts, fromCache
<1>4. QED
  BY <1>1, <1>2, <1>3

(* Reading from the socket. *)
LEMMA ReceiveLocal ==
    ASSUME Maps, NEW d \in Devices, ReceiveChat(d) \/ ReceiveHistory(d)
    PROVE  Elsewhere(d)
<1>1. CASE ReceiveChat(d)
  BY <1>1 DEF ReceiveChat, Maps, PerDevice, Elsewhere, Same, view, idb, fromCache
<1>2. CASE ReceiveHistory(d)
  BY <1>2 DEF ReceiveHistory, Maps, PerDevice, Elsewhere, Same, idb, fromCache
<1>3. QED
  BY <1>1, <1>2

(* Processing a broadcast. *)
LEMMA OpeningLocal ==
    ASSUME Maps, NEW d \in Devices, NEW u, CheckAndStore(d, u) \/ Show(d, u)
    PROVE  Elsewhere(d)
<1>1. CASE CheckAndStore(d, u)
  BY <1>1 DEF CheckAndStore, Maps, PerDevice, Elsewhere, Same, net, view, fromCache
<1>2. CASE Show(d, u)
  BY <1>2 DEF Show, Maps, PerDevice, Elsewhere, Same, net, idb, ghosts, fromCache
<1>3. QED
  BY <1>1, <1>2

(* History, the cache and the counter. *)
LEMMA HistoryLocal ==
    ASSUME Maps, NEW d \in Devices,
           \/ \E page \in pages[d] : HistoryLoaded(d, page)
           \/ RequestHistory(d) \/ LoadSeq(d) \/ ReadCache(d) \/ ShowCache(d)
    PROVE  Elsewhere(d)
<1>1. ASSUME NEW page, HistoryLoaded(d, page) PROVE Elsewhere(d)
  BY <1>1 DEF HistoryLoaded, StoredIfNew, Maps, PerDevice, Elsewhere, Same, net, ghosts, fromCache
<1>2. CASE RequestHistory(d)
  BY <1>2 DEF RequestHistory, Maps, PerDevice, Elsewhere, Same, idb, ghosts, fromCache
<1>3. CASE LoadSeq(d)
  BY <1>3 DEF LoadSeq, Maps, PerDevice, Elsewhere, Same, net, idb, view, ghosts, fromCache
<1>4. CASE ReadCache(d)
  BY <1>4 DEF ReadCache, Maps, PerDevice, Elsewhere, Same, net, idb, view, ghosts
<1>5. CASE ShowCache(d)
  BY <1>5 DEF ShowCache, Maps, PerDevice, Elsewhere, Same, net, idb, ghosts
<1>6. QED
  BY <1>1, <1>2, <1>3, <1>4, <1>5

(* Connections and reloads. *)
LEMMA SessionLocal ==
    ASSUME Maps, NEW d \in Devices, Connect(d) \/ Disconnect(d) \/ Reload(d) \/ ClearHistory(d)
    PROVE  Elsewhere(d)
<1>1. CASE Connect(d)
  BY <1>1 DEF Connect, Maps, PerDevice, Elsewhere, Same, idb, ghosts, fromCache
<1>2. CASE Disconnect(d)
  BY <1>2 DEF Disconnect, Maps, PerDevice, Elsewhere, Same, idb, view, ghosts, fromCache
<1>3. CASE Reload(d)
  BY <1>3 DEF Reload, Maps, PerDevice, Elsewhere, Same, idb, fromCache
<1>4. CASE ClearHistory(d)
  BY <1>4 DEF ClearHistory, BlobsCleared, Maps, PerDevice, Elsewhere, Same, net, fromCache
<1>5. QED
  BY <1>1, <1>2, <1>3, <1>4

(* All of them. *)
LEMMA OwnStepLocal ==
    ASSUME Maps, NEW d \in Devices, OwnStep(d)
    PROVE  Elsewhere(d)
  BY SendingLocal, ReceiveLocal, OpeningLocal, HistoryLocal, SessionLocal DEF OwnStep

(* Such a step leaves the server alone. *)
LEMMA ServerAlone ==
    ASSUME NEW d \in Devices, OwnStep(d)
    PROVE  UNCHANGED <<sent, log, expired>> /\ (mishaps' = mishaps \/ Mishap)
<1>1. ASSUME NEW u, PutBlob(d, u) \/ WriteFails(d, u) \/ PutOwnSeq(d, u)
      PROVE  UNCHANGED <<sent, log, expired>> /\ (mishaps' = mishaps \/ Mishap)
  BY <1>1 DEF PutBlob, WriteFails, PutOwnSeq, server
<1>2. ASSUME NEW u, CheckAndStore(d, u) \/ Show(d, u)
      PROVE  UNCHANGED <<sent, log, expired>> /\ (mishaps' = mishaps \/ Mishap)
  BY <1>2 DEF CheckAndStore, Show, server
<1>3. ASSUME NEW page, HistoryLoaded(d, page)
      PROVE  UNCHANGED <<sent, log, expired>> /\ (mishaps' = mishaps \/ Mishap)
  BY <1>3 DEF HistoryLoaded, server
<1>4. CASE \/ ReceiveChat(d) \/ ReceiveHistory(d) \/ RequestHistory(d)
           \/ LoadSeq(d) \/ ReadCache(d) \/ ShowCache(d)
  BY <1>4 DEF ReceiveChat, ReceiveHistory, RequestHistory, LoadSeq, ReadCache, ShowCache, server
<1>5. CASE Connect(d) \/ Disconnect(d) \/ Reload(d) \/ ClearHistory(d)
  BY <1>5 DEF Connect, Disconnect, Reload, ClearHistory, server
<1>6. QED
  BY <1>1, <1>2, <1>3, <1>4, <1>5 DEF OwnStep

(* One more message, at the end. *)
LEMMA AppendedIs ==
    ASSUME NEW s, IsSequence(s), NEW m
    PROVE  /\ Len(s) \in Nat /\ DOMAIN s = 1 .. Len(s)
           /\ DOMAIN Append(s, m) = 1 .. Len(s) + 1
           /\ Append(s, m)[Len(s) + 1] = m
           /\ \A i \in 1 .. Len(s) : Append(s, m)[i] = s[i]
<1>1. PICK S : s \in Seq(S)
  BY DEF IsSequence
<1> DEFINE T == S \cup {m}
<1>2. s \in Seq(T) /\ m \in T
  BY <1>1
<1> HIDE DEF T
<1>3. QED
  BY <1>2
-----------------------------------------------------------------------------
(* TidyInv, step by step.                                                  *)

(* A sequence of a larger set. *)
LEMMA SeqGrows ==
    ASSUME NEW S, NEW T, S \subseteq T, NEW s \in Seq(S)
    PROVE  s \in Seq(T)
<1>1. Len(s) \in Nat /\ s = [i \in 1 .. Len(s) |-> s[i]] /\ \A i \in 1 .. Len(s) : s[i] \in S
  OBVIOUS
<1>2. \A i \in 1 .. Len(s) : s[i] \in T
  BY <1>1
<1>3. QED
  BY <1>1, <1>2

(* The greater of two numbers. *)
LEMMA MaxOfTwo ==
    ASSUME NEW a \in Nat, NEW b \in Nat
    PROVE  Max({a, b}) = IF a >= b THEN a ELSE b
<1> DEFINE m == IF a >= b THEN a ELSE b
<1>1. m \in {a, b} /\ \A y \in {a, b} : m >= y
  OBVIOUS
<1>2. \A x \in {a, b} : (\A y \in {a, b} : x >= y) => x = m
  OBVIOUS
<1>3. Max({a, b}) = CHOOSE x \in {a, b} : \A y \in {a, b} : x >= y
  BY DEF Max
<1> HIDE DEF m
<1>4. QED
  BY <1>1, <1>2, <1>3

(* What ServerOK says of a message and of a row. *)
LEMMA Tables ==
    ASSUME ServerOK
    PROVE  /\ Len(sent) \in Nat /\ Len(log) \in Nat /\ expired \in Nat
           /\ \A u \in Uuids : /\ sent[u].device \in Devices /\ sent[u].seq \in Nat
                               /\ sent[u].timestamp \in Nat
           /\ \A i \in 1 .. Len(log) : log[i] \in Uuids /\ log[i] \in ToSet(log)
           /\ DOMAIN log = 1 .. Len(log)
           /\ \A u \in ToSet(log) : \E i \in 1 .. Len(log) : log[i] = u
           /\ ToSet(log) \subseteq Uuids
<1>1. sent \in Seq(Message) /\ log \in Seq(Uuids) /\ expired \in 0 .. Len(log)
  BY DEF ServerOK
<1>2. /\ Len(sent) \in Nat /\ Len(log) \in Nat /\ DOMAIN log = 1 .. Len(log)
      /\ \A u \in 1 .. Len(sent) : sent[u] \in Message
      /\ \A i \in 1 .. Len(log) : log[i] \in Uuids
  BY <1>1
<1>3. \A m \in Message : m.device \in Devices /\ m.seq \in Nat /\ m.timestamp \in Nat
  BY DEF Message
<1>4. ToSet(log) = {log[i] : i \in 1 .. Len(log)}
  BY <1>2 DEF ToSet
<1>5. QED
  BY <1>1, <1>2, <1>3, <1>4 DEF Uuids

(* The row of a message that has one. *)
LEMMA RowOfIs ==
    ASSUME ServerOK, NEW u \in ToSet(log)
    PROVE  RowOf(u) \in 1 .. Len(log) /\ log[RowOf(u)] = u
  BY Tables DEF RowOf

(* A device's own operations leave the tables as they should be. *)
LEMMA ServerKept ==
    ASSUME ServerOK, UNCHANGED <<sent, log, expired>>, mishaps' = mishaps \/ Mishap
    PROVE  ServerOK'
  BY ChatNumbers DEF ServerOK, Mishap, Uuids

\* There are more messages, perhaps.
Extended == Len(sent) \in Nat /\ Len(sent') \in Nat /\ Len(sent) <= Len(sent')
            /\ \A u \in Uuids : sent'[u] = sent[u]

(* What the others send changes nothing for a device. *)
LEMMA StillOK ==
    ASSUME NEW e \in Devices, DeviceOK(e), Same(e), Extended, UNCHANGED log
    PROVE  DeviceOK(e)'
<1>1. Uuids \subseteq Uuids'
  BY DEF Extended, Uuids
<1>2. Answer' = Answer /\ Broadcast \subseteq Broadcast'
  BY <1>1 DEF Answer, Broadcast
<1>3. inbox'[e] \in Seq(Broadcast' \cup Answer') /\ shown'[e] \in Seq(Uuids')
  BY <1>1, <1>2, SeqGrows DEF DeviceOK, DeviceTypes, Same, fromCache
<1>4. DeviceTypes(e)'
  BY <1>1, <1>2, <1>3 DEF DeviceOK, DeviceTypes, Same, fromCache
<1>5. Ascending(sent', shown'[e])
  <2>1. \A i \in 1 .. Len(shown[e]) : shown[e][i] \in Uuids
    BY DEF DeviceOK, DeviceTypes
  <2>2. QED
    BY <2>1 DEF DeviceOK, Tidy, Same, Ascending, Extended, fromCache
<1>6. \A u \in DOMAIN sending'[e] : sent'[u].device = e
  BY DEF DeviceOK, DeviceTypes, Tidy, Same, Extended, fromCache
<1>7. Tidy(e)'
  BY <1>5, <1>6 DEF DeviceOK, Tidy, Same, Chats, Answers, fromCache
<1>8. QED
  BY <1>4, <1>7 DEF DeviceOK

(* A message the device has sent is stored. *)
LEMMA SendingTidy ==
    ASSUME TidyInv, NEW d \in Devices, NEW u \in DOMAIN sending[d],
           PutBlob(d, u) \/ WriteFails(d, u) \/ PutOwnSeq(d, u)
    PROVE  DeviceOK(d)'
<1>1. /\ u \in Uuids /\ sent[u].seq \in Nat
      /\ DeviceTypes(d) /\ Tidy(d)
  BY Tables DEF TidyInv, DeviceOK, DeviceTypes
<1>2. CASE PutBlob(d, u)
  <2>1. DeviceTypes(d)'
    BY <1>1, <1>2 DEF PutBlob, With, TidyInv, Maps, PerDevice, DeviceTypes, server, net, view, ghosts, fromCache,
       Broadcast, Answer, Uuids
  <2>2. Tidy(d)'
    BY <1>1, <1>2 DEF PutBlob, With, TidyInv, Maps, PerDevice, Tidy, server, net, view, ghosts, fromCache,
       Chats, Answers
  <2>3. QED
    BY <2>1, <2>2 DEF DeviceOK
<1>3. CASE WriteFails(d, u)
  <2>1. DeviceTypes(d)'
    BY <1>1, <1>3 DEF WriteFails, Without, TidyInv, Maps, PerDevice, DeviceTypes, server, net, idb, fromCache,
       view, ghosts, Broadcast, Answer, Uuids
  <2>2. Tidy(d)'
    BY <1>1, <1>3 DEF WriteFails, Without, TidyInv, Maps, PerDevice, Tidy, server, net, idb, view, ghosts, fromCache,
       Chats, Answers
  <2>3. QED
    BY <2>1, <2>2 DEF DeviceOK
<1>4. CASE PutOwnSeq(d, u)
  <2>1. DeviceTypes(d)'
    BY <1>1, <1>4 DEF PutOwnSeq, Without, TidyInv, Maps, PerDevice, DeviceTypes, server, net, idb, fromCache,
       view, ghosts, Broadcast, Answer, Uuids
  <2>2. Tidy(d)'
    BY <1>1, <1>4 DEF PutOwnSeq, Without, TidyInv, Maps, PerDevice, Tidy, server, net, idb, view, ghosts, fromCache,
       Chats, Answers
  <2>3. QED
    BY <2>1, <2>2 DEF DeviceOK
<1>5. QED
  BY <1>2, <1>3, <1>4

(* The next message is read. *)
LEMMA FromInbox ==
    ASSUME TidyInv, NEW d \in Devices, inbox[d] # <<>>
    PROVE  /\ 1 \in DOMAIN inbox[d] /\ Head(inbox[d]) = inbox[d][1]
           /\ Tail(inbox[d]) \in Seq(Broadcast \cup Answer)
           /\ Len(inbox[d]) \in Nat \ {0} /\ Len(Tail(inbox[d])) = Len(inbox[d]) - 1
           /\ DOMAIN inbox[d] = 1 .. Len(inbox[d])
           /\ \A k \in DOMAIN Tail(inbox[d]) :
                 k \in Nat \ {0} /\ k + 1 \in DOMAIN inbox[d] /\ Tail(inbox[d])[k] = inbox[d][k + 1]
           /\ \A k \in DOMAIN inbox[d] : inbox[d][k] \in Broadcast \cup Answer
<1> DEFINE s == inbox[d]
           M == Broadcast \cup Answer
<1>1. s \in Seq(M) /\ s # <<>>
  BY DEF TidyInv, DeviceOK, DeviceTypes
<1> HIDE DEF s, M
<1>2. /\ Len(s) \in Nat \ {0} /\ DOMAIN s = 1 .. Len(s) /\ Head(s) = s[1]
      /\ Tail(s) \in Seq(M) /\ Len(Tail(s)) = Len(s) - 1 /\ DOMAIN Tail(s) = 1 .. Len(s) - 1
      /\ \A k \in 1 .. Len(s) : s[k] \in M
      /\ \A k \in 1 .. Len(s) - 1 : Tail(s)[k] = s[k + 1]
  BY <1>1
<1>3. QED
  BY <1>2 DEF s, M

\* The inbox without its first message.
InboxTail(d) == inbox' = [inbox EXCEPT ![d] = Tail(@)]

(* What is left to read was there before, one place further on. *)
LEMMA TailTidy ==
    ASSUME TidyInv, NEW d \in Devices, inbox[d] # <<>>, InboxTail(d), UNCHANGED <<sent, log>>
    PROVE  /\ inbox'[d] \in Seq(Broadcast \cup Answer)'
           /\ \A k \in Chats(d)' : k \in Nat /\ k + 1 \in Chats(d) /\ inbox'[d][k] = inbox[d][k + 1]
           /\ \A k \in Answers(d)' : k \in Nat /\ k + 1 \in Answers(d) /\ inbox'[d][k] = inbox[d][k + 1]
           /\ \A k \in Answers(d)' : Descending(inbox'[d][k].rows)
           /\ \A k \in Chats(d)' : inbox'[d][k].uuid \in ToSet(log')
<1>1. inbox'[d] = Tail(inbox[d])
  BY DEF TidyInv, Maps, PerDevice, InboxTail
<1>2. Uuids' = Uuids /\ Broadcast' = Broadcast /\ Answer' = Answer /\ log' = log
  BY DEF Broadcast, Answer, Uuids
<1>3. /\ \A k \in Chats(d)' : k \in Nat /\ k + 1 \in Chats(d) /\ inbox'[d][k] = inbox[d][k + 1]
      /\ \A k \in Answers(d)' : k \in Nat /\ k + 1 \in Answers(d) /\ inbox'[d][k] = inbox[d][k + 1]
  BY <1>1, FromInbox DEF Chats, Answers
<1>4. Tidy(d)
  BY DEF TidyInv, DeviceOK
<1>5. QED
  BY <1>1, <1>2, <1>3, <1>4, FromInbox DEF Tidy

(* A broadcast is read. *)
LEMMA ReceiveChatTidy ==
    ASSUME TidyInv, NEW d \in Devices, ReceiveChat(d)
    PROVE  DeviceOK(d)'
<1> DEFINE u == Head(inbox[d]).uuid
<1>1. /\ UNCHANGED <<server, conn, idb, seq, loaded, fromCache, sending, pages, view, mishaps, rejected, gap>>
      /\ inbox[d] # <<>> /\ InboxTail(d)
      /\ opening' = [opening EXCEPT ![d] = With(@, u, "decrypt")]
      /\ readTo' = [readTo EXCEPT ![d] = Max({@, RowOf(u)})]
      /\ Head(inbox[d]).type = "chat"
  BY DEF ReceiveChat, InboxTail
<1>2. DeviceTypes(d) /\ Tidy(d) /\ ServerOK
  BY DEF TidyInv, DeviceOK
<1>3. u \in ToSet(log) /\ u \in Uuids
  BY <1>1, <1>2, FromInbox, Tables DEF Chats, Tidy
<1>4. RowOf(u) \in 1 .. Len(log) /\ Len(log) \in Nat
  BY <1>2, <1>3, RowOfIs, Tables
<1>5. Max({readTo[d], RowOf(u)}) \in 0 .. Len(log)
  <2>1. readTo[d] \in Nat /\ RowOf(u) \in Nat
    BY <1>2, <1>4 DEF DeviceTypes
  <2>2. QED
    BY <1>2, <1>4, <2>1, MaxOfTwo DEF DeviceTypes
<1>6. inbox'[d] \in Seq(Broadcast \cup Answer)'
  BY <1>1, TailTidy DEF server
<1> HIDE DEF u
<1>7. DeviceTypes(d)'
  <2>1. Uuids' = Uuids /\ Len(log)' = Len(log) /\ Answer' = Answer
    BY <1>1 DEF Uuids, server, Answer
  <2>2. opening'[d] = With(opening[d], u, "decrypt") /\ readTo'[d] \in 0 .. Len(log)
    BY <1>1, <1>5 DEF TidyInv, Maps, PerDevice
  <2>3. DOMAIN opening'[d] \subseteq Uuids /\ \A v \in DOMAIN opening'[d] : opening'[d][v] \in {"decrypt", "show"}
    BY <1>2, <1>3, <2>2 DEF With, DeviceTypes
  <2>4. QED
    BY <1>1, <1>2, <1>6, <2>1, <2>2, <2>3 DEF DeviceTypes, idb, view, fromCache
<1>8. Tidy(d)'
  <2>1. /\ \A k \in Answers(d)' : Descending(inbox'[d][k].rows)
        /\ \A k \in Chats(d)' : inbox'[d][k].uuid \in ToSet(log')
    BY <1>1, TailTidy DEF server
  <2>2. QED
    BY <1>1, <1>2, <2>1 DEF Tidy, view, server, fromCache
<1>9. QED
  BY <1>7, <1>8 DEF DeviceOK

(* A page is read. *)
LEMMA ReceiveHistoryTidy ==
    ASSUME TidyInv, NEW d \in Devices, ReceiveHistory(d)
    PROVE  DeviceOK(d)'
<1> DEFINE page == Head(inbox[d])
<1>1. /\ UNCHANGED <<server, conn, idb, seq, loaded, fromCache, sending, opening, shown, cursor, mishaps, rejected>>
      /\ inbox[d] # <<>> /\ InboxTail(d)
      /\ page.type = "history"
      /\ pages' = IF page.rows = <<>> THEN pages ELSE [pages EXCEPT ![d] = @ \cup {page}]
      /\ hasMore' = IF page.rows = <<>> THEN [hasMore EXCEPT ![d] = page.more] ELSE hasMore
      /\ loading' = IF page.rows = <<>> THEN [loading EXCEPT ![d] = FALSE] ELSE loading
      /\ gap' = [gap EXCEPT ![d] = @ \/ FallsShort(d, page)]
      /\ readTo' = [readTo EXCEPT ![d] = Max({@, NewestOf(page.rows)})]
  BY DEF ReceiveHistory, InboxTail, LoadingAfter
<1>2. DeviceTypes(d) /\ Tidy(d) /\ ServerOK
  BY DEF TidyInv, DeviceOK
<1>3. page \in Answer /\ Descending(page.rows)
  <2>1. 1 \in Answers(d) /\ page = inbox[d][1] /\ page \in Broadcast \cup Answer
    BY <1>1, FromInbox DEF Answers
  <2>2. \A m \in Broadcast : m.type = "chat"
    BY DEF Broadcast
  <2>3. QED
    BY <1>1, <1>2, <2>1, <2>2 DEF Tidy
<1>4. page.more \in BOOLEAN /\ page.rows \in Seq(1 .. Len(log)) /\ Len(log) \in Nat
  BY <1>2, <1>3, Tables DEF Answer
<1> HIDE DEF page
<1>5. Max({readTo[d], NewestOf(page.rows)}) \in 0 .. Len(log)
  <2>1. readTo[d] \in Nat /\ NewestOf(page.rows) \in 0 .. Len(log)
    <3>1. page.rows # <<>> => Head(page.rows) \in 1 .. Len(log)
      BY <1>4
    <3>2. NewestOf(page.rows) \in 0 .. Len(log)
      BY <1>4, <3>1 DEF NewestOf
    <3>3. QED
      BY <1>2, <1>4, <3>2 DEF DeviceTypes
  <2>2. NewestOf(page.rows) \in Nat /\ readTo[d] \in 0 .. Len(log)
    BY <1>2, <1>4, <2>1 DEF DeviceTypes
  <2>3. QED
    BY <1>4, <2>1, <2>2, MaxOfTwo
<1>6. inbox'[d] \in Seq(Broadcast \cup Answer)'
  BY <1>1, TailTidy DEF server
<1>7. DeviceTypes(d)'
  <2>1. Uuids' = Uuids /\ Len(log)' = Len(log) /\ Answer' = Answer
    BY <1>1 DEF Uuids, server, Answer
  <2>2. /\ readTo'[d] \in 0 .. Len(log) /\ pages'[d] \subseteq Answer
        /\ hasMore'[d] \in BOOLEAN /\ loading'[d] \in BOOLEAN /\ gap'[d] \in BOOLEAN
    <3>1. readTo'[d] \in 0 .. Len(log) /\ pages'[d] \subseteq Answer
      BY <1>1, <1>2, <1>3, <1>5 DEF TidyInv, Maps, PerDevice, DeviceTypes, fromCache
    <3>2. hasMore'[d] \in BOOLEAN /\ loading'[d] \in BOOLEAN
      BY <1>1, <1>2, <1>4 DEF TidyInv, Maps, PerDevice, DeviceTypes, fromCache
    <3>3. gap'[d] \in BOOLEAN
      BY <1>1, <1>2 DEF TidyInv, Maps, PerDevice, DeviceTypes, fromCache
    <3>4. QED
      BY <3>1, <3>2, <3>3
  <2>3. QED
    BY <1>1, <1>2, <1>6, <2>1, <2>2 DEF DeviceTypes, idb, fromCache
<1>8. Tidy(d)'
  <2>1. /\ \A k \in Answers(d)' : Descending(inbox'[d][k].rows)
        /\ \A k \in Chats(d)' : inbox'[d][k].uuid \in ToSet(log')
    BY <1>1, TailTidy DEF server
  <2>2. \A p \in pages'[d] : p.rows # <<>> /\ Descending(p.rows)
    BY <1>1, <1>2, <1>3 DEF TidyInv, Maps, PerDevice, Tidy, fromCache
  <2>3. QED
    BY <1>1, <1>2, <2>1, <2>2 DEF Tidy, server, fromCache
<1>9. QED
  BY <1>7, <1>8 DEF DeviceOK

(* checkAndStoreBlob. *)
LEMMA CheckAndStoreTidy ==
    ASSUME TidyInv, NEW d \in Devices, NEW u \in DOMAIN opening[d], CheckAndStore(d, u)
    PROVE  DeviceOK(d)'
<1>1. /\ UNCHANGED <<server, net, ownSeq, seq, loaded, fromCache, sending, pages, view, mishaps, readTo, gap>>
      /\ \/ /\ blobs' = [blobs EXCEPT ![d] = @ \cup {u}]
            /\ lastSeen' = [lastSeen EXCEPT ![d][sent[u].device] = sent[u].seq]
            /\ opening' = [opening EXCEPT ![d] = With(@, u, "show")]
            /\ UNCHANGED rejected
         \/ /\ opening' = [opening EXCEPT ![d] = Without(@, u)]
            /\ \/ rejected' = [rejected EXCEPT ![d] = @ \cup {u}]
               \/ rejected' = rejected
            /\ UNCHANGED <<blobs, lastSeen>>
  BY DEF CheckAndStore
<1>2. DeviceTypes(d) /\ Tidy(d) /\ ServerOK /\ Maps
  BY DEF TidyInv, DeviceOK
<1>3. u \in Uuids /\ sent[u].device \in Devices /\ sent[u].seq \in Nat
  BY <1>2, Tables DEF DeviceTypes
<1>4. Uuids' = Uuids /\ Len(log)' = Len(log) /\ Answer' = Answer /\ Broadcast' = Broadcast
  BY <1>1 DEF Uuids, server, Answer, Broadcast
<1>5. /\ blobs'[d] \subseteq Uuids /\ lastSeen'[d] \in [Devices -> Nat] /\ rejected'[d] \subseteq Uuids
      /\ opening'[d] = With(opening[d], u, "show") \/ opening'[d] = Without(opening[d], u)
  <2>1. blobs'[d] \subseteq Uuids /\ rejected'[d] \subseteq Uuids
    BY <1>1, <1>2, <1>3 DEF Maps, PerDevice, DeviceTypes, fromCache
  <2>2. lastSeen'[d] \in [Devices -> Nat]
    <3>1. lastSeen' = lastSeen \/ lastSeen'[d] = [lastSeen[d] EXCEPT ![sent[u].device] = sent[u].seq]
      BY <1>1, <1>2 DEF Maps, PerDevice
    <3>2. QED
      BY <1>2, <1>3, <3>1 DEF DeviceTypes
  <2>3. opening'[d] = With(opening[d], u, "show") \/ opening'[d] = Without(opening[d], u)
    BY <1>1, <1>2 DEF Maps, PerDevice
  <2>4. QED
    BY <2>1, <2>2, <2>3
<1>6. DOMAIN opening'[d] \subseteq Uuids /\ \A v \in DOMAIN opening'[d] : opening'[d][v] \in {"decrypt", "show"}
  BY <1>2, <1>3, <1>5 DEF With, Without, DeviceTypes
<1>7. DeviceTypes(d)'
  BY <1>1, <1>2, <1>4, <1>5, <1>6 DEF DeviceTypes, net, view, fromCache
<1>8. Tidy(d)'
  BY <1>1, <1>2 DEF Tidy, Chats, Answers, net, view, server, fromCache
<1>9. QED
  BY <1>7, <1>8 DEF DeviceOK

(* A broadcast is shown. *)
LEMMA ShowTidy ==
    ASSUME TidyInv, NEW d \in Devices, NEW u \in DOMAIN opening[d], Show(d, u)
    PROVE  /\ DeviceOK(d)'
           /\ ToSet(shown'[d]) = ToSet(shown[d]) \cup {u}
<1> DEFINE s == InsertMessageSorted(sent, shown[d], u)
<1>1. /\ UNCHANGED <<server, net, idb, seq, loaded, fromCache, sending, pages, cursor, hasMore, loading,
                     mishaps, ghosts>>
      /\ shown' = [shown EXCEPT ![d] = s]
      /\ opening' = [opening EXCEPT ![d] = Without(@, u)]
  BY DEF Show
<1>2. DeviceTypes(d) /\ Tidy(d) /\ ServerOK /\ Maps
  BY DEF TidyInv, DeviceOK
<1>3. u \in Uuids /\ shown[d] \in Seq(Uuids) /\ \A v \in Uuids : sent[v].timestamp \in Nat
  BY <1>2, Tables DEF DeviceTypes
<1>4. /\ s \in Seq(Uuids) /\ ToSet(s) = ToSet(shown[d]) \cup {u}
      /\ Ascending(sent, s) /\ Distinct(s)
  BY <1>2, <1>3, InsertedOnce DEF Tidy
<1> HIDE DEF s
<1>5. Uuids' = Uuids /\ Len(log)' = Len(log) /\ Answer' = Answer /\ Broadcast' = Broadcast
  BY <1>1 DEF Uuids, server, Answer, Broadcast
<1>6. shown'[d] = s /\ opening'[d] = Without(opening[d], u)
  BY <1>1, <1>2 DEF Maps, PerDevice
<1>7. DeviceTypes(d)'
  BY <1>1, <1>2, <1>4, <1>5, <1>6 DEF DeviceTypes, Without, net, idb, ghosts, fromCache
<1>8. Tidy(d)'
  BY <1>1, <1>2, <1>4, <1>6 DEF Tidy, Chats, Answers, net, server, fromCache
<1>9. QED
  BY <1>4, <1>6, <1>7, <1>8 DEF DeviceOK

(* A page is shown. *)
LEMMA HistoryLoadedTidy ==
    ASSUME TidyInv, NEW d \in Devices, NEW page \in pages[d], HistoryLoaded(d, page)
    PROVE  LET incoming == {log[i] : i \in ToSet(page.rows)} IN
           /\ DeviceOK(d)'
           /\ blobs'[d] = blobs[d] \cup incoming
           /\ ToSet(shown'[d]) = ToSet(shown[d]) \cup incoming
<1> DEFINE incoming == [i \in DOMAIN page.rows |-> log[page.rows[i]]]
           s == MergeHistory(sent, shown[d], incoming)
           c == ResolveHistoryCursor(cursor[d], Last(page.rows))
<1>1. /\ UNCHANGED <<server, net, lastSeen, ownSeq, seq, loaded, fromCache, sending, opening, mishaps, ghosts>>
      /\ pages' = [pages EXCEPT ![d] = @ \ {page}]
      /\ blobs' = [blobs EXCEPT ![d] = @ \cup ToSet(incoming)]
      /\ shown' = [shown EXCEPT ![d] = s]
      /\ cursor' = [cursor EXCEPT ![d] = c]
      /\ hasMore' = [hasMore EXCEPT ![d] = page.more]
      /\ loading' = [loading EXCEPT ![d] = FALSE]
  BY DEF HistoryLoaded, StoredIfNew, LoadingAfter
<1>2. DeviceTypes(d) /\ Tidy(d) /\ ServerOK /\ Maps
  BY DEF TidyInv, DeviceOK
<1>3. /\ shown[d] \in Seq(Uuids) /\ \A v \in Uuids : sent[v].timestamp \in Nat
      /\ \A i \in 1 .. Len(log) : log[i] \in Uuids
      /\ Len(log) \in Nat
  BY <1>2, Tables DEF DeviceTypes
<1>4. /\ page \in Answer /\ page.more \in BOOLEAN /\ page.rows \in Seq(1 .. Len(log))
      /\ page.rows # <<>> /\ Descending(page.rows)
  BY <1>2 DEF DeviceTypes, Tidy, Answer
<1> DEFINE rows == page.rows
<1>5. /\ DOMAIN rows = 1 .. Len(rows) /\ Len(rows) \in Nat \ {0}
      /\ \A i \in 1 .. Len(rows) : rows[i] \in 1 .. Len(log)
  BY <1>4
<1>6. /\ incoming \in Seq(Uuids) /\ Len(incoming) = Len(rows) /\ DOMAIN incoming = 1 .. Len(rows)
      /\ \A i \in 1 .. Len(rows) : incoming[i] = log[rows[i]]
  BY <1>3, <1>5
<1>7. Distinct(incoming)
  <2>1. ASSUME NEW i \in 1 .. Len(rows), NEW j \in 1 .. Len(rows), i < j
        PROVE  incoming[i] # incoming[j]
    <3>1. rows[i] > rows[j] /\ rows[i] \in 1 .. Len(log) /\ rows[j] \in 1 .. Len(log)
      BY <1>4, <1>5, <2>1 DEF Descending
    <3>2. rows[i] # rows[j]
      BY <1>3, <3>1
    <3>3. log[rows[i]] # log[rows[j]]
      BY <1>2, <3>1, <3>2 DEF ServerOK
    <3>4. QED
      BY <1>6, <3>3
  <2>2. QED
    BY <1>6, <2>1 DEF Distinct
<1>8. ToSet(incoming) = {log[i] : i \in ToSet(rows)}
  <2>1. ToSet(rows) = {rows[i] : i \in 1 .. Len(rows)}
    BY <1>5 DEF ToSet
  <2>2. ToSet(incoming) = {incoming[i] : i \in 1 .. Len(rows)}
    BY <1>6 DEF ToSet
  <2>3. QED
    BY <1>6, <2>1, <2>2
<1>9. ToSet(incoming) \subseteq Uuids
  BY <1>6 DEF ToSet
<1> HIDE DEF incoming
<1>10. /\ s \in Seq(Uuids) /\ ToSet(s) = ToSet(shown[d]) \cup ToSet(incoming)
       /\ Ascending(sent, s) /\ Distinct(s)
  BY <1>2, <1>3, <1>6, <1>7, MergedOnce DEF Tidy
<1>11. c \in 0 .. Len(log)
  <2>1. Last(rows) \in 1 .. Len(log)
    BY <1>5 DEF Last
  <2>2. QED
    BY <1>2, <2>1 DEF ResolveHistoryCursor, DeviceTypes
<1> HIDE DEF s, c, rows
<1>12. Uuids' = Uuids /\ Len(log)' = Len(log) /\ Answer' = Answer /\ Broadcast' = Broadcast
  BY <1>1 DEF Uuids, server, Answer, Broadcast
<1>13. /\ shown'[d] = s /\ cursor'[d] = c /\ blobs'[d] = blobs[d] \cup ToSet(incoming)
       /\ pages'[d] = pages[d] \ {page} /\ hasMore'[d] = page.more /\ loading'[d] = FALSE
  BY <1>1, <1>2 DEF Maps, PerDevice
<1>14. DeviceTypes(d)'
  BY <1>1, <1>2, <1>4, <1>9, <1>10, <1>11, <1>12, <1>13 DEF DeviceTypes, net, ghosts, fromCache
<1>15. Tidy(d)'
  BY <1>1, <1>2, <1>10, <1>13 DEF Tidy, Chats, Answers, net, server, fromCache
<1>16. QED
  BY <1>8, <1>10, <1>13, <1>14, <1>15 DEF DeviceOK, rows

(* A page the server makes. *)
LEMMA PageIs ==
    ASSUME Len(log) \in Nat, NEW before \in Nat, NEW join \in BOOLEAN,
           PageRows(GetHistory(before), before)
    PROVE  LET page == Page(before, join) IN
           /\ page \in Answer /\ Descending(page.rows) /\ page.type = "history"
           /\ page.rows = GetHistory(before) /\ page.join = join /\ page.more = HasOlder(before)
<1>1. RowsBefore(before) \subseteq 1 .. Len(log)
  BY DEF RowsBefore
<1>2. GetHistory(before) \in Seq(1 .. Len(log))
  BY <1>1, SeqGrows DEF PageRows
<1>3. HasOlder(before) \in BOOLEAN
  BY DEF HasOlder
<1>4. QED
  BY <1>2, <1>3 DEF Page, HistoryMsg, Answer, Descending, PageRows

(* Scrolling up. *)
LEMMA RequestHistoryTidy ==
    ASSUME TidyInv, NEW d \in Devices, RequestHistory(d)
    PROVE  /\ DeviceOK(d)'
           /\ PageRows(GetHistory(cursor[d]), cursor[d])
<1> DEFINE page == Page(cursor[d], FALSE)
<1>1. /\ UNCHANGED <<server, conn, idb, seq, loaded, fromCache, sending, opening, pages, shown, cursor, hasMore,
                     mishaps, ghosts>>
      /\ loading' = [loading EXCEPT ![d] = TRUE]
      /\ inbox' = IF conn[d] = "on" THEN [inbox EXCEPT ![d] = Append(@, page)] ELSE inbox
  BY DEF RequestHistory
<1>2. DeviceTypes(d) /\ Tidy(d) /\ ServerOK /\ Maps
  BY DEF TidyInv, DeviceOK
<1>3. Len(log) \in Nat /\ expired \in Nat /\ cursor[d] \in Nat
  BY <1>2, Tables DEF DeviceTypes
<1>4. PageRows(GetHistory(cursor[d]), cursor[d])
  BY <1>3, GetHistoryIs
<1>5. page \in Answer /\ Descending(page.rows) /\ page.type = "history"
  BY <1>3, <1>4, PageIs
<1> HIDE DEF page
<1>6. Uuids' = Uuids /\ Len(log)' = Len(log) /\ Answer' = Answer /\ Broadcast' = Broadcast
  BY <1>1 DEF Uuids, server, Answer, Broadcast
<1>7. /\ inbox'[d] = inbox[d] \/ inbox'[d] = Append(inbox[d], page)
      /\ loading'[d] = TRUE
  BY <1>1, <1>2 DEF Maps, PerDevice
<1>8. inbox'[d] \in Seq(Broadcast \cup Answer)
  <2> DEFINE M == Broadcast \cup Answer
  <2>1. inbox[d] \in Seq(M) /\ page \in M
    BY <1>2, <1>5 DEF DeviceTypes
  <2> HIDE DEF M
  <2>2. inbox'[d] \in Seq(M)
    BY <1>7, <2>1
  <2>3. QED
    BY <2>2 DEF M
<1>9. DeviceTypes(d)'
  BY <1>1, <1>2, <1>6, <1>7, <1>8 DEF DeviceTypes, idb, ghosts, fromCache
<1>10. /\ \A k \in Answers(d)' : Descending(inbox'[d][k].rows)
       /\ \A k \in Chats(d)' : inbox'[d][k].uuid \in ToSet(log)
  <2>1. CASE inbox'[d] = inbox[d]
    BY <1>2, <2>1 DEF Tidy, Answers, Chats
  <2>2. CASE inbox'[d] = Append(inbox[d], page)
    <3>1. \A k \in DOMAIN inbox'[d] :
              \/ k \in DOMAIN inbox[d] /\ inbox'[d][k] = inbox[d][k]
              \/ inbox'[d][k] = page
      BY <1>2, <2>2 DEF DeviceTypes
    <3>2. QED
      BY <1>2, <1>5, <3>1 DEF Tidy, Answers, Chats
  <2>3. QED
    BY <1>7, <2>1, <2>2
<1>11. Tidy(d)'
  BY <1>1, <1>2, <1>10 DEF Tidy, server, fromCache
<1>12. QED
  BY <1>4, <1>9, <1>11 DEF DeviceOK

(* The counter is loaded. *)
LEMMA LoadSeqTidy ==
    ASSUME TidyInv, NEW d \in Devices, LoadSeq(d)
    PROVE  DeviceOK(d)'
<1>1. DeviceTypes(d) /\ Tidy(d) /\ ServerOK /\ Maps
  BY DEF TidyInv, DeviceOK
<1>2. Uuids' = Uuids /\ Len(log)' = Len(log) /\ Answer' = Answer /\ Broadcast' = Broadcast
  BY DEF LoadSeq, Uuids, server, Answer, Broadcast
<1>3. loaded'[d] = loaded[d] \cup {"seq"} /\ seq'[d] = ownSeq[d]
  BY <1>1 DEF LoadSeq, Maps, PerDevice
<1>4. DeviceTypes(d)'
  BY <1>1, <1>2, <1>3 DEF LoadSeq, DeviceTypes, net, idb, view, ghosts, fromCache
<1>5. Tidy(d)'
  BY <1>1 DEF LoadSeq, Tidy, Chats, Answers, net, server, view, fromCache
<1>6. QED
  BY <1>4, <1>5 DEF DeviceOK

(* The beginning of a list. *)
LEMMA FrontIs ==
    ASSUME NEW S, NEW s \in Seq(S), NEW n \in 0 .. Len(s)
    PROVE  /\ SubSeq(s, 1, n) \in Seq(S) /\ Len(SubSeq(s, 1, n)) = n
           /\ DOMAIN SubSeq(s, 1, n) = 1 .. n
           /\ \A i \in 1 .. n : SubSeq(s, 1, n)[i] = s[i]
<1> DEFINE t == SubSeq(s, 1, n)
<1>1. Len(s) \in Nat /\ n \in Int /\ n >= 0 /\ \A i \in 1 .. n : s[i] \in S
  OBVIOUS
<1>2. /\ t \in Seq(S) /\ Len(t) = IF 1 <= n THEN n - 1 + 1 ELSE 0
      /\ \A i \in 1 .. n - 1 + 1 : t[i] = s[1 + i - 1]
  BY <1>1, SubSeqProperties
<1> HIDE DEF t
<1>3. t \in Seq(S) /\ Len(t) = n /\ \A i \in 1 .. n : t[i] = s[i]
  BY <1>1, <1>2
<1>4. QED
  BY <1>3 DEF t

(* The cache is read: all that is stored, but what CacheLimit newer messages keep out. *)
LEMMA ReadCacheTidy ==
    ASSUME TidyInv, NEW d \in Devices, ReadCache(d)
    PROVE  /\ DeviceOK(d)'
           /\ blobs[d] \subseteq ToSet(cached'[d]) \cup leftOut'[d]
<1> DEFINE order == {p \in Uuids \X Uuids : TimeOrder(p[2], p[1])}
           all == Listed(blobs[d], order)
           n == IF Len(all) > CacheLimit THEN CacheLimit ELSE Len(all)
           Newer(u) == {v \in blobs[d] : TimeOrder(u, v)}
           old == {u \in blobs[d] : Cardinality(Newer(u)) >= CacheLimit}
<1>1. DeviceTypes(d) /\ Tidy(d) /\ ServerOK /\ Maps
  BY DEF TidyInv, DeviceOK
<1>2. /\ UNCHANGED <<server, net, idb, seq, sending, opening, pages, view, mishaps, ghosts>>
      /\ loaded' = [loaded EXCEPT ![d] = @ \cup {"cache"}]
      /\ cached' = [cached EXCEPT ![d] = NewestBlobs(d)]
      /\ leftOut' = [leftOut EXCEPT ![d] = old]
  BY DEF ReadCache
<1>3. NewestBlobs(d) = SubSeq(all, 1, n)
  BY DEF NewestBlobs
<1>4. /\ \A v \in Uuids : sent[v].timestamp \in Nat
      /\ Uuids = 1 .. Len(sent) /\ Len(sent) \in Nat /\ blobs[d] \subseteq Uuids
  BY <1>1, Tables DEF DeviceTypes, Uuids
<1>5. \A x, y \in Uuids : <<x, y>> \in order <=> TimeOrder(y, x)
  OBVIOUS
<1> HIDE DEF order
<1>6. Orders(order, blobs[d])
  <2>1. \A x \in Uuids : ~TimeOrder(x, x)
    BY <1>4 DEF TimeOrder
  <2>2. \A x, y \in Uuids : x # y => TimeOrder(x, y) \/ TimeOrder(y, x)
    BY <1>4 DEF TimeOrder
  <2>3. \A x, y, z \in Uuids : TimeOrder(x, y) /\ TimeOrder(y, z) => TimeOrder(x, z)
    BY <1>4 DEF TimeOrder
  <2>4. QED
    BY <1>4, <1>5, <2>1, <2>2, <2>3 DEF Orders
<1>7. IsFiniteSet(blobs[d])
  <2>1. IsFiniteSet(1 .. Len(sent))
    BY <1>4, FS_Interval
  <2>2. QED
    BY <1>4, <2>1, FS_Subset
<1>8. /\ all \in Seq(blobs[d])
      /\ \A i, j \in 1 .. Len(all) : i < j => <<all[i], all[j]>> \in order
      /\ \A u \in blobs[d] : LET k == Cardinality({v \in blobs[d] : <<v, u>> \in order}) + 1 IN
            k \in 1 .. Len(all) /\ all[k] = u
  BY <1>6, <1>7, ListedIs
<1> HIDE DEF all
<1>9. /\ Len(all) \in Nat /\ CacheLimit \in Nat /\ n \in 0 .. Len(all)
      /\ n = Len(all) \/ n = CacheLimit
  BY <1>8, ChatNumbers
<1> HIDE DEF n
<1>10. /\ SubSeq(all, 1, n) \in Seq(blobs[d]) /\ Len(SubSeq(all, 1, n)) = n
       /\ DOMAIN SubSeq(all, 1, n) = 1 .. n
       /\ \A i \in 1 .. n : SubSeq(all, 1, n)[i] = all[i]
  BY <1>8, <1>9, FrontIs
<1> DEFINE c == SubSeq(all, 1, n)
<1>11. c \in Seq(Uuids) /\ Distinct(c)
  <2>1. c \in Seq(Uuids)
    BY <1>4, <1>10, SeqGrows
  <2>2. ASSUME NEW i \in 1 .. n, NEW j \in 1 .. n, i < j PROVE all[i] # all[j]
    <3>1. i \in 1 .. Len(all) /\ j \in 1 .. Len(all) /\ all[i] \in blobs[d]
      BY <1>8, <1>9
    <3>2. QED
      BY <1>6, <1>8, <2>2, <3>1 DEF Orders
  <2>3. QED
    BY <1>10, <2>1, <2>2 DEF Distinct
<1>12. ASSUME NEW u \in blobs[d], u \notin old PROVE u \in ToSet(c)
  <2> DEFINE k == Cardinality(Newer(u)) + 1
  <2>1. Newer(u) = {v \in blobs[d] : <<v, u>> \in order}
    BY <1>4, <1>5
  <2>2. k \in 1 .. Len(all) /\ all[k] = u
    BY <1>8, <2>1
  <2>3. Cardinality(Newer(u)) \in Nat /\ ~(Cardinality(Newer(u)) >= CacheLimit)
    <3>1. IsFiniteSet(Newer(u))
      BY <1>7, FS_Subset
    <3>2. QED
      BY <1>12, <3>1, FS_CardinalityType
  <2> HIDE DEF Newer
  <2>4. k \in 1 .. n
    BY <1>9, <2>2, <2>3
  <2> HIDE DEF k
  <2>5. c[k] = u
    <3>1. \A i \in 1 .. n : c[i] = all[i]
      BY <1>10
    <3> HIDE DEF c
    <3>2. QED
      BY <2>2, <2>4, <3>1
  <2>6. DOMAIN c = 1 .. n
    BY <1>10
  <2> HIDE DEF c, n
  <2>7. QED
    BY <2>4, <2>5, <2>6 DEF ToSet
<1> HIDE DEF c, Newer
<1>13. cached'[d] = c /\ leftOut'[d] = old /\ loaded'[d] = loaded[d] \cup {"cache"}
  BY <1>1, <1>2, <1>3 DEF Maps, PerDevice, c
<1>14. old \subseteq Uuids
  BY <1>4
<1> HIDE DEF old
<1>15. Uuids' = Uuids /\ Len(log)' = Len(log) /\ Answer' = Answer /\ Broadcast' = Broadcast
  BY <1>2 DEF Uuids, server, Answer, Broadcast
<1>16. DeviceTypes(d)'
  BY <1>1, <1>2, <1>11, <1>13, <1>14, <1>15 DEF DeviceTypes, net, idb, view, ghosts
<1>17. Tidy(d)'
  BY <1>1, <1>2, <1>11, <1>13 DEF Tidy, Chats, Answers, net, server, view
<1>18. QED
  BY <1>12, <1>13, <1>16, <1>17 DEF DeviceOK

(* What was read of the cache is shown. *)
LEMMA ShowCacheTidy ==
    ASSUME TidyInv, NEW d \in Devices, ShowCache(d)
    PROVE  /\ DeviceOK(d)'
           /\ ToSet(shown'[d]) = ToSet(shown[d]) \cup ToSet(cached[d])
           /\ cached'[d] = <<>>
<1> DEFINE s == MergeHistory(sent, shown[d], cached[d])
<1>1. DeviceTypes(d) /\ Tidy(d) /\ ServerOK /\ Maps
  BY DEF TidyInv, DeviceOK
<1>2. /\ UNCHANGED <<server, net, idb, seq, loaded, leftOut, sending, opening, pages, cursor, hasMore,
                     loading, mishaps, ghosts>>
      /\ shown' = [shown EXCEPT ![d] = s]
      /\ cached' = [cached EXCEPT ![d] = <<>>]
  BY DEF ShowCache
<1>3. /\ s \in Seq(Uuids) /\ ToSet(s) = ToSet(shown[d]) \cup ToSet(cached[d])
      /\ Ascending(sent, s) /\ Distinct(s)
  <2>1. /\ shown[d] \in Seq(Uuids) /\ cached[d] \in Seq(Uuids)
        /\ \A v \in Uuids : sent[v].timestamp \in Nat
    BY <1>1, Tables DEF DeviceTypes
  <2>2. Ascending(sent, shown[d]) /\ Distinct(shown[d]) /\ Distinct(cached[d])
    BY <1>1 DEF Tidy
  <2>3. QED
    BY <2>1, <2>2, MergedOnce
<1> HIDE DEF s
<1>4. Uuids' = Uuids /\ Len(log)' = Len(log) /\ Answer' = Answer /\ Broadcast' = Broadcast
  BY <1>2 DEF Uuids, server, Answer, Broadcast
<1>5. shown'[d] = s /\ cached'[d] = <<>>
  BY <1>1, <1>2 DEF Maps, PerDevice
<1>6. <<>> \in Seq(Uuids) /\ Distinct(<<>>)
  BY DEF Distinct
<1>7. DeviceTypes(d)'
  BY <1>1, <1>2, <1>3, <1>4, <1>5, <1>6 DEF DeviceTypes, net, idb, ghosts
<1>8. Tidy(d)'
  BY <1>1, <1>2, <1>3, <1>5, <1>6 DEF Tidy, Chats, Answers, net, server
<1>9. QED
  BY <1>3, <1>5, <1>7, <1>8 DEF DeviceOK

(* Connections come and go, the room is entered again, history is cleared. *)
LEMMA SessionTidy ==
    ASSUME TidyInv, NEW d \in Devices, Connect(d) \/ Disconnect(d) \/ Reload(d) \/ ClearHistory(d)
    PROVE  DeviceOK(d)'
<1>1. DeviceTypes(d) /\ Tidy(d) /\ ServerOK /\ Maps
  BY DEF TidyInv, DeviceOK
<1>2. UNCHANGED server
  BY DEF Connect, Disconnect, Reload, ClearHistory
<1>3. Uuids' = Uuids /\ Len(log)' = Len(log) /\ Answer' = Answer /\ Broadcast' = Broadcast
  BY <1>2 DEF Uuids, server, Answer, Broadcast
<1>4. <<>> \in Seq(Uuids) /\ <<>> \in Seq(Broadcast \cup Answer) /\ Len(log) \in Nat
  BY <1>1, Tables
<1>5. Ascending(sent, <<>>) /\ Distinct(<<>>)
  BY DEF Ascending, Distinct
<1>6. CASE Connect(d)
  <2> DEFINE page == Page(Len(log) + 1, TRUE)
  <2>1. /\ UNCHANGED <<idb, seq, loaded, fromCache, sending, opening, pages, shown, cursor, hasMore, mishaps, ghosts>>
        /\ conn' = [conn EXCEPT ![d] = "on"]
        /\ loading' = [loading EXCEPT ![d] = FALSE]
        /\ inbox' = [inbox EXCEPT ![d] = <<page>>]
    BY <1>6 DEF Connect
  <2>2. page \in Answer /\ Descending(page.rows) /\ page.type = "history"
    <3>1. expired \in Nat /\ Len(log) + 1 \in Nat
      BY <1>1, Tables
    <3>2. PageRows(GetHistory(Len(log) + 1), Len(log) + 1)
      BY <1>4, <3>1, GetHistoryIs
    <3>3. QED
      BY <1>4, <3>1, <3>2, PageIs
  <2> HIDE DEF page
  <2>3. conn'[d] = "on" /\ loading'[d] = FALSE /\ inbox'[d] = <<page>>
    BY <1>1, <2>1 DEF Maps, PerDevice
  <2>4. inbox'[d] \in Seq(Broadcast \cup Answer) /\ \A k \in DOMAIN inbox'[d] : inbox'[d][k] = page
    BY <2>2, <2>3
  <2>5. DeviceTypes(d)'
    BY <1>1, <1>2, <1>3, <2>1, <2>3, <2>4 DEF DeviceTypes, idb, ghosts, fromCache
  <2>6. Tidy(d)'
    BY <1>1, <1>2, <2>1, <2>2, <2>4 DEF Tidy, Chats, Answers, server, fromCache
  <2>7. QED
    BY <2>5, <2>6 DEF DeviceOK
<1>7. CASE Disconnect(d)
  <2>1. conn'[d] = "off" /\ inbox'[d] = <<>>
    BY <1>1, <1>7 DEF Disconnect, Maps, PerDevice
  <2>2. DeviceTypes(d)'
    BY <1>1, <1>3, <1>4, <1>7, <2>1 DEF Disconnect, DeviceTypes, idb, view, ghosts, fromCache
  <2>3. Tidy(d)'
    BY <1>1, <1>7, <2>1 DEF Disconnect, Tidy, Chats, Answers, server, view, fromCache
  <2>4. QED
    BY <2>2, <2>3 DEF DeviceOK
<1>8. CASE Reload(d)
  <2>1. /\ conn'[d] = "off" /\ inbox'[d] = <<>> /\ seq'[d] = 0 /\ loaded'[d] = {}
        /\ cached'[d] = <<>> /\ leftOut'[d] = {}
        /\ sending'[d] = Nothing /\ opening'[d] = Nothing /\ pages'[d] = {} /\ shown'[d] = <<>>
        /\ cursor'[d] = 0 /\ hasMore'[d] = FALSE /\ loading'[d] = FALSE /\ readTo'[d] = 0
        /\ gap'[d] = FALSE
    BY <1>1, <1>8 DEF Reload, Maps, PerDevice
  <2>2. DOMAIN Nothing = {}
    BY DEF Nothing
  <2>3. DeviceTypes(d)'
    <3>1. /\ inbox'[d] \in Seq(Broadcast \cup Answer)' /\ shown'[d] \in Seq(Uuids)'
          /\ cursor'[d] \in (0 .. Len(log))' /\ readTo'[d] \in (0 .. Len(log))'
      BY <1>3, <1>4, <2>1
    <3>2. UNCHANGED <<blobs, lastSeen, ownSeq, rejected>>
      BY <1>8 DEF Reload, idb
    <3>3. DOMAIN sending'[d] = {} /\ DOMAIN opening'[d] = {}
      BY <2>1, <2>2
    <3>4. /\ DOMAIN sending'[d] \subseteq Uuids'
          /\ \A u \in DOMAIN sending'[d] : sending'[d][u] \in {"encrypt", "put", "putSeq"}
          /\ DOMAIN opening'[d] \subseteq Uuids'
          /\ \A u \in DOMAIN opening'[d] : opening'[d][u] \in {"decrypt", "show"}
      BY <3>3
    <3>5. /\ conn'[d] \in {"on", "off"} /\ seq'[d] \in Nat /\ loaded'[d] \subseteq {"seq", "cache"}
          /\ cached'[d] \in Seq(Uuids)' /\ leftOut'[d] \subseteq Uuids'
          /\ pages'[d] \subseteq Answer'
      BY <2>1
    <3>6. hasMore'[d] \in BOOLEAN /\ loading'[d] \in BOOLEAN /\ gap'[d] \in BOOLEAN
      BY <2>1, Zenon
    <3>7. /\ blobs'[d] \subseteq Uuids' /\ lastSeen'[d] \in [Devices -> Nat] /\ ownSeq'[d] \in Nat
          /\ rejected'[d] \subseteq Uuids'
      BY <1>1, <1>3, <3>2 DEF DeviceTypes
    <3>8. QED
      BY <3>1, <3>4, <3>5, <3>6, <3>7 DEF DeviceTypes
  <2>4. Tidy(d)'
    BY <1>5, <2>1, <2>2 DEF Tidy, Chats, Answers, Ascending, Distinct
  <2>5. QED
    BY <2>3, <2>4 DEF DeviceOK
<1>9. CASE ClearHistory(d)
  <2>1. /\ shown'[d] = <<>> /\ cursor'[d] = 0 /\ hasMore'[d] = FALSE /\ blobs'[d] = {}
        /\ gap'[d] \in BOOLEAN
    BY <1>1, <1>9 DEF ClearHistory, BlobsCleared, Maps, PerDevice, DeviceTypes, fromCache
  <2>2. DeviceTypes(d)'
    <3>1. shown'[d] \in Seq(Uuids)' /\ cursor'[d] \in (0 .. Len(log))'
      BY <1>3, <1>4, <2>1
    <3>2. UNCHANGED <<conn, inbox, lastSeen, ownSeq, seq, loaded, fromCache, sending, opening, pages, loading,
                      readTo, rejected>>
      BY <1>9 DEF ClearHistory, net
    <3>3. QED
      BY <1>1, <1>3, <2>1, <3>1, <3>2 DEF DeviceTypes, fromCache
  <2>3. Tidy(d)'
    BY <1>1, <1>5, <1>9, <2>1 DEF ClearHistory, Tidy, Chats, Answers, Ascending, Distinct, net, server, fromCache
  <2>4. QED
    BY <2>2, <2>3 DEF DeviceOK
<1>10. QED
  BY <1>6, <1>7, <1>8, <1>9

(* A message is sent: it is on screen at once. *)
LEMMA SendTidy ==
    ASSUME TidyInv, NEW d \in Devices, SendMessage(d)
    PROVE  /\ ServerOK' /\ DeviceOK(d)' /\ Extended
           /\ ToSet(shown'[d]) = ToSet(shown[d]) \cup {Len(sent) + 1}
           /\ sending'[d] = With(sending[d], Len(sent) + 1, "encrypt")
           /\ Len(sent') = Len(sent) + 1 /\ sent'[Len(sent) + 1].device = d
<1> DEFINE u == Len(sent) + 1
           message == [device |-> d, seq |-> NextSeq(d), timestamp |-> u + Skew[d]]
           s == InsertMessageSorted(sent', shown[d], u)
<1>1. /\ UNCHANGED <<log, expired, net, idb, loaded, fromCache, opening, pages, cursor, hasMore, loading,
                     mishaps, ghosts>>
      /\ sent' = Append(sent, message)
      /\ seq' = [seq EXCEPT ![d] = NextSeq(d)]
      /\ shown' = [shown EXCEPT ![d] = s]
      /\ sending' = [sending EXCEPT ![d] = With(@, u, "encrypt")]
  BY DEF SendMessage
<1>2. DeviceTypes(d) /\ Tidy(d) /\ ServerOK /\ Maps
  BY DEF TidyInv, DeviceOK
<1>3. Len(sent) \in Nat /\ Len(log) \in Nat /\ ToSet(log) \subseteq Uuids /\ sent \in Seq(Message)
  BY <1>2, Tables DEF ServerOK
<1>4. message \in Message /\ message.device = d
  <2>1. NextSeq(d) \in Nat \ {0} /\ u + Skew[d] \in Nat
    BY <1>2, <1>3, ChatNumbers DEF NextSeq, DeviceTypes
  <2>2. QED
    BY <2>1 DEF Message
<1> HIDE DEF message
<1>5. /\ sent' \in Seq(Message) /\ Len(sent') = u /\ sent'[u] = message
      /\ \A v \in 1 .. Len(sent) : sent'[v] = sent[v]
  BY <1>1, <1>3, <1>4
<1>6. Extended /\ Uuids \subseteq Uuids' /\ u \in Uuids' /\ Uuids' = 1 .. u
  BY <1>3, <1>5 DEF Extended, Uuids
<1>7. log \in Seq(Uuids')
  BY <1>2, <1>6, SeqGrows DEF ServerOK
<1>8. ServerOK'
  BY <1>1, <1>2, <1>5, <1>7 DEF ServerOK
<1>9. /\ \A v \in Uuids' : sent'[v].timestamp \in Nat
      /\ shown[d] \in Seq(Uuids')
  <2>1. \A v \in Uuids' : sent'[v] \in Message
    BY <1>3, <1>5, <1>6
  <2>2. \A m \in Message : m.timestamp \in Nat
    BY DEF Message
  <2>3. shown[d] \in Seq(Uuids')
    BY <1>2, <1>6, SeqGrows DEF DeviceTypes
  <2>4. QED
    BY <2>1, <2>2, <2>3
<1>10. Ascending(sent', shown[d]) /\ Distinct(shown[d])
  <2>1. \A i \in 1 .. Len(shown[d]) : shown[d][i] \in Uuids
    BY <1>2 DEF DeviceTypes
  <2>2. QED
    BY <1>2, <1>6, <2>1 DEF Tidy, Ascending, Extended
<1>11. /\ s \in Seq(Uuids') /\ ToSet(s) = ToSet(shown[d]) \cup {u}
       /\ Ascending(sent', s) /\ Distinct(s)
  <2>1. u \in Uuids'
    BY <1>6
  <2>2. QED
    BY <1>9, <1>10, <2>1, InsertedOnce
<1> HIDE DEF s
<1>12. /\ shown'[d] = s /\ seq'[d] = NextSeq(d) /\ NextSeq(d) \in Nat
       /\ sending'[d] = With(sending[d], u, "encrypt")
  BY <1>1, <1>2 DEF Maps, PerDevice, NextSeq, DeviceTypes, fromCache
<1>13. /\ inbox'[d] \in Seq(Broadcast \cup Answer)'
       /\ Answer' = Answer
  <2>1. Answer' = Answer /\ Broadcast \cup Answer \subseteq Broadcast' \cup Answer'
    BY <1>1, <1>6 DEF Answer, Broadcast
  <2>2. inbox[d] \in Seq(Broadcast \cup Answer) /\ inbox' = inbox
    BY <1>1, <1>2 DEF DeviceTypes, net, fromCache
  <2>3. QED
    BY <2>1, <2>2, SeqGrows
<1>14. DeviceTypes(d)'
  <2>1. /\ DOMAIN sending'[d] \subseteq Uuids'
        /\ \A v \in DOMAIN sending'[d] : sending'[d][v] \in {"encrypt", "put", "putSeq"}
    BY <1>2, <1>6, <1>12 DEF With, DeviceTypes
  <2>2. UNCHANGED <<conn, blobs, lastSeen, ownSeq, loaded, fromCache, opening, pages, cursor, hasMore, loading,
                    readTo, rejected, gap, log>>
    BY <1>1 DEF net, idb, ghosts
  <2>3. cached'[d] \in Seq(Uuids)' /\ leftOut'[d] \subseteq Uuids'
    BY <1>2, <1>6, <2>2, SeqGrows DEF DeviceTypes, fromCache
  <2>4. QED
    BY <1>2, <1>6, <1>11, <1>12, <1>13, <2>1, <2>2, <2>3 DEF DeviceTypes
<1>15. Tidy(d)'
  <2>1. \A v \in DOMAIN sending'[d] : /\ sent'[v].device = d
                                      /\ sending'[d][v] = "encrypt" => v \notin ToSet(log')
    <3>1. u \notin ToSet(log) /\ sent'[u].device = d /\ log' = log
      BY <1>1, <1>3, <1>4, <1>5 DEF Uuids
    <3>2. \A v \in DOMAIN sending[d] : v \in Uuids /\ sent'[v].device = d
      BY <1>2, <1>5 DEF DeviceTypes, Tidy, Uuids
    <3>3. QED
      BY <1>2, <1>12, <3>1, <3>2 DEF With, Tidy
  <2>2. UNCHANGED <<log, inbox, pages, cached>>
    BY <1>1 DEF net, fromCache
  <2>3. QED
    BY <1>2, <1>11, <1>12, <2>1, <2>2 DEF Tidy, Chats, Answers
<1>16. QED
  BY <1>4, <1>5, <1>6, <1>8, <1>11, <1>12, <1>14, <1>15 DEF DeviceOK

(* A message reaches the server, or is dropped. *)
LEMMA TransmitDropped ==
    ASSUME TidyInv, NEW d \in Devices, NEW u \in DOMAIN sending[d], Transmit(d, u), conn[d] # "on"
    PROVE  /\ ServerOK' /\ Elsewhere(d) /\ DeviceOK(d)'
           /\ sending'[d] = With(sending[d], u, "put") /\ UNCHANGED <<log, inbox>>
<1>1. /\ UNCHANGED <<sent, expired, conn, idb, seq, loaded, fromCache, opening, pages, view, mishaps, ghosts, log, inbox>>
      /\ sending' = [sending EXCEPT ![d] = With(@, u, "put")]
  BY DEF Transmit
<1>2. DeviceTypes(d) /\ Tidy(d) /\ ServerOK /\ Maps
  BY DEF TidyInv, DeviceOK
<1>3. ServerOK'
  BY <1>1, <1>2, ServerKept
<1>4. Elsewhere(d) /\ sending'[d] = With(sending[d], u, "put")
  BY <1>1, <1>2 DEF Maps, PerDevice, Elsewhere, Same, idb, view, ghosts, fromCache
<1>5. Uuids' = Uuids /\ Len(log)' = Len(log) /\ Answer' = Answer /\ Broadcast' = Broadcast
  BY <1>1 DEF Uuids, Answer, Broadcast
<1>6. /\ DOMAIN sending'[d] = DOMAIN sending[d]
      /\ \A v \in DOMAIN sending[d] : sending'[d][v] \in {sending[d][v], "put"}
  BY <1>4 DEF With
<1>7. DeviceTypes(d)'
  BY <1>1, <1>2, <1>5, <1>6 DEF DeviceTypes, idb, view, ghosts, fromCache
<1>8. Tidy(d)'
  BY <1>1, <1>2, <1>6 DEF Tidy, Chats, Answers, view, fromCache
<1>9. QED
  BY <1>1, <1>3, <1>4, <1>7, <1>8 DEF DeviceOK

\* What a broadcast of d does.
Broadcasted(d, u) ==
    /\ Maps'
    /\ \A e \in Devices :
        /\ conn'[e] = conn[e] /\ blobs'[e] = blobs[e] /\ lastSeen'[e] = lastSeen[e]
        /\ ownSeq'[e] = ownSeq[e] /\ seq'[e] = seq[e] /\ loaded'[e] = loaded[e]
        /\ cached'[e] = cached[e] /\ leftOut'[e] = leftOut[e]
        /\ opening'[e] = opening[e] /\ pages'[e] = pages[e] /\ shown'[e] = shown[e]
        /\ cursor'[e] = cursor[e] /\ hasMore'[e] = hasMore[e] /\ loading'[e] = loading[e]
        /\ readTo'[e] = readTo[e] /\ rejected'[e] = rejected[e] /\ gap'[e] = gap[e]
        /\ sending'[e] = IF e = d THEN With(sending[e], u, "put") ELSE sending[e]
        /\ inbox'[e] = IF e # d /\ conn[e] = "on" THEN Append(inbox[e], ChatMsg(u)) ELSE inbox[e]
    /\ u \in DOMAIN sending[d]
    /\ u \in Uuids /\ u \notin ToSet(log) /\ sent[u].device = d
    /\ log' = Append(log, u) /\ Len(log') = Len(log) + 1 /\ log'[Len(log) + 1] = u
    /\ \A i \in 1 .. Len(log) : log'[i] = log[i]
    /\ ToSet(log') = ToSet(log) \cup {u}
    /\ UNCHANGED <<sent, expired, mishaps>>
    /\ ServerOK'

(* A transmission on a live connection is a broadcast. *)
LEMMA TransmitIs ==
    ASSUME TidyInv, NEW d \in Devices, NEW u \in DOMAIN sending[d], Transmit(d, u), conn[d] = "on"
    PROVE  Broadcasted(d, u)
<1>1. /\ UNCHANGED <<sent, expired, conn, idb, seq, loaded, fromCache, opening, pages, view, mishaps, ghosts>>
      /\ sending' = [sending EXCEPT ![d] = With(@, u, "put")]
      /\ log' = Append(log, u)
      /\ inbox' = [e \in Devices |-> IF e # d /\ conn[e] = "on"
                                     THEN Append(inbox[e], ChatMsg(u)) ELSE inbox[e]]
      /\ sending[d][u] = "encrypt"
  BY DEF Transmit, AtStage
<1>2. DeviceTypes(d) /\ Tidy(d) /\ ServerOK /\ Maps
  BY DEF TidyInv, DeviceOK
<1>3. u \in Uuids /\ u \notin ToSet(log) /\ sent[u].device = d
  BY <1>1, <1>2 DEF DeviceTypes, Tidy
<1>4. /\ Len(log) \in Nat /\ DOMAIN log = 1 .. Len(log) /\ log \in Seq(Uuids)
      /\ \A i \in 1 .. Len(log) : log[i] \in ToSet(log)
  BY <1>2, Tables DEF ServerOK
<1>5. /\ log' \in Seq(Uuids) /\ Len(log') = Len(log) + 1 /\ log'[Len(log) + 1] = u
      /\ \A i \in 1 .. Len(log) : log'[i] = log[i]
      /\ DOMAIN log' = 1 .. Len(log) + 1
  BY <1>1, <1>3, <1>4
<1>6. ToSet(log') = ToSet(log) \cup {u}
  <2>1. ToSet(log') = {log'[i] : i \in 1 .. Len(log) + 1} /\ ToSet(log) = {log[i] : i \in 1 .. Len(log)}
    BY <1>4, <1>5 DEF ToSet
  <2>2. ASSUME NEW x \in ToSet(log') PROVE x \in ToSet(log) \cup {u}
    <3>1. PICK i \in 1 .. Len(log) + 1 : x = log'[i]
      BY <2>1
    <3>2. i \in 1 .. Len(log) \/ i = Len(log) + 1
      BY <1>4
    <3>3. QED
      BY <1>4, <1>5, <3>1, <3>2
  <2>3. ASSUME NEW x \in ToSet(log) \cup {u} PROVE x \in ToSet(log')
    <3>1. CASE x = u
      BY <1>4, <1>5, <2>1, <3>1
    <3>2. CASE x \in ToSet(log)
      <4>1. PICK i \in 1 .. Len(log) : x = log[i]
        BY <2>1, <3>2
      <4>2. QED
        BY <1>4, <1>5, <2>1, <4>1
    <3>3. QED
      BY <3>1, <3>2
  <2>4. QED
    BY <2>2, <2>3
<1>7. ServerOK'
  <2>1. Uuids' = Uuids
    BY <1>1 DEF Uuids
  <2>2. \A i, j \in 1 .. Len(log') : log'[i] = log'[j] => i = j
    BY <1>2, <1>3, <1>4, <1>5 DEF ServerOK
  <2>3. expired' \in 0 .. Len(log')
    BY <1>1, <1>2, <1>4, <1>5 DEF ServerOK
  <2>4. QED
    BY <1>1, <1>2, <1>5, <2>1, <2>2, <2>3 DEF ServerOK
<1>8. Maps'
  BY <1>1, <1>2 DEF Maps, PerDevice, idb, view, ghosts, fromCache
<1>9. ASSUME NEW e \in Devices
      PROVE  /\ sending'[e] = IF e = d THEN With(sending[e], u, "put") ELSE sending[e]
             /\ inbox'[e] = IF e # d /\ conn[e] = "on" THEN Append(inbox[e], ChatMsg(u)) ELSE inbox[e]
  BY <1>1, <1>2 DEF Maps, PerDevice
<1>10. QED
  BY <1>1, <1>3, <1>5, <1>6, <1>7, <1>8, <1>9 DEF Broadcasted, idb, view, ghosts, fromCache

(* The inbox of a device that is told. *)
LEMMA Told ==
    ASSUME TidyInv, NEW d, NEW u, Broadcasted(d, u), NEW e \in Devices, e # d, conn[e] = "on"
    PROVE  LET n == Len(inbox[e]) IN
           /\ n \in Nat /\ DOMAIN inbox[e] = 1 .. n
           /\ inbox'[e] \in Seq(Broadcast \cup Answer)'
           /\ n + 1 \notin DOMAIN inbox[e]
           /\ Chats(e)' = Chats(e) \cup {n + 1} /\ Answers(e)' = Answers(e)
           /\ inbox'[e][n + 1].uuid = u
           /\ \A k \in DOMAIN inbox[e] : inbox'[e][k] = inbox[e][k]
<1> DEFINE M == Broadcast' \cup Answer'
           s == inbox[e]
           m == ChatMsg(u)
           n == Len(inbox[e])
<1>1. Answer \subseteq Answer' /\ Broadcast' = Broadcast
  <2>1. Uuids' = Uuids /\ Len(log) \in Nat /\ Len(log') = Len(log) + 1
    BY Tables DEF Broadcasted, Uuids, TidyInv
  <2>2. 1 .. Len(log) \subseteq 1 .. Len(log')
    BY <2>1
  <2>3. Seq(1 .. Len(log)) \subseteq Seq(1 .. Len(log'))
    BY <2>2, SeqGrows
  <2>4. QED
    BY <2>1, <2>3 DEF Broadcast, Answer
<1>2. s \in Seq(M)
  <2>1. s \in Seq(Broadcast \cup Answer)
    BY DEF TidyInv, DeviceOK, DeviceTypes
  <2>2. QED
    BY <1>1, <2>1, SeqGrows
<1>3. m \in M /\ m.type = "chat" /\ m.uuid = u
  BY <1>1 DEF ChatMsg, Broadcast, Broadcasted
<1>4. inbox'[e] = Append(s, m)
  BY DEF Broadcasted
<1> HIDE DEF M, m
<1>5. /\ n \in Nat /\ DOMAIN s = 1 .. n /\ inbox'[e] \in Seq(M) /\ DOMAIN inbox'[e] = 1 .. n + 1
      /\ inbox'[e][n + 1] = m /\ \A k \in 1 .. n : inbox'[e][k] = s[k]
  BY <1>2, <1>3, <1>4
<1>6. /\ Chats(e)' = Chats(e) \cup {n + 1} /\ Answers(e)' = Answers(e)
  BY <1>3, <1>5 DEF Chats, Answers
<1>7. QED
  BY <1>3, <1>5, <1>6 DEF M

(* A broadcast is of a message that has a row by then. *)
LEMMA BroadcastTidy ==
    ASSUME TidyInv, NEW d \in Devices, NEW u, Broadcasted(d, u), NEW e \in Devices
    PROVE  DeviceOK(e)'
<1>1. DeviceTypes(e) /\ Tidy(e) /\ ServerOK
  BY DEF TidyInv, DeviceOK
<1>2. Uuids' = Uuids /\ Len(log) \in Nat /\ Len(log') = Len(log) + 1
  BY <1>1, Tables DEF Broadcasted, Uuids
<1>3. Broadcast' = Broadcast /\ Answer \subseteq Answer'
  <2>1. 1 .. Len(log) \subseteq 1 .. Len(log')
    BY <1>2
  <2>2. Seq(1 .. Len(log)) \subseteq Seq(1 .. Len(log'))
    BY <2>1, SeqGrows
  <2>3. QED
    BY <1>2, <2>2 DEF Broadcast, Answer
<1>4. /\ inbox'[e] \in Seq(Broadcast \cup Answer)'
      /\ \A k \in Answers(e)' : Descending(inbox'[e][k].rows)
      /\ \A k \in Chats(e)' : inbox'[e][k].uuid \in ToSet(log')
  <2>1. CASE e # d /\ conn[e] = "on"
    <3>1. /\ \A k \in Answers(e) : Descending(inbox[e][k].rows)
          /\ \A k \in Chats(e) : inbox[e][k].uuid \in ToSet(log)
      BY <1>1 DEF Tidy
    <3>2. ToSet(log) \subseteq ToSet(log') /\ u \in ToSet(log')
      BY DEF Broadcasted
    <3>3. Answers(e) \subseteq DOMAIN inbox[e] /\ Chats(e) \subseteq DOMAIN inbox[e]
      BY DEF Answers, Chats
    <3>4. QED
      BY <2>1, <3>1, <3>2, <3>3, Told
  <2>2. CASE ~(e # d /\ conn[e] = "on")
    <3>1. inbox'[e] = inbox[e] /\ ToSet(log) \subseteq ToSet(log')
      BY <2>2 DEF Broadcasted
    <3>2. inbox[e] \in Seq(Broadcast' \cup Answer')
      BY <1>1, <1>3, SeqGrows DEF DeviceTypes
    <3>3. QED
      BY <1>1, <3>1, <3>2 DEF Tidy, Chats, Answers
  <2>3. QED
    BY <2>1, <2>2
<1>5. /\ DOMAIN sending'[e] = DOMAIN sending[e]
      /\ \A v \in DOMAIN sending[e] : \/ e = d /\ v = u /\ sending'[e][v] = "put"
                                      \/ (e # d \/ v # u) /\ sending'[e][v] = sending[e][v]
  <2>1. CASE e = d
    <3>1. u \in DOMAIN sending[e] /\ sending'[e] = With(sending[e], u, "put")
      BY <2>1 DEF Broadcasted
    <3>2. QED
      BY <2>1, <3>1 DEF With
  <2>2. CASE e # d
    BY <2>2 DEF Broadcasted
  <2>3. QED
    BY <2>1, <2>2
<1>6. DeviceTypes(e)'
  <2>1. cursor'[e] \in 0 .. Len(log') /\ readTo'[e] \in 0 .. Len(log') /\ pages'[e] \subseteq Answer'
    BY <1>1, <1>2, <1>3 DEF DeviceTypes, Broadcasted
  <2>2. /\ conn'[e] = conn[e] /\ blobs'[e] = blobs[e] /\ lastSeen'[e] = lastSeen[e]
        /\ ownSeq'[e] = ownSeq[e] /\ seq'[e] = seq[e] /\ loaded'[e] = loaded[e]
        /\ cached'[e] = cached[e] /\ leftOut'[e] = leftOut[e]
        /\ opening'[e] = opening[e] /\ shown'[e] = shown[e]
        /\ hasMore'[e] = hasMore[e] /\ loading'[e] = loading[e]
        /\ rejected'[e] = rejected[e] /\ gap'[e] = gap[e]
    BY DEF Broadcasted
  <2>3. /\ DOMAIN sending'[e] \subseteq Uuids
        /\ \A v \in DOMAIN sending'[e] : sending'[e][v] \in {"encrypt", "put", "putSeq"}
    BY <1>1, <1>5 DEF DeviceTypes
  <2>4. QED
    BY <1>1, <1>2, <1>4, <2>1, <2>2, <2>3 DEF DeviceTypes
<1>7. \A v \in DOMAIN sending'[e] : /\ sent'[v].device = e
                                    /\ sending'[e][v] = "encrypt" => v \notin ToSet(log')
  BY <1>1, <1>5 DEF Tidy, Broadcasted
<1>8. Tidy(e)'
  BY <1>1, <1>4, <1>7 DEF Tidy, Broadcasted
<1>9. QED
  BY <1>6, <1>8 DEF DeviceOK

(* The steps, by whom they concern. *)
LEMMA StepIs ==
    ASSUME NEW d \in Devices, Step(d)
    PROVE  \/ SendMessage(d)
           \/ \E u \in DOMAIN sending[d] : Transmit(d, u)
           \/ OwnStep(d)
  BY DEF Step, OwnStep

(* All operations that leave the server alone. *)
LEMMA OwnStepTidy ==
    ASSUME TidyInv, NEW d \in Devices, OwnStep(d)
    PROVE  DeviceOK(d)'
  BY SendingTidy, ReceiveChatTidy, ReceiveHistoryTidy, CheckAndStoreTidy, ShowTidy, HistoryLoadedTidy,
     RequestHistoryTidy, LoadSeqTidy, ReadCacheTidy, ShowCacheTidy, SessionTidy DEF OwnStep

(* No message more. *)
LEMMA SameServer ==
    ASSUME TidyInv, UNCHANGED sent
    PROVE  Extended
  BY Tables DEF TidyInv, Extended

(* At the start. *)
LEMMA TidyInit == Init => TidyInv
<1> SUFFICES ASSUME Init PROVE TidyInv
  OBVIOUS
<1>1. Earlier \in Seq(Devices) /\ Skew \in [Devices -> Nat] /\ MaxMishaps \in Nat
  BY ChatNumbers
<1> DEFINE N == Len(Earlier)
<1>2. N \in Nat /\ DOMAIN Earlier = 1 .. N /\ \A u \in 1 .. N : Earlier[u] \in Devices
  BY <1>1
<1>3. IsFiniteSet(1 .. N)
  BY <1>2, FS_Interval
<1>4. \A d \in Devices : Cardinality(EarlierOf(d)) \in Nat
  <2>1. SUFFICES ASSUME NEW d \in Devices PROVE Cardinality(EarlierOf(d)) \in Nat
    OBVIOUS
  <2>2. EarlierOf(d) \subseteq 1 .. N
    BY <1>2 DEF EarlierOf
  <2>3. QED
    BY <1>3, <2>2, FS_Subset, FS_CardinalityType
<1>5. \A u \in 1 .. N : EarlierSeq(u) \in Nat \ {0}
  <2>1. SUFFICES ASSUME NEW u \in 1 .. N PROVE EarlierSeq(u) \in Nat \ {0}
    OBVIOUS
  <2> DEFINE S == {v \in EarlierOf(Earlier[u]) : v <= u}
  <2>2. S \subseteq 1 .. N /\ u \in S
    BY <1>2 DEF EarlierOf
  <2>3. IsFiniteSet(S)
    BY <1>3, <2>2, FS_Subset
  <2>4. Cardinality(S) \in Nat /\ Cardinality(S) # 0
    BY <2>2, <2>3, FS_CardinalityType, FS_EmptySet
  <2>5. QED
    BY <2>4 DEF EarlierSeq
<1>6. /\ sent \in Seq(Message) /\ Len(sent) = N
      /\ log \in Seq(Uuids) /\ Len(log) = N /\ \A i \in 1 .. N : log[i] = i
  <2> DEFINE m(u) == [device |-> Earlier[u], seq |-> EarlierSeq(u), timestamp |-> u + Skew[Earlier[u]]]
  <2>1. \A u \in 1 .. N : m(u) \in Message
    BY <1>1, <1>2, <1>5 DEF Message
  <2>2. sent = [u \in 1 .. N |-> m(u)]
    BY <1>2 DEF Init
  <2> HIDE DEF m
  <2>3. sent \in Seq(Message) /\ Len(sent) = N
    BY <1>2, <2>1, <2>2
  <2>4. log = [u \in 1 .. N |-> u]
    BY <1>2 DEF Init
  <2>5. Uuids = 1 .. N
    BY <2>3 DEF Uuids
  <2>6. log \in Seq(Uuids) /\ Len(log) = N /\ \A i \in 1 .. N : log[i] = i
    BY <1>2, <2>4, <2>5
  <2>7. QED
    BY <2>3, <2>6
<1>7. ServerOK
  BY <1>1, <1>2, <1>6 DEF ServerOK, Init
<1>8. Maps
  BY DEF Maps, PerDevice, Init
<1>9. ASSUME NEW d \in Devices PROVE DeviceOK(d)
  <2>1. /\ conn[d] = "off" /\ inbox[d] = <<>> /\ blobs[d] = EarlierOf(d)
        /\ lastSeen[d] = [e \in Devices |-> 0] /\ ownSeq[d] = Cardinality(EarlierOf(d))
        /\ cached[d] = <<>> /\ leftOut[d] = {}
        /\ seq[d] = 0 /\ loaded[d] = {} /\ sending[d] = Nothing /\ opening[d] = Nothing
        /\ pages[d] = {} /\ shown[d] = <<>> /\ cursor[d] = 0 /\ readTo[d] = 0 /\ rejected[d] = {}
    BY DEF Init
  <2>2. hasMore[d] = FALSE /\ loading[d] = FALSE /\ gap[d] = FALSE
    BY DEF Init
  <2>3. hasMore[d] \in BOOLEAN /\ loading[d] \in BOOLEAN /\ gap[d] \in BOOLEAN
    BY <2>2, Zenon
  <2>4. DOMAIN Nothing = {}
    BY DEF Nothing
  <2>5. inbox[d] \in Seq(Broadcast \cup Answer) /\ shown[d] \in Seq(Uuids)
    BY <2>1
  <2>6. /\ DOMAIN sending[d] = {} /\ DOMAIN opening[d] = {}
    BY <2>1, <2>4
  <2>7. blobs[d] \subseteq Uuids /\ lastSeen[d] \in [Devices -> Nat] /\ ownSeq[d] \in Nat
    BY <1>2, <1>4, <1>6, <2>1 DEF EarlierOf, Uuids
  <2>8. conn[d] \in {"on", "off"} /\ seq[d] \in Nat /\ loaded[d] \subseteq {"seq", "cache"}
        /\ cached[d] \in Seq(Uuids) /\ leftOut[d] \subseteq Uuids
        /\ pages[d] \subseteq Answer /\ rejected[d] \subseteq Uuids
    BY <2>1
  <2>9. cursor[d] \in 0 .. Len(log) /\ readTo[d] \in 0 .. Len(log)
    BY <1>2, <1>6, <2>1
  <2>10. DeviceTypes(d)
    BY <2>3, <2>5, <2>6, <2>7, <2>8, <2>9 DEF DeviceTypes
  <2>11. Ascending(sent, <<>>) /\ Distinct(<<>>) /\ DOMAIN inbox[d] = {}
    BY <2>1 DEF Ascending, Distinct
  <2>12. Tidy(d)
    BY <2>1, <2>6, <2>11 DEF Tidy, Chats, Answers
  <2>13. QED
    BY <2>10, <2>12 DEF DeviceOK
<1>10. QED
  BY <1>7, <1>8, <1>9 DEF TidyInv

(* Every step. *)
LEMMA TidyStep == TidyInv /\ [Next]_vars => TidyInv'
<1> SUFFICES ASSUME TidyInv, [Next]_vars PROVE TidyInv'
  OBVIOUS
<1>1. ServerOK /\ Maps
  BY DEF TidyInv
<1>2. CASE Expire
  <2>1. /\ UNCHANGED <<sent, log, net, idb, seq, loaded, fromCache, sending, opening, pages, view, ghosts>>
        /\ Mishap /\ expired < Len(log) /\ expired' = expired + 1
    BY <1>2 DEF Expire
  <2>2. ServerOK'
    BY <1>1, <2>1, ChatNumbers DEF ServerOK, Mishap, Uuids
  <2>3. Maps' /\ \A d \in Devices : Same(d)
    BY <1>1, <2>1 DEF Maps, PerDevice, Same, net, idb, view, ghosts, fromCache
  <2>4. QED
    BY <2>1, <2>2, <2>3, SameServer, StillOK DEF TidyInv
<1>3. ASSUME NEW d \in Devices, Step(d) PROVE TidyInv'
  <2>1. CASE SendMessage(d)
    <3>1. Elsewhere(d) /\ log' = log
      BY <1>1, <2>1, SendLocal DEF SendMessage
    <3>2. QED
      BY <2>1, <3>1, SendTidy, StillOK DEF Elsewhere, TidyInv
  <2>2. ASSUME NEW u \in DOMAIN sending[d], Transmit(d, u) PROVE TidyInv'
    <3>1. CASE conn[d] = "on"
      <4>1. Broadcasted(d, u)
        BY <2>2, <3>1, TransmitIs
      <4>2. QED
        BY <4>1, BroadcastTidy DEF Broadcasted, TidyInv
    <3>2. CASE conn[d] # "on"
      <4>1. ServerOK' /\ Elsewhere(d) /\ DeviceOK(d)' /\ log' = log
        BY <2>2, <3>2, TransmitDropped
      <4>2. sent' = sent
        BY <2>2 DEF Transmit
      <4>3. QED
        BY <4>1, <4>2, SameServer, StillOK DEF Elsewhere, TidyInv
    <3>3. QED
      BY <3>1, <3>2
  <2>3. CASE OwnStep(d)
    <3>1. UNCHANGED <<sent, log, expired>> /\ (mishaps' = mishaps \/ Mishap)
      BY <2>3, ServerAlone
    <3>2. ServerOK' /\ Elsewhere(d) /\ DeviceOK(d)'
      BY <1>1, <2>3, <3>1, ServerKept, OwnStepLocal, OwnStepTidy
    <3>3. QED
      BY <3>1, <3>2, SameServer, StillOK DEF Elsewhere, TidyInv
  <2>4. QED
    BY <1>3, <2>1, <2>2, <2>3, StepIs
<1>4. CASE UNCHANGED vars
  <2>1. UNCHANGED <<sent, log, expired, mishaps>>
    BY <1>4 DEF vars, server
  <2>2. Maps' /\ \A d \in Devices : Same(d)
    BY <1>1, <1>4 DEF Maps, PerDevice, Same, vars, net, idb, view, ghosts, fromCache
  <2>3. QED
    BY <1>1, <2>1, <2>2, ServerKept, SameServer, StillOK DEF TidyInv
<1>5. QED
  BY <1>2, <1>3, <1>4 DEF Next

(* Always. *)
LEMMA TidyAlways == Spec => []TidyInv
  BY TidyInit, TidyStep, PTL DEF Spec

(***************************************************************************)
(* Every variable keeps its type: among others, a row is of a message      *)
(* that was sent, and a cursor, a page and what was read are of rows there *)
(* are.                                                                    *)
(***************************************************************************)
THEOREM ChatTyped == Spec => []TypeOK
<1>1. TidyInv => TypeOK
  <2> SUFFICES ASSUME TidyInv PROVE TypeOK
    OBVIOUS
  <2>1. ServerOK /\ Maps /\ \A d \in Devices : DeviceTypes(d)
    BY DEF TidyInv, DeviceOK
  <2>2. /\ conn \in [Devices -> {"on", "off"}]
        /\ blobs \in [Devices -> SUBSET Uuids]
        /\ lastSeen \in [Devices -> [Devices -> Nat]]
        /\ ownSeq \in [Devices -> Nat]
        /\ seq \in [Devices -> Nat]
        /\ loaded \in [Devices -> SUBSET {"seq", "cache"}]
    BY <2>1 DEF DeviceTypes, Maps, PerDevice
  <2>3. /\ shown \in [Devices -> Seq(Uuids)]
        /\ cursor \in [Devices -> 0 .. Len(log)]
        /\ readTo \in [Devices -> 0 .. Len(log)]
        /\ rejected \in [Devices -> SUBSET Uuids]
        /\ cached \in [Devices -> Seq(Uuids)]
        /\ leftOut \in [Devices -> SUBSET Uuids]
    BY <2>1 DEF DeviceTypes, Maps, PerDevice
  <2>4. /\ hasMore \in [Devices -> BOOLEAN] /\ loading \in [Devices -> BOOLEAN]
        /\ gap \in [Devices -> BOOLEAN]
    BY <2>1 DEF DeviceTypes, Maps, PerDevice
  <2>5. ASSUME NEW d \in Devices, NEW page \in pages[d]
        PROVE  page.type = "history" /\ ToSet(page.rows) \subseteq 1 .. Len(log)
    <3>1. page.type = "history" /\ page.rows \in Seq(1 .. Len(log))
      BY <2>1, <2>5 DEF DeviceTypes, Answer
    <3>2. QED
      BY <3>1 DEF ToSet
  <2>6. QED
    BY <2>1, <2>2, <2>3, <2>4, <2>5
       DEF TypeOK, ServerOK, DeviceTypes, Message, Broadcast, Answer
<1>2. QED
  BY <1>1, TidyAlways, PTL

(***************************************************************************)
(* Every list on screen is in order of the senders' clocks and shows no    *)
(* message twice, whatever brings the messages and in whatever order.      *)
(***************************************************************************)
THEOREM OnceAndInOrder == Spec => []ShownOnceInOrder
<1>1. TidyInv => ShownOnceInOrder
  <2> SUFFICES ASSUME TidyInv, NEW d \in Devices, NEW i \in DOMAIN shown[d], NEW j \in DOMAIN shown[d],
                      i < j
               PROVE  /\ shown[d][i] # shown[d][j]
                      /\ sent[shown[d][i]].timestamp <= sent[shown[d][j]].timestamp
    BY DEF ShownOnceInOrder
  <2>1. Ascending(sent, shown[d]) /\ Distinct(shown[d]) /\ shown[d] \in Seq(Uuids)
    BY DEF TidyInv, DeviceOK, DeviceTypes, Tidy
  <2>2. DOMAIN shown[d] = 1 .. Len(shown[d])
    BY <2>1
  <2>3. QED
    BY <2>1, <2>2 DEF Ascending, Distinct
<1>2. QED
  BY <1>1, TidyAlways, PTL
-----------------------------------------------------------------------------
(* What is stored is shown.                                                *)

Uuid(d, k) == inbox[d][k].uuid

\* What d is told or decrypts is of others; each message comes once.
Heard(d) ==
    /\ \A k \in Chats(d) : sent[Uuid(d, k)].device # d /\ Uuid(d, k) \notin DOMAIN opening[d]
    /\ \A k, l \in Chats(d) : k < l => Uuid(d, k) # Uuid(d, l)
    /\ \A u \in DOMAIN opening[d] : u \in ToSet(log) /\ sent[u].device # d
    /\ \A u \in blobs[d] : sent[u].device = d \/ u \in ToSet(log)

\* What is stored, and was not just now, is shown, decrypted for it or was left out when the cache
\* was read; what is about to be told or decrypted is shown also before the cache is.
Stored(d) == ~gap[d] =>
    /\ \A u \in DOMAIN sending[d] : u \in ToSet(shown[d])
    /\ "cache" \in loaded[d] =>
          \A u \in blobs[d] : \/ u \in ToSet(shown[d]) \cup ToSet(cached[d]) \cup leftOut[d]
                              \/ u \in DOMAIN opening[d] /\ opening[d][u] = "show"
    /\ \A u \in DOMAIN opening[d] : opening[d][u] = "decrypt" /\ u \in blobs[d] => u \in ToSet(shown[d])
    /\ \A k \in Chats(d) : Uuid(d, k) \in blobs[d] => Uuid(d, k) \in ToSet(shown[d])

StoredInv == \A d \in Devices : Heard(d) /\ Stored(d)

(* The others. *)
LEMMA StillStored ==
    ASSUME TidyInv, NEW e \in Devices, Heard(e), Stored(e), Same(e), Extended, UNCHANGED log
    PROVE  Heard(e)' /\ Stored(e)'
<1>1. Chats(e)' = Chats(e) /\ \A k \in Chats(e) : Uuid(e, k)' = Uuid(e, k)
  BY DEF Same, Chats, Uuid
<1>2. /\ \A k \in Chats(e) : Uuid(e, k) \in Uuids
      /\ DOMAIN opening[e] \subseteq Uuids /\ blobs[e] \subseteq Uuids
  BY Tables DEF TidyInv, DeviceOK, DeviceTypes, Tidy, Uuid
<1>3. Heard(e)'
  BY <1>1, <1>2 DEF Heard, Same, Extended
<1>4. Stored(e)'
  BY <1>1 DEF Stored, Same
<1>5. QED
  BY <1>3, <1>4

(* A message is sent. *)
LEMMA SendStored ==
    ASSUME TidyInv, NEW d \in Devices, Heard(d), Stored(d), SendMessage(d)
    PROVE  Heard(d)' /\ Stored(d)'
<1> DEFINE u == Len(sent) + 1
<1>1. /\ Extended
      /\ ToSet(shown'[d]) = ToSet(shown[d]) \cup {u}
      /\ sending'[d] = With(sending[d], u, "encrypt")
  BY SendTidy
<1>2. UNCHANGED <<log, inbox, blobs, loaded, fromCache, opening, gap>>
  BY DEF SendMessage, net, idb, ghosts
<1>3. Chats(d)' = Chats(d) /\ \A k \in Chats(d) : Uuid(d, k)' = Uuid(d, k)
  BY <1>2 DEF Chats, Uuid
<1>4. /\ \A k \in Chats(d) : Uuid(d, k) \in Uuids
      /\ DOMAIN opening[d] \subseteq Uuids /\ blobs[d] \subseteq Uuids
  BY Tables DEF TidyInv, DeviceOK, DeviceTypes, Tidy, Uuid
<1>5. Heard(d)'
  BY <1>1, <1>2, <1>3, <1>4 DEF Heard, Extended
<1> HIDE DEF u
<1>6. \A v \in DOMAIN sending'[d] : v = u \/ v \in DOMAIN sending[d]
  BY <1>1 DEF With
<1>7. Stored(d)'
  BY <1>1, <1>2, <1>3, <1>6 DEF Stored, fromCache
<1>8. QED
  BY <1>5, <1>7

(* It is dropped on a dead socket. *)
LEMMA DroppedStored ==
    ASSUME TidyInv, NEW d \in Devices, Heard(d), Stored(d), NEW u \in DOMAIN sending[d],
           Transmit(d, u), conn[d] # "on"
    PROVE  Heard(d)' /\ Stored(d)'
<1>1. sending'[d] = With(sending[d], u, "put")
  BY TransmitDropped
<1>2. UNCHANGED <<sent, log, inbox, blobs, loaded, fromCache, opening, gap, shown>>
  BY DEF Transmit, idb, view, ghosts
<1>3. DOMAIN sending'[d] = DOMAIN sending[d]
  BY <1>1 DEF With
<1>4. QED
  BY <1>2, <1>3 DEF Heard, Stored, Chats, Uuid, fromCache

(* A broadcast is of a message none of the others has had. *)
LEMMA BroadcastStored ==
    ASSUME TidyInv, NEW d \in Devices, NEW u, Broadcasted(d, u), NEW e \in Devices,
           Heard(e), Stored(e)
    PROVE  Heard(e)' /\ Stored(e)'
<1>1. /\ blobs'[e] = blobs[e] /\ loaded'[e] = loaded[e] /\ opening'[e] = opening[e]
      /\ cached'[e] = cached[e] /\ leftOut'[e] = leftOut[e]
      /\ shown'[e] = shown[e] /\ gap'[e] = gap[e] /\ sent' = sent
      /\ ToSet(log') = ToSet(log) \cup {u} /\ u \notin ToSet(log) /\ sent[u].device = d
  BY DEF Broadcasted
<1>2. DOMAIN sending'[e] = DOMAIN sending[e]
  BY DEF Broadcasted, With
<1>3. \A k \in Chats(e) : k \in DOMAIN inbox[e] /\ k \in Nat /\ Uuid(e, k) \in ToSet(log)
  <2>1. DOMAIN inbox[e] = 1 .. Len(inbox[e]) /\ Len(inbox[e]) \in Nat
    BY DEF TidyInv, DeviceOK, DeviceTypes
  <2>2. QED
    BY <2>1 DEF TidyInv, DeviceOK, Tidy, Chats, Uuid
<1>4. CASE e # d /\ conn[e] = "on"
  <2>0. PICK n : n = Len(inbox[e]) + 1
    OBVIOUS
  <2>1. /\ Chats(e)' = Chats(e) \cup {n} /\ n \in Nat
        /\ inbox'[e][n].uuid = u
        /\ \A k \in Chats(e) : Uuid(e, k)' = Uuid(e, k) /\ k < n
    BY <1>3, <1>4, <2>0, Told DEF Uuid, Chats
  <2>2. Uuid(e, n)' = u
    BY <2>1 DEF Uuid
  <2>3. u \notin DOMAIN opening[e] /\ u \notin blobs[e]
    BY <1>1, <1>4 DEF Heard
  <2>4. Heard(e)'
    <3>1. \A k \in Chats(e)' : sent'[Uuid(e, k)'].device # e /\ Uuid(e, k)' \notin DOMAIN opening'[e]
      BY <1>1, <1>4, <2>1, <2>2, <2>3 DEF Heard
    <3>2. \A k, l \in Chats(e)' : k < l => Uuid(e, k)' # Uuid(e, l)'
      BY <1>1, <1>3, <2>1, <2>2 DEF Heard
    <3>3. QED
      BY <1>1, <3>1, <3>2 DEF Heard
  <2>5. Stored(e)'
    BY <1>1, <1>2, <2>1, <2>2, <2>3 DEF Stored, fromCache
  <2>6. QED
    BY <2>4, <2>5
<1>5. CASE ~(e # d /\ conn[e] = "on")
  <2>1. inbox'[e] = inbox[e]
    BY <1>5 DEF Broadcasted
  <2>2. QED
    BY <1>1, <1>2, <2>1 DEF Heard, Stored, Chats, Uuid, fromCache
<1>6. QED
  BY <1>4, <1>5

(* A message the device has sent is stored: it is on screen. *)
LEMMA SendingStored ==
    ASSUME TidyInv, NEW d \in Devices, Heard(d), Stored(d), NEW u \in DOMAIN sending[d],
           PutBlob(d, u) \/ WriteFails(d, u) \/ PutOwnSeq(d, u)
    PROVE  Heard(d)' /\ Stored(d)'
<1>1. UNCHANGED <<sent, log, inbox, loaded, fromCache, opening, gap, shown>>
  BY DEF PutBlob, WriteFails, PutOwnSeq, server, net, view, ghosts
<1>2. /\ DOMAIN sending'[d] \subseteq DOMAIN sending[d]
      /\ blobs'[d] \subseteq blobs[d] \cup {u}
  <2>1. CASE PutBlob(d, u)
    BY <2>1 DEF PutBlob, With, TidyInv, Maps, PerDevice
  <2>2. CASE WriteFails(d, u) \/ PutOwnSeq(d, u)
    BY <2>2 DEF WriteFails, PutOwnSeq, idb, Without, TidyInv, Maps, PerDevice
  <2>3. QED
    BY <2>1, <2>2
<1>3. sent[u].device = d
  BY DEF TidyInv, DeviceOK, Tidy
<1>4. Chats(d)' = Chats(d) /\ \A k \in Chats(d) : Uuid(d, k)' = Uuid(d, k)
  BY <1>1 DEF Chats, Uuid
<1>5. Heard(d)'
  BY <1>1, <1>2, <1>3, <1>4 DEF Heard
<1>6. u \notin DOMAIN opening[d] /\ \A k \in Chats(d) : Uuid(d, k) # u
  BY <1>3 DEF Heard
<1>7. Stored(d)'
  BY <1>1, <1>2, <1>4, <1>6 DEF Stored, fromCache
<1>8. QED
  BY <1>5, <1>7

(* The next message is read. *)
LEMMA ChatReadStored ==
    ASSUME TidyInv, NEW d \in Devices, Heard(d), Stored(d), ReceiveChat(d)
    PROVE  Heard(d)' /\ Stored(d)'
<1> DEFINE u == Head(inbox[d]).uuid
<1>1. /\ UNCHANGED <<sent, log, blobs, loaded, fromCache, sending, gap, shown>>
      /\ inbox[d] # <<>> /\ InboxTail(d) /\ Head(inbox[d]).type = "chat"
      /\ opening'[d] = With(opening[d], u, "decrypt")
  BY DEF ReceiveChat, InboxTail, server, idb, view, TidyInv, Maps, PerDevice
<1>2. 1 \in Chats(d) /\ u = Uuid(d, 1)
  BY <1>1, FromInbox DEF Chats, Uuid
<1>3. \A k \in Chats(d)' : k \in Nat /\ k + 1 \in Chats(d) /\ Uuid(d, k)' = Uuid(d, k + 1)
  BY <1>1, TailTidy DEF Uuid
<1>4. 1 < 1 + 1 /\ \A k \in Chats(d)' : k > 0
  <2>1. inbox'[d] = Tail(inbox[d])
    BY <1>1 DEF InboxTail, TidyInv, Maps, PerDevice
  <2>2. \A k \in Chats(d)' : k \in Nat \ {0}
    BY <1>1, <2>1, FromInbox DEF Chats
  <2>3. QED
    BY <2>2
<1>5. u \in ToSet(log)
  BY <1>2 DEF TidyInv, DeviceOK, Tidy, Uuid
<1> HIDE DEF u
<1>6. /\ DOMAIN opening'[d] = DOMAIN opening[d] \cup {u} /\ opening'[d][u] = "decrypt"
      /\ u \notin DOMAIN opening[d]
      /\ \A v \in DOMAIN opening[d] : opening'[d][v] = opening[d][v]
  BY <1>1, <1>2 DEF With, Heard
<1>7. \A k \in Chats(d)' : Uuid(d, k)' # u
  <2>1. SUFFICES ASSUME NEW k \in Chats(d)' PROVE Uuid(d, k)' # u
    OBVIOUS
  <2>2. k + 1 \in Chats(d) /\ 1 < k + 1
    BY <1>3, <1>4
  <2>3. QED
    BY <1>2, <1>3, <2>2 DEF Heard
<1>8. Heard(d)'
  <2>1. \A k \in Chats(d)' : sent'[Uuid(d, k)'].device # d /\ Uuid(d, k)' \notin DOMAIN opening'[d]
    BY <1>1, <1>3, <1>6, <1>7 DEF Heard
  <2>2. ASSUME NEW k \in Chats(d)', NEW l \in Chats(d)', k < l PROVE Uuid(d, k)' # Uuid(d, l)'
    <3>1. k + 1 \in Chats(d) /\ l + 1 \in Chats(d) /\ k + 1 < l + 1
      BY <1>3, <2>2
    <3>2. QED
      BY <1>3, <3>1 DEF Heard
  <2>3. \A v \in DOMAIN opening'[d] : v \in ToSet(log') /\ sent'[v].device # d
    BY <1>1, <1>2, <1>5, <1>6 DEF Heard
  <2>4. \A v \in blobs'[d] : sent'[v].device = d \/ v \in ToSet(log')
    BY <1>1 DEF Heard
  <2>5. QED
    BY <2>1, <2>2, <2>3, <2>4 DEF Heard
<1>9. Stored(d)'
  <2>1. SUFFICES ASSUME ~gap[d]
                 PROVE  /\ \A v \in DOMAIN sending[d] : v \in ToSet(shown[d])
                        /\ "cache" \in loaded[d] =>
                              \A v \in blobs[d] :
                                  \/ v \in ToSet(shown[d]) \cup ToSet(cached[d]) \cup leftOut[d]
                                  \/ v \in DOMAIN opening'[d] /\ opening'[d][v] = "show"
                        /\ \A v \in DOMAIN opening'[d] :
                              opening'[d][v] = "decrypt" /\ v \in blobs[d] => v \in ToSet(shown[d])
                        /\ \A k \in Chats(d)' : Uuid(d, k)' \in blobs[d] => Uuid(d, k)' \in ToSet(shown[d])
    BY <1>1 DEF Stored, fromCache
  <2>2. u \in blobs[d] => u \in ToSet(shown[d])
    BY <1>2, <2>1 DEF Stored, fromCache
  <2>3. QED
    BY <1>3, <1>6, <2>1, <2>2 DEF Stored, fromCache
<1>10. QED
  BY <1>8, <1>9

(* A page is read. *)
LEMMA PageReadStored ==
    ASSUME TidyInv, NEW d \in Devices, Heard(d), Stored(d), ReceiveHistory(d)
    PROVE  Heard(d)' /\ Stored(d)'
<1>1. /\ UNCHANGED <<sent, log, blobs, loaded, fromCache, sending, opening, shown>>
      /\ inbox[d] # <<>> /\ InboxTail(d)
      /\ ~gap'[d] => ~gap[d]
  BY DEF ReceiveHistory, InboxTail, server, idb, TidyInv, Maps, PerDevice
<1>2. \A k \in Chats(d)' : k \in Nat /\ k + 1 \in Chats(d) /\ Uuid(d, k)' = Uuid(d, k + 1)
  BY <1>1, TailTidy DEF Uuid
<1>3. Heard(d)'
  <2>2. ASSUME NEW k \in Chats(d)', NEW l \in Chats(d)', k < l PROVE Uuid(d, k)' # Uuid(d, l)'
    <3>1. k + 1 \in Chats(d) /\ l + 1 \in Chats(d) /\ k + 1 < l + 1
      BY <1>2, <2>2
    <3>2. QED
      BY <1>2, <3>1 DEF Heard
  <2>3. QED
    BY <1>1, <1>2, <2>2 DEF Heard
<1>4. Stored(d)'
  BY <1>1, <1>2 DEF Stored, fromCache
<1>5. QED
  BY <1>3, <1>4

(* A decrypted message is stored, then shown. *)
LEMMA CheckedStored ==
    ASSUME TidyInv, NEW d \in Devices, Heard(d), Stored(d), NEW u \in DOMAIN opening[d],
           CheckAndStore(d, u)
    PROVE  Heard(d)' /\ Stored(d)'
<1>1. UNCHANGED <<sent, log, inbox, loaded, fromCache, sending, gap, shown>> /\ opening[d][u] = "decrypt"
  BY DEF CheckAndStore, server, net, view, AtStage
<1>2. Chats(d)' = Chats(d) /\ \A k \in Chats(d) : Uuid(d, k)' = Uuid(d, k) /\ Uuid(d, k) # u
  BY <1>1 DEF Chats, Uuid, Heard
<1>3. \/ blobs'[d] = blobs[d] \cup {u} /\ opening'[d] = With(opening[d], u, "show")
      \/ blobs'[d] = blobs[d] /\ opening'[d] = Without(opening[d], u)
  BY DEF CheckAndStore, TidyInv, Maps, PerDevice
<1>4. CASE blobs'[d] = blobs[d] \cup {u} /\ opening'[d] = With(opening[d], u, "show")
  <2>1. /\ DOMAIN opening'[d] = DOMAIN opening[d] /\ opening'[d][u] = "show"
        /\ \A v \in DOMAIN opening[d] : v # u => opening'[d][v] = opening[d][v]
    BY <1>4 DEF With
  <2>2. Heard(d)'
    BY <1>1, <1>2, <1>4, <2>1 DEF Heard
  <2>3. Stored(d)'
    BY <1>1, <1>2, <1>4, <2>1 DEF Stored, fromCache
  <2>4. QED
    BY <2>2, <2>3
<1>5. CASE blobs'[d] = blobs[d] /\ opening'[d] = Without(opening[d], u)
  <2>1. /\ DOMAIN opening'[d] = DOMAIN opening[d] \ {u}
        /\ \A v \in DOMAIN opening[d] : v # u => opening'[d][v] = opening[d][v]
    BY <1>5 DEF Without
  <2>2. Heard(d)'
    BY <1>1, <1>2, <1>5, <2>1 DEF Heard
  <2>3. Stored(d)'
    BY <1>1, <1>2, <1>5, <2>1 DEF Stored, fromCache
  <2>4. QED
    BY <2>2, <2>3
<1>6. QED
  BY <1>3, <1>4, <1>5

(* A broadcast is shown. *)
LEMMA ShowStored ==
    ASSUME TidyInv, NEW d \in Devices, Heard(d), Stored(d), NEW u \in DOMAIN opening[d], Show(d, u)
    PROVE  Heard(d)' /\ Stored(d)'
<1>1. /\ UNCHANGED <<sent, log, inbox, blobs, loaded, fromCache, sending, gap>>
      /\ opening'[d] = Without(opening[d], u)
  BY DEF Show, server, net, idb, ghosts, TidyInv, Maps, PerDevice
<1>2. ToSet(shown'[d]) = ToSet(shown[d]) \cup {u}
  BY ShowTidy
<1>3. Chats(d)' = Chats(d) /\ \A k \in Chats(d) : Uuid(d, k)' = Uuid(d, k)
  BY <1>1 DEF Chats, Uuid
<1>4. /\ DOMAIN opening'[d] = DOMAIN opening[d] \ {u}
      /\ \A v \in DOMAIN opening[d] : v # u => opening'[d][v] = opening[d][v]
  BY <1>1 DEF Without
<1>5. Heard(d)'
  BY <1>1, <1>3, <1>4 DEF Heard
<1>6. Stored(d)'
  BY <1>1, <1>2, <1>3, <1>4 DEF Stored, fromCache
<1>7. QED
  BY <1>5, <1>6

(* A page is shown. *)
LEMMA PageShownStored ==
    ASSUME TidyInv, NEW d \in Devices, Heard(d), Stored(d), NEW page \in pages[d],
           HistoryLoaded(d, page)
    PROVE  Heard(d)' /\ Stored(d)'
<1> DEFINE new == {log[i] : i \in ToSet(page.rows)}
<1>1. UNCHANGED <<sent, log, inbox, loaded, fromCache, sending, opening, gap>>
  BY DEF HistoryLoaded, server, net, ghosts
<1>2. blobs'[d] = blobs[d] \cup new /\ ToSet(shown'[d]) = ToSet(shown[d]) \cup new
  BY HistoryLoadedTidy
<1>3. new \subseteq ToSet(log)
  <2>1. page.rows \in Seq(1 .. Len(log))
    BY DEF TidyInv, DeviceOK, DeviceTypes, Answer
  <2>2. ToSet(page.rows) \subseteq 1 .. Len(log)
    BY <2>1 DEF ToSet
  <2>3. QED
    BY <2>2, Tables DEF TidyInv
<1> HIDE DEF new
<1>4. Chats(d)' = Chats(d) /\ \A k \in Chats(d) : Uuid(d, k)' = Uuid(d, k)
  BY <1>1 DEF Chats, Uuid
<1>5. Heard(d)'
  BY <1>1, <1>2, <1>3, <1>4 DEF Heard
<1>6. Stored(d)'
  BY <1>1, <1>2, <1>4 DEF Stored, fromCache
<1>7. QED
  BY <1>5, <1>6

(* History is asked for, and the stores are read. *)
LEMMA LoadStored ==
    ASSUME TidyInv, NEW d \in Devices, Heard(d), Stored(d),
           RequestHistory(d) \/ LoadSeq(d) \/ ReadCache(d) \/ ShowCache(d)
    PROVE  Heard(d)' /\ Stored(d)'
<1>1. UNCHANGED <<sent, log, blobs, sending, opening, gap>>
  BY DEF RequestHistory, LoadSeq, ReadCache, ShowCache, server, idb, ghosts
<1>2. Chats(d)' = Chats(d) /\ \A k \in Chats(d) : Uuid(d, k)' = Uuid(d, k)
  <2>1. CASE LoadSeq(d) \/ ReadCache(d) \/ ShowCache(d)
    BY <2>1 DEF LoadSeq, ReadCache, ShowCache, net, Chats, Uuid
  <2>2. CASE RequestHistory(d)
    <3> DEFINE page == Page(cursor[d], FALSE)
    <3>1. inbox'[d] = inbox[d] \/ inbox'[d] = Append(inbox[d], page)
      BY <2>2 DEF RequestHistory, TidyInv, Maps, PerDevice
    <3>2. page.type # "chat"
      BY DEF Page, HistoryMsg
    <3> HIDE DEF page
    <3>3. IsSequence(inbox[d])
      BY DEF TidyInv, DeviceOK, DeviceTypes, IsSequence
    <3>4. QED
      BY <3>1, <3>2, <3>3, AppendedIs DEF Chats, Uuid
  <2>3. QED
    BY <2>1, <2>2
<1>3. Heard(d)'
  BY <1>1, <1>2 DEF Heard
<1>4. CASE ReadCache(d)
  <2>1. blobs[d] \subseteq ToSet(cached'[d]) \cup leftOut'[d] /\ shown' = shown
    BY <1>4, ReadCacheTidy DEF ReadCache, view
  <2>2. QED
    BY <1>1, <1>2, <1>3, <2>1 DEF Stored, fromCache
<1>5. CASE ShowCache(d)
  <2>1. ToSet(shown'[d]) = ToSet(shown[d]) \cup ToSet(cached[d]) /\ UNCHANGED <<loaded, leftOut>>
    BY <1>5, ShowCacheTidy DEF ShowCache
  <2>2. QED
    BY <1>1, <1>2, <1>3, <2>1 DEF Stored, fromCache
<1>6. CASE RequestHistory(d) \/ LoadSeq(d)
  <2>1. UNCHANGED <<shown, fromCache>> /\ ("cache" \in loaded'[d] => "cache" \in loaded[d])
    <3>1. CASE RequestHistory(d)
      BY <3>1 DEF RequestHistory
    <3>2. CASE LoadSeq(d)
      <4>1. UNCHANGED <<shown, fromCache>> /\ loaded'[d] = loaded[d] \cup {"seq"}
        BY <3>2 DEF LoadSeq, view, TidyInv, Maps, PerDevice
      <4>2. QED
        BY <4>1
    <3>3. QED
      BY <1>6, <3>1, <3>2
  <2>2. QED
    BY <1>1, <1>2, <1>3, <2>1 DEF Stored, fromCache
<1>7. QED
  BY <1>4, <1>5, <1>6

(* Connections come and go, the room is entered again, history is cleared. *)
LEMMA SessionStored ==
    ASSUME TidyInv, NEW d \in Devices, Heard(d), Stored(d),
           Connect(d) \/ Disconnect(d) \/ Reload(d) \/ ClearHistory(d)
    PROVE  Heard(d)' /\ Stored(d)'
<1>1. UNCHANGED <<sent, log>>
  BY DEF Connect, Disconnect, Reload, ClearHistory, server
<1>2. CASE Connect(d) \/ Disconnect(d)
  <2>1. UNCHANGED <<blobs, loaded, fromCache, sending, opening, shown, gap>>
    BY <1>2 DEF Connect, Disconnect, idb, view, ghosts
  <2>2. Chats(d)' = {}
    <3>1. CASE Connect(d)
      <4> DEFINE page == Page(Len(log) + 1, TRUE)
      <4>1. inbox'[d] = <<page>>
        BY <3>1 DEF Connect, TidyInv, Maps, PerDevice
      <4>2. page.type # "chat"
        BY DEF Page, HistoryMsg
      <4> HIDE DEF page
      <4>3. QED
        BY <4>1, <4>2 DEF Chats
    <3>2. CASE Disconnect(d)
      <4>1. inbox'[d] = <<>>
        BY <3>2 DEF Disconnect, TidyInv, Maps, PerDevice
      <4>2. QED
        BY <4>1 DEF Chats
    <3>3. QED
      BY <1>2, <3>1, <3>2
  <2>3. QED
    BY <1>1, <2>1, <2>2 DEF Heard, Stored, fromCache
<1>3. CASE Reload(d)
  <2>1. /\ inbox'[d] = <<>> /\ loaded'[d] = {} /\ sending'[d] = Nothing /\ opening'[d] = Nothing
        /\ blobs' = blobs
    BY <1>3 DEF Reload, idb, TidyInv, Maps, PerDevice
  <2>2. DOMAIN Nothing = {}
    BY DEF Nothing
  <2>3. Chats(d)' = {}
    BY <2>1 DEF Chats
  <2>4. QED
    BY <1>1, <2>1, <2>2, <2>3 DEF Heard, Stored
<1>4. CASE ClearHistory(d)
  <2>1. /\ UNCHANGED <<inbox, opening, sending>> /\ blobs'[d] = {}
        /\ ~gap'[d] => inbox[d] = <<>> /\ DOMAIN sending[d] = {} /\ DOMAIN opening[d] = {}
    BY <1>4 DEF ClearHistory, BlobsCleared, net, TidyInv, Maps, PerDevice
  <2>2. Heard(d)'
    BY <1>1, <2>1 DEF Heard, Chats, Uuid
  <2>3. Stored(d)'
    BY <1>1, <2>1 DEF Stored
  <2>4. QED
    BY <2>2, <2>3
<1>5. QED
  BY <1>2, <1>3, <1>4

(* All operations that leave the server alone. *)
LEMMA OwnStepStored ==
    ASSUME TidyInv, NEW d \in Devices, Heard(d), Stored(d), OwnStep(d)
    PROVE  Heard(d)' /\ Stored(d)'
  BY SendingStored, ChatReadStored, PageReadStored, CheckedStored, ShowStored, PageShownStored,
     LoadStored, SessionStored DEF OwnStep

(* At the start. *)
LEMMA StoredInit == Init => StoredInv
<1> SUFFICES ASSUME Init, NEW d \in Devices PROVE Heard(d) /\ Stored(d)
  BY DEF StoredInv
<1>1. /\ inbox[d] = <<>> /\ blobs[d] = EarlierOf(d) /\ sending[d] = Nothing /\ opening[d] = Nothing
      /\ loaded[d] = {}
      /\ \A u \in DOMAIN Earlier : sent[u].device = Earlier[u]
  BY DEF Init
<1>2. DOMAIN Nothing = {}
  BY DEF Nothing
<1>3. Chats(d) = {}
  BY <1>1 DEF Chats
<1>4. \A u \in blobs[d] : sent[u].device = d
  BY <1>1 DEF EarlierOf
<1>5. DOMAIN opening[d] = {} /\ DOMAIN sending[d] = {}
  BY <1>1, <1>2
<1>6. Heard(d)
  BY <1>3, <1>4, <1>5 DEF Heard
<1>7. Stored(d)
  BY <1>1, <1>3, <1>5 DEF Stored
<1>8. QED
  BY <1>6, <1>7

(* Every step. *)
LEMMA StoredStep == TidyInv /\ StoredInv /\ [Next]_vars => StoredInv'
<1> SUFFICES ASSUME TidyInv, StoredInv, [Next]_vars, NEW e \in Devices PROVE Heard(e)' /\ Stored(e)'
  BY DEF StoredInv
<1>1. ServerOK /\ Maps /\ Heard(e) /\ Stored(e)
  BY DEF TidyInv, StoredInv
<1>2. CASE Expire \/ UNCHANGED vars
  <2>1. Same(e) /\ UNCHANGED <<sent, log>>
    BY <1>2 DEF Expire, vars, server, Same, net, idb, view, ghosts, fromCache
  <2>2. QED
    BY <1>1, <2>1, SameServer, StillStored
<1>3. ASSUME NEW d \in Devices, Step(d) PROVE Heard(e)' /\ Stored(e)'
  <2>1. CASE SendMessage(d)
    <3>1. Elsewhere(d) /\ log' = log /\ Extended
      BY <1>1, <2>1, SendLocal, SendTidy DEF SendMessage
    <3>2. QED
      BY <1>1, <2>1, <3>1, SendStored, StillStored DEF Elsewhere
  <2>2. ASSUME NEW u \in DOMAIN sending[d], Transmit(d, u) PROVE Heard(e)' /\ Stored(e)'
    <3>1. CASE conn[d] = "on"
      BY <1>1, <2>2, <3>1, TransmitIs, BroadcastStored
    <3>2. CASE conn[d] # "on"
      <4>1. Elsewhere(d) /\ UNCHANGED <<sent, log>>
        BY <2>2, <3>2, TransmitDropped DEF Transmit
      <4>2. QED
        BY <1>1, <2>2, <3>2, <4>1, SameServer, StillStored, DroppedStored DEF Elsewhere
    <3>3. QED
      BY <3>1, <3>2
  <2>3. CASE OwnStep(d)
    <3>1. Elsewhere(d) /\ UNCHANGED <<sent, log>>
      BY <1>1, <2>3, ServerAlone, OwnStepLocal
    <3>2. QED
      BY <1>1, <2>3, <3>1, SameServer, StillStored, OwnStepStored DEF Elsewhere
  <2>4. QED
    BY <1>3, <2>1, <2>2, <2>3, StepIs
<1>4. QED
  BY <1>2, <1>3 DEF Next

(* Always. *)
LEMMA StoredAlways == Spec => []StoredInv
  BY TidyAlways, StoredInit, StoredStep, PTL DEF Spec

(***************************************************************************)
(* What a device stores it shows, or is about to: neither a reload nor a   *)
(* race between a send, a broadcast, a page and the cache leaves a blob    *)
(* that only the next cold start reveals.                                  *)
(***************************************************************************)
THEOREM EverythingStoredShown == Spec => []StoredIsShown
<1>1. StoredInv => StoredIsShown
  BY DEF StoredInv, Stored, StoredIsShown
<1>2. QED
  BY <1>1, StoredAlways, PTL
-----------------------------------------------------------------------------
(* Rows: what is on its way, and what was read.                            *)

Row(d, k) == RowOf(Uuid(d, k))
JoinAhead(d) == inbox[d] # <<>> /\ inbox[d][1].type = "history" /\ inbox[d][1].join

\* Only an open connection carries anything, the answer to the join first; broadcasts come in the
\* order of their rows, all of them newer than what was read, and asked for are only older rows.
Placed(d) ==
    /\ inbox[d] # <<>> => conn[d] = "on"
    /\ \A k \in Answers(d) : inbox[d][k].join => k = 1
    /\ \A k \in Chats(d) : Row(d, k) > readTo[d]
    /\ \A k, l \in Chats(d) : k < l => Row(d, k) < Row(d, l)
    /\ JoinAhead(d) => \A k \in Chats(d) : \A j \in ToSet(inbox[d][1].rows) : Row(d, k) > j
    /\ \A k \in Answers(d) : ~inbox[d][k].join => \A j \in ToSet(inbox[d][k].rows) : j <= readTo[d]
    /\ \A page \in pages[d] : \A j \in ToSet(page.rows) : j <= readTo[d]
    /\ cursor[d] <= readTo[d]

PlacedInv == \A d \in Devices : Placed(d)

(* A step that concerns none of it. *)
LEMMA QuietPlaced ==
    ASSUME NEW e \in Devices, Placed(e), conn'[e] = conn[e], inbox'[e] = inbox[e],
           pages'[e] = pages[e], cursor'[e] = cursor[e], readTo'[e] = readTo[e], log' = log
    PROVE  Placed(e)'
<1>1. /\ Chats(e)' = Chats(e) /\ Answers(e)' = Answers(e) /\ JoinAhead(e)' = JoinAhead(e)
      /\ \A k \in Chats(e) : Row(e, k)' = Row(e, k)
  BY DEF Chats, Answers, JoinAhead, Row, Uuid, RowOf
<1>2. QED
  BY <1>1 DEF Placed

(* The row of a message stays its row. *)
LEMMA RowStays ==
    ASSUME TidyInv, NEW d, NEW u, Broadcasted(d, u)
    PROVE  /\ \A v \in ToSet(log) : RowOf(v)' = RowOf(v) /\ RowOf(v) \in 1 .. Len(log)
           /\ RowOf(u)' = Len(log) + 1
           /\ Len(log) \in Nat
<1>1. ServerOK /\ ServerOK' /\ Len(log) \in Nat /\ Len(log') = Len(log) + 1
  BY Tables DEF TidyInv, Broadcasted
<1>2. \A i \in 1 .. Len(log) : log'[i] = log[i]
  BY DEF Broadcasted
<1>3. \A i, j \in 1 .. Len(log') : log'[i] = log'[j] => i = j
  BY <1>1 DEF ServerOK
<1>4. ASSUME NEW v, NEW i \in 1 .. Len(log'), log'[i] = v
      PROVE  RowOf(v)' = i
  <2>1. \A j \in 1 .. Len(log') : log'[j] = v => j = i
    BY <1>3, <1>4
  <2>2. QED
    BY <1>4, <2>1 DEF RowOf
<1>5. ASSUME NEW v \in ToSet(log) PROVE RowOf(v)' = RowOf(v) /\ RowOf(v) \in 1 .. Len(log)
  <2>1. RowOf(v) \in 1 .. Len(log) /\ log[RowOf(v)] = v
    BY <1>1, RowOfIs
  <2>2. PICK i \in 1 .. Len(log) : i = RowOf(v)
    BY <2>1
  <2>3. i \in 1 .. Len(log') /\ log'[i] = v
    BY <1>1, <1>2, <2>1, <2>2
  <2>4. QED
    BY <1>4, <2>2, <2>3
<1>6. RowOf(u)' = Len(log) + 1
  <2>1. Len(log) + 1 \in 1 .. Len(log') /\ log'[Len(log) + 1] = u
    BY <1>1 DEF Broadcasted
  <2>2. QED
    BY <1>4, <2>1
<1>7. QED
  BY <1>1, <1>5, <1>6

(* A broadcast is of the newest row. *)
LEMMA BroadcastPlaced ==
    ASSUME TidyInv, NEW d \in Devices, NEW u, Broadcasted(d, u), NEW e \in Devices, Placed(e)
    PROVE  Placed(e)'
<1>1. /\ conn'[e] = conn[e] /\ pages'[e] = pages[e] /\ cursor'[e] = cursor[e] /\ readTo'[e] = readTo[e]
  BY DEF Broadcasted
<1>2. \A k \in Chats(e) : Uuid(e, k) \in ToSet(log) /\ k \in DOMAIN inbox[e]
  BY DEF TidyInv, DeviceOK, Tidy, Chats, Uuid
<1>3. readTo[e] \in 0 .. Len(log) /\ Len(log) \in Nat
  BY Tables DEF TidyInv, DeviceOK, DeviceTypes
<1>4. DOMAIN inbox[e] = 1 .. Len(inbox[e]) /\ Len(inbox[e]) \in Nat
  BY DEF TidyInv, DeviceOK, DeviceTypes
<1>5. CASE e # d /\ conn[e] = "on"
  <2>1. PICK n : n = Len(inbox[e]) + 1
    OBVIOUS
  <2>2. /\ Chats(e)' = Chats(e) \cup {n} /\ Answers(e)' = Answers(e)
        /\ inbox'[e][n].uuid = u
        /\ \A k \in DOMAIN inbox[e] : inbox'[e][k] = inbox[e][k]
    BY <1>5, <2>1, Told
  <2>3. \A k \in Chats(e) : Row(e, k)' = Row(e, k) /\ Row(e, k) \in 1 .. Len(log) /\ k < n /\ k \in Nat
    BY <1>2, <1>4, <2>1, <2>2, RowStays DEF Row, Uuid
  <2>4. Row(e, n)' = Len(log) + 1
    BY <2>2, RowStays DEF Row, Uuid
  <2>5. JoinAhead(e)' => JoinAhead(e) /\ inbox'[e][1] = inbox[e][1]
    <3>1. CASE inbox[e] = <<>>
      <4>1. n = 1 /\ inbox'[e][1].type = "chat"
        BY <1>4, <2>1, <2>2, <3>1 DEF Chats
      <4>2. QED
        BY <4>1 DEF JoinAhead
    <3>2. CASE inbox[e] # <<>>
      <4>1. 1 \in DOMAIN inbox[e]
        BY <3>2, FromInbox
      <4>2. QED
        BY <2>2, <3>2, <4>1 DEF JoinAhead
    <3>3. QED
      BY <3>1, <3>2
  <2>6. JoinAhead(e) => \A j \in ToSet(inbox[e][1].rows) : j \in 1 .. Len(log)
    <3>1. SUFFICES ASSUME JoinAhead(e) PROVE \A j \in ToSet(inbox[e][1].rows) : j \in 1 .. Len(log)
      OBVIOUS
    <3>2. inbox[e][1] \in Answer
      BY <3>1, FromInbox DEF JoinAhead, Broadcast
    <3>3. QED
      BY <3>2 DEF Answer, ToSet
  <2>7. \A k \in Chats(e)' : Row(e, k)' > readTo'[e]
    BY <1>1, <1>3, <2>2, <2>3, <2>4 DEF Placed
  <2>8. \A k, l \in Chats(e)' : k < l => Row(e, k)' < Row(e, l)'
    <3>1. SUFFICES ASSUME NEW k \in Chats(e)', NEW l \in Chats(e)', k < l
                   PROVE  Row(e, k)' < Row(e, l)'
      OBVIOUS
    <3>2. k \in Chats(e)
      BY <1>4, <2>1, <2>2, <2>3, <3>1
    <3>3. QED
      BY <1>3, <2>2, <2>3, <2>4, <3>1, <3>2 DEF Placed
  <2>9. JoinAhead(e)' => \A k \in Chats(e)' : \A j \in ToSet(inbox'[e][1].rows) : Row(e, k)' > j
    BY <1>3, <2>2, <2>3, <2>4, <2>5, <2>6 DEF Placed
  <2>10. \A k \in Answers(e)' : inbox'[e][k] = inbox[e][k] /\ k \in Answers(e)
    BY <2>2 DEF Answers
  <2>11. QED
    BY <1>1, <1>5, <2>7, <2>8, <2>9, <2>10 DEF Placed
<1>6. CASE ~(e # d /\ conn[e] = "on")
  <2>1. inbox'[e] = inbox[e]
    BY <1>6 DEF Broadcasted
  <2>2. /\ Chats(e)' = Chats(e) /\ Answers(e)' = Answers(e) /\ JoinAhead(e)' = JoinAhead(e)
        /\ \A k \in Chats(e) : Row(e, k)' = Row(e, k)
    BY <1>2, <2>1, RowStays DEF Chats, Answers, JoinAhead, Row, Uuid
  <2>3. QED
    BY <1>1, <2>1, <2>2 DEF Placed
<1>7. QED
  BY <1>5, <1>6

(* Reading: what is next moves up. *)
LEMMA NextUp ==
    ASSUME TidyInv, NEW d \in Devices, inbox[d] # <<>>, InboxTail(d), UNCHANGED <<sent, log>>, Placed(d)
    PROVE  /\ \A k \in Chats(d)' : k \in Nat /\ k + 1 \in Chats(d) /\ k + 1 > 1 /\ Row(d, k)' = Row(d, k + 1)
           /\ \A k \in Answers(d)' : /\ k \in Nat /\ k + 1 \in Answers(d)
                                     /\ inbox'[d][k] = inbox[d][k + 1] /\ ~inbox'[d][k].join
           /\ ~JoinAhead(d)'
           /\ inbox'[d] # <<>> => conn[d] = "on"
           /\ inbox'[d] = Tail(inbox[d])
<1>1. inbox'[d] = Tail(inbox[d])
  BY DEF InboxTail, TidyInv, Maps, PerDevice
<1>2. \A k \in DOMAIN inbox'[d] : k \in Nat \ {0}
  BY <1>1, FromInbox
<1>3. \A k \in Chats(d)' : k \in Nat /\ k + 1 \in Chats(d) /\ k + 1 > 1 /\ Row(d, k)' = Row(d, k + 1)
  <2>1. \A k \in Chats(d)' : k \in Nat \ {0} /\ k + 1 \in Chats(d) /\ inbox'[d][k] = inbox[d][k + 1]
    BY <1>2, TailTidy DEF Chats
  <2>2. QED
    BY <2>1 DEF Row, Uuid, RowOf
<1>4. \A k \in Answers(d)' : /\ k \in Nat /\ k + 1 \in Answers(d)
                             /\ inbox'[d][k] = inbox[d][k + 1] /\ ~inbox'[d][k].join
  <2>1. \A k \in Answers(d)' : k \in Nat \ {0} /\ k + 1 \in Answers(d) /\ inbox'[d][k] = inbox[d][k + 1]
    BY <1>2, TailTidy DEF Answers
  <2>2. \A k \in Nat \ {0} : k + 1 # 1
    OBVIOUS
  <2>3. QED
    BY <2>1, <2>2 DEF Placed
<1>5. ~JoinAhead(d)'
  <2>1. SUFFICES ASSUME JoinAhead(d)' PROVE FALSE
    OBVIOUS
  <2>2. 1 \in DOMAIN inbox'[d]
    <3>1. inbox'[d] \in Seq(Broadcast \cup Answer) /\ inbox'[d] # <<>>
      BY <1>1, <2>1, FromInbox DEF JoinAhead
    <3>2. QED
      BY <3>1
  <2>3. 1 \in Answers(d)' /\ inbox'[d][1].join
    BY <2>1, <2>2 DEF JoinAhead, Answers
  <2>4. QED
    BY <1>4, <2>3
<1>6. QED
  BY <1>1, <1>3, <1>4, <1>5 DEF Placed

(* A broadcast is read. *)
LEMMA ChatReadPlaced ==
    ASSUME TidyInv, NEW d \in Devices, Placed(d), ReceiveChat(d)
    PROVE  /\ Placed(d)'
           /\ 1 \in Chats(d) /\ readTo'[d] = Row(d, 1) /\ readTo[d] < Row(d, 1)
           /\ opening'[d] = With(opening[d], Uuid(d, 1), "decrypt")
<1> DEFINE u == Head(inbox[d]).uuid
<1>1. /\ UNCHANGED <<sent, log, conn, pages, cursor>>
      /\ inbox[d] # <<>> /\ InboxTail(d) /\ Head(inbox[d]).type = "chat"
      /\ opening'[d] = With(opening[d], u, "decrypt")
      /\ readTo'[d] = Max({readTo[d], RowOf(u)})
  BY DEF ReceiveChat, InboxTail, server, view, TidyInv, Maps, PerDevice
<1>2. 1 \in Chats(d) /\ u = Uuid(d, 1)
  BY <1>1, FromInbox DEF Chats, Uuid
<1>3. Row(d, 1) = RowOf(u) /\ Row(d, 1) > readTo[d]
  BY <1>2 DEF Row, Placed
<1>4. readTo[d] \in Nat /\ Row(d, 1) \in Nat
  <2>1. u \in ToSet(log)
    BY <1>2 DEF TidyInv, DeviceOK, Tidy, Uuid
  <2>2. RowOf(u) \in 1 .. Len(log) /\ Len(log) \in Nat
    BY <2>1, RowOfIs, Tables DEF TidyInv
  <2>3. readTo[d] \in 0 .. Len(log)
    BY DEF TidyInv, DeviceOK, DeviceTypes
  <2>4. QED
    BY <1>3, <2>2, <2>3
<1>5. readTo'[d] = Row(d, 1)
  BY <1>1, <1>3, <1>4, MaxOfTwo
<1> HIDE DEF u
<1>6. \A k \in Chats(d) : Row(d, k) \in Nat
  <2>1. \A k \in Chats(d) : Uuid(d, k) \in ToSet(log)
    BY DEF TidyInv, DeviceOK, Tidy, Uuid
  <2>2. QED
    BY <2>1, RowOfIs DEF TidyInv, Row
<1>7. \A k \in Chats(d)' : Row(d, k)' > readTo'[d]
  <2>1. \A k \in Chats(d)' : Row(d, k)' = Row(d, k + 1) /\ k + 1 \in Chats(d) /\ k + 1 > 1
    BY <1>1, NextUp
  <2>2. \A l \in Chats(d) : l > 1 => Row(d, l) > Row(d, 1)
    BY <1>2, <1>6 DEF Placed
  <2>3. QED
    BY <1>5, <2>1, <2>2
<1>8. \A k, l \in Chats(d)' : k < l => Row(d, k)' < Row(d, l)'
  <2>1. SUFFICES ASSUME NEW k \in Chats(d)', NEW l \in Chats(d)', k < l PROVE Row(d, k)' < Row(d, l)'
    OBVIOUS
  <2>2. k + 1 \in Chats(d) /\ l + 1 \in Chats(d) /\ k + 1 < l + 1
    BY <1>1, <2>1, NextUp
  <2>3. QED
    BY <1>1, <2>2, NextUp DEF Placed
<1>9. \A j \in Nat : j <= readTo[d] => j <= readTo'[d]
  BY <1>3, <1>4, <1>5
<1>10. \A k \in Answers(d)' : \A j \in ToSet(inbox'[d][k].rows) : j <= readTo'[d]
  <2>1. SUFFICES ASSUME NEW k \in Answers(d)', NEW j \in ToSet(inbox'[d][k].rows) PROVE j <= readTo'[d]
    OBVIOUS
  <2>2. k + 1 \in Answers(d) /\ inbox'[d][k] = inbox[d][k + 1] /\ ~inbox[d][k + 1].join
    BY <1>1, <2>1, NextUp
  <2>3. j <= readTo[d] /\ j \in Nat
    <3>1. inbox[d][k + 1] \in Answer
      BY <1>1, <2>2, FromInbox DEF Answers, Broadcast
    <3>2. ToSet(inbox[d][k + 1].rows) \subseteq Nat
      BY <3>1 DEF Answer, ToSet
    <3>3. QED
      BY <2>1, <2>2, <3>2 DEF Placed
  <2>4. QED
    BY <1>9, <2>3
<1>11. /\ \A page \in pages'[d] : \A j \in ToSet(page.rows) : j <= readTo'[d]
       /\ cursor'[d] <= readTo'[d]
  <2>1. \A page \in pages[d] : ToSet(page.rows) \subseteq Nat
    <3>1. \A page \in pages[d] : page.rows \in Seq(1 .. Len(log))
      BY DEF TidyInv, DeviceOK, DeviceTypes, Answer
    <3>2. QED
      BY <3>1 DEF ToSet
  <2>2. cursor[d] \in Nat
    BY DEF TidyInv, DeviceOK, DeviceTypes
  <2>3. QED
    BY <1>1, <1>9, <2>1, <2>2 DEF Placed
<1>12. Placed(d)'
  BY <1>1, <1>7, <1>8, <1>10, <1>11, NextUp DEF Placed
<1>13. QED
  BY <1>1, <1>2, <1>3, <1>4, <1>5, <1>12

(* A page is read. *)
LEMMA PageReadPlaced ==
    ASSUME TidyInv, NEW d \in Devices, Placed(d), ReceiveHistory(d)
    PROVE  /\ Placed(d)'
           /\ 1 \in Answers(d) /\ inbox[d][1] \in Answer /\ Descending(inbox[d][1].rows)
           /\ readTo[d] \in Nat /\ readTo'[d] \in Nat /\ readTo[d] <= readTo'[d]
           /\ ~inbox[d][1].join \/ inbox[d][1].rows = <<>> => readTo'[d] = readTo[d]
           /\ \A k \in Chats(d)' : Row(d, k)' > readTo'[d]
<1>1. PICK page : page = inbox[d][1]
  OBVIOUS
<1>2. /\ UNCHANGED <<sent, log, conn, cursor>>
      /\ inbox[d] # <<>> /\ InboxTail(d) /\ page.type = "history"
      /\ pages'[d] \subseteq pages[d] \cup {page}
      /\ readTo'[d] = Max({readTo[d], NewestOf(page.rows)})
  <2>1. inbox[d] # <<>> /\ Head(inbox[d]) = page
    BY <1>1, FromInbox DEF ReceiveHistory
  <2>2. QED
    BY <2>1 DEF ReceiveHistory, InboxTail, server, TidyInv, Maps, PerDevice
<1>3. 1 \in Answers(d) /\ page \in Answer /\ Descending(page.rows)
  <2>1. 1 \in Answers(d) /\ page \in Broadcast \cup Answer
    BY <1>1, <1>2, FromInbox DEF Answers
  <2>2. QED
    BY <1>1, <1>2, <2>1 DEF TidyInv, DeviceOK, Tidy, Broadcast
<1>4. /\ page.rows \in Seq(1 .. Len(log)) /\ Len(log) \in Nat /\ readTo[d] \in Nat
      /\ cursor[d] \in Nat
  BY <1>3, Tables DEF Answer, TidyInv, DeviceOK, DeviceTypes
<1>5. /\ page.rows # <<>> => /\ NewestOf(page.rows) = page.rows[1]
                             /\ NewestOf(page.rows) \in ToSet(page.rows)
                             /\ NewestOf(page.rows) \in Nat
      /\ page.rows = <<>> => NewestOf(page.rows) = 0
      /\ \A j \in ToSet(page.rows) : j <= NewestOf(page.rows) /\ j \in Nat
  <2> DEFINE rows == page.rows
  <2>1. /\ rows \in Seq(1 .. Len(log)) /\ DOMAIN rows = 1 .. Len(rows) /\ Len(rows) \in Nat
        /\ \A i \in 1 .. Len(rows) : rows[i] \in Nat
        /\ rows # <<>> => Head(rows) = rows[1] /\ 1 \in DOMAIN rows
    BY <1>4
  <2> HIDE DEF rows
  <2>2. rows = <<>> => ToSet(rows) = {}
    BY <2>1 DEF ToSet
  <2>3. \A i \in 1 .. Len(rows) : rows[i] <= rows[1]
    BY <1>3, <2>1 DEF Descending, rows
  <2>4. QED
    BY <2>1, <2>2, <2>3 DEF NewestOf, ToSet, rows
<1>6. NewestOf(page.rows) \in Nat
  BY <1>5
<1>7. /\ readTo'[d] \in Nat /\ readTo[d] <= readTo'[d] /\ NewestOf(page.rows) <= readTo'[d]
      /\ readTo'[d] \in {readTo[d], NewestOf(page.rows)}
  BY <1>2, <1>4, <1>6, MaxOfTwo
<1>8. ~page.join \/ page.rows = <<>> => readTo'[d] = readTo[d]
  <2>1. CASE page.rows = <<>>
    BY <1>4, <1>5, <1>7, <2>1
  <2>2. CASE page.rows # <<>> /\ ~page.join
    <3>1. NewestOf(page.rows) <= readTo[d]
      BY <1>1, <1>3, <1>5, <2>2 DEF Placed
    <3>2. QED
      BY <1>2, <1>4, <1>6, <3>1, <1>7
  <2>3. QED
    BY <2>1, <2>2
<1>9. \A k \in Chats(d)' : Row(d, k)' > readTo'[d]
  <2>1. SUFFICES ASSUME NEW k \in Chats(d)' PROVE Row(d, k)' > readTo'[d]
    OBVIOUS
  <2>2. k + 1 \in Chats(d) /\ Row(d, k)' = Row(d, k + 1)
    BY <1>2, NextUp
  <2>3. Row(d, k + 1) > readTo[d]
    BY <2>2 DEF Placed
  <2>4. CASE readTo'[d] = readTo[d]
    BY <2>2, <2>3, <2>4
  <2>5. CASE page.join /\ page.rows # <<>>
    <3>1. JoinAhead(d)
      BY <1>1, <1>2, <2>5 DEF JoinAhead
    <3>2. Row(d, k + 1) > NewestOf(page.rows)
      BY <1>1, <1>5, <2>2, <2>5, <3>1 DEF Placed
    <3>3. QED
      BY <1>7, <2>2, <2>3, <3>2
  <2>6. QED
    BY <1>8, <2>4, <2>5
<1>10. \A k, l \in Chats(d)' : k < l => Row(d, k)' < Row(d, l)'
  <2>1. SUFFICES ASSUME NEW k \in Chats(d)', NEW l \in Chats(d)', k < l PROVE Row(d, k)' < Row(d, l)'
    OBVIOUS
  <2>2. k + 1 \in Chats(d) /\ l + 1 \in Chats(d) /\ k + 1 < l + 1
    BY <1>2, <2>1, NextUp
  <2>3. QED
    BY <1>2, <2>2, NextUp DEF Placed
<1>11. \A k \in Answers(d)' : \A j \in ToSet(inbox'[d][k].rows) : j <= readTo'[d]
  <2>1. SUFFICES ASSUME NEW k \in Answers(d)', NEW j \in ToSet(inbox'[d][k].rows) PROVE j <= readTo'[d]
    OBVIOUS
  <2>2. k + 1 \in Answers(d) /\ inbox'[d][k] = inbox[d][k + 1] /\ ~inbox[d][k + 1].join
    BY <1>2, <2>1, NextUp
  <2>3. j <= readTo[d] /\ j \in Nat
    <3>1. inbox[d][k + 1] \in Answer
      BY <1>2, <2>2, FromInbox DEF Answers, Broadcast
    <3>2. ToSet(inbox[d][k + 1].rows) \subseteq Nat
      BY <3>1 DEF Answer, ToSet
    <3>3. QED
      BY <2>1, <2>2, <3>2 DEF Placed
  <2>4. QED
    BY <1>4, <1>7, <2>3
<1>12. /\ \A p \in pages'[d] : \A j \in ToSet(p.rows) : j <= readTo'[d]
       /\ cursor'[d] <= readTo'[d]
  <2>1. \A p \in pages[d] : ToSet(p.rows) \subseteq Nat
    <3>1. \A p \in pages[d] : p.rows \in Seq(1 .. Len(log))
      BY DEF TidyInv, DeviceOK, DeviceTypes, Answer
    <3>2. QED
      BY <3>1 DEF ToSet
  <2>2. \A j \in Nat : j <= readTo[d] => j <= readTo'[d]
    BY <1>4, <1>7
  <2>3. \A j \in ToSet(page.rows) : j <= readTo'[d]
    BY <1>5, <1>6, <1>7
  <2>4. QED
    BY <1>2, <1>4, <2>1, <2>2, <2>3 DEF Placed
<1>13. Placed(d)'
  BY <1>2, <1>9, <1>10, <1>11, <1>12, NextUp DEF Placed
<1>14. QED
  BY <1>1, <1>3, <1>4, <1>7, <1>8, <1>9, <1>13

(* A page of the rows before one of them: it leaves out none, and tells whether there are more. *)
LEMMA PageReaches ==
    ASSUME Len(log) \in Nat, expired \in Nat, NEW before \in Nat, before <= Len(log) + 1,
           NEW rows, rows = GetHistory(before)
    PROVE  /\ rows = <<>> => ~HasOlder(before) /\ RowsBefore(before) = {}
           /\ rows # <<>> => /\ \A i \in Last(rows) .. before - 1 : i \in ToSet(rows)
                             /\ HasOlder(before) \/ RowsBefore(Last(rows)) = {}
           /\ \A j \in ToSet(rows) : j < before /\ j \in Nat
<1>1. PageRows(rows, before)
  BY GetHistoryIs
<1>2. /\ \A i \in RowsBefore(before) : i \in 1 .. Len(log) /\ expired < i /\ i < before
      /\ \A i \in 1 .. Len(log) : expired < i /\ i < before => i \in RowsBefore(before)
  BY DEF RowsBefore
<1>3. rows \in Seq(RowsBefore(before))
  BY <1>1 DEF PageRows
<1>4. ToSet(rows) \subseteq RowsBefore(before)
  BY <1>3 DEF ToSet
<1>5. CASE rows = <<>>
  <2>1. RowsBefore(before) = {}
    BY <1>1, <1>5 DEF PageRows
  <2>2. Cardinality(RowsBefore(before)) = 0
    BY <2>1, FS_EmptySet
  <2>3. ~HasOlder(before)
    BY <2>2, ChatNumbers DEF HasOlder
  <2>4. QED
    BY <1>2, <1>4, <1>5, <2>1, <2>3
<1>6. CASE rows # <<>>
  <2>1. /\ Len(rows) \in Nat \ {0} /\ Last(rows) = rows[Len(rows)] /\ DOMAIN rows = 1 .. Len(rows)
        /\ \A i \in 1 .. Len(rows) : rows[i] \in RowsBefore(before)
    BY <1>3, <1>6 DEF Last
  <2>2. Last(rows) \in RowsBefore(before)
    BY <2>1
  <2>3. ASSUME NEW i \in Last(rows) .. before - 1 PROVE i \in ToSet(rows)
    <3>1. i \in RowsBefore(before) /\ i >= Last(rows)
      BY <1>2, <2>2, <2>3
    <3>2. QED
      BY <1>1, <1>6, <2>1, <3>1 DEF PageRows
  <2>4. ASSUME ~HasOlder(before) PROVE RowsBefore(Last(rows)) = {}
    <3>1. SUFFICES ASSUME NEW i \in RowsBefore(Last(rows)) PROVE FALSE
      OBVIOUS
    <3>2. i \in 1 .. Len(log) /\ expired < i /\ i < Last(rows)
      BY <3>1 DEF RowsBefore
    <3>8. Last(rows) \in Nat /\ Last(rows) < before
      BY <1>2, <2>2
    <3>3. i \in ToSet(rows)
      <4>1. i < before
        BY <3>2, <3>8
      <4>2. i \in RowsBefore(before)
        BY <1>2, <3>2, <4>1
      <4>3. QED
        BY <1>1, <2>4, <4>2 DEF PageRows
    <3>4. PICK k \in 1 .. Len(rows) : rows[k] = i
      BY <2>1, <3>3 DEF ToSet
    <3>5. \A a, b \in 1 .. Len(rows) : a < b => rows[a] > rows[b]
      BY <1>1 DEF PageRows
    <3>6. k = Len(rows) \/ rows[k] > rows[Len(rows)]
      <4>1. k \in Nat /\ k <= Len(rows) /\ Len(rows) \in 1 .. Len(rows) /\ Len(rows) \in Nat
        BY <2>1
      <4>2. k = Len(rows) \/ k < Len(rows)
        BY <4>1
      <4>3. k < Len(rows) => rows[k] > rows[Len(rows)]
        BY <3>5, <4>1
      <4>4. QED
        BY <4>2, <4>3
    <3>7. QED
      <4>1. rows[Len(rows)] = Last(rows)
        BY <2>1
      <4>2. i = Last(rows) \/ i > Last(rows)
        BY <3>4, <3>6, <4>1
      <4>3. QED
        BY <3>2, <3>8, <4>2
  <2>5. QED
    BY <1>2, <1>4, <1>6, <2>3, <2>4
<1>7. QED
  BY <1>5, <1>6

\* The page of a request.
Requested(d) == Page(cursor[d], FALSE)

(* Scrolling up asks for rows that were read of. *)
LEMMA RequestPlaced ==
    ASSUME TidyInv, NEW d \in Devices, Placed(d), RequestHistory(d)
    PROVE  /\ Placed(d)'
           /\ UNCHANGED <<sent, log, expired, opening, pages, shown, cursor, hasMore, gap, readTo, rejected, conn>>
           /\ Chats(d)' = Chats(d) /\ \A k \in Chats(d) : Uuid(d, k)' = Uuid(d, k)
           /\ JoinAhead(d)' <=> JoinAhead(d)
           /\ \A k \in Answers(d)' : \/ k \in Answers(d) /\ inbox'[d][k] = inbox[d][k]
                                     \/ inbox'[d][k] = Requested(d)
<1>1. PICK page : page = Requested(d)
  OBVIOUS
<1>2. /\ UNCHANGED <<sent, log, expired, opening, pages, shown, cursor, hasMore, gap, readTo, rejected, conn>>
      /\ inbox'[d] = IF conn[d] = "on" THEN Append(inbox[d], page) ELSE inbox[d]
  BY <1>1 DEF RequestHistory, server, ghosts, TidyInv, Maps, PerDevice, Requested
<1>3. page.type = "history" /\ page.join = FALSE /\ page.rows = GetHistory(cursor[d])
  BY <1>1 DEF Requested, Page, HistoryMsg
<1>4. /\ IsSequence(inbox[d]) /\ cursor[d] \in 0 .. Len(log) /\ readTo[d] \in 0 .. Len(log)
      /\ Len(log) \in Nat /\ expired \in Nat
  BY Tables DEF TidyInv, DeviceOK, DeviceTypes, IsSequence
<1>5. \A j \in ToSet(page.rows) : j <= readTo[d]
  <2>1. cursor[d] <= readTo[d]
    BY DEF Placed
  <2>2. \A j \in ToSet(page.rows) : j < cursor[d] /\ j \in Nat
    BY <1>3, <1>4, PageReaches
  <2>3. QED
    BY <1>4, <2>1, <2>2
<1>6. CASE conn[d] = "on"
  <2>1. PICK n : n = Len(inbox[d])
    OBVIOUS
  <2>2. /\ n \in Nat /\ DOMAIN inbox[d] = 1 .. n /\ DOMAIN inbox'[d] = 1 .. n + 1
        /\ inbox'[d][n + 1] = page /\ \A k \in 1 .. n : inbox'[d][k] = inbox[d][k]
    BY <1>2, <1>4, <1>6, <2>1, AppendedIs
  <2>4. /\ Chats(d)' = Chats(d) /\ \A k \in Chats(d) : Uuid(d, k)' = Uuid(d, k)
        /\ Answers(d)' = Answers(d) \cup {n + 1}
        /\ \A k \in Answers(d) : inbox'[d][k] = inbox[d][k]
    BY <1>3, <2>2 DEF Chats, Answers, Uuid
  <2>5. inbox'[d] # <<>> /\ (n = 0 => inbox[d] = <<>>)
    <3>1. inbox'[d] # <<>>
      BY <2>2
    <3>2. n = 0 => inbox[d] = <<>>
      <4>1. PICK S : inbox[d] \in Seq(S)
        BY <1>4 DEF IsSequence
      <4>2. QED
        BY <2>1, <4>1, EmptySeq
    <3>3. QED
      BY <3>1, <3>2
  <2>6. (JoinAhead(d)' <=> JoinAhead(d)) /\ (JoinAhead(d) => inbox'[d][1] = inbox[d][1])
    <3>1. CASE n = 0
      <4>1. inbox'[d][1] = page /\ inbox[d] = <<>>
        BY <2>2, <2>5, <3>1
      <4>2. ~JoinAhead(d)' /\ ~JoinAhead(d)
        BY <1>3, <4>1 DEF JoinAhead
      <4>3. QED
        BY <4>2
    <3>2. CASE n # 0
      <4>1. inbox'[d][1] = inbox[d][1]
        BY <2>2, <3>2
      <4>2. inbox[d] # <<>>
        BY <2>2, <3>2
      <4>3. QED
        BY <2>5, <4>1, <4>2 DEF JoinAhead
    <3>3. QED
      BY <3>1, <3>2
  <2>7. \A k \in Chats(d) : Row(d, k)' = Row(d, k)
    BY <1>2, <2>4 DEF Row, RowOf
  <2>8. Placed(d)'
    <3>1. \A k \in Answers(d)' : inbox'[d][k].join => k = 1
      BY <1>3, <2>2, <2>4 DEF Placed
    <3>2. \A k \in Answers(d)' : ~inbox'[d][k].join => \A j \in ToSet(inbox'[d][k].rows) : j <= readTo'[d]
      BY <1>2, <1>5, <2>2, <2>4 DEF Placed
    <3>3. JoinAhead(d)' => \A k \in Chats(d)' : \A j \in ToSet(inbox'[d][1].rows) : Row(d, k)' > j
      BY <2>4, <2>6, <2>7 DEF Placed
    <3>4. /\ \A k \in Chats(d)' : Row(d, k)' > readTo'[d]
          /\ \A k, l \in Chats(d)' : k < l => Row(d, k)' < Row(d, l)'
      BY <1>2, <2>4, <2>7 DEF Placed
    <3>5. QED
      BY <1>2, <1>6, <3>1, <3>2, <3>3, <3>4 DEF Placed
  <2>9. QED
    BY <1>1, <1>2, <2>2, <2>4, <2>6, <2>8
<1>7. CASE conn[d] # "on"
  <2>1. inbox'[d] = inbox[d]
    BY <1>2, <1>7
  <2>2. QED
    BY <1>2, <2>1, QuietPlaced DEF Chats, Answers, Uuid, JoinAhead
<1>8. QED
  BY <1>6, <1>7

(* A page is shown. *)
LEMMA PageShownPlaced ==
    ASSUME TidyInv, NEW d \in Devices, Placed(d), NEW page \in pages[d], HistoryLoaded(d, page)
    PROVE  /\ Placed(d)'
           /\ UNCHANGED <<sent, log, expired, conn, inbox, opening, gap, readTo, rejected>>
           /\ pages'[d] = pages[d] \ {page} /\ hasMore'[d] = page.more
           /\ Last(page.rows) \in 1 .. Len(log) /\ Len(log) \in Nat
           /\ cursor[d] \in 0 .. Len(log) /\ cursor'[d] \in 1 .. Len(log)
           /\ cursor'[d] \in {cursor[d], Last(page.rows)}
           /\ cursor'[d] <= Last(page.rows) /\ (cursor[d] # 0 => cursor'[d] <= cursor[d])
<1>1. /\ UNCHANGED <<sent, log, expired, conn, inbox, opening, gap, readTo, rejected>>
      /\ pages'[d] = pages[d] \ {page} /\ hasMore'[d] = page.more
      /\ cursor'[d] = ResolveHistoryCursor(cursor[d], Last(page.rows))
  BY DEF HistoryLoaded, server, net, ghosts, TidyInv, Maps, PerDevice
<1>2. /\ page.rows \in Seq(1 .. Len(log)) /\ page.rows # <<>> /\ Len(log) \in Nat
      /\ cursor[d] \in 0 .. Len(log)
  BY Tables DEF TidyInv, DeviceOK, DeviceTypes, Tidy, Answer
<1>3. Last(page.rows) \in 1 .. Len(log) /\ Last(page.rows) \in ToSet(page.rows)
  <2>1. PICK rows : rows = page.rows
    OBVIOUS
  <2>2. Len(rows) \in DOMAIN rows /\ rows[Len(rows)] \in 1 .. Len(log)
    BY <1>2, <2>1
  <2>3. QED
    BY <2>1, <2>2 DEF Last, ToSet
<1>4. /\ cursor'[d] \in 1 .. Len(log)
      /\ cursor'[d] \in {cursor[d], Last(page.rows)}
      /\ cursor'[d] <= Last(page.rows) /\ (cursor[d] # 0 => cursor'[d] <= cursor[d])
  BY <1>1, <1>2, <1>3 DEF ResolveHistoryCursor
<1>5. cursor'[d] <= readTo[d]
  BY <1>3, <1>4 DEF Placed
<1>6. Placed(d)'
  <2>1. /\ Chats(d)' = Chats(d) /\ Answers(d)' = Answers(d) /\ JoinAhead(d)' = JoinAhead(d)
        /\ \A k \in Chats(d) : Row(d, k)' = Row(d, k)
    BY <1>1 DEF Chats, Answers, JoinAhead, Row, Uuid, RowOf
  <2>2. QED
    BY <1>1, <1>5, <2>1 DEF Placed
<1>7. QED
  BY <1>1, <1>2, <1>3, <1>4, <1>6

\* The page that answers a join.
Joining == Page(Len(log) + 1, TRUE)

(* The answer to a join comes first. *)
LEMMA ConnectPlaced ==
    ASSUME TidyInv, NEW d \in Devices, Placed(d), Connect(d)
    PROVE  /\ Placed(d)'
           /\ UNCHANGED <<sent, log, expired, opening, pages, shown, cursor, hasMore, gap, readTo, rejected>>
           /\ conn[d] = "off" /\ inbox[d] = <<>> /\ inbox'[d] = <<Joining>>
           /\ JoinAhead(d)' /\ Answers(d)' = {1} /\ Chats(d)' = {}
<1>1. PICK page : page = Joining
  OBVIOUS
<1>2. /\ UNCHANGED <<sent, log, expired, opening, pages, shown, cursor, hasMore, gap, readTo, rejected>>
      /\ conn[d] = "off" /\ conn'[d] = "on" /\ inbox'[d] = <<page>>
  BY <1>1 DEF Connect, server, ghosts, TidyInv, Maps, PerDevice, Joining
<1>3. page.type = "history" /\ page.join = TRUE
  BY <1>1 DEF Joining, Page, HistoryMsg
<1>4. Answers(d)' = {1} /\ Chats(d)' = {} /\ inbox'[d] # <<>> /\ inbox'[d][1] = page
  BY <1>2, <1>3 DEF Answers, Chats
<1>5. inbox[d] = <<>>
  BY <1>2 DEF Placed
<1>6. Placed(d)'
  BY <1>2, <1>3, <1>4 DEF Placed
<1>7. JoinAhead(d)'
  BY <1>3, <1>4 DEF JoinAhead
<1>8. QED
  BY <1>1, <1>2, <1>4, <1>5, <1>6, <1>7

(* What was not read is lost. *)
LEMMA DisconnectPlaced ==
    ASSUME TidyInv, NEW d \in Devices, Placed(d), Disconnect(d)
    PROVE  /\ Placed(d)'
           /\ UNCHANGED <<sent, log, expired, opening, pages, shown, cursor, hasMore, gap, readTo, rejected>>
           /\ conn'[d] = "off" /\ Answers(d)' = {} /\ Chats(d)' = {}
<1>1. /\ UNCHANGED <<sent, log, expired, opening, pages, shown, cursor, hasMore, gap, readTo, rejected>>
      /\ conn'[d] = "off" /\ inbox'[d] = <<>>
  BY DEF Disconnect, server, ghosts, view, TidyInv, Maps, PerDevice
<1>2. Answers(d)' = {} /\ Chats(d)' = {} /\ ~JoinAhead(d)'
  BY <1>1 DEF Answers, Chats, JoinAhead
<1>3. Placed(d)'
  BY <1>1, <1>2 DEF Placed
<1>4. QED
  BY <1>1, <1>2, <1>3

(* The room is entered again, or history cleared. *)
LEMMA ResetPlaced ==
    ASSUME TidyInv, NEW d \in Devices, Placed(d), Reload(d) \/ ClearHistory(d)
    PROVE  /\ Placed(d)'
           /\ cursor'[d] = 0
           /\ ~gap'[d] => pages'[d] = {} /\ Answers(d)' = {}
<1>1. CASE Reload(d)
  <2>1. inbox'[d] = <<>> /\ pages'[d] = {} /\ cursor'[d] = 0 /\ readTo'[d] = 0
    BY <1>1 DEF Reload, TidyInv, Maps, PerDevice
  <2>2. Answers(d)' = {} /\ Chats(d)' = {} /\ ~JoinAhead(d)'
    BY <2>1 DEF Answers, Chats, JoinAhead
  <2>3. QED
    BY <2>1, <2>2 DEF Placed
<1>2. CASE ClearHistory(d)
  <2>1. /\ UNCHANGED <<log, conn, inbox, pages, readTo>> /\ cursor'[d] = 0
        /\ gap'[d] \/ (inbox[d] = <<>> /\ pages[d] = {})
    BY <1>2 DEF ClearHistory, server, net, TidyInv, Maps, PerDevice
  <2>2. /\ Chats(d)' = Chats(d) /\ Answers(d)' = Answers(d) /\ JoinAhead(d)' = JoinAhead(d)
        /\ \A k \in Chats(d) : Row(d, k)' = Row(d, k)
    BY <2>1 DEF Chats, Answers, JoinAhead, Row, Uuid, RowOf
  <2>3. readTo[d] \in Nat
    BY DEF TidyInv, DeviceOK, DeviceTypes
  <2>4. Placed(d)'
    BY <2>1, <2>2, <2>3 DEF Placed
  <2>5. inbox[d] = <<>> => Answers(d) = {}
    <3>1. inbox[d] = <<>> => DOMAIN inbox[d] = {}
      OBVIOUS
    <3>2. QED
      BY <3>1 DEF Answers
  <2>6. ~gap'[d] => pages'[d] = {} /\ Answers(d)' = {}
    BY <2>1, <2>2, <2>5
  <2>7. QED
    BY <2>1, <2>4, <2>6
<1>3. QED
  BY <1>1, <1>2

\* The other steps: what is on its way, and how far was read, they leave alone.
Aside(d) ==
    \/ SendMessage(d)
    \/ \E u \in DOMAIN sending[d] : PutBlob(d, u) \/ WriteFails(d, u) \/ PutOwnSeq(d, u)
    \/ \E u \in DOMAIN opening[d] : CheckAndStore(d, u) \/ Show(d, u)
    \/ LoadSeq(d) \/ ReadCache(d) \/ ShowCache(d)

(* Steps that concern neither the channel nor the cursor. *)
LEMMA AsideIs ==
    ASSUME NEW d, Aside(d)
    PROVE  UNCHANGED <<conn, inbox, pages, cursor, hasMore, readTo, gap, log, expired>>
<1>1. CASE SendMessage(d) \/ LoadSeq(d) \/ ReadCache(d) \/ ShowCache(d)
  BY <1>1 DEF SendMessage, LoadSeq, ReadCache, ShowCache, net, ghosts, server, view
<1>2. ASSUME NEW u, PutBlob(d, u) \/ WriteFails(d, u) \/ PutOwnSeq(d, u)
      PROVE  UNCHANGED <<conn, inbox, pages, cursor, hasMore, readTo, gap, log, expired>>
  BY <1>2 DEF PutBlob, WriteFails, PutOwnSeq, net, ghosts, server, view
<1>3. ASSUME NEW u, CheckAndStore(d, u) \/ Show(d, u)
      PROVE  UNCHANGED <<conn, inbox, pages, cursor, hasMore, readTo, gap, log, expired>>
  BY <1>3 DEF CheckAndStore, Show, net, ghosts, server, view
<1>4. QED
  BY <1>1, <1>2, <1>3 DEF Aside

(* At the start. *)
LEMMA PlacedInit == Init => PlacedInv
<1> SUFFICES ASSUME Init, NEW d \in Devices PROVE Placed(d)
  BY DEF PlacedInv
<1>1. inbox[d] = <<>> /\ pages[d] = {} /\ cursor[d] = 0 /\ readTo[d] = 0
  BY DEF Init
<1>2. Answers(d) = {} /\ Chats(d) = {} /\ ~JoinAhead(d)
  BY <1>1 DEF Answers, Chats, JoinAhead
<1>3. QED
  BY <1>1, <1>2 DEF Placed

(* Every step. *)
LEMMA PlacedStep == TidyInv /\ PlacedInv /\ [Next]_vars => PlacedInv'
<1> SUFFICES ASSUME TidyInv, PlacedInv, [Next]_vars, NEW e \in Devices PROVE Placed(e)'
  BY DEF PlacedInv
<1>1. Maps /\ Placed(e)
  BY DEF TidyInv, PlacedInv
<1>2. CASE Expire \/ UNCHANGED vars
  <2>1. UNCHANGED <<conn, inbox, pages, cursor, readTo, log>>
    BY <1>2 DEF Expire, vars, server, net, view, ghosts
  <2>2. QED
    BY <1>1, <2>1, QuietPlaced
<1>3. ASSUME NEW d \in Devices, Step(d) PROVE Placed(e)'
  <2>1. CASE Aside(d)
    BY <1>1, <2>1, AsideIs, QuietPlaced
  <2>2. ASSUME NEW u \in DOMAIN sending[d], Transmit(d, u) PROVE Placed(e)'
    <3>1. CASE conn[d] = "on"
      BY <1>1, <2>2, <3>1, TransmitIs, BroadcastPlaced
    <3>2. CASE conn[d] # "on"
      <4>1. UNCHANGED <<conn, inbox, pages, cursor, readTo, log>>
        BY <2>2, <3>2 DEF Transmit, view, ghosts
      <4>2. QED
        BY <1>1, <4>1, QuietPlaced
    <3>3. QED
      BY <3>1, <3>2
  <2>3. CASE OwnStep(d) /\ e # d
    <3>1. Same(e) /\ log' = log
      BY <1>1, <2>3, ServerAlone, OwnStepLocal DEF Elsewhere
    <3>2. QED
      BY <1>1, <3>1, QuietPlaced DEF Same
  <2>4. CASE OwnStep(d) /\ e = d /\ ~Aside(d)
    BY <1>1, <2>4, ChatReadPlaced, PageReadPlaced, RequestPlaced, PageShownPlaced, ConnectPlaced,
       DisconnectPlaced, ResetPlaced DEF OwnStep, Aside
  <2>5. QED
    BY <1>3, <2>1, <2>2, <2>3, <2>4, StepIs DEF Aside
<1>4. QED
  BY <1>2, <1>3 DEF Next

(* Always. *)
LEMMA PlacedAlways == Spec => []PlacedInv
  BY TidyAlways, PlacedInit, PlacedStep, PTL DEF Spec
-----------------------------------------------------------------------------
(* The rest of the history is within reach.                                *)

\* Row i was had: shown, refused, or being decrypted, alone or on a page.
Kept(d, i) ==
    \/ log[i] \in ToSet(shown[d]) \/ log[i] \in rejected[d] \/ log[i] \in DOMAIN opening[d]
    \/ \E page \in pages[d] : i \in ToSet(page.rows)
\* Its broadcast is on its way.
Coming(d, i) == \E k \in Chats(d) : Uuid(d, k) = log[i]
\* It is of another and newer than what was read.
Unread(d, i) == i > readTo[d] /\ sent[log[i]].device # d
Owed(d, i) == Unread(d, i) /\ (conn[d] = "off" \/ JoinAhead(d) \/ Coming(d, i))
Fine(d, i) == Kept(d, i) \/ Owed(d, i)

NoneBefore(page) == page.more \/ RowsBefore(Last(page.rows)) = {}

FromCursor(d) == cursor[d] # 0 =>
    /\ \A i \in cursor[d] .. Len(log) : Fine(d, i)
    /\ hasMore[d] \/ RowsBefore(cursor[d]) = {}
FromPage(d, page) ==
    /\ NoneBefore(page)
    /\ \A i \in Last(page.rows) .. Len(log) : Fine(d, i)
\* The answer to a join ...
FromJoin(d, page) ==
    IF page.rows = <<>> THEN ~page.more /\ readTo[d] <= expired
    ELSE /\ NoneBefore(page)
         /\ \A i \in Last(page.rows) .. Len(log) :
                i \in ToSet(page.rows) \/ Kept(d, i) \/ (Unread(d, i) /\ Coming(d, i))
\* ... and to scrolling up.
FromOlder(d, page) ==
    /\ cursor[d] # 0
    /\ IF page.rows = <<>> THEN ~page.more /\ RowsBefore(cursor[d]) = {}
       ELSE /\ NoneBefore(page)
            /\ \A i \in Last(page.rows) .. Len(log) : i \in ToSet(page.rows) \/ Fine(d, i)

\* From the cursor on, and from the last row on of what is to be shown, everything was had or
\* will be; and it is known whether there is anything before.
Reach(d) == ~gap[d] =>
    /\ FromCursor(d)
    /\ \A page \in pages[d] : FromPage(d, page)
    /\ \A k \in Answers(d) :
            IF inbox[d][k].join THEN FromJoin(d, inbox[d][k]) ELSE FromOlder(d, inbox[d][k])

ReachInv == \A d \in Devices : Reach(d)

\* Nothing that was fine ceases to be.
Moves(d) ==
    /\ Len(log) \in Nat /\ Len(log') \in Nat /\ Len(log) <= Len(log')
    /\ \A b \in 0 .. Len(log) : RowsBefore(b)' \subseteq RowsBefore(b)
    /\ \A i \in 1 .. Len(log) : Fine(d, i) => Fine(d, i)'
    /\ \A i \in Len(log) + 1 .. Len(log') : Fine(d, i)'

(* The clean-up adds no rows. *)
LEMMA RowsShrink ==
    ASSUME UNCHANGED log, expired \in Nat, expired' \in Nat, expired <= expired', Len(log) \in Nat
    PROVE  \A b \in 0 .. Len(log) : RowsBefore(b)' \subseteq RowsBefore(b)
  BY DEF RowsBefore

(* Before an older row there are no more rows. *)
LEMMA RowsBelow ==
    ASSUME NEW b \in Nat, NEW c \in Nat, b <= c, Len(log) \in Nat
    PROVE  RowsBefore(b) \subseteq RowsBefore(c)
  BY DEF RowsBefore

(* The oldest row of a page. *)
LEMMA LastRow ==
    ASSUME Len(log) \in Nat, NEW page \in Answer, page.rows # <<>>
    PROVE  Last(page.rows) \in 1 .. Len(log)
<1>1. PICK rows : rows = page.rows
  OBVIOUS
<1>2. rows \in Seq(1 .. Len(log))
  BY <1>1 DEF Answer
<1>3. rows[Len(rows)] \in 1 .. Len(log)
  BY <1>1, <1>2
<1>4. QED
  BY <1>1, <1>3 DEF Last

(* What is within reach of the cursor stays so. *)
LEMMA CursorMoves ==
    ASSUME NEW d, Moves(d), FromCursor(d), cursor[d] \in 0 .. Len(log),
           cursor'[d] = cursor[d], hasMore'[d] = hasMore[d]
    PROVE  FromCursor(d)'
<1>1. PICK c : c = cursor[d]
  OBVIOUS
<1>2. CASE c = 0
  BY <1>1, <1>2 DEF FromCursor
<1>3. CASE c # 0
  <2>1. \A i \in c .. Len(log') : Fine(d, i)'
    BY <1>1, <1>3 DEF FromCursor, Moves
  <2>2. hasMore'[d] \/ RowsBefore(c)' = {}
    BY <1>1, <1>3 DEF FromCursor, Moves
  <2>3. QED
    BY <1>1, <2>1, <2>2 DEF FromCursor
<1>4. QED
  BY <1>2, <1>3

(* So does what is within reach of a page, ... *)
LEMMA PageMoves ==
    ASSUME NEW d, Moves(d), NEW page, Last(page.rows) \in 1 .. Len(log), FromPage(d, page)
    PROVE  FromPage(d, page)'
<1>1. PICK b : b = Last(page.rows)
  OBVIOUS
<1>2. NoneBefore(page)'
  BY <1>1 DEF FromPage, NoneBefore, Moves
<1>3. \A i \in b .. Len(log') : Fine(d, i)'
  BY <1>1 DEF FromPage, Moves
<1>4. QED
  BY <1>1, <1>2, <1>3 DEF FromPage

(* ... of one that was asked for, ... *)
LEMMA OlderMoves ==
    ASSUME NEW d, Moves(d), NEW page \in Answer, cursor[d] \in 0 .. Len(log),
           cursor'[d] = cursor[d], FromOlder(d, page)
    PROVE  FromOlder(d, page)'
<1>1. PICK c : c = cursor[d] /\ c # 0
  BY DEF FromOlder
<1>2. CASE page.rows = <<>>
  <2>1. RowsBefore(c)' = {}
    BY <1>1, <1>2 DEF FromOlder, Moves
  <2>2. QED
    BY <1>1, <1>2, <2>1 DEF FromOlder
<1>3. CASE page.rows # <<>>
  <2>1. PICK b : b = Last(page.rows) /\ b \in 1 .. Len(log)
    BY <1>3, LastRow DEF Moves
  <2>2. NoneBefore(page)'
    BY <1>3, <2>1 DEF FromOlder, NoneBefore, Moves
  <2>3. \A i \in b .. Len(log') : i \in ToSet(page.rows) \/ Fine(d, i)'
    BY <1>3, <2>1 DEF FromOlder, Moves
  <2>4. QED
    BY <1>1, <1>3, <2>1, <2>2, <2>3 DEF FromOlder
<1>4. QED
  BY <1>2, <1>3

\* Nor anything on its way to a device that joins.
Lasts(d) ==
    /\ \A i \in 1 .. Len(log) : /\ Kept(d, i) => Kept(d, i)'
                                /\ Unread(d, i) /\ Coming(d, i) => Unread(d, i)' /\ Coming(d, i)'
    /\ \A i \in Len(log) + 1 .. Len(log') : Kept(d, i)' \/ (Unread(d, i)' /\ Coming(d, i)')

(* ... and of the answer to a join. *)
LEMMA JoinMoves ==
    ASSUME NEW d, Moves(d), Lasts(d), NEW page \in Answer, readTo'[d] = readTo[d],
           readTo[d] \in Nat, expired \in Nat, expired' \in Nat, expired <= expired',
           FromJoin(d, page)
    PROVE  FromJoin(d, page)'
<1>2. CASE page.rows = <<>>
  BY <1>2 DEF FromJoin
<1>3. CASE page.rows # <<>>
  <2>1. PICK b : b = Last(page.rows) /\ b \in 1 .. Len(log)
    BY <1>3, LastRow DEF Moves
  <2>2. NoneBefore(page)'
    BY <1>3, <2>1 DEF FromJoin, NoneBefore, Moves
  <2>3. \A i \in b .. Len(log') :
            i \in ToSet(page.rows) \/ Kept(d, i)' \/ (Unread(d, i)' /\ Coming(d, i)')
    BY <1>3, <2>1 DEF FromJoin, Moves, Lasts
  <2>4. QED
    BY <1>3, <2>1, <2>2, <2>3 DEF FromJoin
<1>4. QED
  BY <1>2, <1>3

(* What TidyInv says of the rows a device knows of. *)
LEMMA RowTypes ==
    ASSUME TidyInv, NEW d \in Devices
    PROVE  /\ Len(log) \in Nat /\ expired \in Nat
           /\ cursor[d] \in 0 .. Len(log) /\ readTo[d] \in 0 .. Len(log)
           /\ \A page \in pages[d] : page \in Answer /\ page.rows # <<>> /\ Last(page.rows) \in 1 .. Len(log)
           /\ \A k \in Answers(d) : inbox[d][k] \in Answer
           /\ \A i \in 1 .. Len(log) : log[i] \in Uuids
<1>1. /\ Len(log) \in Nat /\ expired \in Nat
      /\ cursor[d] \in 0 .. Len(log) /\ readTo[d] \in 0 .. Len(log)
      /\ \A page \in pages[d] : page \in Answer /\ page.rows # <<>>
      /\ \A i \in 1 .. Len(log) : log[i] \in Uuids
  BY Tables DEF TidyInv, DeviceOK, DeviceTypes, Tidy
<1>2. \A page \in pages[d] : Last(page.rows) \in 1 .. Len(log)
  BY <1>1, LastRow
<1>3. \A k \in Answers(d) : inbox[d][k] \in Answer
  <2>1. DOMAIN inbox[d] = 1 .. Len(inbox[d]) /\ \A k \in 1 .. Len(inbox[d]) : inbox[d][k] \in Broadcast \cup Answer
    BY DEF TidyInv, DeviceOK, DeviceTypes
  <2>2. QED
    BY <2>1 DEF Answers, Broadcast
<1>4. QED
  BY <1>1, <1>2, <1>3

\* What the answers on their way, the cursor and the pages are, and what was read, stays.
Alike(d) ==
    /\ conn'[d] = conn[d] /\ pages'[d] = pages[d] /\ cursor'[d] = cursor[d]
    /\ hasMore'[d] = hasMore[d] /\ readTo'[d] = readTo[d] /\ gap'[d] = gap[d]
    /\ \A k \in Answers(d)' : k \in Answers(d) /\ inbox'[d][k] = inbox[d][k]
    /\ expired' \in Nat /\ expired <= expired'

(* All of it, when the channel, the cursor and the pages are as they were. *)
LEMMA AlikeReach ==
    ASSUME TidyInv, NEW d \in Devices, Placed(d), Reach(d), Alike(d), ~gap[d] => Moves(d),
           ~gap[d] /\ conn[d] # "off" => Lasts(d)
    PROVE  Reach(d)'
<1> SUFFICES ASSUME ~gap[d]
             PROVE  /\ FromCursor(d)'
                    /\ \A page \in pages'[d] : FromPage(d, page)'
                    /\ \A k \in Answers(d)' :
                            IF inbox'[d][k].join THEN FromJoin(d, inbox[d][k])' ELSE FromOlder(d, inbox[d][k])'
  BY DEF Reach, Alike
<1>1. /\ Len(log) \in Nat /\ expired \in Nat
      /\ cursor[d] \in 0 .. Len(log) /\ readTo[d] \in 0 .. Len(log)
      /\ \A page \in pages[d] : page \in Answer /\ page.rows # <<>> /\ Last(page.rows) \in 1 .. Len(log)
      /\ \A k \in Answers(d) : inbox[d][k] \in Answer
  BY RowTypes
<1>2. FromCursor(d)'
  BY <1>1, CursorMoves DEF Reach, Alike
<1>3. \A page \in pages'[d] : FromPage(d, page)'
  BY <1>1, PageMoves DEF Reach, Alike
<1>4. ASSUME NEW k \in Answers(d)'
      PROVE  IF inbox'[d][k].join THEN FromJoin(d, inbox[d][k])' ELSE FromOlder(d, inbox[d][k])'
  <2>1. PICK page : page = inbox[d][k]
    OBVIOUS
  <2>2. /\ k \in Answers(d) /\ page = inbox'[d][k] /\ page \in Answer
        /\ IF page.join THEN FromJoin(d, page) ELSE FromOlder(d, page)
    BY <1>1, <1>4, <2>1 DEF Alike, Reach
  <2>3. conn[d] # "off"
    <3>1. inbox[d] # <<>>
      BY <2>2 DEF Answers
    <3>2. QED
      BY <3>1 DEF Placed
  <2>4. CASE page.join
    <3>1. FromJoin(d, page)'
      BY <1>1, <2>2, <2>3, <2>4, JoinMoves DEF Alike
    <3>2. QED
      BY <2>2, <2>4, <3>1
  <2>5. CASE ~page.join
    <3>1. FromOlder(d, page)'
      BY <1>1, <2>2, <2>5, OlderMoves DEF Alike
    <3>2. QED
      BY <2>2, <2>5, <3>1
  <2>6. QED
    BY <2>4, <2>5
<1>5. QED
  BY <1>2, <1>3, <1>4

(* Steps that leave the channel alone, and lose nothing that was had. *)
LEMMA QuietReach ==
    ASSUME TidyInv, NEW d \in Devices, Placed(d), Reach(d), Extended, UNCHANGED log,
           conn'[d] = conn[d], inbox'[d] = inbox[d], pages'[d] = pages[d], cursor'[d] = cursor[d],
           hasMore'[d] = hasMore[d], readTo'[d] = readTo[d], gap'[d] = gap[d],
           expired' \in Nat, expired <= expired',
           ~gap[d] => \A u \in ToSet(log) :
               u \in ToSet(shown[d]) \/ u \in rejected[d] \/ u \in DOMAIN opening[d] =>
                   u \in ToSet(shown'[d]) \/ u \in rejected'[d] \/ u \in DOMAIN opening'[d]
    PROVE  Reach(d)'
<1>1. Len(log) \in Nat /\ expired \in Nat /\ \A i \in 1 .. Len(log) : log[i] \in Uuids /\ log[i] \in ToSet(log)
  BY Tables DEF TidyInv
<1>2. /\ Chats(d)' = Chats(d) /\ Answers(d)' = Answers(d) /\ (JoinAhead(d) => JoinAhead(d)')
      /\ \A k \in Chats(d) : Uuid(d, k)' = Uuid(d, k)
  BY DEF Chats, Answers, JoinAhead, Uuid
<1>3. ASSUME ~gap[d], NEW i \in 1 .. Len(log)
      PROVE  /\ Kept(d, i) => Kept(d, i)'
             /\ Unread(d, i) => Unread(d, i)'
             /\ Coming(d, i) => Coming(d, i)'
  <2>1. Kept(d, i) => Kept(d, i)'
    BY <1>1, <1>3 DEF Kept
  <2>2. Unread(d, i) => Unread(d, i)'
    BY <1>1 DEF Unread, Extended
  <2>3. Coming(d, i) => Coming(d, i)'
    BY <1>2 DEF Coming
  <2>4. QED
    BY <2>1, <2>2, <2>3
<1>4. Alike(d)
  BY <1>2 DEF Alike
<1>5. ASSUME ~gap[d] PROVE Moves(d) /\ Lasts(d)
  <2>1. \A b \in 0 .. Len(log) : RowsBefore(b)' \subseteq RowsBefore(b)
    BY <1>1, RowsShrink
  <2>2. \A i \in 1 .. Len(log) : Fine(d, i) => Fine(d, i)'
    BY <1>2, <1>3, <1>5 DEF Fine, Owed
  <2>3. \A i \in Len(log) + 1 .. Len(log') : FALSE
    BY <1>1
  <2>4. QED
    BY <1>1, <1>3, <1>5, <2>1, <2>2, <2>3 DEF Moves, Lasts
<1>6. QED
  BY <1>4, <1>5, AlikeReach

(* A broadcast reaches who is connected, and its sender shows it. *)
LEMMA BroadcastReach ==
    ASSUME TidyInv, NEW d \in Devices, NEW u, Broadcasted(d, u), NEW e \in Devices,
           Stored(e), Placed(e), Reach(e)
    PROVE  Reach(e)'
<1>1. /\ Len(log) \in Nat /\ expired \in Nat /\ Len(log') = Len(log) + 1
      /\ \A i \in 1 .. Len(log) : log'[i] = log[i] /\ log[i] \in Uuids
      /\ log'[Len(log) + 1] = u /\ sent' = sent /\ sent[u].device = d
      /\ expired' = expired
      /\ readTo[e] \in 0 .. Len(log)
  BY Tables, RowTypes DEF TidyInv, Broadcasted
<1>2. /\ conn'[e] = conn[e] /\ pages'[e] = pages[e] /\ cursor'[e] = cursor[e]
      /\ hasMore'[e] = hasMore[e] /\ readTo'[e] = readTo[e] /\ gap'[e] = gap[e]
      /\ shown'[e] = shown[e] /\ rejected'[e] = rejected[e] /\ opening'[e] = opening[e]
  BY DEF Broadcasted
<1>3. /\ \A k \in Chats(e) : k \in Chats(e)' /\ Uuid(e, k)' = Uuid(e, k)
      /\ \A k \in Answers(e)' : k \in Answers(e) /\ inbox'[e][k] = inbox[e][k]
      /\ JoinAhead(e) => JoinAhead(e)'
      /\ e # d /\ conn[e] = "on" => \E k \in Chats(e)' : Uuid(e, k)' = u
  <2>1. CASE e # d /\ conn[e] = "on"
    <3>1. PICK n : n = Len(inbox[e]) + 1
      OBVIOUS
    <3>2. /\ n \in Nat /\ Chats(e)' = Chats(e) \cup {n} /\ Answers(e)' = Answers(e)
          /\ inbox'[e][n].uuid = u
          /\ \A k \in DOMAIN inbox[e] : inbox'[e][k] = inbox[e][k]
      BY <2>1, <3>1, Told
    <3>3. Uuid(e, n)' = u
      BY <3>2 DEF Uuid
    <3>4. /\ \A k \in Chats(e) : Uuid(e, k)' = Uuid(e, k)
          /\ \A k \in Answers(e) : inbox'[e][k] = inbox[e][k]
      BY <3>2 DEF Chats, Answers, Uuid
    <3>5. JoinAhead(e) => JoinAhead(e)'
      <4>1. SUFFICES ASSUME JoinAhead(e) PROVE JoinAhead(e)'
        OBVIOUS
      <4>2. 1 \in DOMAIN inbox[e] /\ 1 \in Answers(e)
        BY <4>1, FromInbox DEF JoinAhead, Answers
      <4>3. inbox'[e][1] = inbox[e][1] /\ inbox'[e] # <<>>
        BY <3>2, <4>2 DEF Answers
      <4>4. QED
        BY <4>1, <4>3 DEF JoinAhead
    <3>6. QED
      BY <3>2, <3>3, <3>4, <3>5
  <2>2. CASE ~(e # d /\ conn[e] = "on")
    <3>1. inbox'[e] = inbox[e]
      BY <2>2 DEF Broadcasted
    <3>2. QED
      BY <2>2, <3>1 DEF Chats, Answers, JoinAhead, Uuid
  <2>3. QED
    BY <2>1, <2>2
<1>4. Alike(e)
  BY <1>1, <1>2, <1>3 DEF Alike
<1>5. ASSUME NEW i \in 1 .. Len(log)
      PROVE  /\ Kept(e, i) => Kept(e, i)'
             /\ Unread(e, i) => Unread(e, i)'
             /\ Coming(e, i) => Coming(e, i)'
  <2>1. Kept(e, i) => Kept(e, i)'
    BY <1>1, <1>2 DEF Kept
  <2>2. Unread(e, i) => Unread(e, i)'
    BY <1>1, <1>2 DEF Unread
  <2>3. Coming(e, i) => Coming(e, i)'
    BY <1>1, <1>3 DEF Coming
  <2>4. QED
    BY <2>1, <2>2, <2>3
<1>6. ASSUME ~gap[e], NEW i, i = Len(log) + 1
      PROVE  Kept(e, i)' \/ (Unread(e, i)' /\ (conn[e] = "off" \/ Coming(e, i)'))
  <2>1. CASE e = d
    <3>1. u \in ToSet(shown[e])
      BY <1>6, <2>1 DEF Stored, Broadcasted
    <3>2. QED
      BY <1>1, <1>2, <1>6, <3>1 DEF Kept
  <2>2. CASE e # d
    <3>1. Unread(e, i)'
      BY <1>1, <1>2, <1>6, <2>2 DEF Unread
    <3>2. conn[e] = "on" => Coming(e, i)'
      BY <1>1, <1>3, <1>6, <2>2 DEF Coming
    <3>3. conn[e] \in {"on", "off"}
      BY DEF TidyInv, DeviceOK, DeviceTypes
    <3>4. QED
      BY <3>1, <3>2, <3>3
  <2>3. QED
    BY <2>1, <2>2
<1>7. \A i \in Len(log) + 1 .. Len(log') : i = Len(log) + 1
  BY <1>1
<1>8. ASSUME ~gap[e] PROVE Moves(e) /\ (conn[e] # "off" => Lasts(e))
  <2>1. \A b \in 0 .. Len(log) : RowsBefore(b)' \subseteq RowsBefore(b)
    BY <1>1 DEF RowsBefore
  <2>2. \A i \in 1 .. Len(log) : Fine(e, i) => Fine(e, i)'
    BY <1>2, <1>3, <1>5 DEF Fine, Owed
  <2>3. \A i \in Len(log) + 1 .. Len(log') : Fine(e, i)'
    BY <1>2, <1>6, <1>7, <1>8 DEF Fine, Owed
  <2>4. Moves(e)
    BY <1>1, <2>1, <2>2, <2>3 DEF Moves
  <2>5. conn[e] # "off" => Lasts(e)
    BY <1>5, <1>6, <1>7, <1>8 DEF Lasts
  <2>6. QED
    BY <2>4, <2>5
<1>9. QED
  BY <1>4, <1>8, AlikeReach

\* Nothing that was had is lost.
Keeps(d) == ~gap[d] => \A u \in ToSet(log) :
    u \in ToSet(shown[d]) \/ u \in rejected[d] \/ u \in DOMAIN opening[d] =>
        u \in ToSet(shown'[d]) \/ u \in rejected'[d] \/ u \in DOMAIN opening'[d]

(* What is decrypted is shown in the end, refused, or was shown before. *)
LEMMA CheckedKeeps ==
    ASSUME TidyInv, NEW d \in Devices, Stored(d), NEW u \in DOMAIN opening[d],
           CheckAndStore(d, u) \/ Show(d, u)
    PROVE  Keeps(d)
<1>1. CASE Show(d, u)
  <2>1. /\ ToSet(shown'[d]) = ToSet(shown[d]) \cup {u} /\ opening'[d] = Without(opening[d], u)
        /\ rejected' = rejected
    BY <1>1, ShowTidy DEF Show, ghosts, TidyInv, Maps, PerDevice
  <2>2. DOMAIN opening'[d] = DOMAIN opening[d] \ {u}
    BY <2>1 DEF Without
  <2>3. QED
    BY <2>1, <2>2 DEF Keeps
<1>2. CASE CheckAndStore(d, u) /\ Outcome(d, u) = "ok"
  <2>1. opening'[d] = With(opening[d], u, "show") /\ shown' = shown /\ rejected' = rejected
    BY <1>2 DEF CheckAndStore, view, TidyInv, Maps, PerDevice
  <2>2. DOMAIN opening'[d] = DOMAIN opening[d] \cup {u}
    BY <2>1 DEF With
  <2>3. QED
    BY <2>1, <2>2 DEF Keeps
<1>3. CASE CheckAndStore(d, u) /\ Outcome(d, u) # "ok"
  <2>1. /\ opening'[d] = Without(opening[d], u) /\ shown' = shown /\ opening[d][u] = "decrypt"
        /\ rejected'[d] = IF Outcome(d, u) = "replay" THEN rejected[d] \cup {u} ELSE rejected[d]
    BY <1>3 DEF CheckAndStore, view, AtStage, TidyInv, Maps, PerDevice
  <2>2. DOMAIN opening'[d] = DOMAIN opening[d] \ {u}
    BY <2>1 DEF Without
  <2>3. Outcome(d, u) = "replay" \/ u \in blobs[d]
    BY <1>3 DEF Outcome
  <2>4. ~gap[d] => u \in rejected'[d] \/ u \in ToSet(shown[d])
    BY <2>1, <2>3 DEF Stored
  <2>5. QED
    BY <2>1, <2>2, <2>4 DEF Keeps
<1>4. QED
  BY <1>1, <1>2, <1>3

(* A step of d that leaves its channel alone. *)
LEMMA AsideReach ==
    ASSUME TidyInv, NEW d \in Devices, Stored(d), Placed(d), Reach(d), Aside(d)
    PROVE  Reach(d)'
<1>1. UNCHANGED <<conn, inbox, pages, cursor, hasMore, readTo, gap, log, expired>> /\ expired \in Nat
  BY AsideIs, RowTypes
<1>2. Extended
  <2>1. CASE SendMessage(d)
    BY <2>1, SendTidy
  <2>2. CASE ~SendMessage(d)
    <3>1. OwnStep(d)
      BY <2>2 DEF Aside, OwnStep
    <3>2. sent' = sent
      BY <3>1, ServerAlone
    <3>3. QED
      BY <3>2, SameServer
  <2>3. QED
    BY <2>1, <2>2
<1>3. Keeps(d)
  <2>1. CASE SendMessage(d)
    <3>1. ToSet(shown'[d]) = ToSet(shown[d]) \cup {Len(sent) + 1} /\ UNCHANGED <<opening, rejected>>
      BY <2>1, SendTidy DEF SendMessage, ghosts
    <3>2. QED
      BY <3>1 DEF Keeps
  <2>2. CASE ShowCache(d)
    <3>1. ToSet(shown'[d]) = ToSet(shown[d]) \cup ToSet(cached[d]) /\ UNCHANGED <<opening, rejected>>
      BY <2>2, ShowCacheTidy DEF ShowCache, ghosts
    <3>2. QED
      BY <3>1 DEF Keeps
  <2>3. CASE \/ \E u \in DOMAIN sending[d] : PutBlob(d, u) \/ WriteFails(d, u) \/ PutOwnSeq(d, u)
             \/ LoadSeq(d) \/ ReadCache(d)
    <3>1. UNCHANGED <<shown, opening, rejected>>
      BY <2>3 DEF PutBlob, WriteFails, PutOwnSeq, LoadSeq, ReadCache, view, ghosts
    <3>2. QED
      BY <3>1 DEF Keeps
  <2>4. CASE \E u \in DOMAIN opening[d] : CheckAndStore(d, u) \/ Show(d, u)
    BY <2>4, CheckedKeeps
  <2>5. QED
    BY <2>1, <2>2, <2>3, <2>4 DEF Aside
<1>4. QED
  BY <1>1, <1>2, <1>3, QuietReach DEF Keeps

(* Nothing of it is d's. *)
LEMMA OthersReach ==
    ASSUME TidyInv, NEW d \in Devices, Placed(d), Reach(d), Same(d), Extended, UNCHANGED log,
           expired' \in Nat, expired <= expired'
    PROVE  Reach(d)'
  BY QuietReach DEF Same

(* Reading: what is not read yet is still on its way. *)
LEMMA StillComing ==
    ASSUME TidyInv, NEW d \in Devices, inbox[d] # <<>>, InboxTail(d), UNCHANGED <<sent, log>>,
           NEW k \in Chats(d), k # 1
    PROVE  \E l \in Chats(d)' : Uuid(d, l)' = Uuid(d, k)
<1>1. inbox'[d] = Tail(inbox[d])
  BY DEF InboxTail, TidyInv, Maps, PerDevice
<1>2. PICK s : s = inbox[d] /\ s \in Seq(Broadcast \cup Answer)
  BY DEF TidyInv, DeviceOK, DeviceTypes
<1>3. k \in 1 .. Len(s) /\ Len(s) \in Nat /\ s # <<>>
  BY <1>2 DEF Chats
<1>4. /\ DOMAIN Tail(s) = 1 .. Len(s) - 1 /\ k - 1 \in 1 .. Len(s) - 1
      /\ Tail(s)[k - 1] = s[k]
  <2>1. k - 1 \in 1 .. Len(s) - 1
    BY <1>3
  <2>2. \A l \in 1 .. Len(s) - 1 : Tail(s)[l] = s[l + 1]
    BY <1>2, <1>3
  <2>3. DOMAIN Tail(s) = 1 .. Len(s) - 1
    BY <1>2, <1>3
  <2>4. k - 1 + 1 = k
    BY <1>3
  <2>5. QED
    BY <2>1, <2>2, <2>3, <2>4
<1>5. PICK l : l = k - 1
  OBVIOUS
<1>6. l \in DOMAIN inbox'[d] /\ inbox'[d][l] = inbox[d][k]
  BY <1>1, <1>2, <1>4, <1>5
<1>7. l \in Chats(d)' /\ Uuid(d, l)' = Uuid(d, k)
  BY <1>6 DEF Chats, Uuid
<1>8. QED
  BY <1>7

(* A broadcast on its way is of one row. *)
LEMMA RowIs ==
    ASSUME TidyInv, NEW d, NEW k, NEW i \in 1 .. Len(log), Uuid(d, k) = log[i]
    PROVE  Row(d, k) = i
<1>1. ServerOK /\ log[i] \in ToSet(log)
  BY Tables DEF TidyInv
<1>2. Row(d, k) \in 1 .. Len(log) /\ log[Row(d, k)] = log[i]
  BY <1>1, RowOfIs DEF Row
<1>3. QED
  BY <1>1, <1>2 DEF ServerOK

(* A broadcast is read: its row is had, and those after it are still to come. *)
LEMMA ChatReadReach ==
    ASSUME TidyInv, NEW d \in Devices, Placed(d), Reach(d), ReceiveChat(d)
    PROVE  Reach(d)'
<1>1. /\ UNCHANGED <<sent, log, expired, conn, pages, cursor, hasMore, shown, rejected, gap>>
      /\ inbox[d] # <<>> /\ InboxTail(d)
  BY DEF ReceiveChat, InboxTail, server, view
<1>2. /\ 1 \in Chats(d) /\ readTo'[d] = Row(d, 1) /\ readTo[d] < Row(d, 1)
      /\ opening'[d] = With(opening[d], Uuid(d, 1), "decrypt")
  BY ChatReadPlaced
<1>3. conn[d] = "on" /\ ~JoinAhead(d)
  BY <1>1, <1>2 DEF Placed, JoinAhead, Chats
<1>4. /\ \A k \in Answers(d)' : /\ k + 1 \in Answers(d)
                                /\ inbox'[d][k] = inbox[d][k + 1] /\ ~inbox'[d][k].join
  BY <1>1, NextUp
<1>5. Len(log) \in Nat /\ expired \in Nat /\ cursor[d] \in 0 .. Len(log)
  BY RowTypes
<1>6. DOMAIN opening'[d] = DOMAIN opening[d] \cup {Uuid(d, 1)}
  BY <1>2 DEF With
<1>7. ASSUME NEW i \in 1 .. Len(log), Fine(d, i) PROVE Fine(d, i)'
  <2>1. CASE Kept(d, i)
    BY <1>1, <1>6, <2>1 DEF Fine, Kept
  <2>2. CASE Unread(d, i) /\ Coming(d, i)
    <3>1. PICK k \in Chats(d) : Uuid(d, k) = log[i]
      BY <2>2 DEF Coming
    <3>2. CASE k = 1
      BY <1>1, <1>6, <3>1, <3>2 DEF Fine, Kept
    <3>3. CASE k # 1
      <4>1. \E l \in Chats(d)' : Uuid(d, l)' = log'[i]
        BY <1>1, <3>1, <3>3, StillComing
      <4>2. i > readTo'[d]
        <5>1. i = Row(d, k)
          BY <3>1, RowIs
        <5>2. k \in Nat \ {0} /\ 1 < k
          BY <1>1, <3>3, FromInbox DEF Chats
        <5>3. Row(d, 1) < Row(d, k)
          BY <1>2, <5>2 DEF Placed
        <5>4. readTo[d] \in Nat /\ i \in Nat
          BY <1>5, RowTypes
        <5>5. Row(d, 1) \in Nat
          <6>1. Uuid(d, 1) \in ToSet(log)
            BY <1>2 DEF TidyInv, DeviceOK, Tidy, Uuid
          <6>2. QED
            BY <6>1, RowOfIs DEF TidyInv, Row
        <5>6. QED
          BY <1>2, <5>1, <5>3, <5>4, <5>5
      <4>3. QED
        BY <1>1, <2>2, <4>1, <4>2 DEF Fine, Owed, Unread, Coming
    <3>4. QED
      BY <3>2, <3>3
  <2>3. QED
    BY <1>3, <1>7, <2>1, <2>2 DEF Fine, Owed
<1>8. Moves(d)
  <2>1. \A b \in 0 .. Len(log) : RowsBefore(b)' \subseteq RowsBefore(b)
    BY <1>1, <1>5, RowsShrink
  <2>2. \A i \in Len(log) + 1 .. Len(log') : FALSE
    BY <1>1, <1>5
  <2>3. QED
    BY <1>1, <1>5, <1>7, <2>1, <2>2 DEF Moves
<1>9. SUFFICES ASSUME ~gap[d]
               PROVE  /\ FromCursor(d)'
                      /\ \A page \in pages'[d] : FromPage(d, page)'
                      /\ \A k \in Answers(d)' : FromOlder(d, inbox[d][k])'
  BY <1>1, <1>4 DEF Reach
<1>10. FromCursor(d)'
  BY <1>1, <1>5, <1>8, <1>9, CursorMoves DEF Reach
<1>11. \A page \in pages'[d] : FromPage(d, page)'
  BY <1>1, <1>8, <1>9, PageMoves, RowTypes DEF Reach
<1>12. ASSUME NEW k \in Answers(d)' PROVE FromOlder(d, inbox[d][k])'
  <2>1. PICK page : page = inbox[d][k + 1]
    OBVIOUS
  <2>2. page \in Answer /\ FromOlder(d, page) /\ page = inbox'[d][k]
    BY <1>4, <1>9, <1>12, <2>1, RowTypes DEF Reach
  <2>3. FromOlder(d, page)'
    BY <1>1, <1>5, <1>8, <2>2, OlderMoves
  <2>4. QED
    BY <2>2, <2>3
<1>13. QED
  BY <1>10, <1>11, <1>12

\* Reach, but for what concerns answers to a join.
Reached(d) ==
    /\ FromCursor(d)
    /\ \A page \in pages[d] : FromPage(d, page)
    /\ \A k \in Answers(d) : FromOlder(d, inbox[d][k])

(* What reading a page does. *)
LEMMA PageReadFacts ==
    ASSUME TidyInv, NEW d \in Devices, Placed(d), ReceiveHistory(d), NEW page, page = inbox[d][1]
    PROVE  /\ UNCHANGED <<sent, log, expired, conn, opening, cursor, shown, rejected>>
           /\ IF page.rows = <<>> THEN pages'[d] = pages[d] /\ hasMore'[d] = page.more
              ELSE pages'[d] = pages[d] \cup {page} /\ hasMore'[d] = hasMore[d]
           /\ ~gap'[d] => ~gap[d] /\ ~FallsShort(d, page)
           /\ JoinAhead(d) <=> page.join
           /\ conn[d] = "on"
           /\ \A k \in Answers(d)' : k + 1 \in Answers(d) /\ inbox'[d][k] = inbox[d][k + 1]
                                     /\ ~inbox'[d][k].join
           /\ \A i \in 1 .. Len(log) : Kept(d, i) => Kept(d, i)'
           /\ \A i \in 1 .. Len(log) : Coming(d, i) => Coming(d, i)'
           /\ \A i \in ToSet(page.rows) : page.rows # <<>> => Kept(d, i)'
<1>1. /\ UNCHANGED <<sent, log, expired, conn, opening, cursor, shown, rejected>>
      /\ inbox[d] # <<>> /\ InboxTail(d) /\ Head(inbox[d]) = page /\ page.type = "history"
  BY FromInbox DEF ReceiveHistory, InboxTail, server
<1>2. /\ IF page.rows = <<>> THEN pages'[d] = pages[d] /\ hasMore'[d] = page.more
         ELSE pages'[d] = pages[d] \cup {page} /\ hasMore'[d] = hasMore[d]
      /\ ~gap'[d] => ~gap[d] /\ ~FallsShort(d, page)
  BY <1>1 DEF ReceiveHistory, TidyInv, Maps, PerDevice
<1>3. JoinAhead(d) <=> page.join
  BY <1>1 DEF JoinAhead
<1>4. \A k \in Answers(d)' : k + 1 \in Answers(d) /\ inbox'[d][k] = inbox[d][k + 1]
                             /\ ~inbox'[d][k].join
  BY <1>1, NextUp
<1>5. \A i \in 1 .. Len(log) : Kept(d, i) => Kept(d, i)'
  BY <1>1, <1>2 DEF Kept
<1>6. \A i \in 1 .. Len(log) : Coming(d, i) => Coming(d, i)'
  <2>1. 1 \notin Chats(d)
    BY <1>1 DEF Chats
  <2>2. \A k \in Chats(d) : \E l \in Chats(d)' : Uuid(d, l)' = Uuid(d, k)
    BY <1>1, <2>1, StillComing
  <2>3. QED
    BY <1>1, <2>2 DEF Coming
<1>7. \A i \in ToSet(page.rows) : page.rows # <<>> => Kept(d, i)'
  <2>1. page.rows # <<>> => page \in pages'[d]
    BY <1>2
  <2>2. QED
    BY <2>1 DEF Kept
<1>8. conn[d] = "on"
  BY <1>1 DEF Placed
<1>9. QED
  BY <1>1, <1>2, <1>3, <1>4, <1>5, <1>6, <1>7, <1>8

(* Of a device that loses nothing, whatever was within reach stays so. *)
LEMMA MovesReached ==
    ASSUME TidyInv, NEW d \in Devices, Placed(d), Reach(d), ~gap[d], ReceiveHistory(d), Moves(d),
           hasMore'[d] = hasMore[d] \/ RowsBefore(cursor[d]) = {},
           \A page \in pages'[d] : page \in pages[d] \/ FromPage(d, page)'
    PROVE  Reached(d)'
<1>1. /\ UNCHANGED <<log, cursor, expired>>
      /\ \A k \in Answers(d)' : k + 1 \in Answers(d) /\ inbox'[d][k] = inbox[d][k + 1]
                                /\ ~inbox'[d][k].join
  BY PageReadFacts
<1>2. Len(log) \in Nat /\ cursor[d] \in 0 .. Len(log)
  BY RowTypes
<1>3. FromCursor(d)'
  <2>1. CASE hasMore'[d] = hasMore[d]
    BY <1>1, <1>2, <2>1, CursorMoves DEF Reach
  <2>2. CASE RowsBefore(cursor[d]) = {}
    <3>1. RowsBefore(cursor[d])' = {}
      BY <1>1, <2>2 DEF RowsBefore
    <3>2. cursor[d] # 0 => \A i \in cursor[d] .. Len(log) : Fine(d, i)'
      BY <1>2 DEF Reach, FromCursor, Moves
    <3>3. QED
      BY <1>1, <3>1, <3>2 DEF FromCursor
  <2>3. QED
    BY <2>1, <2>2
<1>4. \A page \in pages'[d] : FromPage(d, page)'
  BY PageMoves, RowTypes DEF Reach
<1>5. ASSUME NEW k \in Answers(d)' PROVE FromOlder(d, inbox[d][k])'
  <2>1. PICK page : page = inbox[d][k + 1]
    OBVIOUS
  <2>2. page \in Answer /\ FromOlder(d, page) /\ page = inbox'[d][k]
    BY <1>1, <1>5, <2>1, RowTypes DEF Reach
  <2>3. FromOlder(d, page)'
    BY <1>1, <1>2, <2>2, OlderMoves
  <2>4. QED
    BY <2>2, <2>3
<1>6. QED
  BY <1>3, <1>4, <1>5 DEF Reached

(* A page of older rows. *)
LEMMA OlderReadReach ==
    ASSUME TidyInv, NEW d \in Devices, Placed(d), Reach(d), ReceiveHistory(d), ~gap'[d],
           ~inbox[d][1].join
    PROVE  Reached(d)'
<1>1. PICK page : page = inbox[d][1]
  OBVIOUS
<1>2. /\ UNCHANGED <<sent, log, expired, conn, opening, cursor, shown, rejected>>
      /\ IF page.rows = <<>> THEN pages'[d] = pages[d] /\ hasMore'[d] = page.more
         ELSE pages'[d] = pages[d] \cup {page} /\ hasMore'[d] = hasMore[d]
      /\ ~gap[d] /\ ~JoinAhead(d) /\ conn[d] = "on"
      /\ \A i \in 1 .. Len(log) : Kept(d, i) => Kept(d, i)'
      /\ \A i \in 1 .. Len(log) : Coming(d, i) => Coming(d, i)'
      /\ \A i \in ToSet(page.rows) : page.rows # <<>> => Kept(d, i)'
  BY <1>1, PageReadFacts
<1>3. /\ 1 \in Answers(d) /\ page \in Answer /\ readTo'[d] = readTo[d]
  BY <1>1, PageReadPlaced
<1>4. Len(log) \in Nat /\ expired \in Nat
  BY RowTypes
<1>5. \A i \in 1 .. Len(log) : Fine(d, i) => Fine(d, i)'
  BY <1>2, <1>3 DEF Fine, Owed, Unread
<1>6. Moves(d)
  <2>1. \A b \in 0 .. Len(log) : RowsBefore(b)' \subseteq RowsBefore(b)
    BY <1>2, <1>4, RowsShrink
  <2>2. \A i \in Len(log) + 1 .. Len(log') : FALSE
    BY <1>2, <1>4
  <2>3. QED
    BY <1>2, <1>4, <1>5, <2>1, <2>2 DEF Moves
<1>7. FromOlder(d, page)
  BY <1>1, <1>2, <1>3 DEF Reach
<1>8. CASE page.rows = <<>>
  BY <1>2, <1>6, <1>7, <1>8, MovesReached DEF FromOlder
<1>9. CASE page.rows # <<>>
  <2>1. NoneBefore(page)'
    BY <1>2, <1>7, <1>9 DEF FromOlder, NoneBefore, RowsBefore
  <2>2. Last(page.rows) \in 1 .. Len(log)
    BY <1>3, <1>4, <1>9, LastRow
  <2>3. \A i \in Last(page.rows) .. Len(log) : Fine(d, i)'
    <3>1. SUFFICES ASSUME NEW i \in Last(page.rows) .. Len(log) PROVE Fine(d, i)'
      OBVIOUS
    <3>2. i \in ToSet(page.rows) \/ Fine(d, i)
      BY <1>7, <1>9 DEF FromOlder
    <3>3. i \in 1 .. Len(log)
      BY <1>4, <2>2
    <3>4. QED
      BY <1>2, <1>5, <1>9, <3>2, <3>3 DEF Fine
  <2>4. FromPage(d, page)'
    BY <1>2, <2>1, <2>3 DEF FromPage
  <2>5. QED
    BY <1>2, <1>6, <1>9, <2>4, MovesReached
<1>10. QED
  BY <1>8, <1>9

(* The answer to a join: it takes the place of all that was missed, or falls short of it. *)
LEMMA JoinReadReach ==
    ASSUME TidyInv, NEW d \in Devices, Placed(d), Reach(d), ReceiveHistory(d), ~gap'[d],
           inbox[d][1].join
    PROVE  Reached(d)'
<1>1. PICK page : page = inbox[d][1]
  OBVIOUS
<1>2. /\ UNCHANGED <<sent, log, expired, conn, opening, cursor, shown, rejected>>
      /\ IF page.rows = <<>> THEN pages'[d] = pages[d] /\ hasMore'[d] = page.more
         ELSE pages'[d] = pages[d] \cup {page} /\ hasMore'[d] = hasMore[d]
      /\ ~gap[d] /\ ~FallsShort(d, page)
      /\ \A k \in Answers(d)' : k + 1 \in Answers(d) /\ inbox'[d][k] = inbox[d][k + 1]
                                /\ ~inbox'[d][k].join
      /\ \A i \in 1 .. Len(log) : Kept(d, i) => Kept(d, i)'
      /\ \A i \in 1 .. Len(log) : Coming(d, i) => Coming(d, i)'
      /\ \A i \in ToSet(page.rows) : page.rows # <<>> => Kept(d, i)'
  BY <1>1, PageReadFacts
<1>3. /\ 1 \in Answers(d) /\ page \in Answer
      /\ page.rows = <<>> => readTo'[d] = readTo[d]
      /\ \A k \in Chats(d)' : Row(d, k)' > readTo'[d]
      /\ Placed(d)
  BY <1>1, PageReadPlaced
<1>4. Len(log) \in Nat /\ expired \in Nat /\ cursor[d] \in 0 .. Len(log) /\ readTo[d] \in 0 .. Len(log)
  BY RowTypes
<1>5. FromJoin(d, page)
  BY <1>1, <1>2, <1>3 DEF Reach
<1>6. ASSUME NEW i \in 1 .. Len(log), Unread(d, i), Coming(d, i) PROVE Fine(d, i)'
  <2>1. Coming(d, i)'
    BY <1>2, <1>6
  <2>2. PICK l : l \in Chats(d)' /\ Uuid(d, l)' = log'[i]
    BY <2>1 DEF Coming
  <2>3. Row(d, l)' = i
    <3>1. inbox[d] # <<>> /\ InboxTail(d)
      BY DEF ReceiveHistory, InboxTail
    <3>2. /\ l + 1 \in Chats(d) /\ inbox'[d][l] = inbox[d][l + 1]
          /\ Row(d, l)' = Row(d, l + 1)
      BY <1>2, <2>2, <3>1, TailTidy, NextUp
    <3>3. Uuid(d, l + 1) = log[i]
      BY <1>2, <2>2, <3>2 DEF Uuid
    <3>4. QED
      BY <3>2, <3>3, RowIs
  <2>4. Unread(d, i)'
    BY <1>2, <1>3, <1>6, <2>2, <2>3 DEF Unread
  <2>5. QED
    BY <2>1, <2>4 DEF Fine, Owed
<1>7. page.rows # <<>> => FromPage(d, page)'
  <2>1. SUFFICES ASSUME page.rows # <<>> PROVE FromPage(d, page)'
    OBVIOUS
  <2>2. NoneBefore(page)'
    BY <1>2, <1>5, <2>1 DEF FromJoin, NoneBefore, RowsBefore
  <2>3. Last(page.rows) \in 1 .. Len(log)
    BY <1>3, <1>4, <2>1, LastRow
  <2>4. \A i \in Last(page.rows) .. Len(log) : Fine(d, i)'
    <3>1. SUFFICES ASSUME NEW i \in Last(page.rows) .. Len(log) PROVE Fine(d, i)'
      OBVIOUS
    <3>2. i \in ToSet(page.rows) \/ Kept(d, i) \/ (Unread(d, i) /\ Coming(d, i))
      BY <1>5, <2>1 DEF FromJoin
    <3>3. i \in 1 .. Len(log)
      BY <1>4, <2>3
    <3>4. Kept(d, i)' \/ Fine(d, i)'
      BY <1>2, <1>6, <2>1, <3>2, <3>3
    <3>5. QED
      BY <3>4 DEF Fine
  <2>5. QED
    BY <1>2, <2>2, <2>4 DEF FromPage
<1>8. CASE cursor[d] = 0 /\ pages[d] = {}
  <2>1. Answers(d)' = {}
    <3>1. ASSUME NEW k \in Answers(d)' PROVE FALSE
      <4>1. FromOlder(d, inbox[d][k + 1])
        BY <1>2, <3>1 DEF Reach
      <4>2. QED
        BY <1>8, <4>1 DEF FromOlder
    <3>2. QED
      BY <3>1
  <2>2. FromCursor(d)'
    BY <1>2, <1>8 DEF FromCursor
  <2>3. \A p \in pages'[d] : FromPage(d, p)'
    BY <1>2, <1>7, <1>8
  <2>4. QED
    BY <2>1, <2>2, <2>3 DEF Reached
<1>9. CASE cursor[d] # 0 \/ pages[d] # {}
  <2>1. \A i \in readTo[d] + 1 .. Len(log) :
            sent[log[i]].device = d \/ (page.rows # <<>> /\ ~(i < Last(page.rows)))
    BY <1>1, <1>2, <1>9 DEF FallsShort
  <2>2. ASSUME NEW i \in 1 .. Len(log), Fine(d, i) PROVE Fine(d, i)'
    <3>1. CASE Kept(d, i)
      BY <1>2, <2>2, <3>1 DEF Fine
    <3>2. CASE Unread(d, i)
      <4>1. i \in readTo[d] + 1 .. Len(log) /\ sent[log[i]].device # d
        BY <1>4, <3>2 DEF Unread
      <4>2. page.rows # <<>> /\ ~(i < Last(page.rows))
        BY <2>1, <4>1
      <4>3. i \in Last(page.rows) .. Len(log')
        BY <1>2, <1>3, <1>4, <4>2, LastRow
      <4>4. QED
        BY <1>7, <4>2, <4>3 DEF FromPage
    <3>3. QED
      BY <2>2, <3>1, <3>2 DEF Fine, Owed
  <2>3. Moves(d)
    <3>1. \A b \in 0 .. Len(log) : RowsBefore(b)' \subseteq RowsBefore(b)
      BY <1>2, <1>4, RowsShrink
    <3>2. \A i \in Len(log) + 1 .. Len(log') : FALSE
      BY <1>2, <1>4
    <3>3. QED
      BY <1>2, <1>4, <2>2, <3>1, <3>2 DEF Moves
  <2>4. hasMore'[d] = hasMore[d] \/ RowsBefore(cursor[d]) = {}
    <3>1. CASE page.rows # <<>>
      BY <1>2, <3>1
    <3>2. CASE page.rows = <<>>
      <4>1. readTo[d] <= expired /\ cursor[d] <= readTo[d]
        BY <1>5, <3>2 DEF FromJoin, Placed
      <4>2. QED
        BY <1>4, <4>1 DEF RowsBefore
    <3>3. QED
      BY <3>1, <3>2
  <2>5. \A p \in pages'[d] : p \in pages[d] \/ FromPage(d, p)'
    BY <1>2, <1>7
  <2>6. QED
    BY <1>2, <2>3, <2>4, <2>5, MovesReached
<1>10. QED
  BY <1>8, <1>9

(* A page is read. *)
LEMMA PageReadReach ==
    ASSUME TidyInv, NEW d \in Devices, Placed(d), Reach(d), ReceiveHistory(d)
    PROVE  Reach(d)'
<1>1. \A k \in Answers(d)' : ~inbox'[d][k].join
  BY PageReadFacts
<1>2. ~gap'[d] => Reached(d)'
  BY OlderReadReach, JoinReadReach
<1>3. QED
  BY <1>1, <1>2 DEF Reach, Reached

(* A server that stands still has no fewer rows. *)
LEMMA StillMoves ==
    ASSUME TidyInv, NEW d \in Devices, UNCHANGED <<log, expired>>,
           \A i \in 1 .. Len(log) : Fine(d, i) => Fine(d, i)'
    PROVE  Moves(d)
<1>1. Len(log) \in Nat /\ expired \in Nat
  BY RowTypes
<1>2. \A b \in 0 .. Len(log) : RowsBefore(b)' \subseteq RowsBefore(b)
  BY <1>1, RowsShrink
<1>3. \A i \in Len(log) + 1 .. Len(log') : FALSE
  BY <1>1
<1>4. QED
  BY <1>1, <1>2, <1>3 DEF Moves

(* A page is shown: the cursor goes back to where everything is had from. *)
LEMMA PageShownReach ==
    ASSUME TidyInv, NEW d \in Devices, Placed(d), Reach(d), NEW page \in pages[d],
           HistoryLoaded(d, page)
    PROVE  Reach(d)'
<1>1. /\ UNCHANGED <<sent, log, expired, conn, inbox, opening, gap, readTo, rejected>>
      /\ pages'[d] = pages[d] \ {page} /\ hasMore'[d] = page.more
      /\ Last(page.rows) \in 1 .. Len(log) /\ Len(log) \in Nat
      /\ cursor[d] \in 0 .. Len(log) /\ cursor'[d] \in 1 .. Len(log)
      /\ cursor'[d] \in {cursor[d], Last(page.rows)}
      /\ cursor'[d] <= Last(page.rows) /\ (cursor[d] # 0 => cursor'[d] <= cursor[d])
  BY PageShownPlaced
<1>2. ToSet(shown'[d]) = ToSet(shown[d]) \cup {log[i] : i \in ToSet(page.rows)}
  BY HistoryLoadedTidy
<1>3. /\ Chats(d)' = Chats(d) /\ Answers(d)' = Answers(d) /\ (JoinAhead(d)' <=> JoinAhead(d))
      /\ \A k \in Chats(d) : Uuid(d, k)' = Uuid(d, k)
  BY <1>1 DEF Chats, Answers, JoinAhead, Uuid
<1>4. ASSUME NEW i \in 1 .. Len(log)
      PROVE  /\ Kept(d, i) => Kept(d, i)'
             /\ Unread(d, i) => Unread(d, i)'
             /\ Coming(d, i) => Coming(d, i)'
  <2>1. Kept(d, i) => Kept(d, i)'
    BY <1>1, <1>2 DEF Kept
  <2>2. Unread(d, i) => Unread(d, i)'
    BY <1>1 DEF Unread
  <2>3. Coming(d, i) => Coming(d, i)'
    BY <1>1, <1>3 DEF Coming
  <2>4. QED
    BY <2>1, <2>2, <2>3
<1>5. \A i \in 1 .. Len(log) : Fine(d, i) => Fine(d, i)'
  BY <1>1, <1>3, <1>4 DEF Fine, Owed
<1>6. Moves(d)
  BY <1>1, <1>5, StillMoves
<1>7. Lasts(d)
  <2>1. \A i \in Len(log) + 1 .. Len(log') : FALSE
    BY <1>1
  <2>2. QED
    BY <1>4, <2>1 DEF Lasts
<1>8. SUFFICES ASSUME ~gap[d]
               PROVE  /\ FromCursor(d)'
                      /\ \A p \in pages'[d] : FromPage(d, p)'
                      /\ \A k \in Answers(d) :
                            IF inbox[d][k].join THEN FromJoin(d, inbox[d][k])'
                            ELSE FromOlder(d, inbox[d][k])'
  BY <1>1, <1>3 DEF Reach
<1>9. /\ FromPage(d, page) /\ FromCursor(d)
      /\ \A p \in pages[d] : FromPage(d, p)
      /\ \A k \in Answers(d) : IF inbox[d][k].join THEN FromJoin(d, inbox[d][k])
                               ELSE FromOlder(d, inbox[d][k])
  BY <1>8 DEF Reach
<1>10. PICK c : c = cursor'[d]
  OBVIOUS
<1>11. PICK more : more = page.more
  OBVIOUS
<1>12. FromCursor(d)'
  <2>1. \A i \in c .. Len(log) : Fine(d, i)
    <3>1. CASE c = Last(page.rows)
      BY <1>9, <3>1 DEF FromPage
    <3>2. CASE c = cursor[d]
      BY <1>1, <1>9, <1>10, <3>2 DEF FromCursor
    <3>3. QED
      BY <1>1, <1>10, <3>1, <3>2
  <2>2. more \/ RowsBefore(c) = {}
    <3>1. more \/ RowsBefore(Last(page.rows)) = {}
      BY <1>9, <1>11 DEF FromPage, NoneBefore
    <3>2. RowsBefore(c) \subseteq RowsBefore(Last(page.rows))
      BY <1>1, <1>10, RowsBelow
    <3>3. QED
      BY <3>1, <3>2
  <2>3. \A i \in c .. Len(log) : Fine(d, i)'
    BY <1>1, <1>5, <1>10, <2>1
  <2>4. more \/ RowsBefore(c)' = {}
    BY <1>1, <2>2 DEF RowsBefore
  <2>5. QED
    BY <1>1, <1>10, <1>11, <2>3, <2>4 DEF FromCursor
<1>13. \A p \in pages'[d] : FromPage(d, p)'
  BY <1>1, <1>6, <1>9, PageMoves, RowTypes
<1>14. ASSUME NEW k \in Answers(d), inbox[d][k].join PROVE FromJoin(d, inbox[d][k])'
  <2>1. PICK p : p = inbox[d][k] /\ p \in Answer
    BY RowTypes
  <2>2. FromJoin(d, p)'
    BY <1>1, <1>6, <1>7, <1>9, <1>14, <2>1, JoinMoves, RowTypes
  <2>3. QED
    BY <1>1, <2>1, <2>2
<1>15. ASSUME NEW k \in Answers(d), ~inbox[d][k].join PROVE FromOlder(d, inbox[d][k])'
  <2>1. PICK p : p = inbox[d][k] /\ p \in Answer
    BY RowTypes
  <2>2. FromOlder(d, p)
    BY <1>9, <1>15, <2>1
  <2>3. CASE p.rows = <<>>
    <3>1. RowsBefore(c) = {} /\ c # 0
      BY <1>1, <1>10, <2>2, <2>3, RowsBelow DEF FromOlder
    <3>2. RowsBefore(c)' = {}
      BY <1>1, <3>1 DEF RowsBefore
    <3>3. FromOlder(d, p)'
      BY <1>10, <2>2, <2>3, <3>1, <3>2 DEF FromOlder
    <3>4. QED
      BY <1>1, <2>1, <3>3
  <2>4. CASE p.rows # <<>>
    <3>1. PICK b : b = Last(p.rows) /\ b \in 1 .. Len(log)
      BY <1>1, <2>1, <2>4, LastRow
    <3>2. NoneBefore(p)'
      BY <1>1, <2>2, <2>4 DEF FromOlder, NoneBefore, RowsBefore
    <3>3. \A i \in b .. Len(log) : i \in ToSet(p.rows) \/ Fine(d, i)'
      BY <1>1, <1>5, <2>2, <2>4, <3>1 DEF FromOlder
    <3>4. FromOlder(d, p)'
      BY <1>1, <2>4, <3>1, <3>2, <3>3 DEF FromOlder
    <3>5. QED
      BY <1>1, <2>1, <3>4
  <2>5. QED
    BY <2>3, <2>4
<1>16. QED
  BY <1>12, <1>13, <1>14, <1>15

(* Scrolling up: the page goes on where the cursor is. *)
LEMMA RequestReach ==
    ASSUME TidyInv, NEW d \in Devices, Placed(d), Reach(d), RequestHistory(d)
    PROVE  Reach(d)'
<1>1. /\ UNCHANGED <<sent, log, expired, opening, pages, shown, cursor, hasMore, gap, readTo, rejected, conn>>
      /\ Chats(d)' = Chats(d) /\ \A k \in Chats(d) : Uuid(d, k)' = Uuid(d, k)
      /\ JoinAhead(d)' <=> JoinAhead(d)
      /\ \A k \in Answers(d)' : \/ k \in Answers(d) /\ inbox'[d][k] = inbox[d][k]
                                \/ inbox'[d][k] = Requested(d)
  BY RequestPlaced
<1>2. /\ Len(log) \in Nat /\ expired \in Nat /\ cursor[d] \in 0 .. Len(log)
      /\ readTo[d] \in 0 .. Len(log)
  BY RowTypes
<1>3. ASSUME NEW i \in 1 .. Len(log)
      PROVE  /\ Kept(d, i) => Kept(d, i)'
             /\ Unread(d, i) => Unread(d, i)'
             /\ Coming(d, i) => Coming(d, i)'
  <2>1. Kept(d, i) => Kept(d, i)'
    BY <1>1 DEF Kept
  <2>2. Unread(d, i) => Unread(d, i)'
    BY <1>1 DEF Unread
  <2>3. Coming(d, i) => Coming(d, i)'
    BY <1>1 DEF Coming
  <2>4. QED
    BY <2>1, <2>2, <2>3
<1>4. \A i \in 1 .. Len(log) : Fine(d, i) => Fine(d, i)'
  BY <1>1, <1>3 DEF Fine, Owed
<1>5. Moves(d)
  BY <1>1, <1>4, StillMoves
<1>6. Lasts(d)
  <2>1. \A i \in Len(log) + 1 .. Len(log') : FALSE
    BY <1>1, <1>2
  <2>2. QED
    BY <1>3, <2>1 DEF Lasts
<1>7. SUFFICES ASSUME ~gap[d]
               PROVE  /\ FromCursor(d)'
                      /\ \A p \in pages'[d] : FromPage(d, p)'
                      /\ \A k \in Answers(d)' : IF inbox'[d][k].join THEN FromJoin(d, inbox[d][k])'
                                                ELSE FromOlder(d, inbox[d][k])'
  BY <1>1 DEF Reach
<1>8. /\ FromCursor(d) /\ \A p \in pages[d] : FromPage(d, p)
      /\ \A k \in Answers(d) : IF inbox[d][k].join THEN FromJoin(d, inbox[d][k])
                               ELSE FromOlder(d, inbox[d][k])
  BY <1>7 DEF Reach
<1>9. FromCursor(d)'
  BY <1>1, <1>2, <1>5, <1>8, CursorMoves
<1>10. \A p \in pages'[d] : FromPage(d, p)'
  BY <1>1, <1>5, <1>8, PageMoves, RowTypes
<1>11. ASSUME NEW k \in Answers(d)'
       PROVE  IF inbox'[d][k].join THEN FromJoin(d, inbox[d][k])' ELSE FromOlder(d, inbox[d][k])'
  <2>1. PICK p : p = inbox'[d][k]
    OBVIOUS
  <2>2. CASE k \in Answers(d) /\ p = inbox[d][k]
    <3>1. p \in Answer /\ IF p.join THEN FromJoin(d, p) ELSE FromOlder(d, p)
      BY <1>8, <2>2, RowTypes
    <3>2. CASE p.join
      <4>1. FromJoin(d, p)'
        BY <1>1, <1>2, <1>5, <1>6, <3>1, <3>2, JoinMoves
      <4>2. QED
        BY <2>1, <3>2, <4>1
    <3>3. CASE ~p.join
      <4>1. FromOlder(d, p)'
        BY <1>1, <1>2, <1>5, <3>1, <3>3, OlderMoves
      <4>2. QED
        BY <2>1, <3>3, <4>1
    <3>4. QED
      BY <3>2, <3>3
  <2>3. CASE p = Requested(d)
    <3>1. PICK c : c = cursor[d]
      OBVIOUS
    <3>2. c # 0 /\ c \in 1 .. Len(log) /\ cursor'[d] = c
      BY <1>1, <1>2, <3>1 DEF RequestHistory
    <3>3. ~p.join /\ p.rows = GetHistory(c) /\ p.more = HasOlder(c)
      BY <2>3, <3>1 DEF Requested, Page, HistoryMsg
    <3>4. /\ p.rows = <<>> => ~HasOlder(c) /\ RowsBefore(c) = {}
          /\ p.rows # <<>> => /\ \A i \in Last(p.rows) .. c - 1 : i \in ToSet(p.rows)
                              /\ HasOlder(c) \/ RowsBefore(Last(p.rows)) = {}
      BY <1>2, <3>2, <3>3, PageReaches
    <3>5. CASE p.rows = <<>>
      <4>1. RowsBefore(c)' = {}
        BY <1>1, <3>4, <3>5 DEF RowsBefore
      <4>2. ~p.more
        BY <3>3, <3>4, <3>5
      <4>3. FromOlder(d, p)'
        BY <3>2, <3>5, <4>1, <4>2 DEF FromOlder
      <4>4. QED
        BY <2>1, <3>3, <4>3
    <3>6. CASE p.rows # <<>>
      <4>1. NoneBefore(p)'
        BY <1>1, <3>3, <3>4, <3>6 DEF NoneBefore, RowsBefore
      <4>2. ASSUME NEW i \in Last(p.rows) .. Len(log) PROVE i \in ToSet(p.rows) \/ Fine(d, i)'
        <5>1. CASE i \in c .. Len(log)
          <6>1. Fine(d, i)
            BY <1>8, <3>1, <3>2, <5>1 DEF FromCursor
          <6>2. i \in 1 .. Len(log)
            BY <1>2, <3>2, <5>1
          <6>3. QED
            BY <1>4, <6>1, <6>2
        <5>2. CASE i \notin c .. Len(log)
          <6>1. i \in Last(p.rows) .. c - 1
            BY <1>2, <3>2, <4>2, <5>2
          <6>2. QED
            BY <3>4, <3>6, <6>1
        <5>3. QED
          BY <5>1, <5>2
      <4>3. FromOlder(d, p)'
        BY <1>1, <3>2, <3>6, <4>1, <4>2 DEF FromOlder
      <4>4. QED
        BY <2>1, <3>3, <4>3
    <3>7. QED
      BY <3>5, <3>6
  <2>4. QED
    BY <1>1, <1>11, <2>1, <2>2, <2>3
<1>12. QED
  BY <1>9, <1>10, <1>11

(* The answer to a join: the newest rows. *)
LEMMA ConnectReach ==
    ASSUME TidyInv, NEW d \in Devices, Placed(d), Reach(d), Connect(d)
    PROVE  Reach(d)'
<1>1. /\ UNCHANGED <<sent, log, expired, opening, pages, shown, cursor, hasMore, gap, readTo, rejected>>
      /\ conn[d] = "off" /\ inbox'[d] = <<Joining>>
      /\ JoinAhead(d)' /\ Answers(d)' = {1}
  BY ConnectPlaced
<1>2. /\ Len(log) \in Nat /\ expired \in Nat /\ cursor[d] \in 0 .. Len(log)
      /\ readTo[d] \in 0 .. Len(log)
  BY RowTypes
<1>3. \A i \in 1 .. Len(log) : Fine(d, i) => Fine(d, i)'
  <2>1. ASSUME NEW i \in 1 .. Len(log)
        PROVE  (Kept(d, i) => Kept(d, i)') /\ (Unread(d, i) => Unread(d, i)')
    <3>1. Kept(d, i) => Kept(d, i)'
      BY <1>1 DEF Kept
    <3>2. Unread(d, i) => Unread(d, i)'
      BY <1>1 DEF Unread
    <3>3. QED
      BY <3>1, <3>2
  <2>2. QED
    BY <1>1, <2>1 DEF Fine, Owed
<1>4. Moves(d)
  BY <1>1, <1>3, StillMoves
<1>5. PICK page : page = Joining
  OBVIOUS
<1>6. page.join /\ page.rows = GetHistory(Len(log) + 1) /\ page.more = HasOlder(Len(log) + 1)
  BY <1>5 DEF Joining, Page, HistoryMsg
<1>7. /\ page.rows = <<>> => ~page.more /\ RowsBefore(Len(log) + 1) = {}
      /\ page.rows # <<>> => /\ \A i \in Last(page.rows) .. Len(log) + 1 - 1 : i \in ToSet(page.rows)
                             /\ page.more \/ RowsBefore(Last(page.rows)) = {}
  <2>1. PICK b : b = Len(log) + 1
    OBVIOUS
  <2>2. b \in Nat /\ b <= Len(log) + 1
    BY <1>2, <2>1
  <2>3. QED
    BY <1>2, <1>6, <2>1, <2>2, PageReaches
<1>8. FromJoin(d, page)'
  <2>1. CASE page.rows = <<>>
    <3>1. RowsBefore(Len(log) + 1) = {}
      BY <1>7, <2>1
    <3>2. Len(log) <= expired
      <4>1. SUFFICES ASSUME ~(Len(log) <= expired) PROVE FALSE
        OBVIOUS
      <4>2. Len(log) \in RowsBefore(Len(log) + 1)
        BY <1>2, <4>1 DEF RowsBefore
      <4>3. QED
        BY <3>1, <4>2
    <3>3. QED
      BY <1>1, <1>2, <1>7, <2>1, <3>2 DEF FromJoin
  <2>2. CASE page.rows # <<>>
    <3>1. NoneBefore(page)'
      BY <1>1, <1>7, <2>2 DEF NoneBefore, RowsBefore
    <3>2. \A i \in Last(page.rows) .. Len(log) : i \in ToSet(page.rows)
      <4>1. Len(log) + 1 - 1 = Len(log)
        BY <1>2
      <4>2. QED
        BY <1>7, <2>2, <4>1
    <3>3. QED
      BY <1>1, <2>2, <3>1, <3>2 DEF FromJoin
  <2>3. QED
    BY <2>1, <2>2
<1>9. SUFFICES ASSUME ~gap[d]
               PROVE  FromCursor(d)' /\ \A p \in pages'[d] : FromPage(d, p)'
  <2>1. inbox'[d][1] = page
    BY <1>1, <1>5
  <2>2. QED
    BY <1>1, <1>6, <1>8, <1>9, <2>1 DEF Reach
<1>10. FromCursor(d)'
  BY <1>1, <1>2, <1>4, <1>9, CursorMoves DEF Reach
<1>11. \A p \in pages'[d] : FromPage(d, p)'
  BY <1>1, <1>4, <1>9, PageMoves, RowTypes DEF Reach
<1>12. QED
  BY <1>10, <1>11

(* Whoever is not connected is owed what comes. *)
LEMMA DisconnectReach ==
    ASSUME TidyInv, NEW d \in Devices, Placed(d), Reach(d), Disconnect(d)
    PROVE  Reach(d)'
<1>1. /\ UNCHANGED <<sent, log, expired, opening, pages, shown, cursor, hasMore, gap, readTo, rejected>>
      /\ conn'[d] = "off" /\ Answers(d)' = {}
  BY DisconnectPlaced
<1>2. Len(log) \in Nat /\ cursor[d] \in 0 .. Len(log)
  BY RowTypes
<1>3. \A i \in 1 .. Len(log) : Fine(d, i) => Fine(d, i)'
  <2>1. ASSUME NEW i \in 1 .. Len(log)
        PROVE  (Kept(d, i) => Kept(d, i)') /\ (Unread(d, i) => Unread(d, i)')
    <3>1. Kept(d, i) => Kept(d, i)'
      BY <1>1 DEF Kept
    <3>2. Unread(d, i) => Unread(d, i)'
      BY <1>1 DEF Unread
    <3>3. QED
      BY <3>1, <3>2
  <2>2. QED
    BY <1>1, <2>1 DEF Fine, Owed
<1>4. Moves(d)
  BY <1>1, <1>3, StillMoves
<1>5. ~gap[d] => FromCursor(d)'
  BY <1>1, <1>2, <1>4, CursorMoves DEF Reach
<1>6. ~gap[d] => \A p \in pages'[d] : FromPage(d, p)'
  BY <1>1, <1>4, PageMoves, RowTypes DEF Reach
<1>7. QED
  BY <1>1, <1>5, <1>6 DEF Reach

(* Whoever begins anew has no cursor. *)
LEMMA ResetReach ==
    ASSUME TidyInv, NEW d \in Devices, Placed(d), Reach(d), Reload(d) \/ ClearHistory(d)
    PROVE  Reach(d)'
  BY ResetPlaced DEF Reach, FromCursor

(* At the start. *)
LEMMA ReachInit == Init => ReachInv
<1> SUFFICES ASSUME Init, NEW d \in Devices PROVE Reach(d)
  BY DEF ReachInv
<1>1. cursor[d] = 0 /\ pages[d] = {} /\ inbox[d] = <<>>
  BY DEF Init
<1>2. Answers(d) = {}
  BY <1>1 DEF Answers
<1>3. QED
  BY <1>1, <1>2 DEF Reach, FromCursor

(* Every step. *)
LEMMA ReachStep == TidyInv /\ StoredInv /\ PlacedInv /\ ReachInv /\ [Next]_vars => ReachInv'
<1> SUFFICES ASSUME TidyInv, StoredInv, PlacedInv, ReachInv, [Next]_vars, NEW e \in Devices
             PROVE  Reach(e)'
  BY DEF ReachInv
<1>1. Maps /\ Stored(e) /\ Placed(e) /\ Reach(e) /\ expired \in Nat
  BY RowTypes DEF TidyInv, StoredInv, PlacedInv, ReachInv
<1>2. CASE Expire \/ UNCHANGED vars
  <2>1. /\ UNCHANGED <<sent, conn, inbox, opening, pages, shown, cursor, hasMore, readTo, rejected, gap, log>>
        /\ expired' \in {expired, expired + 1}
    BY <1>2 DEF Expire, vars, server, net, view, ghosts
  <2>2. Extended
    BY <2>1, SameServer
  <2>3. QED
    BY <1>1, <2>1, <2>2, QuietReach
<1>3. ASSUME NEW d \in Devices, Step(d) PROVE Reach(e)'
  <2>1. CASE Aside(d) /\ e = d
    BY <1>1, <2>1, AsideReach
  <2>2. CASE SendMessage(d) /\ e # d
    <3>1. Same(e) /\ Extended
      BY <1>1, <2>2, SendTidy, SendLocal DEF Elsewhere
    <3>2. log' = log /\ expired' = expired
      BY <2>2 DEF SendMessage
    <3>3. QED
      BY <1>1, <3>1, <3>2, OthersReach
  <2>3. ASSUME NEW u \in DOMAIN sending[d], Transmit(d, u) PROVE Reach(e)'
    <3>1. CASE conn[d] = "on"
      BY <1>1, <2>3, <3>1, TransmitIs, BroadcastReach
    <3>2. CASE conn[d] # "on"
      <4>1. UNCHANGED <<sent, conn, inbox, opening, pages, shown, cursor, hasMore, readTo, rejected, gap, log, expired>>
        BY <2>3, <3>2 DEF Transmit, view, ghosts
      <4>2. Extended
        BY <4>1, SameServer
      <4>3. QED
        BY <1>1, <4>1, <4>2, QuietReach
    <3>3. QED
      BY <3>1, <3>2
  <2>4. CASE OwnStep(d) /\ e # d
    <3>1. Same(e) /\ UNCHANGED <<sent, log, expired>>
      BY <1>1, <2>4, ServerAlone, OwnStepLocal DEF Elsewhere
    <3>2. Extended
      BY <3>1, SameServer
    <3>3. QED
      BY <1>1, <3>1, <3>2, OthersReach
  <2>5. CASE OwnStep(d) /\ e = d /\ ~Aside(d)
    BY <1>1, <2>5, ChatReadReach, PageReadReach, RequestReach, PageShownReach, ConnectReach,
       DisconnectReach, ResetReach DEF OwnStep, Aside
  <2>6. QED
    BY <1>3, <2>1, <2>2, <2>3, <2>4, <2>5, StepIs DEF Aside
<1>4. QED
  BY <1>2, <1>3 DEF Next

(* Always. *)
LEMMA ReachAlways == Spec => []ReachInv
  BY TidyAlways, StoredAlways, PlacedAlways, ReachInit, ReachStep, PTL DEF Spec

(* With nothing on its way, what will be had was had. *)
LEMMA CaughtUpReaches == TidyInv /\ ReachInv => HistoryWithinReach
<1> SUFFICES ASSUME TidyInv, ReachInv, NEW d \in Devices, CaughtUp(d), cursor[d] # 0, ~gap[d]
             PROVE  /\ \A i \in cursor[d] .. Len(log) : log[i] \in ToSet(shown[d]) \cup rejected[d]
                    /\ hasMore[d] \/ RowsBefore(cursor[d]) = {}
  BY DEF HistoryWithinReach
<1>1. FromCursor(d)
  BY DEF ReachInv, Reach
<1>2. conn[d] = "on" /\ inbox[d] = <<>> /\ DOMAIN opening[d] = {} /\ pages[d] = {}
  BY DEF CaughtUp, Nothing
<1>3. Chats(d) = {} /\ ~JoinAhead(d)
  BY <1>2 DEF Chats, JoinAhead
<1>4. \A i : Fine(d, i) => Kept(d, i)
  BY <1>2, <1>3 DEF Fine, Owed, Coming
<1>5. \A i : Kept(d, i) => log[i] \in ToSet(shown[d]) \cup rejected[d]
  BY <1>2 DEF Kept
<1>6. QED
  BY <1>1, <1>4, <1>5 DEF FromCursor

(***************************************************************************)
(* The rest of the history can always be had: whatever broadcasts, pages,  *)
(* lost connections, reloads and clean-ups came in between, a client that  *)
(* has caught up shows, from its cursor on, all it did not refuse, and     *)
(* scrolling up is offered while there is more.                            *)
(***************************************************************************)
THEOREM RestWithinReach == Spec => []HistoryWithinReach
  BY TidyAlways, ReachAlways, CaughtUpReaches, PTL
=============================================================================
