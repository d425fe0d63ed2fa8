-------------------------------- MODULE Chat --------------------------------
(***************************************************************************)
(* Chat messages of one room, from SEND_MESSAGE to every screen:           *)
(* state/effects/chat.ts, services/chatProtocol.ts, services/db.ts, the    *)
(* chat cases of reducer.ts, handleChat, handleHistoryRequest and the      *)
(* history part of handleJoin in handlers.ts, and server/database.ts.      *)
(*                                                                         *)
(* A device is one browser profile with one tab.  A send, the processing   *)
(* of one broadcast and of one history page are async functions that run   *)
(* concurrently, so each is a set of records with a stage.  IndexedDB      *)
(* transactions are atomic and survive a reload; everything else does not. *)
(*                                                                         *)
(* Connections are those of module Reconnect, seen from here: "on" is      *)
(* joined, "off" is anything else, a socket that died unnoticed included.  *)
(***************************************************************************)
EXTENDS Naturals, Sequences, FiniteSets, SequencesExt

CONSTANTS
    Devices,      \* deviceIds
    Skew,         \* how far each device's clock is ahead
    Earlier,      \* whose messages there are when the behaviour begins, one device each time
    Writers,      \* bound: the devices whose users write from then on
    BatchSize,    \* historyBatchSize
    CacheLimit,   \* CACHE_LOAD_LIMIT
    MaxMessages,  \* bound: messages sent
    MaxMishaps,   \* bound: reloads, lost connections, failed writes, clean-ups
    MaxPending    \* bound: a device asks for no more history with that many messages and pages unread

ASSUME DevicesFinite == IsFiniteSet(Devices)
ASSUME ChatNumbers ==
    /\ Skew \in [Devices -> Nat]
    /\ Earlier \in Seq(Devices)
    /\ Writers \subseteq Devices
    /\ BatchSize \in Nat \ {0}
    /\ CacheLimit \in Nat \ {0}
    /\ MaxMessages \in Nat
    /\ MaxMishaps \in Nat
    /\ MaxPending \in Nat

VARIABLES
    sent,      \* the messages, in the order of SEND_MESSAGE: their index is their uuid
    log,       \* the server's table: uuids in the order of their row ids
    expired,   \* rows up to this id were deleted by the clean-up
    conn,      \* "on" or "off"
    inbox,     \* per device, what the server sent and the client has not read
    blobs,     \* IndexedDB: uuids in the blobs store
    lastSeen,  \* IndexedDB: the seq store
    ownSeq,    \* IndexedDB: the outgoing counter in the settings store
    seq,       \* refs.seq
    loaded,    \* which of "seq" (refs.seqLoaded) and "cache" were read since the room was entered
    cached,    \* what was read of the cache and is being decrypted
    sending,   \* sends under way: uuid -> stage
    opening,   \* broadcasts being processed: uuid -> stage
    pages,     \* history pages being decrypted
    shown,     \* state.messages, as uuids
    cursor,    \* state.historyCursor, 0 for null
    hasMore,   \* state.historyHasMore
    loading,   \* state.loadingHistory
    mishaps

\* What no code reads: it says what the properties may expect.
VARIABLES
    readTo,    \* the newest row the device has read of
    rejected,  \* uuids refused as replays
    leftOut,   \* uuids stored when the cache was read, with CacheLimit newer ones
    gap        \* a page fell short of what was missed, or history was cleared with something under way

idb == <<blobs, lastSeen, ownSeq>>
fromCache == <<cached, leftOut>>
view == <<shown, cursor, hasMore, loading>>
server == <<sent, log, expired>>
net == <<conn, inbox>>
ghosts == <<readTo, rejected, gap>>
vars == <<server, net, idb, seq, loaded, fromCache, sending, opening, pages, view, mishaps, ghosts>>

Uuids == 1 .. Len(sent)
Nothing == <<>>  \* no send, no broadcast under way: a function with an empty domain

\* Adding to and taking from what is under way.
With(f, u, stage) == [x \in DOMAIN f \cup {u} |-> IF x = u THEN stage ELSE f[x]]
Without(f, u) == [x \in DOMAIN f \ {u} |-> f[x]]
AtStage(f, stage) == {u \in DOMAIN f : f[u] = stage}

Mishap == mishaps < MaxMishaps /\ mishaps' = mishaps + 1

ChatMsg(u) == [type |-> "chat", uuid |-> u]
HistoryMsg(rows, more, join) == [type |-> "history", rows |-> rows, more |-> more, join |-> join]

\* The elements of S, the k-th of them with k - 1 before it; `before` is a set of pairs.
Listed(S, before) ==
    [k \in 1 .. Cardinality(S) |->
        CHOOSE x \in S : Cardinality({y \in S : <<y, x>> \in before}) = k - 1]

-----------------------------------------------------------------------------
(* reducer.ts: the sorted list of messages.                                *)

(* `all` is the messages by uuid; a list is of uuids.                      *)

\* The binary search of insertMessageSorted: how many entries stay before the new one.
Bisect(all, list, t) ==
    LET search[span \in (0 .. Len(list)) \X (0 .. Len(list))] ==
            LET lo == span[1]
                hi == span[2]
                mid == (lo + hi) \div 2
            IN
            IF lo >= hi THEN lo
            ELSE IF all[list[mid + 1]].timestamp <= t THEN search[<<mid + 1, hi>>]
            ELSE search[<<lo, mid>>]
    IN  search[<<0, Len(list)>>]

Place(all, list, u) == InsertAt(list, Bisect(all, list, all[u].timestamp) + 1, u)

\* mutant: no look-up in messageUuids
InsertAnyway(all, list, u) == Place(all, list, u)
InsertMessageSorted(all, list, u) == IF u \in ToSet(list) THEN list ELSE Place(all, list, u)

\* Array.sort is stable: placing one after the other behind its equals does the same.
SortByTimestamp(all, list) ==
    LET sorted[n \in 0 .. Len(list)] ==
            IF n = 0 THEN <<>> ELSE Place(all, sorted[n - 1], list[n])
    IN  sorted[Len(list)]

\* The filter of mergeHistory, one message after the other.
NotAmong(list, existing) ==
    LET kept[n \in 0 .. Len(list)] ==
            IF n = 0 THEN <<>>
            ELSE IF list[n] \in ToSet(existing) THEN kept[n - 1] ELSE Append(kept[n - 1], list[n])
    IN  kept[Len(list)]

MergeHistory(all, existing, incoming) ==
    LET new == NotAmong(incoming, existing) IN
    IF new = <<>> THEN existing ELSE SortByTimestamp(all, new \o existing)

\* 0 is null
ResolveHistoryCursor(existing, incoming) ==
    IF incoming = 0 THEN existing
    ELSE IF existing = 0 \/ incoming < existing THEN incoming ELSE existing

-----------------------------------------------------------------------------
(* database.ts: a page, newest row first, and whether there are older rows. *)

RowsWellBefore(before) == {i \in 1 .. Len(log) : expired < i /\ i + 1 < before}  \* mutant
RowsBefore(before) == {i \in 1 .. Len(log) : expired < i /\ i < before}

HasOlder(before) == Cardinality(RowsBefore(before)) > BatchSize

GetHistory(before) ==
    LET rows == RowsBefore(before)
        newestFirst == Listed(rows, {p \in rows \X rows : p[1] > p[2]})
    IN  SubSeq(newestFirst, 1, IF HasOlder(before) THEN BatchSize ELSE Len(newestFirst))

Page(before, join) == HistoryMsg(GetHistory(before), HasOlder(before), join)

-----------------------------------------------------------------------------
\* Of the earlier messages each device has its own, as sending leaves them behind.
EarlierOf(d) == {u \in DOMAIN Earlier : Earlier[u] = d}
EarlierSeq(u) == Cardinality({v \in EarlierOf(Earlier[u]) : v <= u})

Init ==
    /\ sent = [u \in DOMAIN Earlier |-> [device |-> Earlier[u], seq |-> EarlierSeq(u),
                                         timestamp |-> u + Skew[Earlier[u]]]]
    /\ log = [u \in DOMAIN Earlier |-> u]
    /\ expired = 0
    /\ conn = [d \in Devices |-> "off"]
    /\ inbox = [d \in Devices |-> <<>>]
    /\ blobs = [d \in Devices |-> EarlierOf(d)]
    /\ lastSeen = [d \in Devices |-> [e \in Devices |-> 0]]
    /\ ownSeq = [d \in Devices |-> Cardinality(EarlierOf(d))]
    /\ seq = [d \in Devices |-> 0]
    /\ loaded = [d \in Devices |-> {}]
    /\ cached = [d \in Devices |-> <<>>]
    /\ sending = [d \in Devices |-> Nothing]
    /\ opening = [d \in Devices |-> Nothing]
    /\ pages = [d \in Devices |-> {}]
    /\ shown = [d \in Devices |-> <<>>]
    /\ cursor = [d \in Devices |-> 0]
    /\ hasMore = [d \in Devices |-> FALSE]
    /\ loading = [d \in Devices |-> FALSE]
    /\ mishaps = 0
    /\ readTo = [d \in Devices |-> 0]
    /\ rejected = [d \in Devices |-> {}]
    /\ leftOut = [d \in Devices |-> {}]
    /\ gap = [d \in Devices |-> FALSE]

-----------------------------------------------------------------------------
(* Sending.                                                                *)

PostIncremented(d) == seq[d]  \* mutant
NextSeq(d) == seq[d] + 1

\* SEND_MESSAGE: shown at once; encryption begins.  The input is disabled while the
\* status is not "connected", which it is for a while on a socket that died unnoticed.
SendMessage(d) ==
    LET u == Len(sent) + 1
        message == [device |-> d, seq |-> NextSeq(d), timestamp |-> u + Skew[d]]
    IN
    /\ d \in Writers
    /\ u <= MaxMessages
    /\ "seq" \in loaded[d]
    /\ seq' = [seq EXCEPT ![d] = NextSeq(d)]
    /\ sent' = Append(sent, message)
    /\ shown' = [shown EXCEPT ![d] = InsertMessageSorted(sent', @, u)]
    /\ sending' = [sending EXCEPT ![d] = With(@, u, "encrypt")]
    /\ UNCHANGED <<log, expired, net, idb, loaded, fromCache, opening, pages, cursor, hasMore,
                   loading, mishaps, ghosts>>

\* Encrypted: sendMessage drops it on a socket that is not open; otherwise handleChat
\* inserts it and tells the others.
Transmit(d, u) ==
    /\ u \in AtStage(sending[d], "encrypt")
    /\ sending' = [sending EXCEPT ![d] = With(@, u, "put")]
    /\ IF conn[d] = "on"
       THEN /\ log' = Append(log, u)
            /\ inbox' = [e \in Devices |-> IF e # d /\ conn[e] = "on"
                                           THEN Append(inbox[e], ChatMsg(u)) ELSE inbox[e]]
       ELSE UNCHANGED <<log, inbox>>
    /\ UNCHANGED <<sent, expired, conn, idb, seq, loaded, fromCache, opening, pages, view,
                   mishaps, ghosts>>

PutBlob(d, u) ==
    /\ u \in AtStage(sending[d], "put")
    /\ blobs' = [blobs EXCEPT ![d] = @ \cup {u}]
    /\ sending' = [sending EXCEPT ![d] = With(@, u, "putSeq")]
    /\ UNCHANGED <<server, net, lastSeen, ownSeq, seq, loaded, fromCache, opening, pages, view,
                   mishaps, ghosts>>

\* putBlobRecord fails, and the counter is not stored either; or putOwnSeq fails.
WriteFails(d, u) ==
    /\ u \in AtStage(sending[d], "put") \cup AtStage(sending[d], "putSeq")
    /\ Mishap
    /\ sending' = [sending EXCEPT ![d] = Without(@, u)]
    /\ UNCHANGED <<server, net, idb, seq, loaded, fromCache, opening, pages, view, ghosts>>

\* A plain put: of two sends under way the last one to get here wins.
PutOwnSeq(d, u) ==
    /\ u \in AtStage(sending[d], "putSeq")
    /\ ownSeq' = [ownSeq EXCEPT ![d] = sent[u].seq]
    /\ sending' = [sending EXCEPT ![d] = Without(@, u)]
    /\ UNCHANGED <<server, net, blobs, lastSeen, seq, loaded, fromCache, opening, pages, view,
                   mishaps, ghosts>>

-----------------------------------------------------------------------------
(* Receiving.                                                              *)

\* A history page whose rows are all newer than some row of another's that was missed.
FallsShort(d, page) ==
    /\ page.join
    /\ cursor[d] # 0 \/ pages[d] # {}
    /\ \E i \in readTo[d] + 1 .. Len(log) :
        /\ sent[log[i]].device # d
        /\ page.rows = <<>> \/ i < Last(page.rows)

NewestOf(rows) == IF rows = <<>> THEN 0 ELSE Head(rows)
RowOf(u) == CHOOSE i \in 1 .. Len(log) : log[i] = u

LoadingUntilRows(d, page) == loading[d] /\ page.rows = <<>>  \* mutant
LoadingAfter(d, page) == FALSE

\* The next message is read from the socket; decryption begins.
ReceiveChat(d) ==
    /\ inbox[d] # <<>>
    /\ Head(inbox[d]).type = "chat"
    /\ LET u == Head(inbox[d]).uuid IN
       /\ opening' = [opening EXCEPT ![d] = With(@, u, "decrypt")]
       /\ readTo' = [readTo EXCEPT ![d] = Max({@, RowOf(u)})]
    /\ inbox' = [inbox EXCEPT ![d] = Tail(@)]
    /\ UNCHANGED <<server, conn, idb, seq, loaded, fromCache, sending, pages, view, mishaps,
                   rejected, gap>>

\* An empty page has nothing to decrypt: HISTORY_LOADED follows at once.
ReceiveHistory(d) ==
    /\ inbox[d] # <<>>
    /\ Head(inbox[d]).type = "history"
    /\ LET page == Head(inbox[d])
           empty == page.rows = <<>>
       IN
       /\ pages' = IF empty THEN pages ELSE [pages EXCEPT ![d] = @ \cup {page}]
       /\ hasMore' = IF empty THEN [hasMore EXCEPT ![d] = page.more] ELSE hasMore
       /\ loading' = IF empty THEN [loading EXCEPT ![d] = LoadingAfter(d, page)] ELSE loading
       /\ gap' = [gap EXCEPT ![d] = @ \/ FallsShort(d, page)]
       /\ readTo' = [readTo EXCEPT ![d] = Max({@, NewestOf(page.rows)})]
    /\ inbox' = [inbox EXCEPT ![d] = Tail(@)]
    /\ UNCHANGED <<server, conn, idb, seq, loaded, fromCache, sending, opening, shown, cursor,
                   mishaps, rejected>>

IsReplay(d, u) == sent[u].seq <= lastSeen[d][sent[u].device]

\* checkAndStoreBlob: one transaction, begun when the decryption ends.
Outcome(d, u) ==
    IF IsReplay(d, u) THEN "replay"
    ELSE IF u \in blobs[d] THEN "duplicate"
    ELSE "ok"

\* handleIncomingMessage.  Everyone in the room has its key: decryption succeeds.
CheckAndStore(d, u) ==
    /\ u \in AtStage(opening[d], "decrypt")
    /\ \/ /\ Outcome(d, u) = "ok"
          /\ blobs' = [blobs EXCEPT ![d] = @ \cup {u}]
          /\ lastSeen' = [lastSeen EXCEPT ![d][sent[u].device] = sent[u].seq]
          /\ opening' = [opening EXCEPT ![d] = With(@, u, "show")]
          /\ UNCHANGED rejected
       \/ /\ Outcome(d, u) # "ok"
          /\ opening' = [opening EXCEPT ![d] = Without(@, u)]
          /\ rejected' = IF Outcome(d, u) = "replay" THEN [rejected EXCEPT ![d] = @ \cup {u}]
                         ELSE rejected
          /\ UNCHANGED <<blobs, lastSeen>>
    /\ UNCHANGED <<server, net, ownSeq, seq, loaded, fromCache, sending, pages, view, mishaps,
                   readTo, gap>>

\* CHAT_RECEIVED
Show(d, u) ==
    /\ u \in AtStage(opening[d], "show")
    /\ shown' = [shown EXCEPT ![d] = InsertMessageSorted(sent, @, u)]
    /\ opening' = [opening EXCEPT ![d] = Without(@, u)]
    /\ UNCHANGED <<server, net, idb, seq, loaded, fromCache, sending, pages, cursor, hasMore,
                   loading, mishaps, ghosts>>

\* storeBlobIfNew, for each message of a page: no look at its seq.
StoredIfNew(d, incoming) == [blobs EXCEPT ![d] = @ \cup ToSet(incoming)]

\* handleHistory, once all of the page is decrypted; HISTORY_LOADED.
HistoryLoaded(d, page) ==
    LET incoming == [i \in DOMAIN page.rows |-> log[page.rows[i]]] IN
    /\ page \in pages[d]
    /\ pages' = [pages EXCEPT ![d] = @ \ {page}]
    /\ blobs' = StoredIfNew(d, incoming)
    /\ shown' = [shown EXCEPT ![d] = MergeHistory(sent, @, incoming)]
    /\ cursor' = [cursor EXCEPT ![d] =
                    ResolveHistoryCursor(@, Last(page.rows))]
    /\ hasMore' = [hasMore EXCEPT ![d] = page.more]
    /\ loading' = [loading EXCEPT ![d] = LoadingAfter(d, page)]
    /\ UNCHANGED <<server, net, lastSeen, ownSeq, seq, loaded, fromCache, sending, opening,
                   mishaps, ghosts>>

\* REQUEST_HISTORY, from scrolling up; nothing keeps the effect from asking twice.
RequestHistory(d) ==
    /\ hasMore[d]
    /\ cursor[d] # 0
    /\ Len(inbox[d]) + Cardinality(pages[d]) < MaxPending
    /\ loading' = [loading EXCEPT ![d] = TRUE]
    /\ inbox' = IF conn[d] = "on" THEN [inbox EXCEPT ![d] = Append(@, Page(cursor[d], FALSE))]
                ELSE inbox
    /\ UNCHANGED <<server, conn, idb, seq, loaded, fromCache, sending, opening, pages, shown,
                   cursor, hasMore, mishaps, ghosts>>

-----------------------------------------------------------------------------
(* The room is entered, left by a reload, cleared; connections come and go. *)

\* initSeqCounter
LoadSeq(d) ==
    /\ d \in Writers
    /\ "seq" \notin loaded[d]
    /\ loaded' = [loaded EXCEPT ![d] = @ \cup {"seq"}]
    /\ seq' = [seq EXCEPT ![d] = ownSeq[d]]
    /\ UNCHANGED <<server, net, idb, fromCache, sending, opening, pages, view, mishaps, ghosts>>

\* The by_room_ts index; equal timestamps in the order of uuids.
TimeOrder(u, v) ==
    \/ sent[u].timestamp < sent[v].timestamp
    \/ sent[u].timestamp = sent[v].timestamp /\ u < v

OldestBlobs(d) ==  \* mutant: the index is read forwards
    LET all == Listed(blobs[d], {p \in Uuids \X Uuids : TimeOrder(p[1], p[2])})
    IN  SubSeq(all, 1, IF Len(all) > CacheLimit THEN CacheLimit ELSE Len(all))

\* getBlobsByTimestamp: at most CacheLimit, the newest first.
NewestBlobs(d) ==
    LET all == Listed(blobs[d], {p \in Uuids \X Uuids : TimeOrder(p[2], p[1])})
    IN  SubSeq(all, 1, IF Len(all) > CacheLimit THEN CacheLimit ELSE Len(all))

\* loadCachedMessages: one transaction reads, and decryption begins.
ReadCache(d) ==
    /\ "cache" \notin loaded[d]
    /\ loaded' = [loaded EXCEPT ![d] = @ \cup {"cache"}]
    /\ cached' = [cached EXCEPT ![d] = NewestBlobs(d)]
    /\ leftOut' = [leftOut EXCEPT ![d] =
                    {u \in blobs[d] :
                        Cardinality({v \in blobs[d] : TimeOrder(u, v)}) >= CacheLimit}]
    /\ UNCHANGED <<server, net, idb, seq, sending, opening, pages, view, mishaps, ghosts>>

\* All of it is decrypted: HISTORY_LOADED, fromCache.
ShowCache(d) ==
    /\ cached[d] # <<>>
    /\ shown' = [shown EXCEPT ![d] = MergeHistory(sent, @, cached[d])]
    /\ cached' = [cached EXCEPT ![d] = <<>>]
    /\ UNCHANGED <<server, net, idb, seq, loaded, leftOut, sending, opening, pages, cursor,
                   hasMore, loading, mishaps, ghosts>>

\* WS_ROOM_CONNECTED, and handleJoin's answer.
Connect(d) ==
    /\ conn[d] = "off"
    /\ conn' = [conn EXCEPT ![d] = "on"]
    /\ loading' = [loading EXCEPT ![d] = FALSE]
    /\ inbox' = [inbox EXCEPT ![d] = <<Page(Len(log) + 1, TRUE)>>]
    /\ UNCHANGED <<server, idb, seq, loaded, fromCache, sending, opening, pages, shown, cursor,
                   hasMore, mishaps, ghosts>>

\* The connection ends or dies: what was not read is lost, as is what is sent from now on.
Disconnect(d) ==
    /\ conn[d] = "on"
    /\ Mishap
    /\ conn' = [conn EXCEPT ![d] = "off"]
    /\ inbox' = [inbox EXCEPT ![d] = <<>>]
    /\ UNCHANGED <<server, idb, seq, loaded, fromCache, sending, opening, pages, view, ghosts>>

\* The page goes away and the room is entered again: only IndexedDB is left.
Reload(d) ==
    /\ Mishap
    /\ conn' = [conn EXCEPT ![d] = "off"]
    /\ inbox' = [inbox EXCEPT ![d] = <<>>]
    /\ seq' = [seq EXCEPT ![d] = 0]
    /\ loaded' = [loaded EXCEPT ![d] = {}]
    /\ cached' = [cached EXCEPT ![d] = <<>>]
    /\ leftOut' = [leftOut EXCEPT ![d] = {}]
    /\ sending' = [sending EXCEPT ![d] = Nothing]
    /\ opening' = [opening EXCEPT ![d] = Nothing]
    /\ pages' = [pages EXCEPT ![d] = {}]
    /\ shown' = [shown EXCEPT ![d] = <<>>]
    /\ cursor' = [cursor EXCEPT ![d] = 0]
    /\ hasMore' = [hasMore EXCEPT ![d] = FALSE]
    /\ loading' = [loading EXCEPT ![d] = FALSE]
    /\ readTo' = [readTo EXCEPT ![d] = 0]
    /\ gap' = [gap EXCEPT ![d] = FALSE]
    /\ UNCHANGED <<server, idb, rejected>>

\* The effect of CLEAR_HISTORY, clearBlobs.
BlobsCleared(d) == [blobs EXCEPT ![d] = {}]

\* CLEAR_HISTORY: neither the seq store nor what is under way is touched.
ClearHistory(d) ==
    /\ Mishap
    /\ shown[d] # <<>>
    /\ shown' = [shown EXCEPT ![d] = <<>>]
    /\ cursor' = [cursor EXCEPT ![d] = 0]
    /\ hasMore' = [hasMore EXCEPT ![d] = FALSE]
    /\ blobs' = BlobsCleared(d)
    /\ gap' = [gap EXCEPT ![d] = \/ @
                                 \/ inbox[d] # <<>> \/ pages[d] # {}
                                 \/ DOMAIN sending[d] # {} \/ DOMAIN opening[d] # {}]
    /\ UNCHANGED <<server, net, lastSeen, ownSeq, seq, loaded, fromCache, sending, opening, pages,
                   loading, readTo, rejected>>

\* The server's clean-up: the oldest row is past its retention.
Expire ==
    /\ expired < Len(log)
    /\ Mishap
    /\ expired' = expired + 1
    /\ UNCHANGED <<sent, log, net, idb, seq, loaded, fromCache, sending, opening, pages, view,
                   ghosts>>

-----------------------------------------------------------------------------
Step(d) ==
    \/ SendMessage(d)
    \/ \E u \in DOMAIN sending[d] :
        Transmit(d, u) \/ PutBlob(d, u) \/ WriteFails(d, u) \/ PutOwnSeq(d, u)
    \/ ReceiveChat(d)
    \/ ReceiveHistory(d)
    \/ \E u \in DOMAIN opening[d] : CheckAndStore(d, u) \/ Show(d, u)
    \/ \E page \in pages[d] : HistoryLoaded(d, page)
    \/ RequestHistory(d)
    \/ LoadSeq(d)
    \/ ReadCache(d)
    \/ ShowCache(d)
    \/ Connect(d)
    \/ Disconnect(d)
    \/ Reload(d)
    \/ ClearHistory(d)

Next == Expire \/ \E d \in Devices : Step(d)

Spec == Init /\ [][Next]_vars
-----------------------------------------------------------------------------
(* Type invariant *)
TypeOK ==
    /\ sent \in Seq([device : Devices, seq : Nat \ {0}, timestamp : Nat])
    /\ log \in Seq(Uuids)
    /\ expired \in 0 .. Len(log)
    /\ conn \in [Devices -> {"on", "off"}]
    /\ \A d \in Devices : inbox[d] \in Seq(
            [type : {"chat"}, uuid : Uuids]
            \cup [type : {"history"}, rows : Seq(1 .. Len(log)), more : BOOLEAN, join : BOOLEAN])
    /\ blobs \in [Devices -> SUBSET Uuids]
    /\ lastSeen \in [Devices -> [Devices -> Nat]]
    /\ ownSeq \in [Devices -> Nat]
    /\ seq \in [Devices -> Nat]
    /\ loaded \in [Devices -> SUBSET {"seq", "cache"}]
    /\ cached \in [Devices -> Seq(Uuids)]
    /\ \A d \in Devices :
        /\ DOMAIN sending[d] \subseteq Uuids
        /\ \A u \in DOMAIN sending[d] : sending[d][u] \in {"encrypt", "put", "putSeq"}
        /\ DOMAIN opening[d] \subseteq Uuids
        /\ \A u \in DOMAIN opening[d] : opening[d][u] \in {"decrypt", "show"}
        /\ \A page \in pages[d] : page.type = "history" /\ ToSet(page.rows) \subseteq 1 .. Len(log)
    /\ shown \in [Devices -> Seq(Uuids)]
    /\ cursor \in [Devices -> 0 .. Len(log)]
    /\ hasMore \in [Devices -> BOOLEAN]
    /\ loading \in [Devices -> BOOLEAN]
    /\ mishaps \in 0 .. MaxMishaps
    /\ readTo \in [Devices -> 0 .. Len(log)]
    /\ rejected \in [Devices -> SUBSET Uuids]
    /\ leftOut \in [Devices -> SUBSET Uuids]
    /\ gap \in [Devices -> BOOLEAN]

(***************************************************************************)
(* Every list on screen is in order of the senders' clocks and shows no    *)
(* message twice, although sends, broadcasts, pages and the cache bring    *)
(* the same messages in any order: insertMessageSorted and mergeHistory.   *)
(***************************************************************************)
ShownOnceInOrder ==
    \A d \in Devices : \A i, j \in DOMAIN shown[d] : i < j =>
        /\ shown[d][i] # shown[d][j]
        /\ sent[shown[d][i]].timestamp <= sent[shown[d][j]].timestamp

\* Nothing the server sent to d is unread or being decrypted.
CaughtUp(d) == conn[d] = "on" /\ inbox[d] = <<>> /\ opening[d] = Nothing /\ pages[d] = {}

(***************************************************************************)
(* The rest of the history can always be had: a client that has caught up  *)
(* shows every stored message from its cursor on, but for those it refused *)
(* as replays, and scrolling up is offered while the server has older      *)
(* ones.  `gap` excepts the two cases in which the cursor, a minimum, runs *)
(* ahead of what is shown: a page that falls short of what was missed, and *)
(* history cleared with something under way.                               *)
(***************************************************************************)
HistoryWithinReach ==
    \A d \in Devices : CaughtUp(d) /\ cursor[d] # 0 /\ ~gap[d] =>
        /\ \A i \in cursor[d] .. Len(log) : log[i] \in ToSet(shown[d]) \cup rejected[d]
        /\ hasMore[d] \/ RowsBefore(cursor[d]) = {}

(***************************************************************************)
(* What a device stores is what it shows: once the cache was read, each    *)
(* stored message is on screen, or being decrypted for it, but those that  *)
(* CACHE_LOAD_LIMIT newer ones kept out of that reading, which the history *)
(* may bring.  No async function that was interrupted or raced leaves      *)
(* another blob that only the next cold start reveals (unless history was  *)
(* cleared under it).                                                      *)
(***************************************************************************)
StoredIsShown ==
    \A d \in Devices : "cache" \in loaded[d] /\ ~gap[d] =>
        blobs[d] \subseteq
            ToSet(shown[d]) \cup ToSet(cached[d]) \cup DOMAIN opening[d] \cup leftOut[d]

(***************************************************************************)
(* The history spinner does not turn for nothing: on a live connection a   *)
(* page is on its way, whatever connections and pages were lost before.    *)
(***************************************************************************)
LoadingIsAnswered ==
    \A d \in Devices : loading[d] /\ conn[d] = "on" =>
        pages[d] # {} \/ \E i \in DOMAIN inbox[d] : inbox[d][i].type = "history"

(***************************************************************************)
(* services/chatProtocol.ts:29 of a message rejected as a replay: "Message *)
(* seq <= lastSeenSeq for this deviceId (replay attack or re-delivery)":   *)
(* the device has had that message before.                                 *)
(***************************************************************************)
ReplaysWereSeen ==
    [][ \A d \in Devices : \A u \in rejected'[d] \ rejected[d] :
            u \in blobs[d] \cup ToSet(shown[d]) ]_vars
=============================================================================
