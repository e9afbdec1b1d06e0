------------------------------ MODULE Timeline ------------------------------
(***************************************************************************)
(* The timeline of one room: the four order tables of the cache, written   *)
(* by syncs, local echoes, back pagination, /clear-timeline and the trim   *)
(* of old messages, and the window of them that EventStore shows.          *)
(*                                                                         *)
(* The homeserver's copy of the room is the sequence of events 1..Newest;  *)
(* event 1 is its m.room.create.  A pagination token is the position up to *)
(* which older events lie.  The local echo of our own event p has the      *)
(* transaction id -p.                                                      *)
(***************************************************************************)
EXTENDS Integers, FiniteSets, TLC, SequencesExt, Functions

CONSTANTS
  Newest,       \* number of events in the room
  Start,        \* the newest event of the first, limited, sync
  Mine,         \* events that this client sends
  Hidden,       \* events isHiddenEvent keeps out of the message tables
  Redactions,   \* events that are redactions
  NoTok,        \* the empty pagination token
  NoIdx,        \* no index: the maximum of uint64_t
  ChunkSize,    \* the 80 of MessagesOpts::limit
  MaxBatch,     \* bound: events per sync
  MaxRestored,  \* MAX_RESTORED_MESSAGES
  MaxLimited, MaxClears, MaxRestarts, MaxFailures, MaxFull, MaxRequests
                \* bounds, named for what they count

ASSUME SizeAssumption == {Newest, Start, ChunkSize, MaxBatch, MaxRestored} \subseteq Nat \ {0}
ASSUME EmptyAssumption == NoTok \notin 0..Newest /\ NoIdx \notin Int
ASSUME KindAssumption ==
  /\ Start <= Newest /\ Mine \subseteq (Start + 1)..Newest
  /\ Hidden \subseteq 2..Newest /\ Redactions \subseteq (2..Newest) \ (Mine \cup Hidden)

VARIABLES
  db,           \* the order tables
  view,         \* EventStore's first and last
  noMore,       \* noMoreMessages
  paginating,   \* TimelineModel's m_paginationInProgress
  requests,     \* tokens of the /messages requests under way
  uiq,          \* answers queued for the UI thread
  synced,       \* position of the sync
  head,         \* the homeserver is known to have the events up to this one
  limits, clears, restarts, failures, fulls,  \* counters of the bounds
  untold,       \* history: what EventStore was not told of the tables, see Untold
  doubled       \* history: our events that a page brought while their local echo waited

server == <<synced, head>>
bounds == <<limits, clears, restarts, failures, fulls>>
history == <<untold, doubled>>
vars == <<db, view, noMore, paginating, requests, uiq, server, bounds, history>>

----------------------------------------------------------------------------

\* uint64_t indices: the middle of the range is 0, its maximum is NoIdx and greater
\* than every index in use.
NoView == [first |-> NoIdx, last |-> NoIdx]
NoEvent == 0   \* the empty event id

NoRows == <<>>
EmptyDb == [order |-> NoRows, evToOrder |-> NoRows, order2msg |-> NoRows, msg2order |-> NoRows]

Put(f, k, v) == [x \in DOMAIN f \cup {k} |-> IF x = k THEN v ELSE f[x]]
Del(f, K) == Restrict(f, DOMAIN f \ K)
FirstIdx(f) == IF DOMAIN f = {} THEN 0 ELSE Min(DOMAIN f)
LastIdx(f)  == IF DOMAIN f = {} THEN 0 ELSE Max(DOMAIN f)

\* isHiddenEvent, of an event or of its local echo.
IsHidden(id) == id \in Hidden \/ -id \in Hidden

\* A new entry at idx of the order table, and its message entry at midx.
Insert(d, id, tok, idx, midx) ==
  LET m == ~IsHidden(id) /\ id \notin Redactions
  IN [order     |-> Put(d.order, idx, [id |-> id, tok |-> tok]),
      evToOrder |-> Put(d.evToOrder, id, idx),
      order2msg |-> IF m THEN Put(d.order2msg, midx, id) ELSE d.order2msg,
      msg2order |-> IF m THEN Put(d.msg2order, id, midx) ELSE d.msg2order]

\* Faulty variant of Echo: the transaction id stays in event2order.
EchoKeepsTxn(d, id, tok) ==
  LET idx  == d.evToOrder[-id]
      midx == d.msg2order[-id]
      m    == -id \in DOMAIN d.msg2order
  IN [order     |-> Put(d.order, idx, [id |-> id, tok |-> tok]),
      evToOrder |-> Put(d.evToOrder, id, idx),
      order2msg |-> IF m THEN Put(d.order2msg, midx, id) ELSE d.order2msg,
      msg2order |-> IF m THEN Del(Put(d.msg2order, id, midx), {-id}) ELSE d.msg2order]

\* The echo of our own event takes the slots of its local echo.
Echo(d, id, tok) ==
  LET idx  == d.evToOrder[-id]
      midx == d.msg2order[-id]
      m    == -id \in DOMAIN d.msg2order
  IN [order     |-> Put(d.order, idx, [id |-> id, tok |-> tok]),
      evToOrder |-> Del(Put(d.evToOrder, id, idx), {-id}),
      order2msg |-> IF m THEN Put(d.order2msg, midx, id) ELSE d.order2msg,
      msg2order |-> IF m THEN Del(Put(d.msg2order, id, midx), {-id}) ELSE d.msg2order]

\* Faulty variant of SaveEvent: the echo is appended next to the local echo.
SaveEventNoEcho(acc, id, limited, prev) ==
  LET d   == acc.db
      tok == IF acc.first THEN prev ELSE NoTok
  IN IF (id \in Redactions /\ ~(acc.first /\ limited)) \/ id \in DOMAIN d.evToOrder THEN acc
     ELSE [db |-> Insert(d, id, tok, LastIdx(d.order) + 1, LastIdx(d.order2msg) + 1),
           first |-> FALSE]

\* One event of saveTimelineMessages.  acc.first: no event of this batch has
\* been appended yet.  A redaction is only kept when it opens a limited batch.
SaveEvent(acc, id, limited, prev) ==
  LET d   == acc.db
      tok == IF acc.first THEN prev ELSE NoTok
  IN IF id \in Mine /\ -id \in DOMAIN d.evToOrder
       THEN [db |-> Echo(d, id, tok), first |-> acc.first]
     ELSE IF \/ (id \in Redactions /\ ~(acc.first /\ limited))
             \/ (id \notin Redactions /\ id \in DOMAIN d.evToOrder)
       THEN acc
     ELSE [db |-> Insert(d, id, tok, LastIdx(d.order) + 1, LastIdx(d.order2msg) + 1),
           first |-> FALSE]

SaveTimelineMessages(d, batch, limited, prev) ==
  LET acc[n \in 0..Len(batch)] ==
        IF n = 0 THEN [db |-> IF limited THEN EmptyDb ELSE d, first |-> TRUE]
        ELSE SaveEvent(acc[n - 1], batch[n], limited, prev)
  IN IF batch = <<>> THEN d ELSE acc[Len(batch)].db

\* Faulty variant of SaveOldEvent: hidden events are not stored at all.
SaveOldEventShown(d, id) ==
  IF id \in DOMAIN d.evToOrder \/ IsHidden(id) THEN d
  ELSE Insert(d, id, NoTok, FirstIdx(d.order) - 1, FirstIdx(d.order2msg) - 1)

\* One event of saveOldMessages.
SaveOldEvent(d, id) ==
  IF id \in DOMAIN d.evToOrder THEN d
  ELSE Insert(d, id, NoTok, FirstIdx(d.order) - 1, FirstIdx(d.order2msg) - 1)

\* The loop of saveOldMessages: redactions are skipped, and last is the event id of
\* the last event that was not, NoEvent when there is none.
SaveChunk(d, chunk) ==
  LET acc[n \in 0..Len(chunk)] ==
        IF n = 0 THEN [db |-> d, last |-> NoEvent]
        ELSE IF chunk[n] \in Redactions THEN acc[n - 1]
        ELSE [db |-> SaveOldEvent(acc[n - 1].db, chunk[n]), last |-> chunk[n]]
  IN acc[Len(chunk)]

\* Faulty variant of SaveOldMessages: the token is not stored with the chunk.
SaveOldMessagesNoToken(d, chunk, end) == SaveChunk(d, chunk).db

\* saveOldMessages: the events of the chunk go in front, newest first; the entry
\* at the new front is then written again with the last event and the token.
\* A chunk of redactions leaves one entry behind to carry the token.
SaveOldMessages(d, chunk, end) ==
  LET new == SaveChunk(d, chunk)
      i   == FirstIdx(new.db.order)
  IN IF chunk = <<>> THEN
       IF DOMAIN d.order = {} THEN d
       ELSE [d EXCEPT !.order = Put(@, i, [id |-> d.order[i].id, tok |-> end])]
     ELSE IF new.last = NoEvent THEN Insert(d, Last(chunk), end, i - 1, 0)
     ELSE [new.db EXCEPT !.order = Put(@, i, [id |-> new.last, tok |-> end])]

\* previousBatchToken
PrevToken(d) ==
  IF DOMAIN d.order = {} THEN NoTok ELSE d.order[FirstIdx(d.order)].tok

\* getTimelineRange, NoView when there is no message.
TimelineRange(d) ==
  IF DOMAIN d.order2msg = {} THEN NoView
  ELSE [first |-> Min(DOMAIN d.order2msg), last |-> Max(DOMAIN d.order2msg)]

\* Removes a set of events from all tables.
Forget(d, idxs) ==
  LET ids == {d.order[i].id : i \in idxs}
      ms  == ids \cap DOMAIN d.msg2order
  IN [order     |-> Del(d.order, idxs),
      evToOrder |-> Del(d.evToOrder, ids),
      order2msg |-> Del(d.order2msg, {d.msg2order[id] : id \in ms}),
      msg2order |-> Del(d.msg2order, ids)]

\* Cache::clearTimeline: everything older than the newest entry with a token goes.
\* The second loop looks for the newest message that has no entry left and
\* deletes it and all older ones; when every message has one, its cursor ends
\* on the oldest message and that one is deleted.
CacheClearTimeline(d) ==
  LET toks == {i \in DOMAIN d.order : d.order[i].tok # NoTok}
      c    == IF toks = {} THEN d ELSE Forget(d, {i \in DOMAIN d.order : i < Max(toks)})
      ids  == {c.order[i].id : i \in DOMAIN c.order}
      lost == {m \in DOMAIN c.order2msg : c.order2msg[m] \notin ids}
      top  == IF lost = {} THEN Min(DOMAIN c.order2msg) ELSE Max(lost)
  IN IF DOMAIN c.order2msg = {} THEN c
     ELSE [c EXCEPT !.order2msg = Del(@, {m \in DOMAIN @ : m <= top})]

\* deleteOldMessages: the oldest entries beyond MAX_RESTORED_MESSAGES.
DeleteOldMessages(d) ==
  LET n == LastIdx(d.order) - FirstIdx(d.order)
  IN IF DOMAIN d.order = {} \/ n < MaxRestored THEN d
     ELSE Forget(d, {i \in DOMAIN d.order : i < FirstIdx(d.order) + n - MaxRestored})

\* External: the answer of /messages for a token.  Without a token the homeserver
\* starts at the newest event; below the first event there is no end token.
Messages(from, newest) ==
  LET top == IF from = NoTok THEN newest ELSE from
      n   == IF top < ChunkSize THEN top ELSE ChunkSize
  IN [chunk |-> [k \in 1..n |-> top - k + 1],
      end   |-> IF top = 0 THEN NoTok ELSE top - n]

----------------------------------------------------------------------------

Init ==
  /\ db = SaveTimelineMessages(EmptyDb, <<Start>>, TRUE, Start - 1)
  /\ view = TimelineRange(db)
  /\ noMore = FALSE /\ paginating = FALSE
  /\ requests = <<>> /\ uiq = <<>>
  /\ synced = Start /\ head = Start
  /\ limits = 0 /\ clears = 0 /\ restarts = 0 /\ failures = 0 /\ fulls = 0
  /\ untold = "nothing" /\ doubled = {}

\* EventStore has been told of everything, or not of rows that were appended, or
\* not of tables that were replaced or trimmed.
Untold == {"nothing", "rows", "tables"}

\* Faulty variant of HandleSync: the window is not reset by a limited sync.
HandleSyncNoReset(limited) ==
  LET range == TimelineRange(db')
      reset == range = NoView
  IN /\ view' = IF reset THEN range
                ELSE IF view # NoView /\ range.last > view.last THEN [view EXCEPT !.last = range.last]
                ELSE view
     /\ noMore' = IF reset THEN FALSE ELSE noMore

\* Faulty variant of HandleSync: an empty window grows like any other.
HandleSyncGrows(limited) ==
  LET range == TimelineRange(db')
      reset == range = NoView \/ limited
  IN /\ view' = IF reset THEN range ELSE [view EXCEPT !.last = range.last]
     /\ noMore' = IF reset THEN FALSE ELSE noMore

\* EventStore::handleSync, once the tables have been written.
HandleSync(limited) ==
  LET range == TimelineRange(db')
      reset == range = NoView \/ limited
  IN /\ view' = IF reset THEN range
                ELSE IF view # NoView /\ range.last > view.last THEN [view EXCEPT !.last = range.last]
                ELSE view
     /\ noMore' = IF reset THEN FALSE ELSE noMore

\* The window has been told of the rows that were appended.
Told == untold' = IF untold = "rows" THEN "nothing" ELSE untold

\* addPending stores a local echo with savePendingMessage; the homeserver does not
\* have the event.
AddPending ==
  /\ \E p \in Mine :
       /\ p > head /\ -p \notin DOMAIN db.evToOrder
       /\ db' = SaveTimelineMessages(db, <<-p>>, FALSE, NoTok)
  /\ HandleSync(FALSE) /\ Told
  /\ UNCHANGED <<paginating, requests, uiq, server, bounds, doubled>>

Positions(from, to) == [k \in 1..(to - from) |-> from + k]
Furthest(p, q) == IF p < q THEN q ELSE p

\* The tables d after an error: LMDB's map may be full, and then they are trimmed.
Trimmed(d, full) == IF full THEN DeleteOldMessages(d) ELSE d

\* saveState commits a sync that continues where the last one ended, or one that
\* is limited and skips a gap.
SaveNext(full) ==
  /\ \E to \in (synced + 1)..Newest :
       /\ to <= synced + MaxBatch
       /\ db' = Trimmed(SaveTimelineMessages(db, Positions(synced, to), FALSE, synced), full)
       /\ synced' = to /\ head' = Furthest(head, to)
  /\ UNCHANGED <<limits, doubled>>

SaveLimited(full) ==
  /\ limits < MaxLimited /\ limits' = limits + 1
  /\ \E from \in (synced + 1)..(Newest - 1), to \in (synced + 2)..Newest :
       /\ from < to /\ to <= from + MaxBatch
       /\ db' = Trimmed(SaveTimelineMessages(db, Positions(from, to), TRUE, from), full)
       /\ synced' = to /\ head' = Furthest(head, to)
  /\ doubled' = {}

Sync ==
  /\ SaveNext(FALSE) /\ HandleSync(FALSE) /\ Told
  /\ UNCHANGED <<paginating, requests, uiq, clears, restarts, failures, fulls>>

SyncLimited ==
  /\ SaveLimited(FALSE) /\ HandleSync(TRUE)
  /\ paginating' = FALSE /\ untold' = "nothing"
  /\ UNCHANGED <<requests, uiq, clears, restarts, failures, fulls>>

\* handleSyncResponse, when LMDB fails after saveState has committed: nobody tells
\* EventStore of the sync.
SyncFails ==
  /\ failures < MaxFailures /\ failures' = failures + 1
  /\ \/ SaveNext(FALSE) /\ untold' = (IF untold = "tables" THEN untold ELSE "rows")
     \/ SaveLimited(FALSE) /\ untold' = "tables"
  /\ UNCHANGED <<view, noMore, paginating, requests, uiq, clears, restarts, fulls>>

\* The same when LMDB's map is full: the cache is trimmed as well, even if the sync
\* had nothing for this room.
MapFull ==
  /\ fulls < MaxFull /\ fulls' = fulls + 1 /\ untold' = "tables"
  /\ \/ SaveNext(TRUE)
     \/ SaveLimited(TRUE)
     \/ db' = DeleteOldMessages(db) /\ UNCHANGED <<server, limits, doubled>>
  /\ UNCHANGED <<view, noMore, paginating, requests, uiq, clears, restarts, failures>>

----------------------------------------------------------------------------

\* canFetchMore: nothing is shown, or the first row is known and not the creation
\* of the room.
CanFetchMore ==
  \/ view = NoView
  \/ view.first \in DOMAIN db.order2msg /\ db.order2msg[view.first] # 1

\* TimelineModel::fetchMore and EventStore::fetchMore: when the user reaches the
\* oldest message shown and it is not the beginning of the room.
FetchMore ==
  /\ ~paginating
  /\ CanFetchMore
  /\ Len(requests) < MaxRequests
  /\ IF noMore THEN UNCHANGED <<paginating, requests>>
     ELSE paginating' = TRUE /\ requests' = Append(requests, PrevToken(db))
  /\ UNCHANGED <<db, view, noMore, uiq, server, bounds, history>>

\* The callback of /messages, on the network thread: an error, or a token that
\* changed meanwhile, only emits fetchedMore.  An answer without a token begins
\* with the newest event that the homeserver has, whatever the syncs brought.
Response ==
  /\ \E k \in DOMAIN requests, ok \in BOOLEAN, newest \in head..Newest :
       /\ newest > head => ok /\ requests[k] = NoTok /\ PrevToken(db) = NoTok
       /\ head' = newest
       /\ requests' = RemoveAt(requests, k)
       /\ uiq' = Append(uiq,
            IF PrevToken(db) # requests[k] \/ ~ok THEN [kind |-> "fetchedMore"]
            ELSE [kind |-> "old", res |-> Messages(requests[k], newest)])
  /\ UNCHANGED <<db, view, noMore, paginating, synced, bounds, history>>

HandleFetchedMore ==
  /\ uiq # <<>> /\ uiq[1].kind = "fetchedMore"
  /\ uiq' = Tail(uiq)
  /\ paginating' = FALSE
  /\ UNCHANGED <<db, view, noMore, requests, server, bounds, history>>

\* Faulty variant of EndReached: a page without anything to show is the end.
EndReachedNothing(res) == \A k \in DOMAIN res.chunk : IsHidden(res.chunk[k]) \/ res.chunk[k] \in Redactions

\* oldMessagesRetrieved stops at an empty or repeated token.
EndReached(res) == res.end = NoTok \/ PrevToken(db) = res.end

\* The rows of the tables new come in front, or there is nothing to show yet and
\* fetchMore is called again.
OldSaved(new) ==
  LET range == TimelineRange(new)
  IN /\ db' = new
     /\ IF FirstIdx(new.order2msg) = view.first \/ (view = NoView /\ range.last = range.first)
          THEN IF noMore THEN paginating' = FALSE /\ UNCHANGED <<view, requests>>
               ELSE /\ requests' = Append(requests, PrevToken(new))
                    /\ UNCHANGED <<view, paginating>>
          ELSE /\ view' = IF view = NoView THEN range
                          ELSE [view EXCEPT !.first = FirstIdx(new.order2msg)]
               /\ paginating' = FALSE
               /\ UNCHANGED requests

\* Our events that the tables new have besides their local echo, which saveOldMessages
\* does not look for.
NowTwice(new) ==
  {p \in Mine : p \in DOMAIN new.evToOrder \ DOMAIN db.evToOrder /\ -p \in DOMAIN db.evToOrder}

\* The oldMessagesRetrieved slot.
HandleOld ==
  /\ uiq # <<>> /\ uiq[1].kind = "old"
  /\ uiq' = Tail(uiq)
  /\ LET res == uiq[1].res
     IN \/ /\ EndReached(res)
           /\ noMore' = TRUE /\ paginating' = FALSE
           /\ UNCHANGED <<db, view, requests>>
        \/ /\ ~EndReached(res)
           /\ \E new \in {SaveOldMessages(db, res.chunk, res.end)} : OldSaved(new)
           /\ UNCHANGED noMore
  /\ doubled' = doubled \cup NowTwice(db')
  /\ UNCHANGED <<server, bounds, untold>>

\* /clear-timeline, or a change of the ignored users.
ClearTimeline ==
  /\ clears < MaxClears /\ clears' = clears + 1
  /\ db' = CacheClearTimeline(db)
  /\ view' = TimelineRange(db')
  /\ noMore' = FALSE /\ untold' = "nothing"
  /\ UNCHANGED <<paginating, requests, uiq, server, limits, restarts, failures, fulls, doubled>>

\* The program starts again: the cache is trimmed and EventStore is created anew.
Restart ==
  /\ restarts < MaxRestarts /\ restarts' = restarts + 1
  /\ db' = DeleteOldMessages(db)
  /\ view' = TimelineRange(db')
  /\ noMore' = FALSE /\ paginating' = FALSE
  /\ requests' = <<>> /\ uiq' = <<>> /\ untold' = "nothing"
  /\ UNCHANGED <<server, limits, clears, failures, fulls, doubled>>

Next ==
  \/ AddPending \/ Sync \/ SyncLimited
  \/ FetchMore \/ Response \/ HandleFetchedMore \/ HandleOld
  \/ ClearTimeline \/ Restart \/ SyncFails \/ MapFull

Spec == Init /\ [][Next]_vars

\* The user keeps scrolling, every request ends and some request succeeds.
Fairness ==
  /\ WF_vars(FetchMore) /\ WF_vars(HandleFetchedMore) /\ WF_vars(HandleOld)
  /\ WF_vars(Response)
  /\ SF_vars(Response /\ uiq'[Len(uiq')].kind = "old")

FairSpec == Spec /\ Fairness

----------------------------------------------------------------------------

Ids(d) == {d.order[i].id : i \in DOMAIN d.order}
Shown(d) == Range(d.order2msg)

\* The tables map indices to events and back, and the window has two bounds or none.
TypeOK ==
  /\ \A i \in DOMAIN db.order :
       db.order[i].id \in (-Newest)..Newest /\ db.order[i].tok \in (0..Newest) \cup {NoTok}
  /\ Range(db.evToOrder) \subseteq Int /\ Range(db.msg2order) \subseteq Int
  /\ view = NoView \/ NoIdx \notin {view.first, view.last}
  /\ noMore \in BOOLEAN /\ paginating \in BOOLEAN
  /\ synced \in Start..Newest /\ head \in synced..Newest
  /\ untold \in Untold /\ doubled \subseteq Mine

\* "inverse of EventOrderDb": event_order and event2order are inverse.
OrderInverse ==
  /\ \A i \in DOMAIN db.order :
       db.order[i].id \in DOMAIN db.evToOrder /\ db.evToOrder[db.order[i].id] = i
  /\ \A id \in DOMAIN db.evToOrder :
       db.evToOrder[id] \in DOMAIN db.order /\ db.order[db.evToOrder[id]].id = id

\* "This check protects against duplicates in the timeline": no event, and no
\* event together with its local echo, has two slots among the messages.  The
\* check does not look for local echoes, so that our own events which a page
\* brought before the sync did are not meant; without a limited sync, a clear or
\* a trim there are none.
NoDuplicates ==
  /\ \A m, n \in DOMAIN db.order2msg :
       db.order2msg[m] = db.order2msg[n] => m = n \/ db.order2msg[m] \in doubled
  /\ \A id \in Shown(db) \ doubled : id > 0 => -id \notin Shown(db)
  /\ limits = 0 /\ clears = 0 /\ restarts = 0 /\ fulls = 0 => doubled = {}

\* EventStore computes rows as differences of indices, so the window it shows is
\* the range of messages that the table holds without holes, unless it is empty;
\* when EventStore was not told of a sync, it is the older part of that range.
\* That is not so after a clear, when the order tables are not inverse, or when
\* EventStore was not told of a limited sync or a trim.
WindowMatches ==
  view # NoView /\ OrderInverse /\ clears = 0 /\ untold # "tables" =>
    /\ view.first <= view.last /\ view.last <= LastIdx(db.order2msg)
    /\ DOMAIN db.order2msg = view.first..LastIdx(db.order2msg)
    /\ untold = "nothing" => view.last = LastIdx(db.order2msg)

\* Nothing is missing between the oldest and the newest event of the timeline:
\* pagination, syncs and echoes leave no gap that scrolling would never fill.
NoGap ==
  \A p, q \in Ids(db) : p > 0 /\ q > 0 =>
    \A r \in p..q : r \in Ids(db) \/ r \in Redactions \/ -r \in Ids(db)

\* The token that fetchMore sends belongs to the oldest entry: every event between
\* the position it names and the last sync has been stored.
TokenContinues ==
  PrevToken(db) # NoTok =>
    \A r \in (PrevToken(db) + 1)..synced : r \in Ids(db) \cup Redactions

\* Pagination stops only at the beginning of the room.
StopsAtBeginning == noMore => PrevToken(db) = 0

\* Someone who keeps scrolling gets to see the whole room.
ReachesBeginning == <>[](view # NoView /\ db.order2msg[view.first] = 1)

\* "Cache cleared while fetching more messages, dropping /messages response":
\* an answer that is stored continues the timeline it was asked for.
AnswerContinues ==
  [][\A res \in {uiq[1].res : k \in {j \in 1..Len(uiq) : j = 1 /\ uiq[j].kind = "old"}} :
       HandleOld /\ db' # db /\ res.chunk # <<>> => PrevToken(db) \in {NoTok, res.chunk[1]}]_vars
=============================================================================
