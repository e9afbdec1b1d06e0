-------------------------- MODULE DeviceKeysProofs --------------------------
(***************************************************************************)
(* Theorems about DeviceKeys for any devices, keys, lists, changes and      *)
(* faults: lists that are served are fresh, keys stay with their devices,   *)
(* remembered states claim no more than the tables, and callbacks come.     *)
(***************************************************************************)
EXTENDS DeviceKeys, Queues

\* A request, and the answer to it, which is not older than what it was asked for.
IsRequest(r) ==
  /\ r = [slot |-> r.slot, kind |-> r.kind, users |-> r.users, tok |-> r.tok,
          answer |-> r.answer, asof |-> r.asof, heard |-> r.heard]
  /\ r.slot \in Slot /\ r.kind \in {"mark", "query", "send"} /\ r.users \subseteq User
  /\ r.tok \in Nat /\ r.tok <= token /\ r.asof \in Nat /\ r.asof <= head
  /\ r.heard \in BOOLEAN
  /\ r.answer # NoAnswer => r.tok <= r.asof /\ \A u \in r.users : r.answer[u] \in Lists[u]

IsContext(c) ==
  /\ c = [slot |-> c.slot, user |-> c.user, called |-> c.called]
  /\ c.slot \in Slot /\ c.user \in User /\ c.called \in BOOLEAN

IsEvent(e) ==
  \/ /\ e.ev = "update" /\ IsRequest(e.req)
     /\ e.req.answer # NoAnswer /\ e.req.kind \in {"mark", "query"}
  \/ e.ev \in {"finalize", "delete"} /\ e.slots \subseteq Slot

ServerOK ==
  /\ list \in [User -> List] /\ changed \in [User -> SUBSET Nat]
  /\ \A u \in User : list[u] \in Lists[u] /\ changed[u] \subseteq 1..head
  /\ head \in Position /\ token \in 0..head

RowsOK ==
  /\ row = [u \in User |-> row[u]]
  /\ \A u \in User : HasRow(u) => row[u] \in Row /\ row[u].last <= token

RequestsOK ==
  /\ \A r \in requests : IsRequest(r)
  /\ \A r, q \in requests : r.slot = q.slot => r = q

ContextsOK ==
  /\ \A c \in contexts : IsContext(c)
  /\ \A c, d \in contexts : c.slot = d.slot => c = d

EventsOK == IsQueue(uiq) /\ \A e \in Elems(uiq) : IsEvent(e)

TablesOK ==
  /\ memo = [u \in User |-> memo[u]] /\ stale \subseteq User
  /\ verified \in [User -> SUBSET Device] /\ pinned \in [User -> [Device -> SUBSET Key]]

IsReading(x) ==
  /\ x = [user |-> x.user, status |-> x.status, overtaken |-> x.overtaken]
  /\ x.user \in User /\ x.overtaken \in BOOLEAN

StateInv ==
  ServerOK /\ RowsOK /\ RequestsOK /\ ContextsOK /\ EventsOK /\ TablesOK /\ IsReading(reading)

\* A change that a sync has announced is on the row of its user.
Announced ==
  \A u \in User : \A c \in changed[u] : c <= token => HasRow(u) /\ c <= row[u].last

\* The list of a row is not older than the token it is stored for.
Stored == \A u \in User : HasRow(u) /\ ~row[u].sent => row[u].updated <= row[u].asof

FreshInv == Announced /\ Stored

\* Two devices that may share the key k: the first list gave it to one of them.
Shared(u, d, e, k) == unchecked[u][d] = k \/ unchecked[u][e] = k

\* Keys that passed the check have been seen, are the only ones of their device,
\* and are on no other.
Pins ==
  \A u \in User : \A d \in Device : \A k \in pinned[u][d] :
    /\ HasRow(u) /\ k \in row[u].seenKeys /\ d \in row[u].seenIds
    /\ row[u].devices[d] \in {NoKey, k}
    /\ \A e \in Device : row[u].devices[e] = k => e = d \/ Shared(u, d, e, k)

\* The keys of a row that did not pass the check are those of the first list.
Carried ==
  \A u \in User : HasRow(u) => \A d \in Device :
    \/ row[u].devices[d] = NoKey
    \/ row[u].devices[d] \in pinned[u][d]
    \/ row[u].devices[d] = unchecked[u][d]

\* A context waits for the query with its slot, and the slot of a context that
\* is to be deleted is that of a request that was heard, or of none.
Waits ==
  /\ \A c \in contexts, r \in requests :
       c.slot = r.slot => r.kind = "query" /\ c.user \in r.users
  /\ \A e \in Elems(uiq) : e.ev = "delete" =>
       \A r \in requests : r.slot \in e.slots => r.heard

LEMMA StateTypes == StateInv => TypeOK
BY DEF StateInv, ServerOK, RowsOK, RequestsOK, ContextsOK, TablesOK, IsReading, IsRequest, TypeOK

----------------------------------------------------------------------------
\* The operators.

LEMMA Numbers ==
  ASSUME ServerOK
  PROVE  /\ head \in Nat /\ token \in Nat /\ token <= head /\ head <= MaxChanges
         /\ \A n \in Nat : n <= head => n \in Position
         /\ \A u \in User : \A c \in changed[u] : c \in Nat /\ 1 <= c /\ c <= head
<1>1. head \in Nat /\ token \in Nat /\ token <= head /\ head <= MaxChanges
  BY KeysBounds DEF ServerOK, Position
<1> QED BY <1>1, KeysBounds DEF ServerOK, Position

\* Requests stay well formed while the homeserver and the syncs go on.
LEMMA Later ==
  ASSUME StateInv, ServerOK', token <= token', head <= head'
  PROVE  /\ \A r : IsRequest(r) => IsRequest(r)'
         /\ \A e : IsEvent(e) => IsEvent(e)'
<1>1. head \in Nat /\ token \in Nat
  BY Numbers DEF StateInv
<1>2. head' \in Nat /\ token' \in Nat
  BY KeysBounds DEF ServerOK, Position
<1>3. ASSUME NEW r, IsRequest(r) PROVE IsRequest(r)'
  BY <1>1, <1>2, <1>3 DEF IsRequest
<1> QED BY <1>3 DEF IsEvent

\* A slot that is not in use.
LEMMA FreeSlot ==
  ASSUME NEW i \in FreeSlots
  PROVE  /\ i \in Slot
         /\ \A r \in requests : r.slot # i
         /\ \A c \in contexts : c.slot # i
         /\ \A e \in Elems(uiq) : i \notin SlotsOf(e)
BY DEF FreeSlots, Elems

\* A list as it came is a row, and so is one that went through the check.
LEMMA RowIs ==
  ASSUME NEW l \in List, NEW tok \in Position, NEW asof \in Position,
         NEW sent \in BOOLEAN
  PROVE  /\ LET f == FirstRow(l, tok, asof, sent)
            IN  /\ f \in Row /\ f.devices = l.devices /\ f.last = 0
                /\ f.updated = tok /\ f.asof = asof /\ f.sent = sent
         /\ \A old \in Row :
              LET m == MergedRow(old, l, tok, asof, sent)
              IN  /\ m \in Row /\ m.last = old.last /\ m.updated = tok /\ m.asof = asof
                  /\ m.sent = sent
                  /\ \A d \in Device :
                       m.devices[d] = IF Accepts(old, l, d) THEN l.devices[d] ELSE NoKey
                  /\ m.seenKeys = old.seenKeys \cup ({l.devices[d] : d \in Device} \ {NoKey})
                  /\ m.seenIds = old.seenIds \cup {d \in Device : l.devices[d] # NoKey}
<1>1. FirstRow(l, tok, asof, sent) =
        [devices |-> l.devices, master |-> l.master, usk |-> l.usk, replaced |-> FALSE,
         seenKeys |-> {}, seenIds |-> {}, updated |-> tok, last |-> 0, asof |-> asof, sent |-> sent]
  BY DEF FirstRow
<1>2. 0 \in Position
  BY KeysBounds DEF Position
<1>3. l.devices \in [Device -> Key \cup {NoKey}] /\ l.master \in Nat /\ l.usk \in Nat
  BY DEF List
<1>4. ASSUME NEW old \in Row
      PROVE  LET m == MergedRow(old, l, tok, asof, sent)
             IN  /\ m \in Row /\ m.last = old.last /\ m.updated = tok /\ m.asof = asof
                 /\ m.sent = sent
                 /\ \A d \in Device :
                      m.devices[d] = IF Accepts(old, l, d) THEN l.devices[d] ELSE NoKey
                 /\ m.seenKeys = old.seenKeys \cup ({l.devices[d] : d \in Device} \ {NoKey})
                 /\ m.seenIds = old.seenIds \cup {d \in Device : l.devices[d] # NoKey}
  <2> DEFINE dev == [d \in Device |-> IF Accepts(old, l, d) THEN l.devices[d] ELSE NoKey]
             keys == old.seenKeys \cup ({l.devices[d] : d \in Device} \ {NoKey})
             ids == old.seenIds \cup {d \in Device : l.devices[d] # NoKey}
             rep == old.replaced \/ (old.master # 0 /\ old.master # l.master)
  <2>1. dev \in [Device -> Key \cup {NoKey}]
    BY <1>3
  <2>2. keys \in SUBSET Key /\ ids \in SUBSET Device
    BY <1>3 DEF Row
  <2>3. rep \in BOOLEAN
    OBVIOUS
  <2>4. old.last \in Position
    BY DEF Row
  <2>5. MergedRow(old, l, tok, asof, sent) =
          [devices |-> dev, master |-> l.master, usk |-> l.usk, replaced |-> rep, seenKeys |-> keys,
           seenIds |-> ids, updated |-> tok, last |-> old.last, asof |-> asof, sent |-> sent]
    BY DEF MergedRow
  <2>6. \A d \in Device : dev[d] = IF Accepts(old, l, d) THEN l.devices[d] ELSE NoKey
    OBVIOUS
  <2> HIDE DEF dev, keys, ids, rep
  <2>7. MergedRow(old, l, tok, asof, sent) \in Row
    BY <1>3, <2>1, <2>2, <2>3, <2>4, <2>5 DEF Row
  <2> QED BY <2>5, <2>6, <2>7 DEF keys, ids
<1>5. FirstRow(l, tok, asof, sent) \in Row
  BY <1>1, <1>2, <1>3 DEF Row
<1> QED BY <1>1, <1>4, <1>5

\* The empty row, and a row that is marked.
LEMMA MarkIs ==
  ASSUME NEW tok \in Position
  PROVE  /\ NewRow \in Row /\ ~NewRow.sent /\ NewRow.updated = 0 /\ NewRow.asof = 0
         /\ \A r \in Row :
              LET m == [r EXCEPT !.last = tok]
              IN  /\ m \in Row /\ m.last = tok
                  /\ m.devices = r.devices /\ m.master = r.master /\ m.usk = r.usk
                  /\ m.replaced = r.replaced /\ m.seenKeys = r.seenKeys /\ m.seenIds = r.seenIds
                  /\ m.updated = r.updated /\ m.asof = r.asof /\ m.sent = r.sent
<1>1. 0 \in Position
  BY KeysBounds DEF Position
<1>2. NewRow \in Row /\ ~NewRow.sent /\ NewRow.updated = 0 /\ NewRow.asof = 0
  BY <1>1 DEF NewRow, Row
<1> QED BY <1>2 DEF Row

\* Requests and contexts with one field changed.
LEMMA AnswerIs ==
  ASSUME NEW r, IsRequest(r), NEW a, NEW n
  PROVE  [[r EXCEPT !.answer = a] EXCEPT !.asof = n] =
           [slot |-> r.slot, kind |-> r.kind, users |-> r.users, tok |-> r.tok,
            answer |-> a, asof |-> n, heard |-> r.heard]
<1> DEFINE m == [r EXCEPT !.answer = a]
<1>1. m = [slot |-> r.slot, kind |-> r.kind, users |-> r.users, tok |-> r.tok,
           answer |-> a, asof |-> r.asof, heard |-> r.heard]
  BY DEF IsRequest
<1> HIDE DEF m
<1>2. [m EXCEPT !.asof = n] =
        [slot |-> r.slot, kind |-> r.kind, users |-> r.users, tok |-> r.tok,
         answer |-> a, asof |-> n, heard |-> r.heard]
  BY <1>1
<1> QED BY <1>2, Zenon DEF m

LEMMA HeardIs ==
  ASSUME NEW r, IsRequest(r), NEW h
  PROVE  [r EXCEPT !.heard = h] =
           [slot |-> r.slot, kind |-> r.kind, users |-> r.users, tok |-> r.tok,
            answer |-> r.answer, asof |-> r.asof, heard |-> h]
BY DEF IsRequest

LEMMA CalledIs ==
  ASSUME NEW c, IsContext(c), NEW b
  PROVE  [c EXCEPT !.called = b] = [slot |-> c.slot, user |-> c.user, called |-> b]
BY DEF IsContext

----------------------------------------------------------------------------
\* What a step does to the rows: nothing, with at most a change that has not been
\* announced; a mark, of all users with newly announced changes; or an update
\* with an answer, for the token it was asked for unless it is of the send path.
Still ==
  /\ UNCHANGED <<row, history, token>>
  /\ \A u \in User : \A c \in changed'[u] : c \in changed[u] \/ token < c

Marking(us) ==
  /\ row' = Outdated(us, token')
  /\ UiIdle /\ UNCHANGED <<server, verified, remembered, erasing, history>>
  /\ token' \in Position /\ token <= token'
  /\ \A u \in User : \A c \in changed[u] : token < c /\ c <= token' => u \in us

\* The states that rest on the answer are erased at once, or later by a thread
\* of the send path.
Erased(us) == Forget(us) /\ UiIdle /\ UNCHANGED <<reading, erasing>>
ErasedLater(us) ==
  /\ \E i : erasing' = erasing \cup {[slot |-> i, users |-> us]}
  /\ UNCHANGED <<memo, stale>>
  /\ reading' = [reading EXCEPT !.overtaken =
                    reading.overtaken \/ (~UiIdle /\ RestsOn(reading.user, us))]

Updating(r, tok) ==
  /\ UpdateUserKeys(r, tok) /\ UNCHANGED <<server, token, verified>>
  /\ Erased(r.users) \/ ErasedLater(r.users)
  /\ IsRequest(r) /\ r.answer # NoAnswer /\ tok \in Nat /\ tok <= token
  /\ r.kind = "send" \/ tok = r.tok

\* A call of verificationStatus that begins changes nothing else.
LEMMA ReadIs ==
  ASSUME NEW u, ReadTables(u)
  PROVE  /\ reading' = [user |-> u, status |-> Status(row, verified, u), overtaken |-> FALSE]
         /\ UNCHANGED <<server, token, row, verified, memo, stale, requests, contexts, erasing, uiq,
                        history>>
BY ZenonT(30) DEF ReadTables

\* The first event of the queue.
LEMMA FirstEvent ==
  ASSUME StateInv, NEW ev, Next1(ev)
  PROVE  /\ Head(uiq) \in Elems(uiq) /\ Head(uiq).ev = ev /\ IsEvent(Head(uiq))
         /\ IsQueue(Tail(uiq)) /\ Elems(uiq) = Elems(Tail(uiq)) \cup {Head(uiq)}
BY EventTail DEF StateInv, EventsOK, Next1

LEMMA RowSteps ==
  ASSUME StateInv, [Next]_vars
  PROVE  \/ Still
         \/ \E us \in SUBSET User : Marking(us)
         \/ \E r, tok : Updating(r, tok)
<1>0. /\ head \in Nat /\ token \in Nat /\ token <= head /\ token \in Position
      /\ \A n \in Nat : n <= head => n \in Position
  BY Numbers DEF StateInv
<1>1. CASE Sync
  <2>1. PICK n \in (token + 1)..head :
          LET us == {u \in User : \E c \in changed[u] : token < c /\ c <= n}
          IN  /\ token' = n
              /\ \E i \in FreeSlots : MarkUserKeysOutOfDate(i, us, n)
              /\ UNCHANGED <<server, verified, remembered, erasing, history>>
    BY <1>1 DEF Sync
  <2> DEFINE us == {u \in User : \E c \in changed[u] : token < c /\ c <= n}
  <2>2. row' = Outdated(us, n) /\ token' = n
    BY <2>1 DEF MarkUserKeysOutOfDate
  <2>3. n \in Position /\ token <= n
    BY <1>0
  <2>4. \A u \in User : \A c \in changed[u] : token < c /\ c <= n => u \in us
    OBVIOUS
  <2>5. us \in SUBSET User
    OBVIOUS
  <2> HIDE DEF us
  <2>6. Marking(us)
    BY <1>1, <2>1, <2>2, <2>3, <2>4 DEF Marking, Sync
  <2> QED BY <2>5, <2>6
<1>2. ASSUME NEW u \in Asked, MarkOne(u) PROVE Marking({u})
  <2>1. /\ row' = Outdated({u}, token) /\ token' = token
        /\ UiIdle /\ UNCHANGED <<server, verified, remembered, erasing, history>>
    BY <1>2 DEF MarkOne, MarkUserKeysOutOfDate
  <2>2. \A v \in User : \A c \in changed[v] : ~(token < c /\ c <= token)
    BY <1>0, Numbers DEF StateInv
  <2> QED BY <1>0, <2>1, <2>2 DEF Marking
<1>3. CASE HandleUpdate
  <2>1. Next1("update") /\ UpdateUserKeys(Head(uiq).req, Head(uiq).req.tok)
        /\ Erased(Head(uiq).req.users) /\ UNCHANGED <<server, token, verified>>
    BY <1>3 DEF HandleUpdate, Next1, Erased
  <2>2. IsRequest(Head(uiq).req) /\ Head(uiq).req.answer # NoAnswer
    BY <2>1, FirstEvent DEF IsEvent
  <2>3. Updating(Head(uiq).req, Head(uiq).req.tok)
    BY <2>1, <2>2 DEF Updating, IsRequest
  <2> QED BY <2>3
<1>4. ASSUME NEW r \in requests, SendDone(r) PROVE Updating(r, token)
  <2>1. UpdateUserKeys(r, token) /\ UNCHANGED <<server, token, verified>>
        /\ ErasedLater(r.users) /\ r.answer # NoAnswer /\ r.kind = "send"
    BY <1>4 DEF SendDone, ErasedLater
  <2>2. IsRequest(r)
    BY DEF StateInv, RequestsOK
  <2> QED BY <1>0, <2>1, <2>2 DEF Updating
<1>5. ASSUME NEW u \in User, Change(u) PROVE Still
  <2>1. changed' = [changed EXCEPT ![u] = changed[u] \cup {head + 1}]
        /\ UNCHANGED <<row, history, token>>
    BY <1>5 DEF Change
  <2>2. token < head + 1
    BY <1>0
  <2>3. \A v \in User : \A c \in changed'[v] : c \in changed[v] \/ c = head + 1
    BY <2>1 DEF StateInv, ServerOK
  <2> QED BY <2>1, <2>2, <2>3 DEF Still
<1>6. UNCHANGED <<row, history, token, changed>> => Still
  BY DEF Still
<1>7. ASSUME NEW u \in Asked,
             VerificationStatus(u) \/ ReadTables(u) \/ RoomVerificationStatus(u) \/ SendQuery(u)
               \/ QueryKeys(u)
      PROVE  UNCHANGED <<row, history, token, changed>>
  BY <1>7, ReadIs DEF VerificationStatus, RoomVerificationStatus, SendQuery, QueryKeys, server
<1>8. ASSUME NEW r \in requests,
             ServerAnswers(r) \/ QueryDone(r) \/ MarkDone(r) \/ QueryFails(r)
      PROVE  UNCHANGED <<row, history, token, changed>>
  BY <1>8 DEF ServerAnswers, QueryDone, MarkDone, QueryFails, server
<1>9. ASSUME NEW v \in Verifiable, MarkDeviceVerified(v[1], v[2]) \/ MarkDeviceUnverified(v[1], v[2])
      PROVE  UNCHANGED <<row, history, token, changed>>
  BY <1>9 DEF MarkDeviceVerified, MarkDeviceUnverified, server
<1>10. ASSUME \/ HandleFinalize \/ HandleDelete \/ Restart \/ UNCHANGED vars
              \/ Remember \/ \E e \in erasing : SendErase(e)
       PROVE  UNCHANGED <<row, history, token, changed>>
  BY <1>10 DEF HandleFinalize, HandleDelete, Restart, Remember, SendErase, vars, server
<1>11. \A u \in Asked : {u} \in SUBSET User
  BY AskedAssumption
<1> QED
  BY <1>1, <1>2, <1>3, <1>4, <1>5, <1>6, <1>7, <1>8, <1>9, <1>10, <1>11 DEF Next

\* A marked row, user by user.
LEMMA MarkingIs ==
  ASSUME StateInv, NEW us \in SUBSET User, Marking(us), NEW u \in User
  PROVE  \/ u \notin us /\ row'[u] = row[u]
         \/ /\ u \in us /\ HasRow(u)' /\ row'[u] \in Row /\ row'[u].last = token'
            /\ \E b \in Row :
                 /\ b = IF HasRow(u) THEN row[u] ELSE NewRow
                 /\ row'[u].devices = b.devices /\ row'[u].master = b.master /\ row'[u].usk = b.usk
                 /\ row'[u].replaced = b.replaced /\ row'[u].seenKeys = b.seenKeys
                 /\ row'[u].seenIds = b.seenIds /\ row'[u].updated = b.updated
                 /\ row'[u].asof = b.asof /\ row'[u].sent = b.sent
<1>1. token' \in Position
  BY DEF Marking
<1>2. row'[u] = IF u \in us THEN [(IF HasRow(u) THEN row[u] ELSE NewRow) EXCEPT !.last = token']
                ELSE row[u]
  BY DEF Marking, Outdated
<1>3. PICK b \in Row : b = IF HasRow(u) THEN row[u] ELSE NewRow
  BY <1>1, MarkIs DEF StateInv, RowsOK
<1>4. LET m == [b EXCEPT !.last = token']
      IN  /\ m \in Row /\ m.last = token'
          /\ m.devices = b.devices /\ m.master = b.master /\ m.usk = b.usk
          /\ m.replaced = b.replaced /\ m.seenKeys = b.seenKeys /\ m.seenIds = b.seenIds
          /\ m.updated = b.updated /\ m.asof = b.asof /\ m.sent = b.sent
  BY <1>1, MarkIs
<1> DEFINE m == [b EXCEPT !.last = token']
<1>5. u \in us => row'[u] = m
  BY <1>2, <1>3
<1>6. /\ m \in Row /\ m.last = token'
      /\ m.devices = b.devices /\ m.master = b.master /\ m.usk = b.usk
      /\ m.replaced = b.replaced /\ m.seenKeys = b.seenKeys /\ m.seenIds = b.seenIds
      /\ m.updated = b.updated /\ m.asof = b.asof /\ m.sent = b.sent
  BY <1>4
<1> HIDE DEF m
<1>7. u \in us => HasRow(u)'
  BY <1>5, <1>6, NoRowAssumption DEF HasRow
<1> QED BY <1>2, <1>3, <1>5, <1>6, <1>7

\* An updated row, user by user.
LEMMA UpdatingIs ==
  ASSUME StateInv, NEW r, NEW tok, Updating(r, tok), NEW u \in User
  PROVE  \E sent \in BOOLEAN :
         \/ row'[u] = row[u] /\ (u \notin r.users \/ ~Expected(u, tok))
         \/ /\ u \in r.users /\ Expected(u, tok)
            /\ r.answer[u] \in Lists[u] /\ r.answer[u] \in List
            /\ HasRow(u) => row[u] \in Row /\ row'[u] = MergedRow(row[u], r.answer[u], tok, r.asof, sent)
            /\ ~HasRow(u) => row'[u] = FirstRow(r.answer[u], tok, r.asof, sent)
            /\ HasRow(u)' /\ row'[u] \in Row
            /\ row'[u].last = (IF HasRow(u) THEN row[u].last ELSE 0)
            /\ row'[u].updated = tok /\ row'[u].asof = r.asof /\ row'[u].sent = sent
            /\ sent <=> r.kind = "send"
<1>0. PICK sent \in BOOLEAN : sent = (r.kind = "send")
  OBVIOUS
<1>1. row'[u] = IF u \notin r.users \/ ~Expected(u, tok) THEN row[u]
                ELSE IF HasRow(u) THEN MergedRow(row[u], r.answer[u], tok, r.asof, sent)
                ELSE FirstRow(r.answer[u], tok, r.asof, sent)
  BY <1>0, Zenon DEF Updating, UpdateUserKeys
<1>2. CASE u \notin r.users \/ ~Expected(u, tok)
  BY <1>1, <1>2
<1>3. CASE u \in r.users /\ Expected(u, tok)
  <2>1. r.answer[u] \in Lists[u] /\ r.answer[u] \in List
    BY <1>3, ListsAssumption DEF Updating, IsRequest
  <2>2. tok \in Position /\ r.asof \in Position
    BY Numbers DEF StateInv, Updating, IsRequest
  <2>3. CASE HasRow(u)
    <3>1. row[u] \in Row /\ row'[u] = MergedRow(row[u], r.answer[u], tok, r.asof, sent)
      BY <1>1, <1>3, <2>3 DEF StateInv, RowsOK
    <3>2. /\ row'[u] \in Row /\ row'[u].last = row[u].last
          /\ row'[u].updated = tok /\ row'[u].asof = r.asof /\ row'[u].sent = sent
      BY <2>1, <2>2, <3>1, RowIs
    <3>3. HasRow(u)'
      BY <3>2, NoRowAssumption DEF HasRow
    <3> QED BY <1>0, <1>3, <2>1, <2>3, <3>1, <3>2, <3>3
  <2>4. CASE ~HasRow(u)
    <3>1. row'[u] = FirstRow(r.answer[u], tok, r.asof, sent)
      BY <1>1, <1>3, <2>4
    <3>2. /\ row'[u] \in Row /\ row'[u].last = 0
          /\ row'[u].updated = tok /\ row'[u].asof = r.asof /\ row'[u].sent = sent
      BY <2>1, <2>2, <3>1, RowIs
    <3>3. HasRow(u)'
      BY <3>2, NoRowAssumption DEF HasRow
    <3> QED BY <1>0, <1>3, <2>1, <2>4, <3>1, <3>2, <3>3
  <2> QED BY <2>3, <2>4
<1> QED BY <1>2, <1>3

----------------------------------------------------------------------------
\* Every step preserves the parts of StateInv.

LEMMA ServerStep ==
  StateInv /\ [Next]_vars => ServerOK' /\ token <= token' /\ head <= head'
<1> SUFFICES ASSUME StateInv, [Next]_vars PROVE ServerOK' /\ token <= token' /\ head <= head'
  OBVIOUS
<1>0. /\ head \in Nat /\ token \in Nat /\ token <= head /\ head <= MaxChanges
      /\ list \in [User -> List] /\ changed \in [User -> SUBSET Nat]
      /\ \A u \in User : list[u] \in Lists[u] /\ changed[u] \subseteq 1..head
  BY Numbers DEF StateInv, ServerOK
<1>1. CASE Sync
  <2>1. PICK n \in (token + 1)..head : token' = n /\ UNCHANGED server
    BY <1>1 DEF Sync
  <2> QED BY <1>0, <2>1 DEF StateInv, ServerOK, server
<1>2. ASSUME NEW u \in User, Change(u) PROVE ServerOK' /\ token <= token' /\ head <= head'
  <2>1. PICK l \in Lists[u] : list' = [list EXCEPT ![u] = l]
    BY <1>2 DEF Change
  <2>2. /\ head < MaxChanges /\ head' = head + 1 /\ token' = token
        /\ changed' = [changed EXCEPT ![u] = changed[u] \cup {head + 1}]
    BY <1>2 DEF Change
  <2>3. l \in List
    BY ListsAssumption
  <2>4. list' \in [User -> List] /\ \A v \in User : list'[v] \in Lists[v]
    BY <1>0, <2>1, <2>3
  <2>5. changed' \in [User -> SUBSET Nat] /\ \A v \in User : changed'[v] \subseteq 1..head'
    BY <1>0, <2>2
  <2>6. head' \in Position /\ token' \in 0..head' /\ token <= token' /\ head <= head'
    BY <1>0, <2>2, KeysBounds DEF Position
  <2> QED BY <2>4, <2>5, <2>6 DEF ServerOK
<1>3. CASE UNCHANGED <<server, token>>
  BY <1>0, <1>3 DEF StateInv, ServerOK, server
<1>4. ASSUME NEW u \in Asked,
             VerificationStatus(u) \/ ReadTables(u) \/ RoomVerificationStatus(u) \/ MarkOne(u) \/ SendQuery(u)
               \/ QueryKeys(u)
      PROVE  UNCHANGED <<server, token>>
  BY <1>4, ReadIs DEF VerificationStatus, RoomVerificationStatus, MarkOne, SendQuery, QueryKeys
<1>5. ASSUME NEW r \in requests,
             ServerAnswers(r) \/ QueryDone(r) \/ MarkDone(r) \/ SendDone(r) \/ QueryFails(r)
      PROVE  UNCHANGED <<server, token>>
  BY <1>5 DEF ServerAnswers, QueryDone, MarkDone, SendDone, QueryFails
<1>6. ASSUME NEW v \in Verifiable, MarkDeviceVerified(v[1], v[2]) \/ MarkDeviceUnverified(v[1], v[2])
      PROVE  UNCHANGED <<server, token>>
  BY <1>6 DEF MarkDeviceVerified, MarkDeviceUnverified
<1>7. ASSUME \/ HandleUpdate \/ HandleFinalize \/ HandleDelete \/ Restart \/ UNCHANGED vars
             \/ Remember \/ \E e \in erasing : SendErase(e)
      PROVE  UNCHANGED <<server, token>>
  BY <1>7 DEF HandleUpdate, HandleFinalize, HandleDelete, Restart, Remember, SendErase, vars
<1> QED BY <1>1, <1>2, <1>3, <1>4, <1>5, <1>6, <1>7 DEF Next

LEMMA RowsStep == StateInv /\ [Next]_vars => RowsOK'
<1> SUFFICES ASSUME StateInv, [Next]_vars PROVE RowsOK'
  OBVIOUS
<1>0. token \in Nat /\ RowsOK
  BY Numbers DEF StateInv
<1>1. CASE Still
  BY <1>0, <1>1 DEF Still, RowsOK, HasRow
<1>2. ASSUME NEW us \in SUBSET User, Marking(us) PROVE RowsOK'
  <2>1. row' = [u \in User |-> row'[u]]
    BY <1>2 DEF Marking, Outdated
  <2>2. token' \in Nat /\ token <= token'
    BY <1>2, KeysBounds DEF Marking, Position
  <2>3. ASSUME NEW u \in User, HasRow(u)' PROVE row'[u] \in Row /\ row'[u].last <= token'
    <3>1. CASE row'[u] = row[u]
      <4>1. row[u] \in Row /\ row[u].last <= token
        BY <1>0, <2>3, <3>1 DEF RowsOK, HasRow
      <4>2. row[u].last \in Nat
        BY <4>1, KeysBounds DEF Row, Position
      <4> QED BY <1>0, <2>2, <3>1, <4>1, <4>2
    <3>2. CASE row'[u] \in Row /\ row'[u].last = token'
      BY <2>2, <3>2
    <3> QED BY <1>2, <3>1, <3>2, MarkingIs
  <2> QED BY <2>1, <2>3 DEF RowsOK
<1>3. ASSUME NEW r, NEW tok, Updating(r, tok) PROVE RowsOK'
  <2>1. row' = [u \in User |-> row'[u]]
    BY <1>3 DEF Updating, UpdateUserKeys
  <2>2. token' = token
    BY <1>3 DEF Updating
  <2>3. ASSUME NEW u \in User, HasRow(u)' PROVE row'[u] \in Row /\ row'[u].last <= token'
    <3>1. CASE row'[u] = row[u]
      BY <1>0, <2>2, <2>3, <3>1 DEF RowsOK, HasRow
    <3>2. CASE row'[u] \in Row /\ row'[u].last = (IF HasRow(u) THEN row[u].last ELSE 0)
      BY <1>0, <2>2, <3>2 DEF RowsOK
    <3> QED BY <1>3, <3>1, <3>2, UpdatingIs
  <2> QED BY <2>1, <2>3 DEF RowsOK
<1> QED BY <1>1, <1>2, <1>3, RowSteps

\* A request more, in a slot that was free.
LEMMA RequestMore ==
  ASSUME StateInv, [Next]_vars, NEW i \in FreeSlots, NEW kind \in {"mark", "query", "send"},
         NEW us \in SUBSET User, NEW tok \in Nat, tok <= token',
         requests' = requests \cup {Request(i, kind, us, tok)}
  PROVE  RequestsOK'
<1> DEFINE r == Request(i, kind, us, tok)
<1>1. i \in Slot /\ \A q \in requests : q.slot # i
  BY FreeSlot
<1>2. r.slot = i
  BY DEF Request
<1>3. head' \in Nat /\ 0 <= head'
  BY ServerStep, KeysBounds DEF ServerOK, Position
<1>4. IsRequest(r)'
  BY <1>1, <1>3 DEF Request, IsRequest
<1>5. \A q \in requests : IsRequest(q)'
  BY ServerStep, Later DEF StateInv, RequestsOK
<1>6. requests' = requests \cup {r}
  OBVIOUS
<1>7. ASSUME NEW p \in requests', NEW q \in requests', p.slot = q.slot PROVE p = q
  BY <1>1, <1>2, <1>6, <1>7 DEF StateInv, RequestsOK
<1>8. \A q \in requests' : IsRequest(q)'
  <2>1. ASSUME NEW q \in requests' PROVE IsRequest(q)'
    <3>1. CASE q \in requests
      BY <1>5, <3>1
    <3>2. CASE q = r
      BY <1>4, <3>2 DEF IsRequest
    <3> QED BY <1>6, <3>1, <3>2
  <2> QED BY <2>1
<1> QED BY <1>7, <1>8 DEF RequestsOK

\* A request after the callbacks of the contexts in run have run.
Told(r, run) == [r EXCEPT !.heard = r.heard \/ \E c \in run : c.slot = r.slot]

LEMMA HeardRequests ==
  ASSUME StateInv, NEW run
  PROVE  /\ \A q \in Heard(run) : \E r \in requests :
              /\ q.slot = r.slot /\ q.kind = r.kind /\ q.users = r.users
              /\ r.heard => q.heard
              /\ (\E c \in run : c.slot = r.slot) => q.heard
              /\ q.heard => r.heard \/ \E c \in run : c.slot = r.slot
              /\ IsRequest(q)
              /\ q = Told(r, run)
         /\ \A r \in requests : \E q \in Heard(run) : q.slot = r.slot
<1>1. ASSUME NEW r \in requests, NEW h \in BOOLEAN
      PROVE  LET q == [r EXCEPT !.heard = h]
             IN  /\ q.slot = r.slot /\ q.kind = r.kind /\ q.users = r.users
                 /\ q.heard = h /\ IsRequest(q)
  <2>1. IsRequest(r)
    BY DEF StateInv, RequestsOK
  <2>2. [r EXCEPT !.heard = h] =
          [slot |-> r.slot, kind |-> r.kind, users |-> r.users, tok |-> r.tok,
           answer |-> r.answer, asof |-> r.asof, heard |-> h]
    BY <2>1, HeardIs
  <2> QED BY <2>1, <2>2 DEF IsRequest
<1>2. ASSUME NEW r \in requests
      PROVE  LET q == Told(r, run)
             IN  /\ q.slot = r.slot /\ q.kind = r.kind /\ q.users = r.users
                 /\ q.heard = (r.heard \/ \E c \in run : c.slot = r.slot) /\ IsRequest(q)
  <2> DEFINE h == r.heard \/ \E c \in run : c.slot = r.slot
  <2>1. h \in BOOLEAN
    OBVIOUS
  <2> HIDE DEF h
  <2>2. LET q == [r EXCEPT !.heard = h]
        IN  /\ q.slot = r.slot /\ q.kind = r.kind /\ q.users = r.users
            /\ q.heard = h /\ IsRequest(q)
    BY <1>1, <2>1
  <2>3. Told(r, run) = [r EXCEPT !.heard = h]
    BY Zenon DEF Told, h
  <2> QED BY <2>2, <2>3 DEF h
<1>3. Heard(run) = {Told(r, run) : r \in requests}
  BY Zenon DEF Heard, Told
<1> QED BY <1>2, <1>3

LEMMA RequestsStep == StateInv /\ [Next]_vars => RequestsOK'
<1> SUFFICES ASSUME StateInv, [Next]_vars PROVE RequestsOK'
  OBVIOUS
<1>0. /\ token \in Nat /\ token <= token' /\ token' \in Nat
      /\ \A r : IsRequest(r) => IsRequest(r)'
      /\ RequestsOK
  BY ServerStep, Later, Numbers, KeysBounds DEF StateInv, ServerOK, Position
<1>1. CASE requests' \subseteq requests
  BY <1>0, <1>1 DEF RequestsOK
<1>2. CASE Sync
  <2>1. PICK n \in (token + 1)..head :
          LET us == {u \in User : \E c \in changed[u] : token < c /\ c <= n}
          IN  token' = n /\ \E i \in FreeSlots : MarkUserKeysOutOfDate(i, us, n)
    BY <1>2 DEF Sync
  <2> DEFINE us == {u \in User : \E c \in changed[u] : token < c /\ c <= n}
  <2>2. us \in SUBSET User /\ n \in Nat /\ n <= token'
    BY <1>0, <2>1
  <2>3. PICK i \in FreeSlots : requests' = requests \cup {Request(i, "mark", us, n)}
    BY <2>1 DEF MarkUserKeysOutOfDate
  <2> HIDE DEF us
  <2> QED BY <2>2, <2>3, RequestMore
<1>3. ASSUME NEW u \in Asked, MarkOne(u) \/ RoomVerificationStatus(u) PROVE RequestsOK'
  <2>1. PICK i \in FreeSlots : requests' = requests \cup {Request(i, "mark", {u}, token)}
    BY <1>3 DEF MarkOne, RoomVerificationStatus, MarkUserKeysOutOfDate
  <2>2. {u} \in SUBSET User
    BY AskedAssumption
  <2> QED BY <1>0, <2>1, <2>2, RequestMore
<1>4. ASSUME NEW u \in Asked, SendQuery(u) PROVE RequestsOK'
  <2>1. PICK i \in FreeSlots : requests' = requests \cup {Request(i, "send", {u}, 0)}
    BY <1>4 DEF SendQuery
  <2>2. {u} \in SUBSET User /\ 0 \in Nat /\ 0 <= token'
    BY <1>0, AskedAssumption
  <2> QED BY <2>1, <2>2, RequestMore
<1>5. ASSUME NEW u \in Asked, QueryKeys(u) PROVE RequestsOK'
  <2> DEFINE tok == IF HasRow(u) THEN row[u].last ELSE 0
  <2>1. PICK i \in FreeSlots : requests' = requests \cup {Request(i, "query", {u}, tok)}
    BY <1>5 DEF QueryKeys
  <2>2. {u} \in SUBSET User /\ u \in User
    BY AskedAssumption
  <2>3. tok \in Nat /\ tok <= token
    BY <1>0, <2>2, KeysBounds DEF StateInv, RowsOK, Row, Position
  <2> HIDE DEF tok
  <2>4. tok <= token'
    BY <1>0, <2>3
  <2> QED BY <2>1, <2>2, <2>3, <2>4, RequestMore
<1>6. ASSUME NEW r \in requests, ServerAnswers(r) PROVE RequestsOK'
  <2> DEFINE a == [u \in r.users |-> list[u]]
             q == [[r EXCEPT !.answer = a] EXCEPT !.asof = head]
  <2>1. requests' = (requests \ {r}) \cup {q}
    BY <1>6 DEF ServerAnswers
  <2>2. IsRequest(r)
    BY <1>0 DEF RequestsOK
  <2>3. \A u \in r.users : a[u] \in Lists[u]
    BY <2>2 DEF IsRequest, StateInv, ServerOK
  <2> HIDE DEF a
  <2>4. q = [slot |-> r.slot, kind |-> r.kind, users |-> r.users, tok |-> r.tok,
             answer |-> a, asof |-> head, heard |-> r.heard]
    BY <2>2, AnswerIs
  <2> HIDE DEF q
  <2>5. head \in Nat /\ token <= head
    BY Numbers DEF StateInv
  <2>6. IsRequest(q) /\ q.slot = r.slot
    BY <1>0, <2>2, <2>3, <2>4, <2>5 DEF IsRequest
  <2> QED BY <1>0, <2>1, <2>6 DEF RequestsOK
<1>7. CASE HandleFinalize
  <2> DEFINE run == {c \in contexts : c.slot \in Head(uiq).slots}
  <2>1. requests' = Heard(run)
    BY <1>7 DEF HandleFinalize
  <2> HIDE DEF run
  <2>2. \A q \in requests' : \E r \in requests :
          /\ q.slot = r.slot /\ IsRequest(q)
          /\ q = Told(r, run)
    BY <2>1, HeardRequests
  <2>3. ASSUME NEW p \in requests', NEW q \in requests', p.slot = q.slot PROVE p = q
    <3>1. PICK r \in requests :
            p.slot = r.slot /\ p = Told(r, run)
      BY <2>2
    <3>2. PICK s \in requests :
            q.slot = s.slot /\ q = Told(s, run)
      BY <2>2
    <3>3. r = s
      BY <1>0, <2>3, <3>1, <3>2 DEF RequestsOK
    <3> QED BY <3>1, <3>2, <3>3
  <2>4. \A q \in requests' : IsRequest(q)'
    BY <1>0, <2>2
  <2> QED BY <2>3, <2>4 DEF RequestsOK
<1>8. ASSUME NEW r \in requests, QueryDone(r) \/ MarkDone(r) \/ SendDone(r) \/ QueryFails(r)
      PROVE  requests' \subseteq requests
  BY <1>8 DEF QueryDone, MarkDone, SendDone, QueryFails
<1>9. ASSUME NEW u \in Asked, VerificationStatus(u) \/ ReadTables(u) PROVE requests' = requests
  BY <1>9, ReadIs DEF VerificationStatus
<1>10. ASSUME NEW v \in Verifiable, MarkDeviceVerified(v[1], v[2]) \/ MarkDeviceUnverified(v[1], v[2])
       PROVE  requests' = requests
  BY <1>10 DEF MarkDeviceVerified, MarkDeviceUnverified
<1>11. ASSUME \/ HandleUpdate \/ HandleDelete \/ Restart \/ UNCHANGED vars
              \/ Remember \/ \E e \in erasing : SendErase(e)
       PROVE  requests' \subseteq requests
  BY <1>11 DEF HandleUpdate, HandleDelete, Restart, Remember, SendErase, vars
<1>12. ASSUME NEW u \in User, Change(u) PROVE requests' = requests
  BY <1>12 DEF Change
<1> QED
  BY <1>1, <1>2, <1>3, <1>4, <1>5, <1>6, <1>7, <1>8, <1>9, <1>10, <1>11, <1>12 DEF Next

\* A context whose callback has run, and one whose callback runs if b.
Ran(c) == [c EXCEPT !.called = TRUE]
RanIf(c, b) == [c EXCEPT !.called = c.called \/ b]

LEMMA RanIs ==
  ASSUME NEW c, IsContext(c)
  PROVE  /\ IsContext(Ran(c)) /\ Ran(c).slot = c.slot /\ Ran(c).user = c.user /\ Ran(c).called
         /\ \A b \in BOOLEAN :
              /\ IsContext(RanIf(c, b)) /\ RanIf(c, b).slot = c.slot /\ RanIf(c, b).user = c.user
              /\ c.called \/ b => RanIf(c, b).called
<1>1. Ran(c) = [slot |-> c.slot, user |-> c.user, called |-> TRUE]
  BY CalledIs DEF Ran
<1>2. IsContext(Ran(c)) /\ Ran(c).slot = c.slot /\ Ran(c).user = c.user /\ Ran(c).called
  BY <1>1 DEF IsContext
<1>3. ASSUME NEW b \in BOOLEAN
      PROVE  /\ IsContext(RanIf(c, b)) /\ RanIf(c, b).slot = c.slot /\ RanIf(c, b).user = c.user
             /\ c.called \/ b => RanIf(c, b).called
  <2> DEFINE h == c.called \/ b
  <2>1. h \in BOOLEAN
    OBVIOUS
  <2>2. RanIf(c, b) = [c EXCEPT !.called = h]
    BY Zenon DEF RanIf
  <2> HIDE DEF h
  <2>3. RanIf(c, b) = [slot |-> c.slot, user |-> c.user, called |-> h]
    BY <2>2, CalledIs
  <2>4. IsContext(RanIf(c, b)) /\ RanIf(c, b).slot = c.slot /\ RanIf(c, b).user = c.user
        /\ RanIf(c, b).called = h
    BY <2>1, <2>3 DEF IsContext
  <2> QED BY <2>4 DEF h
<1> QED BY <1>2, <1>3

\* What HandleFinalize and QueryFails do to the contexts.
LEMMA FinalizeIs ==
  ASSUME StateInv, HandleFinalize
  PROVE  \E run \in SUBSET contexts :
           /\ run = {c \in contexts : c.slot \in Head(uiq).slots}
           /\ contexts' = (contexts \ run) \cup {Ran(c) : c \in run}
           /\ requests' = Heard(run)
           /\ uiq' = Append(Tail(uiq), [ev |-> "delete", slots |-> {c.slot : c \in run}])
<1> DEFINE run == {c \in contexts : c.slot \in Head(uiq).slots}
<1>1. /\ contexts' = (contexts \ run) \cup {[c EXCEPT !.called = TRUE] : c \in run}
      /\ requests' = Heard(run)
      /\ uiq' = Append(Tail(uiq), [ev |-> "delete", slots |-> {c.slot : c \in run}])
  BY DEF HandleFinalize
<1>2. run \in SUBSET contexts
  OBVIOUS
<1>3. run = {c \in contexts : c.slot \in Head(uiq).slots}
  OBVIOUS
<1> HIDE DEF run
<1>4. contexts' = (contexts \ run) \cup {Ran(c) : c \in run}
  BY <1>1, Zenon DEF Ran
<1> QED BY <1>1, <1>2, <1>3, <1>4

LEMMA FailsIs ==
  ASSUME NEW r, QueryFails(r)
  PROVE  contexts' = {RanIf(c, c.slot = r.slot) : c \in contexts}
<1>1. contexts' = {[c EXCEPT !.called = c.called \/ c.slot = r.slot] : c \in contexts}
  BY DEF QueryFails
<1> QED BY <1>1, Zenon DEF RanIf

LEMMA ContextsStep == StateInv /\ [Next]_vars => ContextsOK'
<1> SUFFICES ASSUME StateInv, [Next]_vars PROVE ContextsOK'
  OBVIOUS
<1>0. /\ \A c \in contexts : IsContext(c)
      /\ \A c, d \in contexts : c.slot = d.slot => c = d
  BY DEF StateInv, ContextsOK
<1>1. CASE contexts' \subseteq contexts
  BY <1>0, <1>1 DEF ContextsOK, IsContext
<1>2. ASSUME NEW u \in Asked, QueryKeys(u) PROVE ContextsOK'
  <2>1. PICK i \in FreeSlots :
          contexts' = contexts \cup {[slot |-> i, user |-> u, called |-> FALSE]}
    BY <1>2 DEF QueryKeys
  <2>2. PICK c : c = [slot |-> i, user |-> u, called |-> FALSE]
    OBVIOUS
  <2>3. i \in Slot /\ \A d \in contexts : d.slot # i
    BY FreeSlot
  <2>4. IsContext(c) /\ c.slot = i
    BY <2>2, <2>3, AskedAssumption DEF IsContext
  <2>5. contexts' = contexts \cup {c}
    BY <2>1, <2>2
  <2>6. \A d \in contexts' : IsContext(d)
    BY <1>0, <2>4, <2>5
  <2>7. \A d, e \in contexts' : d.slot = e.slot => d = e
    BY <1>0, <2>3, <2>4, <2>5
  <2> QED BY <2>6, <2>7 DEF ContextsOK, IsContext
<1>3. CASE HandleFinalize
  <2>1. PICK run \in SUBSET contexts : contexts' = (contexts \ run) \cup {Ran(c) : c \in run}
    BY <1>3, FinalizeIs
  <2>2. \A c \in contexts : IsContext(Ran(c)) /\ Ran(c).slot = c.slot
    BY <1>0, RanIs
  <2>3. \A c \in contexts' : IsContext(c)
    BY <1>0, <2>1, <2>2
  <2>4. \A c, d \in contexts' : c.slot = d.slot => c = d
    BY <1>0, <2>1, <2>2
  <2> QED BY <2>3, <2>4 DEF ContextsOK, IsContext
<1>4. ASSUME NEW r \in requests, QueryFails(r) PROVE ContextsOK'
  <2>1. contexts' = {RanIf(c, c.slot = r.slot) : c \in contexts}
    BY <1>4, FailsIs
  <2>2. ASSUME NEW c \in contexts
        PROVE  IsContext(RanIf(c, c.slot = r.slot)) /\ RanIf(c, c.slot = r.slot).slot = c.slot
    <3>1. PICK b \in BOOLEAN : b = (c.slot = r.slot)
      OBVIOUS
    <3>2. IsContext(RanIf(c, b)) /\ RanIf(c, b).slot = c.slot
      BY <1>0, RanIs
    <3> QED BY <3>1, <3>2, Zenon
  <2> DEFINE F(c) == RanIf(c, c.slot = r.slot)
  <2>3. contexts' = {F(c) : c \in contexts} /\ \A c \in contexts : IsContext(F(c)) /\ F(c).slot = c.slot
    BY <2>1, <2>2, Zenon
  <2> HIDE DEF F
  <2>4. \A c \in contexts' : IsContext(c)
    BY <2>3
  <2>5. \A c, d \in contexts' : c.slot = d.slot => c = d
    BY <1>0, <2>3
  <2> QED BY <2>4, <2>5 DEF ContextsOK, IsContext
<1>5. ASSUME NEW u \in Asked,
             VerificationStatus(u) \/ ReadTables(u) \/ RoomVerificationStatus(u) \/ MarkOne(u) \/ SendQuery(u)
      PROVE  contexts' = contexts
  BY <1>5, ReadIs DEF VerificationStatus, RoomVerificationStatus, MarkOne, SendQuery
<1>6. ASSUME NEW r \in requests, ServerAnswers(r) \/ QueryDone(r) \/ MarkDone(r) \/ SendDone(r)
      PROVE  contexts' = contexts
  BY <1>6 DEF ServerAnswers, QueryDone, MarkDone, SendDone
<1>7. ASSUME NEW v \in Verifiable, MarkDeviceVerified(v[1], v[2]) \/ MarkDeviceUnverified(v[1], v[2])
      PROVE  contexts' = contexts
  BY <1>7 DEF MarkDeviceVerified, MarkDeviceUnverified
<1>8. ASSUME \/ Sync \/ HandleUpdate \/ HandleDelete \/ Restart \/ UNCHANGED vars
             \/ Remember \/ \E e \in erasing : SendErase(e)
      PROVE  contexts' \subseteq contexts
  BY <1>8 DEF Sync, HandleUpdate, HandleDelete, Restart, Remember, SendErase, vars
<1>9. ASSUME NEW u \in User, Change(u) PROVE contexts' = contexts
  BY <1>9 DEF Change
<1> QED BY <1>1, <1>2, <1>3, <1>4, <1>5, <1>6, <1>7, <1>8, <1>9 DEF Next

\* The events that a step puts into the queue.
LEMMA QueueSteps ==
  ASSUME StateInv, [Next]_vars
  PROVE  \/ IsQueue(uiq') /\ Elems(uiq') \subseteq Elems(uiq)
         \/ \E r \in requests : QueryDone(r) \/ MarkDone(r)
         \/ HandleFinalize
<1>0. IsQueue(uiq)
  BY DEF StateInv, EventsOK
<1>1. CASE uiq' = uiq
  BY <1>0, <1>1
<1>2. CASE HandleUpdate
  <2>1. Next1("update") /\ uiq' = Tail(uiq)
    BY <1>2 DEF HandleUpdate
  <2> QED BY <2>1, FirstEvent
<1>3. CASE HandleDelete
  <2>1. Next1("delete") /\ uiq' = Tail(uiq)
    BY <1>3 DEF HandleDelete
  <2> QED BY <2>1, FirstEvent
<1>4. CASE Restart
  <2>1. uiq' = <<>>
    BY <1>4 DEF Restart
  <2> QED BY <2>1, EmptyQueue
<1>5. ASSUME NEW u \in Asked,
             VerificationStatus(u) \/ ReadTables(u) \/ RoomVerificationStatus(u) \/ MarkOne(u) \/ SendQuery(u)
               \/ QueryKeys(u)
      PROVE  uiq' = uiq
  BY <1>5, ReadIs DEF VerificationStatus, RoomVerificationStatus, MarkOne, SendQuery, QueryKeys
<1>6. ASSUME NEW r \in requests, ServerAnswers(r) \/ SendDone(r) \/ QueryFails(r)
      PROVE  uiq' = uiq
  BY <1>6 DEF ServerAnswers, SendDone, QueryFails
<1>7. ASSUME NEW v \in Verifiable, MarkDeviceVerified(v[1], v[2]) \/ MarkDeviceUnverified(v[1], v[2])
      PROVE  uiq' = uiq
  BY <1>7 DEF MarkDeviceVerified, MarkDeviceUnverified
<1>8. ASSUME Sync \/ UNCHANGED vars \/ Remember \/ \E e \in erasing : SendErase(e)
      PROVE  uiq' = uiq
  BY <1>8 DEF Sync, Remember, SendErase, vars
<1>9. ASSUME NEW u \in User, Change(u) PROVE uiq' = uiq
  BY <1>9 DEF Change
<1> QED BY <1>1, <1>2, <1>3, <1>4, <1>5, <1>6, <1>7, <1>8, <1>9 DEF Next

\* The events that QueryDone, MarkDone and HandleFinalize queue.
LEMMA DoneIs ==
  ASSUME StateInv, NEW r \in requests, QueryDone(r)
  PROVE  /\ IsQueue(uiq')
         /\ Elems(uiq') = Elems(uiq) \cup {[ev |-> "update", req |-> r],
              [ev |-> "finalize", slots |-> UNION {Connected(u) : u \in r.users}]}
BY EventsAppend, ZenonT(60) DEF QueryDone, StateInv, EventsOK

LEMMA MarkedIs ==
  ASSUME StateInv, NEW r \in requests, MarkDone(r)
  PROVE  IsQueue(uiq') /\ Elems(uiq') = Elems(uiq) \cup {[ev |-> "update", req |-> r]}
BY EventAppend DEF MarkDone, StateInv, EventsOK

LEMMA DeletesIs ==
  ASSUME StateInv, HandleFinalize, NEW D, uiq' = Append(Tail(uiq), [ev |-> "delete", slots |-> D])
  PROVE  /\ IsQueue(uiq')
         /\ Elems(uiq') = Elems(Tail(uiq)) \cup {[ev |-> "delete", slots |-> D]}
         /\ Elems(uiq) = Elems(Tail(uiq)) \cup {Head(uiq)} /\ Head(uiq).ev = "finalize"
<1>1. Next1("finalize")
  BY DEF HandleFinalize
<1>2. /\ IsQueue(Tail(uiq)) /\ Elems(uiq) = Elems(Tail(uiq)) \cup {Head(uiq)}
      /\ Head(uiq).ev = "finalize"
  BY <1>1, FirstEvent
<1> QED BY <1>2, EventAppend

LEMMA EventsStep == StateInv /\ [Next]_vars => EventsOK'
<1> SUFFICES ASSUME StateInv, [Next]_vars PROVE EventsOK'
  OBVIOUS
<1>0. /\ \A e : IsEvent(e) => IsEvent(e)'
      /\ \A r : IsRequest(r) => IsRequest(r)'
      /\ \A e \in Elems(uiq) : IsEvent(e)
  BY ServerStep, Later DEF StateInv, EventsOK
<1>1. CASE IsQueue(uiq') /\ Elems(uiq') \subseteq Elems(uiq)
  <2>1. \A e \in Elems(uiq') : IsEvent(e)'
    BY <1>0, <1>1
  <2> QED BY <1>1, <2>1 DEF EventsOK, IsQueue, Elems
<1>2. ASSUME NEW r \in requests, QueryDone(r) PROVE EventsOK'
  <2> DEFINE D == UNION {Connected(u) : u \in r.users}
  <2>1. /\ IsQueue(uiq')
        /\ Elems(uiq') = Elems(uiq) \cup {[ev |-> "update", req |-> r], [ev |-> "finalize", slots |-> D]}
    BY <1>2, DoneIs
  <2>2. D \subseteq Slot
    BY DEF Connected, StateInv, ContextsOK, IsContext
  <2> HIDE DEF D
  <2>3. IsRequest(r) /\ r.answer # NoAnswer /\ r.kind = "query"
    BY <1>2 DEF QueryDone, StateInv, RequestsOK
  <2>4. IsEvent([ev |-> "update", req |-> r]) /\ IsEvent([ev |-> "finalize", slots |-> D])
    BY <2>2, <2>3 DEF IsEvent
  <2>5. \A e \in Elems(uiq') : IsEvent(e)'
    BY <1>0, <2>1, <2>4
  <2> QED BY <2>1, <2>5 DEF EventsOK, IsQueue, Elems
<1>3. ASSUME NEW r \in requests, MarkDone(r) PROVE EventsOK'
  <2>1. IsQueue(uiq') /\ Elems(uiq') = Elems(uiq) \cup {[ev |-> "update", req |-> r]}
    BY <1>3, MarkedIs
  <2>2. IsRequest(r) /\ r.answer # NoAnswer /\ r.kind = "mark"
    BY <1>3 DEF MarkDone, StateInv, RequestsOK
  <2>3. IsEvent([ev |-> "update", req |-> r])
    BY <2>2 DEF IsEvent
  <2>4. \A e \in Elems(uiq') : IsEvent(e)'
    BY <1>0, <2>1, <2>3
  <2> QED BY <2>1, <2>4 DEF EventsOK, IsQueue, Elems
<1>4. CASE HandleFinalize
  <2>1. PICK run \in SUBSET contexts :
          uiq' = Append(Tail(uiq), [ev |-> "delete", slots |-> {c.slot : c \in run}])
    BY <1>4, FinalizeIs
  <2> DEFINE D == {c.slot : c \in run}
  <2>2. D \subseteq Slot
    BY DEF StateInv, ContextsOK, IsContext
  <2>3. uiq' = Append(Tail(uiq), [ev |-> "delete", slots |-> D])
    BY <2>1
  <2> HIDE DEF D
  <2>4. /\ IsQueue(uiq')
        /\ Elems(uiq') = Elems(Tail(uiq)) \cup {[ev |-> "delete", slots |-> D]}
        /\ Elems(uiq) = Elems(Tail(uiq)) \cup {Head(uiq)}
    BY <1>4, <2>3, DeletesIs
  <2>5. IsEvent([ev |-> "delete", slots |-> D])
    BY <2>2 DEF IsEvent
  <2>6. \A e \in Elems(uiq') : IsEvent(e)'
    BY <1>0, <2>4, <2>5
  <2> QED BY <2>4, <2>6 DEF EventsOK, IsQueue, Elems
<1> QED BY <1>1, <1>2, <1>3, <1>4, QueueSteps

----------------------------------------------------------------------------
\* What a step does to the memo: nothing, while a thread of the send path may
\* commit a list that it will erase the states of; it forgets states, when a
\* table of their users changes, such a thread goes on or the program starts
\* again; or it remembers one.
Keeps == UNCHANGED <<memo, stale, verified>> /\ erasing \subseteq erasing'
Forgets(us) ==
  /\ Forget(us) /\ verified' = verified
  /\ \A e \in erasing : e \in erasing' \/ \A v \in User : RestsOn(v, e.users) => RestsOn(v, us)
Learns(u) ==
  memo' = [memo EXCEPT ![u] = Known(u)] /\ UNCHANGED <<stale, erasing, row, verified>>
Remembers ==
  /\ Remember /\ UNCHANGED <<erasing, row, verified>>
Verifies(u) ==
  /\ Forget({u}) /\ UNCHANGED <<erasing, row>>
  /\ verified' \in [User -> SUBSET Device]
  /\ \A v \in User : v # u => verified'[v] = verified[v]

LEMMA MemoSteps ==
  ASSUME StateInv, [Next]_vars
  PROVE  \/ Keeps
         \/ \E us : Forgets(us)
         \/ \E u \in User : Learns(u)
         \/ Remembers
         \/ \E u \in User : Verifies(u)
<1>1. ASSUME NEW u \in Asked, VerificationStatus(u) \/ RoomVerificationStatus(u)
      PROVE  u \in User /\ Learns(u)
  BY <1>1, AskedAssumption DEF VerificationStatus, RoomVerificationStatus, Learns
<1>2. ASSUME NEW v \in Verifiable, MarkDeviceVerified(v[1], v[2]) \/ MarkDeviceUnverified(v[1], v[2])
      PROVE  \E u \in User : Verifies(u)
  <2>1. v[1] \in User /\ v[2] \in Device
    BY AskedAssumption
  <2>2. PICK u \in User, d \in Device : u = v[1] /\ d = v[2]
    BY <2>1
  <2>3. /\ Forget({u}) /\ row' = row /\ erasing' = erasing
        /\ \/ verified' = [verified EXCEPT ![u] = verified[u] \cup {d}]
           \/ verified' = [verified EXCEPT ![u] = verified[u] \ {d}]
    BY <1>2, <2>2 DEF MarkDeviceVerified, MarkDeviceUnverified
  <2>4. /\ verified' \in [User -> SUBSET Device]
        /\ \A w \in User : w # u => verified'[w] = verified[w]
    BY <2>3 DEF StateInv, TablesOK
  <2> QED BY <2>3, <2>4 DEF Verifies
<1>3. ASSUME HandleUpdate PROVE \E us : Forgets(us)
  BY <1>3 DEF HandleUpdate, Forgets
<1>4. ASSUME NEW e \in erasing, SendErase(e) PROVE Forgets(e.users)
  BY <1>4 DEF SendErase, Forgets
<1>5. ASSUME Restart PROVE \E us : Forgets(us)
  <2>1. memo' = [u \in User |-> NoStatus] /\ stale' = {} /\ verified' = verified
    BY <1>5 DEF Restart
  <2>2. Forget({Me}) /\ \A v \in User : RestsOn(v, {Me})
    BY <2>1 DEF Forget, RestsOn
  <2> QED BY <2>1, <2>2 DEF Forgets
<1>6. ASSUME NEW u \in Asked, ReadTables(u) \/ MarkOne(u) \/ SendQuery(u) \/ QueryKeys(u)
      PROVE  Keeps
  BY <1>6, ReadIs DEF MarkOne, SendQuery, QueryKeys, remembered, Keeps
<1>7. ASSUME NEW r \in requests,
             ServerAnswers(r) \/ QueryDone(r) \/ MarkDone(r) \/ SendDone(r) \/ QueryFails(r)
      PROVE  Keeps
  <2>1. UNCHANGED <<memo, stale, verified>>
    BY <1>7, Zenon DEF ServerAnswers, QueryDone, MarkDone, SendDone, QueryFails, remembered
  <2>2. erasing' = erasing \/ erasing' = erasing \cup {[slot |-> r.slot, users |-> r.users]}
    BY <1>7, Zenon DEF ServerAnswers, QueryDone, MarkDone, SendDone, QueryFails
  <2> QED BY <2>1, <2>2 DEF Keeps
<1>8. ASSUME Sync \/ HandleFinalize \/ HandleDelete \/ UNCHANGED vars PROVE Keeps
  BY <1>8 DEF Sync, HandleFinalize, HandleDelete, vars, remembered, Keeps
<1>9. ASSUME NEW u \in User, Change(u) PROVE Keeps
  BY <1>9 DEF Change, remembered, Keeps
<1>10. Remember => Remembers
  BY DEF Remember, Remembers
<1> QED BY <1>1, <1>2, <1>3, <1>4, <1>5, <1>6, <1>7, <1>8, <1>9, <1>10 DEF Next

\* What a step does to a call of verificationStatus: none is under way; one
\* begins; it goes on with the same tables; or the send path changes them.
Begins(u) ==
  /\ reading' = [user |-> u, status |-> Status(row, verified, u), overtaken |-> FALSE]
  /\ UNCHANGED <<row, verified>>

LEMMA ReadingSteps ==
  ASSUME StateInv, [Next]_vars
  PROVE  \/ reading' = NoReading
         \/ \E u \in User : Begins(u)
         \/ UNCHANGED <<reading, row, verified>>
         \/ \E r, tok : Updating(r, tok) /\ ErasedLater(r.users)
<1>1. ASSUME NEW u \in Asked,
             VerificationStatus(u) \/ RoomVerificationStatus(u) \/ MarkOne(u) \/ SendQuery(u)
               \/ QueryKeys(u)
      PROVE  reading' = NoReading
  BY <1>1 DEF VerificationStatus, RoomVerificationStatus, MarkOne, SendQuery, QueryKeys,
              remembered, UiIdle
<1>2. ASSUME NEW u \in Asked, ReadTables(u) PROVE \E v \in User : Begins(v)
  BY <1>2, ReadIs, AskedAssumption DEF Begins
<1>3. ASSUME NEW r \in requests, SendDone(r)
      PROVE  Updating(r, token) /\ ErasedLater(r.users)
  <2>1. /\ UpdateUserKeys(r, token) /\ UNCHANGED <<server, token, verified>>
        /\ ErasedLater(r.users) /\ r.answer # NoAnswer /\ r.kind = "send"
    BY <1>3 DEF SendDone, ErasedLater
  <2>2. IsRequest(r)
    BY DEF StateInv, RequestsOK
  <2> QED BY <2>1, <2>2, Numbers DEF Updating, StateInv
<1>4. ASSUME NEW r \in requests, ServerAnswers(r) \/ QueryDone(r) \/ MarkDone(r) \/ QueryFails(r)
      PROVE  UNCHANGED <<reading, row, verified>>
  BY <1>4, Zenon DEF ServerAnswers, QueryDone, MarkDone, QueryFails, remembered
<1>5. ASSUME NEW v \in Verifiable, MarkDeviceVerified(v[1], v[2]) \/ MarkDeviceUnverified(v[1], v[2])
      PROVE  reading' = NoReading
  BY <1>5 DEF MarkDeviceVerified, MarkDeviceUnverified, UiIdle
<1>6. ASSUME Sync \/ HandleUpdate \/ HandleFinalize \/ HandleDelete \/ Remember \/ Restart
      PROVE  reading' = NoReading
  BY <1>6 DEF Sync, HandleUpdate, HandleFinalize, HandleDelete, Remember, Restart, Next1,
              remembered, UiIdle
<1>7. ASSUME \/ UNCHANGED vars \/ \E e \in erasing : SendErase(e)
             \/ \E u \in User : Change(u)
      PROVE  UNCHANGED <<reading, row, verified>>
  BY <1>7 DEF SendErase, Change, vars, remembered
<1> QED BY <1>1, <1>2, <1>3, <1>4, <1>5, <1>6, <1>7 DEF Next

LEMMA ReadingStep == StateInv /\ [Next]_vars => IsReading(reading)'
<1> SUFFICES ASSUME StateInv, [Next]_vars PROVE IsReading(reading')
  BY DEF IsReading
<1>0. IsReading(reading)
  BY DEF StateInv
<1>1. IsReading(NoReading)
  BY DEF IsReading, NoReading, User
<1>2. ASSUME NEW u \in User, Begins(u) PROVE IsReading(reading')
  <2>1. PICK x : x = Status(row, verified, u)
    OBVIOUS
  <2>2. reading' = [user |-> u, status |-> x, overtaken |-> FALSE]
    BY <1>2, <2>1 DEF Begins
  <2> QED BY <2>2 DEF IsReading
<1>3. ASSUME NEW us, ErasedLater(us) PROVE IsReading(reading')
  <2>1. PICK b \in BOOLEAN :
          b = (reading.overtaken \/ (~UiIdle /\ RestsOn(reading.user, us)))
    OBVIOUS
  <2>2. reading' = [reading EXCEPT !.overtaken = b]
    BY <1>3, <2>1, Zenon DEF ErasedLater
  <2>3. reading' = [user |-> reading.user, status |-> reading.status, overtaken |-> b]
    BY <1>0, <2>2 DEF IsReading
  <2> QED BY <1>0, <2>3 DEF IsReading
<1> QED BY <1>0, <1>1, <1>2, <1>3, ReadingSteps

LEMMA TablesStep == StateInv /\ [Next]_vars => TablesOK'
<1> SUFFICES ASSUME StateInv, [Next]_vars PROVE TablesOK'
  OBVIOUS
<1>0. /\ memo = [u \in User |-> memo[u]] /\ stale \subseteq User /\ verified \in [User -> SUBSET Device]
      /\ pinned \in [User -> [Device -> SUBSET Key]]
  BY DEF StateInv, TablesOK
<1>1. pinned' \in [User -> [Device -> SUBSET Key]]
  <2>1. ASSUME NEW r, NEW tok, Updating(r, tok) PROVE pinned' \in [User -> [Device -> SUBSET Key]]
    <3>1. pinned' = [u \in User |-> [d \in Device |->
                       IF u \in r.users /\ Expected(u, tok) /\ HasRow(u) /\ row'[u].devices[d] # NoKey
                         THEN pinned[u][d] \cup {row'[u].devices[d]} ELSE pinned[u][d]]]
      BY <2>1 DEF Updating, UpdateUserKeys
    <3>2. ASSUME NEW u \in User, NEW d \in Device,
                 u \in r.users /\ Expected(u, tok) /\ HasRow(u) /\ row'[u].devices[d] # NoKey
          PROVE  row'[u].devices[d] \in Key
      <4>1. row'[u] \in Row
        BY <2>1, <3>2, UpdatingIs
      <4> QED BY <3>2, <4>1 DEF Row
    <3> QED BY <1>0, <3>1, <3>2
  <2> QED BY <1>0, <2>1, RowSteps DEF Still, Marking, history
<1>2. verified' \in [User -> SUBSET Device]
  BY <1>0, MemoSteps DEF Keeps, Forgets, Learns, Remembers, Verifies
<1>3. ASSUME NEW us, Forget(us) PROVE memo' = [u \in User |-> memo'[u]] /\ stale' \subseteq User
  BY <1>0, <1>3 DEF Forget
<1>4. ASSUME NEW u \in User, NEW x, memo' = [memo EXCEPT ![u] = x]
      PROVE  memo' = [v \in User |-> memo'[v]]
  BY <1>0, <1>4
<1>5. ASSUME Remember PROVE memo' = [v \in User |-> memo'[v]] /\ stale' \subseteq User
  <2>1. reading.user \in User
    BY DEF StateInv, IsReading
  <2>2. \/ UNCHANGED <<memo, stale>>
        \/ /\ memo' = [memo EXCEPT ![reading.user] = reading.status]
           /\ stale' = stale \/ stale' = stale \cup {reading.user}
    BY <1>5 DEF Remember
  <2> QED BY <1>0, <1>4, <2>1, <2>2
<1>6. memo' = [u \in User |-> memo'[u]] /\ stale' \subseteq User
  BY <1>0, <1>3, <1>4, <1>5, MemoSteps DEF Keeps, Forgets, Learns, Remembers, Verifies
<1> QED BY <1>1, <1>2, <1>6 DEF TablesOK

LEMMA StateStep == StateInv /\ [Next]_vars => StateInv'
BY ServerStep, RowsStep, RequestsStep, ContextsStep, EventsStep, TablesStep, ReadingStep DEF StateInv

----------------------------------------------------------------------------
\* Fresh lists.

\* An answer that is stored is not for an earlier change than the row knows of.
LEMMA ExpectedIs ==
  ASSUME StateInv, Announced, NEW r, NEW tok, Updating(r, tok), r.kind # "send",
         NEW u \in User, HasRow(u), Expected(u, tok)
  PROVE  Covers(u, [asof |-> r.asof], token)
<1>1. tok = r.tok /\ r.tok <= r.asof /\ r.tok \in Nat /\ r.asof \in Nat
  BY DEF Updating, IsRequest
<1>2. row[u].last = 0 \/ row[u].last = tok
  BY DEF Expected
<1>3. \A c \in changed[u] : c \in Nat /\ 1 <= c /\ (c <= token => c <= row[u].last)
  BY Numbers DEF StateInv, Announced
<1> QED BY <1>1, <1>2, <1>3 DEF Covers

LEMMA FreshStep == StateInv /\ FreshInv /\ [Next]_vars => FreshInv'
<1> SUFFICES ASSUME StateInv, Announced, Stored, [Next]_vars PROVE Announced' /\ Stored'
  BY DEF FreshInv
<1>0. /\ token \in Nat /\ \A u \in User : \A c \in changed[u] : c \in Nat /\ 1 <= c
  BY Numbers DEF StateInv
<1>1. CASE Still
  <2>1. row' = row /\ token' = token
        /\ \A u \in User : \A c \in changed'[u] : c \in changed[u] \/ token < c
    BY <1>1 DEF Still
  <2>2. Stored'
    BY <2>1 DEF Stored, HasRow
  <2>3. ASSUME NEW u \in User, NEW c \in changed'[u], c <= token' PROVE c \in changed[u]
    <3>1. c \in Nat
      BY <2>3, ServerStep DEF ServerOK
    <3> QED BY <1>0, <2>1, <2>3, <3>1
  <2> QED BY <2>1, <2>2, <2>3 DEF Announced, HasRow
<1>2. ASSUME NEW us \in SUBSET User, Marking(us) PROVE Announced' /\ Stored'
  <2>1. /\ changed' = changed /\ token' \in Nat
        /\ \A u \in User : \A c \in changed[u] : token < c /\ c <= token' => u \in us
    BY <1>2, KeysBounds DEF Marking, server, Position
  <2>2. ASSUME NEW u \in User, HasRow(u)', ~row'[u].sent
        PROVE  row'[u].updated <= row'[u].asof
    <3>1. CASE u \notin us /\ row'[u] = row[u]
      BY <2>2, <3>1 DEF Stored, HasRow
    <3>2. CASE u \in us
      <4>1. PICK b \in Row :
              /\ b = IF HasRow(u) THEN row[u] ELSE NewRow
              /\ row'[u].updated = b.updated /\ row'[u].asof = b.asof /\ row'[u].sent = b.sent
        BY <1>2, <3>2, MarkingIs
      <4>2. ~b.sent => b.updated <= b.asof
        BY <4>1 DEF Stored, NewRow
      <4> QED BY <2>2, <4>1, <4>2
    <3> QED BY <1>2, <3>1, <3>2, MarkingIs
  <2>3. ASSUME NEW u \in User, NEW c \in changed[u], c <= token' PROVE HasRow(u)' /\ c <= row'[u].last
    <3>1. CASE u \notin us /\ row'[u] = row[u]
      <4>1. c <= token
        BY <1>0, <2>1, <2>3, <3>1
      <4> QED BY <3>1, <4>1 DEF Announced, HasRow
    <3>2. CASE u \in us
      BY <1>2, <2>3, <3>2, MarkingIs
    <3> QED BY <1>2, <3>1, <3>2, MarkingIs
  <2> QED BY <2>1, <2>2, <2>3 DEF Announced, Stored
<1>3. ASSUME NEW r, NEW tok, Updating(r, tok) PROVE Announced' /\ Stored'
  <2>1. changed' = changed /\ token' = token
    BY <1>3 DEF Updating, server
  <2>2. ASSUME NEW u \in User, HasRow(u)', ~row'[u].sent
        PROVE  row'[u].updated <= row'[u].asof
    <3>1. CASE row'[u] = row[u]
      BY <2>2, <3>1 DEF Stored, HasRow
    <3>2. CASE row'[u].updated = tok /\ row'[u].asof = r.asof /\ row'[u].sent = (r.kind = "send")
      BY <1>3, <2>2, <3>2 DEF Updating, IsRequest
    <3> QED BY <1>3, <3>1, <3>2, UpdatingIs
  <2>3. ASSUME NEW u \in User, NEW c \in changed[u], c <= token PROVE HasRow(u)' /\ c <= row'[u].last
    <3>1. HasRow(u) /\ c <= row[u].last
      BY <2>3 DEF Announced
    <3>2. CASE row'[u] = row[u]
      BY <3>1, <3>2 DEF HasRow
    <3>3. CASE HasRow(u)' /\ row'[u].last = (IF HasRow(u) THEN row[u].last ELSE 0)
      BY <3>1, <3>3
    <3> QED BY <1>3, <3>2, <3>3, UpdatingIs
  <2> QED BY <2>1, <2>2, <2>3 DEF Announced, Stored
<1> QED BY <1>1, <1>2, <1>3, RowSteps

LEMMA FreshFollows == StateInv /\ FreshInv => FreshList
<1> SUFFICES ASSUME StateInv, FreshInv, NEW u \in User, UpToDate(u), ~row[u].sent,
                    NEW c \in changed[u], c <= token
             PROVE  c <= row[u].asof
  BY DEF FreshList, Covers
<1>1. HasRow(u) /\ row[u].updated = row[u].last
  BY DEF UpToDate
<1>2. row[u] \in Row
  BY <1>1 DEF StateInv, RowsOK
<1>3. row[u].updated \in Nat /\ row[u].asof \in Nat /\ c \in Nat
  BY <1>2, KeysBounds, Numbers DEF Row, Position, StateInv
<1>4. c <= row[u].last /\ row[u].updated <= row[u].asof
  BY <1>1 DEF FreshInv, Announced, Stored
<1> QED BY <1>1, <1>3, <1>4

\* A step never puts a list with fewer announced changes into a row.
LEMMA KeepsStep ==
  ASSUME StateInv, FreshInv, [Next]_vars, NEW u \in User, HasRow(u), Covers(u, row[u], token)
  PROVE  row'[u].sent \/ Covers(u, row'[u], token)
<1>1. CASE row'[u].asof = row[u].asof
  BY <1>1 DEF Covers
<1>2. ASSUME NEW us \in SUBSET User, Marking(us) PROVE row'[u].asof = row[u].asof
  BY <1>2, MarkingIs
<1>3. ASSUME NEW r, NEW tok, Updating(r, tok)
      PROVE  row'[u].sent \/ Covers(u, row'[u], token)
  <2>1. CASE row'[u] = row[u]
    BY <1>1, <2>1
  <2>2. CASE Expected(u, tok) /\ row'[u].asof = r.asof /\ row'[u].sent = (r.kind = "send")
    <3>1. r.kind # "send" => Covers(u, [asof |-> r.asof], token)
      BY <1>3, <2>2, ExpectedIs DEF FreshInv
    <3> QED BY <2>2, <3>1 DEF Covers
  <2> QED BY <1>3, <2>1, <2>2, UpdatingIs
<1> QED BY <1>1, <1>2, <1>3, RowSteps DEF Still

----------------------------------------------------------------------------
\* Keys stay with their devices.

PinInv == Pins /\ Carried /\ KeysPinned

\* An update that is checked against a row, with the keys P that have passed.
Merged(u, l, new, P) ==
  /\ \A d \in Device : new.devices[d] = IF Accepts(row[u], l, d) THEN l.devices[d] ELSE NoKey
  /\ new.seenKeys = row[u].seenKeys \cup ({l.devices[d] : d \in Device} \ {NoKey})
  /\ new.seenIds = row[u].seenIds \cup {d \in Device : l.devices[d] # NoKey}
  /\ \A d \in Device : P[d] = IF new.devices[d] # NoKey THEN pinned[u][d] \cup {new.devices[d]}
                              ELSE pinned[u][d]

LEMMA MergePins ==
  ASSUME StateInv, PinInv, NEW u \in User, HasRow(u), row[u] \in Row,
         NEW l \in List, NEW new \in Row, NEW P \in [Device -> SUBSET Key],
         Merged(u, l, new, P)
  PROVE  /\ \A d \in Device : \A k \in P[d] :
              /\ k \in new.seenKeys /\ d \in new.seenIds /\ new.devices[d] \in {NoKey, k}
              /\ \A e \in Device : new.devices[e] = k => e = d \/ Shared(u, d, e, k)
         /\ \A d, e \in Device : \A k \in P[d] : \A m \in P[e] :
              (d = e => k = m) /\ (k = m => d = e \/ Shared(u, d, e, k))
         /\ \A d \in Device : new.devices[d] = NoKey \/ new.devices[d] \in P[d]
<1> USE DEF Merged
<1>0. new.devices \in [Device -> Key \cup {NoKey}] /\ Device \subseteq Nat
  BY DeviceAssumption DEF Row
<1>1. ASSUME NEW d \in Device, new.devices[d] # NoKey
      PROVE  new.devices[d] = l.devices[d] /\ Accepts(row[u], l, d)
  BY <1>1
\* A key of the new row that had passed before.
<1>2. ASSUME NEW d \in Device, NEW e \in Device, NEW x \in pinned[u][e], new.devices[d] # NoKey
      PROVE  /\ d = e => x = new.devices[d]
             /\ x = new.devices[d] => d = e \/ Shared(u, d, e, x)
  <2>1. new.devices[d] = l.devices[d] /\ Accepts(row[u], l, d)
    BY <1>1, <1>2
  <2>2. /\ x \in row[u].seenKeys /\ e \in row[u].seenIds /\ row[u].devices[e] \in {NoKey, x}
        /\ \A f \in Device : row[u].devices[f] = x => f = e \/ Shared(u, e, f, x)
    BY <1>2 DEF PinInv, Pins
  <2>3. ASSUME d = e PROVE x = new.devices[d]
    BY <1>2, <2>1, <2>2, <2>3 DEF Accepts
  <2>4. ASSUME x = new.devices[d] PROVE row[u].devices[d] = x
    BY <2>1, <2>2, <2>4 DEF Accepts, SeenBefore
  <2> QED BY <2>2, <2>3, <2>4 DEF Shared
\* Two devices of the new row with the same key: the later one had it before.
<1>3. ASSUME NEW d \in Device, NEW e \in Device, d < e, new.devices[d] # NoKey,
             new.devices[d] = new.devices[e]
      PROVE  Shared(u, d, e, new.devices[d])
  <2>1. /\ new.devices[d] = l.devices[d] /\ new.devices[e] = l.devices[e]
        /\ Accepts(row[u], l, e)
    BY <1>1, <1>3
  <2>2. l.devices[e] \in SeenBefore(row[u], l, e)
    BY <1>3, <2>1 DEF SeenBefore
  <2>3. row[u].devices[e] = l.devices[e]
    BY <2>1, <2>2 DEF Accepts
  <2>4. row[u].devices[e] \in pinned[u][e] \/ row[u].devices[e] = unchecked[u][e]
    BY <1>3, <2>1, <2>3 DEF PinInv, Carried
  <2>5. d # e
    BY <1>0, <1>3
  <2> QED BY <1>2, <1>3, <2>1, <2>3, <2>4, <2>5 DEF Shared
<1>4. ASSUME NEW d \in Device, NEW e \in Device, new.devices[d] # NoKey,
             new.devices[d] = new.devices[e]
      PROVE  d = e \/ Shared(u, d, e, new.devices[d])
  <2>1. d = e \/ d < e \/ e < d
    BY <1>0
  <2>2. CASE d < e
    BY <1>3, <1>4, <2>2
  <2>3. CASE e < d
    BY <1>3, <1>4, <2>3 DEF Shared
  <2> QED BY <2>1, <2>2, <2>3
<1>5. \A d \in Device : \A k \in P[d] : k # NoKey
  BY NoKeyAssumption
<1>6. \A d \in Device : \A k \in P[d] : k \in pinned[u][d] \/ (k = new.devices[d] /\ k # NoKey)
  OBVIOUS
<1>7. ASSUME NEW d \in Device, NEW k \in P[d], NEW e \in Device, NEW m \in P[e]
      PROVE  (d = e => k = m) /\ (k = m => d = e \/ Shared(u, d, e, k))
  <2>1. CASE k \in pinned[u][d] /\ m \in pinned[u][e]
    BY <2>1 DEF PinInv, KeysPinned, Shared
  <2>2. CASE k \in pinned[u][d] /\ m = new.devices[e] /\ m # NoKey
    BY <1>2, <2>2 DEF Shared
  <2>3. CASE k = new.devices[d] /\ k # NoKey /\ m \in pinned[u][e]
    BY <1>2, <2>3 DEF Shared
  <2>4. CASE k = new.devices[d] /\ k # NoKey /\ m = new.devices[e] /\ m # NoKey
    BY <1>4, <2>4
  <2> QED BY <1>6, <2>1, <2>2, <2>3, <2>4
<1>8. ASSUME NEW d \in Device, NEW k \in P[d] PROVE k \in new.seenKeys /\ d \in new.seenIds
  <2>1. CASE k \in pinned[u][d]
    BY <2>1 DEF PinInv, Pins
  <2>2. CASE k = new.devices[d] /\ k # NoKey
    <3>1. k = l.devices[d]
      BY <1>1, <2>2
    <3> QED BY <2>2, <3>1
  <2> QED BY <1>6, <2>1, <2>2
<1>9. ASSUME NEW d \in Device, NEW k \in P[d], NEW e \in Device, new.devices[e] = k
      PROVE  e = d \/ Shared(u, d, e, k)
  <2>1. new.devices[e] # NoKey
    BY <1>5, <1>9
  <2>2. CASE k \in pinned[u][d]
    BY <1>2, <1>9, <2>1, <2>2 DEF Shared
  <2>3. CASE k = new.devices[d] /\ k # NoKey
    BY <1>4, <1>9, <2>1, <2>3
  <2> QED BY <1>6, <2>2, <2>3
<1>10. ASSUME NEW d \in Device, NEW k \in P[d] PROVE new.devices[d] \in {NoKey, k}
  <2>1. CASE k \in pinned[u][d]
    BY <1>2, <2>1
  <2> QED BY <1>6, <2>1
<1>11. \A d \in Device : new.devices[d] = NoKey \/ new.devices[d] \in P[d]
  OBVIOUS
<1> QED BY <1>7, <1>8, <1>9, <1>10, <1>11

LEMMA PinsStep == StateInv /\ PinInv /\ [Next]_vars => PinInv'
<1> SUFFICES ASSUME StateInv, PinInv, [Next]_vars PROVE PinInv'
  OBVIOUS
<1>1. CASE Still
  BY <1>1 DEF Still, history, PinInv, Pins, Carried, KeysPinned, Shared, HasRow
<1>2. ASSUME NEW us \in SUBSET User, Marking(us) PROVE PinInv'
  <2>1. pinned' = pinned /\ unchecked' = unchecked
    BY <1>2 DEF Marking, history
  <2>2. ASSUME NEW u \in User, HasRow(u)
        PROVE  /\ HasRow(u)' /\ row'[u].devices = row[u].devices
               /\ row'[u].seenKeys = row[u].seenKeys /\ row'[u].seenIds = row[u].seenIds
    <3>1. CASE row'[u] = row[u]
      BY <2>2, <3>1 DEF HasRow
    <3> QED BY <1>2, <2>2, <3>1, MarkingIs
  <2>3. ASSUME NEW u \in User, ~HasRow(u), HasRow(u)', NEW d \in Device
        PROVE  row'[u].devices[d] = NoKey
    <3>1. row'[u].devices = NewRow.devices
      BY <1>2, <2>3, MarkingIs DEF HasRow
    <3>2. NewRow.devices[d] = NoKey
      BY DEF NewRow
    <3> QED BY <3>1, <3>2
  <2>4. Pins' /\ KeysPinned'
    BY <2>1, <2>2 DEF PinInv, Pins, KeysPinned, Shared
  <2>5. Carried'
    BY <2>1, <2>2, <2>3 DEF PinInv, Carried
  <2> QED BY <2>4, <2>5 DEF PinInv
<1>3. ASSUME NEW r, NEW tok, Updating(r, tok) PROVE PinInv'
  <2>1. /\ pinned' = [u \in User |-> [d \in Device |->
                        IF u \in r.users /\ Expected(u, tok) /\ HasRow(u) /\ row'[u].devices[d] # NoKey
                          THEN pinned[u][d] \cup {row'[u].devices[d]} ELSE pinned[u][d]]]
        /\ unchecked' = [u \in User |-> IF u \in r.users /\ ~HasRow(u) THEN r.answer[u].devices
                                         ELSE unchecked[u]]
    BY <1>3 DEF Updating, UpdateUserKeys
  <2>2. ASSUME NEW u \in User
        PROVE  /\ \A d \in Device : \A k \in pinned'[u][d] :
                    /\ HasRow(u)' /\ k \in row'[u].seenKeys /\ d \in row'[u].seenIds
                    /\ row'[u].devices[d] \in {NoKey, k}
                    /\ \A e \in Device : row'[u].devices[e] = k => e = d \/ Shared(u, d, e, k)'
               /\ \A d, e \in Device : \A k \in pinned'[u][d] : \A m \in pinned'[u][e] :
                    (d = e => k = m) /\ (k = m => d = e \/ Shared(u, d, e, k)')
               /\ HasRow(u)' => \A d \in Device :
                    \/ row'[u].devices[d] = NoKey
                    \/ row'[u].devices[d] \in pinned'[u][d]
                    \/ row'[u].devices[d] = unchecked'[u][d]
    <3>1. CASE HasRow(u) /\ row'[u] = row[u] /\ (u \notin r.users \/ ~Expected(u, tok))
      <4>1. (\A d \in Device : pinned'[u][d] = pinned[u][d]) /\ unchecked'[u] = unchecked[u]
        BY <2>1, <3>1
      <4> QED BY <3>1, <4>1 DEF PinInv, Pins, Carried, KeysPinned, Shared, HasRow
    <3>2. CASE ~HasRow(u)
      <4>1. \A d \in Device : pinned'[u][d] = pinned[u][d] /\ \A k \in pinned[u][d] : FALSE
        BY <2>1, <3>2 DEF PinInv, Pins
      <4>2. ASSUME HasRow(u)' PROVE row'[u].devices = unchecked'[u]
        <5>1. PICK sent \in BOOLEAN :
                /\ u \in r.users /\ r.answer[u] \in List
                /\ row'[u] = FirstRow(r.answer[u], tok, r.asof, sent)
          BY <1>3, <3>2, <4>2, UpdatingIs DEF HasRow
        <5>2. row'[u].devices = r.answer[u].devices
          BY <5>1 DEF FirstRow
        <5> QED BY <2>1, <3>2, <5>1, <5>2
      <4> QED BY <4>1, <4>2
    <3>3. CASE /\ u \in r.users /\ Expected(u, tok) /\ HasRow(u) /\ HasRow(u)'
               /\ r.answer[u] \in List /\ row[u] \in Row /\ row'[u] \in Row
               /\ \E sent \in BOOLEAN : row'[u] = MergedRow(row[u], r.answer[u], tok, r.asof, sent)
      <4>1. tok \in Position /\ r.asof \in Position
        BY <1>3, Numbers DEF StateInv, Updating, IsRequest
      <4>2. PICK l \in List : l = r.answer[u]
        BY <3>3
      <4>3. PICK new \in Row : new = row'[u]
        BY <3>3
      <4>4. /\ \A d \in Device : new.devices[d] = IF Accepts(row[u], l, d) THEN l.devices[d] ELSE NoKey
            /\ new.seenKeys = row[u].seenKeys \cup ({l.devices[d] : d \in Device} \ {NoKey})
            /\ new.seenIds = row[u].seenIds \cup {d \in Device : l.devices[d] # NoKey}
        <5>1. PICK sent \in BOOLEAN : new = MergedRow(row[u], l, tok, r.asof, sent)
          BY <3>3, <4>2, <4>3
        <5> QED BY <3>3, <4>1, <5>1, RowIs, SMTT(30)
      <4>5. PICK P \in [Device -> SUBSET Key] : P = pinned'[u]
        BY TablesStep DEF TablesOK
      <4>6. \A d \in Device : P[d] = IF new.devices[d] # NoKey
                                       THEN pinned[u][d] \cup {new.devices[d]} ELSE pinned[u][d]
        BY <2>1, <3>3, <4>3, <4>5
      <4>7. Merged(u, l, new, P)
        BY <4>4, <4>6 DEF Merged
      <4>8. unchecked'[u] = unchecked[u]
        BY <2>1, <3>3
      <4>9. \A d, e, k : Shared(u, d, e, k)' <=> Shared(u, d, e, k)
        BY <4>8 DEF Shared
      <4> QED BY <3>3, <4>3, <4>5, <4>7, <4>9, MergePins
    <3> QED BY <1>3, <3>1, <3>2, <3>3, UpdatingIs
  <2> QED BY <2>2 DEF PinInv, Pins, Carried, KeysPinned, Shared
<1> QED BY <1>1, <1>2, <1>3, RowSteps

----------------------------------------------------------------------------
\* Remembered states.

\* The state m claims no more than s.
AtMost(m, s) ==
  Rank(m.trust) <= Rank(s.trust) /\ m.keys \subseteq s.keys /\ m.ids \subseteq s.ids

\* A state that StatusCurrent does not mean.
Exempt(u) == u \in stale \/ ToErase(u)

Current(u) ==
  memo[u] # NoStatus /\ ~Exempt(u) => AtMost(memo[u], Status(row, verified, u))

\* The state that a call of verificationStatus will remember is right, unless the
\* send path has stored other keys since its transaction began.
Fits ==
  ~UiIdle /\ ~reading.overtaken => reading.status = Status(row, verified, reading.user)

StatusInv == Fits /\ StatusCurrent

LEMMA RankIs == \A t : Rank(t) \in Nat
BY DEF Rank

\* Rows that differ in nothing but what the state does not look at.
SameKeys(a, b) ==
  a.devices = b.devices /\ a.master = b.master /\ a.usk = b.usk /\ a.replaced = b.replaced

LEMMA StatusSame ==
  ASSUME NEW R, NEW Q, NEW V, NEW u, R[u] # NoRow, R[Me] # NoRow, Q[u] # NoRow, Q[Me] # NoRow,
         SameKeys(R[u], Q[u]), SameKeys(R[Me], Q[Me])
  PROVE  Status(R, V, u) = Status(Q, V, u)
BY DEF Status, SameKeys

\* Without keys of the user or of us there is nothing but the verified devices.
LEMMA StatusLeast ==
  ASSUME NEW R, NEW V, NEW u
  PROVE  /\ V[u] \subseteq Status(R, V, u).ids
         /\ R[u] = NoRow \/ R[Me] = NoRow =>
              /\ Status(R, V, u).trust = "unverified" /\ Status(R, V, u).keys = {}
              /\ Status(R, V, u).ids = V[u]
BY DEF Status

\* A state is right as long as the tables it rests on stay.
LEMMA SameTables ==
  ASSUME NEW u, row'[u] = row[u], row'[Me] = row[Me], verified'[u] = verified[u]
  PROVE  Status(row', verified', u) = Status(row, verified, u)
BY DEF Status

LEMMA Untouched ==
  ASSUME NEW u \in User, Current(u),
         \/ memo'[u] = memo[u] /\ (Exempt(u) => Exempt(u)')
         \/ memo'[u] = Status(row, verified, u),
         row'[u] = row[u], row'[Me] = row[Me], verified'[u] = verified[u]
  PROVE  Current(u)'
<1>1. Status(row', verified', u) = Status(row, verified, u)
  BY SameTables
<1>2. AtMost(Status(row, verified, u), Status(row, verified, u))
  BY RankIs DEF AtMost
<1> QED BY <1>1, <1>2 DEF Current

\* What survives when the states that rest on us are forgotten.
LEMMA ForgetIs ==
  ASSUME NEW us, Forget(us), NEW v \in User, memo'[v] # NoStatus
  PROVE  ~RestsOn(v, us) /\ memo'[v] = memo[v] /\ (v \in stale => v \in stale')
BY DEF Forget

LEMMA ReadingIs ==
  ASSUME StateInv, NEW us, ErasedLater(us)
  PROVE  /\ UiIdle => reading' = NoReading
         /\ reading'.user = reading.user /\ reading'.status = reading.status
         /\ reading.overtaken \/ (~UiIdle /\ RestsOn(reading.user, us)) => reading'.overtaken
<1>1. PICK b \in BOOLEAN : b = (reading.overtaken \/ (~UiIdle /\ RestsOn(reading.user, us)))
  OBVIOUS
<1>2. reading' = [reading EXCEPT !.overtaken = b]
  BY <1>1, Zenon DEF ErasedLater
<1>3. reading' = [user |-> reading.user, status |-> reading.status, overtaken |-> b]
  BY <1>2 DEF StateInv, IsReading
<1>4. NoReading.overtaken = FALSE /\ NoReading.user = Me /\ NoReading.status = NoStatus
  BY DEF NoReading
<1>5. ASSUME UiIdle PROVE reading' = NoReading
  <2>1. reading = NoReading /\ ~reading.overtaken
    BY <1>4, <1>5 DEF UiIdle
  <2>2. b = FALSE
    BY <1>1, <1>5, <2>1
  <2>3. reading' = [user |-> Me, status |-> NoStatus, overtaken |-> FALSE]
    BY <1>3, <1>4, <2>1, <2>2
  <2> QED BY <2>3, Zenon DEF NoReading
<1> QED BY <1>1, <1>3, <1>5

LEMMA FitsStep == StateInv /\ Fits /\ [Next]_vars => Fits'
<1> SUFFICES ASSUME StateInv, Fits, [Next]_vars PROVE Fits'
  OBVIOUS
<1>1. CASE reading' = NoReading
  BY <1>1 DEF Fits, UiIdle
<1>2. ASSUME NEW u \in User, Begins(u) PROVE Fits'
  <2>1. reading'.user = u /\ reading'.status = Status(row, verified, u)
    BY <1>2 DEF Begins
  <2>2. row' = row /\ verified' = verified
    BY <1>2 DEF Begins
  <2> QED BY <2>1, <2>2 DEF Fits
<1>3. CASE UNCHANGED <<reading, row, verified>>
  BY <1>3 DEF Fits, UiIdle
<1>4. ASSUME NEW r, NEW tok, Updating(r, tok), ErasedLater(r.users) PROVE Fits'
  <2>1. CASE UiIdle
    BY <1>4, <2>1, ReadingIs DEF Fits, UiIdle
  <2>2. CASE reading.overtaken \/ RestsOn(reading.user, r.users)
    <3>1. CASE ~UiIdle
      BY <1>4, <2>2, <3>1, ReadingIs DEF Fits
    <3> QED BY <2>1, <3>1
  <2>3. CASE ~UiIdle /\ ~reading.overtaken /\ ~RestsOn(reading.user, r.users)
    <3>1. reading.user \in User /\ Me \in User
      BY DEF StateInv, IsReading, User
    <3>2. row'[reading.user] = row[reading.user] /\ row'[Me] = row[Me]
      BY <1>4, <2>3, <3>1, UpdatingIs DEF RestsOn
    <3>3. verified' = verified
      BY <1>4 DEF Updating
    <3>4. Status(row', verified', reading.user) = Status(row, verified, reading.user)
      BY <3>2, <3>3, SameTables
    <3>5. reading'.user = reading.user /\ reading'.status = reading.status
      BY <1>4, ReadingIs
    <3> QED BY <2>3, <3>4, <3>5 DEF Fits
  <2> QED BY <2>1, <2>2, <2>3
<1> QED BY <1>1, <1>2, <1>3, <1>4, ReadingSteps

\* Steps that leave the rows alone.
LEMMA StillStatus ==
  ASSUME StateInv, StatusInv, [Next]_vars, row' = row, NEW v \in User, memo'[v] # NoStatus
  PROVE  Current(v)'
<1>0. Current(v)
  BY DEF StatusInv, StatusCurrent, Current, Exempt, AtMost
<1>1. CASE Keeps
  <2>1. memo'[v] = memo[v] /\ verified'[v] = verified[v] /\ (Exempt(v) => Exempt(v)')
    BY <1>1 DEF Keeps, Exempt, ToErase
  <2> QED BY <1>0, <2>1, Untouched
<1>2. ASSUME NEW us, Forgets(us) PROVE Current(v)'
  <2>1. ~RestsOn(v, us) /\ memo'[v] = memo[v] /\ (v \in stale => v \in stale')
    BY <1>2, ForgetIs DEF Forgets
  <2>2. verified'[v] = verified[v]
    BY <1>2 DEF Forgets
  <2>3. Exempt(v) => Exempt(v)'
    BY <1>2, <2>1 DEF Forgets, Exempt, ToErase
  <2> QED BY <1>0, <2>1, <2>2, <2>3, Untouched
<1>3. ASSUME NEW u \in User, Learns(u) PROVE Current(v)'
  <2>1. memo'[v] = memo[v] \/ memo'[v] = Known(v)
    BY <1>3 DEF Learns
  <2>2. memo'[v] = memo[v] \/ memo'[v] = Status(row, verified, v)
    BY <2>1 DEF Known
  <2>3. verified'[v] = verified[v] /\ (Exempt(v) => Exempt(v)')
    BY <1>3 DEF Learns, Exempt, ToErase
  <2> QED BY <1>0, <2>2, <2>3, Untouched
<1>4. CASE Remembers
  <2>1. /\ verified'[v] = verified[v] /\ Exempt(v) => Exempt(v)'
    BY <1>4 DEF Remembers, Remember, Exempt, ToErase
  <2>2. CASE memo'[v] = memo[v]
    BY <1>0, <1>4, <2>1, <2>2, Untouched DEF Remembers
  <2>3. CASE memo'[v] # memo[v]
    <3>1. /\ v = reading.user /\ ~UiIdle /\ memo'[v] = reading.status
          /\ reading.overtaken => v \in stale'
      BY <1>4, <2>3 DEF Remembers, Remember, StateInv, TablesOK
    <3>2. CASE reading.overtaken
      BY <3>1, <3>2 DEF Current, Exempt
    <3>3. CASE ~reading.overtaken
      <4>1. memo'[v] = Status(row, verified, v)
        BY <3>1, <3>3 DEF StatusInv, Fits
      <4> QED BY <1>0, <1>4, <2>1, <4>1, Untouched DEF Remembers
    <3> QED BY <3>2, <3>3
  <2> QED BY <2>2, <2>3
<1>5. ASSUME NEW u \in User, Verifies(u) PROVE Current(v)'
  <2>1. ~RestsOn(v, {u}) /\ memo'[v] = memo[v] /\ (v \in stale => v \in stale')
    BY <1>5, ForgetIs DEF Verifies
  <2>2. verified'[v] = verified[v] /\ (Exempt(v) => Exempt(v)')
    BY <1>5, <2>1 DEF Verifies, RestsOn, Exempt, ToErase
  <2> QED BY <1>0, <2>1, <2>2, Untouched
<1> QED BY <1>1, <1>2, <1>3, <1>4, <1>5, MemoSteps

LEMMA StatusStep == StateInv /\ StatusInv /\ [Next]_vars => StatusCurrent'
<1> SUFFICES ASSUME StateInv, StatusInv, [Next]_vars, NEW v \in User, memo'[v] # NoStatus
             PROVE  Current(v)'
  BY DEF StatusCurrent, Current, Exempt, AtMost
<1>0. Me \in User /\ Current(v)
  BY DEF User, StatusInv, StatusCurrent, Current, Exempt, AtMost
<1>1. CASE Still
  BY <1>1, StillStatus DEF Still
<1>2. ASSUME NEW us \in SUBSET User, Marking(us) PROVE Current(v)'
  <2>1. memo' = memo /\ verified' = verified /\ (Exempt(v)' <=> Exempt(v))
    BY <1>2 DEF Marking, remembered, Exempt, ToErase
  <2>2. CASE Exempt(v)
    BY <2>1, <2>2 DEF Current
  <2>3. CASE ~Exempt(v) /\ HasRow(v) /\ HasRow(Me)
    <3>1. ASSUME NEW u \in User, HasRow(u)
          PROVE  row'[u] # NoRow /\ SameKeys(row[u], row'[u])
      <4>1. CASE row'[u] = row[u]
        BY <3>1, <4>1 DEF HasRow, SameKeys
      <4>2. CASE u \in us
        BY <1>2, <3>1, <4>2, MarkingIs DEF HasRow, SameKeys
      <4> QED BY <1>2, <4>1, <4>2, MarkingIs
    <3>2. Status(row, verified, v) = Status(row', verified, v)
      BY <1>0, <2>3, <3>1, StatusSame DEF HasRow
    <3> QED BY <1>0, <2>1, <3>2 DEF Current
  <2>4. CASE ~Exempt(v) /\ (~HasRow(v) \/ ~HasRow(Me))
    <3>1. AtMost(memo[v], Status(row, verified, v))
      BY <1>0, <2>1, <2>4 DEF Current
    <3>2. memo[v].keys \subseteq {} /\ memo[v].ids \subseteq verified[v] /\ Rank(memo[v].trust) <= 0
      BY <2>4, <3>1, StatusLeast DEF AtMost, HasRow, Rank
    <3>3. verified[v] \subseteq Status(row', verified, v).ids
      BY StatusLeast
    <3>4. AtMost(memo[v], Status(row', verified, v))
      BY <3>2, <3>3, RankIs DEF AtMost
    <3> QED BY <2>1, <3>4 DEF Current
  <2> QED BY <2>2, <2>3, <2>4
<1>3. ASSUME NEW r, NEW tok, Updating(r, tok) PROVE Current(v)'
  <2>1. verified' = verified
    BY <1>3 DEF Updating
  <2>2. ASSUME ~RestsOn(v, r.users) PROVE row'[v] = row[v] /\ row'[Me] = row[Me]
    BY <1>0, <1>3, <2>2, UpdatingIs DEF RestsOn
  <2>3. CASE Erased(r.users)
    <3>1. ~RestsOn(v, r.users) /\ memo'[v] = memo[v] /\ (v \in stale => v \in stale')
      BY <2>3, ForgetIs DEF Erased
    <3>2. Exempt(v) => Exempt(v)'
      BY <2>3, <3>1 DEF Erased, Exempt, ToErase
    <3> QED BY <1>0, <2>1, <2>2, <3>1, <3>2, Untouched
  <2>4. CASE ErasedLater(r.users)
    <3>1. PICK i : erasing' = erasing \cup {[slot |-> i, users |-> r.users]}
      BY <2>4 DEF ErasedLater
    <3>2. memo'[v] = memo[v] /\ (Exempt(v) => Exempt(v)')
      BY <2>4, <3>1 DEF ErasedLater, Exempt, ToErase
    <3>3. CASE RestsOn(v, r.users)
      <4>1. PICK e \in erasing' : e.users = r.users
        <5>1. PICK e : e = [slot |-> i, users |-> r.users]
          OBVIOUS
        <5>2. e \in erasing' /\ e.users = r.users
          BY <3>1, <5>1
        <5> QED BY <5>2
      <4>2. ToErase(v)'
        BY <3>3, <4>1 DEF ToErase
      <4> QED BY <4>2 DEF Current, Exempt
    <3>4. CASE ~RestsOn(v, r.users)
      BY <1>0, <2>1, <2>2, <3>2, <3>4, Untouched
    <3> QED BY <3>3, <3>4
  <2> QED BY <1>3, <2>3, <2>4 DEF Updating
<1> QED BY <1>1, <1>2, <1>3, RowSteps

----------------------------------------------------------------------------
\* Callbacks.

\* CallbackComes, with the events in the queue.
Coming ==
  /\ \A r \in requests : r.kind = "query" /\ ~r.heard => \E c \in contexts : c.slot = r.slot
  /\ \A c \in contexts :
       \/ c.called
       \/ \E r \in requests : r.slot = c.slot
       \/ \E e \in Elems(uiq) : e.ev = "finalize" /\ c.slot \in e.slots

WaitInv == Waits /\ Coming

LEMMA ComingIs == Coming => CallbackComes
BY DEF Coming, CallbackComes, Elems

\* A request of another kind, for which no context waits.
LEMMA OtherRequest ==
  ASSUME StateInv, WaitInv, NEW i \in FreeSlots, NEW kind \in {"mark", "send"}, NEW us, NEW tok,
         requests' = requests \cup {Request(i, kind, us, tok)}, UNCHANGED <<contexts, uiq>>
  PROVE  WaitInv'
<1>1. /\ \A c \in contexts : c.slot # i
      /\ \A e \in Elems(uiq) : e.ev = "delete" => i \notin e.slots
  BY FreeSlot DEF SlotsOf
<1>2. PICK q : q = Request(i, kind, us, tok)
  OBVIOUS
<1>3. q.slot = i /\ q.kind # "query" /\ requests' = requests \cup {q}
  BY <1>2 DEF Request
<1>4. Elems(uiq') = Elems(uiq)
  OBVIOUS
<1> QED BY <1>1, <1>3, <1>4 DEF WaitInv, Waits, Coming

LEMMA WaitStep == StateInv /\ WaitInv /\ [Next]_vars => WaitInv'
<1> SUFFICES ASSUME StateInv, WaitInv, [Next]_vars PROVE WaitInv'
  OBVIOUS
<1>1. CASE UNCHANGED <<requests, contexts, uiq>>
  BY <1>1 DEF WaitInv, Waits, Coming, Elems
<1>2. CASE Sync
  <2>1. PICK n, us : \E i \in FreeSlots : MarkUserKeysOutOfDate(i, us, n)
    BY <1>2 DEF Sync
  <2>2. UNCHANGED <<contexts, uiq>>
    BY <1>2 DEF Sync
  <2>3. PICK i \in FreeSlots : requests' = requests \cup {Request(i, "mark", us, n)}
    BY <2>1 DEF MarkUserKeysOutOfDate
  <2> QED BY <2>2, <2>3, OtherRequest
<1>3. ASSUME NEW u \in Asked, MarkOne(u) \/ RoomVerificationStatus(u) \/ SendQuery(u)
      PROVE  WaitInv'
  <2>1. PICK kind \in {"mark", "send"}, i \in FreeSlots :
          \E tok : requests' = requests \cup {Request(i, kind, {u}, tok)}
    BY <1>3 DEF MarkOne, RoomVerificationStatus, SendQuery, MarkUserKeysOutOfDate
  <2>2. UNCHANGED <<contexts, uiq>>
    BY <1>3 DEF MarkOne, RoomVerificationStatus, SendQuery
  <2> QED BY <2>1, <2>2, OtherRequest
<1>4. ASSUME NEW u \in Asked, QueryKeys(u) PROVE WaitInv'
  <2> DEFINE tok == IF HasRow(u) THEN row[u].last ELSE 0
  <2>1. PICK i \in FreeSlots :
          /\ requests' = requests \cup {Request(i, "query", {u}, tok)}
          /\ contexts' = contexts \cup {[slot |-> i, user |-> u, called |-> FALSE]}
    BY <1>4 DEF QueryKeys
  <2> HIDE DEF tok
  <2>2. /\ \A r \in requests : r.slot # i
        /\ \A c \in contexts : c.slot # i
        /\ \A e \in Elems(uiq) : e.ev = "delete" => i \notin e.slots
    BY FreeSlot DEF SlotsOf
  <2>3. PICK q, c : /\ q = Request(i, "query", {u}, tok)
                    /\ c = [slot |-> i, user |-> u, called |-> FALSE]
    OBVIOUS
  <2>4. q.slot = i /\ q.kind = "query" /\ q.users = {u} /\ requests' = requests \cup {q}
    BY <2>1, <2>3 DEF Request
  <2>5. c.slot = i /\ c.user = u /\ contexts' = contexts \cup {c}
    BY <2>1, <2>3
  <2>6. Elems(uiq') = Elems(uiq)
    BY <1>4 DEF QueryKeys
  <2>7. Waits'
    BY <2>2, <2>4, <2>5, <2>6 DEF WaitInv, Waits
  <2>8. Coming'
    BY <2>4, <2>5, <2>6 DEF WaitInv, Coming
  <2> QED BY <2>7, <2>8 DEF WaitInv
<1>5. ASSUME NEW r \in requests, ServerAnswers(r) PROVE WaitInv'
  <2> DEFINE a == [u \in r.users |-> list[u]]
             p == [[r EXCEPT !.answer = a] EXCEPT !.asof = head]
  <2>1. requests' = (requests \ {r}) \cup {p}
    BY <1>5 DEF ServerAnswers
  <2>2. IsRequest(r)
    BY DEF StateInv, RequestsOK
  <2> HIDE DEF a
  <2>3. p = [slot |-> r.slot, kind |-> r.kind, users |-> r.users, tok |-> r.tok,
             answer |-> a, asof |-> head, heard |-> r.heard]
    BY <2>2, AnswerIs
  <2> HIDE DEF p
  <2>4. p.slot = r.slot /\ p.kind = r.kind /\ p.users = r.users /\ p.heard = r.heard
    BY <2>3
  <2>5. Elems(uiq') = Elems(uiq) /\ contexts' = contexts
    BY <1>5 DEF ServerAnswers
  <2>6. Waits'
    BY <2>1, <2>4, <2>5 DEF WaitInv, Waits
  <2>7. Coming'
    BY <2>1, <2>4, <2>5 DEF WaitInv, Coming
  <2> QED BY <2>6, <2>7 DEF WaitInv
<1>6. ASSUME NEW r \in requests, QueryDone(r) PROVE WaitInv'
  <2> DEFINE D == UNION {Connected(u) : u \in r.users}
  <2>1. requests' = requests \ {r} /\ contexts' = contexts
    BY <1>6 DEF QueryDone
  <2>2. \A c \in contexts : c.slot = r.slot => c.slot \in D
    BY DEF WaitInv, Waits, Connected
  <2>3. Elems(uiq') = Elems(uiq) \cup {[ev |-> "update", req |-> r], [ev |-> "finalize", slots |-> D]}
    BY <1>6, DoneIs
  <2> HIDE DEF D
  <2>4. Waits'
    BY <2>1, <2>3 DEF WaitInv, Waits
  <2>5. \E e \in Elems(uiq') : e.ev = "finalize" /\ e.slots = D
    <3>1. PICK e : e = [ev |-> "finalize", slots |-> D]
      OBVIOUS
    <3>2. e \in Elems(uiq') /\ e.ev = "finalize" /\ e.slots = D
      BY <2>3, <3>1
    <3> QED BY <3>2
  <2>6. Elems(uiq) \subseteq Elems(uiq')
    BY <2>3
  <2>7. ASSUME NEW c \in contexts, ~c.called
        PROVE  \/ \E q \in requests' : q.slot = c.slot
               \/ \E e \in Elems(uiq') : e.ev = "finalize" /\ c.slot \in e.slots
    <3>1. CASE c.slot = r.slot
      BY <2>2, <2>5, <3>1
    <3>2. CASE c.slot # r.slot
      BY <2>1, <2>6, <2>7, <3>2 DEF WaitInv, Coming
    <3> QED BY <3>1, <3>2
  <2>8. \A q \in requests' : q.kind = "query" /\ ~q.heard => \E c \in contexts' : c.slot = q.slot
    BY <2>1 DEF WaitInv, Coming
  <2>9. Coming'
    BY <2>1, <2>7, <2>8 DEF Coming
  <2> QED BY <2>4, <2>9 DEF WaitInv
<1>7. ASSUME NEW r \in requests, MarkDone(r) \/ SendDone(r) PROVE WaitInv'
  <2>1. requests' = requests \ {r} /\ contexts' = contexts /\ r.kind # "query"
    BY <1>7 DEF MarkDone, SendDone
  <2>2. \A c \in contexts : c.slot # r.slot
    BY <2>1 DEF WaitInv, Waits
  <2>3. Elems(uiq') = Elems(uiq) \/ Elems(uiq') = Elems(uiq) \cup {[ev |-> "update", req |-> r]}
    BY <1>7, MarkedIs DEF SendDone
  <2>4. Waits'
    BY <2>1, <2>3 DEF WaitInv, Waits
  <2>5. Coming'
    BY <2>1, <2>2, <2>3 DEF WaitInv, Coming
  <2> QED BY <2>4, <2>5 DEF WaitInv
<1>8. ASSUME NEW r \in requests, QueryFails(r) PROVE WaitInv'
  <2>1. requests' = requests \ {r} /\ Elems(uiq') = Elems(uiq)
    BY <1>8 DEF QueryFails
  <2>2. ASSUME NEW c \in contexts
        PROVE  LET d == RanIf(c, c.slot = r.slot)
               IN  /\ d.slot = c.slot /\ d.user = c.user
                   /\ c.called \/ c.slot = r.slot => d.called
    <3>1. PICK b \in BOOLEAN : b = (c.slot = r.slot)
      OBVIOUS
    <3>2. /\ RanIf(c, b).slot = c.slot /\ RanIf(c, b).user = c.user
          /\ c.called \/ b => RanIf(c, b).called
      BY RanIs DEF StateInv, ContextsOK
    <3> QED BY <3>1, <3>2, Zenon
  <2> DEFINE F(c) == RanIf(c, c.slot = r.slot)
  <2>3. /\ contexts' = {F(c) : c \in contexts}
        /\ \A c \in contexts : /\ F(c).slot = c.slot /\ F(c).user = c.user
                               /\ c.called \/ c.slot = r.slot => F(c).called
    BY <1>8, <2>2, FailsIs, Zenon
  <2> HIDE DEF F
  <2>4. Waits'
    BY <2>1, <2>3 DEF WaitInv, Waits
  <2>5. Coming'
    BY <2>1, <2>3 DEF WaitInv, Coming
  <2> QED BY <2>4, <2>5 DEF WaitInv
<1>9. CASE HandleUpdate
  <2>1. Next1("update") /\ uiq' = Tail(uiq) /\ UNCHANGED <<requests, contexts>>
    BY <1>9 DEF HandleUpdate
  <2>2. Elems(uiq) = Elems(uiq') \cup {Head(uiq)} /\ Head(uiq).ev = "update"
    BY <2>1, FirstEvent
  <2> QED BY <2>1, <2>2 DEF WaitInv, Waits, Coming
<1>10. CASE HandleFinalize
  <2>1. PICK run \in SUBSET contexts :
          /\ run = {c \in contexts : c.slot \in Head(uiq).slots}
          /\ contexts' = (contexts \ run) \cup {Ran(c) : c \in run}
          /\ requests' = Heard(run)
          /\ uiq' = Append(Tail(uiq), [ev |-> "delete", slots |-> {c.slot : c \in run}])
    BY <1>10, FinalizeIs
  <2>2. PICK D : D = {c.slot : c \in run}
    OBVIOUS
  <2>3. /\ Elems(uiq') = Elems(Tail(uiq)) \cup {[ev |-> "delete", slots |-> D]}
        /\ Elems(uiq) = Elems(Tail(uiq)) \cup {Head(uiq)}
    BY <1>10, <2>1, <2>2, DeletesIs
  <2>4. \A c \in contexts : Ran(c).slot = c.slot /\ Ran(c).user = c.user /\ Ran(c).called
    BY RanIs DEF StateInv, ContextsOK
  <2>5. /\ \A d \in contexts' : \E c \in contexts :
             d.slot = c.slot /\ d.user = c.user /\ (d.called \/ (d = c /\ c \notin run))
        /\ \A c \in contexts : \E d \in contexts' : d.slot = c.slot
    BY <2>1, <2>4
  <2>6. /\ \A q \in requests' : \E r \in requests :
             /\ q.slot = r.slot /\ q.kind = r.kind /\ q.users = r.users
             /\ r.heard => q.heard
             /\ (\E c \in run : c.slot = r.slot) => q.heard
        /\ \A r \in requests : \E q \in requests' : q.slot = r.slot
    <3>1. PICK H : H = Heard(run)
      OBVIOUS
    <3>2. /\ \A q \in H : \E r \in requests :
               /\ q.slot = r.slot /\ q.kind = r.kind /\ q.users = r.users
               /\ r.heard => q.heard
               /\ (\E c \in run : c.slot = r.slot) => q.heard
          /\ \A r \in requests : \E q \in H : q.slot = r.slot
      BY <3>1, HeardRequests
    <3> QED BY <2>1, <3>1, <3>2, Zenon
  <2>7. Waits'
    <3>1. ASSUME NEW d \in contexts', NEW q \in requests', d.slot = q.slot
          PROVE  q.kind = "query" /\ d.user \in q.users
      BY <2>5, <2>6, <3>1 DEF WaitInv, Waits
    <3>2. ASSUME NEW e \in Elems(uiq'), e.ev = "delete", NEW q \in requests', q.slot \in e.slots
          PROVE  q.heard
      <4>1. PICK r \in requests : /\ q.slot = r.slot
                                  /\ r.heard => q.heard
                                  /\ (\E c \in run : c.slot = r.slot) => q.heard
        BY <2>6
      <4>2. CASE e \in Elems(uiq)
        BY <3>2, <4>1, <4>2 DEF WaitInv, Waits
      <4>3. CASE e = [ev |-> "delete", slots |-> D]
        BY <2>2, <3>2, <4>1, <4>3
      <4> QED BY <2>3, <4>2, <4>3
    <3> QED BY <3>1, <3>2 DEF Waits
  <2>8. Coming'
    <3>1. ASSUME NEW q \in requests', q.kind = "query", ~q.heard
          PROVE  \E d \in contexts' : d.slot = q.slot
      <4>1. PICK r \in requests : q.slot = r.slot /\ r.kind = "query" /\ ~r.heard
        BY <2>6, <3>1
      <4>2. PICK c \in contexts : c.slot = r.slot
        BY <4>1 DEF WaitInv, Coming
      <4> QED BY <2>5, <4>1, <4>2
    <3>2. ASSUME NEW d \in contexts', ~d.called
          PROVE  \/ \E q \in requests' : q.slot = d.slot
                 \/ \E e \in Elems(uiq') : e.ev = "finalize" /\ d.slot \in e.slots
      <4>1. d \in contexts /\ d \notin run
        BY <2>5, <3>2
      <4>2. d.slot \notin Head(uiq).slots
        BY <2>1, <4>1
      <4>3. \/ \E r \in requests : r.slot = d.slot
            \/ \E e \in Elems(uiq) : e.ev = "finalize" /\ d.slot \in e.slots
        BY <3>2, <4>1 DEF WaitInv, Coming
      <4> QED BY <2>3, <2>6, <4>2, <4>3
    <3> QED BY <3>1, <3>2 DEF Coming
  <2> QED BY <2>7, <2>8 DEF WaitInv
<1>11. CASE HandleDelete
  <2>1. /\ Next1("delete") /\ uiq' = Tail(uiq) /\ requests' = requests
        /\ contexts' = {c \in contexts : c.slot \notin Head(uiq).slots}
    BY <1>11 DEF HandleDelete
  <2>2. Elems(uiq) = Elems(uiq') \cup {Head(uiq)} /\ Head(uiq).ev = "delete"
    BY <2>1, FirstEvent
  <2>3. Waits'
    BY <2>1, <2>2 DEF WaitInv, Waits
  <2>4. \A r \in requests : r.slot \in Head(uiq).slots => r.heard
    BY <2>2 DEF WaitInv, Waits
  <2>5. Coming'
    BY <2>1, <2>2, <2>4 DEF WaitInv, Coming
  <2> QED BY <2>3, <2>5 DEF WaitInv
<1>12. CASE Restart
  <2>1. requests' = {} /\ contexts' = {} /\ uiq' = <<>>
    BY <1>12 DEF Restart
  <2> QED BY <2>1 DEF WaitInv, Waits, Coming
<1>13. ASSUME NEW u \in Asked, VerificationStatus(u) \/ ReadTables(u)
       PROVE  UNCHANGED <<requests, contexts, uiq>>
  BY <1>13, ReadIs DEF VerificationStatus
<1>14. ASSUME NEW v \in Verifiable, MarkDeviceVerified(v[1], v[2]) \/ MarkDeviceUnverified(v[1], v[2])
       PROVE  UNCHANGED <<requests, contexts, uiq>>
  BY <1>14 DEF MarkDeviceVerified, MarkDeviceUnverified
<1>15. ASSUME NEW u \in User, Change(u) PROVE UNCHANGED <<requests, contexts, uiq>>
  BY <1>15 DEF Change
<1>16. ASSUME UNCHANGED vars \/ Remember \/ \E e \in erasing : SendErase(e)
       PROVE  UNCHANGED <<requests, contexts, uiq>>
  BY <1>16 DEF Remember, SendErase, vars
<1> QED
  BY <1>1, <1>2, <1>3, <1>4, <1>5, <1>6, <1>7, <1>8, <1>9, <1>10, <1>11, <1>12, <1>13, <1>14,
     <1>15, <1>16 DEF Next

----------------------------------------------------------------------------
\* The theorems.

LEMMA InitHolds == Init => StateInv /\ FreshInv /\ PinInv /\ StatusInv /\ WaitInv
<1> SUFFICES ASSUME Init PROVE StateInv /\ FreshInv /\ PinInv /\ StatusInv /\ WaitInv
  OBVIOUS
<1>1. /\ list = First /\ changed = [u \in User |-> {}] /\ head = 0 /\ token = 0
      /\ row = [u \in User |-> NoRow] /\ verified = [u \in User |-> {}]
      /\ memo = [u \in User |-> NoStatus] /\ reading = NoReading /\ stale = {}
      /\ requests = {} /\ contexts = {} /\ uiq = <<>>
      /\ pinned = [u \in User |-> [d \in Device |-> {}]]
  BY DEF Init
<1>2. ServerOK
  BY <1>1, FirstAssumption, KeysBounds DEF ServerOK, Position
<1>3. RowsOK /\ FreshInv
  BY <1>1 DEF RowsOK, HasRow, FreshInv, Announced, Stored
<1>4. RequestsOK /\ ContextsOK /\ EventsOK /\ WaitInv
  BY <1>1, EmptyQueue DEF RequestsOK, ContextsOK, EventsOK, WaitInv, Waits, Coming
<1>5. TablesOK /\ PinInv
  BY <1>1 DEF TablesOK, PinInv, Pins, Carried, KeysPinned, HasRow
<1>6. StatusInv /\ IsReading(reading)
  BY <1>1 DEF StatusInv, StatusCurrent, Fits, UiIdle, IsReading, NoReading, User
<1> QED BY <1>2, <1>3, <1>4, <1>5, <1>6 DEF StateInv

\* The inductive invariant.
LEMMA AlwaysState == Spec => []StateInv
<1>1. Init => StateInv
  BY InitHolds
<1>2. StateInv /\ [Next]_vars => StateInv'
  BY StateStep
<1> QED BY <1>1, <1>2, PTL DEF Spec

LEMMA AlwaysFresh == Spec => []FreshInv
<1>1. Init => FreshInv
  BY InitHolds
<1>2. StateInv /\ FreshInv /\ [Next]_vars => FreshInv'
  BY FreshStep
<1> QED BY <1>1, <1>2, AlwaysState, PTL DEF Spec

\* Every state of the program is well formed: positions of the sync are in
\* order, no row is marked for a sync that has not been, and a slot is used by
\* one query at a time.
THEOREM TypeCorrect == Spec => []TypeOK
BY AlwaysState, StateTypes, PTL

\* A list that query_keys serves from the cache has all announced changes.
THEOREM FreshLists == Spec => []FreshList
BY AlwaysState, AlwaysFresh, FreshFollows, PTL

\* No answer replaces a list with all announced changes by one that misses some.
THEOREM KeepsCurrentLists == Spec => KeepsCurrent
<1>1. StateInv /\ FreshInv /\ [Next]_vars =>
        [\A u \in User : HasRow(u) /\ Covers(u, row[u], token) =>
           row[u]'.sent \/ Covers(u, row[u]', token)]_vars
  <2> SUFFICES ASSUME StateInv, FreshInv, [Next]_vars, NEW u \in User,
                      HasRow(u), Covers(u, row[u], token)
               PROVE  row[u]'.sent \/ Covers(u, row[u]', token)
    OBVIOUS
  <2> QED BY KeepsStep
<1> QED BY <1>1, AlwaysState, AlwaysFresh, PTL DEF Spec, KeepsCurrent

\* Whatever lists the homeserver gives, from the first update on that is checked
\* against a row a device never gets other keys, and a key is on two devices only
\* if the first list of the user gave it to one of them.
THEOREM PinnedKeys == Spec => []KeysPinned
<1>1. Init => PinInv
  BY InitHolds
<1>2. StateInv /\ PinInv /\ [Next]_vars => PinInv'
  BY PinsStep
<1>3. PinInv => KeysPinned
  BY DEF PinInv
<1> QED BY <1>1, <1>2, <1>3, AlwaysState, PTL DEF Spec

\* A remembered verification state never claims more than the tables say, unless
\* a thread of the send path is about to erase it, or it was remembered by a call
\* whose transaction had begun before that thread stored other keys.
THEOREM StatusIsCurrent == Spec => []StatusCurrent
<1>1. Init => StatusInv
  BY InitHolds
<1>2. StateInv /\ StatusInv /\ [Next]_vars => StatusInv'
  BY FitsStep, StatusStep DEF StatusInv
<1>3. StatusInv => StatusCurrent
  BY DEF StatusInv
<1> QED BY <1>1, <1>2, <1>3, AlwaysState, PTL DEF Spec

\* A query whose callback has not run has a context, and the context a request
\* or a signal that will run it.
THEOREM CallbacksCome == Spec => []CallbackComes
<1>1. Init => WaitInv
  BY InitHolds
<1>2. StateInv /\ WaitInv /\ [Next]_vars => WaitInv'
  BY WaitStep
<1>3. WaitInv => CallbackComes
  BY ComingIs DEF WaitInv
<1> QED BY <1>1, <1>2, <1>3, AlwaysState, PTL DEF Spec
=============================================================================
