----------------------------- MODULE DeviceKeys -----------------------------
(***************************************************************************)
(* The cache of device lists and cross signing keys (UserKeyCache), the     *)
(* queries that fill it, and the memo of verification states that is        *)
(* derived from it.                                                         *)
(*                                                                         *)
(* The homeserver's changes of device lists are numbered 1..head, and a     *)
(* sync token is the number of changes the syncs have announced; 0 is the   *)
(* empty token.  A list has the device keys, the master key and a user      *)
(* signing key: our current one in our own list, and the one that signed    *)
(* the master key in the list of somebody else; 0 is no key.                *)
(***************************************************************************)
EXTENDS Integers, Sequences, FiniteSets

CONSTANTS
  Me, Them,     \* the local user and another one
  Device, Key,  \* devices are numbered in the order of their ids
  NoKey,        \* the device is not in the list
  NoRow, NoStatus, NoAnswer,
  Verifiable,   \* bound: users and devices of theirs that somebody verifies
  Asked,        \* bound: users whose keys or state anybody asks for
  SignedKeys,   \* device keys that the self signing key has signed
  Lists,        \* for each user the lists the homeserver may have
  First,        \* for each user the one it has at first
  Slot,         \* bound: queries at one time, until their result is handled
  MaxChanges,   \* bound: changes of device lists
  MaxEvents     \* bound: changes, requests that fail and restarts of the program

User == {Me, Them}
Position == 0..MaxChanges
List == [devices : [Device -> Key \cup {NoKey}], master : Nat, usk : Nat]

ASSUME UserAssumption == Me # Them
ASSUME NoKeyAssumption == NoKey \notin Key
ASSUME DeviceAssumption == Device \subseteq Nat
ASSUME ListsAssumption == Lists \in [User -> SUBSET List]
ASSUME FirstAssumption == First \in [User -> List] /\ \A u \in User : First[u] \in Lists[u]
ASSUME AskedAssumption == Asked \subseteq User /\ Verifiable \subseteq User \X Device
ASSUME KeysBounds == MaxChanges \in Nat /\ MaxEvents \in Nat

VARIABLES
  list,         \* the homeserver's list of each user
  changed,      \* history: which changes were about each user
  head,
  token,        \* next_batch token of the cache
  row,          \* the user keys table
  verified,     \* the verification table: device_verified of each user
  memo,         \* verification_storage.status
  reading,      \* a call of verificationStatus whose transaction has begun
  stale,        \* history: users whose memo was read before a commit about them
  requests,     \* query_keys requests under way
  contexts,     \* the context objects of Cache::query_keys
  erasing,      \* network threads that have committed a list and not yet erased
                \* the states that rest on it
  uiq,          \* Qt events queued for the UI thread
  faults,
  pinned,       \* history: keys of a device that passed the check for reuse
  unchecked     \* history: the devices of a first list, which is not checked

server == <<list, changed, head>>
remembered == <<memo, reading, stale>>
history == <<pinned, unchecked>>
vars == <<server, token, row, verified, remembered, requests, contexts, erasing, uiq, faults, history>>

----------------------------------------------------------------------------

\* A UserKeyCache.  asof and sent are history: the number of changes the homeserver
\* had when it made the list, and whether the send path asked for it.
Row == [devices : [Device -> Key \cup {NoKey}], master : Nat, usk : Nat,
        replaced : BOOLEAN, seenKeys : SUBSET Key, seenIds : SUBSET Device,
        updated : Position, last : Position, asof : Position,
        sent : BOOLEAN]
ASSUME NoRowAssumption == NoRow \notin Row

\* The empty one.
NewRow ==
  [devices |-> [d \in Device |-> NoKey], master |-> 0, usk |-> 0, replaced |-> FALSE,
   seenKeys |-> {}, seenIds |-> {}, updated |-> 0, last |-> 0, asof |-> 0, sent |-> FALSE]
HasRow(u) == row[u] # NoRow

\* A query for the lists of us, whose result is stored for the sync token tok.
\* heard is history: its callback has run.
Request(i, kind, us, tok) ==
  [slot |-> i, kind |-> kind, users |-> us, tok |-> tok, answer |-> NoAnswer,
   asof |-> 0, heard |-> FALSE]

\* The slots a queued event is about, and those that are not in use.
SlotsOf(e) == IF e.ev = "update" THEN {e.req.slot} ELSE e.slots
FreeSlots ==
  Slot \ ({r.slot : r \in requests} \cup {c.slot : c \in contexts} \cup {e.slot : e \in erasing}
             \cup UNION {SlotsOf(uiq[i]) : i \in DOMAIN uiq})

----------------------------------------------------------------------------
\* verificationStatus_.

\* The status of u that follows from the tables R and V.  Only what claims
\* trust is represented.
Status(R, V, u) ==
  LET none == [trust |-> "unverified", keys |-> {}, ids |-> V[u], no_keys |-> R[u] = NoRow]
      trust == CASE u = Me \/ (R[u].usk # 0 /\ R[u].usk = R[Me].usk) -> "verified"
                 [] ~R[u].replaced -> "tofu"
                 [] OTHER -> "unverified"
      good == {d \in Device : R[u].devices[d] \in SignedKeys}
  IN  IF R[Me] = NoRow \/ R[u] = NoRow THEN none
      ELSE IF R[Me].master = 0 \/ trust = "unverified" THEN none
      ELSE [trust |-> trust, keys |-> {R[u].devices[d] : d \in good},
            ids |-> V[u] \cup good, no_keys |-> FALSE]

\* verificationStatus_: the remembered state, or a new one.
Known(u) == IF memo[u] = NoStatus THEN Status(row, verified, u) ELSE memo[u]

NoReading == [user |-> Me, status |-> NoStatus, overtaken |-> FALSE]
UiIdle == reading = NoReading

\* Faulty variant of RestsOn: only the keys and devices of u itself count.
RestsOnOwn(u, us) == u \in us

\* The state of u changes with the keys or the devices of us; all of them rest
\* on our own.
RestsOn(u, us) == u \in us \/ Me \in us

\* verificationStatus on the UI thread: its transaction begins, and then it takes
\* the lock and computes and remembers the state of that transaction, if none is
\* remembered.  That is one step as long as no thread of the send path is under
\* way: nobody else can come between.
VerificationStatus(u) ==
  /\ UiIdle /\ memo[u] = NoStatus
  /\ memo' = [memo EXCEPT ![u] = Known(u)]
  /\ UNCHANGED <<server, token, row, verified, reading, stale, requests, contexts, erasing, uiq, faults, history>>

SendPathBusy == erasing # {} \/ \E r \in requests : r.kind = "send"

ReadTables(u) ==
  /\ UiIdle /\ SendPathBusy
  /\ reading' = [user |-> u, status |-> Status(row, verified, u), overtaken |-> FALSE]
  /\ UNCHANGED <<server, token, row, verified, memo, stale, requests, contexts, erasing, uiq, faults, history>>

Remember ==
  /\ ~UiIdle /\ reading' = NoReading
  /\ LET u == reading.user
     IN  IF memo[u] # NoStatus THEN UNCHANGED <<memo, stale>>
         ELSE /\ memo' = [memo EXCEPT ![u] = reading.status]
              /\ stale' = IF reading.overtaken THEN stale \cup {u} ELSE stale
  /\ UNCHANGED <<server, token, row, verified, requests, contexts, erasing, uiq, faults, history>>

\* The states that rest on us are computed again.
Forget(us) ==
  /\ memo' = [v \in User |-> IF RestsOn(v, us) THEN NoStatus ELSE memo[v]]
  /\ stale' = {v \in stale : ~RestsOn(v, us)}

MarkDeviceVerified(u, d) ==
  /\ UiIdle /\ d \notin verified[u]
  /\ verified' = [verified EXCEPT ![u] = @ \cup {d}]
  /\ Forget({u})
  /\ UNCHANGED <<server, token, row, reading, requests, contexts, erasing, uiq, faults, history>>

MarkDeviceUnverified(u, d) ==
  /\ UiIdle
  /\ verified' = [verified EXCEPT ![u] = @ \ {d}]
  /\ Forget({u})
  /\ UNCHANGED <<server, token, row, reading, requests, contexts, erasing, uiq, faults, history>>

----------------------------------------------------------------------------
\* updateUserKeys.

\* Faulty variant of SeenBefore: only the keys of the row count.
SeenInRow(old, l, d) == old.seenKeys

\* The keys that are seen when the loop over the list comes to d.
SeenBefore(old, l, d) == old.seenKeys \cup {l.devices[e] : e \in {x \in Device : x < d}}

\* A device is taken over if its keys are known, or if neither the keys nor the
\* device id was ever seen.  (Lists of the homeserver that do not carry the
\* signature of the device on itself are left out.)
Accepts(old, l, d) ==
  /\ l.devices[d] # NoKey
  /\ \/ old.devices[d] = l.devices[d]
     \/ /\ old.devices[d] = NoKey
        /\ l.devices[d] \notin SeenBefore(old, l, d) /\ d \notin old.seenIds

\* The new row of a user that has one.
MergedRow(old, l, tok, asof, sent) ==
  [devices  |-> [d \in Device |-> IF Accepts(old, l, d) THEN l.devices[d] ELSE NoKey],
   master   |-> l.master, usk |-> l.usk,
   replaced |-> old.replaced \/ (old.master # 0 /\ old.master # l.master),
   seenKeys |-> old.seenKeys \cup ({l.devices[d] : d \in Device} \ {NoKey}),
   seenIds  |-> old.seenIds \cup {d \in Device : l.devices[d] # NoKey},
   updated  |-> tok, last |-> old.last, asof |-> asof, sent |-> sent]

\* The row of a user that has none: the list as it came.
FirstRow(l, tok, asof, sent) ==
  [devices |-> l.devices, master |-> l.master, usk |-> l.usk, replaced |-> FALSE,
   seenKeys |-> {}, seenIds |-> {}, updated |-> tok, last |-> 0, asof |-> asof, sent |-> sent]

\* Faulty variant of Expected: an answer for an earlier change is stored.
ExpectedAny(u, tok) == TRUE

\* An answer is not stored if the list has changed since it was asked for.
Expected(u, tok) == HasRow(u) => row[u].last = 0 \/ row[u].last = tok

\* What updateUserKeys commits.
UpdateUserKeys(r, tok) ==
  /\ row' = [u \in User |->
               IF u \notin r.users \/ ~Expected(u, tok) THEN row[u]
               ELSE IF HasRow(u) THEN MergedRow(row[u], r.answer[u], tok, r.asof, r.kind = "send")
               ELSE FirstRow(r.answer[u], tok, r.asof, r.kind = "send")]
  /\ pinned' = [u \in User |-> [d \in Device |->
                  IF u \in r.users /\ Expected(u, tok) /\ HasRow(u) /\ row'[u].devices[d] # NoKey
                    THEN pinned[u][d] \cup {row'[u].devices[d]} ELSE pinned[u][d]]]
  /\ unchecked' = [u \in User |-> IF u \in r.users /\ ~HasRow(u) THEN r.answer[u].devices
                                   ELSE unchecked[u]]

----------------------------------------------------------------------------
\* Announcements and queries.

\* Faulty variant of Outdated: the token of the sync that is to come.
OutdatedNext(us, tok) ==
  [u \in User |-> IF u \in us
                    THEN [(IF HasRow(u) THEN row[u] ELSE NewRow) EXCEPT !.last = tok + 1]
                    ELSE row[u]]

\* markUserKeysOutOfDate: one request for all of them.
Outdated(us, tok) ==
  [u \in User |-> IF u \in us
                    THEN [(IF HasRow(u) THEN row[u] ELSE NewRow) EXCEPT !.last = tok]
                    ELSE row[u]]

MarkUserKeysOutOfDate(i, us, tok) ==
  /\ row' = Outdated(us, tok)
  /\ requests' = requests \cup {Request(i, "mark", us, tok)}

\* saveState: the token, the announced changes, and a query for these users.
Sync ==
  /\ UiIdle
  /\ \E n \in (token + 1)..head :
       LET us == {u \in User : \E c \in changed[u] : token < c /\ c <= n}
       IN  /\ token' = n
           /\ \E i \in FreeSlots : MarkUserKeysOutOfDate(i, us, n)
  /\ UNCHANGED <<server, verified, remembered, contexts, erasing, uiq, faults, history>>

\* A profile is refreshed or the state of our own keys is checked.
MarkOne(u) ==
  /\ UiIdle
  /\ \E i \in FreeSlots : MarkUserKeysOutOfDate(i, {u}, token)
  /\ UNCHANGED <<server, token, verified, remembered, contexts, erasing, uiq, faults, history>>

\* roomVerificationStatus finds users without keys.  Its transaction is one that
\* writes, so that nobody commits meanwhile, and is not committed: the row is
\* not marked, but the query is sent.
RoomVerificationStatus(u) ==
  /\ UiIdle /\ u # Me /\ Known(u).no_keys /\ Known(u).ids = {}
  /\ memo' = [memo EXCEPT ![u] = Known(u)]
  /\ \E i \in FreeSlots : requests' = requests \cup {Request(i, "mark", {u}, token)}
  /\ UNCHANGED <<server, token, row, verified, reading, stale, contexts, erasing, uiq, faults, history>>

\* send_encrypted_to_device_messages asks for the keys of a user without a row.
SendQuery(u) ==
  /\ UiIdle /\ ~HasRow(u)
  /\ \E i \in FreeSlots : requests' = requests \cup {Request(i, "send", {u}, 0)}
  /\ UNCHANGED <<server, token, row, verified, remembered, contexts, erasing, uiq, faults, history>>

\* query_keys, when the cache cannot answer: a context object waits for the
\* result.
UpToDate(u) == HasRow(u) /\ row[u].updated = row[u].last

QueryKeys(u) ==
  /\ UiIdle /\ ~UpToDate(u)
  /\ \E i \in FreeSlots :
       /\ requests' = requests \cup
            {Request(i, "query", {u}, IF HasRow(u) THEN row[u].last ELSE 0)}
       /\ contexts' = contexts \cup {[slot |-> i, user |-> u, called |-> FALSE]}
  /\ UNCHANGED <<server, token, row, verified, remembered, erasing, uiq, faults, history>>

----------------------------------------------------------------------------
\* The homeserver and the network threads.

Change(u) ==
  /\ head < MaxChanges /\ head + faults < MaxEvents /\ head' = head + 1
  /\ \E l \in Lists[u] \ {list[u]} : list' = [list EXCEPT ![u] = l]
  /\ changed' = [changed EXCEPT ![u] = @ \cup {head + 1}]
  /\ UNCHANGED <<token, row, verified, remembered, requests, contexts, erasing, uiq, faults, history>>

ServerAnswers(r) ==
  /\ r.answer = NoAnswer
  /\ LET answered == [r EXCEPT !.answer = [u \in r.users |-> list[u]]]
     IN  requests' = (requests \ {r}) \cup {[answered EXCEPT !.asof = head]}
  /\ UNCHANGED <<server, token, row, verified, remembered, contexts, erasing, uiq, faults, history>>

\* The contexts that get the signal userKeysUpdateFinalize(u).
Connected(u) == {c.slot : c \in {x \in contexts : x.user = u}}

QueryDone(r) ==
  /\ r.answer # NoAnswer /\ r.kind = "query"
  /\ requests' = requests \ {r}
  /\ uiq' = uiq \o <<[ev |-> "update", req |-> r],
                     [ev |-> "finalize", slots |-> UNION {Connected(u) : u \in r.users}]>>
  /\ UNCHANGED <<server, token, row, verified, remembered, contexts, erasing, faults, history>>

MarkDone(r) ==
  /\ r.answer # NoAnswer /\ r.kind = "mark"
  /\ requests' = requests \ {r}
  /\ uiq' = Append(uiq, [ev |-> "update", req |-> r])
  /\ UNCHANGED <<server, token, row, verified, remembered, contexts, erasing, faults, history>>

\* The callback of SendQuery stores the list itself, for the current token: on
\* the network thread, where a call of verificationStatus can be under way.
SendDone(r) ==
  /\ r.answer # NoAnswer /\ r.kind = "send"
  /\ requests' = requests \ {r}
  /\ erasing' = erasing \cup {[slot |-> r.slot, users |-> r.users]}
  /\ UpdateUserKeys(r, token)
  /\ reading' = [reading EXCEPT !.overtaken = @ \/ (~UiIdle /\ RestsOn(reading.user, r.users))]
  /\ UNCHANGED <<server, token, verified, memo, stale, contexts, uiq, faults>>

\* After the commit it takes the lock and erases the states.
SendErase(e) ==
  /\ erasing' = erasing \ {e}
  /\ Forget(e.users)
  /\ UNCHANGED <<server, token, row, verified, reading, requests, contexts, uiq, faults, history>>

\* Only the callback of query_keys hears of an error; its context stays.
QueryFails(r) ==
  /\ head + faults < MaxEvents /\ faults' = faults + 1
  /\ requests' = requests \ {r}
  /\ contexts' = {[c EXCEPT !.called = @ \/ c.slot = r.slot] : c \in contexts}
  /\ UNCHANGED <<server, token, row, verified, remembered, erasing, uiq, history>>

----------------------------------------------------------------------------
\* Slots of the UI thread.

Next1(ev) == UiIdle /\ uiq # <<>> /\ Head(uiq).ev = ev

\* Faulty variant of HandleUpdate: the list is stored for the current token.
HandleUpdateNow ==
  /\ Next1("update") /\ uiq' = Tail(uiq)
  /\ UpdateUserKeys(Head(uiq).req, token) /\ Forget(Head(uiq).req.users)
  /\ UNCHANGED <<server, token, verified, reading, requests, contexts, erasing, faults>>

HandleUpdate ==
  /\ Next1("update") /\ uiq' = Tail(uiq)
  /\ UpdateUserKeys(Head(uiq).req, Head(uiq).req.tok) /\ Forget(Head(uiq).req.users)
  /\ UNCHANGED <<server, token, verified, reading, requests, contexts, erasing, faults>>

\* The requests after the callbacks of the contexts in run have run.
Heard(run) ==
  {[r EXCEPT !.heard = @ \/ \E c \in run : c.slot = r.slot] : r \in requests}

\* Faulty variant of HandleFinalize: the contexts of other users are deleted too.
HandleFinalizeAll ==
  /\ Next1("finalize")
  /\ LET run == {c \in contexts : c.slot \in Head(uiq).slots}
     IN  /\ contexts' = (contexts \ run) \cup {[c EXCEPT !.called = TRUE] : c \in run}
         /\ requests' = Heard(run)
         /\ uiq' = Append(Tail(uiq), [ev |-> "delete", slots |-> {c.slot : c \in contexts}])
  /\ UNCHANGED <<server, token, row, verified, remembered, erasing, faults, history>>

\* The callbacks run, and their contexts will be deleted.
HandleFinalize ==
  /\ Next1("finalize")
  /\ LET run == {c \in contexts : c.slot \in Head(uiq).slots}
     IN  /\ contexts' = (contexts \ run) \cup {[c EXCEPT !.called = TRUE] : c \in run}
         /\ requests' = Heard(run)
         /\ uiq' = Append(Tail(uiq), [ev |-> "delete", slots |-> {c.slot : c \in run}])
  /\ UNCHANGED <<server, token, row, verified, remembered, erasing, faults, history>>

HandleDelete ==
  /\ Next1("delete") /\ uiq' = Tail(uiq)
  /\ contexts' = {c \in contexts : c.slot \notin Head(uiq).slots}
  /\ UNCHANGED <<server, token, row, verified, remembered, requests, erasing, faults, history>>

Restart ==
  /\ head + faults < MaxEvents /\ faults' = faults + 1
  /\ requests' = {} /\ contexts' = {} /\ erasing' = {} /\ uiq' = <<>>
  /\ memo' = [u \in User |-> NoStatus] /\ reading' = NoReading /\ stale' = {}
  /\ UNCHANGED <<server, token, row, verified, history>>

Init ==
  /\ list = First
  /\ changed = [u \in User |-> {}] /\ head = 0 /\ token = 0
  /\ row = [u \in User |-> NoRow] /\ verified = [u \in User |-> {}]
  /\ memo = [u \in User |-> NoStatus] /\ reading = NoReading /\ stale = {}
  /\ requests = {} /\ contexts = {} /\ erasing = {} /\ uiq = <<>>
  /\ faults = 0
  /\ pinned = [u \in User |-> [d \in Device |-> {}]]
  /\ unchecked = [u \in User |-> [d \in Device |-> NoKey]]

Next ==
  \/ Sync \/ HandleUpdate \/ HandleFinalize \/ HandleDelete \/ Remember \/ Restart
  \/ \E u \in User : Change(u)
  \/ \E u \in Asked : VerificationStatus(u) \/ ReadTables(u) \/ RoomVerificationStatus(u)
                        \/ MarkOne(u) \/ SendQuery(u) \/ QueryKeys(u)
  \/ \E v \in Verifiable : MarkDeviceVerified(v[1], v[2]) \/ MarkDeviceUnverified(v[1], v[2])
  \/ \E r \in requests : ServerAnswers(r) \/ QueryDone(r) \/ MarkDone(r) \/ SendDone(r)
                           \/ QueryFails(r)
  \/ \E e \in erasing : SendErase(e)

Spec == Init /\ [][Next]_vars

----------------------------------------------------------------------------
\* Properties.

TypeOK ==
  /\ \A u \in User : list[u] \in Lists[u] /\ changed[u] \subseteq 1..head
  /\ head \in Position /\ token \in 0..head
  /\ \A u \in User : HasRow(u) => row[u] \in Row /\ row[u].last <= token
  /\ \A r \in requests : r.slot \in Slot /\ r.users \subseteq User /\ r.tok <= token
  /\ \A r, q \in requests : r.slot = q.slot => r = q
  /\ \A c, d \in contexts : c.slot = d.slot => c = d

\* The list of a row has every change that the syncs up to t have announced.
Covers(u, r, t) == \A c \in changed[u] : c <= t => c <= r.asof

\* A list that query_keys serves from the cache contains every change of it that
\* a sync has announced, whatever answers came late, failed, were asked for
\* twice or were overtaken by a sync or a restart.  Lists that were stored by
\* the send path are not meant: it reads the token when the answer comes.
FreshList ==
  \A u \in User : UpToDate(u) /\ ~row[u].sent => Covers(u, row[u], token)

\* A list with all announced changes is never replaced by one that misses some:
\* answers that come out of order do no harm even where the list is used
\* without looking at its tokens (getMembersWithKeys).
KeepsCurrent ==
  [][\A u \in User : HasRow(u) /\ Covers(u, row[u], token) =>
       row[u]'.sent \/ Covers(u, row[u]', token)]_vars

\* "Don't insert keys, which we have seen once already": from the first update
\* on that is checked against a row a device never gets other keys, and a key
\* gets to another device only if the first list of the user, which is stored as
\* it came, gave it to one of the two.
KeysPinned ==
  \A u \in User : \A d, e \in Device : \A k \in pinned[u][d] : \A m \in pinned[u][e] :
    /\ d = e => k = m
    /\ k = m => d = e \/ unchecked[u][d] = k \/ unchecked[u][e] = k

\* A remembered verification state never claims more than the tables say now,
\* although the state of every user rests on our own keys as well.  Two states
\* are not meant: one that is about to be erased, and one that was remembered
\* although its transaction had begun before the send path stored other keys.
Rank(trust) == CASE trust = "verified" -> 2 [] trust = "tofu" -> 1 [] OTHER -> 0
ToErase(u) == \E e \in erasing : RestsOn(u, e.users)

StatusCurrent ==
  \A u \in User : memo[u] # NoStatus /\ u \notin stale /\ ~ToErase(u) =>
    LET s == Status(row, verified, u)
    IN  /\ Rank(memo[u].trust) <= Rank(s.trust)
        /\ memo[u].keys \subseteq s.keys /\ memo[u].ids \subseteq s.ids

\* Nobody waits for keys in vain: as long as its callback has not run a query
\* has a context, and the context a request or a signal that will run it.
CallbackComes ==
  /\ \A r \in requests : r.kind = "query" /\ ~r.heard => \E c \in contexts : c.slot = r.slot
  /\ \A c \in contexts :
       \/ c.called
       \/ \E r \in requests : r.slot = c.slot
       \/ \E i \in DOMAIN uiq : uiq[i].ev = "finalize" /\ c.slot \in uiq[i].slots
=============================================================================
