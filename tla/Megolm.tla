------------------------------- MODULE Megolm -------------------------------
(***************************************************************************)
(* Megolm sessions of one encrypted room: encrypt_group_message with its    *)
(* decision to keep, share or rotate the outbound session, the room keys    *)
(* that send_encrypted_to_device_messages hands to Olm, the re-encryption   *)
(* of queued replies, key requests, and the session table that outbound     *)
(* and inbound sessions share.                                              *)
(*                                                                         *)
(* Slots of the UI thread are single actions, except encrypt_group_message: *)
(* an answered key query may change a device list between its steps, and    *)
(* the program may end between any two of its transactions.                 *)
(***************************************************************************)
EXTENDS Integers, Sequences

CONSTANTS
  User, Me,         \* users, and the local one
  Device, Own,      \* devices, and the one this program is
  Owner,            \* the user of each device
  Trusted,          \* the devices that are verified
  ShareTrusted,     \* the setting shareKeysWithTrustedUsers
  NoRow,
  RotationMsgs,     \* rotation_period_msgs of the room
  Unknown,          \* users whose device list may be missing at first
  Starts,           \* bound: indices at which sessions we are sent start
  MaxSessions,      \* bound: sessions that are created
  MaxMessages,      \* bound: messages, and the index of a session
  MaxChanges,       \* bound: changes of members, device lists and settings, and
                    \* sessions that others send or a file holds
  MaxFaults         \* bound: crashes and key queries that fail

ASSUME UserAssumption == Me \in User /\ Own \in Device
ASSUME OwnerAssumption == Owner \in [Device -> User] /\ Owner[Own] = Me
ASSUME TrustedAssumption ==
  Trusted \subseteq Device /\ ShareTrusted \in BOOLEAN /\ Unknown \subseteq User
ASSUME MegolmBounds ==
  /\ RotationMsgs \in Nat \ {0} /\ MaxSessions \in Nat /\ MaxMessages \in Nat
  /\ MaxChanges \in Nat /\ MaxFaults \in Nat /\ Starts \subseteq 0..MaxMessages

VARIABLES
  room,             \* members of the room in the cache
  server, row,      \* device lists of the homeserver and of the user keys table
  verifiedOnly,     \* the setting onlyShareKeysWithVerifiedUsers
  out,              \* the session in outboundMegolmSessions, 0 if there is none
  index,            \* message_index of our sessions
  record,           \* the field currently of their session data
  inbound,          \* inboundMegolmSessions: first known index and trust
  job,              \* what encrypt_group_message is doing
  queries,          \* key queries of send_encrypted_to_device_messages
  changes, faults,
  sent,             \* history: the messages that got into the tables of their
                    \* room, from where they are sent, in that order
  given,            \* history: lowest index of each session a device may have
                    \* been handed
  asked,            \* history: lowest index a user's devices were queried for
  exempt,           \* history: sessions and devices that were handed a session
                    \* because they are verified, or in a call cut off by a crash
  cut               \* history: sessions that were stored by a call cut off by a
                    \* crash before they were handed to anybody

lists == <<room, server, row, verifiedOnly>>
tables == <<out, index, record, inbound>>
history == <<sent, given, asked, exempt, cut>>
vars == <<lists, tables, job, queries, changes, faults, history>>

----------------------------------------------------------------------------

Session == 1..MaxSessions       \* ours, in the order of their creation
Foreign == 0                    \* a session of somebody else
Index   == 0..MaxMessages
Never   == MaxMessages + 1

DevicesOf(u) == {d \in Device : Owner[d] = u}

\* A job has the session with the index of its message, the members that were
\* looked at, if any were, and those among them the session is sent to.
Job(pc, s, i, checked, members, send) ==
  [pc |-> pc, s |-> s, i |-> i, checked |-> checked, members |-> members, send |-> send]
Idle == Job("idle", 0, 0, FALSE, <<>>, <<>>)

\* SharedWithUsers, empty.
NoOne == [users |-> {}, at |-> [d \in Device |-> Never]]
Recorded(s) == {d \in Device : record[s].at[d] # Never}
Created(s) == inbound[s].first # Never

Everyone(to) == UNION {to[u] : u \in DOMAIN to}

\* f, with i for the members of D where that is less.
Lowest(f, D, i) == [d \in DOMAIN f |-> IF d \in D /\ i < f[d] THEN i ELSE f[d]]

----------------------------------------------------------------------------
\* encrypt_group_message.

\* Faulty variant of After: the message is queued before the ratchet is stored.
AfterSwapped ==
  [create |-> "share", share |-> "queue", queue |-> "store", store |-> "idle"]

\* The order of the steps: a new session is stored, its key is shared, the
\* ratchet behind the message is stored, and the caller queues the message.
After == [create |-> "share", share |-> "store", store |-> "queue", queue |-> "idle"]

Proceed == job' = IF After[job.pc] = "idle" THEN Idle ELSE [job EXCEPT !.pc = After[job.pc]]

\* Bound: there is room for one more message.
Room(s) == Len(sent) < MaxMessages /\ index[s] < MaxMessages

\* getMembersWithKeys: the devices of each member.  A member without a row is
\* left out if only verified users are wanted.
Members ==
  LET wanted == IF verifiedOnly THEN Trusted ELSE Device
      keys(u) == IF row[u] = NoRow THEN {} ELSE row[u] \cap wanted
  IN  [u \in {u \in room : verifiedOnly => keys(u) # {}} |-> keys(u)]

\* Faulty variant of Keep: a device that is gone is missed.
KeepDevices(m, s) ==
  index[s] < RotationMsgs /\ DOMAIN m # {} /\ record[s].users \subseteq DOMAIN m

\* The walk over the members and the record of the session: it is used again
\* unless a user on the record has left or a device on it is gone.
Keep(m, s) ==
  /\ index[s] < RotationMsgs /\ DOMAIN m # {}
  /\ record[s].users \subseteq DOMAIN m
  /\ \A d \in Recorded(s) : d \in m[Owner[d]]

\* Faulty variant of Additions: new devices of users on the record are missed.
AdditionsUsers(m, s) ==
  [u \in DOMAIN m \ record[s].users |-> m[u] \ {Own}]

\* sendSessionTo for a session that is kept: new users, with all their devices,
\* and new devices.
Additions(m, s) ==
  LET more(u) == m[u] \ (Recorded(s) \cup {Own})
  IN  [u \in {u \in DOMAIN m : u \notin record[s].users \/ more(u) # {}} |-> more(u)]

EncryptKeep ==
  /\ job = Idle /\ out # 0 /\ Room(out) /\ Keep(Members, out)
  /\ job' = Job("share", out, index[out], TRUE, Members, Additions(Members, out))
  /\ UNCHANGED <<lists, tables, queries, changes, faults, history>>

\* There is no session to be kept, or it is older than rotation_period_ms.  The
\* new one is stored before anybody hears of it, first among those that decrypt.
EncryptNew(s) ==
  /\ job = Idle /\ Room(s)
  /\ ~Created(s) /\ \A t \in 1..(s - 1) : Created(t)
  /\ LET all == [u \in DOMAIN Members |-> Members[u] \ {Own}]
     IN  /\ record' = [record EXCEPT ![s] =
              [users |-> DOMAIN all,
               at |-> [d \in Device |-> IF d \in Everyone(all) THEN 0 ELSE Never]]]
         /\ job' = Job("create", s, 0, TRUE, Members, all)
  /\ inbound' = [inbound EXCEPT ![s] = [first |-> 0, trusted |-> TRUE]]
  /\ UNCHANGED <<lists, out, index, queries, changes, faults, history>>

\* saveOutboundMegolmSession, in a transaction of its own.
SaveOutbound ==
  /\ job.pc = "create" /\ Proceed
  /\ out' = job.s
  /\ UNCHANGED <<lists, index, record, inbound, queries, changes, faults, history>>

\* send_encrypted_to_device_messages with the room key at the current index.
\* No devices are all devices; the list of a user who has none, or not all that
\* are wanted, is queried, and then some devices in it may be passed over.
Share ==
  /\ job.pc = "share" /\ Proceed
  /\ LET s == job.s
         Who == DOMAIN job.send
         targets(u) == IF row[u] = NoRow THEN {}
                       ELSE IF job.send[u] = {} THEN row[u] ELSE job.send[u]
         query == {u \in Who : row[u] = NoRow \/ ~(targets(u) \subseteq row[u])}
         all == (UNION {targets(u) \cap row[u] : u \in {u \in Who : row[u] # NoRow}}) \ {Own}
     IN  /\ given' = [given EXCEPT ![s] = Lowest(@, all, job.i)]
         /\ queries' = queries \cup {[user |-> u, s |-> s, i |-> job.i] : u \in query}
         /\ asked' = [asked EXCEPT ![s] = Lowest(@, query, job.i)]
  /\ UNCHANGED <<lists, tables, changes, faults, sent, exempt, cut>>

\* Faulty variant of Widen: the record has the first index for everybody.
WidenFirst(s, to, i) ==
  [users |-> record[s].users \cup DOMAIN to,
   at |-> Lowest(record[s].at, Everyone(to) \ Recorded(s), 0)]

\* New users and devices are recorded with index i.
Widen(s, to, i) ==
  [users |-> record[s].users \cup DOMAIN to,
   at |-> Lowest(record[s].at, Everyone(to) \ Recorded(s), i)]

\* Faulty variant of Store: the index is counted twice.
StoreTwice ==
  /\ job.pc = "store" /\ Proceed
  /\ index' = [index EXCEPT ![job.s] = job.i + 2]
  /\ record' = [record EXCEPT ![job.s] = Widen(job.s, job.send, job.i + 1)]
  /\ UNCHANGED <<lists, out, inbound, queries, changes, faults, history>>

\* The message is encrypted, and updateOutboundMegolmSession stores the ratchet
\* behind it with whom the session was sent to.
Store ==
  /\ job.pc = "store" /\ Proceed
  /\ index' = [index EXCEPT ![job.s] = job.i + 1]
  /\ record' = [record EXCEPT ![job.s] = Widen(job.s, job.send, job.i + 1)]
  /\ UNCHANGED <<lists, out, inbound, queries, changes, faults, history>>

\* The caller puts the message among the pending ones of the room.
Queue ==
  /\ job.pc = "queue" /\ Proceed
  /\ sent' = Append(sent, [s |-> job.s, i |-> job.i, checked |-> job.checked,
                           users |-> DOMAIN job.members, devices |-> Everyone(job.members)])
  /\ UNCHANGED <<lists, tables, queries, changes, faults, given, asked, exempt, cut>>

\* A queued reply whose target got its event id is encrypted once more, with
\* the session as it is, and replaced.
Reencrypt ==
  /\ job = Idle /\ out # 0 /\ sent # <<>> /\ Room(out)
  /\ job' = Job("store", out, index[out], FALSE, <<>>, <<>>)
  /\ UNCHANGED <<lists, tables, queries, changes, faults, history>>

\* The command /rotate-megolm-session: dropOutboundMegolmSession.
DropOutbound ==
  /\ job = Idle /\ out # 0 /\ out' = 0
  /\ UNCHANGED <<lists, index, record, inbound, job, queries, changes, faults, history>>

----------------------------------------------------------------------------
\* Answers to key queries, key requests, and sessions from others.

Change == changes < MaxChanges /\ changes' = changes + 1

\* The answer is stored, and the room key goes to the devices in it.
QueryAnswer(q) ==
  /\ q \in queries /\ queries' = queries \ {q}
  /\ row' = [row EXCEPT ![q.user] = server[q.user]]
  /\ given' = [given EXCEPT ![q.s] = Lowest(@, server[q.user] \ {Own}, q.i)]
  /\ UNCHANGED <<room, server, verifiedOnly, tables, job, changes, faults, sent, asked, exempt, cut>>

QueryFails(q) ==
  /\ q \in queries /\ queries' = queries \ {q}
  /\ faults < MaxFaults /\ faults' = faults + 1
  /\ UNCHANGED <<lists, tables, job, changes, history>>

\* handle_key_request_message.  A verified device gets all there is, a device on
\* the record what it was given before.
KeyRequest(d, s) ==
  LET verified == d \in Trusted /\ (ShareTrusted \/ Owner[d] = Me)
      from == IF verified THEN inbound[s].first ELSE record[s].at[d]
  IN  /\ job = Idle /\ d # Own /\ Created(s)
      /\ Owner[d] \in room
      /\ from # Never
      /\ given' = [given EXCEPT ![s] = Lowest(@, {d}, from)]
      /\ exempt' = IF verified THEN exempt \cup {<<s, d>>} ELSE exempt
      /\ UNCHANGED <<lists, tables, job, queries, changes, faults, sent, asked, cut>>

\* Faulty variant of Better: an equal session replaces the stored one.
BetterOrEqual(s, i) == ~Created(s) \/ i <= inbound[s].first

\* A session that starts earlier than the stored one.
Better(s, i) == ~Created(s) \/ i < inbound[s].first

Known(s) == s = Foreign \/ Created(s)

\* saveInboundMegolmSession for a room key or a forwarded one that starts at i.
SaveInbound(s, i, trusted) ==
  /\ job = Idle /\ Change /\ Known(s)
  /\ inbound' = [inbound EXCEPT ![s] =
       IF ~Created(s) THEN [first |-> i, trusted |-> trusted]
       ELSE IF @.trusted /\ i >= @.first THEN @
       ELSE [first |-> IF Better(s, i) THEN i ELSE @.first, trusted |-> trusted \/ @.trusted]]
  /\ UNCHANGED <<lists, out, index, record, job, queries, faults, history>>

\* importSessionKeys writes new session data, which forget who has the session.
ImportKeys(s, i) ==
  /\ job = Idle /\ Change /\ Known(s) /\ Better(s, i)
  /\ inbound' = [inbound EXCEPT ![s] = [first |-> i, trusted |-> FALSE]]
  /\ record' = [record EXCEPT ![s] = NoOne]
  /\ UNCHANGED <<lists, out, index, job, queries, faults, history>>

----------------------------------------------------------------------------
\* The world around.

\* A sync adds or removes a member.
Membership(u) ==
  /\ job = Idle /\ Change /\ u # Me
  /\ room' = IF u \in room THEN room \ {u} ELSE room \cup {u}
  /\ UNCHANGED <<server, row, verifiedOnly, tables, job, queries, faults, history>>

ToggleVerifiedOnly ==
  /\ job = Idle /\ Change
  /\ verifiedOnly' = ~verifiedOnly
  /\ UNCHANGED <<room, server, row, tables, job, queries, faults, history>>

\* A device appears or disappears at the homeserver.
DeviceChange(d) ==
  /\ Change /\ d # Own
  /\ server' = [server EXCEPT ![Owner[d]] = IF d \in @ THEN @ \ {d} ELSE @ \cup {d}]
  /\ UNCHANGED <<room, row, verifiedOnly, tables, job, queries, faults, history>>

\* userKeysUpdate brings the stored list up to date.
UpdateRow(u) ==
  /\ job = Idle /\ row[u] # server[u]
  /\ row' = [row EXCEPT ![u] = server[u]]
  /\ UNCHANGED <<room, server, verifiedOnly, tables, job, queries, changes, faults, history>>

\* The program ends and starts again: a message that was not queued is gone.
\* Keys that were handed out and not recorded are known to nobody here.
Crash ==
  /\ faults < MaxFaults /\ faults' = faults + 1
  /\ job' = Idle /\ queries' = {}
  /\ exempt' = IF job.pc = "store" /\ job.checked
                 THEN exempt \cup {<<job.s, d>> : d \in
                        {d \in Device : given[job.s][d] # Never /\ d \notin Recorded(job.s)}}
                 ELSE exempt
  /\ cut' = IF job.pc \in {"create", "share"} /\ job.i = 0 THEN cut \cup {job.s} ELSE cut
  /\ UNCHANGED <<lists, tables, changes, sent, given, asked>>

----------------------------------------------------------------------------

Init ==
  /\ room = User
  /\ server = [u \in User |-> DevicesOf(u)]
  /\ \E us \in SUBSET Unknown :
       row = [u \in User |-> IF u \in us THEN NoRow ELSE server[u]]
  /\ verifiedOnly = FALSE
  /\ out = 0 /\ index = [s \in Session |-> 0]
  /\ record = [s \in {Foreign} \cup Session |-> NoOne]
  /\ inbound = [s \in {Foreign} \cup Session |-> [first |-> Never, trusted |-> FALSE]]
  /\ job = Idle /\ queries = {}
  /\ changes = 0 /\ faults = 0
  /\ sent = <<>> /\ exempt = {} /\ cut = {}
  /\ given = [s \in Session |-> [d \in Device |-> Never]]
  /\ asked = [s \in Session |-> [u \in User |-> Never]]

Encryption ==
  \/ EncryptKeep \/ SaveOutbound \/ Share \/ Store \/ Queue \/ Reencrypt \/ DropOutbound
  \/ \E s \in Session : EncryptNew(s)

Keys ==
  \/ \E q \in queries : QueryAnswer(q) \/ QueryFails(q)
  \/ \E d \in Device, s \in Session : KeyRequest(d, s)
  \/ \E s \in {Foreign} \cup Session, i \in Starts :
       ImportKeys(s, i) \/ \E t \in BOOLEAN : SaveInbound(s, i, t)

World ==
  \/ \E u \in User : Membership(u) \/ UpdateRow(u)
  \/ \E d \in Device : DeviceChange(d)
  \/ ToggleVerifiedOnly \/ Crash

Next == Encryption \/ Keys \/ World

Spec == Init /\ [][Next]_vars

----------------------------------------------------------------------------
\* Properties.

TypeOK ==
  /\ room \subseteq User /\ Me \in room
  /\ server \in [User -> SUBSET Device]
  /\ row \in [User -> {NoRow} \cup SUBSET Device]
  /\ verifiedOnly \in BOOLEAN
  /\ out \in {0} \cup Session
  /\ index \in [Session -> Index]
  /\ record \in [{Foreign} \cup Session ->
                   [users : SUBSET User, at : [Device -> Index \cup {Never}]]]
  /\ inbound \in [{Foreign} \cup Session ->
                    [first : Index \cup {Never}, trusted : BOOLEAN]]
  /\ job.pc \in {"idle", "create", "share", "store", "queue"} /\ job.s \in {0} \cup Session
  /\ job.i \in Index /\ job.checked \in BOOLEAN
  /\ queries \subseteq [user : User, s : Session, i : Index]
  /\ changes \in 0..MaxChanges /\ faults \in 0..MaxFaults
  /\ given \in [Session -> [Device -> Index \cup {Never}]]
  /\ asked \in [Session -> [User -> Index \cup {Never}]]
  /\ exempt \subseteq Session \X Device /\ cut \subseteq Session

Checked == {k \in DOMAIN sent : sent[k].checked}

\* No index of a session encrypts two messages that are queued, with replies
\* encrypted once more and the program ended between any two transactions: the
\* ratchet in the table is never behind a message in the table.
IndexOnce ==
  \A j, k \in DOMAIN sent :
    sent[j].s = sent[k].s /\ sent[j].i = sent[k].i => j = k

\* A message can be read by members of the room at that time only, in whatever
\* way a device got the session: shared, queried for, forwarded on request, and
\* with the session imported again.
OnlyMembers ==
  \A k \in Checked : \A d \in Device :
    given[sent[k].s][d] <= sent[k].i =>
      Owner[d] \in sent[k].users \/ <<sent[k].s, d>> \in exempt

\* A device on the record was a known device of a member at each message from
\* its recorded index on: a removed device ends the session.
OnlyKnownDevices ==
  \A k \in Checked : \A d \in Device :
    record[sent[k].s].at[d] <= sent[k].i => d \in sent[k].devices

\* Every known device of every member was handed the session in time for the
\* message, or the devices of its user were queried for that.  Where a crash
\* kept the session from everybody, the record lets the device ask for it.
AllCanRead ==
  \A k \in Checked : \A d \in sent[k].devices \ {Own} :
    \/ given[sent[k].s][d] <= sent[k].i
    \/ asked[sent[k].s][Owner[d]] <= sent[k].i
    \/ sent[k].s \in cut /\ record[sent[k].s].at[d] <= sent[k].i

\* A stored session never loses messages, and trust is lost only for more of
\* them.
InboundImproves ==
  [][\A s \in DOMAIN inbound :
       /\ inbound'[s].first <= inbound[s].first
       /\ inbound[s].trusted => inbound'[s].trusted \/ inbound'[s].first < inbound[s].first]_vars
=============================================================================
