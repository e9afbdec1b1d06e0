---------------------------- MODULE MegolmProofs ----------------------------
(***************************************************************************)
(* Theorems about Megolm for any number of users, devices, sessions,       *)
(* messages, changes and faults.                                           *)
(***************************************************************************)
EXTENDS Megolm, TLAPS, SequenceTheorems

Message ==
  [s : Session, i : Index, checked : BOOLEAN, users : SUBSET User, devices : SUBSET Device]

\* A map from users to devices of theirs.
Owned(to) == DOMAIN to \subseteq User /\ \A u \in DOMAIN to : to[u] \subseteq DevicesOf(u)

\* What is being encrypted, between its steps: whoever is on the record is still
\* a member, and the session goes to all who are not on it.  A message that is
\* encrypted once more goes with the session to nobody.
Busy ==
  /\ job.pc \in {"create", "share", "store", "queue"} /\ job.s \in Session /\ Created(job.s)
  /\ job = Job(job.pc, job.s, job.i, job.checked, job.members, job.send)
  /\ Len(sent) < MaxMessages /\ job.i \in Index /\ job.i < MaxMessages
  /\ index[job.s] = (IF job.pc = "queue" THEN job.i + 1 ELSE job.i)
  /\ Owned(job.members) /\ DOMAIN job.send \subseteq DOMAIN job.members
  /\ \A u \in DOMAIN job.send : job.send[u] \subseteq job.members[u] \ {Own}
  /\ \A u \in DOMAIN job.members : \A d \in job.members[u] \ {Own} :
       d \in Recorded(job.s) \/ (u \in DOMAIN job.send /\ d \in job.send[u])
  /\ IF job.checked
       THEN /\ record[job.s].users \subseteq DOMAIN job.members
            /\ Recorded(job.s) \subseteq Everyone(job.members)
       ELSE job.members = <<>> /\ job.send = <<>>

\* Device lists hold devices of their users, and messages are well formed.
ListsOK ==
  /\ \A u \in User : server[u] \subseteq DevicesOf(u)
  /\ \A u \in User : row[u] # NoRow => row[u] \subseteq DevicesOf(u)
SentOK ==
  /\ sent \in Seq(Message) /\ Len(sent) <= MaxMessages
  /\ \A k \in DOMAIN sent : \A d \in sent[k].devices : Owner[d] \in sent[k].users

\* Our sessions are known from their first message, and nothing is known of
\* those that have not been created.
SessionsOK ==
  /\ out # 0 => Created(out)
  /\ \A s \in Session : Created(s) => inbound[s].first = 0
  /\ \A s \in Session : ~Created(s) => index[s] = 0 /\ \A d \in Device : given[s][d] = Never
  /\ \A q \in queries : Created(q.s)
  /\ \A k \in DOMAIN sent : Created(sent[k].s)

\* The ratchet is behind every message, and the message on its way to the queue
\* is behind those in it.
Ratchet ==
  /\ \A k \in DOMAIN sent : sent[k].i < index[sent[k].s]
  /\ job.pc = "queue" => \A k \in DOMAIN sent : sent[k].s = job.s => sent[k].i < job.i

\* Records name users with their devices, from an index that was reached.
RecordOK ==
  \A s \in Session : \A d \in Recorded(s) :
    Owner[d] \in record[s].users /\ record[s].at[d] <= index[s]

StateInv ==
  TypeOK /\ (job = Idle \/ Busy) /\ ListsOK /\ SentOK /\ SessionsOK /\ Ratchet /\ RecordOK

\* The users a session has been handed to, and is about to be recorded for.
Sharing(s) ==
  record[s].users \cup (IF job.pc = "store" /\ job.s = s THEN DOMAIN job.send ELSE {})

HoldersShare ==
  \A s \in Session : \A d \in Device :
    given[s][d] # Never => Owner[d] \in Sharing(s) \/ <<s, d>> \in exempt

QueriesShare ==
  \A q \in queries :
    /\ q.user \in Sharing(q.s)
    /\ \A k \in Checked : sent[k].s = q.s /\ q.i <= sent[k].i => q.user \in sent[k].users

MembersInv == HoldersShare /\ QueriesShare /\ OnlyKnownDevices /\ OnlyMembers

\* The device can get the session from index i on.
Served(s, d, i) ==
  \/ given[s][d] <= i
  \/ asked[s][Owner[d]] <= i
  \/ s \in cut /\ record[s].at[d] <= i

\* Whoever is on the record has been served, or is about to be.
RecordServed ==
  \A s \in Session : \A d \in Recorded(s) :
    \/ Served(s, d, index[s])
    \/ /\ job.pc \in {"create", "share"} /\ job.s = s /\ index[s] = 0
       /\ Owner[d] \in DOMAIN job.send /\ d \in job.send[Owner[d]]

JobServed ==
  job.pc \in {"store", "queue"} =>
    \A u \in DOMAIN job.members : \A d \in job.members[u] \ {Own} : Served(job.s, d, job.i)

ReadInv == RecordServed /\ JobServed /\ AllCanRead

----------------------------------------------------------------------------
\* The operators.

\* Marks are the indices and the one that is never reached.
Mark == Index \cup {Never}

LEMMA Marks ==
  /\ Mark = 0..(MaxMessages + 1) /\ Never \in Mark /\ 0 \in Mark /\ 0 # Never
  /\ \A i \in Index : i \in Mark /\ i \in Nat /\ i < Never /\ i <= MaxMessages
  /\ \A m \in Mark : m \in Nat /\ m <= Never
  /\ Foreign \notin Session /\ 0 \notin Session
BY MegolmBounds DEF Mark, Index, Never, Foreign, Session

\* Lowest lowers, to the mark it is given, and lowers nothing else.
LEMMA LowestIs ==
  ASSUME NEW S, NEW f \in [S -> Mark], NEW D, NEW i \in Mark
  PROVE  /\ Lowest(f, D, i) \in [S -> Mark]
         /\ \A d \in S : /\ Lowest(f, D, i)[d] <= f[d]
                         /\ d \in D => Lowest(f, D, i)[d] <= i
                         /\ Lowest(f, D, i)[d] = f[d] \/ (d \in D /\ Lowest(f, D, i)[d] = i)
                         /\ d \notin D => Lowest(f, D, i)[d] = f[d]
<1>1. Lowest(f, D, i) = [d \in S |-> IF d \in D /\ i < f[d] THEN i ELSE f[d]]
  BY DEF Lowest
<1>2. \A d \in S : f[d] \in Nat /\ f[d] \in Mark /\ i \in Nat
  BY Marks
<1> QED BY <1>1, <1>2

LEMMA NoMembers == Owned(<<>>) /\ DOMAIN <<>> = {} /\ Everyone(<<>>) = {}
BY DEF Owned, Everyone

\* getMembersWithKeys gives members of the room with devices of theirs.
LEMMA MembersOwned ==
  ASSUME TypeOK, ListsOK PROVE Owned(Members)
<1>1. DOMAIN Members \subseteq User
  BY DEF Members, TypeOK
<1>2. ASSUME NEW u \in DOMAIN Members PROVE Members[u] \subseteq DevicesOf(u)
  BY <1>1 DEF Members, ListsOK
<1> QED BY <1>1, <1>2 DEF Owned

\* A session of ours that has been created is known from its first message, so
\* that nothing is imported over it.
LEMMA NoImport ==
  ASSUME TypeOK, SessionsOK, NEW s \in Session, NEW i \in Starts PROVE ~ImportKeys(s, i)
<1>1. i \in Nat /\ ~(i < 0)
  BY MegolmBounds
<1>2. s # Foreign
  BY Marks
<1> QED BY <1>1, <1>2 DEF ImportKeys, Known, Better, SessionsOK

\* saveInboundMegolmSession, of a session of ours.
LEMMA SaveInboundIs ==
  ASSUME TypeOK, NEW s \in {Foreign} \cup Session, NEW i \in Starts, NEW t \in BOOLEAN,
         SaveInbound(s, i, t)
  PROVE  /\ inbound' \in [{Foreign} \cup Session -> [first : Mark, trusted : BOOLEAN]]
         /\ \A r \in {Foreign} \cup Session :
              /\ inbound'[r].first <= inbound[r].first
              /\ inbound[r].trusted => inbound'[r].trusted \/ inbound'[r].first < inbound[r].first
         /\ \A r \in Session : Created(r)' <=> Created(r)
<1> DEFINE new == IF ~Created(s) THEN [first |-> i, trusted |-> t]
                  ELSE IF inbound[s].trusted /\ i >= inbound[s].first THEN inbound[s]
                  ELSE [first |-> IF Better(s, i) THEN i ELSE inbound[s].first,
                        trusted |-> t \/ inbound[s].trusted]
<1>1. /\ inbound' = [inbound EXCEPT ![s] = new]
      /\ inbound \in [{Foreign} \cup Session -> [first : Mark, trusted : BOOLEAN]]
  BY DEF SaveInbound, TypeOK, Mark
<1>2. i \in Index /\ i \in Mark /\ i \in Nat /\ i < Never
  BY MegolmBounds, Marks DEF Index
<1>3. inbound[s].first \in Nat /\ inbound[s].first \in Mark /\ inbound[s].trusted \in BOOLEAN
      /\ (~Created(s) => inbound[s].first = Never)
  BY <1>1, Marks DEF Created
<1>4. new \in [first : Mark, trusted : BOOLEAN]
  BY <1>1, <1>2, <1>3
<1>5. /\ new.first <= inbound[s].first
      /\ inbound[s].trusted => new.trusted \/ new.first < inbound[s].first
      /\ new.first # Never
  BY <1>2, <1>3, Marks DEF Better, Created
<1>6. s \in Session => Created(s)
  BY Marks DEF SaveInbound, Known
<1> HIDE DEF new
<1>7. \A r \in {Foreign} \cup Session : inbound'[r] = IF r = s THEN new ELSE inbound[r]
  BY <1>1
<1>8. inbound' \in [{Foreign} \cup Session -> [first : Mark, trusted : BOOLEAN]]
  BY <1>1, <1>4
<1>9. \A r \in {Foreign} \cup Session : inbound[r].first \in Nat
  BY <1>1, Marks
<1> QED BY <1>5, <1>6, <1>7, <1>8, <1>9 DEF Created

----------------------------------------------------------------------------
\* Types.

\* A job that is under way.
LEMMA BusyJob ==
  ASSUME job = Idle \/ Busy, job.pc # "idle"
  PROVE  Busy /\ DOMAIN job.send \subseteq User
<1>1. job # Idle
  BY DEF Idle, Job
<1>2. Busy
  BY <1>1
<1>3. DOMAIN job.send \subseteq DOMAIN job.members /\ DOMAIN job.members \subseteq User
  BY <1>2 DEF Busy, Owned
<1> QED BY <1>2, <1>3

\* The job in its next step.
LEMMA ProceedIs ==
  ASSUME Busy, Proceed
  PROVE  /\ job.pc = "create" =>
              job' = Job("share", job.s, job.i, job.checked, job.members, job.send)
         /\ job.pc = "share" =>
              job' = Job("store", job.s, job.i, job.checked, job.members, job.send)
         /\ job.pc = "store" =>
              job' = Job("queue", job.s, job.i, job.checked, job.members, job.send)
         /\ job.pc = "queue" => job' = Idle
<1>1. job = [pc |-> job.pc, s |-> job.s, i |-> job.i, checked |-> job.checked,
             members |-> job.members, send |-> job.send]
  BY DEF Busy, Job
<1>2. ASSUME NEW p, job' = [job EXCEPT !.pc = p]
      PROVE  job' = Job(p, job.s, job.i, job.checked, job.members, job.send)
  BY <1>1, <1>2 DEF Job
<1>3. /\ job.pc = "create" => job' = [job EXCEPT !.pc = "share"]
      /\ job.pc = "share" => job' = [job EXCEPT !.pc = "store"]
      /\ job.pc = "store" => job' = [job EXCEPT !.pc = "queue"]
      /\ job.pc = "queue" => job' = Idle
  BY DEF Proceed, After
<1> QED BY <1>2, <1>3

\* The fields of a job.
LEMMA Fields ==
  ASSUME NEW p, NEW t, NEW i, NEW c, NEW m, NEW to, job' = Job(p, t, i, c, m, to)
  PROVE  /\ job'.pc = p /\ job'.s = t /\ job'.i = i /\ job'.checked = c
         /\ job'.members = m /\ job'.send = to
BY DEF Job

LEMMA IdleJob ==
  /\ job = Idle => /\ job.pc = "idle" /\ job.s = 0 /\ job.i = 0 /\ job.checked = FALSE
                  /\ job.members = <<>> /\ job.send = <<>>
  /\ job' = Idle => /\ job'.pc = "idle" /\ job'.s = 0 /\ job'.i = 0 /\ job'.checked = FALSE
                   /\ job'.members = <<>> /\ job'.send = <<>>
BY DEF Idle, Job

\* The outbound session is stored once it can be used.
LEMMA OutboundIs ==
  ASSUME StateInv, SaveOutbound
  PROVE  /\ Busy /\ job.pc = "create" /\ out' = job.s /\ job.s \in Session
         /\ job' = Job("share", job.s, job.i, job.checked, job.members, job.send)
         /\ job'.pc = "share" /\ job'.s = job.s /\ job'.i = job.i /\ job'.checked = job.checked
         /\ job'.members = job.members /\ job'.send = job.send
         /\ UNCHANGED <<index, record, inbound, queries, sent, given, asked, exempt, cut>>
<1>1. Busy /\ job.pc = "create"
  BY BusyJob DEF SaveOutbound, StateInv
<1>2. job' = Job("share", job.s, job.i, job.checked, job.members, job.send)
  BY <1>1, ProceedIs DEF SaveOutbound
<1> QED BY <1>1, <1>2, Fields DEF SaveOutbound, history, Busy

\* The devices that Share hands the session to, and the users it asks for.
ShareTargets(u) ==
  IF row[u] = NoRow THEN {} ELSE IF job.send[u] = {} THEN row[u] ELSE job.send[u]
ShareQuery ==
  {u \in DOMAIN job.send : row[u] = NoRow \/ ~(ShareTargets(u) \subseteq row[u])}
ShareAll ==
  (UNION {ShareTargets(u) \cap row[u] : u \in {u \in DOMAIN job.send : row[u] # NoRow}}) \ {Own}

LEMMA ShareIs ==
  ASSUME StateInv, Share
  PROVE  /\ Busy /\ job.s \in Session /\ index[job.s] \in Index /\ index[job.s] \in Mark
         /\ index[job.s] = job.i /\ job.pc = "share"
         /\ ShareQuery \subseteq DOMAIN job.send /\ ShareQuery \subseteq User
         /\ given' = [given EXCEPT ![job.s] = Lowest(given[job.s], ShareAll, index[job.s])]
         /\ queries' = queries \cup
                         {[user |-> u, s |-> job.s, i |-> index[job.s]] : u \in ShareQuery}
         /\ asked' = [asked EXCEPT ![job.s] = Lowest(asked[job.s], ShareQuery, index[job.s])]
         /\ Lowest(given[job.s], ShareAll, index[job.s]) \in [Device -> Mark]
         /\ Lowest(asked[job.s], ShareQuery, index[job.s]) \in [User -> Mark]
         /\ job' = Job("store", job.s, job.i, job.checked, job.members, job.send)
         /\ job'.pc = "store" /\ job'.s = job.s /\ job'.i = job.i /\ job'.checked = job.checked
         /\ job'.members = job.members /\ job'.send = job.send
<1>1. Busy /\ DOMAIN job.send \subseteq User /\ job.pc = "share"
  BY BusyJob DEF Share, StateInv
<1>2. job.s \in Session /\ index[job.s] \in Index /\ index[job.s] \in Mark /\ index[job.s] = job.i
  BY <1>1, Marks DEF Busy, StateInv, TypeOK
<1>3. ShareQuery \subseteq DOMAIN job.send /\ ShareQuery \subseteq User
  BY <1>1 DEF ShareQuery
<1>4. /\ given' = [given EXCEPT ![job.s] = Lowest(given[job.s], ShareAll, job.i)]
      /\ queries' = queries \cup
                      {[user |-> u, s |-> job.s, i |-> job.i] : u \in ShareQuery}
      /\ asked' = [asked EXCEPT ![job.s] = Lowest(asked[job.s], ShareQuery, job.i)]
  BY DEF Share, ShareAll, ShareQuery, ShareTargets
<1>5. given[job.s] \in [Device -> Mark] /\ asked[job.s] \in [User -> Mark]
  BY <1>2 DEF StateInv, TypeOK, Mark
<1>6. job' = Job("store", job.s, job.i, job.checked, job.members, job.send)
  BY <1>1, ProceedIs DEF Share
<1>7. Lowest(given[job.s], ShareAll, index[job.s]) \in [Device -> Mark]
  BY <1>2, <1>5, LowestIs
<1>8. Lowest(asked[job.s], ShareQuery, index[job.s]) \in [User -> Mark]
  BY <1>2, <1>5, LowestIs
<1>9. /\ job'.pc = "store" /\ job'.s = job.s /\ job'.i = job.i /\ job'.checked = job.checked
      /\ job'.members = job.members /\ job'.send = job.send
  BY <1>6, Fields
<1> QED BY <1>1, <1>2, <1>3, <1>4, <1>6, <1>7, <1>8, <1>9

\* What is stored behind a message.
LEMMA StoreIs ==
  ASSUME StateInv, Store
  PROVE  /\ Busy /\ job.pc = "store" /\ job.s \in Session /\ Owned(job.members) /\ Owned(job.send)
         /\ index[job.s] = job.i /\ index[job.s] \in Index /\ index[job.s] + 1 \in Index
         /\ index' \in [Session -> Index] /\ index'[job.s] = index[job.s] + 1
         /\ \A t \in Session : t # job.s => index'[t] = index[t] /\ record'[t] = record[t]
         /\ record' \in [{Foreign} \cup Session -> [users : SUBSET User, at : [Device -> Mark]]]
         /\ record'[job.s].users = record[job.s].users \cup DOMAIN job.send
         /\ \A d \in Device :
              \/ record'[job.s].at[d] = record[job.s].at[d]
              \/ /\ d \in Everyone(job.send) /\ d \notin Recorded(job.s)
                 /\ record'[job.s].at[d] = index[job.s] + 1
         /\ job' = Job("queue", job.s, job.i, job.checked, job.members, job.send)
         /\ job'.pc = "queue" /\ job'.s = job.s /\ job'.i = job.i /\ job'.checked = job.checked
         /\ job'.members = job.members /\ job'.send = job.send
         /\ UNCHANGED <<out, inbound, queries, sent, given, asked, exempt, cut>>
<1>1. Busy /\ job.pc = "store" /\ DOMAIN job.send \subseteq User
  BY BusyJob DEF Store, StateInv
<1>2. job.s \in Session /\ Owned(job.members) /\ index[job.s] = job.i /\ index[job.s] \in Index
      /\ index[job.s] < MaxMessages
  BY <1>1 DEF Busy
<1>3. Owned(job.send)
  BY <1>1, <1>2 DEF Busy, Owned
<1>4. index[job.s] + 1 \in Index /\ index[job.s] + 1 \in Mark
  <2>1. index[job.s] + 1 \in Index
    BY <1>2, MegolmBounds DEF Index
  <2> QED BY <2>1, Marks
<1>5. index' = [index EXCEPT ![job.s] = index[job.s] + 1] /\ index \in [Session -> Index]
  BY <1>2 DEF Store, StateInv, TypeOK
<1> DEFINE low == Lowest(record[job.s].at, Everyone(job.send) \ Recorded(job.s), index[job.s] + 1)
           new == [users |-> record[job.s].users \cup DOMAIN job.send, at |-> low]
<1>6. record' = [record EXCEPT ![job.s] = new]
  BY <1>2 DEF Store, Widen
<1>7. record \in [{Foreign} \cup Session -> [users : SUBSET User, at : [Device -> Mark]]]
  BY DEF StateInv, TypeOK, Mark
<1>8. record[job.s].at \in [Device -> Mark] /\ record[job.s].users \subseteq User
  BY <1>2, <1>7
<1>9. /\ low \in [Device -> Mark]
      /\ \A d \in Device :
           low[d] = record[job.s].at[d]
           \/ (d \in Everyone(job.send) \ Recorded(job.s) /\ low[d] = index[job.s] + 1)
  BY <1>4, <1>8, LowestIs
<1> HIDE DEF low
<1>10. new \in [users : SUBSET User, at : [Device -> Mark]]
  BY <1>1, <1>8, <1>9
<1>11. new.users = record[job.s].users \cup DOMAIN job.send /\ new.at = low
  OBVIOUS
<1> HIDE DEF new
<1>12. /\ record' \in [{Foreign} \cup Session -> [users : SUBSET User, at : [Device -> Mark]]]
       /\ record'[job.s] = new
       /\ \A t \in Session : t # job.s => record'[t] = record[t]
  BY <1>2, <1>6, <1>7, <1>10
<1>13. /\ index' \in [Session -> Index] /\ index'[job.s] = index[job.s] + 1
       /\ \A t \in Session : t # job.s => index'[t] = index[t]
  BY <1>2, <1>4, <1>5
<1>14. job' = Job("queue", job.s, job.i, job.checked, job.members, job.send)
  BY <1>1, ProceedIs DEF Store
<1>15. /\ job'.pc = "queue" /\ job'.s = job.s /\ job'.i = job.i /\ job'.checked = job.checked
       /\ job'.members = job.members /\ job'.send = job.send
  BY <1>14, Fields
<1>16. UNCHANGED <<out, inbound, queries, sent, given, asked, exempt, cut>>
  BY DEF Store, history
<1>17. \A d \in Device :
         \/ record'[job.s].at[d] = record[job.s].at[d]
         \/ /\ d \in Everyone(job.send) /\ d \notin Recorded(job.s)
            /\ record'[job.s].at[d] = index[job.s] + 1
  BY <1>9, <1>11, <1>12
<1>18. record'[job.s].users = record[job.s].users \cup DOMAIN job.send
  BY <1>11, <1>12
<1> QED BY <1>1, <1>2, <1>3, <1>4, <1>12, <1>13, <1>14, <1>15, <1>16, <1>17, <1>18

\* Every step preserves the types.
LEMMA TypeStep == StateInv /\ [Next]_vars => TypeOK'
<1> SUFFICES ASSUME StateInv, [Next]_vars PROVE TypeOK'
  OBVIOUS
<1> USE DEF StateInv
<1>1. CASE EncryptKeep
  <2>1. job' = Job("share", out, index[out], TRUE, Members, Additions(Members, out)) /\ out # 0
    BY <1>1 DEF EncryptKeep
  <2>2. /\ job'.pc = "share" /\ job'.s \in Session /\ job'.i \in Index /\ job'.checked = TRUE
    <3>1. job'.pc = "share" /\ job'.s = out /\ job'.i = index[out] /\ job'.checked = TRUE
      BY <2>1, Fields
    <3> QED BY <2>1, <3>1 DEF TypeOK
  <2> QED BY <1>1, <2>2 DEF EncryptKeep, TypeOK, lists, tables, history
<1>2. CASE Share
  <2> DEFINE g == Lowest(given[job.s], ShareAll, index[job.s])
             a == Lowest(asked[job.s], ShareQuery, index[job.s])
  <2>0. /\ job.s \in Session /\ g \in [Device -> Mark] /\ a \in [User -> Mark]
        /\ given' = [given EXCEPT ![job.s] = g] /\ asked' = [asked EXCEPT ![job.s] = a]
    BY <1>2, ShareIs
  <2> HIDE DEF g, a
  <2>1. /\ given' \in [Session -> [Device -> Mark]]
        /\ asked' \in [Session -> [User -> Mark]]
    BY <2>0 DEF TypeOK, Mark
  <2>2. queries' \subseteq [user : User, s : Session, i : Index]
    BY <1>2, ShareIs DEF TypeOK
  <2>3. job'.pc = "store" /\ job'.s \in Session /\ job'.i \in Index /\ job'.checked \in BOOLEAN
    BY <1>2, ShareIs DEF TypeOK
  <2> QED BY <1>2, <2>1, <2>2, <2>3 DEF Share, TypeOK, lists, tables, Mark
<1>3. CASE Store
  <2>1. /\ index' \in [Session -> Index]
        /\ record' \in [{Foreign} \cup Session -> [users : SUBSET User, at : [Device -> Mark]]]
        /\ job'.pc = "queue" /\ job'.s \in Session /\ job'.i \in Index /\ job'.checked \in BOOLEAN
    BY <1>3, StoreIs DEF TypeOK
  <2> QED BY <1>3, <2>1 DEF Store, TypeOK, lists, history, Mark
<1>4. CASE Reencrypt
  <2>1. job' = Job("store", out, index[out], FALSE, <<>>, <<>>) /\ out # 0
    BY <1>4 DEF Reencrypt
  <2>2. job'.pc = "store" /\ job'.s \in Session /\ job'.i \in Index /\ job'.checked = FALSE
    <3>1. job'.pc = "store" /\ job'.s = out /\ job'.i = index[out] /\ job'.checked = FALSE
      BY <2>1, Fields
    <3> QED BY <2>1, <3>1 DEF TypeOK
  <2> QED BY <1>4, <2>2 DEF Reencrypt, TypeOK, lists, tables, history
<1>18. CASE Queue
  <2>1. job' = Idle
    BY <1>18, BusyJob, ProceedIs DEF Queue
  <2>2. job'.pc = "idle" /\ job'.s = 0 /\ job'.i \in Index /\ job'.checked = FALSE
    BY <2>1, IdleJob, MegolmBounds DEF Index
  <2> QED BY <1>18, <2>2 DEF Queue, TypeOK, lists, tables
<1>19. CASE SaveOutbound
  <2>1. /\ out' \in Session
        /\ job'.pc = "share" /\ job'.s \in Session /\ job'.i \in Index /\ job'.checked \in BOOLEAN
    BY <1>19, OutboundIs DEF TypeOK
  <2> QED BY <1>19, <2>1 DEF SaveOutbound, TypeOK, lists, history
<1>5. CASE DropOutbound
  BY <1>5 DEF DropOutbound, TypeOK, lists, history
<1>6. ASSUME NEW s \in Session, EncryptNew(s) PROVE TypeOK'
  <2> DEFINE all == [u \in DOMAIN Members |-> Members[u] \ {Own}]
             at  == [d \in Device |-> IF d \in Everyone(all) THEN 0 ELSE Never]
  <2>1. /\ record' = [record EXCEPT ![s] = [users |-> DOMAIN all, at |-> at]]
        /\ job' = Job("create", s, 0, TRUE, Members, all)
        /\ inbound' = [inbound EXCEPT ![s] = [first |-> 0, trusted |-> TRUE]]
    BY <1>6 DEF EncryptNew
  <2>2. DOMAIN all \subseteq User
    BY MembersOwned DEF Owned
  <2>3. at \in [Device -> Mark]
    BY Marks
  <2> HIDE DEF all, at
  <2>4. record' \in [{Foreign} \cup Session -> [users : SUBSET User, at : [Device -> Mark]]]
    BY <2>1, <2>2, <2>3 DEF TypeOK, Mark
  <2>5. inbound' \in [{Foreign} \cup Session -> [first : Mark, trusted : BOOLEAN]]
    BY <2>1, Marks DEF TypeOK, Mark
  <2>6. job'.pc = "create" /\ job'.s = s /\ job'.i \in Index /\ job'.checked = TRUE
    <3>1. job'.pc = "create" /\ job'.s = s /\ job'.i = 0 /\ job'.checked = TRUE
      BY <2>1, Fields
    <3> QED BY <3>1, MegolmBounds DEF Index
  <2> QED BY <1>6, <2>4, <2>5, <2>6 DEF EncryptNew, TypeOK, lists, history, Mark
<1>7. ASSUME NEW q \in queries, QueryAnswer(q) PROVE TypeOK'
  <2>1. q.user \in User /\ q.s \in Session /\ q.i \in Mark
    BY Marks DEF TypeOK
  <2>2. Lowest(given[q.s], server[q.user] \ {Own}, q.i) \in [Device -> Mark]
    <3>1. given[q.s] \in [Device -> Mark]
      BY <2>1 DEF TypeOK, Mark
    <3> QED BY <2>1, <3>1, LowestIs
  <2>3. given' \in [Session -> [Device -> Mark]]
    BY <1>7, <2>1, <2>2 DEF QueryAnswer, TypeOK, Mark
  <2> QED BY <1>7, <2>1, <2>3 DEF QueryAnswer, TypeOK, tables, Mark
<1>8. ASSUME NEW q \in queries, QueryFails(q) PROVE TypeOK'
  BY <1>8, MegolmBounds DEF QueryFails, TypeOK, lists, tables, history
<1>9. ASSUME NEW d \in Device, NEW s \in Session, KeyRequest(d, s) PROVE TypeOK'
  <2> DEFINE verified == d \in Trusted /\ (ShareTrusted \/ Owner[d] = Me)
             from == IF verified THEN inbound[s].first ELSE record[s].at[d]
  <2>1. from \in Mark
    BY DEF TypeOK, Mark
  <2>2. given' = [given EXCEPT ![s] = Lowest(given[s], {d}, from)]
    BY <1>9 DEF KeyRequest
  <2>3. exempt' \subseteq Session \X Device
    BY <1>9 DEF KeyRequest, TypeOK
  <2> HIDE DEF from
  <2>4. Lowest(given[s], {d}, from) \in [Device -> Mark]
    BY <2>1, LowestIs DEF TypeOK, Mark
  <2>5. given' \in [Session -> [Device -> Mark]]
    BY <2>2, <2>4 DEF TypeOK, Mark
  <2> QED BY <1>9, <2>3, <2>5 DEF KeyRequest, TypeOK, lists, tables, Mark
<1>10. ASSUME NEW s \in {Foreign} \cup Session, NEW i \in Starts, ImportKeys(s, i) PROVE TypeOK'
  <2>1. i \in Mark /\ NoOne \in [users : SUBSET User, at : [Device -> Mark]]
    BY MegolmBounds, Marks DEF Index, NoOne
  <2>2. record' \in [{Foreign} \cup Session -> [users : SUBSET User, at : [Device -> Mark]]]
    BY <1>10, <2>1 DEF ImportKeys, TypeOK, Mark
  <2>3. inbound' \in [{Foreign} \cup Session -> [first : Mark, trusted : BOOLEAN]]
    BY <1>10, <2>1 DEF ImportKeys, TypeOK, Mark
  <2> QED BY <1>10, <2>2, <2>3, MegolmBounds DEF ImportKeys, Change, TypeOK, lists, history, Mark
<1>11. ASSUME NEW s \in {Foreign} \cup Session, NEW i \in Starts, NEW t \in BOOLEAN,
              SaveInbound(s, i, t)
       PROVE  TypeOK'
  <2>1. inbound' \in [{Foreign} \cup Session -> [first : Mark, trusted : BOOLEAN]]
    BY <1>11, SaveInboundIs
  <2> QED BY <1>11, <2>1, MegolmBounds DEF SaveInbound, Change, TypeOK, lists, history, Mark
<1>12. ASSUME NEW u \in User, Membership(u) PROVE TypeOK'
  BY <1>12, MegolmBounds DEF Membership, Change, TypeOK, tables, history
<1>13. ASSUME NEW u \in User, UpdateRow(u) PROVE TypeOK'
  BY <1>13 DEF UpdateRow, TypeOK, tables, history
<1>14. ASSUME NEW d \in Device, DeviceChange(d) PROVE TypeOK'
  BY <1>14, MegolmBounds, OwnerAssumption DEF DeviceChange, Change, TypeOK, tables, history
<1>15. CASE ToggleVerifiedOnly
  BY <1>15, MegolmBounds DEF ToggleVerifiedOnly, Change, TypeOK, tables, history
<1>16. CASE Crash
  <2>1. exempt' \subseteq Session \X Device /\ cut' \subseteq Session
    <3>1. job.pc # "idle" => job.s \in Session
      BY BusyJob DEF Busy
    <3> QED BY <1>16, <3>1 DEF Crash, TypeOK
  <2>2. job'.pc = "idle" /\ job'.s = 0 /\ job'.i \in Index /\ job'.checked = FALSE
    <3>1. job' = Idle
      BY <1>16 DEF Crash
    <3>2. job'.pc = "idle" /\ job'.s = 0 /\ job'.i = 0 /\ job'.checked = FALSE
      BY <3>1, IdleJob
    <3>3. 0 \in Index
      BY MegolmBounds DEF Index
    <3> QED BY <3>2, <3>3
  <2>3. faults' \in 0..MaxFaults /\ queries' = {}
    BY <1>16, MegolmBounds DEF Crash, TypeOK
  <2>4. UNCHANGED <<room, server, row, verifiedOnly, out, index, record, inbound, changes, given, asked>>
    BY <1>16 DEF Crash, lists, tables
  <2> QED BY <2>1, <2>2, <2>3, <2>4 DEF TypeOK
<1>17. CASE UNCHANGED vars
  BY <1>17 DEF vars, lists, tables, history, TypeOK
<1> QED
  BY <1>1, <1>2, <1>3, <1>4, <1>5, <1>6, <1>7, <1>8, <1>9, <1>10, <1>11, <1>12, <1>13,
     <1>14, <1>15, <1>16, <1>17, <1>18, <1>19
     DEF Next, Encryption, Keys, World
----------------------------------------------------------------------------
\* Steps.

\* What an action does that neither encrypts nor hands anything out: answers
\* may get lost, and what is stored of our sessions is as it was.
Quiet ==
  /\ job' = job /\ index' = index /\ sent' = sent /\ given' = given /\ asked' = asked
  /\ exempt' = exempt /\ cut' = cut /\ queries' \subseteq queries
  /\ out' \in {out, 0}
  /\ \A s \in Session : record'[s] = record[s] /\ inbound'[s].first = inbound[s].first

LEMMA QuietStep ==
  ASSUME StateInv, [Next]_vars
  PROVE  \/ EncryptKeep \/ SaveOutbound \/ Share \/ Store \/ Queue \/ Reencrypt \/ Crash \/ Quiet
         \/ \E s \in Session : EncryptNew(s)
         \/ \E q \in queries : QueryAnswer(q)
         \/ \E d \in Device, s \in Session : KeyRequest(d, s)
<1> USE DEF StateInv
<1>1. CASE DropOutbound
  BY <1>1 DEF DropOutbound, Quiet, lists, history
<1>2. ASSUME NEW q \in queries, QueryFails(q) PROVE Quiet
  BY <1>2 DEF QueryFails, Quiet, lists, tables, history
<1>3. ASSUME NEW s \in {Foreign} \cup Session, NEW i \in Starts, ImportKeys(s, i) PROVE Quiet
  <2>1. s = Foreign
    BY <1>3, NoImport
  <2>2. /\ inbound' = [inbound EXCEPT ![s] = [first |-> i, trusted |-> FALSE]]
        /\ record' = [record EXCEPT ![s] = NoOne]
    BY <1>3 DEF ImportKeys
  <2>3. \A t \in Session : record'[t] = record[t] /\ inbound'[t] = inbound[t]
    BY <2>1, <2>2, Marks DEF TypeOK
  <2> QED BY <1>3, <2>3 DEF ImportKeys, Quiet, lists, history
<1>4. ASSUME NEW s \in {Foreign} \cup Session, NEW i \in Starts, NEW t \in BOOLEAN,
             SaveInbound(s, i, t)
      PROVE  Quiet
  <2>1. /\ inbound' \in [{Foreign} \cup Session -> [first : Mark, trusted : BOOLEAN]]
        /\ \A r \in Session : inbound'[r].first <= inbound[r].first /\ (Created(r)' <=> Created(r))
    BY <1>4, SaveInboundIs
  <2>2. ASSUME NEW r \in Session PROVE inbound'[r].first = inbound[r].first
    <3>1. inbound'[r].first \in Nat
      BY <2>1, Marks
    <3>2. CASE Created(r)
      <4>1. inbound[r].first = 0
        BY <3>2 DEF SessionsOK
      <4> QED BY <2>1, <3>1, <4>1
    <3>3. CASE ~Created(r)
      BY <2>1, <3>3 DEF Created
    <3> QED BY <3>2, <3>3
  <2> QED BY <1>4, <2>2 DEF SaveInbound, Quiet, lists, history
<1>5. ASSUME NEW u \in User, Membership(u) PROVE Quiet
  BY <1>5 DEF Membership, Quiet, tables, history
<1>6. ASSUME NEW u \in User, UpdateRow(u) PROVE Quiet
  BY <1>6 DEF UpdateRow, Quiet, tables, history
<1>7. ASSUME NEW d \in Device, DeviceChange(d) PROVE Quiet
  BY <1>7 DEF DeviceChange, Quiet, tables, history
<1>8. CASE ToggleVerifiedOnly
  BY <1>8 DEF ToggleVerifiedOnly, Quiet, tables, history
<1>9. CASE UNCHANGED vars
  BY <1>9 DEF vars, Quiet, lists, tables, history
<1> QED
  BY <1>1, <1>2, <1>3, <1>4, <1>5, <1>6, <1>7, <1>8, <1>9 DEF Next, Encryption, Keys, World

\* A message is put behind the others.
LEMMA QueueIs ==
  ASSUME StateInv, Queue
  PROVE  /\ Busy /\ job.pc = "queue" /\ job.s \in Session /\ Owned(job.members) /\ job' = Idle
         /\ index[job.s] = job.i + 1 /\ job.i \in Nat /\ Len(sent) < MaxMessages
         /\ sent' \in Seq(Message) /\ Len(sent') = Len(sent) + 1 /\ Len(sent) \in Nat
         /\ DOMAIN sent' = DOMAIN sent \cup {Len(sent) + 1} /\ Len(sent) + 1 \notin DOMAIN sent
         /\ \A k \in DOMAIN sent : sent'[k] = sent[k] /\ sent[k] \in Message
         /\ sent'[Len(sent) + 1].s = job.s /\ sent'[Len(sent) + 1].i = job.i
         /\ sent'[Len(sent) + 1].checked = job.checked
         /\ sent'[Len(sent) + 1].users = DOMAIN job.members
         /\ sent'[Len(sent) + 1].devices = Everyone(job.members)
         /\ UNCHANGED <<out, index, record, inbound, queries, given, asked, exempt, cut>>
<1> DEFINE new == [s |-> job.s, i |-> job.i, checked |-> job.checked,
                   users |-> DOMAIN job.members, devices |-> Everyone(job.members)]
<1>0. Busy /\ job.pc = "queue"
  BY BusyJob DEF Queue, StateInv
<1>1. /\ job.s \in Session /\ Owned(job.members) /\ job.i \in Index /\ job.i \in Nat
      /\ index[job.s] = job.i + 1 /\ job.checked \in BOOLEAN /\ Len(sent) < MaxMessages
  BY <1>0, Marks DEF Busy, StateInv, TypeOK
<1>2. DOMAIN job.members \in SUBSET User /\ Everyone(job.members) \in SUBSET Device
  BY <1>1 DEF Owned, Everyone, DevicesOf
<1>3. new \in Message
  BY <1>1, <1>2 DEF Message
<1>4. sent' = Append(sent, new) /\ sent \in Seq(Message)
  BY DEF Queue, StateInv, SentOK
<1>5. /\ new.s = job.s /\ new.i = job.i /\ new.checked = job.checked
      /\ new.users = DOMAIN job.members /\ new.devices = Everyone(job.members)
  OBVIOUS
<1> HIDE DEF new
<1>6. /\ sent' \in Seq(Message) /\ Len(sent') = Len(sent) + 1
      /\ sent'[Len(sent) + 1] = new
      /\ \A k \in 1..Len(sent) : sent'[k] = sent[k]
  BY <1>3, <1>4
<1>7. DOMAIN sent = 1..Len(sent) /\ DOMAIN sent' = 1..(Len(sent) + 1) /\ Len(sent) \in Nat
  BY <1>4, <1>6
<1>8. \A k \in DOMAIN sent : sent[k] \in Message
  BY <1>4
<1>9. job' = Idle
  BY <1>0, ProceedIs DEF Queue
<1>10. UNCHANGED <<out, index, record, inbound, queries, given, asked, exempt, cut>>
  BY DEF Queue, tables
<1> QED BY <1>0, <1>1, <1>5, <1>6, <1>7, <1>8, <1>9, <1>10

\* A reply is encrypted once more.
LEMMA ReencryptIs ==
  ASSUME StateInv, Reencrypt
  PROVE  /\ job = Idle /\ job.pc = "idle" /\ out \in Session /\ Created(out)
         /\ index[out] \in Index /\ index[out] < MaxMessages /\ Len(sent) < MaxMessages
         /\ job' = Job("store", out, index[out], FALSE, <<>>, <<>>)
         /\ job'.pc = "store" /\ job'.s = out /\ job'.i = index[out] /\ job'.checked = FALSE
         /\ job'.members = <<>> /\ job'.send = <<>>
         /\ UNCHANGED <<out, index, record, inbound, queries, sent, given, asked, exempt, cut>>
<1>1. /\ job = Idle /\ out # 0 /\ Room(out)
      /\ job' = Job("store", out, index[out], FALSE, <<>>, <<>>)
      /\ UNCHANGED <<out, index, record, inbound, queries, sent, given, asked, exempt, cut>>
  BY DEF Reencrypt, tables, history
<1>2. out \in Session /\ Created(out)
  BY <1>1 DEF StateInv, TypeOK, SessionsOK
<1>3. index[out] \in Index /\ index[out] < MaxMessages /\ Len(sent) < MaxMessages
  BY <1>1, <1>2 DEF StateInv, TypeOK, Room
<1>4. /\ job'.pc = "store" /\ job'.s = out /\ job'.i = index[out] /\ job'.checked = FALSE
      /\ job'.members = <<>> /\ job'.send = <<>>
  BY <1>1, Fields
<1>5. job.pc = "idle"
  BY <1>1, IdleJob
<1> QED BY <1>1, <1>2, <1>3, <1>4, <1>5

\* What it does with a new session.
LEMMA NewIs ==
  ASSUME StateInv, NEW s \in Session, EncryptNew(s)
  PROVE  /\ job = Idle /\ ~Created(s) /\ Len(sent) < MaxMessages /\ out' = out
         /\ inbound'[s].first = 0 /\ Created(s)' /\ index[s] = 0 /\ 0 < MaxMessages
         /\ job' = Job("create", s, 0, TRUE, job'.members, job'.send)
         /\ job'.pc = "create" /\ job'.s = s /\ job'.i = 0 /\ job'.checked = TRUE
         /\ Owned(job'.members) /\ DOMAIN job'.send = DOMAIN job'.members
         /\ \A u \in DOMAIN job'.members : job'.send[u] = job'.members[u] \ {Own}
         /\ record'[s].users = DOMAIN job'.send
         /\ \A d \in Device : d \in Everyone(job'.send) => record'[s].at[d] = 0
         /\ \A d \in Device : d \notin Everyone(job'.send) => record'[s].at[d] = Never
         /\ \A t \in Session : t # s => record'[t] = record[t] /\ inbound'[t] = inbound[t]
         /\ UNCHANGED <<index, queries, sent, given, asked, exempt, cut>>
<1> DEFINE all == [u \in DOMAIN Members |-> Members[u] \ {Own}]
           at  == [d \in Device |-> IF d \in Everyone(all) THEN 0 ELSE Never]
<1>1. /\ record' = [record EXCEPT ![s] = [users |-> DOMAIN all, at |-> at]]
      /\ job' = Job("create", s, 0, TRUE, Members, all)
      /\ inbound' = [inbound EXCEPT ![s] = [first |-> 0, trusted |-> TRUE]]
      /\ job = Idle /\ ~Created(s) /\ Room(s) /\ out' = out
  BY DEF EncryptNew
<1>2. /\ \A d \in Device : d \in Everyone(all) => at[d] = 0
      /\ \A d \in Device : d \notin Everyone(all) => at[d] = Never
  OBVIOUS
<1>3. DOMAIN all = DOMAIN Members /\ \A u \in DOMAIN Members : all[u] = Members[u] \ {Own}
  OBVIOUS
<1>4. Owned(Members)
  BY MembersOwned DEF StateInv
<1> HIDE DEF all, at
<1>5. /\ record'[s] = [users |-> DOMAIN all, at |-> at]
      /\ \A t \in Session : t # s => record'[t] = record[t]
  BY <1>1 DEF StateInv, TypeOK
<1>6. /\ inbound'[s].first = 0
      /\ \A t \in Session : t # s => inbound'[t] = inbound[t]
  BY <1>1 DEF StateInv, TypeOK
<1>7. record'[s].users = DOMAIN all /\ record'[s].at = at
  BY <1>5
<1>8. /\ job'.pc = "create" /\ job'.s = s /\ job'.i = 0 /\ job'.checked = TRUE
      /\ job'.members = Members /\ job'.send = all
  BY <1>1, Fields
<1>9. Created(s)'
  BY <1>6, Marks DEF Created
<1>10. UNCHANGED <<index, queries, sent, given, asked, exempt, cut>>
  BY DEF EncryptNew, history
<1>11. index[s] = 0 /\ 0 < MaxMessages /\ Len(sent) < MaxMessages
  BY <1>1 DEF StateInv, SessionsOK, Room
<1>12. job' = Job("create", s, 0, TRUE, job'.members, job'.send)
  BY <1>1, <1>8
<1>13. /\ Owned(job'.members) /\ DOMAIN job'.send = DOMAIN job'.members
       /\ \A u \in DOMAIN job'.members : job'.send[u] = job'.members[u] \ {Own}
  BY <1>3, <1>4, <1>8
<1>14. /\ record'[s].users = DOMAIN job'.send
       /\ \A d \in Device : d \in Everyone(job'.send) => record'[s].at[d] = 0
       /\ \A d \in Device : d \notin Everyone(job'.send) => record'[s].at[d] = Never
  BY <1>2, <1>7, <1>8
<1> QED BY <1>1, <1>5, <1>6, <1>8, <1>9, <1>10, <1>11, <1>12, <1>13, <1>14
----------------------------------------------------------------------------
\* Every step preserves the parts of StateInv.

\* A session that is kept suits the members, and Additions covers the rest.
LEMMA KeepIs ==
  ASSUME StateInv, EncryptKeep
  PROVE  Busy' /\ job = Idle /\ job'.s = out /\ job'.pc = "share"
         /\ UNCHANGED <<index, record, inbound, out, queries, sent, given, asked, exempt, cut>>
<1>1. /\ job' = Job("share", out, index[out], TRUE, Members, Additions(Members, out))
      /\ out # 0 /\ Keep(Members, out) /\ Room(out) /\ job = Idle
      /\ UNCHANGED <<index, record, inbound, out, queries, sent, given, asked, exempt, cut>>
  BY DEF EncryptKeep, tables, history
<1>2. out \in Session /\ Created(out)
  BY <1>1 DEF StateInv, TypeOK, SessionsOK
<1>3. Owned(Members)
  BY MembersOwned DEF StateInv
<1> DEFINE m == Members
           add == Additions(m, out)
<1>4. /\ DOMAIN add \subseteq DOMAIN m
      /\ \A u \in DOMAIN add : add[u] \subseteq m[u] \ {Own}
      /\ \A u \in DOMAIN m : \A d \in m[u] \ {Own} :
           d \in Recorded(out) \/ (u \in DOMAIN add /\ d \in add[u])
  BY DEF Additions
<1>5. record[out].users \subseteq DOMAIN m
  BY <1>1 DEF Keep
<1>6. Recorded(out) \subseteq Everyone(m)
  <2> SUFFICES ASSUME NEW d \in Recorded(out) PROVE d \in Everyone(m)
    OBVIOUS
  <2>1. d \in Device /\ d \in m[Owner[d]]
    BY <1>1 DEF Keep, Recorded
  <2>2. Owner[d] \in record[out].users
    BY <1>2 DEF StateInv, RecordOK
  <2> QED BY <1>5, <2>1, <2>2 DEF Everyone
<1>7. /\ job'.pc = "share" /\ job'.s = out /\ job'.i = index[out] /\ job'.checked = TRUE
      /\ job'.members = m /\ job'.send = add
      /\ job' = Job("share", out, index[out], TRUE, m, add)
  BY <1>1, Fields
<1> HIDE DEF m, add
<1>8. Created(out)' /\ Recorded(out)' = Recorded(out) /\ record'[out] = record[out]
  BY <1>1, <1>2 DEF Created, Recorded
<1>9. Created(job.s)' /\ Recorded(job.s)' = Recorded(out) /\ record'[job'.s] = record[out]
  BY <1>1, <1>7, <1>8 DEF Created, Recorded
<1>10. Owned(job.members)' /\ Everyone(job.members)' = Everyone(m)
  BY <1>3, <1>7 DEF Owned, Everyone, m
<1>11. /\ Len(sent') < MaxMessages /\ index'[out] = index[out] /\ index[out] \in Index
       /\ index[out] < MaxMessages
  BY <1>1, <1>2 DEF Room, StateInv, TypeOK
<1>12. Busy'
  BY <1>2, <1>4, <1>5, <1>6, <1>7, <1>9, <1>10, <1>11 DEF Busy
<1> QED BY <1>1, <1>7, <1>12

LEMMA JobStep == StateInv /\ [Next]_vars => (job = Idle \/ Busy)'
<1> SUFFICES ASSUME StateInv, [Next]_vars PROVE (job = Idle \/ Busy)'
  OBVIOUS
<1>1. CASE EncryptKeep
  BY <1>1, KeepIs
<1>2. ASSUME Busy, NEW p \in {"share", "store"}, job.pc # "queue",
             job' = Job(p, job.s, job.i, job.checked, job.members, job.send),
             UNCHANGED <<index, record, inbound, sent>>
      PROVE  Busy'
  <2>1. /\ job'.pc = p /\ job'.s = job.s /\ job'.i = job.i /\ job'.checked = job.checked
        /\ job'.members = job.members /\ job'.send = job.send
    BY <1>2, Fields
  <2> QED BY <1>2, <2>1 DEF Busy, Created, Recorded, Owned, Everyone
<1>3. CASE Share
  <2>1. UNCHANGED <<index, record, inbound, sent>>
    BY <1>3 DEF Share, tables
  <2> QED BY <1>2, <1>3, <2>1, ShareIs
<1>4. CASE SaveOutbound
  BY <1>2, <1>4, OutboundIs
<1>5. CASE Store
  <2>1. /\ Busy /\ job.s \in Session /\ Owned(job.send) /\ Owned(job.members)
        /\ index'[job.s] = job.i + 1
        /\ record'[job.s].users = record[job.s].users \cup DOMAIN job.send
        /\ \A d \in Device :
             record'[job.s].at[d] = record[job.s].at[d]
             \/ (d \in Everyone(job.send) /\ record'[job.s].at[d] = index[job.s] + 1)
        /\ job' = Job("queue", job.s, job.i, job.checked, job.members, job.send)
        /\ job'.pc = "queue" /\ job'.s = job.s /\ job'.i = job.i /\ job'.checked = job.checked
        /\ job'.members = job.members /\ job'.send = job.send
        /\ inbound' = inbound /\ sent' = sent
        /\ index[job.s] + 1 \in Index
    BY <1>5, StoreIs
  <2>2. Created(job.s)' /\ Recorded(job.s)' = {d \in Device : record'[job.s].at[d] # Never}
    BY <2>1 DEF Created, Recorded, Busy
  <2>3. Everyone(job.send) \subseteq Everyone(job.members)
    BY <2>1 DEF Busy, Everyone
  <2>4. \A d \in Recorded(job.s)' : d \in Recorded(job.s) \/ d \in Everyone(job.send)
    BY <2>1, <2>2 DEF Recorded
  <2>5. Recorded(job.s) \subseteq Recorded(job.s)'
    <3>1. index[job.s] + 1 # Never
      BY <2>1, Marks
    <3> QED BY <2>1, <2>2, <3>1 DEF Recorded
  <2>6. IF job'.checked
          THEN /\ record'[job'.s].users \subseteq DOMAIN job'.members
               /\ Recorded(job.s)' \subseteq Everyone(job.members)
          ELSE job'.members = <<>> /\ job'.send = <<>>
    BY <2>1, <2>3, <2>4 DEF Busy
  <2>7. \A u \in DOMAIN job'.members : \A d \in job'.members[u] \ {Own} :
          d \in Recorded(job.s)' \/ (u \in DOMAIN job'.send /\ d \in job'.send[u])
    BY <2>1, <2>5 DEF Busy
  <2>8. /\ Owned(job.members)' /\ Everyone(job.members)' = Everyone(job.members)
        /\ DOMAIN job'.send \subseteq DOMAIN job'.members
        /\ \A u \in DOMAIN job'.send : job'.send[u] \subseteq job'.members[u] \ {Own}
        /\ Len(sent') < MaxMessages /\ job'.i \in Index /\ job'.i < MaxMessages
    BY <2>1 DEF Busy, Owned, Everyone
  <2> QED BY <2>1, <2>2, <2>6, <2>7, <2>8 DEF Busy
<1>6. CASE Queue
  BY <1>6, QueueIs
<1>7. CASE Reencrypt
  <2>1. /\ out \in Session /\ Created(out) /\ Len(sent') < MaxMessages
        /\ index'[out] = index[out] /\ index[out] \in Index /\ index[out] < MaxMessages
        /\ job' = Job("store", out, index[out], FALSE, <<>>, <<>>)
        /\ job'.pc = "store" /\ job'.s = out /\ job'.i = index[out] /\ job'.checked = FALSE
        /\ job'.members = <<>> /\ job'.send = <<>> /\ inbound' = inbound
    BY <1>7, ReencryptIs
  <2>2. Created(job.s)' /\ Owned(job.members)' /\ DOMAIN job'.members = {}
    BY <2>1, NoMembers DEF Created, Owned
  <2> QED BY <2>1, <2>2 DEF Busy
<1>8. CASE Crash
  BY <1>8 DEF Crash
<1>9. CASE Quiet
  <2>1. CASE job = Idle
    BY <1>9, <2>1 DEF Quiet, Idle
  <2>2. CASE Busy
    <3>1. job' = job /\ sent' = sent /\ index' = index /\ job.s \in Session
      BY <1>9, <2>2 DEF Quiet, Busy
    <3>2. record'[job.s] = record[job.s] /\ inbound'[job.s].first = inbound[job.s].first
      BY <1>9, <3>1 DEF Quiet
    <3>3. Created(job.s)' /\ Recorded(job.s)' = Recorded(job.s)
      BY <2>2, <3>1, <3>2 DEF Busy, Created, Recorded
    <3> QED BY <2>2, <3>1, <3>2, <3>3 DEF Busy, Owned, Everyone
  <2> QED BY <2>1, <2>2 DEF StateInv
<1>10. ASSUME NEW s \in Session, EncryptNew(s) PROVE Busy'
  <2>1. /\ Len(sent) < MaxMessages /\ sent' = sent /\ Created(s)' /\ 0 < MaxMessages
        /\ index' = index /\ index[s] = 0
        /\ job' = Job("create", s, 0, TRUE, job'.members, job'.send)
        /\ job'.pc = "create" /\ job'.s = s /\ job'.i = 0 /\ job'.checked = TRUE
        /\ Owned(job'.members) /\ DOMAIN job'.send = DOMAIN job'.members
        /\ \A u \in DOMAIN job'.members : job'.send[u] = job'.members[u] \ {Own}
        /\ record'[s].users = DOMAIN job'.send
        /\ \A d \in Device : d \notin Everyone(job'.send) => record'[s].at[d] = Never
    BY <1>10, NewIs
  <2>2. Created(job.s)' /\ Recorded(job.s)' = {d \in Device : record'[s].at[d] # Never}
    BY <2>1 DEF Created, Recorded
  <2>3. Everyone(job'.send) \subseteq Everyone(job'.members)
    BY <2>1 DEF Everyone
  <2>4. Recorded(job.s)' \subseteq Everyone(job'.members)
    BY <2>1, <2>2, <2>3
  <2>5. /\ Owned(job.members)' /\ Everyone(job.members)' = Everyone(job'.members)
    BY <2>1 DEF Owned, Everyone
  <2>6. Len(sent') < MaxMessages /\ record'[job'.s].users \subseteq DOMAIN job'.members
        /\ 0 \in Index
    BY <2>1, MegolmBounds DEF Index
  <2> QED BY <2>1, <2>2, <2>4, <2>5, <2>6 DEF Busy
<1>11. ASSUME NEW q \in queries, QueryAnswer(q) PROVE (job = Idle \/ Busy)'
  BY <1>11 DEF QueryAnswer, StateInv, tables, Idle, Busy, Created, Recorded, Owned, Everyone
<1>12. ASSUME NEW d \in Device, NEW s \in Session, KeyRequest(d, s) PROVE (job = Idle)'
  BY <1>12 DEF KeyRequest, Idle
<1> QED
  BY <1>1, <1>3, <1>4, <1>5, <1>6, <1>7, <1>8, <1>9, <1>10, <1>11, <1>12, QuietStep

\* Device lists change by what the homeserver says, and that by its devices.
LEMMA ListsStep == StateInv /\ [Next]_vars => ListsOK'
<1> SUFFICES ASSUME StateInv, [Next]_vars PROVE ListsOK'
  OBVIOUS
<1> USE DEF StateInv
<1>1. CASE server' = server /\ row' = row
  BY <1>1 DEF ListsOK
<1>2. ASSUME NEW q \in queries, QueryAnswer(q) PROVE ListsOK'
  <2>1. q.user \in User /\ server' = server /\ row' = [row EXCEPT ![q.user] = server[q.user]]
    BY <1>2 DEF QueryAnswer, TypeOK
  <2> QED BY <2>1 DEF ListsOK, TypeOK
<1>3. ASSUME NEW u \in User, UpdateRow(u) PROVE ListsOK'
  BY <1>3 DEF UpdateRow, ListsOK, TypeOK
<1>4. ASSUME NEW d \in Device, DeviceChange(d) PROVE ListsOK'
  <2>1. row' = row /\ Owner[d] \in User /\ d \in DevicesOf(Owner[d])
    BY <1>4, OwnerAssumption DEF DeviceChange, DevicesOf
  <2>2. server' = [server EXCEPT ![Owner[d]] = IF d \in server[Owner[d]]
                     THEN server[Owner[d]] \ {d} ELSE server[Owner[d]] \cup {d}]
    BY <1>4 DEF DeviceChange
  <2> QED BY <2>1, <2>2 DEF ListsOK, TypeOK
<1> QED
  BY <1>1, <1>2, <1>3, <1>4
     DEF Next, Encryption, Keys, World, vars, lists, EncryptKeep, SaveOutbound, Share, Store, Queue, Reencrypt,
         DropOutbound, EncryptNew, QueryFails, KeyRequest, ImportKeys, SaveInbound, Membership,
         ToggleVerifiedOnly, Crash

\* A message is for members, and for devices of theirs.
LEMMA MessageStep ==
  ASSUME StateInv, Queue PROVE SentOK' /\ Ratchet'
<1> DEFINE n == Len(sent) + 1
<1>1. /\ sent' \in Seq(Message) /\ Len(sent') = n /\ Len(sent) \in Nat
      /\ DOMAIN sent' = DOMAIN sent \cup {n}
      /\ \A k \in DOMAIN sent : sent'[k] = sent[k] /\ sent[k] \in Message
      /\ sent'[n].s = job.s /\ sent'[n].i = job.i
      /\ sent'[n].users = DOMAIN job.members /\ sent'[n].devices = Everyone(job.members)
      /\ Owned(job.members) /\ index' = index /\ index[job.s] = job.i + 1 /\ job.i \in Nat
      /\ job' = Idle /\ Len(sent) < MaxMessages
  BY QueueIs
<1>2. Len(sent') <= MaxMessages
  BY <1>1, MegolmBounds
<1> HIDE DEF n
<1>3. \A d \in Everyone(job.members) : Owner[d] \in DOMAIN job.members
  BY <1>1 DEF Owned, Everyone, DevicesOf
<1>4. SentOK'
  <2>1. \A k \in DOMAIN sent' : \A d \in sent'[k].devices : Owner[d] \in sent'[k].users
    BY <1>1, <1>3 DEF StateInv, SentOK
  <2> QED BY <1>1, <1>2, <2>1 DEF SentOK
<1>5. ASSUME NEW k \in DOMAIN sent' PROVE sent'[k].i < index'[sent'[k].s]
  <2>1. CASE k = n
    BY <1>1, <2>1
  <2>2. CASE k \in DOMAIN sent
    BY <1>1, <2>2 DEF StateInv, Ratchet
  <2> QED BY <1>1, <2>1, <2>2
<1> QED BY <1>1, <1>4, <1>5, IdleJob DEF Ratchet

\* Messages change by Queue only, and the ratchet by Store only.
LEMMA SentStep == StateInv /\ [Next]_vars => SentOK' /\ Ratchet'
<1> SUFFICES ASSUME StateInv, [Next]_vars PROVE SentOK' /\ Ratchet'
  OBVIOUS
<1>1. CASE Queue
  BY <1>1, MessageStep
<1>2. CASE Store
  <2>1. /\ sent' = sent /\ job.s \in Session /\ index[job.s] = job.i /\ index[job.s] \in Nat
        /\ index'[job.s] = index[job.s] + 1 /\ job'.s = job.s /\ job'.i = job.i
        /\ \A t \in Session : t # job.s => index'[t] = index[t]
    BY <1>2, StoreIs, Marks
  <2>2. \A k \in DOMAIN sent : /\ sent[k].s \in Session /\ sent[k].i \in Nat
                               /\ sent[k].i < index[sent[k].s]
    <3>1. sent \in Seq(Message)
      BY DEF StateInv, SentOK
    <3>2. \A k \in DOMAIN sent : sent[k] \in Message
      BY <3>1
    <3>3. \A k \in DOMAIN sent : sent[k].s \in Session /\ sent[k].i \in Index
      BY <3>2 DEF Message
    <3> QED BY <3>3, Marks DEF StateInv, Ratchet
  <2>3. \A k \in DOMAIN sent : sent[k].i < index'[sent[k].s]
    BY <2>1, <2>2
  <2>4. \A k \in DOMAIN sent : sent[k].s = job.s => sent[k].i < job.i
    BY <2>1, <2>2
  <2>5. SentOK'
    BY <2>1 DEF StateInv, SentOK
  <2> QED BY <2>1, <2>3, <2>4, <2>5 DEF Ratchet
<1>3. ASSUME sent' = sent, index' = index, job'.pc = "queue" => job' = job
      PROVE  SentOK' /\ Ratchet'
  BY <1>3 DEF StateInv, SentOK, Ratchet
<1>4. CASE EncryptKeep
  BY <1>3, <1>4, KeepIs
<1>5. ASSUME NEW s \in Session, EncryptNew(s)
      PROVE  sent' = sent /\ index' = index /\ job'.pc = "create"
  BY <1>5, NewIs
<1>6. CASE Share
  BY <1>3, <1>6, ShareIs DEF Share, tables
<1>7. CASE SaveOutbound
  BY <1>3, <1>7, OutboundIs
<1>8. CASE Reencrypt
  BY <1>3, <1>8, ReencryptIs
<1>9. CASE Crash
  BY <1>3, <1>9, IdleJob DEF Crash, tables
<1> QED
  BY <1>1, <1>2, <1>3, <1>4, <1>5, <1>6, <1>7, <1>8, <1>9, QuietStep
     DEF Quiet, QueryAnswer, KeyRequest, tables

\* The session is handed to the devices D, from index i on.
LEMMA GivenIs ==
  ASSUME TypeOK, NEW s \in Session, NEW D, NEW i \in Mark,
         given' = [given EXCEPT ![s] = Lowest(given[s], D, i)]
  PROVE  /\ \A t \in Session : t # s => given'[t] = given[t]
         /\ \A t \in Session : \A d \in Device : given[t][d] \in Mark /\ given'[t][d] <= given[t][d]
         /\ \A d \in Device : given'[s][d] = given[s][d] \/ (d \in D /\ given'[s][d] = i)
         /\ \A d \in Device \cap D : given'[s][d] <= i
<1>1. given \in [Session -> [Device -> Mark]] /\ given[s] \in [Device -> Mark]
  BY DEF TypeOK, Mark
<1> DEFINE low == Lowest(given[s], D, i)
<1>2. \A d \in Device : /\ low[d] <= given[s][d] /\ (d \in D => low[d] <= i)
                        /\ low[d] = given[s][d] \/ (d \in D /\ low[d] = i)
  BY <1>1, LowestIs
<1>3. given' = [given EXCEPT ![s] = low]
  OBVIOUS
<1> HIDE DEF low
<1>4. given'[s] = low /\ \A t \in Session : t # s => given'[t] = given[t]
  BY <1>1, <1>3
<1>5. \A t \in Session : \A d \in Device : given[t][d] \in Mark /\ given[t][d] <= given[t][d]
  BY <1>1, Marks
<1> QED BY <1>2, <1>4, <1>5

\* What Share does to the keys of each session.
LEMMA ShareGives ==
  ASSUME StateInv, Share
  PROVE  /\ \A t \in Session : t # job.s => given'[t] = given[t] /\ asked'[t] = asked[t]
         /\ \A t \in Session : \A d \in Device : given[t][d] \in Mark /\ given'[t][d] <= given[t][d]
         /\ \A d \in Device :
              given'[job.s][d] = given[job.s][d]
              \/ (d \in ShareAll /\ given'[job.s][d] = index[job.s])
         /\ \A d \in Device \cap ShareAll : given'[job.s][d] <= index[job.s]
         /\ \A t \in Session : \A u \in User : asked[t][u] \in Mark /\ asked'[t][u] <= asked[t][u]
         /\ \A u \in ShareQuery : asked'[job.s][u] <= index[job.s]
<1>1. /\ job.s \in Session /\ index[job.s] \in Mark /\ ShareQuery \subseteq User
      /\ given' = [given EXCEPT ![job.s] = Lowest(given[job.s], ShareAll, index[job.s])]
      /\ asked' = [asked EXCEPT ![job.s] = Lowest(asked[job.s], ShareQuery, index[job.s])]
  BY ShareIs
<1>2. TypeOK
  BY DEF StateInv
<1>3. /\ \A t \in Session : t # job.s => given'[t] = given[t]
      /\ \A t \in Session : \A d \in Device : given[t][d] \in Mark /\ given'[t][d] <= given[t][d]
      /\ \A d \in Device :
           given'[job.s][d] = given[job.s][d]
           \/ (d \in ShareAll /\ given'[job.s][d] = index[job.s])
      /\ \A d \in Device \cap ShareAll : given'[job.s][d] <= index[job.s]
  BY <1>1, <1>2, GivenIs
<1>4. asked \in [Session -> [User -> Mark]] /\ asked[job.s] \in [User -> Mark]
  BY <1>1, <1>2 DEF TypeOK, Mark
<1> DEFINE low == Lowest(asked[job.s], ShareQuery, index[job.s])
<1>5. \A u \in User : low[u] <= asked[job.s][u] /\ (u \in ShareQuery => low[u] <= index[job.s])
  BY <1>1, <1>4, LowestIs
<1>6. asked' = [asked EXCEPT ![job.s] = low]
  BY <1>1
<1> HIDE DEF low
<1>7. asked'[job.s] = low /\ \A t \in Session : t # job.s => asked'[t] = asked[t]
  BY <1>1, <1>4, <1>6
<1>8. \A t \in Session : \A u \in User : asked[t][u] \in Mark /\ asked[t][u] <= asked[t][u]
  BY <1>4, Marks
<1> QED BY <1>1, <1>3, <1>5, <1>7, <1>8

\* The answer to a query hands the session to the devices in it.
LEMMA AnswerGives ==
  ASSUME StateInv, NEW q \in queries, QueryAnswer(q)
  PROVE  /\ q.s \in Session /\ q.user \in User /\ q.i \in Index /\ q.i # Never
         /\ \A t \in Session : t # q.s => given'[t] = given[t]
         /\ \A t \in Session : \A d \in Device : given[t][d] \in Mark /\ given'[t][d] <= given[t][d]
         /\ \A d \in Device :
              given'[q.s][d] = given[q.s][d] \/ (Owner[d] = q.user /\ given'[q.s][d] = q.i)
<1>1. q.s \in Session /\ q.user \in User /\ q.i \in Index /\ TypeOK
  BY DEF StateInv, TypeOK
<1>2. q.i \in Mark /\ q.i # Never
  BY <1>1, Marks
<1> DEFINE D == server[q.user] \ {Own}
<1>3. given' = [given EXCEPT ![q.s] = Lowest(given[q.s], D, q.i)]
  BY DEF QueryAnswer
<1>4. \A d \in D : Owner[d] = q.user
  BY <1>1 DEF StateInv, ListsOK, DevicesOf
<1> HIDE DEF D
<1>5. PICK s \in Session, i \in Mark : s = q.s /\ i = q.i
  BY <1>1, <1>2
<1>6. given' = [given EXCEPT ![s] = Lowest(given[s], D, i)]
  BY <1>3, <1>5
<1>7. /\ \A t \in Session : t # s => given'[t] = given[t]
      /\ \A t \in Session : \A d \in Device : given[t][d] \in Mark /\ given'[t][d] <= given[t][d]
      /\ \A d \in Device : given'[s][d] = given[s][d] \/ (d \in D /\ given'[s][d] = i)
  BY <1>1, <1>6, GivenIs, ZenonT(60)
<1> QED BY <1>1, <1>2, <1>4, <1>5, <1>7

\* A key request gets the session for one device: all of it if that is verified
\* and what is on the record otherwise.
LEMMA RequestGives ==
  ASSUME StateInv, NEW d \in Device, NEW s \in Session, KeyRequest(d, s)
  PROVE  /\ \A t \in Session : t # s => given'[t] = given[t]
         /\ \A t \in Session : \A e \in Device : given[t][e] \in Mark /\ given'[t][e] <= given[t][e]
         /\ \A e \in Device :
              \/ given'[s][e] = given[s][e]
              \/ e = d /\ given'[s][e] = record[s].at[d] /\ record[s].at[d] # Never
              \/ e = d /\ <<s, d>> \in exempt'
         /\ exempt \subseteq exempt' /\ Created(s) /\ job = Idle
         /\ UNCHANGED <<job, out, index, record, inbound, queries, sent, asked, cut>>
<1> DEFINE verified == d \in Trusted /\ (ShareTrusted \/ Owner[d] = Me)
           from == IF verified THEN inbound[s].first ELSE record[s].at[d]
<1>1. /\ given' = [given EXCEPT ![s] = Lowest(given[s], {d}, from)]
      /\ exempt' = (IF verified THEN exempt \cup {<<s, d>>} ELSE exempt)
      /\ from # Never /\ Created(s) /\ job = Idle
      /\ UNCHANGED <<job, out, index, record, inbound, queries, sent, asked, cut>>
  BY DEF KeyRequest, tables
<1>2. from \in Mark /\ TypeOK
  BY DEF StateInv, TypeOK, Mark
<1>3. verified \/ from = record[s].at[d]
  OBVIOUS
<1>4. verified => <<s, d>> \in exempt'
  BY <1>1
<1>5. exempt \subseteq exempt'
  BY <1>1
<1> HIDE DEF from, verified
<1>6. /\ \A t \in Session : t # s => given'[t] = given[t]
      /\ \A t \in Session : \A e \in Device : given[t][e] \in Mark /\ given'[t][e] <= given[t][e]
      /\ \A e \in Device : given'[s][e] = given[s][e] \/ (e \in {d} /\ given'[s][e] = from)
  <2>1. PICK D, i : D = {d} /\ i = from
    OBVIOUS
  <2>2. i \in Mark /\ given' = [given EXCEPT ![s] = Lowest(given[s], D, i)]
    BY <1>1, <1>2, <2>1
  <2>3. /\ \A t \in Session : t # s => given'[t] = given[t]
        /\ \A t \in Session : \A e \in Device : given[t][e] \in Mark /\ given'[t][e] <= given[t][e]
        /\ \A e \in Device : given'[s][e] = given[s][e] \/ (e \in D /\ given'[s][e] = i)
    BY <1>2, <2>2, GivenIs, ZenonT(60)
  <2> QED BY <2>1, <2>3
<1> QED BY <1>1, <1>3, <1>4, <1>5, <1>6

LEMMA SessionsStep == StateInv /\ [Next]_vars => SessionsOK'
<1> SUFFICES ASSUME StateInv, [Next]_vars PROVE SessionsOK'
  OBVIOUS
<1>0. /\ SessionsOK /\ out \in {0} \cup Session
      /\ \A k \in DOMAIN sent : sent[k].s \in Session
      /\ \A q \in queries : q.s \in Session
  <2>1. SessionsOK /\ out \in {0} \cup Session /\ \A q \in queries : q.s \in Session
    BY DEF StateInv, TypeOK
  <2>2. sent \in Seq(Message)
    BY DEF StateInv, SentOK
  <2>3. \A k \in DOMAIN sent : sent[k] \in Message
    BY <2>2
  <2> QED BY <2>1, <2>3 DEF Message
<1>1. CASE EncryptKeep
  <2>1. UNCHANGED <<index, inbound, out, queries, sent, given>>
    BY <1>1, KeepIs
  <2> QED BY <1>0, <2>1 DEF SessionsOK, Created
<1>2. CASE Share
  <2>1. UNCHANGED <<out, inbound, index, sent>>
    BY <1>2 DEF Share, tables
  <2>2. /\ job.s \in Session /\ Created(job.s)
        /\ \A q \in queries' : q \in queries \/ q.s = job.s
    BY <1>2, ShareIs DEF Busy
  <2>3. \A t \in Session : t # job.s => given'[t] = given[t]
    BY <1>2, ShareGives
  <2> QED BY <1>0, <2>1, <2>2, <2>3 DEF SessionsOK, Created
<1>3. CASE Store
  <2>1. UNCHANGED <<out, inbound, queries, given, sent>>
    BY <1>3, StoreIs
  <2>2. /\ Created(job.s) /\ job.s \in Session
        /\ \A t \in Session : t # job.s => index'[t] = index[t]
    BY <1>3, StoreIs DEF Busy
  <2> QED BY <1>0, <2>1, <2>2 DEF SessionsOK, Created
<1>4. CASE Queue
  <2>1. UNCHANGED <<out, index, inbound, queries, given>>
    BY <1>4, QueueIs
  <2>2. /\ Created(job.s) /\ job.s \in Session
        /\ DOMAIN sent' = DOMAIN sent \cup {Len(sent) + 1}
        /\ \A k \in DOMAIN sent : sent'[k] = sent[k]
        /\ sent'[Len(sent) + 1].s = job.s
    BY <1>4, QueueIs DEF Busy
  <2> QED BY <1>0, <2>1, <2>2 DEF SessionsOK, Created
<1>10. CASE Reencrypt
  <2>1. UNCHANGED <<out, index, inbound, queries, given, sent>>
    BY <1>10, ReencryptIs
  <2> QED BY <1>0, <2>1 DEF SessionsOK, Created
<1>11. CASE SaveOutbound
  <2>1. /\ UNCHANGED <<index, inbound, queries, given, sent>>
        /\ out' = job.s /\ Created(job.s)
    BY <1>11, OutboundIs DEF Busy
  <2> QED BY <1>0, <2>1 DEF SessionsOK, Created
<1>5. CASE Crash
  BY <1>0, <1>5 DEF Crash, SessionsOK, Created, tables
<1>6. CASE Quiet
  <2>1. \A s \in Session : Created(s)' <=> Created(s)
    BY <1>6 DEF Quiet, Created
  <2>2. out' # 0 => out' = out /\ out \in Session
    BY <1>0, <1>6 DEF Quiet
  <2>3. out' # 0 => Created(out)'
    BY <1>0, <1>6, <2>2 DEF Quiet, SessionsOK, Created
  <2>4. \A q \in queries' : Created(q.s)'
    BY <1>0, <1>6 DEF Quiet, SessionsOK, Created
  <2>5. \A k \in DOMAIN sent' : Created(sent[k].s)'
    BY <1>0, <1>6 DEF Quiet, SessionsOK, Created
  <2>6. /\ \A s \in Session : Created(s)' => inbound'[s].first = 0
        /\ \A s \in Session : ~Created(s)' => index'[s] = 0 /\ \A d \in Device : given'[s][d] = Never
    BY <1>0, <1>6, <2>1 DEF Quiet, SessionsOK
  <2> QED BY <2>3, <2>4, <2>5, <2>6 DEF SessionsOK
<1>7. ASSUME NEW s \in Session, EncryptNew(s) PROVE SessionsOK'
  <2>1. /\ out' = out /\ inbound'[s].first = 0 /\ Created(s)' /\ ~Created(s)
        /\ \A t \in Session : t # s => inbound'[t] = inbound[t]
        /\ UNCHANGED <<index, queries, sent, given>>
    BY <1>7, NewIs
  <2>2. \A t \in Session : t # s => (Created(t)' <=> Created(t))
    BY <2>1 DEF Created
  <2>3. \A q \in queries : q.s \in Session /\ Created(q.s)'
    BY <1>0, <2>1, <2>2 DEF SessionsOK
  <2>4. \A k \in DOMAIN sent : sent[k].s \in Session /\ Created(sent[k].s)'
    BY <1>0, <2>1, <2>2 DEF SessionsOK, Created
  <2>5. out' # 0 => Created(out)'
    BY <1>0, <2>1, <2>2 DEF SessionsOK, Created
  <2>6. \A t \in Session : ~Created(t)' => index'[t] = 0 /\ \A d \in Device : given'[t][d] = Never
    BY <1>0, <2>1, <2>2 DEF SessionsOK
  <2>7. \A t \in Session : Created(t)' => inbound'[t].first = 0
    BY <1>0, <2>1, <2>2 DEF SessionsOK
  <2> QED BY <2>1, <2>3, <2>4, <2>5, <2>6, <2>7 DEF SessionsOK, Created
<1>8. ASSUME NEW q \in queries, QueryAnswer(q) PROVE SessionsOK'
  <2>1. UNCHANGED <<out, inbound, index, sent>> /\ queries' \subseteq queries
    BY <1>8 DEF QueryAnswer, tables
  <2>2. q.s \in Session /\ Created(q.s) /\ \A t \in Session : t # q.s => given'[t] = given[t]
    BY <1>0, <1>8, AnswerGives DEF SessionsOK
  <2> QED BY <1>0, <2>1, <2>2 DEF SessionsOK, Created
<1>9. ASSUME NEW d \in Device, NEW s \in Session, KeyRequest(d, s) PROVE SessionsOK'
  <2>1. /\ UNCHANGED <<out, inbound, index, sent, queries>> /\ Created(s)
        /\ \A t \in Session : t # s => given'[t] = given[t]
    BY <1>9, RequestGives
  <2> QED BY <1>0, <2>1 DEF SessionsOK, Created
<1> QED BY <1>1, <1>2, <1>3, <1>4, <1>5, <1>6, <1>7, <1>8, <1>9, <1>10, <1>11, QuietStep

LEMMA RecordStep == StateInv /\ [Next]_vars => RecordOK'
<1> SUFFICES ASSUME StateInv, [Next]_vars PROVE RecordOK'
  OBVIOUS
<1>0. /\ \A s \in Session : index[s] \in Nat
      /\ \A s \in Session : \A d \in Device : record[s].at[d] \in Nat
  BY Marks DEF StateInv, TypeOK, Mark
<1>1. ASSUME \A s \in Session : record'[s] = record[s] /\ index[s] <= index'[s],
             \A s \in Session : index'[s] \in Nat
      PROVE  RecordOK'
  BY <1>0, <1>1 DEF StateInv, RecordOK, Recorded
<1>2. CASE Store
  <2>1. /\ job.s \in Session /\ Owned(job.send)
        /\ index'[job.s] = index[job.s] + 1
        /\ \A t \in Session : t # job.s => index'[t] = index[t] /\ record'[t] = record[t]
        /\ record'[job.s].users = record[job.s].users \cup DOMAIN job.send
        /\ \A d \in Device :
             \/ record'[job.s].at[d] = record[job.s].at[d]
             \/ d \in Everyone(job.send) /\ record'[job.s].at[d] = index[job.s] + 1
    BY <1>2, StoreIs
  <2>2. \A d \in Everyone(job.send) : Owner[d] \in DOMAIN job.send
    BY <2>1 DEF Owned, Everyone, DevicesOf
  <2>3. ASSUME NEW s \in Session, NEW d \in Recorded(s)'
        PROVE  Owner[d] \in record'[s].users /\ record'[s].at[d] <= index'[s]
    <3>1. d \in Device /\ record'[s].at[d] # Never
      BY <2>3 DEF Recorded
    <3>2. CASE record'[s].at[d] = record[s].at[d]
      <4>1. Owner[d] \in record[s].users /\ record[s].at[d] <= index[s]
        BY <3>1, <3>2 DEF StateInv, RecordOK, Recorded
      <4>2. index[s] <= index'[s] /\ index'[s] \in Nat /\ record[s].users \subseteq record'[s].users
        BY <1>0, <2>1
      <4> QED BY <1>0, <3>1, <3>2, <4>1, <4>2
    <3>3. CASE record'[s].at[d] # record[s].at[d]
      <4>1. s = job.s /\ d \in Everyone(job.send) /\ record'[s].at[d] = index[job.s] + 1
        BY <2>1, <3>1, <3>3
      <4>2. record'[s].at[d] = index'[s] /\ index'[s] \in Nat
        BY <1>0, <2>1, <4>1
      <4>3. Owner[d] \in record'[s].users
        BY <2>1, <2>2, <4>1
      <4> QED BY <4>2, <4>3
    <3> QED BY <3>2, <3>3
  <2> QED BY <2>3 DEF RecordOK
<1>5. CASE record' = record /\ index' = index
  BY <1>5 DEF StateInv, RecordOK, Recorded
<1>3. CASE Reencrypt
  BY <1>5, <1>3, ReencryptIs
<1>8. CASE Queue
  BY <1>5, <1>8, QueueIs
<1>9. CASE SaveOutbound
  BY <1>5, <1>9, OutboundIs
<1>4. ASSUME NEW s \in Session, EncryptNew(s) PROVE RecordOK'
  <2>1. /\ Owned(job'.members) /\ DOMAIN job'.send = DOMAIN job'.members
        /\ \A u \in DOMAIN job'.members : job'.send[u] = job'.members[u] \ {Own}
        /\ record'[s].users = DOMAIN job'.send
        /\ \A d \in Device : d \in Everyone(job'.send) => record'[s].at[d] = 0
        /\ \A d \in Device : d \notin Everyone(job'.send) => record'[s].at[d] = Never
        /\ \A t \in Session : t # s => record'[t] = record[t]
        /\ index' = index
    BY <1>4, NewIs
  <2>2. \A d \in Everyone(job'.send) : Owner[d] \in DOMAIN job'.send
    BY <2>1 DEF Owned, Everyone, DevicesOf
  <2>3. \A d \in Recorded(s)' : Owner[d] \in record'[s].users /\ record'[s].at[d] <= index'[s]
    BY <1>0, <2>1, <2>2 DEF Recorded
  <2>4. \A t \in Session : t # s =>
          \A d \in Recorded(t)' : Owner[d] \in record'[t].users /\ record'[t].at[d] <= index'[t]
    BY <2>1 DEF StateInv, RecordOK, Recorded
  <2> QED BY <2>3, <2>4 DEF RecordOK
<1>6. CASE Quiet
  BY <1>0, <1>1, <1>6 DEF Quiet
<1>7. CASE EncryptKeep
  BY <1>5, <1>7, KeepIs
<1> QED
  BY <1>2, <1>3, <1>4, <1>5, <1>6, <1>7, <1>8, <1>9, QuietStep
     DEF Share, Crash, QueryAnswer, KeyRequest, tables

LEMMA StateStep == StateInv /\ [Next]_vars => StateInv'
BY TypeStep, JobStep, ListsStep, SentStep, SessionsStep, RecordStep DEF StateInv
----------------------------------------------------------------------------
\* Messages.

LEMMA MessageIs ==
  ASSUME StateInv
  PROVE  \A k \in DOMAIN sent :
           /\ sent[k].s \in Session /\ sent[k].i \in Nat /\ sent[k].i < index[sent[k].s]
           /\ sent[k].i # Never /\ Created(sent[k].s)
           /\ sent[k].devices \subseteq Device
           /\ \A d \in sent[k].devices : Owner[d] \in sent[k].users
<1>1. sent \in Seq(Message)
  BY DEF StateInv, SentOK
<1>2. \A k \in DOMAIN sent : sent[k] \in Message
  BY <1>1
<1>3. \A k \in DOMAIN sent : sent[k].s \in Session /\ sent[k].i \in Index /\ sent[k].devices \subseteq Device
  BY <1>2 DEF Message
<1>4. \A k \in DOMAIN sent : sent[k].i \in Nat /\ sent[k].i # Never
  BY <1>3, Marks
<1> QED BY <1>3, <1>4 DEF StateInv, SentOK, SessionsOK, Ratchet

\* The message that is new, and the messages there were.
LEMMA CheckedQueue ==
  ASSUME StateInv, Queue
  PROVE  \A k \in Checked' :
           \/ k \in Checked /\ sent'[k] = sent[k]
           \/ /\ sent'[k].s = job.s /\ sent'[k].i = job.i /\ job.checked
              /\ sent'[k].users = DOMAIN job.members /\ sent'[k].devices = Everyone(job.members)
<1>1. /\ DOMAIN sent' = DOMAIN sent \cup {Len(sent) + 1}
      /\ \A k \in DOMAIN sent : sent'[k] = sent[k]
      /\ sent'[Len(sent) + 1].s = job.s /\ sent'[Len(sent) + 1].i = job.i
      /\ sent'[Len(sent) + 1].checked = job.checked
      /\ sent'[Len(sent) + 1].users = DOMAIN job.members
      /\ sent'[Len(sent) + 1].devices = Everyone(job.members)
  BY QueueIs
<1> QED BY <1>1 DEF Checked

\* A message that is queued has an index that none before it has.
LEMMA OnceStep == StateInv /\ IndexOnce /\ [Next]_vars => IndexOnce'
<1> SUFFICES ASSUME StateInv, IndexOnce, [Next]_vars PROVE IndexOnce'
  OBVIOUS
<1>1. CASE Queue
  <2> DEFINE n == Len(sent) + 1
  <2>1. /\ DOMAIN sent' = DOMAIN sent \cup {n}
        /\ \A k \in DOMAIN sent : sent'[k] = sent[k]
        /\ sent'[n].s = job.s /\ sent'[n].i = job.i /\ job.pc = "queue" /\ job.i \in Nat
    BY <1>1, QueueIs
  <2> HIDE DEF n
  <2>2. \A k \in DOMAIN sent : sent[k].s = job.s => sent[k].i # job.i
    <3>1. \A k \in DOMAIN sent : sent[k].i \in Nat
      BY MessageIs
    <3>2. \A k \in DOMAIN sent : sent[k].s = job.s => sent[k].i < job.i
      BY <2>1 DEF StateInv, Ratchet
    <3> QED BY <2>1, <3>1, <3>2
  <2> QED BY <2>1, <2>2 DEF IndexOnce
<1>2. CASE sent' = sent
  BY <1>2 DEF IndexOnce
<1>3. ASSUME NEW s \in Session, EncryptNew(s) PROVE sent' = sent
  BY <1>3, NewIs
<1>4. CASE EncryptKeep
  BY <1>2, <1>4, KeepIs
<1>5. CASE Store
  BY <1>2, <1>5, StoreIs
<1>6. CASE SaveOutbound
  BY <1>2, <1>6, OutboundIs
<1>7. CASE Reencrypt
  BY <1>2, <1>7, ReencryptIs
<1> QED
  BY <1>1, <1>2, <1>3, <1>4, <1>5, <1>6, <1>7, QuietStep
     DEF Share, Crash, Quiet, QueryAnswer, KeyRequest

----------------------------------------------------------------------------
\* Who can read a message.

\* While a message is made with a session that is shared, those it goes to are
\* members.
LEMMA SharingBusy ==
  ASSUME StateInv, job.pc \in {"store", "queue"}, job.checked
  PROVE  Sharing(job.s) \subseteq DOMAIN job.members
<1>1. Busy
  BY BusyJob DEF StateInv
<1>2. record[job.s].users \subseteq DOMAIN job.members /\ DOMAIN job.send \subseteq DOMAIN job.members
  BY <1>1 DEF Busy
<1> QED BY <1>2 DEF Sharing

\* A session is kept for the users it was handed to until a crash.
LEMMA SharingStep ==
  ASSUME StateInv, [Next]_vars, ~Crash
  PROVE  \A s \in Session : EncryptNew(s) \/ Sharing(s) \subseteq Sharing(s)'
<1>1. CASE EncryptKeep
  <2>1. job.pc # "store" /\ job'.pc # "store" /\ record' = record
    BY <1>1, KeepIs, IdleJob
  <2> QED BY <2>1 DEF Sharing
<1>2. CASE Share
  <2>1. job.pc # "store" /\ record' = record
    BY <1>2 DEF Share, tables
  <2> QED BY <2>1 DEF Sharing
<1>3. CASE Store
  <2>1. /\ record'[job.s].users = record[job.s].users \cup DOMAIN job.send
        /\ \A t \in Session : t # job.s => record'[t] = record[t]
        /\ job.pc = "store" /\ job.s \in Session
    BY <1>3, StoreIs
  <2>2. \A s \in Session : record'[s].users \subseteq Sharing(s)'
    BY DEF Sharing
  <2> QED BY <2>1, <2>2 DEF Sharing
<1>4. CASE Reencrypt
  <2>1. job.pc # "store" /\ record' = record
    BY <1>4, ReencryptIs
  <2> QED BY <2>1 DEF Sharing
<1>9. CASE Queue
  <2>1. job.pc # "store" /\ record' = record
    BY <1>9, QueueIs
  <2> QED BY <2>1 DEF Sharing
<1>10. CASE SaveOutbound
  <2>1. job.pc # "store" /\ record' = record
    BY <1>10, OutboundIs
  <2> QED BY <2>1 DEF Sharing
<1>5. CASE Quiet
  BY <1>5 DEF Quiet, Sharing
<1>6. ASSUME NEW s \in Session, EncryptNew(s), NEW t \in Session, t # s
      PROVE  Sharing(t) \subseteq Sharing(t)'
  <2>1. job.pc # "store" /\ record'[t] = record[t]
    BY <1>6, NewIs, IdleJob
  <2> QED BY <2>1 DEF Sharing
<1>7. ASSUME NEW q \in queries, QueryAnswer(q) PROVE \A s : Sharing(s)' = Sharing(s)
  BY <1>7 DEF QueryAnswer, Sharing, tables
<1>8. ASSUME NEW d \in Device, NEW s \in Session, KeyRequest(d, s)
      PROVE  \A t : Sharing(t)' = Sharing(t)
  BY <1>8 DEF KeyRequest, Sharing, tables
<1> QED BY <1>1, <1>2, <1>3, <1>4, <1>5, <1>6, <1>7, <1>8, <1>9, <1>10, QuietStep

\* Whoever has a session is one it was shared with.
LEMMA HoldersStep == StateInv /\ HoldersShare /\ QueriesShare /\ [Next]_vars => HoldersShare'
<1> SUFFICES ASSUME StateInv, HoldersShare, QueriesShare, [Next]_vars,
                    NEW s \in Session, NEW d \in Device, given'[s][d] # Never
             PROVE  Owner[d] \in Sharing(s)' \/ <<s, d>> \in exempt'
  BY DEF HoldersShare
<1>1. CASE Crash
  <2>1. /\ given' = given /\ record' = record /\ job' = Idle /\ exempt \subseteq exempt'
        /\ job.pc = "store" /\ job.checked => \A e \in Device :
             given[job.s][e] # Never /\ e \notin Recorded(job.s) => <<job.s, e>> \in exempt'
    BY <1>1 DEF Crash, tables
  <2>2. Sharing(s)' = record[s].users
    BY <2>1, IdleJob DEF Sharing
  <2>3. Owner[d] \in Sharing(s) \/ <<s, d>> \in exempt
    BY <2>1 DEF HoldersShare
  <2>4. CASE job.pc = "store" /\ job.checked /\ job.s = s
    <3>1. CASE d \in Recorded(s)
      BY <2>2, <3>1 DEF StateInv, RecordOK
    <3>2. CASE d \notin Recorded(s)
      BY <2>1, <2>4, <3>2
    <3> QED BY <3>1, <3>2
  <2>5. CASE ~(job.pc = "store" /\ job.s = s)
    BY <2>1, <2>2, <2>3, <2>5 DEF Sharing
  <2>6. CASE job.pc = "store" /\ ~job.checked /\ job.s = s
    <3>1. job.send = <<>>
      BY <2>6, BusyJob DEF StateInv, Busy
    <3>2. Sharing(s) = record[s].users
      BY <3>1, NoMembers DEF Sharing
    <3> QED BY <2>1, <2>2, <2>3, <3>2
  <2> QED BY <2>4, <2>5, <2>6
<1>2. ASSUME ~Crash, ~EncryptNew(s), exempt \subseteq exempt', given'[s][d] = given[s][d]
      PROVE  Owner[d] \in Sharing(s)' \/ <<s, d>> \in exempt'
  BY <1>2, SharingStep DEF HoldersShare
<1>3. ASSUME NEW t \in Session, EncryptNew(t), ~Crash
      PROVE  Owner[d] \in Sharing(s)' \/ <<s, d>> \in exempt'
  <2>1. given' = given /\ exempt' = exempt
    BY <1>3, NewIs
  <2>2. CASE EncryptNew(s)
    <3>1. ~Created(s)
      BY <2>2, NewIs
    <3> QED BY <2>1, <3>1 DEF StateInv, SessionsOK
  <2>3. CASE ~EncryptNew(s)
    BY <1>2, <1>3, <2>1, <2>3
  <2> QED BY <2>2, <2>3
<1>4. CASE Share /\ ~Crash /\ ~EncryptNew(s)
  <2>1. exempt' = exempt
    BY <1>4 DEF Share
  <2>2. job.s \in Session /\ Busy
    BY <1>4, ShareIs
  <2>3. /\ s # job.s => given'[s] = given[s]
        /\ given'[job.s][d] = given[job.s][d] \/ d \in ShareAll
    BY <1>4, ShareGives
  <2>4. \A e \in ShareAll : Owner[e] \in DOMAIN job.send
    <3>1. \A u \in DOMAIN job.send : row[u] # NoRow => \A e \in row[u] : Owner[e] = u
      BY <2>2, BusyJob DEF StateInv, ListsOK, DevicesOf, Busy, Owned
    <3> QED BY <3>1 DEF ShareAll
  <2>5. job'.pc = "store" /\ job'.s = job.s /\ job'.send = job.send
    BY <1>4, ShareIs
  <2>6. DOMAIN job.send \subseteq Sharing(job.s)'
    BY <2>5 DEF Sharing
  <2>7. CASE given'[s][d] = given[s][d]
    BY <1>2, <1>4, <2>1, <2>7
  <2>8. CASE given'[s][d] # given[s][d]
    <3>1. s = job.s /\ d \in ShareAll
      BY <2>3, <2>8
    <3> QED BY <2>4, <2>5, <2>6, <3>1 DEF Sharing
  <2> QED BY <2>7, <2>8
<1>5. ASSUME NEW q \in queries, QueryAnswer(q), ~Crash, ~EncryptNew(s)
      PROVE  Owner[d] \in Sharing(s)' \/ <<s, d>> \in exempt'
  <2>1. /\ s # q.s => given'[s] = given[s]
        /\ given'[q.s][d] = given[q.s][d] \/ Owner[d] = q.user
    BY <1>5, AnswerGives
  <2>2. exempt' = exempt
    BY <1>5 DEF QueryAnswer
  <2>3. q.s \in Session /\ q.user \in Sharing(q.s)
    BY DEF QueriesShare, StateInv, TypeOK
  <2>4. CASE given'[s][d] = given[s][d]
    BY <1>2, <1>5, <2>2, <2>4
  <2>5. CASE given'[s][d] # given[s][d]
    <3>1. s = q.s /\ Owner[d] = q.user
      BY <2>1, <2>3, <2>5
    <3>2. Owner[d] \in Sharing(s)
      BY <2>3, <3>1
    <3> QED BY <1>5, <3>2, SharingStep
  <2> QED BY <2>4, <2>5
<1>6. ASSUME NEW e \in Device, NEW t \in Session, KeyRequest(e, t), ~Crash, ~EncryptNew(s)
      PROVE  Owner[d] \in Sharing(s)' \/ <<s, d>> \in exempt'
  <2>1. /\ s # t => given'[s] = given[s]
        /\ \/ given'[t][d] = given[t][d]
           \/ d = e /\ record[t].at[e] # Never
           \/ d = e /\ <<t, e>> \in exempt'
        /\ exempt \subseteq exempt'
    BY <1>6, RequestGives
  <2>2. CASE given'[s][d] = given[s][d]
    BY <1>2, <1>6, <2>1, <2>2
  <2>3. CASE s = t /\ d = e /\ record[t].at[e] # Never
    <3>1. Owner[d] \in record[s].users
      BY <2>3 DEF StateInv, RecordOK, Recorded
    <3>2. Owner[d] \in Sharing(s)
      BY <3>1 DEF Sharing
    <3> QED BY <1>6, <3>2, SharingStep
  <2> QED BY <2>1, <2>2, <2>3
<1>7. CASE EncryptKeep /\ ~Crash /\ ~EncryptNew(s)
  BY <1>2, <1>7, KeepIs
<1>8. CASE (SaveOutbound \/ Store \/ Queue \/ Reencrypt \/ Quiet) /\ ~Crash /\ ~EncryptNew(s)
  BY <1>2, <1>8 DEF SaveOutbound, Store, Queue, Reencrypt, Quiet, history
<1> QED BY <1>1, <1>3, <1>4, <1>5, <1>6, <1>7, <1>8, QuietStep
\* A query is for a user the session is shared with, and a member at each
\* message that the answer lets the user read.
LEMMA QueriesStep == StateInv /\ QueriesShare /\ [Next]_vars => QueriesShare'
<1> SUFFICES ASSUME StateInv, QueriesShare, [Next]_vars, NEW q \in queries'
             PROVE  /\ q.user \in Sharing(q.s)'
                    /\ \A k \in Checked' :
                         sent'[k].s = q.s /\ q.i <= sent'[k].i => q.user \in sent'[k].users
  BY DEF QueriesShare
<1>0. ASSUME q \in queries
      PROVE  /\ q.s \in Session /\ Created(q.s) /\ q.user \in Sharing(q.s)
             /\ \A k \in Checked : sent[k].s = q.s /\ q.i <= sent[k].i => q.user \in sent[k].users
             /\ ~EncryptNew(q.s)
  <2>1. q.s \in Session /\ Created(q.s)
    BY <1>0 DEF StateInv, TypeOK, SessionsOK
  <2>2. ~EncryptNew(q.s)
    BY <2>1, NewIs
  <2> QED BY <1>0, <2>1, <2>2 DEF QueriesShare
<1>1. CASE Crash
  BY <1>1 DEF Crash
<1>2. ASSUME q \in queries, ~Crash PROVE q.user \in Sharing(q.s)'
  BY <1>0, <1>2, SharingStep
<1>3. ASSUME q \in queries, \A k \in Checked' : k \in Checked /\ sent'[k] = sent[k]
      PROVE  \A k \in Checked' :
               sent'[k].s = q.s /\ q.i <= sent'[k].i => q.user \in sent'[k].users
  BY <1>0, <1>3
<1>4. sent' = sent => \A k \in Checked' : k \in Checked /\ sent'[k] = sent[k]
  BY DEF Checked
<1>5. CASE Share /\ ~Crash
  <2>1. sent' = sent
    BY <1>5 DEF Share
  <2>2. CASE q \in queries
    BY <1>2, <1>3, <1>4, <1>5, <2>1, <2>2
  <2>3. CASE q \notin queries
    <3>1. /\ Busy /\ job.s \in Session /\ ShareQuery \subseteq DOMAIN job.send
          /\ queries' = queries \cup
                          {[user |-> u, s |-> job.s, i |-> index[job.s]] : u \in ShareQuery}
      BY <1>5, ShareIs
    <3>2. q.user \in ShareQuery /\ q.s = job.s /\ q.i = index[job.s]
      BY <2>3, <3>1
    <3>3. job'.pc = "store" /\ job'.s = job.s /\ job'.send = job.send
      BY <1>5, ShareIs
    <3>4. q.user \in Sharing(q.s)'
      BY <3>1, <3>2, <3>3 DEF Sharing
    <3>5. \A k \in Checked : sent[k].i \in Nat /\ sent[k].i < index[sent[k].s]
      BY MessageIs DEF Checked
    <3>6. index[job.s] \in Nat
      BY <3>1, Marks DEF StateInv, TypeOK
    <3> QED BY <1>4, <2>1, <3>2, <3>4, <3>5, <3>6
  <2> QED BY <2>2, <2>3
<1>6. CASE Queue /\ ~Crash
  <2>1. q \in queries /\ job.pc = "queue"
    BY <1>6, QueueIs
  <2>2. \A k \in Checked' :
          \/ k \in Checked /\ sent'[k] = sent[k]
          \/ sent'[k].s = job.s /\ sent'[k].users = DOMAIN job.members /\ job.checked
    BY <1>6, CheckedQueue
  <2>3. q.s = job.s /\ job.checked => q.user \in DOMAIN job.members
    BY <1>0, <2>1, SharingBusy
  <2> QED BY <1>0, <1>2, <1>6, <2>1, <2>2, <2>3
<1>7. CASE (Store \/ SaveOutbound \/ Reencrypt) /\ ~Crash
  <2>1. queries' \subseteq queries /\ sent' = sent
    BY <1>7, StoreIs, OutboundIs, ReencryptIs
  <2> QED BY <1>2, <1>3, <1>4, <1>7, <2>1
<1>8. CASE queries' \subseteq queries /\ sent' = sent /\ ~Crash
  BY <1>2, <1>3, <1>4, <1>8
<1>9. CASE EncryptKeep /\ ~Crash
  BY <1>8, <1>9, KeepIs
<1>10. ASSUME NEW s \in Session, EncryptNew(s) PROVE queries' = queries /\ sent' = sent
  BY <1>10, NewIs
<1> QED
  BY <1>1, <1>5, <1>6, <1>7, <1>8, <1>9, <1>10, QuietStep DEF Quiet, QueryAnswer, KeyRequest

\* The record never names a device for a message that was not for it.
LEMMA KnownStep == StateInv /\ OnlyKnownDevices /\ [Next]_vars => OnlyKnownDevices'
<1> SUFFICES ASSUME StateInv, OnlyKnownDevices, [Next]_vars, NEW k \in Checked', NEW d \in Device,
                    record'[sent'[k].s].at[d] <= sent'[k].i
             PROVE  d \in sent'[k].devices
  BY DEF OnlyKnownDevices
<1>0. \A j \in Checked : /\ sent[j].s \in Session /\ sent[j].i \in Nat /\ Created(sent[j].s)
                         /\ sent[j].i < index[sent[j].s]
  BY MessageIs DEF Checked
<1>1. ASSUME k \in Checked, sent'[k] = sent[k], record'[sent[k].s] = record[sent[k].s]
      PROVE  d \in sent'[k].devices
  BY <1>1 DEF OnlyKnownDevices
<1>2. sent' = sent => k \in Checked /\ sent'[k] = sent[k]
  BY DEF Checked
<1>3. CASE Store
  <2>1. /\ job.s \in Session /\ index[job.s] \in Nat /\ sent' = sent
        /\ \A t \in Session : t # job.s => record'[t] = record[t]
        /\ \/ record'[job.s].at[d] = record[job.s].at[d]
           \/ record'[job.s].at[d] = index[job.s] + 1
    BY <1>3, StoreIs, Marks
  <2>2. CASE sent[k].s # job.s
    BY <1>0, <1>1, <1>2, <2>1, <2>2
  <2>3. CASE sent[k].s = job.s
    <3>1. record'[job.s].at[d] # index[job.s] + 1
      BY <1>0, <1>2, <2>1, <2>3
    <3>2. record[sent[k].s].at[d] <= sent[k].i
      BY <1>2, <2>1, <2>3, <3>1
    <3> QED BY <1>2, <2>1, <3>2 DEF OnlyKnownDevices
  <2> QED BY <2>2, <2>3
<1>4. CASE Queue
  <2>1. /\ Busy /\ record' = record /\ job.s \in Session /\ job.i \in Index
    BY <1>4, QueueIs DEF Busy
  <2>2. CASE k \in Checked /\ sent'[k] = sent[k]
    BY <1>1, <2>1, <2>2
  <2>3. CASE /\ sent'[k].s = job.s /\ sent'[k].i = job.i /\ job.checked
             /\ sent'[k].devices = Everyone(job.members)
    <3>1. record[job.s].at[d] <= job.i
      BY <2>1, <2>3
    <3>2. record[job.s].at[d] # Never
      BY <2>1, <3>1, Marks
    <3> QED BY <2>1, <2>3, <3>2 DEF Busy, Recorded
  <2> QED BY <1>4, <2>2, <2>3, CheckedQueue
<1>9. CASE SaveOutbound \/ Reencrypt
  <2>1. record' = record /\ sent' = sent
    BY <1>9, OutboundIs, ReencryptIs
  <2> QED BY <1>1, <1>2, <2>1
<1>5. ASSUME NEW s \in Session, EncryptNew(s) PROVE d \in sent'[k].devices
  <2>1. sent' = sent /\ ~Created(s) /\ \A t \in Session : t # s => record'[t] = record[t]
    BY <1>5, NewIs
  <2> QED BY <1>0, <1>1, <1>2, <2>1
<1>6. CASE Quiet
  BY <1>0, <1>1, <1>2, <1>6 DEF Quiet
<1>7. CASE record' = record /\ sent' = sent
  BY <1>1, <1>2, <1>7
<1>8. CASE EncryptKeep
  BY <1>7, <1>8, KeepIs
<1> QED
  BY <1>3, <1>4, <1>5, <1>6, <1>7, <1>8, <1>9, QuietStep DEF Share, Crash, QueryAnswer, KeyRequest, tables

\* A device is handed the session for messages to come, or for those that it is
\* on the record for.
LEMMA MembersStep == StateInv /\ MembersInv /\ [Next]_vars => OnlyMembers'
<1> SUFFICES ASSUME StateInv, MembersInv, [Next]_vars, NEW k \in Checked', NEW d \in Device,
                    given'[sent'[k].s][d] <= sent'[k].i
             PROVE  Owner[d] \in sent'[k].users \/ <<sent'[k].s, d>> \in exempt'
  BY DEF OnlyMembers
<1> USE DEF MembersInv
<1>0. \A j \in Checked : /\ sent[j].s \in Session /\ sent[j].i \in Nat
                         /\ sent[j].i < index[sent[j].s]
                         /\ \A e \in sent[j].devices : Owner[e] \in sent[j].users
  BY MessageIs DEF Checked
<1>1. ASSUME k \in Checked, sent'[k] = sent[k], given'[sent[k].s][d] = given[sent[k].s][d],
             exempt \subseteq exempt'
      PROVE  Owner[d] \in sent'[k].users \/ <<sent'[k].s, d>> \in exempt'
  BY <1>1 DEF OnlyMembers
<1>2. sent' = sent => k \in Checked /\ sent'[k] = sent[k]
  BY DEF Checked
<1>3. CASE Queue
  <2>1. given' = given /\ exempt' = exempt /\ job.pc = "queue"
    BY <1>3, QueueIs
  <2>2. job.s \in Session /\ job.i \in Index
    BY <1>3, QueueIs DEF Busy
  <2>3. CASE k \in Checked /\ sent'[k] = sent[k]
    BY <1>1, <2>1, <2>3
  <2>4. CASE /\ sent'[k].s = job.s /\ sent'[k].i = job.i /\ job.checked
             /\ sent'[k].users = DOMAIN job.members
    <3>1. given[job.s][d] <= job.i
      BY <2>1, <2>4
    <3>2. given[job.s][d] # Never
      BY <2>2, <3>1, Marks
    <3>3. Owner[d] \in Sharing(job.s) \/ <<job.s, d>> \in exempt
      BY <2>2, <3>2 DEF HoldersShare
    <3> QED BY <2>1, <2>4, <3>3, SharingBusy
  <2> QED BY <1>3, <2>3, <2>4, CheckedQueue
<1>4. CASE Store \/ SaveOutbound \/ Reencrypt
  <2>1. sent' = sent /\ given' = given /\ exempt' = exempt
    BY <1>4, StoreIs, OutboundIs, ReencryptIs
  <2> QED BY <1>1, <1>2, <2>1
<1>5. CASE Share
  <2>1. sent' = sent /\ exempt' = exempt
    BY <1>5 DEF Share
  <2>2. /\ \A t \in Session : t # job.s => given'[t] = given[t]
        /\ given'[job.s][d] = given[job.s][d] \/ given'[job.s][d] = index[job.s]
    BY <1>5, ShareGives
  <2>3. job.s \in Session /\ index[job.s] \in Nat
    BY <1>5, ShareIs, Marks
  <2>4. given'[sent[k].s][d] = given[sent[k].s][d]
    BY <1>0, <1>2, <2>1, <2>2, <2>3
  <2> QED BY <1>1, <1>2, <2>1, <2>4
<1>6. ASSUME NEW q \in queries, QueryAnswer(q)
      PROVE  Owner[d] \in sent'[k].users \/ <<sent'[k].s, d>> \in exempt'
  <2>1. sent' = sent /\ exempt' = exempt
    BY <1>6 DEF QueryAnswer
  <2>2. /\ \A t \in Session : t # q.s => given'[t] = given[t]
        /\ given'[q.s][d] = given[q.s][d] \/ (Owner[d] = q.user /\ given'[q.s][d] = q.i)
    BY <1>6, AnswerGives
  <2>3. CASE given'[sent[k].s][d] = given[sent[k].s][d]
    BY <1>1, <1>2, <2>1, <2>3
  <2>4. CASE given'[sent[k].s][d] # given[sent[k].s][d]
    <3>1. sent[k].s = q.s /\ Owner[d] = q.user /\ given'[q.s][d] = q.i
      BY <1>0, <1>2, <2>1, <2>2, <2>4
    <3> QED BY <1>2, <2>1, <3>1 DEF QueriesShare
  <2> QED BY <2>3, <2>4
<1>7. ASSUME NEW e \in Device, NEW s \in Session, KeyRequest(e, s)
      PROVE  Owner[d] \in sent'[k].users \/ <<sent'[k].s, d>> \in exempt'
  <2>1. /\ sent' = sent /\ exempt \subseteq exempt'
        /\ \A t \in Session : t # s => given'[t] = given[t]
        /\ \/ given'[s][d] = given[s][d]
           \/ d = e /\ given'[s][d] = record[s].at[e]
           \/ d = e /\ <<s, e>> \in exempt'
    BY <1>7, RequestGives
  <2>2. CASE given'[sent[k].s][d] = given[sent[k].s][d]
    BY <1>1, <1>2, <2>1, <2>2
  <2>3. CASE sent[k].s = s /\ d = e /\ given'[s][d] = record[s].at[e]
    <3>1. d \in sent[k].devices
      BY <1>2, <2>1, <2>3 DEF OnlyKnownDevices
    <3> QED BY <1>0, <1>2, <2>1, <3>1
  <2> QED BY <1>0, <1>2, <2>1, <2>2, <2>3
<1>8. CASE sent' = sent /\ given' = given /\ exempt \subseteq exempt'
  BY <1>1, <1>2, <1>8
<1>9. CASE EncryptKeep
  BY <1>8, <1>9, KeepIs
<1>10. ASSUME NEW s \in Session, EncryptNew(s)
       PROVE  sent' = sent /\ given' = given /\ exempt' = exempt
  BY <1>10, NewIs
<1>11. CASE Crash
  BY <1>8, <1>11 DEF Crash
<1> QED BY <1>3, <1>4, <1>5, <1>6, <1>7, <1>8, <1>9, <1>10, <1>11, QuietStep DEF Quiet
----------------------------------------------------------------------------
\* Whoever is meant to read a message can.

\* What has been handed out, asked for and recorded stays so.
LEMMA KeysStay ==
  ASSUME StateInv, [Next]_vars, NEW s \in Session, ~EncryptNew(s)
  PROVE  /\ \A d \in Device : given'[s][d] <= given[s][d]
         /\ \A u \in User : asked'[s][u] <= asked[s][u]
         /\ \A d \in Device : record'[s].at[d] <= record[s].at[d]
         /\ cut \subseteq cut' /\ index[s] <= index'[s]
<1>0. /\ \A t \in Session : index[t] \in Nat
      /\ \A t \in Session : \A d \in Device : given[t][d] \in Nat /\ record[t].at[d] \in Nat
      /\ \A t \in Session : \A u \in User : asked[t][u] \in Nat
  BY Marks DEF StateInv, TypeOK, Mark
<1>1. CASE /\ given' = given /\ asked' = asked /\ cut \subseteq cut' /\ index' = index
           /\ record'[s] = record[s]
  BY <1>0, <1>1
<1>2. CASE Share
  <2>1. index' = index /\ record' = record /\ cut' = cut
    BY <1>2 DEF Share, tables
  <2> QED BY <1>0, <1>2, <2>1, ShareGives
<1>3. CASE Store
  <2>1. given' = given /\ asked' = asked /\ cut' = cut
    BY <1>3, StoreIs
  <2>2. /\ job.s \in Session /\ index'[job.s] = index[job.s] + 1 /\ index[job.s] \in Index
        /\ \A t \in Session : t # job.s => index'[t] = index[t] /\ record'[t] = record[t]
        /\ \A d \in Device :
             \/ record'[job.s].at[d] = record[job.s].at[d]
             \/ d \notin Recorded(job.s) /\ record'[job.s].at[d] = index[job.s] + 1
    BY <1>3, StoreIs
  <2>3. index[job.s] + 1 <= Never
    BY <2>2, MegolmBounds DEF Index, Never
  <2>4. \A d \in Device : d \notin Recorded(job.s) => record[job.s].at[d] = Never
    BY DEF Recorded
  <2> QED BY <1>0, <2>1, <2>2, <2>3, <2>4
<1>4. CASE Queue \/ SaveOutbound \/ Reencrypt
  <2>1. /\ given' = given /\ asked' = asked /\ cut' = cut /\ record' = record /\ index' = index
    BY <1>4, QueueIs, OutboundIs, ReencryptIs
  <2> QED BY <1>1, <2>1
<1>5. ASSUME NEW q \in queries, QueryAnswer(q)
      PROVE  /\ asked' = asked /\ cut' = cut /\ index' = index /\ record' = record
             /\ \A d \in Device : given'[s][d] <= given[s][d]
  BY <1>5, AnswerGives DEF QueryAnswer, tables
<1>6. ASSUME NEW d \in Device, NEW t \in Session, KeyRequest(d, t)
      PROVE  /\ asked' = asked /\ cut' = cut /\ index' = index /\ record' = record
             /\ \A e \in Device : given'[s][e] <= given[s][e]
  BY <1>6, RequestGives
<1>7. ASSUME NEW t \in Session, EncryptNew(t)
      PROVE  /\ given' = given /\ asked' = asked /\ cut' = cut /\ index' = index
             /\ record'[s] = record[s]
  BY <1>7, NewIs
<1>8. CASE Crash
  BY <1>1, <1>8 DEF Crash, tables
<1>9. CASE EncryptKeep
  BY <1>1, <1>9, KeepIs
<1>10. CASE Quiet
  BY <1>1, <1>10 DEF Quiet
<1>11. CASE /\ asked' = asked /\ cut' = cut /\ index' = index /\ record' = record
            /\ \A d \in Device : given'[s][d] <= given[s][d]
  BY <1>0, <1>11
<1> QED BY <1>1, <1>2, <1>3, <1>4, <1>5, <1>6, <1>7, <1>8, <1>9, <1>10, <1>11, QuietStep

\* Whoever is served stays so, and is for later messages too.
LEMMA ServedStep ==
  ASSUME StateInv, StateInv', [Next]_vars, NEW s \in Session, ~EncryptNew(s), NEW d \in Device,
         NEW i \in Nat, NEW j \in Nat, i <= j, Served(s, d, i)
  PROVE  Served(s, d, j)'
<1>1. Owner[d] \in User
  BY OwnerAssumption
<1>2. given[s][d] \in Nat /\ record[s].at[d] \in Nat /\ asked[s][Owner[d]] \in Nat
  BY <1>1, Marks DEF StateInv, TypeOK, Mark
<1>3. given'[s][d] \in Nat /\ record'[s].at[d] \in Nat /\ asked'[s][Owner[d]] \in Nat
  BY <1>1, Marks DEF StateInv, TypeOK, Mark
<1>4. /\ given'[s][d] <= given[s][d] /\ asked'[s][Owner[d]] <= asked[s][Owner[d]]
      /\ record'[s].at[d] <= record[s].at[d] /\ cut \subseteq cut'
  BY <1>1, KeysStay
<1>5. CASE given[s][d] <= i
  <2>1. given'[s][d] <= j
    BY <1>2, <1>3, <1>4, <1>5
  <2> QED BY <2>1 DEF Served
<1>6. CASE asked[s][Owner[d]] <= i
  <2>1. asked'[s][Owner[d]] <= j
    BY <1>2, <1>3, <1>4, <1>6
  <2> QED BY <2>1 DEF Served
<1>7. CASE s \in cut /\ record[s].at[d] <= i
  <2>1. s \in cut' /\ record'[s].at[d] <= j
    BY <1>2, <1>3, <1>4, <1>7
  <2> QED BY <2>1 DEF Served
<1> QED BY <1>5, <1>6, <1>7 DEF Served

\* Share serves everybody in job.send.
LEMMA ShareServes ==
  ASSUME StateInv, Share, NEW u \in DOMAIN job.send, NEW d \in job.send[u]
  PROVE  Served(job.s, d, index[job.s])'
<1>1. Busy /\ job.s \in Session /\ index' = index /\ DOMAIN job.send \subseteq User /\ job'.s = job.s
  BY ShareIs, BusyJob DEF Share, tables, StateInv
<1>2. Owned(job.members) /\ DOMAIN job.send \subseteq DOMAIN job.members
      /\ job.send[u] \subseteq job.members[u] \ {Own}
  BY <1>1 DEF Busy
<1>3. d \in Device /\ Owner[d] = u /\ d # Own /\ u \in User
  BY <1>1, <1>2 DEF Owned, DevicesOf
<1>4. d \in ShareAll \/ u \in ShareQuery
  <2>1. CASE row[u] = NoRow \/ ~(ShareTargets(u) \subseteq row[u])
    BY <2>1 DEF ShareQuery
  <2>2. CASE row[u] # NoRow /\ ShareTargets(u) \subseteq row[u]
    <3>1. d \in ShareTargets(u) \cap row[u]
      BY <2>2 DEF ShareTargets
    <3> QED BY <1>3, <2>2, <3>1 DEF ShareAll
  <2> QED BY <2>1, <2>2
<1>5. given'[job.s][d] <= index[job.s] \/ asked'[job.s][Owner[d]] <= index[job.s]
  BY <1>3, <1>4, ShareGives
<1> QED BY <1>1, <1>5 DEF Served

LEMMA RecordServedStep == StateInv /\ StateInv' /\ ReadInv /\ [Next]_vars => RecordServed'
<1> SUFFICES ASSUME StateInv, StateInv', ReadInv, [Next]_vars, NEW s \in Session,
                    NEW d \in Recorded(s)'
             PROVE  \/ Served(s, d, index[s])'
                    \/ /\ job'.pc \in {"create", "share"} /\ job'.s = s /\ index'[s] = 0
                       /\ Owner[d] \in DOMAIN job'.send /\ d \in job'.send[Owner[d]]
  BY DEF RecordServed
<1>0. /\ d \in Device /\ record'[s].at[d] # Never
      /\ index[s] \in Nat /\ index'[s] \in Nat
  BY Marks DEF Recorded, StateInv, TypeOK
<1>1. ASSUME NEW t \in Session, EncryptNew(t), s = t
      PROVE  /\ job'.pc = "create" /\ job'.s = s /\ index'[s] = 0
             /\ Owner[d] \in DOMAIN job'.send /\ d \in job'.send[Owner[d]]
  <2>1. /\ ~Created(s) /\ index' = index /\ job'.pc = "create" /\ job'.s = s
        /\ Owned(job'.members) /\ DOMAIN job'.send = DOMAIN job'.members
        /\ \A u \in DOMAIN job'.members : job'.send[u] = job'.members[u] \ {Own}
        /\ \A e \in Device : e \notin Everyone(job'.send) => record'[s].at[e] = Never
    BY <1>1, NewIs
  <2>2. index'[s] = 0
    BY <2>1 DEF StateInv, SessionsOK
  <2>3. PICK u \in DOMAIN job'.send : d \in job'.send[u]
    BY <1>0, <2>1 DEF Everyone
  <2>4. Owner[d] = u
    BY <2>1, <2>3 DEF Owned, DevicesOf
  <2> QED BY <2>1, <2>2, <2>3, <2>4
<1>2. ASSUME ~EncryptNew(s), Served(s, d, index[s]) PROVE Served(s, d, index[s])'
  <2>1. index[s] <= index'[s]
    BY <1>2, KeysStay
  <2>2. PICK i \in Nat, j \in Nat : i = index[s] /\ j = index'[s]
    BY <1>0
  <2>3. Served(s, d, j)'
    BY <1>0, <1>2, <2>1, <2>2, ServedStep
  <2> QED BY <2>2, <2>3 DEF Served
<1>3. CASE Share /\ ~EncryptNew(s)
  <2>1. /\ job.s \in Session
        /\ record' = record /\ index' = index
    BY <1>3, ShareIs DEF Share, tables
  <2>2. d \in Recorded(s)
    BY <1>0, <2>1 DEF Recorded
  <2>3. CASE s = job.s /\ Owner[d] \in DOMAIN job.send /\ d \in job.send[Owner[d]]
    <3>1. Served(job.s, d, index[job.s])'
      BY <1>3, <2>3, ShareServes
    <3>2. job'.s = job.s
      BY <1>3, ShareIs
    <3> QED BY <2>3, <3>1, <3>2 DEF Served
  <2> QED BY <1>2, <1>3, <2>2, <2>3 DEF ReadInv, RecordServed
<1>4. CASE Store /\ ~EncryptNew(s)
  <2>1. /\ job.s \in Session /\ Busy
        /\ \A t \in Session : t # job.s => record'[t] = record[t]
        /\ \/ record'[job.s].at[d] = record[job.s].at[d]
           \/ d \in Everyone(job.send)
    BY <1>0, <1>4, StoreIs
  <2>2. job.pc = "store" /\ index[job.s] = job.i
    BY <1>4, StoreIs
  <2>3. CASE d \in Recorded(s)
    BY <1>2, <1>4, <2>2, <2>3 DEF ReadInv, RecordServed
  <2>4. CASE d \notin Recorded(s)
    <3>1. s = job.s /\ d \in Everyone(job.send)
      BY <1>0, <2>1, <2>4 DEF Recorded
    <3>2. PICK u \in DOMAIN job.members : d \in job.members[u] \ {Own}
      BY <2>1, <3>1 DEF Busy, Everyone
    <3>3. Served(s, d, index[s])
      BY <2>2, <3>1, <3>2 DEF ReadInv, JobServed
    <3> QED BY <1>2, <1>4, <3>3
  <2> QED BY <2>3, <2>4
<1>5. CASE Crash /\ ~EncryptNew(s)
  <2>1. record' = record /\ index' = index
        /\ (job.pc \in {"create", "share"} /\ job.i = 0 => job.s \in cut')
    BY <1>5 DEF Crash, tables
  <2>2. d \in Recorded(s)
    BY <1>0, <2>1 DEF Recorded
  <2>3. CASE job.pc \in {"create", "share"} /\ job.s = s /\ index[s] = 0
    <3>0. index[job.s] = job.i
      BY <2>3, BusyJob DEF StateInv, Busy
    <3>1. s \in cut' /\ record'[s].at[d] <= index'[s]
      BY <2>1, <2>2, <2>3, <3>0 DEF StateInv, RecordOK
    <3> QED BY <3>1 DEF Served
  <2> QED BY <1>2, <1>5, <2>2, <2>3 DEF ReadInv, RecordServed
<1>6. CASE record'[s] = record[s] /\ index' = index /\ job' = job /\ ~EncryptNew(s)
  <2>1. d \in Recorded(s)
    BY <1>0, <1>6 DEF Recorded
  <2> QED BY <1>2, <1>6, <2>1 DEF ReadInv, RecordServed
<1>7. CASE record'[s] = record[s] /\ job = Idle /\ ~EncryptNew(s)
  <2>1. d \in Recorded(s) /\ job.pc \notin {"create", "share"}
    BY <1>0, <1>7, IdleJob DEF Recorded
  <2> QED BY <1>2, <1>7, <2>1 DEF ReadInv, RecordServed
<1>8. CASE EncryptKeep /\ ~EncryptNew(s)
  BY <1>7, <1>8, KeepIs
<1>9. ASSUME NEW t \in Session, EncryptNew(t), s # t PROVE record'[s] = record[s] /\ job = Idle
  BY <1>9, NewIs
<1>10. CASE Reencrypt /\ ~EncryptNew(s)
  BY <1>7, <1>10, ReencryptIs
<1>15. CASE Queue /\ ~EncryptNew(s)
  <2>1. record' = record /\ index' = index /\ job.pc = "queue"
    BY <1>15, QueueIs
  <2>2. d \in Recorded(s)
    BY <1>0, <2>1 DEF Recorded
  <2> QED BY <1>2, <1>15, <2>1, <2>2 DEF ReadInv, RecordServed
<1>16. CASE SaveOutbound /\ ~EncryptNew(s)
  <2>1. /\ record' = record /\ index' = index /\ job'.pc = "share" /\ job'.s = job.s
        /\ job'.send = job.send
    BY <1>16, OutboundIs
  <2>2. d \in Recorded(s)
    BY <1>0, <2>1 DEF Recorded
  <2> QED BY <1>2, <1>16, <2>1, <2>2 DEF ReadInv, RecordServed
<1>11. ASSUME NEW q \in queries, QueryAnswer(q) PROVE record' = record /\ index' = index /\ job' = job
  BY <1>11 DEF QueryAnswer, tables
<1>12. ASSUME NEW e \in Device, NEW t \in Session, KeyRequest(e, t) PROVE record' = record /\ job = Idle
  BY <1>12, RequestGives
<1>13. CASE Quiet /\ ~EncryptNew(s)
  BY <1>6, <1>13 DEF Quiet
<1>14. CASE EncryptNew(s)
  BY <1>1, <1>14
<1> QED
  BY <1>3, <1>4, <1>5, <1>6, <1>7, <1>8, <1>9, <1>10, <1>11, <1>12, <1>13, <1>14, <1>15, <1>16,
     QuietStep

LEMMA JobServedStep == StateInv /\ StateInv' /\ ReadInv /\ [Next]_vars => JobServed'
<1> SUFFICES ASSUME StateInv, StateInv', ReadInv, [Next]_vars, job'.pc \in {"store", "queue"},
                    NEW u \in DOMAIN job'.members, NEW d \in job'.members[u] \ {Own}
             PROVE  Served(job.s, d, job.i)'
  BY DEF JobServed
<1>1. CASE Share
  <2>1. Busy /\ job.s \in Session /\ index[job.s] = job.i
    BY <1>1, ShareIs
  <2>2. /\ job'.pc = "store" /\ job'.s = job.s /\ job'.i = job.i /\ job'.members = job.members
        /\ record' = record /\ index' = index
    BY <1>1, ShareIs DEF Share, tables
  <2>3. d \in Recorded(job.s) \/ (u \in DOMAIN job.send /\ d \in job.send[u])
    BY <2>1, <2>2 DEF Busy
  <2>4. CASE u \in DOMAIN job.send /\ d \in job.send[u]
    <3>1. Served(job.s, d, index[job.s])'
      BY <1>1, <2>4, ShareServes
    <3> QED BY <2>1, <2>2, <3>1 DEF Served
  <2>5. CASE d \in Recorded(job.s)
    <3>1. d \in Recorded(job.s)'
      BY <2>2, <2>5 DEF Recorded
    <3>2. RecordServed'
      BY RecordServedStep
    <3>3. job'.s \in Session /\ job'.pc \notin {"create", "share"}
      BY <2>1, <2>2
    <3>4. \A s \in Session : d \in Recorded(s)' => Served(s, d, index[s])'
      BY <3>2, <3>3 DEF RecordServed
    <3> QED BY <2>1, <2>2, <3>1, <3>3, <3>4 DEF Served, Recorded
  <2> QED BY <2>3, <2>4, <2>5
<1>2. CASE /\ job.pc \in {"store", "queue"}
           /\ job'.s = job.s /\ job'.i = job.i /\ job'.members = job.members
  <2>2. Busy
    BY <1>2, BusyJob DEF StateInv
  <2>3. /\ job.s \in Session /\ Owned(job.members) /\ Created(job.s) /\ job.i \in Index
        /\ u \in DOMAIN job.members /\ d \in job.members[u] \ {Own}
    BY <1>2, <2>2 DEF Busy
  <2>4. d \in Device /\ Served(job.s, d, job.i)
    BY <1>2, <2>3 DEF Owned, DevicesOf, ReadInv, JobServed
  <2>5. ~EncryptNew(job.s)
    BY <2>3, NewIs
  <2>7. PICK s \in Session, i \in Nat : s = job.s /\ i = job.i
    BY <2>3, Marks
  <2>8. i <= i
    OBVIOUS
  <2>9. Served(s, d, i)'
    BY <2>4, <2>5, <2>7, <2>8, ServedStep
  <2> QED BY <1>2, <2>7, <2>9 DEF Served
<1>3. CASE job' = job
  BY <1>2, <1>3
<1>4. CASE Store
  BY <1>2, <1>4, StoreIs
<1>5. CASE EncryptKeep \/ SaveOutbound
  BY <1>5, KeepIs, OutboundIs
<1>6. CASE Queue \/ Crash
  <2>1. job' = Idle
    BY <1>6, QueueIs DEF Crash
  <2> QED BY <2>1, IdleJob
<1>7. CASE Reencrypt
  BY <1>7, ReencryptIs, NoMembers
<1>8. ASSUME NEW s \in Session, EncryptNew(s) PROVE FALSE
  BY <1>8, NewIs
<1> QED
  BY <1>1, <1>3, <1>4, <1>5, <1>6, <1>7, <1>8, QuietStep DEF Quiet, QueryAnswer, KeyRequest

LEMMA ReadStep == StateInv /\ StateInv' /\ ReadInv /\ [Next]_vars => ReadInv'
<1> SUFFICES ASSUME StateInv, StateInv', ReadInv, [Next]_vars, NEW k \in Checked',
                    NEW d \in sent'[k].devices \ {Own}
             PROVE  Served(sent[k].s, d, sent[k].i)'
  BY RecordServedStep, JobServedStep DEF ReadInv, AllCanRead, Served
<1>1. ASSUME k \in Checked, sent'[k] = sent[k] PROVE Served(sent[k].s, d, sent[k].i)'
  <2>1. /\ sent[k].s \in Session /\ sent[k].i \in Nat /\ Created(sent[k].s)
        /\ sent[k].devices \subseteq Device
    BY <1>1, MessageIs DEF Checked
  <2>2. ~EncryptNew(sent[k].s)
    BY <2>1, NewIs
  <2>3. Served(sent[k].s, d, sent[k].i)
    BY <1>1 DEF ReadInv, AllCanRead, Served
  <2>4. PICK s \in Session, i \in Nat : s = sent[k].s /\ i = sent[k].i
    BY <2>1
  <2>5. d \in Device /\ i <= i
    BY <1>1, <2>1
  <2>6. Served(s, d, i)'
    BY <2>2, <2>3, <2>4, <2>5, ServedStep
  <2> QED BY <1>1, <2>4, <2>6 DEF Served
<1>2. CASE Queue
  <2>1. CASE /\ sent'[k].s = job.s /\ sent'[k].i = job.i
             /\ sent'[k].devices = Everyone(job.members)
    <3>1. Busy /\ job.s \in Session /\ job.pc = "queue" /\ job.i \in Nat
      BY <1>2, QueueIs
    <3>2. PICK u \in DOMAIN job.members : d \in job.members[u] \ {Own}
      BY <2>1 DEF Everyone
    <3>3. d \in Device /\ Created(job.s)
      BY <3>1, <3>2 DEF Busy, Owned, DevicesOf
    <3>4. Served(job.s, d, job.i)
      BY <3>1, <3>2 DEF ReadInv, JobServed
    <3>5. ~EncryptNew(job.s)
      BY <3>1, <3>3, NewIs
    <3>6. PICK s \in Session, i \in Nat : s = job.s /\ i = job.i
      BY <3>1
    <3>7. i <= i
      OBVIOUS
    <3>8. Served(s, d, i)'
      BY <3>3, <3>4, <3>5, <3>6, <3>7, ServedStep
    <3> QED BY <2>1, <3>6, <3>8 DEF Served
  <2> QED BY <1>1, <1>2, <2>1, CheckedQueue
<1>3. CASE Store \/ SaveOutbound \/ Reencrypt
  <2>1. sent' = sent
    BY <1>3, StoreIs, OutboundIs, ReencryptIs
  <2> QED BY <1>1, <2>1 DEF Checked
<1>4. CASE sent' = sent
  BY <1>1, <1>4 DEF Checked
<1>5. CASE EncryptKeep
  BY <1>4, <1>5, KeepIs
<1>6. ASSUME NEW s \in Session, EncryptNew(s) PROVE sent' = sent
  BY <1>6, NewIs
<1> QED
  BY <1>2, <1>3, <1>4, <1>5, <1>6, QuietStep DEF Share, Crash, Quiet, QueryAnswer, KeyRequest
----------------------------------------------------------------------------
\* Theorems.

LEMMA InitState == Init => StateInv /\ IndexOnce /\ MembersInv /\ ReadInv
<1> SUFFICES ASSUME Init PROVE StateInv /\ IndexOnce /\ MembersInv /\ ReadInv
  OBVIOUS
<1>1. /\ server = [u \in User |-> DevicesOf(u)]
      /\ \A u \in User : row[u] = NoRow \/ row[u] = server[u]
      /\ row \in [User -> {NoRow} \cup SUBSET Device]
  BY DEF Init, DevicesOf
<1>2. /\ record = [s \in {Foreign} \cup Session |-> NoOne]
      /\ inbound = [s \in {Foreign} \cup Session |-> [first |-> Never, trusted |-> FALSE]]
      /\ index = [s \in Session |-> 0] /\ out = 0
      /\ job = Idle /\ queries = {} /\ sent = <<>> /\ exempt = {} /\ cut = {}
      /\ given = [s \in Session |-> [d \in Device |-> Never]]
      /\ asked = [s \in Session |-> [u \in User |-> Never]]
      /\ changes = 0 /\ faults = 0
  BY DEF Init
<1>3. NoOne \in [users : SUBSET User, at : [Device -> Mark]] /\ \A d \in Device : NoOne.at[d] = Never
  BY Marks DEF NoOne
<1>4. 0 \in Index /\ job.pc = "idle" /\ job.s = 0 /\ job.i = 0 /\ job.checked = FALSE
  BY <1>2, IdleJob, MegolmBounds DEF Index
<1>5. TypeOK
  <2>1. record \in [{Foreign} \cup Session -> [users : SUBSET User, at : [Device -> Mark]]]
    BY <1>2, <1>3
  <2>2. inbound \in [{Foreign} \cup Session -> [first : Mark, trusted : BOOLEAN]]
    BY <1>2, Marks
  <2>3. index \in [Session -> Index] /\ changes \in 0..MaxChanges /\ faults \in 0..MaxFaults
    BY <1>2, <1>4, MegolmBounds
  <2>4. given \in [Session -> [Device -> Mark]] /\ asked \in [Session -> [User -> Mark]]
    BY <1>2, Marks
  <2>5. /\ room \subseteq User /\ Me \in room /\ verifiedOnly \in BOOLEAN
        /\ server \in [User -> SUBSET Device]
    BY <1>1, UserAssumption DEF Init, DevicesOf
  <2>6. queries \subseteq [user : User, s : Session, i : Index]
        /\ exempt \subseteq Session \X Device /\ cut \subseteq Session /\ out \in {0} \cup Session
    BY <1>2
  <2> QED BY <1>1, <1>4, <2>1, <2>2, <2>3, <2>4, <2>5, <2>6 DEF TypeOK, Mark
<1>6. \A s \in Session : ~Created(s) /\ Recorded(s) = {}
  BY <1>2, <1>3 DEF Created, Recorded
<1>7. DOMAIN sent = {} /\ Len(sent) = 0 /\ sent \in Seq(Message)
  BY <1>2
<1>8. ListsOK
  BY <1>1 DEF ListsOK
<1>9. SentOK /\ Ratchet
  BY <1>2, <1>7, MegolmBounds DEF SentOK, Ratchet
<1>10. SessionsOK
  BY <1>2, <1>6, <1>7 DEF SessionsOK
<1>11. RecordOK
  BY <1>6 DEF RecordOK
<1>12. Checked = {}
  BY <1>7 DEF Checked
<1>13. IndexOnce
  BY <1>7 DEF IndexOnce
<1>14. MembersInv
  BY <1>2, <1>12 DEF MembersInv, HoldersShare, QueriesShare, OnlyKnownDevices, OnlyMembers
<1>15. ReadInv
  BY <1>4, <1>6, <1>12 DEF ReadInv, RecordServed, JobServed, AllCanRead
<1> QED
  BY <1>2, <1>5, <1>8, <1>9, <1>10, <1>11, <1>13, <1>14, <1>15 DEF StateInv

LEMMA StateInvariant == Spec => []StateInv
BY InitState, StateStep, PTL DEF Spec

\* The session table, the device lists, the job and the histories keep to their
\* types in every behaviour of encrypt_group_message and what is around it.
THEOREM TypeCorrect == Spec => []TypeOK
<1>1. StateInv => TypeOK
  BY DEF StateInv
<1> QED BY <1>1, StateInvariant, PTL

\* No index of a session encrypts two messages that are queued, wherever the
\* program ends: encrypt_group_message and the re-encryption of replies store the
\* ratchet before the message.
THEOREM NoIndexTwice == Spec => []IndexOnce
BY InitState, StateInvariant, OnceStep, PTL DEF Spec

LEMMA MembersInvariant == Spec => []MembersInv
<1>1. StateInv /\ MembersInv /\ [Next]_vars => MembersInv'
  BY HoldersStep, QueriesStep, KnownStep, MembersStep DEF MembersInv
<1> QED BY <1>1, InitState, StateInvariant, PTL DEF Spec

\* A message can be read by devices of those who were members then, or that are
\* exempt, however they got the session.
THEOREM MembersOnly == Spec => []OnlyMembers
<1>1. MembersInv => OnlyMembers
  BY DEF MembersInv
<1> QED BY <1>1, MembersInvariant, PTL

\* A device on the record of a session was known at each message from its index
\* on: what handle_key_request_message answers from the record is no more than
\* what was meant for the device.
THEOREM KnownDevicesOnly == Spec => []OnlyKnownDevices
<1>1. MembersInv => OnlyKnownDevices
  BY DEF MembersInv
<1> QED BY <1>1, MembersInvariant, PTL

\* Every known device of a member can get each message: it was handed the
\* session, its user was queried for, or the record lets it ask.
THEOREM EveryoneCanRead == Spec => []AllCanRead
<1>1. Spec => []ReadInv
  BY InitState, StateInvariant, ReadStep, PTL DEF Spec
<1>2. ReadInv => AllCanRead
  BY DEF ReadInv
<1> QED BY <1>1, <1>2, PTL

\* saveInboundMegolmSession and importSessionKeys never take messages away, and
\* take trust away only for more of them.
THEOREM InboundOnlyImproves == Spec => InboundImproves
<1> DEFINE Improves ==
      \A s \in DOMAIN inbound :
        /\ inbound'[s].first <= inbound[s].first
        /\ inbound[s].trusted => inbound'[s].trusted \/ inbound'[s].first < inbound[s].first
<1>1. StateInv /\ [Next]_vars => [Improves]_vars
  <2> SUFFICES ASSUME StateInv, [Next]_vars PROVE Improves \/ UNCHANGED vars
    OBVIOUS
  <2>1. /\ DOMAIN inbound = {Foreign} \cup Session
        /\ inbound \in [{Foreign} \cup Session -> [first : Mark, trusted : BOOLEAN]]
    BY DEF StateInv, TypeOK, Mark
  <2>2. \A s \in {Foreign} \cup Session : inbound[s].first \in Nat /\ inbound[s].first <= Never
    BY <2>1, Marks
  <2>3. CASE inbound' = inbound
    BY <2>1, <2>2, <2>3
  <2>4. ASSUME NEW s \in Session, EncryptNew(s) PROVE Improves
    <3>1. /\ inbound'[s].first = 0 /\ \A t \in {Foreign} \cup Session : t # s => inbound'[t] = inbound[t]
      BY <2>1, <2>4 DEF EncryptNew
    <3>2. inbound[s].first = Never /\ 0 < Never
      BY <2>4, MegolmBounds DEF EncryptNew, Created, Never
    <3> QED BY <2>1, <2>2, <3>1, <3>2
  <2>5. ASSUME NEW s \in {Foreign} \cup Session, NEW i \in Starts, ImportKeys(s, i) PROVE Improves
    <3>1. /\ inbound'[s].first = i /\ \A t \in {Foreign} \cup Session : t # s => inbound'[t] = inbound[t]
      BY <2>1, <2>5 DEF ImportKeys
    <3>2. i \in Nat /\ i < inbound[s].first
      BY <2>2, <2>5, MegolmBounds DEF ImportKeys, Better, Created, Never
    <3> QED BY <2>1, <2>2, <3>1, <3>2
  <2>6. ASSUME NEW s \in {Foreign} \cup Session, NEW i \in Starts, NEW t \in BOOLEAN,
               SaveInbound(s, i, t)
        PROVE  Improves
    BY <2>1, <2>6, SaveInboundIs DEF StateInv
  <2> QED
    BY <2>3, <2>4, <2>5, <2>6
       DEF Next, Encryption, Keys, World, vars, tables, EncryptKeep, SaveOutbound, Share, Store, Queue,
           Reencrypt, DropOutbound, QueryAnswer, QueryFails, KeyRequest, Membership, UpdateRow, DeviceChange,
           ToggleVerifiedOnly, Crash
<1> QED BY <1>1, StateInvariant, PTL DEF Spec, InboundImproves
=============================================================================
