--------------------------- MODULE TimelineProofs ---------------------------
(***************************************************************************)
(* Theorems about Timeline for a room of any length, any events of our own *)
(* and any number of limited syncs, clears, trims and restarts.            *)
(***************************************************************************)
EXTENDS Timeline, Queues, WellFoundedInduction, FunctionTheorems, FiniteSetTheorems

\* What Put and Del leave in a table.
LEMMA PutFacts ==
  ASSUME NEW f, NEW k, NEW v
  PROVE  /\ DOMAIN Put(f, k, v) = DOMAIN f \cup {k}
         /\ Put(f, k, v)[k] = v
         /\ \A x \in DOMAIN f : x # k => Put(f, k, v)[x] = f[x]
BY DEF Put

LEMMA DelFacts ==
  ASSUME NEW f, NEW K
  PROVE  /\ DOMAIN Del(f, K) = DOMAIN f \ K
         /\ \A x \in DOMAIN f \ K : Del(f, K)[x] = f[x]
BY DEF Del, Restrict

\* A non-empty set of naturals has a least element.
LEMMA LeastNat ==
  ASSUME NEW T, T \subseteq Nat, T # {}
  PROVE  \E m \in T : \A y \in T : m <= y
<1> DEFINE L == OpToRel(<, Nat)
<1>1. \A x \in T : \A y \in T : y < x => <<y, x>> \in L
  BY DEF OpToRel
<1>w. IsWellFoundedOn(L, Nat)
  BY NatLessThanWellFounded
<1> HIDE DEF L
<1>2. \E x \in T : \A y \in T : ~(<<y, x>> \in L)
  BY <1>w, WFMin
<1>3. PICK m \in T : \A y \in T : ~(<<y, m>> \in L)
  BY <1>2
<1>4. ASSUME NEW y \in T PROVE m <= y
  <2>1. ~(y < m)
    BY <1>1, <1>3, Zenon
  <2> QED BY <2>1
<1> QED BY <1>4

\* Induction up to L, about the set of the positions where something holds.
LEMMA UpTo ==
  ASSUME NEW L \in Nat, NEW S, 0 \in S, \A n \in 1..L : n - 1 \in S => n \in S
  PROVE  0..L \subseteq S
<1> SUFFICES ASSUME ~(0..L \subseteq S) PROVE FALSE
  OBVIOUS
<1> DEFINE T == (0..L) \ S
<1>1. T \subseteq Nat /\ T # {}
  OBVIOUS
<1>2. PICK m \in T : \A y \in T : m <= y
  <2> HIDE DEF T
  <2> QED BY <1>1, LeastNat
<1>3. m \in 1..L
  OBVIOUS
<1>4. m - 1 \in S
  <2>1. m - 1 \in T => m <= m - 1
    BY <1>2
  <2> QED BY <1>3, <2>1
<1> QED BY <1>3, <1>4

\* The indices of an order table lie between two bounds.
Bounded(f) == \E lo, hi \in Int : DOMAIN f \subseteq lo..hi

\* The ends of a table that is not empty are indices of it.
LEMMA EndsOfTable ==
  ASSUME NEW f, Bounded(f), DOMAIN f # {}
  PROVE  /\ FirstIdx(f) \in DOMAIN f /\ \A i \in DOMAIN f : FirstIdx(f) <= i
         /\ LastIdx(f) \in DOMAIN f /\ \A i \in DOMAIN f : i <= LastIdx(f)
<1>1. PICK lo \in Int, hi \in Int : DOMAIN f \subseteq lo..hi
  BY DEF Bounded
<1>2. \E m \in DOMAIN f : \A y \in DOMAIN f : m <= y
  <2> DEFINE T == {i - lo : i \in DOMAIN f}
  <2>1. T \subseteq Nat /\ T # {}
    BY <1>1
  <2>2. PICK t \in T : \A y \in T : t <= y
    BY <2>1, LeastNat
  <2>3. PICK m \in DOMAIN f : t = m - lo
    BY <2>2
  <2>4. \A y \in DOMAIN f : y - lo \in T /\ y \in Int
    BY <1>1
  <2> HIDE DEF T
  <2>5. \A y \in DOMAIN f : m <= y
    BY <2>2, <2>3, <2>4
  <2> QED BY <2>5
<1>3. \E m \in DOMAIN f : \A y \in DOMAIN f : m >= y
  <2> DEFINE T == {hi - i : i \in DOMAIN f}
  <2>1. T \subseteq Nat /\ T # {}
    BY <1>1
  <2>2. PICK t \in T : \A y \in T : t <= y
    BY <2>1, LeastNat
  <2>3. PICK m \in DOMAIN f : t = hi - m
    BY <2>2
  <2>4. \A y \in DOMAIN f : hi - y \in T /\ y \in Int
    BY <1>1
  <2> HIDE DEF T
  <2>5. \A y \in DOMAIN f : m >= y
    BY <2>2, <2>3, <2>4
  <2> QED BY <2>5
<1>4. /\ FirstIdx(f) \in DOMAIN f
      /\ \A y \in DOMAIN f : FirstIdx(f) <= y
  BY <1>2 DEF FirstIdx, Min
<1>5. /\ LastIdx(f) \in DOMAIN f
      /\ \A y \in DOMAIN f : LastIdx(f) >= y
  BY <1>3 DEF LastIdx, Max
<1> QED BY <1>1, <1>4, <1>5

\* A table stays bounded when an entry comes or entries go.
LEMMA BoundedPut ==
  ASSUME NEW f, Bounded(f), NEW k \in Int, NEW v
  PROVE  Bounded(Put(f, k, v))
<1>1. PICK lo \in Int, hi \in Int : DOMAIN f \subseteq lo..hi
  BY DEF Bounded
<1>2. DOMAIN Put(f, k, v) = DOMAIN f \cup {k}
  BY PutFacts
<1> DEFINE a == IF k < lo THEN k ELSE lo
           b == IF k > hi THEN k ELSE hi
<1>3. a \in Int /\ b \in Int /\ DOMAIN f \cup {k} \subseteq a..b
  BY <1>1
<1> QED BY <1>2, <1>3 DEF Bounded

LEMMA BoundedDel ==
  ASSUME NEW f, Bounded(f), NEW K
  PROVE  Bounded(Del(f, K))
BY DelFacts DEF Bounded

----------------------------------------------------------------------------

\* What the tables know when the sync has reached position s and the homeserver is known
\* to have the events up to h: some of those, and the local echoes of our own events
\* after s.
Known(s, h) == 1..h \cup {-p : p \in {q \in Mine : q > s}}
Events(s) == Known(s, s)

\* The pagination tokens up to h.
Tokens(h) == 0..h \cup {NoTok}

IsDb(d) == d = [order |-> d.order, evToOrder |-> d.evToOrder,
                order2msg |-> d.order2msg, msg2order |-> d.msg2order]

\* A message's slot is the slot that the inverse table has for it, unless it is one of
\* the events D that a page brought while their local echo waited.
OwnSlots(d, D) ==
  \A m \in DOMAIN d.order2msg :
    \/ d.order2msg[m] \in DOMAIN d.msg2order /\ d.msg2order[d.order2msg[m]] = m
    \/ d.order2msg[m] \in D

\* An event and its local echo are not both known, unless the event is one of D.
Alone(d, D) ==
  \A id \in DOMAIN d.evToOrder : id > 0 /\ -id \in DOMAIN d.evToOrder => id \in D

\* The events with a message are those that are shown.
ShownOnes(d) ==
  DOMAIN d.msg2order = {id \in DOMAIN d.evToOrder : ~IsHidden(id) /\ id \notin Redactions}

\* The tables at position s of the sync, and h of the homeserver.
Sound(d, s, h, D) ==
  /\ h \in s..Newest /\ D \subseteq Mine
  /\ IsDb(d)
  /\ Bounded(d.order) /\ Bounded(d.order2msg)
  /\ \A i \in DOMAIN d.order : d.order[i] \in [id : (-Newest)..Newest, tok : Tokens(h)]
  /\ \A id \in DOMAIN d.evToOrder : d.evToOrder[id] \in Int
  /\ \A id \in DOMAIN d.msg2order : d.msg2order[id] \in Int
  /\ OwnSlots(d, D) /\ Alone(d, D) /\ ShownOnes(d)
  /\ DOMAIN d.evToOrder \subseteq Known(s, h)

\* The tables when nothing has come that the sync did not bring or continue.
Strict(d, s) == Sound(d, s, s, {})

\* The constants are naturals, and our own events follow the first sync.
LEMMA Constants ==
  /\ Newest \in Nat \ {0} /\ Start \in Nat \ {0} /\ ChunkSize \in Nat \ {0}
  /\ MaxBatch \in Nat \ {0} /\ MaxRestored \in Nat \ {0}
  /\ Start <= Newest /\ Mine \subseteq (Start + 1)..Newest
  /\ Redactions \subseteq 2..Newest /\ Redactions \cap Mine = {} /\ Hidden \subseteq 2..Newest
<1>1. {Newest, Start, ChunkSize, MaxBatch, MaxRestored} \subseteq Nat \ {0}
  BY SizeAssumption
<1>2. /\ Start <= Newest /\ Mine \subseteq (Start + 1)..Newest
      /\ Hidden \subseteq 2..Newest /\ Redactions \subseteq (2..Newest) \ (Mine \cup Hidden)
  BY KindAssumption
<1> QED BY <1>1, <1>2

LEMMA EventFacts ==
  ASSUME NEW s \in 0..Newest, NEW id \in Events(s)
  PROVE  id \in (-Newest)..Newest /\ -id \notin Events(s)
BY Constants DEF Events, Known

LEMMA KnownFacts ==
  ASSUME NEW s \in 0..Newest, NEW h \in s..Newest, NEW id \in Known(s, h)
  PROVE  id \in (-Newest)..Newest
BY Constants DEF Known

\* The homeserver is known to have more events, or more of them came twice.
LEMMA SoundLater ==
  ASSUME NEW s \in 0..Newest, NEW h, NEW D, NEW d, Sound(d, s, h, D),
         NEW k \in h..Newest, NEW E \in SUBSET Mine, D \subseteq E
  PROVE  Sound(d, s, k, E)
<1>1. Tokens(h) \subseteq Tokens(k) /\ Known(s, h) \subseteq Known(s, k) /\ k \in s..Newest
  BY Constants DEF Sound, Tokens, Known
<1>2. OwnSlots(d, E) /\ Alone(d, E)
  BY DEF Sound, OwnSlots, Alone
<1>3. ASSUME NEW i \in DOMAIN d.order
      PROVE  d.order[i] \in [id : (-Newest)..Newest, tok : Tokens(k)]
  BY <1>1 DEF Sound
<1> QED BY <1>1, <1>2, <1>3 DEF Sound

LEMMA StrictNext ==
  ASSUME NEW s \in 0..Newest, NEW d, Strict(d, s), NEW k \in s..Newest
  PROVE  Sound(d, s, k, {})
BY SoundLater DEF Strict

\* The sync reaches the event id: it was not known, but its local echo may have been.
LEMMA NextEvent ==
  ASSUME NEW id \in 1..Newest, NEW h \in id..Newest
  PROVE  id \in Known(id, h) /\ \A x \in Known(id - 1, h) : x = -id \/ x \in Known(id, h)
<1>1. id \in Int /\ \A q \in Mine : q \in Int /\ q > 0
  BY Constants
<1>2. id \in Known(id, h)
  BY <1>1, Constants DEF Known
<1>3. ASSUME NEW x \in Known(id - 1, h) PROVE x = -id \/ x \in Known(id, h)
  <2>1. CASE x \in 1..h
    BY <2>1 DEF Known
  <2>2. CASE x \notin 1..h
    <3>1. PICK q \in Mine : q > id - 1 /\ x = -q
      BY <2>2 DEF Known
    <3>2. q = id \/ q > id
      BY <1>1, <3>1
    <3> QED BY <3>1, <3>2 DEF Known
  <2> QED BY <2>1, <2>2
<1> QED BY <1>2, <1>3

LEMMA NewEvent ==
  ASSUME NEW id \in 1..Newest
  PROVE  id \notin Events(id - 1)
BY Constants DEF Events, Known

\* One more entry keeps the tables sound.
LEMMA InsertSound ==
  ASSUME NEW s \in 0..Newest, NEW h, NEW D, NEW d, Sound(d, s, h, D),
         NEW id \in Known(s, h), NEW tok \in Tokens(h),
         id \notin DOMAIN d.evToOrder \/ id \in Redactions,
         -id \notin DOMAIN d.evToOrder \/ id \in D,
         NEW idx \in Int, NEW midx \in Int
  PROVE  Sound(Insert(d, id, tok, idx, midx), s, h, D)
<1> DEFINE e == Insert(d, id, tok, idx, midx)
           m == ~IsHidden(id) /\ id \notin Redactions
<1>1. /\ e.order = Put(d.order, idx, [id |-> id, tok |-> tok])
      /\ e.evToOrder = Put(d.evToOrder, id, idx)
      /\ m => e.order2msg = Put(d.order2msg, midx, id) /\ e.msg2order = Put(d.msg2order, id, midx)
      /\ ~m => e.order2msg = d.order2msg /\ e.msg2order = d.msg2order
      /\ IsDb(e)
  BY DEF Insert, IsDb
<1>2. m => id \notin DOMAIN d.evToOrder
  OBVIOUS
<1>d. d.order = d.order /\ Sound(d, s, h, D)
  OBVIOUS
<1> HIDE DEF e, m
<1>3. Bounded(e.order)
  BY <1>1, BoundedPut DEF Sound
<1>4. Bounded(e.order2msg)
  BY <1>1, BoundedPut DEF Sound
<1>5. ASSUME NEW i \in DOMAIN e.order
      PROVE  e.order[i] \in [id : (-Newest)..Newest, tok : Tokens(h)]
  <2>1. [id |-> id, tok |-> tok] \in [id : (-Newest)..Newest, tok : Tokens(h)]
    BY KnownFacts DEF Sound
  <2> QED BY <1>1, <2>1 DEF Put, Del, Restrict, Sound
<1>6. ASSUME NEW x \in DOMAIN e.evToOrder PROVE e.evToOrder[x] \in Int /\ x \in Known(s, h)
  BY <1>1 DEF Put, Del, Restrict, Sound
<1>7. ASSUME NEW x \in DOMAIN e.msg2order PROVE e.msg2order[x] \in Int
  BY <1>1 DEF Put, Del, Restrict, Sound
<1>v. DOMAIN e.evToOrder = DOMAIN d.evToOrder \cup {id}
  BY <1>1 DEF Put
<1>w. ShownOnes(e)
  <2>1. CASE m
    <3>1. DOMAIN e.msg2order = DOMAIN d.msg2order \cup {id}
      BY <1>1, <2>1 DEF Put
    <3> QED BY <1>v, <2>1, <3>1 DEF Sound, ShownOnes, m
  <2>2. CASE ~m
    BY <1>1, <1>v, <2>2 DEF Sound, ShownOnes, m
  <2> QED BY <2>1, <2>2
<1>x. Alone(e, D)
  <2>1. ASSUME NEW x \in DOMAIN e.evToOrder, x > 0, -x \in DOMAIN e.evToOrder PROVE x \in D
    <3>1. x \in Int /\ id \in Int /\ \A y \in D : y > 0
      BY <1>6, <2>1, KnownFacts, Constants DEF Sound
    <3>2. CASE x = id
      BY <1>v, <2>1, <3>1, <3>2
    <3>3. CASE x # id /\ -x = id
      BY <1>v, <2>1, <3>1, <3>3
    <3>4. CASE x # id /\ -x # id
      BY <1>v, <2>1, <3>4 DEF Sound, Alone
    <3> QED BY <3>2, <3>3, <3>4
  <2> QED BY <2>1 DEF Alone
<1>8. OwnSlots(e, D)
  <2>1. CASE ~m
    BY <1>1, <2>1 DEF Sound, OwnSlots
  <2>2. CASE m
    <3>1. id \notin DOMAIN d.msg2order
      BY <1>2, <2>2 DEF Sound, ShownOnes
    <3>2. ASSUME NEW x \in DOMAIN e.order2msg
          PROVE  \/ e.order2msg[x] \in DOMAIN e.msg2order /\ e.msg2order[e.order2msg[x]] = x
                 \/ e.order2msg[x] \in D
      <4>1. CASE x = midx
        BY <1>1, <2>2, <4>1 DEF Put, Del, Restrict
      <4>2. CASE x # midx
        <5>1. x \in DOMAIN d.order2msg /\ e.order2msg[x] = d.order2msg[x]
          BY <1>1, <2>2, <4>2 DEF Put, Del, Restrict
        <5>2. \/ d.order2msg[x] \in DOMAIN d.msg2order /\ d.msg2order[d.order2msg[x]] = x
              \/ d.order2msg[x] \in D
          BY <5>1 DEF Sound, OwnSlots
        <5> QED BY <1>1, <2>2, <3>1, <5>1, <5>2 DEF Put, Del, Restrict
      <4> QED BY <4>1, <4>2
    <3> QED BY <3>2 DEF OwnSlots
  <2> QED BY <2>1, <2>2
<1>9. Sound(e, s, h, D)
  <2>1. h \in s..Newest /\ D \subseteq Mine
    BY DEF Sound
  <2> QED BY <1>1, <1>3, <1>4, <1>5, <1>6, <1>7, <1>8, <1>w, <1>x, <2>1 DEF Sound
<1> QED BY <1>9 DEF e

\* The echo of our own event id, which the sync has just reached, replaces its local
\* echo in all tables.
LEMMA EchoSound ==
  ASSUME NEW id \in 1..Newest, NEW h, NEW D, NEW d, Sound(d, id - 1, h, D), NEW tok \in Tokens(h),
         id \in Mine, id <= h, -id \in DOMAIN d.evToOrder
  PROVE  Sound(Echo(d, id, tok), id, h, D)
<1> DEFINE e == Echo(d, id, tok)
           idx == d.evToOrder[-id]
           midx == d.msg2order[-id]
           m == -id \in DOMAIN d.msg2order
<1>1. /\ e.order = Put(d.order, idx, [id |-> id, tok |-> tok])
      /\ e.evToOrder = Del(Put(d.evToOrder, id, idx), {-id})
      /\ m => /\ e.order2msg = Put(d.order2msg, midx, id)
              /\ e.msg2order = Del(Put(d.msg2order, id, midx), {-id})
      /\ ~m => e.order2msg = d.order2msg /\ e.msg2order = d.msg2order
      /\ IsDb(e)
  BY DEF Echo, IsDb
<1>2. idx \in Int /\ (m => midx \in Int)
  BY DEF Sound
<1>3. id \notin DOMAIN d.msg2order \/ id \in D
  BY DEF Sound, Alone, ShownOnes
<1>r. h \in id..Newest /\ D \subseteq Mine
  BY DEF Sound
<1>4. id # -id
  OBVIOUS
<1>m. m <=> -id \in DOMAIN d.msg2order
  OBVIOUS
<1>n. m => midx = d.msg2order[-id]
  OBVIOUS
<1>q. m <=> ~IsHidden(id)
  <2>1. -id \notin Redactions /\ id \notin Redactions /\ -(-id) = id
    BY Constants
  <2>2. IsHidden(-id) <=> IsHidden(id)
    BY <2>1 DEF IsHidden
  <2> QED BY <2>1, <2>2 DEF Sound, ShownOnes
<1> HIDE DEF e, idx, midx, m
<1>5. Bounded(e.order)
  BY <1>1, <1>2, BoundedPut DEF Sound
<1>6. Bounded(e.order2msg)
  BY <1>1, <1>2, BoundedPut DEF Sound
<1>7. ASSUME NEW i \in DOMAIN e.order
      PROVE  e.order[i] \in [id : (-Newest)..Newest, tok : Tokens(h)]
  <2>1. [id |-> id, tok |-> tok] \in [id : (-Newest)..Newest, tok : Tokens(h)]
    BY Constants
  <2> QED BY <1>1, <2>1 DEF Put, Del, Restrict, Sound
<1>8. DOMAIN e.evToOrder = (DOMAIN d.evToOrder \cup {id}) \ {-id}
  BY <1>1 DEF Put, Del, Restrict
<1>9. ASSUME NEW x \in DOMAIN e.evToOrder PROVE e.evToOrder[x] \in Int
  <2>1. e.evToOrder[x] = Put(d.evToOrder, id, idx)[x]
    BY <1>1, <1>8 DEF Put, Del, Restrict
  <2> QED BY <1>2, <1>8, <2>1 DEF Put, Del, Restrict, Sound
<1>10. DOMAIN e.evToOrder \subseteq Known(id, h)
  <2>1. DOMAIN d.evToOrder \subseteq Known(id - 1, h)
    BY DEF Sound
  <2> QED BY <1>8, <1>r, <2>1, NextEvent
<1>11. m => DOMAIN e.msg2order = (DOMAIN d.msg2order \cup {id}) \ {-id}
  BY <1>1 DEF Put, Del, Restrict
<1>12. ShownOnes(e)
  <2>1. /\ id \notin Redactions /\ -id \notin Redactions
        /\ DOMAIN d.msg2order = {x \in DOMAIN d.evToOrder : ~IsHidden(x) /\ x \notin Redactions}
    BY Constants DEF Sound, ShownOnes
  <2>2. CASE m
    BY <1>8, <1>11, <1>q, <2>1, <2>2 DEF ShownOnes
  <2>3. CASE ~m
    BY <1>1, <1>8, <1>m, <1>q, <2>1, <2>3 DEF ShownOnes
  <2> QED BY <2>2, <2>3
<1>a. Alone(e, D)
  <2>1. ASSUME NEW x \in DOMAIN e.evToOrder, x > 0, -x \in DOMAIN e.evToOrder PROVE x \in D
    <3>1. x \in Int
      BY <1>10, <1>r, <2>1, KnownFacts
    <3>2. x # id /\ -x # id /\ x \in DOMAIN d.evToOrder /\ -x \in DOMAIN d.evToOrder
      BY <1>8, <2>1, <3>1
    <3> QED BY <2>1, <3>2 DEF Sound, Alone
  <2> QED BY <2>1 DEF Alone
<1>13. m => /\ e.msg2order[id] = midx
            /\ \A x \in DOMAIN e.msg2order : x # id => e.msg2order[x] = d.msg2order[x]
  BY <1>1, <1>4, <1>11 DEF Put, Del, Restrict
<1>14. ASSUME NEW x \in DOMAIN e.msg2order PROVE e.msg2order[x] \in Int
  BY <1>1, <1>2, <1>11, <1>13 DEF Sound
<1>15. OwnSlots(e, D)
  <2>1. CASE ~m
    BY <1>1, <2>1 DEF Sound, OwnSlots
  <2>2. CASE m
    <3>2. ASSUME NEW x \in DOMAIN e.order2msg
          PROVE  \/ e.order2msg[x] \in DOMAIN e.msg2order /\ e.msg2order[e.order2msg[x]] = x
                 \/ e.order2msg[x] \in D
      <4>1. CASE x = midx
        <5>1. e.order2msg[x] = id
          BY <1>1, <2>2, <4>1 DEF Put, Del, Restrict
        <5> QED BY <1>4, <1>11, <1>13, <2>2, <4>1, <5>1
      <4>2. CASE x # midx
        <5>1. x \in DOMAIN d.order2msg /\ e.order2msg[x] = d.order2msg[x]
          BY <1>1, <2>2, <4>2 DEF Put, Del, Restrict
        <5>2. CASE d.order2msg[x] \in D
          BY <5>1, <5>2
        <5>3. CASE d.order2msg[x] \notin D
          <6>1. d.order2msg[x] \in DOMAIN d.msg2order /\ d.msg2order[d.order2msg[x]] = x
            BY <5>1, <5>3 DEF Sound, OwnSlots
          <6>2. d.order2msg[x] # -id /\ d.order2msg[x] # id
            BY <1>3, <1>n, <2>2, <4>2, <5>3, <6>1
          <6> QED BY <1>11, <1>13, <2>2, <5>1, <6>1, <6>2
        <5> QED BY <5>2, <5>3
      <4> QED BY <4>1, <4>2
    <3> QED BY <3>2 DEF OwnSlots
  <2> QED BY <2>1, <2>2
<1>16. Sound(e, id, h, D)
  BY <1>1, <1>5, <1>6, <1>7, <1>9, <1>10, <1>12, <1>14, <1>15, <1>a, <1>r DEF Sound
<1> QED BY <1>16 DEF e

----------------------------------------------------------------------------

\* The loop of saveTimelineMessages step by step.
BatchRun(acc, d, batch, limited, prev) ==
  /\ acc[0] = [db |-> IF limited THEN EmptyDb ELSE d, first |-> TRUE]
  /\ \A n \in 1..Len(batch) : acc[n] = SaveEvent(acc[n - 1], batch[n], limited, prev)
  /\ SaveTimelineMessages(d, batch, limited, prev) = acc[Len(batch)].db

LEMMA BatchSteps ==
  ASSUME NEW d, NEW batch \in Seq(Int), batch # <<>>, NEW limited, NEW prev
  PROVE  \E acc : BatchRun(acc, d, batch, limited, prev)
<1> DEFINE base == [db |-> IF limited THEN EmptyDb ELSE d, first |-> TRUE]
           Loop(g, k) == g = [n \in 0..k |-> IF n = 0 THEN base
                                              ELSE SaveEvent(g[n - 1], batch[n], limited, prev)]
           S == {k \in Nat : \E g : Loop(g, k)}
           L == Len(batch)
<1>1. L \in Nat /\ L # 0
  OBVIOUS
<1>2. 0 \in S
  <2> DEFINE g == [n \in 0..0 |-> base]
  <2>1. Loop(g, 0)
    OBVIOUS
  <2> QED BY <2>1
<1>3. ASSUME NEW m \in 1..L, m - 1 \in S PROVE m \in S
  <2>1. PICK g : Loop(g, m - 1)
    BY <1>3
  <2> DEFINE h == [n \in 0..m |-> IF n = m THEN SaveEvent(g[m - 1], batch[m], limited, prev)
                                   ELSE g[n]]
  <2>2. ASSUME NEW n \in 0..m
        PROVE  h[n] = IF n = 0 THEN base ELSE SaveEvent(h[n - 1], batch[n], limited, prev)
    <3>1. CASE n = m
      <4>1. h[n - 1] = g[m - 1]
        BY <3>1
      <4> QED BY <3>1, <4>1
    <3>2. CASE n # m
      <4>1. n \in 0..(m - 1)
        BY <3>2
      <4>2. g[n] = IF n = 0 THEN base ELSE SaveEvent(g[n - 1], batch[n], limited, prev)
        BY <2>1, <4>1
      <4>3. h[n] = g[n] /\ (n # 0 => h[n - 1] = g[n - 1])
        BY <3>2
      <4> QED BY <4>2, <4>3
    <3> QED BY <3>1, <3>2
  <2>3. h = [n \in 0..m |-> h[n]]
    OBVIOUS
  <2> HIDE DEF h, base
  <2>4. Loop(h, m)
    BY <2>2, <2>3
  <2>5. m \in Nat
    OBVIOUS
  <2> HIDE DEF Loop
  <2>6. \E f : Loop(f, m)
    BY <2>4
  <2> QED BY <2>5, <2>6
<1>4. L \in S
  <2> HIDE DEF S, L
  <2>1. 0..L \subseteq S
    BY <1>1, <1>2, <1>3, UpTo
  <2> QED BY <1>1, <2>1
<1> DEFINE acc == CHOOSE g : Loop(g, L)
<1>5. Loop(acc, L)
  BY <1>4
<1>6. SaveTimelineMessages(d, batch, limited, prev) = acc[L].db
  BY DEF SaveTimelineMessages
<1> HIDE DEF acc
<1>7. ASSUME NEW n \in 0..L
      PROVE  acc[n] = IF n = 0 THEN base ELSE SaveEvent(acc[n - 1], batch[n], limited, prev)
  BY <1>5
<1> HIDE DEF Loop, base
<1>8. acc[0] = base
  BY <1>1, <1>7
<1>9. ASSUME NEW n \in 1..L
      PROVE  acc[n] = SaveEvent(acc[n - 1], batch[n], limited, prev)
  <2>1. n \in 0..L /\ n # 0
    BY <1>1
  <2> QED BY <1>7, <2>1
<1> QED BY <1>6, <1>8, <1>9 DEF base, BatchRun

\* One turn of the loop of saveOldMessages.
ChunkStep(a, id) ==
  IF id \in Redactions THEN a ELSE [db |-> SaveOldEvent(a.db, id), last |-> id]

\* That loop step by step.
ChunkRun(acc, d, chunk) ==
  /\ acc[0] = [db |-> d, last |-> NoEvent]
  /\ \A n \in 1..Len(chunk) : acc[n] = ChunkStep(acc[n - 1], chunk[n])
  /\ SaveChunk(d, chunk) = acc[Len(chunk)]

LEMMA ChunkSteps ==
  ASSUME NEW d, NEW chunk \in Seq(Int)
  PROVE  \E acc : ChunkRun(acc, d, chunk)
<1> DEFINE base == [db |-> d, last |-> NoEvent]
           Loop(g, k) == g = [n \in 0..k |-> IF n = 0 THEN base
                                              ELSE ChunkStep(g[n - 1], chunk[n])]
           S == {k \in Nat : \E g : Loop(g, k)}
           L == Len(chunk)
<1>1. L \in Nat
  OBVIOUS
<1>2. 0 \in S
  <2> DEFINE g == [n \in 0..0 |-> base]
  <2>1. Loop(g, 0)
    OBVIOUS
  <2> QED BY <2>1
<1>3. ASSUME NEW m \in 1..L, m - 1 \in S PROVE m \in S
  <2>1. PICK g : Loop(g, m - 1)
    BY <1>3
  <2> DEFINE h == [n \in 0..m |-> IF n = m THEN ChunkStep(g[m - 1], chunk[m])
                                   ELSE g[n]]
  <2>2. ASSUME NEW n \in 0..m
        PROVE  h[n] = IF n = 0 THEN base ELSE ChunkStep(h[n - 1], chunk[n])
    <3>1. CASE n = m
      <4>1. h[n - 1] = g[m - 1]
        BY <3>1
      <4> QED BY <3>1, <4>1
    <3>2. CASE n # m
      <4>1. n \in 0..(m - 1)
        BY <3>2
      <4>2. g[n] = IF n = 0 THEN base ELSE ChunkStep(g[n - 1], chunk[n])
        BY <2>1, <4>1
      <4>3. h[n] = g[n] /\ (n # 0 => h[n - 1] = g[n - 1])
        BY <3>2
      <4> QED BY <4>2, <4>3
    <3> QED BY <3>1, <3>2
  <2>3. h = [n \in 0..m |-> h[n]]
    OBVIOUS
  <2> HIDE DEF h, base
  <2>4. Loop(h, m)
    BY <2>2, <2>3
  <2>5. m \in Nat
    OBVIOUS
  <2> HIDE DEF Loop
  <2>6. \E f : Loop(f, m)
    BY <2>4
  <2> QED BY <2>5, <2>6
<1>4. L \in S
  <2> HIDE DEF S, L
  <2>1. 0..L \subseteq S
    BY <1>1, <1>2, <1>3, UpTo
  <2> QED BY <1>1, <2>1
<1> DEFINE acc == CHOOSE g : Loop(g, L)
<1>5. Loop(acc, L)
  BY <1>4
<1>6. SaveChunk(d, chunk) = acc[L]
  BY DEF SaveChunk, ChunkStep
<1> HIDE DEF acc
<1>7. ASSUME NEW n \in 0..L
      PROVE  acc[n] = IF n = 0 THEN base ELSE ChunkStep(acc[n - 1], chunk[n])
  BY <1>5
<1> HIDE DEF Loop, base
<1>8. acc[0] = base
  BY <1>1, <1>7
<1>9. ASSUME NEW n \in 1..L
      PROVE  acc[n] = ChunkStep(acc[n - 1], chunk[n])
  <2>1. n \in 0..L /\ n # 0
    BY <1>1
  <2> QED BY <1>7, <2>1
<1> QED BY <1>6, <1>8, <1>9 DEF base, ChunkRun

----------------------------------------------------------------------------

LEMMA EndsInt ==
  ASSUME NEW f, Bounded(f)
  PROVE  FirstIdx(f) \in Int /\ LastIdx(f) \in Int
<1>1. CASE DOMAIN f = {}
  BY <1>1 DEF FirstIdx, LastIdx
<1>2. CASE DOMAIN f # {}
  <2>1. FirstIdx(f) \in DOMAIN f /\ LastIdx(f) \in DOMAIN f
    BY <1>2, EndsOfTable
  <2> QED BY <2>1 DEF Bounded
<1> QED BY <1>1, <1>2

\* The sync moves on by an event that has no local echo.
LEMMA Advance ==
  ASSUME NEW s \in 0..(Newest - 1), NEW h, NEW D, NEW d, Sound(d, s, h, D), s + 1 <= h,
         -(s + 1) \notin DOMAIN d.evToOrder
  PROVE  Sound(d, s + 1, h, D)
<1>1. DOMAIN d.evToOrder \subseteq Known(s + 1, h) /\ h \in (s + 1)..Newest
  BY Constants DEF Sound, Known
<1> QED BY <1>1 DEF Sound

IsAcc(a) == a = [db |-> a.db, first |-> a.first]

\* One event of a sync.
LEMMA SaveEventSound ==
  ASSUME NEW s \in 0..(Newest - 1), NEW h, NEW D, NEW a, IsAcc(a), Sound(a.db, s, h, D),
         NEW limited, NEW prev \in Tokens(h), NEW id, id = s + 1, id <= h
  PROVE  LET b == SaveEvent(a, id, limited, prev) IN IsAcc(b) /\ Sound(b.db, id, h, D)
<1> DEFINE b == SaveEvent(a, id, limited, prev)
           tok == IF a.first THEN prev ELSE NoTok
<1>1. id \in 1..Newest /\ s = id - 1
  BY Constants
<1>2. tok \in Tokens(h)
  BY DEF Tokens
<1>3. CASE id \in Mine /\ -id \in DOMAIN a.db.evToOrder
  <2>1. b = [db |-> Echo(a.db, id, tok), first |-> a.first]
    BY <1>3 DEF SaveEvent
  <2>2. Sound(Echo(a.db, id, tok), id, h, D)
    BY <1>1, <1>2, <1>3, EchoSound
  <2> HIDE DEF tok
  <2>3. b.db = Echo(a.db, id, tok) /\ IsAcc(b)
    BY <2>1 DEF IsAcc
  <2> QED BY <2>2, <2>3
<1>4. CASE ~(id \in Mine /\ -id \in DOMAIN a.db.evToOrder)
  <2>1. -id \notin DOMAIN a.db.evToOrder
    BY <1>1, <1>4, Constants DEF Sound, Known
  <2>2. Sound(a.db, id, h, D)
    BY <2>1, Advance
  <2>3. CASE b = a
    BY <2>2, <2>3
  <2>4. CASE b # a
    <3> DEFINE idx == LastIdx(a.db.order) + 1
               midx == LastIdx(a.db.order2msg) + 1
    <3>1. /\ b = [db |-> Insert(a.db, id, tok, idx, midx), first |-> FALSE]
          /\ id \in Redactions \/ id \notin DOMAIN a.db.evToOrder
      BY <1>4, <2>4 DEF SaveEvent
    <3>2. id \in Known(id, h) /\ id \in 0..Newest
      BY <1>1, Constants DEF Sound, Known
    <3>3. idx \in Int /\ midx \in Int
      BY EndsInt DEF Sound
    <3>4. Sound(Insert(a.db, id, tok, idx, midx), id, h, D)
      <4> HIDE DEF tok, idx, midx
      <4> QED BY <1>2, <2>1, <2>2, <3>1, <3>2, <3>3, InsertSound
    <3> QED BY <3>1, <3>4 DEF IsAcc
  <2> QED BY <2>3, <2>4
<1> QED BY <1>3, <1>4

LEMMA EmptySound ==
  ASSUME NEW s \in 0..Newest, NEW h \in s..Newest, NEW D \in SUBSET Mine
  PROVE  Sound(EmptyDb, s, h, D)
BY Constants DEF EmptyDb, NoRows, Sound, IsDb, OwnSlots, Alone, ShownOnes, Bounded

LEMMA PositionsFacts ==
  ASSUME NEW from \in 0..Newest, NEW to \in 0..Newest, from < to
  PROVE  LET batch == Positions(from, to)
         IN  /\ batch \in Seq(Int) /\ Len(batch) = to - from /\ batch # <<>>
             /\ \A n \in 1..(to - from) : batch[n] = from + n
<1> DEFINE batch == Positions(from, to)
<1>1. batch = [k \in 1..(to - from) |-> from + k] /\ to - from \in Nat \ {0}
  BY Constants DEF Positions
<1>2. batch \in [1..(to - from) -> Int]
  BY Constants, <1>1
<1> HIDE DEF batch
<1>3. batch \in Seq(Int) /\ Len(batch) = to - from
  BY <1>1, <1>2
<1>4. /\ batch \in Seq(Int) /\ Len(batch) = to - from /\ batch # <<>>
      /\ \A n \in 1..(to - from) : batch[n] = from + n
  BY <1>1, <1>3
<1> QED BY <1>4 DEF batch

\* A sync that brings the events after from, up to to.
LEMMA BatchSound ==
  ASSUME NEW from \in 0..Newest, NEW to \in 0..Newest, from < to, NEW d, NEW limited,
         NEW h \in to..Newest, NEW D \in SUBSET Mine, limited \/ Sound(d, from, h, D)
  PROVE  Sound(SaveTimelineMessages(d, Positions(from, to), limited, from), to, h, D)
<1> DEFINE batch == Positions(from, to)
<1>1. /\ batch \in Seq(Int) /\ Len(batch) = to - from /\ batch # <<>>
      /\ \A n \in 1..(to - from) : batch[n] = from + n
  BY PositionsFacts
<1> HIDE DEF batch
<1>2. PICK acc : BatchRun(acc, d, batch, limited, from)
  BY <1>1, BatchSteps
<1> DEFINE S == {n \in 0..(to - from) : IsAcc(acc[n]) /\ Sound(acc[n].db, from + n, h, D)}
<1>3. 0 \in S
  <2>1. Sound(EmptyDb, from, h, D)
    BY EmptySound, Constants
  <2>2. IsAcc(acc[0]) /\ Sound(acc[0].db, from, h, D)
    BY <1>2, <2>1 DEF IsAcc, BatchRun
  <2>3. from + 0 = from /\ 0 \in 0..(to - from)
    BY Constants
  <2> QED BY <2>2, <2>3
<1>4. ASSUME NEW n \in 1..(to - from), n - 1 \in S PROVE n \in S
  <2> DEFINE s == from + (n - 1)
  <2>1. s \in 0..(Newest - 1) /\ s + 1 = from + n /\ n \in 0..(to - from) /\ s + 1 <= h
    BY Constants
  <2>2. IsAcc(acc[n - 1]) /\ Sound(acc[n - 1].db, s, h, D)
    BY <1>4
  <2>3. from \in Tokens(h)
    BY Constants DEF Tokens
  <2>4. acc[n] = SaveEvent(acc[n - 1], s + 1, limited, from)
    BY <1>1, <1>2, <2>1 DEF BatchRun
  <2> HIDE DEF s
  <2>5. IsAcc(acc[n]) /\ Sound(acc[n].db, s + 1, h, D)
    <3> DEFINE id == s + 1
    <3>1. id = s + 1
      OBVIOUS
    <3> HIDE DEF id
    <3>2. LET b == SaveEvent(acc[n - 1], id, limited, from) IN IsAcc(b) /\ Sound(b.db, id, h, D)
      BY <2>1, <2>2, <2>3, <3>1, SaveEventSound
    <3> QED BY <2>4, <3>1, <3>2
  <2> QED BY <2>1, <2>5
<1>5. to - from \in S
  <2>1. to - from \in Nat
    BY Constants
  <2> HIDE DEF S
  <2>2. 0..(to - from) \subseteq S
    BY <1>3, <1>4, <2>1, UpTo
  <2> QED BY <2>1, <2>2
<1>6. from + (to - from) = to
  BY Constants
<1>7. SaveTimelineMessages(d, batch, limited, from) = acc[to - from].db
  BY <1>1, <1>2 DEF BatchRun
<1> QED BY <1>5, <1>6, <1>7 DEF batch

\* A local echo is a new entry.
LEMMA PendingInsert ==
  ASSUME NEW d, NEW p \in Mine, -p \notin DOMAIN d.evToOrder
  PROVE  SaveTimelineMessages(d, <<-p>>, FALSE, NoTok)
           = Insert(d, -p, NoTok, LastIdx(d.order) + 1, LastIdx(d.order2msg) + 1)
<1> DEFINE batch == <<-p>>
<1>1. p \in Int /\ p >= 1
  BY Constants
<1>2. batch \in Seq(Int) /\ Len(batch) = 1 /\ batch[1] = -p /\ batch # <<>>
  BY <1>1
<1> HIDE DEF batch
<1>3. PICK acc : BatchRun(acc, d, batch, FALSE, NoTok)
  BY <1>2, BatchSteps
<1>4. /\ acc[0] = [db |-> d, first |-> TRUE]
      /\ acc[1] = SaveEvent(acc[0], -p, FALSE, NoTok)
      /\ SaveTimelineMessages(d, batch, FALSE, NoTok) = acc[1].db
  <2>1. 1 \in 1..Len(batch) /\ 1 - 1 = 0
    BY <1>2
  <2> QED BY <1>2, <1>3, <2>1 DEF BatchRun
<1>5. -p \notin Mine /\ -p \notin Redactions
  BY <1>1, Constants
<1> DEFINE idx == LastIdx(d.order) + 1
           midx == LastIdx(d.order2msg) + 1
<1>6. acc[1] = [db |-> Insert(d, -p, NoTok, idx, midx), first |-> FALSE]
  BY <1>4, <1>5 DEF SaveEvent
<1> HIDE DEF idx, midx
<1>7. SaveTimelineMessages(d, batch, FALSE, NoTok) = Insert(d, -p, NoTok, idx, midx)
  <2>1. acc[1].db = Insert(d, -p, NoTok, idx, midx)
    BY <1>6
  <2> QED BY <1>4, <2>1
<1> QED BY <1>7 DEF batch, idx, midx

\* A local echo of an event that the sync has not reached.
LEMMA PendingSound ==
  ASSUME NEW s \in 0..Newest, NEW h, NEW D, NEW d, Sound(d, s, h, D), NEW p \in Mine, p > h,
         -p \notin DOMAIN d.evToOrder
  PROVE  Sound(SaveTimelineMessages(d, <<-p>>, FALSE, NoTok), s, h, D)
<1> DEFINE id == -p
           idx == LastIdx(d.order) + 1
           midx == LastIdx(d.order2msg) + 1
<1>1. id \in Known(s, h) /\ id \notin DOMAIN d.evToOrder /\ -id \notin DOMAIN d.evToOrder
  BY Constants DEF Sound, Known
<1>2. idx \in Int /\ midx \in Int
  BY EndsInt DEF Sound
<1>3. NoTok \in Tokens(h)
  BY DEF Tokens
<1>4. SaveTimelineMessages(d, <<-p>>, FALSE, NoTok) = Insert(d, id, NoTok, idx, midx)
  BY PendingInsert
<1> HIDE DEF id, idx, midx
<1>5. Sound(Insert(d, id, NoTok, idx, midx), s, h, D)
  BY <1>1, <1>2, <1>3, InsertSound
<1> QED BY <1>4, <1>5, Zenon

----------------------------------------------------------------------------

\* One event of a page, stored in front.
LEMMA SaveOldEventSound ==
  ASSUME NEW s \in 0..Newest, NEW h, NEW D, NEW d, Sound(d, s, h, D), NEW id \in 1..h,
         id \notin DOMAIN d.evToOrder /\ -id \in DOMAIN d.evToOrder => id \in D
  PROVE  Sound(SaveOldEvent(d, id), s, h, D)
<1>1. CASE id \in DOMAIN d.evToOrder
  BY <1>1 DEF SaveOldEvent
<1>2. CASE id \notin DOMAIN d.evToOrder
  <2> DEFINE idx == FirstIdx(d.order) - 1
             midx == FirstIdx(d.order2msg) - 1
  <2>1. SaveOldEvent(d, id) = Insert(d, id, NoTok, idx, midx)
    BY <1>2 DEF SaveOldEvent
  <2>2. idx \in Int /\ midx \in Int
    BY EndsInt DEF Sound
  <2>3. id \in Known(s, h) /\ NoTok \in Tokens(h)
    BY DEF Known, Tokens
  <2> HIDE DEF idx, midx
  <2>4. Sound(Insert(d, id, NoTok, idx, midx), s, h, D)
    BY <1>2, <2>2, <2>3, InsertSound
  <2> QED BY <2>1, <2>4
<1> QED BY <1>1, <1>2

LEMMA SaveOldEventKnows ==
  ASSUME NEW d, NEW id
  PROVE  DOMAIN SaveOldEvent(d, id).evToOrder = DOMAIN d.evToOrder \cup {id}
BY DEF SaveOldEvent, Insert, Put

\* D has the events of a page which the tables do not know, but whose local echo they do.
Covers(D, d, chunk) ==
  \A k \in 1..Len(chunk) :
    chunk[k] \notin DOMAIN d.evToOrder /\ -chunk[k] \in DOMAIN d.evToOrder => chunk[k] \in D

\* The loop over a page: the tables stay sound, know its events, and last stays empty
\* only for a page of redactions.
LEMMA ChunkSound ==
  ASSUME NEW s \in 0..Newest, NEW h, NEW D, NEW d, Sound(d, s, h, D),
         NEW chunk \in Seq(1..h), Covers(D, d, chunk)
  PROVE  LET new == SaveChunk(d, chunk)
         IN  /\ Sound(new.db, s, h, D) /\ new.last \in 0..h
             /\ new.last = NoEvent => \A k \in 1..Len(chunk) : chunk[k] \in Redactions
             /\ \A k \in 1..Len(chunk) : chunk[k] \in DOMAIN new.db.evToOrder \cup Redactions
<1>h. h \in Nat /\ h \in s..Newest
  BY Constants DEF Sound
<1>1. chunk \in Seq(Int) /\ Len(chunk) \in Nat /\ \A k \in 1..Len(chunk) : chunk[k] \in 1..h
  <2>1. h \in Nat /\ 1..h \subseteq Int
    BY <1>h
  <2> QED BY <2>1
<1>2. PICK acc : ChunkRun(acc, d, chunk)
  BY <1>1, ChunkSteps
<1> DEFINE Good(n) ==
             /\ Sound(acc[n].db, s, h, D) /\ acc[n].last \in 0..h
             /\ acc[n].last = NoEvent => \A k \in 1..n : chunk[k] \in Redactions
             /\ \A k \in 1..n : chunk[k] \in DOMAIN acc[n].db.evToOrder \cup Redactions
             /\ DOMAIN d.evToOrder \subseteq DOMAIN acc[n].db.evToOrder
             /\ \A x \in DOMAIN acc[n].db.evToOrder : x < 0 => x \in DOMAIN d.evToOrder
           S == {n \in 0..Len(chunk) : Good(n)}
<1>3. 0 \in S
  BY <1>1, <1>2, <1>h DEF ChunkRun, NoEvent
<1>4. ASSUME NEW n \in 1..Len(chunk), n - 1 \in S PROVE n \in S
  <2> DEFINE c == acc[n - 1].db
             id == chunk[n]
  <2>1. /\ Sound(c, s, h, D) /\ acc[n - 1].last \in 0..h
        /\ acc[n - 1].last = NoEvent => \A k \in 1..(n - 1) : chunk[k] \in Redactions
        /\ \A k \in 1..(n - 1) : chunk[k] \in DOMAIN c.evToOrder \cup Redactions
        /\ DOMAIN d.evToOrder \subseteq DOMAIN c.evToOrder
        /\ \A x \in DOMAIN c.evToOrder : x < 0 => x \in DOMAIN d.evToOrder
    BY <1>4
  <2>2. acc[n] = ChunkStep(acc[n - 1], id)
    BY <1>2 DEF ChunkRun
  <2>3. n \in 0..Len(chunk) /\ id \in 1..h
    BY <1>1
  <2>i. \A k \in 1..n : k = n \/ k \in 1..(n - 1)
    OBVIOUS
  <2>4. CASE id \in Redactions
    <3>1. acc[n] = acc[n - 1]
      BY <2>2, <2>4 DEF ChunkStep
    <3>2. Good(n)
      BY <2>1, <2>4, <2>i, <3>1
    <3> QED BY <2>3, <3>2
  <2>5. CASE id \notin Redactions
    <3>1. acc[n].db = SaveOldEvent(c, id) /\ acc[n].last = id
      BY <2>2, <2>5 DEF ChunkStep
    <3>2. id \notin DOMAIN c.evToOrder /\ -id \in DOMAIN c.evToOrder => id \in D
      <4>1. -id < 0
        BY <1>h, <2>3
      <4>2. id \notin DOMAIN d.evToOrder /\ -id \in DOMAIN d.evToOrder => id \in D
        BY DEF Covers
      <4> QED BY <2>1, <4>1, <4>2
    <3>3. id # NoEvent /\ id \in 0..h /\ ~(id < 0)
      BY <1>h, <2>3 DEF NoEvent
    <3>4. DOMAIN acc[n].db.evToOrder = DOMAIN c.evToOrder \cup {id}
      BY <3>1, SaveOldEventKnows
    <3>5. \A k \in 1..n : chunk[k] \in DOMAIN acc[n].db.evToOrder \cup Redactions
      BY <2>1, <2>i, <3>4
    <3> HIDE DEF id, c
    <3>6. Sound(SaveOldEvent(c, id), s, h, D)
      BY <2>1, <2>3, <3>2, SaveOldEventSound
    <3>7. Good(n)
      BY <2>1, <3>1, <3>3, <3>4, <3>5, <3>6
    <3> QED BY <2>3, <3>7
  <2> QED BY <2>4, <2>5
<1>5. Len(chunk) \in S
  <2> HIDE DEF S
  <2>1. 0..Len(chunk) \subseteq S
    BY <1>1, <1>3, <1>4, UpTo
  <2> QED BY <1>1, <2>1
<1>6. Good(Len(chunk))
  BY <1>5
<1> QED BY <1>2, <1>6 DEF ChunkRun

\* The entry at index i is written again.
LEMMA RewriteSound ==
  ASSUME NEW s \in 0..Newest, NEW h, NEW D, NEW d, Sound(d, s, h, D), NEW i \in Int,
         NEW e \in [id : (-Newest)..Newest, tok : Tokens(h)]
  PROVE  Sound([d EXCEPT !.order = Put(@, i, e)], s, h, D)
<1> DEFINE c == [d EXCEPT !.order = Put(@, i, e)]
<1>1. /\ c.order = Put(d.order, i, e) /\ c.evToOrder = d.evToOrder
      /\ c.order2msg = d.order2msg /\ c.msg2order = d.msg2order /\ IsDb(c)
  BY DEF Sound, IsDb
<1> HIDE DEF c
<1>2. Bounded(c.order)
  BY <1>1, BoundedPut DEF Sound
<1>3. ASSUME NEW x \in DOMAIN c.order
      PROVE  c.order[x] \in [id : (-Newest)..Newest, tok : Tokens(h)]
  BY <1>1 DEF Put, Sound
<1>4. Sound(c, s, h, D)
  BY <1>1, <1>2, <1>3 DEF Sound, OwnSlots, Alone, ShownOnes
<1> QED BY <1>4 DEF c

\* saveOldMessages with the answer of the homeserver.
LEMMA SaveOldMessagesSound ==
  ASSUME NEW s \in 0..Newest, NEW h, NEW D, NEW d, Sound(d, s, h, D),
         NEW chunk \in Seq(1..h), Covers(D, d, chunk), NEW end \in Tokens(h)
  PROVE  Sound(SaveOldMessages(d, chunk, end), s, h, D)
<1> DEFINE new == SaveChunk(d, chunk)
           i == FirstIdx(new.db.order)
<1>h. h \in Nat /\ h \in s..Newest
  BY Constants DEF Sound
<1>1. /\ Sound(new.db, s, h, D) /\ new.last \in 0..h
      /\ new.last = NoEvent => \A k \in 1..Len(chunk) : chunk[k] \in Redactions
  BY ChunkSound
<1>2. i \in Int
  BY <1>1, EndsInt DEF Sound
<1>3. CASE chunk = <<>>
  <2>1. CASE DOMAIN d.order = {}
    BY <1>3, <2>1 DEF SaveOldMessages
  <2>2. CASE DOMAIN d.order # {}
    <3>1. new.db = d
      <4>1. chunk \in Seq(Int) /\ Len(chunk) = 0
        BY <1>3
      <4>2. PICK acc : ChunkRun(acc, d, chunk)
        BY <4>1, ChunkSteps
      <4> QED BY <4>1, <4>2 DEF ChunkRun
    <3>2. i \in DOMAIN d.order
      BY <2>2, <3>1, EndsOfTable DEF Sound
    <3> DEFINE e == [id |-> d.order[i].id, tok |-> end]
    <3>3. e \in [id : (-Newest)..Newest, tok : Tokens(h)]
      BY <3>2 DEF Sound
    <3>4. SaveOldMessages(d, chunk, end) = [d EXCEPT !.order = Put(@, i, e)]
      BY <1>3, <2>2 DEF SaveOldMessages
    <3> HIDE DEF e, i
    <3> QED BY <1>2, <3>3, <3>4, RewriteSound
  <2> QED BY <2>1, <2>2
<1>4. CASE chunk # <<>> /\ new.last = NoEvent
  <2> DEFINE id == Last(chunk)
  <2>1. Len(chunk) \in 1..Len(chunk) /\ chunk[Len(chunk)] \in 1..h
    <3>1. Len(chunk) \in 1..Len(chunk)
      BY <1>4
    <3> QED BY <3>1, <1>h
  <2>2. id \in 1..h /\ id \in Redactions
    BY <1>1, <1>4, <2>1 DEF Last
  <2>3. id \in Known(s, h) /\ -id \notin DOMAIN d.evToOrder
    BY <1>h, <2>2, Constants DEF Sound, Known
  <2>4. SaveOldMessages(d, chunk, end) = Insert(d, id, end, i - 1, 0)
    BY <1>4 DEF SaveOldMessages
  <2> DEFINE idx == i - 1
  <2>5. idx \in Int /\ 0 \in Int
    BY <1>2
  <2> HIDE DEF id, idx
  <2>6. Sound(Insert(d, id, end, idx, 0), s, h, D)
    BY <2>2, <2>3, <2>5, InsertSound
  <2> QED BY <2>4, <2>6 DEF idx
<1>5. CASE chunk # <<>> /\ new.last # NoEvent
  <2> DEFINE e == [id |-> new.last, tok |-> end]
  <2>1. e \in [id : (-Newest)..Newest, tok : Tokens(h)]
    BY <1>1, <1>h, Constants
  <2>2. SaveOldMessages(d, chunk, end) = [new.db EXCEPT !.order = Put(@, i, e)]
    BY <1>5 DEF SaveOldMessages
  <2> HIDE DEF e, i, new
  <2> QED BY <1>1, <1>2, <2>1, <2>2, RewriteSound
<1> QED BY <1>3, <1>4, <1>5

\* Whatever a page brings, it doubles nothing but events of our own.
LEMMA MineCovers ==
  ASSUME NEW s \in 0..Newest, NEW h, NEW D, NEW d, Sound(d, s, h, D), NEW chunk \in Seq(1..h)
  PROVE  /\ Sound(d, s, h, Mine) /\ Covers(Mine, d, chunk)
         /\ h \in Nat /\ chunk \in Seq(Int) /\ Len(chunk) \in Nat
         /\ \A k \in 1..Len(chunk) : chunk[k] \in 1..h
<1>h. h \in Nat /\ h \in h..Newest /\ D \subseteq Mine /\ Mine \in SUBSET Mine /\ 1..h \subseteq Int
  BY Constants DEF Sound
<1>1. Sound(d, s, h, Mine)
  BY <1>h, SoundLater
<1>2. ASSUME NEW k \in 1..Len(chunk), -chunk[k] \in DOMAIN d.evToOrder
      PROVE  chunk[k] \in Mine
  <2>1. chunk[k] \in 1..h /\ -chunk[k] \in Known(s, h)
    BY <1>h, <1>2 DEF Sound
  <2>2. PICK q \in Mine : -chunk[k] = -q
    BY <1>h, <2>1 DEF Known
  <2> QED BY <2>1, <2>2, Constants
<1>3. Covers(Mine, d, chunk)
  BY <1>2 DEF Covers
<1>4. chunk \in Seq(Int) /\ Len(chunk) \in Nat /\ \A k \in 1..Len(chunk) : chunk[k] \in 1..h
  BY <1>h
<1> QED BY <1>h, <1>1, <1>3, <1>4

\* The tables know the events of the page afterwards.
LEMMA SaveOldKnows ==
  ASSUME NEW s \in 0..Newest, NEW h, NEW D, NEW d, Sound(d, s, h, D),
         NEW chunk \in Seq(1..h), NEW end
  PROVE  LET e == SaveOldMessages(d, chunk, end)
         IN  \A k \in 1..Len(chunk) : chunk[k] \in DOMAIN e.evToOrder \cup Redactions
<1> DEFINE new == SaveChunk(d, chunk)
           e == SaveOldMessages(d, chunk, end)
<1>1. Sound(d, s, h, Mine) /\ Covers(Mine, d, chunk)
  BY MineCovers
<1>3. /\ Sound(new.db, s, h, Mine)
      /\ new.last = NoEvent => \A k \in 1..Len(chunk) : chunk[k] \in Redactions
      /\ \A k \in 1..Len(chunk) : chunk[k] \in DOMAIN new.db.evToOrder \cup Redactions
  BY <1>1, ChunkSound
<1>4. CASE chunk = <<>>
  BY <1>4
<1>5. CASE chunk # <<>> /\ new.last = NoEvent
  BY <1>3, <1>5
<1>6. CASE chunk # <<>> /\ new.last # NoEvent
  <2> DEFINE c == new.db
  <2>1. PICK x : e = [c EXCEPT !.order = x]
    BY <1>6 DEF SaveOldMessages
  <2>2. IsDb(c)
    BY <1>3 DEF Sound
  <2> HIDE DEF c, e
  <2>3. e.evToOrder = c.evToOrder
    BY <2>1, <2>2 DEF IsDb
  <2> QED BY <1>3, <2>3 DEF c, e
<1> QED BY <1>4, <1>5, <1>6

\* Entries leave all tables together.
LEMMA ForgetSound ==
  ASSUME NEW s \in 0..Newest, NEW h, NEW D, NEW d, Sound(d, s, h, D), NEW idxs
  PROVE  Sound(Forget(d, idxs), s, h, D)
<1> DEFINE ids == {d.order[i].id : i \in idxs}
           ms == ids \cap DOMAIN d.msg2order
           gone == {d.msg2order[id] : id \in ms}
           e == Forget(d, idxs)
<1>1. /\ e.order = Del(d.order, idxs) /\ e.evToOrder = Del(d.evToOrder, ids)
      /\ e.order2msg = Del(d.order2msg, gone) /\ e.msg2order = Del(d.msg2order, ids)
      /\ IsDb(e)
  BY DEF Forget, IsDb
<1>2. ASSUME NEW m \in DOMAIN d.order2msg, m \notin gone
      PROVE  d.order2msg[m] \notin ids \/ d.order2msg[m] \in D
  BY <1>2 DEF Sound, OwnSlots
<1> HIDE DEF e, ids, ms, gone
<1>3. Bounded(e.order) /\ Bounded(e.order2msg)
  BY <1>1, BoundedDel DEF Sound
<1>4. ASSUME NEW x \in DOMAIN e.order
      PROVE  e.order[x] \in [id : (-Newest)..Newest, tok : Tokens(h)]
  BY <1>1 DEF Del, Restrict, Sound
<1>5. ASSUME NEW x \in DOMAIN e.evToOrder PROVE e.evToOrder[x] \in Int /\ x \in Known(s, h)
  BY <1>1 DEF Del, Restrict, Sound
<1>6. ASSUME NEW x \in DOMAIN e.msg2order PROVE e.msg2order[x] \in Int
  BY <1>1 DEF Del, Restrict, Sound
<1>a. Alone(e, D) /\ ShownOnes(e)
  <2>1. /\ DOMAIN e.evToOrder = DOMAIN d.evToOrder \ ids
        /\ DOMAIN e.msg2order = DOMAIN d.msg2order \ ids
    BY <1>1 DEF Del, Restrict
  <2> QED BY <2>1 DEF Sound, Alone, ShownOnes
<1>7. ASSUME NEW m \in DOMAIN e.order2msg
      PROVE  \/ e.order2msg[m] \in DOMAIN e.msg2order /\ e.msg2order[e.order2msg[m]] = m
             \/ e.order2msg[m] \in D
  <2>1. m \in DOMAIN d.order2msg /\ m \notin gone /\ e.order2msg[m] = d.order2msg[m]
    BY <1>1 DEF Del, Restrict
  <2>2. d.order2msg[m] \notin ids \/ d.order2msg[m] \in D
    BY <1>2, <2>1
  <2>3. \/ d.order2msg[m] \in DOMAIN d.msg2order /\ d.msg2order[d.order2msg[m]] = m
        \/ d.order2msg[m] \in D
    BY <2>1 DEF Sound, OwnSlots
  <2> QED BY <1>1, <2>1, <2>2, <2>3 DEF Del, Restrict
<1>8. Sound(e, s, h, D)
  <2>1. h \in s..Newest /\ D \subseteq Mine
    BY DEF Sound
  <2> QED BY <1>1, <1>3, <1>4, <1>5, <1>6, <1>7, <1>a, <2>1 DEF Sound, OwnSlots
<1> QED BY <1>8 DEF e

LEMMA DeleteSound ==
  ASSUME NEW s \in 0..Newest, NEW h, NEW D, NEW d, Sound(d, s, h, D)
  PROVE  Sound(DeleteOldMessages(d), s, h, D)
BY ForgetSound DEF DeleteOldMessages

LEMMA ClearSound ==
  ASSUME NEW s \in 0..Newest, NEW h, NEW D, NEW d, Sound(d, s, h, D)
  PROVE  Sound(CacheClearTimeline(d), s, h, D)
<1> DEFINE toks == {i \in DOMAIN d.order : d.order[i].tok # NoTok}
           c == IF toks = {} THEN d ELSE Forget(d, {i \in DOMAIN d.order : i < Max(toks)})
<1>1. Sound(c, s, h, D)
  BY ForgetSound
<1> HIDE DEF c
<1>2. CASE CacheClearTimeline(d) = c
  BY <1>1, <1>2
<1>3. CASE \E K : CacheClearTimeline(d) = [c EXCEPT !.order2msg = Del(@, K)]
  <2>1. PICK K : CacheClearTimeline(d) = [c EXCEPT !.order2msg = Del(@, K)]
    BY <1>3
  <2> DEFINE e == [c EXCEPT !.order2msg = Del(@, K)]
  <2>2. /\ e.order = c.order /\ e.evToOrder = c.evToOrder /\ e.msg2order = c.msg2order
        /\ e.order2msg = Del(c.order2msg, K) /\ IsDb(e)
    BY <1>1 DEF Sound, IsDb
  <2> HIDE DEF e
  <2>3. Bounded(e.order2msg)
    BY <1>1, <2>2, BoundedDel DEF Sound
  <2>4. OwnSlots(e, D)
    BY <1>1, <2>2 DEF Sound, OwnSlots, Del, Restrict
  <2>5. Sound(e, s, h, D)
    BY <1>1, <2>2, <2>3, <2>4 DEF Sound, Alone, ShownOnes
  <2> QED BY <2>1, <2>5 DEF e
<1>4. \/ CacheClearTimeline(d) = c
      \/ \E K : CacheClearTimeline(d) = [c EXCEPT !.order2msg = Del(@, K)]
  BY DEF CacheClearTimeline, c
<1> QED BY <1>2, <1>3, <1>4

----------------------------------------------------------------------------

\* A page of events up to s, and the answers that wait for the UI thread.
Pages(s) == [chunk : Seq(1..s), end : Tokens(s)]
UiAnswers(s) == [kind : {"fetchedMore"}] \cup [kind : {"old"}, res : Pages(s)]

\* The inductive invariant: the tables are sound for the positions of the sync and of the
\* homeserver, and neither a request nor an answer is about later events.
State ==
  /\ synced \in Start..Newest
  /\ Sound(db, synced, head, doubled)
  /\ requests \in Seq(Tokens(head))
  /\ uiq \in Seq(UiAnswers(head))
  /\ untold \in Untold

LEMMA PrevTokenType ==
  ASSUME NEW s \in 0..Newest, NEW h, NEW D, NEW d, Sound(d, s, h, D)
  PROVE  PrevToken(d) \in Tokens(h)
<1>1. CASE DOMAIN d.order = {}
  BY <1>1 DEF PrevToken, Tokens
<1>2. CASE DOMAIN d.order # {}
  <2>1. FirstIdx(d.order) \in DOMAIN d.order
    BY <1>2, EndsOfTable DEF Sound
  <2> QED BY <1>2, <2>1 DEF PrevToken, Sound
<1> QED BY <1>1, <1>2

\* What the homeserver answers for a token of ours.
LEMMA MessagesType ==
  ASSUME NEW s \in 0..Newest, NEW from \in Tokens(s)
  PROVE  Messages(from, s) \in Pages(s)
<1> DEFINE top == IF from = NoTok THEN s ELSE from
           n == IF top < ChunkSize THEN top ELSE ChunkSize
           chunk == [k \in 1..n |-> top - k + 1]
           end == IF top = 0 THEN NoTok ELSE top - n
<1>1. top \in 0..s
  BY Constants DEF Tokens
<1>2. Messages(from, s) = [chunk |-> chunk, end |-> end]
  BY DEF Messages
<1> HIDE DEF top
<1>3. n \in Nat /\ n <= top
  BY <1>1, Constants
<1>4. chunk \in [1..n -> 1..s]
  BY <1>1, <1>3, Constants
<1>5. chunk \in Seq(1..s)
  <2> HIDE DEF chunk, n
  <2> QED BY <1>3, <1>4
<1>6. end \in Tokens(s)
  BY <1>1, <1>3, Constants DEF Tokens
<1> QED BY <1>2, <1>5, <1>6 DEF Pages

\* Later positions only add events, tokens and answers.
LEMMA Later ==
  ASSUME NEW s \in 0..Newest, NEW t \in s..Newest
  PROVE  Seq(Tokens(s)) \subseteq Seq(Tokens(t)) /\ Seq(UiAnswers(s)) \subseteq Seq(UiAnswers(t))
<1>1. Tokens(s) \subseteq Tokens(t) /\ 1..s \subseteq 1..t
  BY Constants DEF Tokens
<1>2. Seq(1..s) \subseteq Seq(1..t)
  BY <1>1
<1>3. Pages(s) \subseteq Pages(t)
  BY <1>1, <1>2 DEF Pages
<1>4. UiAnswers(s) \subseteq UiAnswers(t)
  BY <1>3 DEF UiAnswers
<1> QED BY <1>1, <1>4

LEMMA InitState == Init => State
<1> SUFFICES ASSUME Init PROVE State
  OBVIOUS
<1> DEFINE from == Start - 1
<1>1. from \in 0..Newest /\ Start \in 0..Newest /\ from < Start
  BY Constants
<1>2. Positions(from, Start) = <<Start>>
  <2>1. Start - from = 1
    BY Constants
  <2>2. Positions(from, Start) = [k \in 1..1 |-> from + k]
    BY <2>1 DEF Positions
  <2>3. <<Start>> = [k \in 1..1 |-> Start]
    OBVIOUS
  <2>4. \A k \in 1..1 : from + k = Start
    BY Constants
  <2> QED BY <2>2, <2>3, <2>4
<1>3. db = SaveTimelineMessages(EmptyDb, <<Start>>, TRUE, from)
  BY DEF Init
<1> DEFINE batch == <<Start>>
<1>4. db = SaveTimelineMessages(EmptyDb, batch, TRUE, from) /\ Positions(from, Start) = batch
  BY <1>2, <1>3
<1> HIDE DEF from, batch
<1>5. Sound(SaveTimelineMessages(EmptyDb, Positions(from, Start), TRUE, from), Start, Start, {})
  <2>1. Start \in Start..Newest /\ {} \in SUBSET Mine
    BY Constants
  <2> QED BY <1>1, <2>1, BatchSound
<1>6. Sound(db, Start, Start, {})
  BY <1>4, <1>5
<1>7. /\ synced = Start /\ head = Start /\ requests = <<>> /\ uiq = <<>>
      /\ doubled = {} /\ untold \in Untold
  BY DEF Init, Untold
<1>8. synced \in Start..Newest
  BY <1>7, Constants
<1> QED BY <1>6, <1>7, <1>8 DEF State

\* What a sync leaves, trimmed or not.
LEMMA TrimmedSound ==
  ASSUME NEW s \in 0..Newest, NEW h, NEW D, NEW d, Sound(d, s, h, D), NEW full
  PROVE  Sound(Trimmed(d, full), s, h, D)
BY DeleteSound DEF Trimmed

\* saveState with a sync, whether or not anything is done about it afterwards.
LEMMA SaveSound ==
  ASSUME State, NEW full, SaveNext(full) \/ SaveLimited(full)
  PROVE  /\ synced' \in synced..Newest /\ head' \in head..Newest
         /\ Sound(db', synced', head', doubled')
<1>s. /\ synced \in 0..Newest /\ Sound(db, synced, head, doubled)
      /\ head \in synced..Newest /\ doubled \in SUBSET Mine
  BY Constants DEF State, Sound
<1>f. ASSUME NEW to \in synced..Newest
      PROVE  /\ Furthest(head, to) \in head..Newest /\ Furthest(head, to) \in to..Newest
             /\ to \in 0..Newest
  BY <1>s, Constants DEF Furthest
<1>1. CASE SaveNext(full)
  <2>1. PICK to \in (synced + 1)..Newest :
          /\ db' = Trimmed(SaveTimelineMessages(db, Positions(synced, to), FALSE, synced), full)
          /\ synced' = to /\ head' = Furthest(head, to)
    BY <1>1 DEF SaveNext
  <2>2. UNCHANGED doubled
    BY <1>1 DEF SaveNext
  <2>3. to \in synced..Newest /\ synced < to
    BY <1>s, Constants
  <2> DEFINE h == Furthest(head, to)
  <2>4. h \in head..Newest /\ h \in to..Newest /\ to \in 0..Newest
    BY <1>f, <2>3
  <2> HIDE DEF h
  <2>5. Sound(db, synced, h, doubled)
    BY <1>s, <2>4, SoundLater
  <2>6. Sound(SaveTimelineMessages(db, Positions(synced, to), FALSE, synced), to, h, doubled)
    BY <1>s, <2>3, <2>4, <2>5, BatchSound
  <2>7. Sound(db', to, h, doubled)
    BY <2>1, <2>4, <2>6, TrimmedSound
  <2> QED BY <2>1, <2>2, <2>3, <2>4, <2>7 DEF h
<1>2. CASE SaveLimited(full)
  <2>1. PICK from \in (synced + 1)..(Newest - 1), to \in (synced + 2)..Newest :
          /\ from < to
          /\ db' = Trimmed(SaveTimelineMessages(db, Positions(from, to), TRUE, from), full)
          /\ synced' = to /\ head' = Furthest(head, to)
    BY <1>2 DEF SaveLimited
  <2>2. doubled' = {}
    BY <1>2 DEF SaveLimited
  <2>3. to \in synced..Newest /\ from \in 0..Newest
    BY <1>s, Constants
  <2> DEFINE h == Furthest(head, to)
  <2>4. h \in head..Newest /\ h \in to..Newest /\ to \in 0..Newest
    BY <1>f, <2>3
  <2> HIDE DEF h
  <2>6. Sound(SaveTimelineMessages(db, Positions(from, to), TRUE, from), to, h, {})
    BY <2>1, <2>3, <2>4, BatchSound
  <2>7. Sound(db', to, h, {})
    BY <2>1, <2>4, <2>6, TrimmedSound
  <2> QED BY <2>1, <2>2, <2>3, <2>4, <2>7 DEF h
<1> QED BY <1>1, <1>2

\* The slot that stores a page: our events which now have two entries are counted.
LEMMA HandleOldSound ==
  ASSUME State, HandleOld
  PROVE  /\ Sound(db', synced, head, doubled') /\ requests' \in Seq(Tokens(head))
         /\ uiq' \in Seq(UiAnswers(head))
<1>s. /\ synced \in 0..Newest /\ Sound(db, synced, head, doubled)
      /\ head \in head..Newest /\ doubled \subseteq Mine /\ head \in Nat
  BY Constants DEF State, Sound
<1>1. /\ uiq # <<>> /\ uiq' = Tail(uiq) /\ uiq[1].kind = "old"
      /\ doubled' = doubled \cup NowTwice(db')
  BY DEF HandleOld
<1>2. uiq' \in Seq(UiAnswers(head)) /\ uiq[1] \in UiAnswers(head)
  BY <1>1 DEF State
<1>3. uiq[1].res \in Pages(head)
  BY <1>1, <1>2 DEF UiAnswers
<1> DEFINE chunk == uiq[1].res.chunk
           new == SaveOldMessages(db, chunk, uiq[1].res.end)
<1>4. \/ UNCHANGED <<db, requests>>
      \/ db' = new /\ (requests' = requests \/ requests' = Append(requests, PrevToken(new)))
  BY DEF HandleOld, OldSaved
<1>5. chunk \in Seq(1..head) /\ uiq[1].res.end \in Tokens(head)
  BY <1>3 DEF Pages
<1>6. doubled' \in SUBSET Mine /\ doubled \subseteq doubled'
  BY <1>s, <1>1 DEF NowTwice
<1>7. Sound(db, synced, head, doubled')
  BY <1>s, <1>6, SoundLater
<1> HIDE DEF new, chunk
<1>8. CASE UNCHANGED <<db, requests>>
  BY <1>2, <1>7, <1>8 DEF State
<1>9. CASE db' = new /\ (requests' = requests \/ requests' = Append(requests, PrevToken(new)))
  <2>1. \A k \in 1..Len(chunk) : chunk[k] \in DOMAIN new.evToOrder \cup Redactions
    BY <1>s, <1>5, SaveOldKnows DEF new
  <2>2. Covers(doubled', db, chunk)
    <3>1. ASSUME NEW k \in 1..Len(chunk), chunk[k] \notin DOMAIN db.evToOrder,
                 -chunk[k] \in DOMAIN db.evToOrder
          PROVE  chunk[k] \in doubled'
      <4>1. chunk[k] \in 1..head /\ -chunk[k] \in Known(synced, head)
        BY <1>s, <1>5, <3>1 DEF Sound
      <4>2. PICK q \in Mine : -chunk[k] = -q
        BY <1>s, <4>1 DEF Known
      <4>3. chunk[k] \in Mine /\ chunk[k] \notin Redactions
        BY <4>1, <4>2, Constants
      <4>4. chunk[k] \in DOMAIN db'.evToOrder
        BY <1>9, <2>1, <4>3
      <4>5. chunk[k] \in NowTwice(db')
        BY <3>1, <4>3, <4>4 DEF NowTwice
      <4> QED BY <1>1, <4>5
    <3> QED BY <3>1 DEF Covers
  <2>3. Sound(new, synced, head, doubled')
    BY <1>s, <1>5, <1>7, <2>2, SaveOldMessagesSound DEF new
  <2>4. PrevToken(new) \in Tokens(head)
    BY <1>s, <2>3, PrevTokenType
  <2>5. requests' \in Seq(Tokens(head))
    BY <1>9, <2>4 DEF State
  <2> QED BY <1>2, <1>9, <2>3, <2>5
<1> QED BY <1>4, <1>8, <1>9

LEMMA StateStep == State /\ [Next]_vars => State'
<1> SUFFICES ASSUME State, [Next]_vars PROVE State'
  OBVIOUS
<1>s. /\ synced \in 0..Newest /\ synced \in Start..Newest /\ Sound(db, synced, head, doubled)
      /\ head \in 0..Newest /\ head \in synced..Newest /\ untold \in Untold
  BY Constants DEF State, Sound
<1>d. ASSUME UNCHANGED <<synced, head, doubled>>, Sound(db', synced, head, doubled),
             requests' \in Seq(Tokens(head)), uiq' \in Seq(UiAnswers(head)), untold' \in Untold
      PROVE  State'
  BY <1>d DEF State
<1>1. CASE AddPending
  <2>1. PICK p \in Mine : /\ p > head /\ -p \notin DOMAIN db.evToOrder
                          /\ db' = SaveTimelineMessages(db, <<-p>>, FALSE, NoTok)
    BY <1>1 DEF AddPending
  <2>2. Sound(db', synced, head, doubled)
    BY <1>s, <2>1, PendingSound
  <2>3. UNCHANGED <<synced, head, doubled, requests, uiq>> /\ untold' \in Untold
    BY <1>1, <1>s DEF AddPending, server, Told, Untold
  <2> QED BY <1>d, <2>2, <2>3 DEF State
<1>m. ASSUME NEW full, SaveNext(full) \/ SaveLimited(full), UNCHANGED <<requests, uiq>>,
             untold' \in Untold
      PROVE  State'
  <2>1. /\ synced' \in synced..Newest /\ head' \in head..Newest
        /\ Sound(db', synced', head', doubled')
    BY <1>m, SaveSound
  <2>2. requests' \in Seq(Tokens(head')) /\ uiq' \in Seq(UiAnswers(head'))
    BY <1>s, <1>m, <2>1, Later DEF State
  <2>3. synced' \in Start..Newest
    BY <1>s, <2>1, Constants
  <2> QED BY <1>m, <2>1, <2>2, <2>3 DEF State
<1>2. CASE Sync
  BY <1>2, <1>m, <1>s DEF Sync, Told, Untold
<1>3. CASE SyncLimited
  BY <1>3, <1>m DEF SyncLimited, Untold
<1>4. CASE FetchMore
  <2>1. UNCHANGED <<db, synced, head, doubled, uiq, untold>>
    BY <1>4 DEF FetchMore, server, history
  <2>2. PrevToken(db) \in Tokens(head)
    BY <1>s, PrevTokenType
  <2>3. requests' \in Seq(Tokens(head))
    <3>1. requests' = requests \/ requests' = Append(requests, PrevToken(db))
      BY <1>4 DEF FetchMore
    <3> QED BY <2>2, <3>1 DEF State
  <2> QED BY <1>s, <1>d, <2>1, <2>3 DEF State
<1>5. CASE Response
  <2>1. UNCHANGED <<db, synced, doubled, untold>>
    BY <1>5 DEF Response, history
  <2>2. PICK k \in DOMAIN requests, n \in head..Newest :
          /\ head' = n /\ requests' = RemoveAt(requests, k)
          /\ \/ uiq' = Append(uiq, [kind |-> "fetchedMore"])
             \/ uiq' = Append(uiq, [kind |-> "old", res |-> Messages(requests[k], n)])
    BY <1>5 DEF Response
  <2>n. n \in 0..Newest
    BY <1>s, Constants
  <2>l. requests \in Seq(Tokens(n)) /\ uiq \in Seq(UiAnswers(n))
    BY <1>s, Later DEF State
  <2>3. requests[k] \in Tokens(n) /\ k \in 1..Len(requests)
    BY <2>l
  <2>4. Messages(requests[k], n) \in Pages(n)
    BY <2>3, <2>n, MessagesType
  <2>5. uiq' \in Seq(UiAnswers(n))
    <3>1. /\ [kind |-> "fetchedMore"] \in UiAnswers(n)
          /\ [kind |-> "old", res |-> Messages(requests[k], n)] \in UiAnswers(n)
      BY <2>4 DEF UiAnswers
    <3>2. PICK e \in UiAnswers(n) : uiq' = Append(uiq, e)
      BY <2>2, <3>1, Zenon
    <3> QED BY <2>l, <3>2
  <2>6. requests' \in Seq(Tokens(n))
    <3>1. /\ SubSeq(requests, 1, k - 1) \in Seq(Tokens(n))
          /\ SubSeq(requests, k + 1, Len(requests)) \in Seq(Tokens(n))
      BY <2>3, <2>l
    <3> QED BY <2>2, <3>1 DEF RemoveAt
  <2>7. Sound(db, synced, n, doubled)
    <3>1. doubled \in SUBSET Mine
      BY <1>s DEF Sound
    <3> QED BY <1>s, <3>1, SoundLater
  <2> QED BY <1>s, <2>1, <2>2, <2>5, <2>6, <2>7 DEF State
<1>6. CASE HandleFetchedMore
  <2>1. /\ UNCHANGED <<db, synced, head, doubled, requests, untold>>
        /\ uiq # <<>> /\ uiq' = Tail(uiq)
    BY <1>6 DEF HandleFetchedMore, server, history
  <2> QED BY <1>s, <1>d, <2>1 DEF State
<1>7. CASE HandleOld
  <2>1. UNCHANGED <<synced, head, untold>>
    BY <1>7 DEF HandleOld, server
  <2> QED BY <1>7, <1>s, <2>1, HandleOldSound DEF State
<1>8. CASE ClearTimeline
  <2>1. /\ UNCHANGED <<synced, head, doubled, requests, uiq>> /\ db' = CacheClearTimeline(db)
        /\ untold' \in Untold
    BY <1>8 DEF ClearTimeline, server, Untold
  <2> QED BY <1>s, <1>d, <2>1, ClearSound DEF State
<1>9. CASE Restart
  <2>1. /\ UNCHANGED <<synced, head, doubled>> /\ db' = DeleteOldMessages(db)
        /\ requests' = <<>> /\ uiq' = <<>> /\ untold' \in Untold
    BY <1>9 DEF Restart, server, Untold
  <2> QED BY <1>s, <1>d, <2>1, DeleteSound
<1>10. CASE SyncFails
  <2>1. UNCHANGED <<requests, uiq>> /\ untold' \in Untold
    BY <1>10, <1>s DEF SyncFails, Untold
  <2> QED BY <1>10, <1>m, <2>1 DEF SyncFails
<1>11. CASE MapFull
  <2>1. UNCHANGED <<requests, uiq>> /\ untold' \in Untold
    BY <1>11 DEF MapFull, Untold
  <2>2. \/ SaveNext(TRUE) \/ SaveLimited(TRUE)
        \/ db' = DeleteOldMessages(db) /\ UNCHANGED <<synced, head, doubled>>
    BY <1>11 DEF MapFull, server
  <2>3. CASE SaveNext(TRUE) \/ SaveLimited(TRUE)
    BY <1>m, <2>1, <2>3
  <2>4. CASE db' = DeleteOldMessages(db) /\ UNCHANGED <<synced, head, doubled>>
    BY <1>s, <1>d, <2>1, <2>4, DeleteSound DEF State
  <2> QED BY <2>2, <2>3, <2>4
<1>12. CASE UNCHANGED vars
  <2>1. UNCHANGED <<db, synced, head, doubled, requests, uiq, untold>>
    BY <1>12 DEF vars, server, history
  <2> QED BY <1>s, <1>d, <2>1 DEF State
<1> QED
  BY <1>1, <1>2, <1>3, <1>4, <1>5, <1>6, <1>7, <1>8, <1>9, <1>10, <1>11, <1>12 DEF Next

\* The inductive invariant holds in every reachable state.
THEOREM AlwaysSound == Spec => []State
BY InitState, StateStep, PTL DEF Spec

----------------------------------------------------------------------------

\* event_order and event2order are inverse.
InverseTables(d) ==
  /\ \A i \in DOMAIN d.order :
       d.order[i].id \in DOMAIN d.evToOrder /\ d.evToOrder[d.order[i].id] = i
  /\ \A id \in DOMAIN d.evToOrder :
       d.evToOrder[id] \in DOMAIN d.order /\ d.order[d.evToOrder[id]].id = id

\* The order tables have no holes from f to l, the oldest entry is no local echo, and
\* of the events up to s they know exactly those after p, but for redactions.
Whole(d, f, l, p, s) ==
  /\ f <= l /\ DOMAIN d.order = f..l
  /\ d.order[f].id > 0
  /\ InverseTables(d)
  /\ \A id \in DOMAIN d.evToOrder : id > 0 => id > p
  /\ \A r \in (p + 1)..s : r \in DOMAIN d.evToOrder \cup Redactions

LEMMA EndsOfInterval ==
  ASSUME NEW t, NEW a \in Int, NEW b \in Int, a <= b, DOMAIN t = a..b
  PROVE  FirstIdx(t) = a /\ LastIdx(t) = b
<1>b. DOMAIN t \subseteq a..b
  OBVIOUS
<1>1. Bounded(t) /\ DOMAIN t # {} /\ a \in DOMAIN t /\ b \in DOMAIN t
  <2>1. Bounded(t)
    BY <1>b DEF Bounded
  <2>2. a \in a..b /\ b \in a..b
    OBVIOUS
  <2> QED BY <2>1, <2>2
<1>2. FirstIdx(t) \in a..b /\ FirstIdx(t) <= a /\ LastIdx(t) \in a..b /\ b <= LastIdx(t)
  BY <1>1, EndsOfTable
<1> QED BY <1>2

\* A new event at an index that is free.
LEMMA InsertInverse ==
  ASSUME NEW d, InverseTables(d), NEW id, NEW tok, NEW idx, NEW midx,
         id \notin DOMAIN d.evToOrder, idx \notin DOMAIN d.order
  PROVE  LET e == Insert(d, id, tok, idx, midx)
         IN  /\ InverseTables(e)
             /\ DOMAIN e.evToOrder = DOMAIN d.evToOrder \cup {id}
             /\ DOMAIN e.order = DOMAIN d.order \cup {idx}
             /\ e.order[idx] = [id |-> id, tok |-> tok]
             /\ \A i \in DOMAIN d.order : e.order[i] = d.order[i]
<1> DEFINE e == Insert(d, id, tok, idx, midx)
<1>1. /\ e.order = Put(d.order, idx, [id |-> id, tok |-> tok])
      /\ e.evToOrder = Put(d.evToOrder, id, idx)
  BY DEF Insert
<1> HIDE DEF e
<1>2. /\ DOMAIN e.evToOrder = DOMAIN d.evToOrder \cup {id} /\ e.evToOrder[id] = idx
      /\ \A x \in DOMAIN d.evToOrder : e.evToOrder[x] = d.evToOrder[x]
  BY <1>1 DEF Put
<1>3. /\ DOMAIN e.order = DOMAIN d.order \cup {idx} /\ e.order[idx] = [id |-> id, tok |-> tok]
      /\ \A i \in DOMAIN d.order : e.order[i] = d.order[i]
  BY <1>1 DEF Put
<1>4. e.order[idx].id = id
  BY <1>3
<1>5. InverseTables(e)
  BY <1>2, <1>3, <1>4 DEF InverseTables
<1> QED BY <1>2, <1>3, <1>5 DEF e

\* A new event at the end.
LEMMA AppendWhole ==
  ASSUME NEW s \in 0..Newest, NEW d, NEW f \in Int, NEW l \in Int, NEW p \in 0..Newest,
         Whole(d, f, l, p, s),
         NEW id \in Events(s), id \notin DOMAIN d.evToOrder, id > 0 => id > p, NEW tok, NEW midx
  PROVE  LET e == Insert(d, id, tok, LastIdx(d.order) + 1, midx)
         IN  Whole(e, f, l + 1, p, s) /\ e.order[f] = d.order[f]
<1> DEFINE idx == LastIdx(d.order) + 1
           e == Insert(d, id, tok, idx, midx)
<1>1. idx = l + 1 /\ idx \notin DOMAIN d.order /\ f \in DOMAIN d.order
  <2>1. LastIdx(d.order) = l
    BY EndsOfInterval DEF Whole
  <2> QED BY <2>1 DEF Whole
<1>j. InverseTables(d)
  BY DEF Whole
<1> HIDE DEF idx
<1>2. /\ InverseTables(e) /\ DOMAIN e.evToOrder = DOMAIN d.evToOrder \cup {id}
      /\ DOMAIN e.order = DOMAIN d.order \cup {idx}
      /\ \A i \in DOMAIN d.order : e.order[i] = d.order[i]
  <2>1. LET x == Insert(d, id, tok, idx, midx)
        IN  /\ InverseTables(x)
            /\ DOMAIN x.evToOrder = DOMAIN d.evToOrder \cup {id}
            /\ DOMAIN x.order = DOMAIN d.order \cup {idx}
            /\ x.order[idx] = [id |-> id, tok |-> tok]
            /\ \A i \in DOMAIN d.order : x.order[i] = d.order[i]
    BY <1>1, <1>j, InsertInverse
  <2> QED BY <2>1
<1> HIDE DEF e
<1>3. DOMAIN e.order = f..(l + 1) /\ f <= l + 1
  BY <1>1, <1>2 DEF Whole
<1>4. e.order[f] = d.order[f]
  BY <1>1, <1>2
<1>5. Whole(e, f, l + 1, p, s)
  BY <1>2, <1>3, <1>4 DEF Whole
<1> QED BY <1>4, <1>5 DEF e, idx

\* The tables e that a sync up to s leaves: whole, and with the oldest entry of d.
Grown(e, d, f, p, s) == (\E m \in Int : Whole(e, f, m, p, s)) /\ e.order[f] = d.order[f]

\* The echo of our own event takes the place of its local echo.
LEMMA EchoInverse ==
  ASSUME NEW d, InverseTables(d), NEW id, id # -id, id \notin DOMAIN d.evToOrder,
         -id \in DOMAIN d.evToOrder, NEW tok
  PROVE  LET e == Echo(d, id, tok)
         IN  /\ InverseTables(e) /\ DOMAIN e.order = DOMAIN d.order
             /\ DOMAIN e.evToOrder = (DOMAIN d.evToOrder \cup {id}) \ {-id}
             /\ \A i \in DOMAIN d.order : d.order[i].id # -id => e.order[i] = d.order[i]
<1> DEFINE e == Echo(d, id, tok)
           idx == d.evToOrder[-id]
<1>1. /\ e.order = Put(d.order, idx, [id |-> id, tok |-> tok])
      /\ e.evToOrder = Del(Put(d.evToOrder, id, idx), {-id})
  BY DEF Echo
<1> HIDE DEF e
<1>3. idx \in DOMAIN d.order /\ d.order[idx].id = -id
  BY DEF InverseTables
<1>i. idx = d.evToOrder[-id]
  OBVIOUS
<1> HIDE DEF idx
<1>5. /\ DOMAIN e.order = DOMAIN d.order /\ e.order[idx] = [id |-> id, tok |-> tok]
      /\ \A i \in DOMAIN d.order : i # idx => e.order[i] = d.order[i]
  BY <1>1, <1>3 DEF Put
<1>6. /\ DOMAIN e.evToOrder = (DOMAIN d.evToOrder \cup {id}) \ {-id}
      /\ e.evToOrder[id] = idx
      /\ \A x \in DOMAIN d.evToOrder : x # -id => e.evToOrder[x] = d.evToOrder[x]
  BY <1>1 DEF Put, Del, Restrict
<1>7. e.order[idx].id = id
  BY <1>5
<1>8. ASSUME NEW i \in DOMAIN e.order
      PROVE  e.order[i].id \in DOMAIN e.evToOrder /\ e.evToOrder[e.order[i].id] = i
  <2>1. CASE i = idx
    BY <1>6, <1>7, <2>1
  <2>2. CASE i # idx
    <3>1. /\ e.order[i] = d.order[i] /\ d.order[i].id \in DOMAIN d.evToOrder
          /\ d.evToOrder[d.order[i].id] = i
      BY <1>5, <2>2 DEF InverseTables
    <3>2. d.order[i].id # -id
      BY <1>i, <2>2, <3>1
    <3> QED BY <1>6, <3>1, <3>2
  <2> QED BY <2>1, <2>2
<1>9. ASSUME NEW x \in DOMAIN e.evToOrder
      PROVE  e.evToOrder[x] \in DOMAIN e.order /\ e.order[e.evToOrder[x]].id = x
  <2>1. CASE x = id
    BY <1>3, <1>5, <1>6, <1>7, <2>1
  <2>2. CASE x # id
    <3>1. /\ x # -id /\ e.evToOrder[x] = d.evToOrder[x] /\ d.evToOrder[x] \in DOMAIN d.order
          /\ d.order[d.evToOrder[x]].id = x
      BY <1>6, <2>2 DEF InverseTables
    <3>2. d.evToOrder[x] # idx
      BY <1>3, <3>1
    <3> QED BY <1>5, <3>1, <3>2
  <2> QED BY <2>1, <2>2
<1>10. InverseTables(e)
  BY <1>8, <1>9 DEF InverseTables
<1>11. \A i \in DOMAIN d.order : d.order[i].id # -id => e.order[i] = d.order[i]
  BY <1>3, <1>5
<1> QED BY <1>5, <1>6, <1>10, <1>11 DEF e

LEMMA EchoWhole ==
  ASSUME NEW id \in 1..Newest, NEW s, s = id - 1, NEW d, Strict(d, s), NEW tok,
         NEW f \in Int, NEW l \in Int, NEW p \in 0..s,
         Whole(d, f, l, p, s), -id \in DOMAIN d.evToOrder
  PROVE  Grown(Echo(d, id, tok), d, f, p, id)
<1> DEFINE e == Echo(d, id, tok)
<1>1. /\ InverseTables(e) /\ DOMAIN e.order = DOMAIN d.order
      /\ DOMAIN e.evToOrder = (DOMAIN d.evToOrder \cup {id}) \ {-id}
      /\ \A i \in DOMAIN d.order : d.order[i].id # -id => e.order[i] = d.order[i]
  <2>1. id \notin DOMAIN d.evToOrder /\ id # -id
    BY NewEvent DEF Strict, Sound, Events
  <2>2. InverseTables(d)
    BY DEF Whole
  <2> QED BY <2>1, <2>2, EchoInverse
<1> HIDE DEF e
<1>2. f \in DOMAIN d.order /\ d.order[f].id # -id
  BY DEF Whole
<1>3. e.order[f] = d.order[f]
  BY <1>1, <1>2
<1>4. ASSUME NEW r \in (p + 1)..id PROVE r \in DOMAIN e.evToOrder \cup Redactions
  <2>1. CASE r = id
    BY <1>1, <2>1
  <2>2. CASE r # id
    <3>1. r \in (p + 1)..(id - 1) /\ r # -id
      BY <2>2
    <3> QED BY <1>1, <3>1 DEF Whole
  <2> QED BY <2>1, <2>2
<1>5. ASSUME NEW x \in DOMAIN e.evToOrder, x > 0 PROVE x > p
  BY <1>1, <1>5 DEF Whole
<1>6. Whole(e, f, l, p, id)
  BY <1>1, <1>3, <1>4, <1>5 DEF Whole
<1> QED BY <1>3, <1>6 DEF e, Grown

LEMMA SaveEventStrict ==
  ASSUME NEW s \in 0..(Newest - 1), NEW a, IsAcc(a), Strict(a.db, s), NEW limited,
         NEW prev \in Tokens(s), NEW id, id = s + 1
  PROVE  LET b == SaveEvent(a, id, limited, prev) IN IsAcc(b) /\ Strict(b.db, id)
<1>1. s \in 0..Newest /\ id \in s..Newest /\ id <= id
  BY Constants
<1>2. Sound(a.db, s, id, {})
  BY <1>1, StrictNext
<1>3. prev \in Tokens(id)
  BY <1>1 DEF Tokens
<1> QED BY <1>1, <1>2, <1>3, SaveEventSound DEF Strict

LEMMA BatchStrict ==
  ASSUME NEW from \in 0..Newest, NEW to \in 0..Newest, from < to, NEW d, Strict(d, from)
  PROVE  Strict(SaveTimelineMessages(d, Positions(from, to), FALSE, from), to)
<1>1. to \in from..Newest /\ to \in to..Newest /\ {} \in SUBSET Mine
  BY Constants
<1>2. Sound(d, from, to, {})
  BY <1>1, StrictNext
<1> QED BY <1>1, <1>2, BatchSound DEF Strict

\* One event of a sync that is not limited.
LEMMA SaveEventWhole ==
  ASSUME NEW s \in 0..(Newest - 1), NEW a, Strict(a.db, s), NEW prev,
         NEW f \in Int, NEW l \in Int, NEW p \in 0..s, Whole(a.db, f, l, p, s),
         NEW id, id = s + 1
  PROVE  Grown(SaveEvent(a, id, FALSE, prev).db, a.db, f, p, id)
<1> DEFINE b == SaveEvent(a, id, FALSE, prev)
           tok == IF a.first THEN prev ELSE NoTok
<1>1. id \in 1..Newest /\ s = id - 1 /\ p \in 0..(id - 1) /\ p \in 0..Newest /\ id \in 0..Newest
  BY Constants
<1>2. CASE id \in Mine /\ -id \in DOMAIN a.db.evToOrder
  <2>1. b.db = Echo(a.db, id, tok)
    BY <1>2 DEF SaveEvent
  <2> HIDE DEF tok, b
  <2>2. Grown(Echo(a.db, id, tok), a.db, f, p, id)
    <3> DEFINE d == a.db
    <3>1. Strict(d, s) /\ Whole(d, f, l, p, s) /\ -id \in DOMAIN d.evToOrder
      BY <1>2
    <3>2. id \in 1..Newest /\ s = id - 1 /\ p \in 0..s
      BY <1>1
    <3> HIDE DEF d
    <3>3. Grown(Echo(d, id, tok), d, f, p, id)
      BY <3>1, <3>2, EchoWhole
    <3> QED BY <3>3 DEF d
  <2> QED BY <2>1, <2>2 DEF b
<1>3. CASE ~(id \in Mine /\ -id \in DOMAIN a.db.evToOrder)
  <2>1. id \notin DOMAIN a.db.evToOrder
    <3>1. DOMAIN a.db.evToOrder \subseteq Events(id - 1)
      BY <1>1 DEF Strict, Sound, Events
    <3> QED BY <1>1, <3>1, NewEvent
  <2>2. CASE id \in Redactions
    <3>1. b = a
      BY <1>3, <2>2 DEF SaveEvent
    <3>2. \A r \in (p + 1)..id : r = id \/ r \in (p + 1)..s
      BY <1>1
    <3>3. Whole(a.db, f, l, p, id)
      BY <2>2, <3>2 DEF Whole
    <3>4. Grown(a.db, a.db, f, p, id)
      BY <3>3 DEF Grown
    <3> QED BY <3>1, <3>4
  <2>3. CASE id \notin Redactions
    <3> DEFINE midx == LastIdx(a.db.order2msg) + 1
               e == Insert(a.db, id, tok, l + 1, midx)
    <3>0. b = [db |-> Insert(a.db, id, tok, LastIdx(a.db.order) + 1, midx), first |-> FALSE]
      BY <1>3, <2>1, <2>3 DEF SaveEvent
    <3>1. b.db = Insert(a.db, id, tok, LastIdx(a.db.order) + 1, midx)
      <4> HIDE DEF b
      <4> QED BY <3>0
    <3>i. l + 1 \notin DOMAIN a.db.order /\ LastIdx(a.db.order) = l /\ f \in DOMAIN a.db.order
      <4>1. f <= l /\ DOMAIN a.db.order = f..l
        BY DEF Whole
      <4>2. LastIdx(a.db.order) = l
        BY <4>1, EndsOfInterval
      <4> QED BY <4>1, <4>2
    <3>j. InverseTables(a.db)
      BY DEF Whole
    <3>k. b.db = e
      BY <3>1, <3>i
    <3> HIDE DEF tok, midx
    <3>2. /\ InverseTables(e) /\ DOMAIN e.evToOrder = DOMAIN a.db.evToOrder \cup {id}
          /\ DOMAIN e.order = DOMAIN a.db.order \cup {l + 1}
          /\ \A i \in DOMAIN a.db.order : e.order[i] = a.db.order[i]
      <4>1. LET x == Insert(a.db, id, tok, l + 1, midx)
            IN  /\ InverseTables(x)
                /\ DOMAIN x.evToOrder = DOMAIN a.db.evToOrder \cup {id}
                /\ DOMAIN x.order = DOMAIN a.db.order \cup {l + 1}
                /\ x.order[l + 1] = [id |-> id, tok |-> tok]
                /\ \A i \in DOMAIN a.db.order : x.order[i] = a.db.order[i]
        BY <2>1, <3>i, <3>j, InsertInverse
      <4> QED BY <4>1
    <3> HIDE DEF e
    <3>3. \A r \in (p + 1)..id : r = id \/ r \in (p + 1)..s
      BY <1>1
    <3>4. DOMAIN e.order = f..(l + 1) /\ f <= l + 1
      BY <3>2 DEF Whole
    <3>5. e.order[f] = a.db.order[f] /\ a.db.order[f].id > 0
      BY <3>2, <3>i DEF Whole
    <3>6. \A r \in (p + 1)..id : r \in DOMAIN e.evToOrder \cup Redactions
      BY <3>2, <3>3 DEF Whole
    <3>7. \A x \in DOMAIN e.evToOrder : x > 0 => x > p
      BY <1>1, <3>2 DEF Whole
    <3>8. Whole(e, f, l + 1, p, id)
      BY <3>2, <3>4, <3>5, <3>6, <3>7 DEF Whole
    <3>9. l + 1 \in Int
      OBVIOUS
    <3> HIDE DEF b
    <3>10. (\E m \in Int : Whole(b.db, f, m, p, id)) /\ b.db.order[f] = a.db.order[f]
      BY <3>k, <3>5, <3>8, <3>9
    <3> QED BY <3>10 DEF b, Grown
  <2> QED BY <2>2, <2>3
<1> QED BY <1>2, <1>3

\* A sync that continues where the last one ended.
LEMMA BatchWhole ==
  ASSUME NEW from \in 0..Newest, NEW to \in 0..Newest, from < to, NEW d, Strict(d, from),
         NEW f \in Int, NEW l \in Int, NEW p \in 0..from, Whole(d, f, l, p, from)
  PROVE  Grown(SaveTimelineMessages(d, Positions(from, to), FALSE, from), d, f, p, to)
<1> DEFINE batch == Positions(from, to)
<1>1. /\ batch \in Seq(Int) /\ Len(batch) = to - from /\ batch # <<>>
      /\ \A n \in 1..(to - from) : batch[n] = from + n
  BY PositionsFacts
<1> HIDE DEF batch
<1>2. PICK acc : BatchRun(acc, d, batch, FALSE, from)
  BY <1>1, BatchSteps
<1> DEFINE S == {n \in 0..(to - from) :
                   /\ IsAcc(acc[n]) /\ Strict(acc[n].db, from + n)
                   /\ \E m \in Int : Whole(acc[n].db, f, m, p, from + n)
                   /\ acc[n].db.order[f] = d.order[f]}
<1>3. 0 \in S
  <2>1. acc[0] = [db |-> d, first |-> TRUE]
    BY <1>2 DEF BatchRun
  <2>2. IsAcc(acc[0]) /\ acc[0].db = d
    BY <2>1 DEF IsAcc
  <2>3. from + 0 = from /\ 0 \in 0..(to - from)
    BY Constants
  <2> QED BY <2>2, <2>3
<1>4. ASSUME NEW n \in 1..(to - from), n - 1 \in S PROVE n \in S
  <2> DEFINE s == from + (n - 1)
             id == s + 1
  <2>1. s \in 0..(Newest - 1) /\ id = from + n /\ n \in 0..(to - from) /\ p \in 0..s
    BY Constants
  <2>2. /\ IsAcc(acc[n - 1]) /\ Strict(acc[n - 1].db, s)
        /\ \E m \in Int : Whole(acc[n - 1].db, f, m, p, s)
        /\ acc[n - 1].db.order[f] = d.order[f]
    BY <1>4
  <2>3. from \in Tokens(s)
    BY Constants DEF Tokens
  <2>4. acc[n] = SaveEvent(acc[n - 1], id, FALSE, from)
    BY <1>1, <1>2, <2>1 DEF BatchRun
  <2>i. id = s + 1
    OBVIOUS
  <2> DEFINE a == acc[n - 1]
  <2>j. Strict(a.db, s)
    BY <2>2
  <2> HIDE DEF s, id
  <2>5. LET b == SaveEvent(acc[n - 1], id, FALSE, from) IN IsAcc(b) /\ Strict(b.db, id)
    BY <2>1, <2>2, <2>3, <2>i, SaveEventStrict
  <2>6. PICK m \in Int : Whole(a.db, f, m, p, s)
    BY <2>2
  <2> HIDE DEF a
  <2>7. Grown(SaveEvent(a, id, FALSE, from).db, a.db, f, p, id)
    <3>1. s \in 0..(Newest - 1)
      BY <2>1
    <3>2. p \in 0..s
      BY <2>1
    <3> HIDE DEF S
    <3> QED BY <3>1, <3>2, <2>j, <2>6, <2>i, SaveEventWhole
  <2>8. /\ IsAcc(acc[n]) /\ Strict(acc[n].db, id)
        /\ \E k \in Int : Whole(acc[n].db, f, k, p, id)
        /\ acc[n].db.order[f] = d.order[f]
    BY <2>2, <2>4, <2>5, <2>7 DEF a, Grown
  <2> QED BY <2>1, <2>8
<1>5. to - from \in S
  <2>1. to - from \in Nat
    BY Constants
  <2> HIDE DEF S
  <2>2. 0..(to - from) \subseteq S
    BY <1>3, <1>4, <2>1, UpTo
  <2> QED BY <2>1, <2>2
<1>6. from + (to - from) = to
  BY Constants
<1>7. SaveTimelineMessages(d, batch, FALSE, from) = acc[to - from].db
  BY <1>1, <1>2 DEF BatchRun
<1>8. Grown(acc[to - from].db, d, f, p, to)
  BY <1>5, <1>6 DEF Grown
<1> QED BY <1>7, <1>8 DEF batch

\* A local echo goes to the end.
LEMMA PendingWhole ==
  ASSUME NEW s \in 0..Newest, NEW d, Strict(d, s), NEW q \in Mine, q > s,
         -q \notin DOMAIN d.evToOrder,
         NEW f \in Int, NEW l \in Int, NEW p \in 0..s, Whole(d, f, l, p, s)
  PROVE  Grown(SaveTimelineMessages(d, <<-q>>, FALSE, NoTok), d, f, p, s)
<1> DEFINE id == -q
           midx == LastIdx(d.order2msg) + 1
           e == Insert(d, id, NoTok, LastIdx(d.order) + 1, midx)
<1>1. id \in Events(s) /\ ~(id > 0) /\ p \in 0..Newest /\ l + 1 \in Int
  BY Constants DEF Events, Known
<1>2. SaveTimelineMessages(d, <<-q>>, FALSE, NoTok) = e
  BY PendingInsert
<1> HIDE DEF id, midx
<1>i. id \notin DOMAIN d.evToOrder
  BY DEF id
<1>3. LET x == Insert(d, id, NoTok, LastIdx(d.order) + 1, midx)
      IN  Whole(x, f, l + 1, p, s) /\ x.order[f] = d.order[f]
  BY <1>1, <1>i, AppendWhole
<1>4. Whole(e, f, l + 1, p, s) /\ e.order[f] = d.order[f]
  BY <1>3
<1> HIDE DEF e
<1> QED BY <1>1, <1>2, <1>4 DEF Grown

\* The loop over a page down to event q + 1 has left c from the tables d.
Loaded(c, d, chunk, l, q, s) ==
  /\ Strict(c.db, s)
  /\ \E g \in Int : /\ Whole(c.db, g, l, q, s)
                    /\ c.last # NoEvent => c.db.order[g].id = c.last
  /\ c.last = NoEvent => c.db = d /\ \A k \in 1..Len(chunk) : chunk[k] \in Redactions

\* A page of the homeserver goes to the front: below the position p of the token, n events.
LEMMA ChunkWhole ==
  ASSUME NEW s \in 0..Newest, NEW d, Strict(d, s), NEW f \in Int, NEW l \in Int, NEW p \in 0..s,
         Whole(d, f, l, p, s), NEW n \in 0..p, NEW chunk, chunk = [k \in 1..n |-> p - k + 1]
  PROVE  Loaded(SaveChunk(d, chunk), d, chunk, l, p - n, s)
<1>1. chunk \in Seq(1..s) /\ chunk \in Seq(Int) /\ Len(chunk) = n
  <2>1. chunk \in [1..n -> 1..s] /\ chunk \in [1..n -> Int] /\ n \in Nat
    BY Constants
  <2> QED BY <2>1
<1>2. PICK acc : ChunkRun(acc, d, chunk)
  BY <1>1, ChunkSteps
<1> DEFINE Good(k) ==
             /\ Strict(acc[k].db, s)
             /\ \E g \in Int :
                  /\ Whole(acc[k].db, g, l, p - k, s)
                  /\ acc[k].last # NoEvent => acc[k].db.order[g].id = acc[k].last
             /\ acc[k].last = NoEvent =>
                  acc[k].db = d /\ \A j \in 1..k : chunk[j] \in Redactions
           S == {k \in 0..n : Good(k)}
<1>3. 0 \in S
  <2>1. acc[0].db = d /\ acc[0].last = NoEvent
    BY <1>2 DEF ChunkRun
  <2>2. p - 0 = p /\ 0 \in 0..n
    OBVIOUS
  <2> QED BY <2>1, <2>2
<1>4. ASSUME NEW k \in 1..n, k - 1 \in S PROVE k \in S
  <2>1. Good(k - 1) /\ k \in 0..n
    <3> HIDE DEF Good
    <3> QED BY <1>4
  <2> DEFINE a == acc[k - 1]
             id == chunk[k]
             q == p - (k - 1)
  <2>2. /\ id = p - k + 1 /\ id \in 1..s /\ id = q /\ q - 1 = p - k
        /\ q \in 0..Newest /\ id \in Events(s)
    BY Constants DEF Events, Known
  <2>3. acc[k] = ChunkStep(a, id)
    BY <1>1, <1>2 DEF ChunkRun
  <2>4. PICK g \in Int : /\ Whole(a.db, g, l, q, s)
                         /\ a.last # NoEvent => a.db.order[g].id = a.last
    BY <2>1
  <2>5. id \notin DOMAIN a.db.evToOrder
    BY <2>2, <2>4, Constants DEF Whole
  <2>6. \A j \in 1..k : j = k \/ j \in 1..(k - 1)
    OBVIOUS
  <2>7. \A r \in (q - 1 + 1)..s : r = id \/ r \in (q + 1)..s
    BY <2>2
  <2>x. ASSUME NEW x \in DOMAIN a.db.evToOrder, x > 0 PROVE x > q - 1
    <3>1. x > q /\ x \in Int
      BY <2>1, <2>4, <2>x, Constants DEF Whole, Strict, Sound, Known
    <3> QED BY <2>2, <3>1
  <2>y. Strict(a.db, s)
    BY <2>1
  <2>8. CASE id \in Redactions
    <3>1. acc[k] = a
      BY <2>3, <2>8 DEF ChunkStep
    <3>2. Whole(a.db, g, l, q - 1, s)
      <4>1. \A r \in (q - 1 + 1)..s : r \in DOMAIN a.db.evToOrder \cup Redactions
        BY <2>4, <2>7, <2>8 DEF Whole
      <4>2. \A x \in DOMAIN a.db.evToOrder : x > 0 => x > q - 1
        BY <2>x
      <4> HIDE DEF a, q
      <4> QED BY <2>4, <4>1, <4>2 DEF Whole
    <3>3. acc[k].last = NoEvent =>
            acc[k].db = d /\ \A j \in 1..k : chunk[j] \in Redactions
      BY <2>1, <2>6, <2>8, <3>1
    <3>4. Strict(acc[k].db, s)
      BY <2>1, <3>1
    <3>5. /\ Whole(acc[k].db, g, l, p - k, s)
          /\ acc[k].last # NoEvent => acc[k].db.order[g].id = acc[k].last
      BY <2>2, <2>4, <3>1, <3>2
    <3> QED BY <2>1, <3>3, <3>4, <3>5
  <2>9. CASE id \notin Redactions
    <3> DEFINE midx == FirstIdx(a.db.order2msg) - 1
               e == Insert(a.db, id, NoTok, g - 1, midx)
    <3>1. g <= l /\ DOMAIN a.db.order = g..l /\ InverseTables(a.db)
      BY <2>4 DEF Whole
    <3>2. FirstIdx(a.db.order) = g
      BY <3>1, EndsOfInterval
    <3>3. g - 1 \notin DOMAIN a.db.order
      BY <3>1
    <3>4. SaveOldEvent(a.db, id) = e
      BY <2>5, <3>2 DEF SaveOldEvent
    <3>5. acc[k].db = e /\ acc[k].last = id
      BY <2>3, <2>9, <3>4 DEF ChunkStep
    <3>6. Strict(acc[k].db, s)
      <4>1. -id \notin DOMAIN a.db.evToOrder
        BY <2>1, <2>2, EventFacts DEF Strict, Sound, Events
      <4> DEFINE c == a.db
      <4>2. Sound(c, s, s, {}) /\ id \in 1..s
        BY <2>1, <2>2 DEF Strict
      <4> HIDE DEF c, id
      <4>3. Sound(SaveOldEvent(c, id), s, s, {})
        BY <4>1, <4>2, SaveOldEventSound DEF c
      <4> QED BY <3>4, <3>5, <4>3 DEF c, Strict
    <3> HIDE DEF midx, id, a, q
    <3>7. LET x == Insert(a.db, id, NoTok, g - 1, midx)
          IN  /\ InverseTables(x)
              /\ DOMAIN x.evToOrder = DOMAIN a.db.evToOrder \cup {id}
              /\ DOMAIN x.order = DOMAIN a.db.order \cup {g - 1}
              /\ x.order[g - 1] = [id |-> id, tok |-> NoTok]
              /\ \A i \in DOMAIN a.db.order : x.order[i] = a.db.order[i]
      BY <2>5, <3>1, <3>3, InsertInverse
    <3>8. /\ InverseTables(e) /\ DOMAIN e.evToOrder = DOMAIN a.db.evToOrder \cup {id}
          /\ DOMAIN e.order = DOMAIN a.db.order \cup {g - 1}
          /\ e.order[g - 1].id = id
      BY <3>7
    <3> HIDE DEF e
    <3>9. DOMAIN e.order = (g - 1)..l /\ g - 1 <= l
      <4>1. (g..l) \cup {g - 1} = (g - 1)..l /\ g - 1 <= l
        BY <3>1
      <4> QED BY <3>1, <3>8, <4>1
    <3>10. \A r \in (q - 1 + 1)..s : r \in DOMAIN e.evToOrder \cup Redactions
      BY <2>4, <2>7, <3>8 DEF Whole
    <3>11. \A x \in DOMAIN e.evToOrder : x > 0 => x > q - 1
      <4>1. ASSUME NEW x \in DOMAIN e.evToOrder, x > 0 PROVE x > q - 1
        <5>1. CASE x = id
          BY <2>2, <5>1
        <5>2. CASE x # id
          <6>1. x \in DOMAIN a.db.evToOrder
            BY <3>8, <5>2
          <6> QED BY <2>x, <4>1, <6>1
        <5> QED BY <5>1, <5>2
      <4> QED BY <4>1
    <3>i. e.order[g - 1].id > 0
      BY <2>2, <3>8
    <3>12. Whole(e, g - 1, l, q - 1, s)
      BY <3>i, <3>8, <3>9, <3>10, <3>11 DEF Whole
    <3>13. id # NoEvent /\ g - 1 \in Int
      BY <2>2 DEF NoEvent
    <3>14. Good(k)
      BY <2>2, <3>5, <3>6, <3>8, <3>12, <3>13
    <3> QED BY <2>1, <3>14
  <2> QED BY <2>8, <2>9
<1>5. Good(n)
  <2> HIDE DEF S
  <2>1. n \in Nat /\ n \in 0..n
    BY Constants
  <2>2. 0..n \subseteq S
    BY <1>3, <1>4, <2>1, UpTo
  <2>3. n \in S
    BY <2>1, <2>2
  <2> QED BY <2>3 DEF S
<1>6. SaveChunk(d, chunk) = acc[n]
  BY <1>1, <1>2 DEF ChunkRun
<1> QED BY <1>1, <1>5, <1>6 DEF Loaded

\* The page for a token above the beginning of the room.
LEMMA PageFacts ==
  ASSUME NEW p \in 1..Newest, NEW s
  PROVE  \E n \in 1..p : Messages(p, s) = [chunk |-> [k \in 1..n |-> p - k + 1], end |-> p - n]
<1> DEFINE n == IF p < ChunkSize THEN p ELSE ChunkSize
<1>1. p # NoTok /\ p # 0 /\ p \in Nat
  BY EmptyAssumption, Constants
<1>2. n \in 1..p
  BY <1>1, Constants
<1>3. Messages(p, s) = [chunk |-> [k \in 1..n |-> p - k + 1], end |-> p - n]
  BY <1>1 DEF Messages
<1> HIDE DEF n
<1> QED BY <1>2, <1>3

\* The tables go down to position q, and the oldest entry holds the token for it.
Fronted(new, l, q, s) == \E g \in Int : Whole(new, g, l, q, s) /\ new.order[g].tok = q

\* That page, stored.
LEMMA SaveOldWhole ==
  ASSUME NEW s \in 0..Newest, NEW d, Strict(d, s), NEW f \in Int, NEW l \in Int, NEW p \in 0..s,
         Whole(d, f, l, p, s), NEW n \in 1..p, NEW chunk, chunk = [k \in 1..n |-> p - k + 1]
  PROVE  Fronted(SaveOldMessages(d, chunk, p - n), l, p - n, s)
<1> DEFINE c == SaveChunk(d, chunk)
           end == p - n
           new == SaveOldMessages(d, chunk, end)
<1>0. n \in 0..p
  OBVIOUS
<1>1. Loaded(c, d, chunk, l, end, s)
  BY <1>0, ChunkWhole
<1>2. chunk # <<>> /\ Len(chunk) = n /\ chunk[n] = end + 1 /\ end \in 0..Newest /\ n \in 1..n
  BY Constants
<1> HIDE DEF c, end
<1>3. PICK g \in Int : /\ Whole(c.db, g, l, end, s)
                       /\ c.last # NoEvent => c.db.order[g].id = c.last
  BY <1>1 DEF Loaded
<1>4. g <= l /\ DOMAIN c.db.order = g..l /\ g \in DOMAIN c.db.order /\ FirstIdx(c.db.order) = g
  <2>1. g <= l /\ DOMAIN c.db.order = g..l
    BY <1>3 DEF Whole
  <2>2. FirstIdx(c.db.order) = g
    BY <2>1, EndsOfInterval
  <2>3. g \in g..l
    BY <2>1
  <2> QED BY <2>1, <2>2, <2>3
<1>5. CASE c.last = NoEvent
  <2> DEFINE id == Last(chunk)
             e == Insert(d, id, end, g - 1, 0)
  <2>1. id = end + 1 /\ id \in Redactions
    BY <1>1, <1>2, <1>5 DEF Last, Loaded
  <2>2. c.db = d
    BY <1>1, <1>5 DEF Loaded
  <2>3. new = e
    BY <1>2, <1>4, <1>5 DEF SaveOldMessages, c, end
  <2>4. InverseTables(d) /\ g - 1 \notin DOMAIN d.order /\ g - 1 \in Int
    BY <1>3, <1>4, <2>2 DEF Whole
  <2>5. id \notin DOMAIN d.evToOrder
    <3>1. end + 1 = p - (n - 1) /\ end + 1 <= p /\ end + 1 > 0
      BY Constants DEF end
    <3> QED BY <2>1, <3>1, Constants DEF Whole
  <2> HIDE DEF id
  <2>6. LET x == Insert(d, id, end, g - 1, 0)
        IN  /\ InverseTables(x)
            /\ DOMAIN x.evToOrder = DOMAIN d.evToOrder \cup {id}
            /\ DOMAIN x.order = DOMAIN d.order \cup {g - 1}
            /\ x.order[g - 1] = [id |-> id, tok |-> end]
            /\ \A i \in DOMAIN d.order : x.order[i] = d.order[i]
    BY <2>4, <2>5, InsertInverse
  <2>7. /\ InverseTables(e) /\ DOMAIN e.evToOrder = DOMAIN d.evToOrder \cup {id}
        /\ DOMAIN e.order = DOMAIN d.order \cup {g - 1}
        /\ e.order[g - 1].id = id /\ e.order[g - 1].tok = end
    BY <2>6
  <2> HIDE DEF e
  <2>8. DOMAIN e.order = (g - 1)..l /\ g - 1 <= l
    <3>1. (g..l) \cup {g - 1} = (g - 1)..l /\ g - 1 <= l
      BY <1>4
    <3> QED BY <1>4, <2>2, <2>7, <3>1
  <2>9. \A x \in DOMAIN e.evToOrder : x > 0 => x > end
    BY <1>2, <1>3, <2>1, <2>2, <2>7 DEF Whole
  <2>10. \A r \in (end + 1)..s : r \in DOMAIN e.evToOrder \cup Redactions
    BY <1>3, <2>2, <2>7 DEF Whole
  <2>11. e.order[g - 1].id > 0
    BY <1>2, <2>1, <2>7
  <2>12. Whole(e, g - 1, l, end, s)
    BY <2>7, <2>8, <2>9, <2>10, <2>11 DEF Whole
  <2>13. \E h \in Int : Whole(e, h, l, end, s) /\ e.order[h].tok = end
    BY <2>4, <2>7, <2>12
  <2> HIDE DEF new
  <2>14. \E h \in Int : Whole(new, h, l, end, s) /\ new.order[h].tok = end
    BY <2>3, <2>13
  <2> QED BY <2>14 DEF Fronted, new, end
<1>6. CASE c.last # NoEvent
  <2> DEFINE b == c.db
             entry == [id |-> c.last, tok |-> end]
             e == [b EXCEPT !.order = Put(@, g, entry)]
  <2>1. new = e
    BY <1>2, <1>4, <1>6 DEF SaveOldMessages, c, end
  <2>2. IsDb(b) /\ b.order[g].id = c.last /\ Whole(b, g, l, end, s)
    BY <1>1, <1>3, <1>6 DEF Strict, Sound, Loaded
  <2> HIDE DEF b
  <2>3. e.order = Put(b.order, g, entry) /\ e.evToOrder = b.evToOrder
    BY <2>2 DEF IsDb
  <2> HIDE DEF e
  <2>4. /\ DOMAIN e.order = DOMAIN b.order
        /\ \A i \in DOMAIN b.order : e.order[i].id = b.order[i].id
        /\ e.order[g].tok = end
    BY <1>4, <2>2, <2>3 DEF Put, b
  <2>5. InverseTables(e)
    BY <2>2, <2>3, <2>4 DEF InverseTables, Whole
  <2>6. e.order[g].id > 0
    BY <1>4, <2>2, <2>4 DEF Whole, b
  <2>7. Whole(e, g, l, end, s)
    BY <2>2, <2>3, <2>4, <2>5, <2>6 DEF Whole
  <2> HIDE DEF new
  <2>8. \E h \in Int : Whole(new, h, l, end, s) /\ new.order[h].tok = end
    BY <2>1, <2>4, <2>7
  <2> QED BY <2>8 DEF Fronted, new, end
<1> QED BY <1>5, <1>6

----------------------------------------------------------------------------

\* An event and its local echo are never both known, so a room of Newest events has no
\* more than Newest entries.
LEMMA NeverMore ==
  ASSUME NEW s \in 0..Newest, NEW a \in Int, NEW b \in Int, a <= b, NEW g \in [a..b -> Events(s)],
         \A i, j \in a..b : g[i] = g[j] => i = j
  PROVE  b - a < Newest
<1> DEFINE h == [i \in a..b |-> IF g[i] > 0 THEN g[i] ELSE -g[i]]
<1>1. \A i \in a..b : g[i] \in Events(s) /\ g[i] \in Int
  BY Constants DEF Events, Known
<1>2. ASSUME NEW x \in Events(s) PROVE (IF x > 0 THEN x ELSE -x) \in 1..Newest
  BY Constants DEF Events, Known
<1>3. h \in [a..b -> 1..Newest]
  BY <1>1, <1>2
<1>4. ASSUME NEW i \in a..b, NEW j \in a..b, h[i] = h[j] PROVE i = j
  <2> DEFINE x == g[i]
             y == g[j]
  <2>1. /\ x \in Events(s) /\ y \in Events(s) /\ x \in Int /\ y \in Int
        /\ (IF x > 0 THEN x ELSE -x) = (IF y > 0 THEN y ELSE -y)
    BY <1>1, <1>4
  <2>2. -y \notin Events(s)
    BY <2>1, EventFacts
  <2>3. x = y
    <3> HIDE DEF x, y
    <3>1. x = y \/ x = -y
      BY <2>1
    <3> QED BY <2>1, <2>2, <3>1
  <2> QED BY <2>3
<1> HIDE DEF h
<1>5. h \in Injection(a..b, 1..Newest)
  BY <1>3, <1>4, Fun_IsInj
<1>6. /\ IsFiniteSet(1..Newest) /\ Cardinality(1..Newest) = Newest
      /\ Cardinality(a..b) = b - a + 1
  <2>1. Newest \in Int /\ 1 \in Int /\ ~(1 > Newest) /\ Newest - 1 + 1 = Newest
    BY Constants
  <2>2. /\ IsFiniteSet(1..Newest)
        /\ Cardinality(1..Newest) = IF 1 > Newest THEN 0 ELSE Newest - 1 + 1
    BY <2>1, FS_Interval
  <2>3. Cardinality(a..b) = IF a > b THEN 0 ELSE b - a + 1
    BY FS_Interval
  <2> QED BY <2>1, <2>2, <2>3
<1>7. Cardinality(a..b) <= Cardinality(1..Newest)
  BY <1>5, <1>6, FS_Injection
<1> QED BY <1>6, <1>7, Constants

\* A restart that keeps as many events as the room has trims nothing.
LEMMA NoTrim ==
  ASSUME NEW s \in 0..Newest, NEW d, Strict(d, s), NEW f \in Int, NEW l \in Int, NEW p,
         Whole(d, f, l, p, s), MaxRestored >= Newest
  PROVE  DeleteOldMessages(d) = d
<1>1. f <= l /\ DOMAIN d.order = f..l /\ FirstIdx(d.order) = f /\ LastIdx(d.order) = l
  <2>1. f <= l /\ DOMAIN d.order = f..l
    BY DEF Whole
  <2> QED BY <2>1, EndsOfInterval
<1> DEFINE g == [i \in f..l |-> d.order[i].id]
<1>2. g \in [f..l -> Events(s)]
  BY <1>1 DEF Whole, InverseTables, Strict, Sound, Events
<1>3. \A i, j \in f..l : g[i] = g[j] => i = j
  <2>1. \A i \in f..l : d.evToOrder[g[i]] = i
    BY <1>1 DEF Whole, InverseTables
  <2> HIDE DEF g
  <2> QED BY <2>1
<1> HIDE DEF g
<1>4. l - f < Newest
  BY <1>1, <1>2, <1>3, NeverMore
<1>5. l - f < MaxRestored
  BY <1>4, Constants
<1> QED BY <1>1, <1>5 DEF DeleteOldMessages

\* No limited sync, no clear and no trim has come yet.
Undisturbed ==
  /\ limits = 0 /\ clears = 0
  /\ MaxRestored >= Newest \/ (restarts = 0 /\ fulls = 0)

\* At most one request or answer is under way, for the token t of the oldest entry.
Asked(t) ==
  \/ requests = <<>> /\ uiq = <<>>
  \/ paginating /\ requests = <<t>> /\ uiq = <<>>
  \/ paginating /\ requests = <<>> /\ uiq = <<[kind |-> "fetchedMore"]>>
  \/ paginating /\ requests = <<>> /\ uiq = <<[kind |-> "old", res |-> Messages(t, 0)]>>

\* The timeline of a room without disturbances: the tables are whole down to the token
\* of their oldest entry, and no page has brought an event that the syncs did not.
CalmAt(f, l, t) ==
  /\ Strict(db, synced) /\ doubled = {}
  /\ Whole(db, f, l, t, synced) /\ db.order[f].tok = t
  /\ noMore => t = 0
  /\ Asked(t)

Calm == \E f, l \in Int, t \in 0..synced : CalmAt(f, l, t)

Counters == {limits, clears, restarts, failures, fulls} \subseteq Nat

\* The inductive invariant of such a room.
Steady == Counters /\ (Undisturbed => Calm)

\* Without a token nothing but a limited sync makes the answer depend on the position.
LEMMA MessagesAt ==
  ASSUME NEW t \in 0..Newest, NEW s, NEW r
  PROVE  Messages(t, s) = Messages(t, r)
BY EmptyAssumption DEF Messages

LEMMA PrevTokenAt ==
  ASSUME NEW d, NEW f \in Int, NEW l \in Int, NEW p, NEW s, Whole(d, f, l, p, s)
  PROVE  PrevToken(d) = d.order[f].tok
<1>1. f <= l /\ DOMAIN d.order = f..l /\ f \in f..l
  BY DEF Whole
<1>2. FirstIdx(d.order) = f
  BY <1>1, EndsOfInterval
<1> QED BY <1>1, <1>2 DEF PrevToken

LEMMA InitSteady == Init => Steady
<1> SUFFICES ASSUME Init PROVE Steady
  OBVIOUS
<1>1. limits = 0 /\ clears = 0 /\ restarts = 0 /\ failures = 0 /\ fulls = 0
  BY DEF Init
<1> DEFINE batch == <<Start>>
           t == Start - 1
           e == [id |-> Start, tok |-> t]
           midx == LastIdx(EmptyDb.order2msg) + 1
<1>2. PICK acc : BatchRun(acc, EmptyDb, batch, TRUE, t)
  <2>1. batch \in Seq(Int) /\ batch # <<>>
    BY Constants
  <2> HIDE DEF batch, t
  <2> QED BY <2>1, BatchSteps
<1>3. /\ db = acc[1].db /\ acc[0] = [db |-> EmptyDb, first |-> TRUE]
      /\ acc[1] = SaveEvent(acc[0], Start, TRUE, t)
  <2>1. Len(batch) = 1 /\ batch[1] = Start /\ 1 \in 1..1 /\ 1 - 1 = 0
    OBVIOUS
  <2>2. db = SaveTimelineMessages(EmptyDb, batch, TRUE, t)
    BY DEF Init
  <2> HIDE DEF batch, t
  <2> QED BY <1>2, <2>1, <2>2 DEF BatchRun
<1>4. DOMAIN EmptyDb.evToOrder = {} /\ DOMAIN EmptyDb.order = {} /\ LastIdx(EmptyDb.order) + 1 = 1
  BY DEF EmptyDb, NoRows, LastIdx
<1>5. acc[1] = [db |-> Insert(EmptyDb, Start, t, LastIdx(EmptyDb.order) + 1, midx), first |-> FALSE]
  BY <1>3, <1>4 DEF SaveEvent
<1> HIDE DEF midx, t
<1>6. db = Insert(EmptyDb, Start, t, 1, midx)
  <2>1. acc[1].db = Insert(EmptyDb, Start, t, LastIdx(EmptyDb.order) + 1, midx)
    BY <1>5
  <2> QED BY <1>3, <1>4, <2>1, Zenon
<1>7. /\ InverseTables(EmptyDb) /\ Start \notin DOMAIN EmptyDb.evToOrder
      /\ 1 \notin DOMAIN EmptyDb.order
  BY <1>4 DEF InverseTables
<1>8. LET x == Insert(EmptyDb, Start, t, 1, midx)
      IN  /\ InverseTables(x)
          /\ DOMAIN x.evToOrder = DOMAIN EmptyDb.evToOrder \cup {Start}
          /\ DOMAIN x.order = DOMAIN EmptyDb.order \cup {1}
          /\ x.order[1] = [id |-> Start, tok |-> t]
          /\ \A i \in DOMAIN EmptyDb.order : x.order[i] = EmptyDb.order[i]
  BY <1>7, InsertInverse
<1>9. /\ InverseTables(db) /\ DOMAIN db.evToOrder = {Start} /\ DOMAIN db.order = 1..1
      /\ db.order[1].id = Start /\ db.order[1].tok = t
  BY <1>4, <1>6, <1>8
<1>10. t \in 0..Start /\ t + 1 = Start /\ Start > t /\ Start > 0
  BY Constants DEF t
<1>11. Whole(db, 1, 1, t, Start)
  BY <1>9, <1>10, Constants DEF Whole
<1>i. State /\ synced = Start /\ head = Start /\ doubled = {}
  BY InitState DEF Init
<1>s. Strict(db, synced)
  BY <1>i DEF State, Strict
<1>12. CalmAt(1, 1, t)
  BY <1>9, <1>11, <1>i, <1>s DEF Init, CalmAt, Asked
<1>13. Calm
  BY <1>10, <1>12 DEF Calm, Init
<1> QED BY <1>1, <1>13 DEF Steady, Counters

LEMMA ListIsSeq ==
  ASSUME NEW S, NEW n \in Nat, NEW list \in [1..n -> S]
  PROVE  list \in Seq(S)
OBVIOUS

\* The counters only grow.
LEMMA CounterSteps ==
  ASSUME [Next]_vars
  PROVE  /\ limits' = limits \/ limits' = limits + 1
         /\ clears' = clears \/ clears' = clears + 1
         /\ restarts' = restarts \/ restarts' = restarts + 1
         /\ failures' = failures \/ failures' = failures + 1
         /\ fulls' = fulls \/ fulls' = fulls + 1
         /\ \A full \in BOOLEAN : SaveLimited(full) => limits' = limits + 1
         /\ SyncLimited => limits' = limits + 1
         /\ ClearTimeline => clears' = clears + 1
         /\ Restart => restarts' = restarts + 1 /\ UNCHANGED <<limits, clears, failures, fulls>>
         /\ MapFull => fulls' = fulls + 1 /\ UNCHANGED <<clears, restarts, failures>>
<1>1. \A full \in BOOLEAN : SaveLimited(full) => limits' = limits + 1
  BY DEF SaveLimited
<1>2. \A full \in BOOLEAN : SaveNext(full) => limits' = limits
  BY DEF SaveNext
<1>3. TRUE \in BOOLEAN /\ FALSE \in BOOLEAN
  OBVIOUS
<1> DEFINE Grows == /\ limits' = limits \/ limits' = limits + 1
                    /\ clears' = clears \/ clears' = clears + 1
                    /\ restarts' = restarts \/ restarts' = restarts + 1
                    /\ failures' = failures \/ failures' = failures + 1
                    /\ fulls' = fulls \/ fulls' = fulls + 1
<1>4. SyncLimited => limits' = limits + 1
  BY <1>1, <1>3 DEF SyncLimited
<1>5. ClearTimeline => clears' = clears + 1
  BY DEF ClearTimeline
<1>6. Restart => restarts' = restarts + 1 /\ UNCHANGED <<limits, clears, failures, fulls>>
  BY DEF Restart
<1>7. MapFull => fulls' = fulls + 1 /\ UNCHANGED <<clears, restarts, failures>>
  BY DEF MapFull
<1>8. Grows
  <2>1. CASE Sync \/ SyncLimited
    BY <1>1, <1>2, <1>3, <2>1, Zenon DEF Sync, SyncLimited
  <2>2. CASE SyncFails
    <3>1. /\ failures' = failures + 1 /\ UNCHANGED <<clears, restarts, fulls>>
          /\ SaveNext(FALSE) \/ SaveLimited(FALSE)
      BY <2>2 DEF SyncFails
    <3>2. limits' = limits \/ limits' = limits + 1
      BY <1>1, <1>2, <1>3, <3>1, Zenon
    <3> QED BY <3>1, <3>2
  <2>3. CASE MapFull
    <3>1. SaveNext(TRUE) \/ SaveLimited(TRUE) \/ UNCHANGED limits
      BY <2>3 DEF MapFull
    <3>2. limits' = limits \/ limits' = limits + 1
      BY <1>1, <1>2, <1>3, <3>1, Zenon
    <3> QED BY <1>7, <2>3, <3>2
  <2>4. CASE AddPending \/ FetchMore \/ Response \/ HandleFetchedMore \/ HandleOld
    <3>1. UNCHANGED bounds
      BY <2>4, Zenon DEF AddPending, FetchMore, Response, HandleFetchedMore, HandleOld
    <3> QED BY <3>1 DEF bounds
  <2>5. CASE ClearTimeline
    BY <2>5 DEF ClearTimeline
  <2>6. CASE Restart
    BY <2>6 DEF Restart
  <2>7. CASE UNCHANGED vars
    BY <2>7 DEF vars, bounds
  <2> HIDE DEF Grows
  <2> QED BY <2>1, <2>2, <2>3, <2>4, <2>5, <2>6, <2>7 DEF Next
<1> QED BY <1>1, <1>4, <1>5, <1>6, <1>7, <1>8

\* A disturbance is never undone.
LEMMA UndisturbedBefore ==
  ASSUME State, Counters, [Next]_vars
  PROVE  /\ Counters' /\ (Undisturbed' => Undisturbed)
         /\ SyncLimited \/ SaveLimited(TRUE) \/ SaveLimited(FALSE) \/ ClearTimeline => ~Undisturbed'
         /\ Undisturbed' /\ (Restart \/ MapFull) => MaxRestored >= Newest
<1>1. /\ limits \in Nat /\ clears \in Nat /\ restarts \in Nat /\ failures \in Nat /\ fulls \in Nat
      /\ TRUE \in BOOLEAN /\ FALSE \in BOOLEAN
  BY DEF Counters
<1>2. Counters'
  BY <1>1, CounterSteps DEF Counters
<1>3. Undisturbed' => Undisturbed
  BY <1>1, CounterSteps DEF Undisturbed
<1>4. SyncLimited \/ SaveLimited(TRUE) \/ SaveLimited(FALSE) => limits' = limits + 1
  BY <1>1, CounterSteps
<1>5. ClearTimeline => clears' = clears + 1
  BY CounterSteps
<1>6. SyncLimited \/ SaveLimited(TRUE) \/ SaveLimited(FALSE) \/ ClearTimeline => ~Undisturbed'
  <2>1. Undisturbed' => limits' = 0 /\ clears' = 0
    BY DEF Undisturbed
  <2>2. limits + 1 # 0 /\ clears + 1 # 0
    BY <1>1
  <2> QED BY <1>4, <1>5, <2>1, <2>2
<1>7. Restart \/ MapFull => restarts' # 0 \/ fulls' # 0
  BY <1>1, CounterSteps
<1> QED BY <1>2, <1>3, <1>6, <1>7 DEF Undisturbed

LEMMA SteadyStep == State /\ Steady /\ [Next]_vars => Steady'
<1> SUFFICES ASSUME State, Steady, [Next]_vars, Undisturbed' PROVE Calm'
  BY UndisturbedBefore DEF Steady
<1>0. /\ Undisturbed /\ ~SyncLimited /\ ~SaveLimited(TRUE) /\ ~SaveLimited(FALSE) /\ ~ClearTimeline
      /\ Restart \/ MapFull => MaxRestored >= Newest
  BY UndisturbedBefore DEF Steady
<1>c. PICK f \in Int, l \in Int, t \in 0..synced : CalmAt(f, l, t)
  BY <1>0 DEF Steady, Calm
<1>s. /\ synced \in 0..Newest /\ Strict(db, synced) /\ doubled = {}
      /\ head \in synced..Newest
  BY <1>c, Constants DEF State, Sound, CalmAt
<1>w. Whole(db, f, l, t, synced) /\ db.order[f].tok = t
  BY <1>c DEF CalmAt
<1>n. noMore => t = 0
  BY <1>c DEF CalmAt
<1>z. t \in 0..Newest /\ t # NoTok
  BY <1>s, EmptyAssumption, Constants
<1>p. PrevToken(db) = t
  BY <1>w, PrevTokenAt
<1>a. Asked(t)
  BY <1>c DEF CalmAt
\* The tables grow, and nothing else but the window changes.
<1>g. ASSUME NEW s \in synced..Newest, synced' = s, Grown(db', db, f, t, s), Strict(db', s),
             noMore' => noMore, UNCHANGED <<requests, uiq, paginating, doubled>>
      PROVE  Calm'
  <2>1. PICK m \in Int : Whole(db', f, m, t, s)
    BY <1>g DEF Grown
  <2>2. db'.order[f].tok = t
    BY <1>w, <1>g DEF Grown
  <2>3. Asked(t)'
    BY <1>a, <1>g DEF Asked
  <2>4. CalmAt(f, m, t)'
    BY <1>n, <1>s, <1>g, <2>1, <2>2, <2>3 DEF CalmAt
  <2>5. t \in 0..synced'
    BY <1>s, <1>g
  <2> QED BY <2>4, <2>5 DEF Calm
\* The tables stay, and the requests change.
<1>u. ASSUME UNCHANGED <<db, synced, doubled>>, noMore' => t = 0, Asked(t)'
      PROVE  Calm'
  <2>1. CalmAt(f, l, t)'
    BY <1>s, <1>w, <1>u DEF CalmAt
  <2>2. t \in 0..synced'
    BY <1>u
  <2> QED BY <2>1, <2>2 DEF Calm
<1>h. ASSUME NEW limited \in BOOLEAN, HandleSync(limited) PROVE noMore' => noMore
  BY <1>h DEF HandleSync
\* saveState adds a sync to the tables, and nothing is trimmed.
<1>v. ASSUME NEW full, SaveNext(full), full => MaxRestored >= Newest,
             noMore' => noMore, UNCHANGED <<requests, uiq, paginating>>
      PROVE  Calm'
  <2>1. PICK to \in (synced + 1)..Newest :
          /\ db' = Trimmed(SaveTimelineMessages(db, Positions(synced, to), FALSE, synced), full)
          /\ synced' = to
    BY <1>v DEF SaveNext
  <2>2. to \in 0..Newest /\ synced < to /\ to \in synced..Newest
    BY <1>s, Constants
  <2> DEFINE new == SaveTimelineMessages(db, Positions(synced, to), FALSE, synced)
  <2>3. Grown(new, db, f, t, to)
    BY <1>s, <1>w, <2>2, BatchWhole
  <2>4. Strict(new, to)
    BY <1>s, <2>2, BatchStrict
  <2>5. Trimmed(new, full) = new
    <3> HIDE DEF new
    <3>1. CASE full
      <4>1. PICK m \in Int : Whole(new, f, m, t, to)
        BY <2>3 DEF Grown
      <4> QED BY <1>v, <2>2, <2>4, <3>1, <4>1, NoTrim DEF Trimmed
    <3>2. CASE ~full
      BY <3>2 DEF Trimmed
    <3> QED BY <3>1, <3>2
  <2>6. db' = new
    BY <2>1, <2>5
  <2> HIDE DEF new
  <2>7. UNCHANGED doubled
    BY <1>v DEF SaveNext
  <2> QED BY <1>g, <1>v, <2>1, <2>2, <2>3, <2>4, <2>6, <2>7
<1>1. CASE AddPending
  <2>1. PICK q \in Mine : /\ q > head /\ -q \notin DOMAIN db.evToOrder
                          /\ db' = SaveTimelineMessages(db, <<-q>>, FALSE, NoTok)
    BY <1>1 DEF AddPending
  <2>q. q > synced
    BY <1>s, <2>1, Constants
  <2>2. Grown(db', db, f, t, synced)
    BY <1>s, <1>w, <2>1, <2>q, PendingWhole
  <2>s. Strict(db', synced)
    BY <1>s, <2>1, <2>q, PendingSound DEF Strict
  <2>3. noMore' => noMore
    BY <1>1, <1>h DEF AddPending
  <2>4. UNCHANGED <<requests, uiq, paginating, synced, doubled>> /\ synced \in synced..Newest
    BY <1>1, <1>s DEF AddPending, server
  <2> QED BY <1>g, <2>2, <2>3, <2>4, <2>s
<1>2. CASE Sync
  <2>1. noMore' => noMore
    BY <1>2, <1>h DEF Sync
  <2> QED BY <1>2, <1>v, <2>1 DEF Sync
<1>3. CASE SyncFails
  BY <1>0, <1>3, <1>v DEF SyncFails
<1>4. CASE FetchMore
  <2>1. UNCHANGED <<db, noMore, synced, uiq, doubled>> /\ ~paginating
    BY <1>4 DEF FetchMore, server, history
  <2>2. requests = <<>> /\ uiq = <<>>
    BY <1>a, <2>1 DEF Asked
  <2>3. \/ UNCHANGED requests
        \/ paginating' /\ requests' = Append(requests, t)
    BY <1>4, <1>p DEF FetchMore
  <2>4. requests' = <<>> \/ (paginating' /\ requests' = <<t>>)
    BY <2>2, <2>3
  <2>5. Asked(t)'
    BY <2>1, <2>2, <2>4 DEF Asked
  <2> QED BY <1>n, <1>u, <2>1, <2>5
<1>5. CASE Response
  <2>1. UNCHANGED <<db, noMore, paginating, synced, doubled>>
    BY <1>5 DEF Response, history
  <2>2. PICK k \in DOMAIN requests, r \in head..Newest :
          /\ requests' = RemoveAt(requests, k)
          /\ \/ uiq' = Append(uiq, [kind |-> "fetchedMore"])
             \/ uiq' = Append(uiq, [kind |-> "old", res |-> Messages(requests[k], r)])
    BY <1>5 DEF Response
  <2>3. paginating /\ requests = <<t>> /\ uiq = <<>>
    BY <1>a, <2>2 DEF Asked
  <2>4. k = 1 /\ requests[k] = t
    BY <2>2, <2>3
  <2>5. requests' = <<>>
    BY <2>2, <2>3, <2>4 DEF RemoveAt
  <2>6. Messages(t, r) = Messages(t, 0)
    BY <1>z, MessagesAt
  <2>7. \/ uiq' = <<[kind |-> "fetchedMore"]>>
        \/ uiq' = <<[kind |-> "old", res |-> Messages(t, 0)]>>
    BY <2>2, <2>3, <2>4, <2>6
  <2>8. Asked(t)'
    BY <2>1, <2>3, <2>5, <2>7 DEF Asked
  <2> QED BY <1>n, <1>u, <2>1, <2>8
<1>6. CASE HandleFetchedMore
  <2>1. UNCHANGED <<db, noMore, synced, requests, doubled>> /\ uiq # <<>> /\ uiq' = Tail(uiq)
    BY <1>6 DEF HandleFetchedMore, server, history
  <2>2. requests = <<>> /\ \E e : uiq = <<e>>
    BY <1>a, <2>1 DEF Asked
  <2>3. uiq' = <<>>
    BY <2>1, <2>2
  <2>4. Asked(t)'
    BY <2>1, <2>2, <2>3 DEF Asked
  <2> QED BY <1>n, <1>u, <2>1, <2>4
<1>7. CASE HandleOld
  <2> DEFINE res == Messages(t, 0)
             new == SaveOldMessages(db, res.chunk, res.end)
  <2>1. /\ uiq # <<>> /\ uiq' = Tail(uiq) /\ uiq[1].kind = "old" /\ UNCHANGED synced
        /\ doubled' = doubled \cup NowTwice(db')
    BY <1>7 DEF HandleOld, OldSaved, server
  <2>2. paginating /\ requests = <<>> /\ uiq = <<[kind |-> "old", res |-> res]>>
    <3> HIDE DEF res
    <3>1. uiq # <<[kind |-> "fetchedMore"]>>
      BY <2>1
    <3> QED BY <1>a, <2>1, <3>1 DEF Asked, res
  <2>3. uiq' = <<>> /\ uiq[1].res = res
    <3> HIDE DEF res
    <3> QED BY <2>1, <2>2
  <2>4. \/ /\ EndReached(res) /\ noMore' /\ UNCHANGED <<db, requests>>
        \/ /\ ~EndReached(res) /\ db' = new /\ UNCHANGED noMore
           /\ \/ UNCHANGED requests
              \/ requests' = Append(requests, PrevToken(new)) /\ UNCHANGED paginating
    <3> HIDE DEF res
    <3> QED BY <1>7, <2>3 DEF HandleOld, OldSaved
  <2>5. CASE t = 0
    <3>1. res.end = NoTok
      BY <1>z, <2>5 DEF Messages
    <3>2. EndReached(res)
      BY <3>1 DEF EndReached
    <3>3. UNCHANGED <<db, requests>>
      BY <2>4, <3>2
    <3>4. Asked(t)'
      BY <2>2, <2>3, <3>3 DEF Asked
    <3>5. UNCHANGED doubled
      BY <2>1, <3>3 DEF NowTwice
    <3> QED BY <1>u, <2>1, <2>5, <3>3, <3>4, <3>5
  <2>6. CASE t # 0
    <3>1. t \in 1..Newest /\ t \in 1..synced
      BY <1>s, <1>z, <2>6, Constants
    <3>2. PICK n \in 1..t : res = [chunk |-> [k \in 1..n |-> t - k + 1], end |-> t - n]
      BY <3>1, PageFacts
    <3> DEFINE chunk == [k \in 1..n |-> t - k + 1]
               q == t - n
    <3>3. res.chunk = chunk /\ res.end = q
      BY <3>2
    <3>4. q \in 0..synced /\ q \in 0..Newest /\ q # t /\ q # NoTok
      BY <1>s, <3>1, EmptyAssumption, Constants
    <3>5. Fronted(new, l, q, synced)
      <4>1. chunk = [k \in 1..n |-> t - k + 1]
        OBVIOUS
      <4> HIDE DEF chunk, res
      <4>2. Fronted(SaveOldMessages(db, chunk, t - n), l, t - n, synced)
        BY <1>s, <1>w, <4>1, SaveOldWhole
      <4> QED BY <3>3, <4>2
    <3>s. Strict(new, synced)
      <4>1. chunk \in Seq(1..synced)
        <5>1. n \in Nat /\ chunk \in [1..n -> 1..synced]
          BY <1>s, <3>1
        <5> HIDE DEF chunk, new, res
        <5> QED BY <5>1, ListIsSeq
      <4>2. Covers({}, db, chunk)
        <5>1. ASSUME NEW k \in 1..Len(chunk), -chunk[k] \in DOMAIN db.evToOrder PROVE FALSE
          <6>1. chunk[k] \in 1..synced /\ -chunk[k] \in Events(synced)
            BY <1>s, <4>1, <5>1 DEF Strict, Sound, Events
          <6>2. chunk[k] \in Events(synced) /\ -(-chunk[k]) = chunk[k]
            BY <1>s, <6>1 DEF Events, Known
          <6> QED BY <1>s, <6>1, <6>2, EventFacts
        <5> QED BY <5>1 DEF Covers
      <4>3. q \in Tokens(synced)
        BY <3>4 DEF Tokens
      <4> HIDE DEF chunk, q, res
      <4>4. Sound(SaveOldMessages(db, chunk, q), synced, synced, {})
        BY <1>s, <4>1, <4>2, <4>3, SaveOldMessagesSound DEF Strict
      <4> QED BY <3>3, <4>4 DEF Strict
    <3> HIDE DEF chunk, q
    <3>6. ~EndReached(res)
      <4> HIDE DEF res
      <4> QED BY <1>p, <3>3, <3>4 DEF EndReached
    <3> HIDE DEF res
    <3>7. /\ db' = new /\ UNCHANGED noMore /\ ~noMore
          /\ \/ UNCHANGED requests
             \/ requests' = Append(requests, PrevToken(new)) /\ UNCHANGED paginating
      BY <1>n, <2>4, <2>6, <3>6
    <3>r. \/ UNCHANGED requests
          \/ requests' = Append(requests, PrevToken(new)) /\ UNCHANGED paginating
      BY <3>7
    <3> HIDE DEF new
    <3>8. PICK g \in Int : Whole(new, g, l, q, synced) /\ new.order[g].tok = q
      BY <3>5 DEF Fronted
    <3>9. PrevToken(new) = q
      BY <3>8, PrevTokenAt
    <3>10. Asked(q)'
      <4>1. CASE UNCHANGED requests
        BY <2>2, <2>3, <4>1 DEF Asked
      <4>2. CASE requests' = Append(requests, PrevToken(new)) /\ UNCHANGED paginating
        <5>1. requests' = <<q>>
          <6>1. requests = <<>> /\ requests' = Append(requests, PrevToken(new))
            BY <2>2, <4>2, Zenon
          <6> QED BY <3>9, <6>1
        <5>2. paginating'
          BY <2>2, <4>2, Zenon
        <5> QED BY <2>3, <5>1, <5>2 DEF Asked
      <4> QED BY <3>r, <4>1, <4>2
    <3>d. doubled' = {}
      <4>1. NowTwice(db') = {}
        <5>1. ASSUME NEW x \in NowTwice(db') PROVE FALSE
          <6>1. x \in Mine /\ x \in DOMAIN db'.evToOrder /\ -x \in DOMAIN db.evToOrder
            BY <5>1 DEF NowTwice
          <6>2. x \in Events(synced) /\ -x \in Events(synced)
            BY <1>s, <3>7, <3>s, <6>1 DEF Strict, Sound, Events
          <6> QED BY <1>s, <6>2, EventFacts
        <5> QED BY <5>1
      <4> QED BY <1>s, <2>1, <4>1
    <3>11. CalmAt(g, l, q)'
      BY <2>1, <3>7, <3>8, <3>10, <3>d, <3>s DEF CalmAt
    <3> QED BY <2>1, <3>4, <3>11 DEF Calm
  <2> QED BY <2>5, <2>6
<1>t. ASSUME Restart \/ MapFull PROVE DeleteOldMessages(db) = db
  BY <1>0, <1>s, <1>t, <1>w, NoTrim
<1>9. CASE Restart
  <2>1. /\ UNCHANGED <<synced, doubled>> /\ noMore' = FALSE /\ requests' = <<>> /\ uiq' = <<>>
        /\ db' = db
    BY <1>9, <1>t DEF Restart, server
  <2> QED BY <1>u, <2>1 DEF Asked
<1>10. CASE MapFull
  <2>1. UNCHANGED <<noMore, requests, uiq, paginating>>
    BY <1>10 DEF MapFull
  <2>2. CASE SaveNext(TRUE)
    BY <1>0, <1>10, <1>v, <2>1, <2>2
  <2>3. CASE UNCHANGED <<synced, doubled>> /\ db' = db
    BY <1>a, <1>n, <1>u, <2>1, <2>3 DEF Asked
  <2> QED BY <1>0, <1>10, <1>t, <2>2, <2>3 DEF MapFull, server
<1>11. CASE UNCHANGED vars
  <2>1. UNCHANGED <<db, synced, doubled, noMore, requests, uiq, paginating>>
    BY <1>11 DEF vars, server, history
  <2> QED BY <1>a, <1>n, <1>u, <2>1 DEF Asked
<1> QED
  BY <1>0, <1>1, <1>2, <1>3, <1>4, <1>5, <1>6, <1>7, <1>9, <1>10, <1>11 DEF Next

THEOREM AlwaysSteady == Spec => []Steady
<1>1. Init => Steady
  BY InitSteady
<1>2. State /\ Steady /\ [Next]_vars => Steady'
  BY SteadyStep
<1> QED BY <1>1, <1>2, AlwaysSound, PTL DEF Spec

\* What the tables of a steady room have in common.
LEMMA UndisturbedFacts ==
  ASSUME State, Steady, Undisturbed
  PROVE  /\ OrderInverse /\ Strict(db, synced) /\ doubled = {}
         /\ \E t \in 0..synced :
              /\ PrevToken(db) = t /\ (noMore => t = 0)
              /\ Ids(db) = DOMAIN db.evToOrder
              /\ \A id \in Ids(db) : id > 0 => id > t
              /\ \A r \in (t + 1)..synced : r \in Ids(db) \cup Redactions
<1>1. PICK f \in Int, l \in Int, t \in 0..synced : CalmAt(f, l, t)
  BY DEF Steady, Calm
<1>2. /\ Whole(db, f, l, t, synced) /\ db.order[f].tok = t /\ (noMore => t = 0)
      /\ Strict(db, synced) /\ doubled = {}
  BY <1>1 DEF CalmAt
<1>3. PrevToken(db) = t
  BY <1>2, PrevTokenAt
<1>4. InverseTables(db)
  BY <1>2 DEF Whole
<1>5. Ids(db) = DOMAIN db.evToOrder
  BY <1>4 DEF Ids, InverseTables
<1>6. OrderInverse
  BY <1>4 DEF OrderInverse, InverseTables
<1> QED BY <1>2, <1>3, <1>5, <1>6 DEF Whole

\* "inverse of EventOrderDb": as long as no limited sync, clear or trim has replaced or
\* cut the tables, event_order and event2order are inverse.
THEOREM TablesInverse == Spec => [](Undisturbed => OrderInverse)
<1>1. State /\ Steady => (Undisturbed => OrderInverse)
  BY UndisturbedFacts
<1> QED BY <1>1, AlwaysSound, AlwaysSteady, PTL

\* The token of the oldest entry continues the timeline, so that the next page of
\* fetchMore leaves out no event.
THEOREM TokenFits == Spec => [](Undisturbed => TokenContinues)
<1>1. State /\ Steady => (Undisturbed => TokenContinues)
  <2> SUFFICES ASSUME State, Steady, Undisturbed PROVE TokenContinues
    OBVIOUS
  <2> QED BY UndisturbedFacts DEF TokenContinues
<1> QED BY <1>1, AlwaysSound, AlwaysSteady, PTL

\* No event is missing between two events of the timeline.
THEOREM NothingMissing == Spec => [](Undisturbed => NoGap)
<1>1. State /\ Steady => (Undisturbed => NoGap)
  <2> SUFFICES ASSUME State, Steady, Undisturbed,
                      NEW p \in Ids(db), NEW q \in Ids(db), p > 0, q > 0, NEW r \in p..q
               PROVE  r \in Ids(db) \/ r \in Redactions \/ -r \in Ids(db)
    BY DEF NoGap
  <2>1. PICK t \in 0..synced :
          /\ Ids(db) = DOMAIN db.evToOrder
          /\ \A id \in Ids(db) : id > 0 => id > t
          /\ \A x \in (t + 1)..synced : x \in Ids(db) \cup Redactions
    BY UndisturbedFacts
  <2>2. /\ synced \in 0..Newest /\ p \in Events(synced) /\ q \in Events(synced)
    BY <2>1, UndisturbedFacts, Constants DEF State, Strict, Sound, Events
  <2>3. p \in Int /\ q \in Int /\ q <= synced
    BY <2>2, Constants DEF Events, Known
  <2>4. r \in (t + 1)..synced
    <3>1. p > t /\ synced \in Int
      BY <2>1, <2>2, Constants
    <3> QED BY <2>3, <3>1
  <2> QED BY <2>1, <2>4
<1> QED BY <1>1, AlwaysSound, AlwaysSteady, PTL

\* Pagination stops only at the beginning of the room.
THEOREM StopsAtTheEnd == Spec => [](Undisturbed => StopsAtBeginning)
<1>1. State /\ Steady => (Undisturbed => StopsAtBeginning)
  BY UndisturbedFacts DEF StopsAtBeginning
<1> QED BY <1>1, AlwaysSound, AlwaysSteady, PTL

----------------------------------------------------------------------------

\* The page that is stored is the one for the token of the oldest entry: in the absence
\* of a limited sync no answer is out of date, whatever syncs and echoes come between the
\* check of the token on the network thread and the slot.
AnswerFits ==
  HandleOld /\ db' # db /\ uiq[1].res.chunk # <<>> => PrevToken(db) = uiq[1].res.chunk[1]

THEOREM AnswersFit == Spec => [][Undisturbed => AnswerFits]_vars
<1>1. State /\ Steady => (Undisturbed => AnswerFits)
  <2> SUFFICES ASSUME State, Steady, Undisturbed, HandleOld, db' # db, uiq[1].res.chunk # <<>>
               PROVE  PrevToken(db) = uiq[1].res.chunk[1]
    BY DEF AnswerFits
  <2>1. PICK f \in Int, l \in Int, t \in 0..synced : CalmAt(f, l, t)
    BY DEF Steady, Calm
  <2>2. synced \in 0..Newest /\ t \in 0..Newest /\ t # NoTok
    BY <2>1, EmptyAssumption, Constants DEF State
  <2>3. PrevToken(db) = t /\ Asked(t)
    BY <2>1, PrevTokenAt DEF CalmAt
  <2> DEFINE res == Messages(t, 0)
  <2>4. uiq[1].kind = "old" /\ uiq # <<>> /\ ~EndReached(uiq[1].res)
    BY DEF HandleOld
  <2>5. uiq[1].res = res
    <3> HIDE DEF res
    <3>1. uiq # <<[kind |-> "fetchedMore"]>>
      BY <2>4
    <3> QED BY <2>3, <2>4, <3>1 DEF Asked, res
  <2>6. t # 0
    <3>1. t = 0 => res.end = NoTok
      BY <2>2 DEF Messages
    <3> HIDE DEF res
    <3> QED BY <2>4, <2>5, <3>1 DEF EndReached
  <2>7. t \in 1..Newest
    BY <2>2, <2>6, Constants
  <2>8. PICK n \in 1..t : res = [chunk |-> [k \in 1..n |-> t - k + 1], end |-> t - n]
    BY <2>7, PageFacts
  <2>9. res.chunk[1] = t
    BY <2>7, <2>8, Constants
  <2> QED BY <2>3, <2>5, <2>9
<1>2. State /\ Steady /\ [Next]_vars => [Undisturbed => AnswerFits]_vars
  BY <1>1
<1> QED BY <1>2, AlwaysSound, AlwaysSteady, PTL DEF Spec

\* "This check protects against duplicates in the timeline": in no reachable state does an
\* event, or an event together with its local echo, have two slots among the messages,
\* but for our own events that a page without a token brought before the sync did; and
\* there are none of those before a limited sync, a clear or a trim.
THEOREM NeverTwice == Spec => []NoDuplicates
<1>1. State /\ Steady => NoDuplicates
  <2> SUFFICES ASSUME State, Steady PROVE NoDuplicates
    OBVIOUS
  <2>1. /\ synced \in 0..Newest /\ head \in synced..Newest /\ doubled \subseteq Mine
        /\ OwnSlots(db, doubled) /\ Alone(db, doubled) /\ ShownOnes(db)
        /\ DOMAIN db.evToOrder \subseteq Known(synced, head)
    BY Constants DEF State, Sound
  <2>2. \A m, n \in DOMAIN db.order2msg :
          db.order2msg[m] = db.order2msg[n] => m = n \/ db.order2msg[m] \in doubled
    BY <2>1 DEF OwnSlots
  <2>3. ASSUME NEW m \in DOMAIN db.order2msg
        PROVE  \/ db.order2msg[m] \in DOMAIN db.evToOrder
               \/ db.order2msg[m] \in doubled
    BY <2>1 DEF OwnSlots, ShownOnes
  <2>4. ASSUME NEW id \in Shown(db) \ doubled, id > 0, -id \in Shown(db)
        PROVE  FALSE
    <3>1. PICK m \in DOMAIN db.order2msg, n \in DOMAIN db.order2msg :
            id = db.order2msg[m] /\ -id = db.order2msg[n]
      BY <2>4 DEF Shown, Range
    <3>2. id \in DOMAIN db.evToOrder
      BY <2>3, <2>4, <3>1
    <3>3. id \in Int
      BY <2>1, <3>2, Constants DEF Known
    <3>4. -id \notin doubled
      BY <2>1, <2>4, <3>3, Constants
    <3>5. -id \in DOMAIN db.evToOrder
      BY <2>3, <3>1, <3>4
    <3> QED BY <2>1, <2>4, <3>2, <3>5 DEF Alone
  <2>5. limits = 0 /\ clears = 0 /\ restarts = 0 /\ fulls = 0 => doubled = {}
    BY UndisturbedFacts DEF Undisturbed
  <2> QED BY <2>2, <2>4, <2>5 DEF NoDuplicates
<1> QED BY <1>1, AlwaysSound, AlwaysSteady, PTL

----------------------------------------------------------------------------

\* The windows that EventStore can show.
Windows == {NoView} \cup [first : Int, last : Int]

LEMMA RangeType ==
  ASSUME NEW d, Bounded(d.order2msg)
  PROVE  TimelineRange(d) \in Windows /\ FirstIdx(d.order2msg) \in Int
<1>1. FirstIdx(d.order2msg) \in Int /\ LastIdx(d.order2msg) \in Int
  BY EndsInt
<1> QED BY <1>1 DEF TimelineRange, Windows, FirstIdx, LastIdx

ViewType == view \in Windows /\ noMore \in BOOLEAN /\ paginating \in BOOLEAN

LEMMA HandleSyncType ==
  ASSUME NEW limited \in BOOLEAN, HandleSync(limited), ViewType, Bounded(db'.order2msg)
  PROVE  view' \in Windows /\ noMore' \in BOOLEAN
<1> DEFINE range == TimelineRange(db')
<1>1. range \in Windows
  BY RangeType
<1>2. /\ \/ view' = range \/ view' = view
         \/ view # NoView /\ range # NoView /\ view' = [view EXCEPT !.last = range.last]
      /\ noMore' = FALSE \/ noMore' = noMore
  BY DEF HandleSync
<1> HIDE DEF range
<1> QED BY <1>1, <1>2 DEF ViewType, Windows

LEMMA ViewTypeStep == State /\ State' /\ ViewType /\ [Next]_vars => ViewType'
<1> SUFFICES ASSUME State, State', ViewType, [Next]_vars PROVE ViewType'
  OBVIOUS
<1>b. Bounded(db'.order2msg) /\ Bounded(db.order2msg)
  BY DEF State, Sound
<1>1. CASE AddPending
  BY <1>1, <1>b, HandleSyncType DEF AddPending, ViewType
<1>2. CASE Sync
  BY <1>2, <1>b, HandleSyncType DEF Sync, ViewType
<1>3. CASE SyncLimited
  BY <1>3, <1>b, HandleSyncType DEF SyncLimited, ViewType
<1>4. CASE FetchMore
  BY <1>4 DEF FetchMore, ViewType
<1>5. CASE Response
  BY <1>5 DEF Response, ViewType
<1>6. CASE HandleFetchedMore
  BY <1>6 DEF HandleFetchedMore, ViewType
<1>7. CASE HandleOld
  <2>1. CASE EndReached(uiq[1].res) /\ UNCHANGED view
    BY <1>7, <2>1 DEF HandleOld, OldSaved, ViewType
  <2>2. CASE OldSaved(db') /\ UNCHANGED noMore
    <3>1. TimelineRange(db') \in Windows /\ FirstIdx(db'.order2msg) \in Int
      BY <1>b, RangeType
    <3>2. paginating' \in BOOLEAN
      BY <2>2 DEF OldSaved, ViewType
    <3>3. \/ view' = view \/ view' = TimelineRange(db')
          \/ view # NoView /\ view' = [view EXCEPT !.first = FirstIdx(db'.order2msg)]
      BY <2>2 DEF OldSaved
    <3>4. view' \in Windows
      BY <3>1, <3>3 DEF ViewType, Windows
    <3> QED BY <2>2, <3>2, <3>4 DEF ViewType
  <2> QED BY <1>7, <2>1, <2>2 DEF HandleOld, OldSaved
<1>8. CASE ClearTimeline
  BY <1>8, <1>b, RangeType DEF ClearTimeline, ViewType
<1>9. CASE Restart
  BY <1>9, <1>b, RangeType DEF Restart, ViewType
<1>10. CASE MapFull \/ SyncFails
  BY <1>10 DEF MapFull, SyncFails, ViewType
<1>11. CASE UNCHANGED vars
  BY <1>11 DEF vars, ViewType
<1> QED
  BY <1>1, <1>2, <1>3, <1>4, <1>5, <1>6, <1>7, <1>8, <1>9, <1>10, <1>11 DEF Next

THEOREM AlwaysViewType == Spec => []ViewType
<1>1. Init => ViewType
  <2>1. Init => State
    BY InitState
  <2> SUFFICES ASSUME Init PROVE ViewType
    OBVIOUS
  <2>2. Bounded(db.order2msg)
    BY <2>1 DEF State, Sound
  <2> QED BY <2>2, RangeType DEF Init, ViewType
<1> QED BY <1>1, AlwaysSound, ViewTypeStep, PTL DEF Spec

\* Type correctness: the tables map indices to events and back, and the window has two
\* bounds or none.
THEOREM TypeCorrect == Spec => []TypeOK
<1>1. State /\ ViewType => TypeOK
  <2> SUFFICES ASSUME State, ViewType PROVE TypeOK
    OBVIOUS
  <2>1. \A i \in DOMAIN db.order :
          db.order[i].id \in (-Newest)..Newest /\ db.order[i].tok \in (0..Newest) \cup {NoTok}
    <3> SUFFICES ASSUME NEW i \in DOMAIN db.order
                 PROVE  /\ db.order[i].id \in (-Newest)..Newest
                        /\ db.order[i].tok \in (0..Newest) \cup {NoTok}
      OBVIOUS
    <3>1. db.order[i] \in [id : (-Newest)..Newest, tok : Tokens(head)] /\ head \in 0..Newest
      BY Constants DEF State, Sound
    <3>2. Tokens(head) \subseteq (0..Newest) \cup {NoTok}
      BY <3>1, Constants DEF Tokens
    <3> QED BY <3>1, <3>2
  <2>2. Range(db.evToOrder) \subseteq Int /\ Range(db.msg2order) \subseteq Int
    BY DEF State, Sound, Range
  <2>3. view = NoView \/ NoIdx \notin {view.first, view.last}
    BY EmptyAssumption DEF ViewType, Windows
  <2>4. /\ noMore \in BOOLEAN /\ paginating \in BOOLEAN
        /\ synced \in Start..Newest /\ head \in synced..Newest
        /\ untold \in Untold /\ doubled \subseteq Mine
    BY DEF ViewType, State, Sound
  <2> QED BY <2>1, <2>2, <2>3, <2>4 DEF TypeOK
<1> QED BY <1>1, AlwaysSound, AlwaysViewType, PTL

----------------------------------------------------------------------------

\* The message tables have no holes.
Filled(d) ==
  /\ \A id \in DOMAIN d.msg2order : d.msg2order[id] \in DOMAIN d.order2msg
  /\ \E a, b \in Int : DOMAIN d.order2msg = a..b

\* The messages of e are those slots of d, if there are any, and slots after them, or
\* before them.
Upwards(d, e) ==
  /\ Filled(e)
  /\ \A a, b \in Int : a <= b /\ DOMAIN d.order2msg = a..b =>
       \E c \in Int : b <= c /\ DOMAIN e.order2msg = a..c

Downwards(d, e) ==
  /\ Filled(e)
  /\ \A a, b \in Int : a <= b /\ DOMAIN d.order2msg = a..b =>
       \E c \in Int : c <= a /\ DOMAIN e.order2msg = c..b

LEMMA SameRows ==
  ASSUME NEW d, Filled(d), NEW e, DOMAIN e.order2msg = DOMAIN d.order2msg,
         \A id \in DOMAIN e.msg2order : e.msg2order[id] \in DOMAIN e.order2msg
  PROVE  Upwards(d, e) /\ Downwards(d, e)
<1>1. Filled(e)
  BY DEF Filled
<1>2. ASSUME NEW a \in Int, NEW b \in Int, a <= b, DOMAIN d.order2msg = a..b
      PROVE  /\ \E c \in Int : b <= c /\ DOMAIN e.order2msg = a..c
             /\ \E c \in Int : c <= a /\ DOMAIN e.order2msg = c..b
  BY <1>2
<1> QED BY <1>1, <1>2 DEF Upwards, Downwards

LEMMA UpwardsFurther ==
  ASSUME NEW d, NEW e, NEW g, Upwards(d, e), Upwards(e, g)
  PROVE  Upwards(d, g)
<1>1. ASSUME NEW a \in Int, NEW b \in Int, a <= b, DOMAIN d.order2msg = a..b
      PROVE  \E c \in Int : b <= c /\ DOMAIN g.order2msg = a..c
  <2>1. PICK c \in Int : b <= c /\ DOMAIN e.order2msg = a..c
    BY <1>1 DEF Upwards
  <2>2. PICK x \in Int : c <= x /\ DOMAIN g.order2msg = a..x
    BY <1>1, <2>1 DEF Upwards
  <2>3. b <= x
    BY <2>1, <2>2
  <2> QED BY <2>2, <2>3
<1> QED BY <1>1 DEF Upwards

LEMMA DownwardsFurther ==
  ASSUME NEW d, NEW e, NEW g, Downwards(d, e), Downwards(e, g)
  PROVE  Downwards(d, g)
<1>1. ASSUME NEW a \in Int, NEW b \in Int, a <= b, DOMAIN d.order2msg = a..b
      PROVE  \E c \in Int : c <= a /\ DOMAIN g.order2msg = c..b
  <2>1. PICK c \in Int : c <= a /\ DOMAIN e.order2msg = c..b
    BY <1>1 DEF Downwards
  <2>2. PICK x \in Int : x <= c /\ DOMAIN g.order2msg = x..b
    BY <1>1, <2>1 DEF Downwards
  <2>3. x <= a
    BY <2>1, <2>2
  <2> QED BY <2>2, <2>3
<1> QED BY <1>1 DEF Downwards

\* A row is appended or put in front.
LEMMA InsertRow ==
  ASSUME NEW d, Filled(d), NEW id, NEW tok, NEW idx
  PROVE  /\ Upwards(d, Insert(d, id, tok, idx, LastIdx(d.order2msg) + 1))
         /\ Downwards(d, Insert(d, id, tok, idx, FirstIdx(d.order2msg) - 1))
<1> DEFINE m == ~IsHidden(id) /\ id \notin Redactions
           e(midx) == Insert(d, id, tok, idx, midx)
           T == DOMAIN d.order2msg
<1>1. CASE ~m
  <2>1. \A midx : e(midx).order2msg = d.order2msg /\ e(midx).msg2order = d.msg2order
    BY <1>1 DEF Insert
  <2> HIDE DEF e, m
  <2>2. \A midx : Upwards(d, e(midx)) /\ Downwards(d, e(midx))
    BY <2>1, SameRows DEF Filled
  <2> QED BY <2>2 DEF e
<1>2. CASE m
  <2>1. \A midx : /\ DOMAIN e(midx).order2msg = T \cup {midx}
                  /\ \A x \in DOMAIN e(midx).msg2order : e(midx).msg2order[x] \in T \cup {midx}
    BY <1>2 DEF Insert, Put, Filled
  <2> HIDE DEF e, m
  <2>2. ASSUME NEW a \in Int, NEW b \in Int, a <= b, T = a..b
        PROVE  /\ LastIdx(d.order2msg) + 1 = b + 1 /\ T \cup {b + 1} = a..(b + 1)
               /\ FirstIdx(d.order2msg) - 1 = a - 1 /\ T \cup {a - 1} = (a - 1)..b
    <3>1. FirstIdx(d.order2msg) = a /\ LastIdx(d.order2msg) = b
      BY <2>2, EndsOfInterval
    <3>2. (a..b) \cup {b + 1} = a..(b + 1) /\ (a..b) \cup {a - 1} = (a - 1)..b
      BY <2>2
    <3> HIDE DEF T
    <3> QED BY <2>2, <3>1, <3>2
  <2>3. ASSUME T = {}
        PROVE  /\ LastIdx(d.order2msg) + 1 = 1 /\ T \cup {1} = 1..1
               /\ FirstIdx(d.order2msg) - 1 = -1 /\ T \cup {-1} = (-1)..(-1)
    <3>1. FirstIdx(d.order2msg) = 0 /\ LastIdx(d.order2msg) = 0
      BY <2>3 DEF FirstIdx, LastIdx
    <3>2. {1} = 1..1 /\ {-1} = (-1)..(-1)
      OBVIOUS
    <3> QED BY <2>3, <3>1, <3>2
  <2>4. PICK a \in Int, b \in Int : T = a..b
    BY DEF Filled
  <2>5. (a <= b) \/ T = {}
    BY <2>4
  <2> HIDE DEF T
  <2> DEFINE up == LastIdx(d.order2msg) + 1
             down == FirstIdx(d.order2msg) - 1
  <2>6. /\ \E x, y \in Int : T \cup {up} = x..y
        /\ \E x, y \in Int : T \cup {down} = x..y
    <3>1. CASE a <= b
      <4>1. /\ up = b + 1 /\ T \cup {b + 1} = a..(b + 1) /\ b + 1 \in Int
            /\ down = a - 1 /\ T \cup {a - 1} = (a - 1)..b /\ a - 1 \in Int
        BY <2>2, <2>4, <3>1
      <4> HIDE DEF up, down
      <4> QED BY <4>1
    <3>2. CASE T = {}
      <4>1. up = 1 /\ T \cup {1} = 1..1 /\ down = -1 /\ T \cup {-1} = (-1)..(-1)
        BY <2>3, <3>2
      <4> HIDE DEF up, down
      <4> QED BY <4>1
    <3> QED BY <2>5, <3>1, <3>2
  <2>7. Filled(e(up)) /\ Filled(e(down))
    <3> HIDE DEF up, down
    <3> QED BY <2>1, <2>6 DEF Filled
  <2>8. ASSUME NEW x \in Int, NEW y \in Int, x <= y, T = x..y
        PROVE  /\ \E c \in Int : y <= c /\ DOMAIN e(up).order2msg = x..c
               /\ \E c \in Int : c <= x /\ DOMAIN e(down).order2msg = c..y
    <3>1. /\ up = y + 1 /\ T \cup {y + 1} = x..(y + 1) /\ y + 1 \in Int /\ y <= y + 1
          /\ down = x - 1 /\ T \cup {x - 1} = (x - 1)..y /\ x - 1 \in Int /\ x - 1 <= x
      BY <2>2, <2>8
    <3> HIDE DEF up, down
    <3>2. DOMAIN e(up).order2msg = x..(y + 1) /\ DOMAIN e(down).order2msg = (x - 1)..y
      BY <2>1, <3>1
    <3> QED BY <3>1, <3>2
  <2> HIDE DEF up, down
  <2>9. Upwards(d, e(up)) /\ Downwards(d, e(down))
    BY <2>7, <2>8 DEF Upwards, Downwards, T
  <2> QED BY <2>9 DEF e, up, down
<1> QED BY <1>1, <1>2

\* The echo of our own event takes the row of its local echo.
LEMMA EchoRow ==
  ASSUME NEW d, Filled(d), NEW id, NEW tok
  PROVE  Upwards(d, Echo(d, id, tok))
<1> DEFINE e == Echo(d, id, tok)
           m == -id \in DOMAIN d.msg2order
           midx == d.msg2order[-id]
<1>1. CASE ~m
  <2>1. e.order2msg = d.order2msg /\ e.msg2order = d.msg2order
    BY <1>1 DEF Echo
  <2> HIDE DEF e
  <2> QED BY <2>1, SameRows DEF Filled, e
<1>2. CASE m
  <2>1. /\ e.order2msg = Put(d.order2msg, midx, id)
        /\ e.msg2order = Del(Put(d.msg2order, id, midx), {-id})
    BY <1>2 DEF Echo
  <2>2. midx \in DOMAIN d.order2msg
    BY <1>2 DEF Filled
  <2> HIDE DEF e, midx
  <2>3. DOMAIN e.order2msg = DOMAIN d.order2msg
    BY <2>1, <2>2 DEF Put
  <2>4. \A x \in DOMAIN e.msg2order : e.msg2order[x] \in DOMAIN e.order2msg
    BY <2>1, <2>2, <2>3 DEF Put, Del, Restrict, Filled
  <2>5. Upwards(d, e)
    BY <2>3, <2>4, SameRows
  <2> QED BY <2>5 DEF e
<1> QED BY <1>1, <1>2

LEMMA SaveEventRow ==
  ASSUME NEW a, Filled(a.db), NEW id, NEW limited, NEW prev
  PROVE  Upwards(a.db, SaveEvent(a, id, limited, prev).db)
<1> DEFINE b == SaveEvent(a, id, limited, prev)
           tok == IF a.first THEN prev ELSE NoTok
<1>1. CASE b.db = Echo(a.db, id, tok)
  <2> HIDE DEF b, tok
  <2> QED BY <1>1, EchoRow DEF b
<1>2. CASE b = a
  <2>1. Upwards(a.db, a.db)
    BY SameRows DEF Filled
  <2> QED BY <1>2, <2>1
<1>3. CASE b.db = Insert(a.db, id, tok, LastIdx(a.db.order) + 1, LastIdx(a.db.order2msg) + 1)
  <2> HIDE DEF b, tok
  <2> QED BY <1>3, InsertRow DEF b
<1> QED BY <1>1, <1>2, <1>3 DEF SaveEvent

LEMMA EmptyRows == Filled(EmptyDb)
<1>1. DOMAIN EmptyDb.order2msg = 1..0 /\ DOMAIN EmptyDb.msg2order = {}
  BY DEF EmptyDb, NoRows
<1> QED BY <1>1 DEF Filled

\* saveTimelineMessages appends rows, to no rows at all when the sync is limited.
LEMMA BatchRows ==
  ASSUME NEW d, Filled(d), NEW batch \in Seq(Int), batch # <<>>, NEW limited, NEW prev
  PROVE  Upwards(IF limited THEN EmptyDb ELSE d, SaveTimelineMessages(d, batch, limited, prev))
<1> DEFINE base == IF limited THEN EmptyDb ELSE d
<1>1. PICK acc : BatchRun(acc, d, batch, limited, prev)
  BY BatchSteps
<1>2. /\ acc[0].db = base
      /\ \A n \in 1..Len(batch) : acc[n] = SaveEvent(acc[n - 1], batch[n], limited, prev)
      /\ SaveTimelineMessages(d, batch, limited, prev) = acc[Len(batch)].db
  BY <1>1 DEF BatchRun
<1>3. Filled(base)
  BY EmptyRows
<1> HIDE DEF base
<1> DEFINE S == {n \in 0..Len(batch) : Upwards(base, acc[n].db)}
<1>4. 0 \in S
  <2>1. Upwards(base, base)
    BY <1>3, SameRows DEF Filled
  <2> QED BY <1>2, <2>1
<1>5. ASSUME NEW n \in 1..Len(batch), n - 1 \in S PROVE n \in S
  <2>1. Upwards(base, acc[n - 1].db)
    BY <1>5
  <2>2. Upwards(acc[n - 1].db, acc[n].db)
    <3>1. Filled(acc[n - 1].db)
      BY <2>1 DEF Upwards
    <3>2. Upwards(acc[n - 1].db, SaveEvent(acc[n - 1], batch[n], limited, prev).db)
      BY <3>1, SaveEventRow
    <3> QED BY <1>2, <3>2
  <2>3. Upwards(base, acc[n].db)
    BY <2>1, <2>2, UpwardsFurther
  <2> QED BY <2>3
<1>6. Len(batch) \in S
  <2> HIDE DEF S
  <2>1. Len(batch) \in Nat
    OBVIOUS
  <2>2. 0..Len(batch) \subseteq S
    BY <1>4, <1>5, <2>1, UpTo
  <2> QED BY <2>1, <2>2
<1> QED BY <1>2, <1>6 DEF base

LEMMA ChunkRows ==
  ASSUME NEW d, Filled(d), NEW chunk \in Seq(Int)
  PROVE  Downwards(d, SaveChunk(d, chunk).db)
<1>1. PICK acc : ChunkRun(acc, d, chunk)
  BY ChunkSteps
<1>2. /\ acc[0].db = d
      /\ \A n \in 1..Len(chunk) : acc[n] = ChunkStep(acc[n - 1], chunk[n])
      /\ SaveChunk(d, chunk) = acc[Len(chunk)]
  BY <1>1 DEF ChunkRun
<1>3. ASSUME NEW e, Filled(e) PROVE Downwards(e, e)
  BY <1>3, SameRows DEF Filled
<1> DEFINE S == {n \in 0..Len(chunk) : Downwards(d, acc[n].db)}
<1>4. 0 \in S
  BY <1>2, <1>3
<1>5. ASSUME NEW n \in 1..Len(chunk), n - 1 \in S PROVE n \in S
  <2> DEFINE c == acc[n - 1].db
             id == chunk[n]
  <2>1. Downwards(d, c)
    BY <1>5
  <2>2. acc[n].db = c \/ acc[n].db = SaveOldEvent(c, id)
    <3>1. acc[n] = ChunkStep(acc[n - 1], id)
      BY <1>2
    <3> HIDE DEF id
    <3> QED BY <3>1 DEF ChunkStep
  <2> HIDE DEF c, id
  <2>3. Filled(c)
    BY <2>1 DEF Downwards
  <2>4. Downwards(c, SaveOldEvent(c, id))
    <3>1. CASE id \in DOMAIN c.evToOrder
      BY <1>3, <2>3, <3>1 DEF SaveOldEvent
    <3>2. CASE id \notin DOMAIN c.evToOrder
      <4>1. SaveOldEvent(c, id)
              = Insert(c, id, NoTok, FirstIdx(c.order) - 1, FirstIdx(c.order2msg) - 1)
        BY <3>2 DEF SaveOldEvent
      <4> QED BY <2>3, <4>1, InsertRow
    <3> QED BY <3>1, <3>2
  <2>5. Downwards(d, acc[n].db)
    BY <2>1, <2>2, <2>4, DownwardsFurther
  <2> QED BY <2>5
<1>6. Len(chunk) \in S
  <2> HIDE DEF S
  <2>1. Len(chunk) \in Nat
    OBVIOUS
  <2>2. 0..Len(chunk) \subseteq S
    BY <1>4, <1>5, <2>1, UpTo
  <2> QED BY <2>1, <2>2
<1> QED BY <1>2, <1>6

\* saveOldMessages puts rows in front.
LEMMA SaveOldRows ==
  ASSUME NEW s \in 0..Newest, NEW h, NEW D, NEW d, Sound(d, s, h, D), Filled(d),
         NEW chunk \in Seq(1..h), NEW end
  PROVE  Downwards(d, SaveOldMessages(d, chunk, end))
<1> DEFINE new == SaveChunk(d, chunk)
           e == SaveOldMessages(d, chunk, end)
<1>m. Sound(d, s, h, Mine) /\ Covers(Mine, d, chunk)
  BY MineCovers
<1>1. /\ Sound(new.db, s, h, Mine)
      /\ new.last = NoEvent => \A k \in 1..Len(chunk) : chunk[k] \in Redactions
  BY <1>m, ChunkSound
<1>2. chunk \in Seq(Int)
  BY MineCovers
<1>3. Downwards(d, new.db)
  BY <1>2, ChunkRows
<1>4. IsDb(d) /\ IsDb(new.db)
  BY <1>1 DEF Sound
<1>5. ASSUME NEW c, Downwards(d, c), e.order2msg = c.order2msg, e.msg2order = c.msg2order
      PROVE  Downwards(d, e)
  BY <1>5 DEF Downwards, Filled
<1>6. Downwards(d, d)
  BY SameRows DEF Filled
<1>7. CASE chunk = <<>>
  <2>1. e.order2msg = d.order2msg /\ e.msg2order = d.msg2order
    BY <1>4, <1>7 DEF SaveOldMessages, IsDb
  <2> HIDE DEF e, new
  <2> QED BY <1>5, <1>6, <2>1 DEF e
<1>8. CASE chunk # <<>> /\ new.last = NoEvent
  <2>1. Last(chunk) \in Redactions
    <3>1. Len(chunk) \in 1..Len(chunk)
      BY <1>8
    <3> HIDE DEF new
    <3> QED BY <1>1, <1>8, <3>1 DEF Last
  <2>2. e = Insert(d, Last(chunk), end, FirstIdx(new.db.order) - 1, 0)
    BY <1>8 DEF SaveOldMessages
  <2> HIDE DEF e, new
  <2>3. e.order2msg = d.order2msg /\ e.msg2order = d.msg2order
    BY <2>1, <2>2 DEF Insert
  <2> QED BY <1>5, <1>6, <2>3 DEF e
<1>9. CASE chunk # <<>> /\ new.last # NoEvent
  <2> DEFINE c == new.db
  <2>1. PICK x : e = [c EXCEPT !.order = x]
    BY <1>9 DEF SaveOldMessages
  <2> HIDE DEF c, e
  <2>2. e.order2msg = c.order2msg /\ e.msg2order = c.msg2order
    BY <1>4, <2>1 DEF IsDb, c
  <2> QED BY <1>3, <1>5, <2>2 DEF c, e
<1> QED BY <1>7, <1>8, <1>9

----------------------------------------------------------------------------

\* The numbering of the events has an index of the order table for each, and that of the
\* messages, which is kept apart from it, goes the same way.
Numbered(d) ==
  /\ \A id \in DOMAIN d.evToOrder : d.evToOrder[id] \in DOMAIN d.order
  /\ \A id \in DOMAIN d.msg2order :
       /\ id \notin Redactions /\ id \in DOMAIN d.evToOrder
       /\ d.msg2order[id] \in DOMAIN d.order2msg /\ d.order2msg[d.msg2order[id]] = id
  /\ \A a, b \in DOMAIN d.msg2order :
       d.evToOrder[a] < d.evToOrder[b] => d.msg2order[a] < d.msg2order[b]

\* Behind all indices of a table, or before them.
Beyond(f, k) == \A i \in DOMAIN f : i < k
Ahead(f, k)  == \A i \in DOMAIN f : k < i

LEMMA EndsBeyond ==
  ASSUME NEW f, Bounded(f)
  PROVE  Beyond(f, LastIdx(f) + 1) /\ Ahead(f, FirstIdx(f) - 1)
<1>1. CASE DOMAIN f = {}
  BY <1>1 DEF Beyond, Ahead
<1>2. CASE DOMAIN f # {}
  <2>1. FirstIdx(f) \in Int /\ LastIdx(f) \in Int /\ DOMAIN f \subseteq Int
    BY EndsInt DEF Bounded
  <2>2. \A i \in DOMAIN f : FirstIdx(f) <= i /\ i <= LastIdx(f)
    BY <1>2, EndsOfTable
  <2> QED BY <2>1, <2>2 DEF Beyond, Ahead
<1> QED BY <1>1, <1>2

\* An entry comes at an end of both numberings; that of a redaction has no message.
LEMMA InsertNumbered ==
  ASSUME NEW s \in 0..Newest, NEW h, NEW D, NEW d, Sound(d, s, h, D), Numbered(d),
         NEW id, NEW tok,
         id \notin DOMAIN d.evToOrder \/ id \in Redactions, NEW idx \in Int, NEW midx \in Int,
         id \in Redactions \/ (Beyond(d.order, idx) /\ Beyond(d.order2msg, midx))
                           \/ (Ahead(d.order, idx) /\ Ahead(d.order2msg, midx))
  PROVE  Numbered(Insert(d, id, tok, idx, midx))
<1> DEFINE e == Insert(d, id, tok, idx, midx)
           m == ~IsHidden(id) /\ id \notin Redactions
<1>1. /\ e.order = Put(d.order, idx, [id |-> id, tok |-> tok])
      /\ e.evToOrder = Put(d.evToOrder, id, idx)
      /\ m => e.order2msg = Put(d.order2msg, midx, id) /\ e.msg2order = Put(d.msg2order, id, midx)
      /\ ~m => e.order2msg = d.order2msg /\ e.msg2order = d.msg2order
  BY DEF Insert
<1>2. m => /\ id \notin DOMAIN d.evToOrder /\ id \notin Redactions
           /\ \/ Beyond(d.order, idx) /\ Beyond(d.order2msg, midx)
              \/ Ahead(d.order, idx) /\ Ahead(d.order2msg, midx)
  OBVIOUS
<1>3. \A x \in DOMAIN d.msg2order : x \in DOMAIN d.evToOrder /\ x \notin Redactions
  BY DEF Numbered
<1>4. id \notin DOMAIN d.msg2order
  BY <1>3
<1> HIDE DEF e, m
<1>5. ASSUME NEW x \in DOMAIN e.evToOrder PROVE e.evToOrder[x] \in DOMAIN e.order
  BY <1>1 DEF Put, Numbered
<1>6. \A x \in DOMAIN d.msg2order : e.evToOrder[x] = d.evToOrder[x] /\ x \in DOMAIN e.evToOrder
  BY <1>1, <1>3, <1>4 DEF Put
<1>7. CASE ~m
  <2>1. e.order2msg = d.order2msg /\ e.msg2order = d.msg2order
    BY <1>1, <1>7
  <2>2. Numbered(e)
    BY <1>5, <1>6, <2>1 DEF Numbered
  <2> QED BY <2>2 DEF e
<1>8. CASE m
  <2>1. /\ DOMAIN e.msg2order = DOMAIN d.msg2order \cup {id} /\ e.msg2order[id] = midx
        /\ \A x \in DOMAIN d.msg2order : e.msg2order[x] = d.msg2order[x]
    BY <1>1, <1>4, <1>8 DEF Put
  <2>2. /\ DOMAIN e.order2msg = DOMAIN d.order2msg \cup {midx} /\ e.order2msg[midx] = id
        /\ \A y \in DOMAIN d.order2msg : y # midx => e.order2msg[y] = d.order2msg[y]
    BY <1>1, <1>8 DEF Put
  <2>3. DOMAIN e.evToOrder = DOMAIN d.evToOrder \cup {id} /\ e.evToOrder[id] = idx
    BY <1>1 DEF Put
  <2>4. DOMAIN d.order \subseteq Int /\ DOMAIN d.order2msg \subseteq Int
    BY DEF Sound, Bounded
  <2>5. \A x \in DOMAIN d.msg2order :
          /\ d.evToOrder[x] \in DOMAIN d.order /\ d.msg2order[x] \in DOMAIN d.order2msg
          /\ d.order2msg[d.msg2order[x]] = x
    BY DEF Numbered
  <2>6. midx \notin DOMAIN d.order2msg
    BY <1>2, <1>8, <2>4 DEF Beyond, Ahead
  <2>7. ASSUME NEW x \in DOMAIN e.msg2order
        PROVE  /\ x \notin Redactions /\ x \in DOMAIN e.evToOrder
               /\ e.msg2order[x] \in DOMAIN e.order2msg /\ e.order2msg[e.msg2order[x]] = x
    <3>1. CASE x = id
      BY <1>2, <1>8, <2>1, <2>2, <2>3, <3>1
    <3>2. CASE x # id
      BY <1>3, <2>1, <2>2, <2>3, <2>5, <2>6, <3>2
    <3> QED BY <3>1, <3>2
  <2>8. ASSUME NEW a \in DOMAIN e.msg2order, NEW b \in DOMAIN e.msg2order,
               e.evToOrder[a] < e.evToOrder[b]
        PROVE  e.msg2order[a] < e.msg2order[b]
    <3>1. CASE a = id /\ b = id
      BY <2>3, <2>8, <3>1
    <3>2. CASE a = id /\ b # id
      <4>1. idx < d.evToOrder[b] /\ d.evToOrder[b] \in DOMAIN d.order /\ b \in DOMAIN d.msg2order
        BY <1>6, <2>1, <2>3, <2>5, <2>8, <3>2
      <4>2. Ahead(d.order2msg, midx)
        BY <1>2, <1>8, <2>4, <4>1 DEF Beyond
      <4>3. midx < d.msg2order[b]
        BY <2>5, <4>1, <4>2 DEF Ahead
      <4> QED BY <2>1, <3>2, <4>1, <4>3
    <3>3. CASE a # id /\ b = id
      <4>1. d.evToOrder[a] < idx /\ d.evToOrder[a] \in DOMAIN d.order /\ a \in DOMAIN d.msg2order
        BY <1>6, <2>1, <2>3, <2>5, <2>8, <3>3
      <4>2. Beyond(d.order2msg, midx)
        BY <1>2, <1>8, <2>4, <4>1 DEF Ahead
      <4>3. d.msg2order[a] < midx
        BY <2>5, <4>1, <4>2 DEF Beyond
      <4> QED BY <2>1, <3>3, <4>1, <4>3
    <3>4. CASE a # id /\ b # id
      <4>1. a \in DOMAIN d.msg2order /\ b \in DOMAIN d.msg2order
        BY <2>1, <3>4
      <4>2. d.msg2order[a] < d.msg2order[b]
        BY <1>6, <2>8, <4>1 DEF Numbered
      <4> QED BY <2>1, <4>1, <4>2
    <3> QED BY <3>1, <3>2, <3>3, <3>4
  <2>9. Numbered(e)
    BY <1>5, <2>7, <2>8 DEF Numbered
  <2> QED BY <2>9 DEF e
<1> QED BY <1>7, <1>8

\* The echo takes the places of its local echo in both numberings.
LEMMA EchoNumbered ==
  ASSUME NEW id \in 1..Newest, NEW h, NEW D, NEW d, Sound(d, id - 1, h, D), Numbered(d),
         NEW tok, id \in Mine, -id \in DOMAIN d.evToOrder
  PROVE  Numbered(Echo(d, id, tok))
<1> DEFINE e == Echo(d, id, tok)
           idx == d.evToOrder[-id]
           midx == d.msg2order[-id]
           m == -id \in DOMAIN d.msg2order
<1>1. /\ e.order = Put(d.order, idx, [id |-> id, tok |-> tok])
      /\ e.evToOrder = Del(Put(d.evToOrder, id, idx), {-id})
      /\ m => /\ e.order2msg = Put(d.order2msg, midx, id)
              /\ e.msg2order = Del(Put(d.msg2order, id, midx), {-id})
      /\ ~m => e.order2msg = d.order2msg /\ e.msg2order = d.msg2order
  BY DEF Echo
<1>2. id # -id /\ id \notin Redactions
  BY Constants
<1>3. ~m => id \notin DOMAIN d.msg2order
  <2>1. IsHidden(-id) <=> IsHidden(id)
    BY DEF IsHidden
  <2>2. -id \notin Redactions
    BY Constants
  <2> QED BY <2>1, <2>2 DEF Sound, ShownOnes
<1>4. idx \in DOMAIN d.order
  BY DEF Numbered
<1> HIDE DEF e, m, idx, midx
<1>5. /\ DOMAIN e.evToOrder = (DOMAIN d.evToOrder \cup {id}) \ {-id} /\ e.evToOrder[id] = idx
      /\ \A x \in DOMAIN d.evToOrder : x # -id /\ x # id => e.evToOrder[x] = d.evToOrder[x]
  <2>1. /\ DOMAIN e.evToOrder = (DOMAIN d.evToOrder \cup {id}) \ {-id} /\ e.evToOrder[id] = idx
        /\ \A x \in DOMAIN d.evToOrder : x # -id /\ x # id => e.evToOrder[x] = d.evToOrder[x]
    BY <1>1, <1>2 DEF Put, Del, Restrict
  <2> QED BY <2>1
<1>6. DOMAIN e.order = DOMAIN d.order
  BY <1>1, <1>4 DEF Put
<1>7. ASSUME NEW x \in DOMAIN e.evToOrder PROVE e.evToOrder[x] \in DOMAIN e.order
  <2>1. CASE x = id
    BY <1>4, <1>5, <1>6, <2>1
  <2>2. CASE x # id
    BY <1>5, <1>6, <2>2 DEF Numbered
  <2> QED BY <2>1, <2>2
<1>8. CASE ~m
  <2>1. e.order2msg = d.order2msg /\ e.msg2order = d.msg2order
    BY <1>1, <1>8
  <2>2. \A x \in DOMAIN d.msg2order : x # -id /\ x # id /\ x \in DOMAIN d.evToOrder
    BY <1>3, <1>8 DEF m, Numbered
  <2>3. \A x \in DOMAIN d.msg2order : x \in DOMAIN e.evToOrder /\ e.evToOrder[x] = d.evToOrder[x]
    BY <1>5, <2>2
  <2>4. Numbered(e)
    BY <1>7, <2>1, <2>3 DEF Numbered
  <2> QED BY <2>4 DEF e
<1>9. CASE m
  <2> DEFINE was(x) == IF x = id THEN -id ELSE x
  <2>1. /\ midx \in DOMAIN d.order2msg /\ d.order2msg[midx] = -id
        /\ \A x \in DOMAIN d.msg2order :
             /\ x \notin Redactions /\ x \in DOMAIN d.evToOrder
             /\ d.msg2order[x] \in DOMAIN d.order2msg /\ d.order2msg[d.msg2order[x]] = x
    BY <1>9 DEF Numbered, m, midx
  <2>2. /\ DOMAIN e.order2msg = DOMAIN d.order2msg /\ e.order2msg[midx] = id
        /\ \A y \in DOMAIN d.order2msg : y # midx => e.order2msg[y] = d.order2msg[y]
    <3>1. e.order2msg = Put(d.order2msg, midx, id)
      BY <1>1, <1>9
    <3>2. DOMAIN d.order2msg \cup {midx} = DOMAIN d.order2msg
      BY <2>1
    <3> QED BY <2>1, <3>1, <3>2 DEF Put
  <2>3. /\ DOMAIN e.msg2order = (DOMAIN d.msg2order \cup {id}) \ {-id} /\ e.msg2order[id] = midx
        /\ \A x \in DOMAIN d.msg2order : x # -id /\ x # id => e.msg2order[x] = d.msg2order[x]
    BY <1>1, <1>2, <1>9 DEF Put, Del, Restrict
  <2>4. ASSUME NEW x \in DOMAIN e.msg2order
        PROVE  /\ was(x) \in DOMAIN d.msg2order /\ e.msg2order[x] = d.msg2order[was(x)]
               /\ e.evToOrder[x] = d.evToOrder[was(x)]
    <3>1. CASE x = id
      BY <1>5, <1>9, <2>3, <3>1 DEF m, idx, midx
    <3>2. CASE x # id
      BY <1>5, <2>1, <2>3, <3>2
    <3> QED BY <3>1, <3>2
  <2>5. ASSUME NEW x \in DOMAIN e.msg2order
        PROVE  /\ x \notin Redactions /\ x \in DOMAIN e.evToOrder
               /\ e.msg2order[x] \in DOMAIN e.order2msg /\ e.order2msg[e.msg2order[x]] = x
    <3>1. CASE x = id
      BY <1>2, <1>5, <2>1, <2>2, <2>3, <3>1
    <3>2. CASE x # id
      <4>1. x \in DOMAIN d.msg2order /\ x # -id /\ e.msg2order[x] = d.msg2order[x]
        BY <2>3, <3>2
      <4>2. d.msg2order[x] # midx
        BY <2>1, <4>1
      <4> QED BY <1>5, <2>1, <2>2, <4>1, <4>2
    <3> QED BY <3>1, <3>2
  <2>6. \A a, b \in DOMAIN e.msg2order :
          e.evToOrder[a] < e.evToOrder[b] => e.msg2order[a] < e.msg2order[b]
    <3> HIDE DEF was
    <3> QED BY <2>4 DEF Numbered
  <2>7. Numbered(e)
    BY <1>7, <2>5, <2>6 DEF Numbered
  <2> QED BY <2>7 DEF e
<1> QED BY <1>8, <1>9

LEMMA EmptyNumbered == Numbered(EmptyDb)
BY DEF Numbered, EmptyDb, NoRows

\* One event of a sync.
LEMMA SaveEventNumbered ==
  ASSUME NEW s \in 0..(Newest - 1), NEW h, NEW D, NEW a, Sound(a.db, s, h, D), Numbered(a.db),
         NEW limited, NEW prev, NEW id, id = s + 1
  PROVE  Numbered(SaveEvent(a, id, limited, prev).db)
<1> DEFINE b == SaveEvent(a, id, limited, prev)
           tok == IF a.first THEN prev ELSE NoTok
           idx == LastIdx(a.db.order) + 1
           midx == LastIdx(a.db.order2msg) + 1
<1>1. id \in 1..Newest /\ s = id - 1 /\ s \in 0..Newest
  BY Constants
<1>2. CASE id \in Mine /\ -id \in DOMAIN a.db.evToOrder
  <2>1. b.db = Echo(a.db, id, tok)
    BY <1>2 DEF SaveEvent
  <2> HIDE DEF tok, b
  <2>2. Numbered(Echo(a.db, id, tok))
    BY <1>1, <1>2, EchoNumbered
  <2> QED BY <2>1, <2>2 DEF b
<1>3. CASE b = a
  BY <1>3
<1>4. CASE b # a /\ ~(id \in Mine /\ -id \in DOMAIN a.db.evToOrder)
  <2>1. /\ b.db = Insert(a.db, id, tok, idx, midx)
        /\ id \in Redactions \/ id \notin DOMAIN a.db.evToOrder
    BY <1>4 DEF SaveEvent
  <2>2. /\ idx \in Int /\ midx \in Int
        /\ Beyond(a.db.order, idx) /\ Beyond(a.db.order2msg, midx)
    BY EndsInt, EndsBeyond DEF Sound
  <2> HIDE DEF tok, b, idx, midx
  <2>3. Numbered(Insert(a.db, id, tok, idx, midx))
    BY <1>1, <2>1, <2>2, InsertNumbered
  <2> QED BY <2>1, <2>3 DEF b
<1> QED BY <1>2, <1>3, <1>4

\* A sync that brings the events after from, up to to.
LEMMA BatchNumbered ==
  ASSUME NEW from \in 0..Newest, NEW to \in 0..Newest, from < to, NEW d, NEW limited,
         NEW h \in to..Newest, NEW D \in SUBSET Mine,
         limited \/ (Sound(d, from, h, D) /\ Numbered(d))
  PROVE  Numbered(SaveTimelineMessages(d, Positions(from, to), limited, from))
<1> DEFINE batch == Positions(from, to)
<1>1. /\ batch \in Seq(Int) /\ Len(batch) = to - from /\ batch # <<>>
      /\ \A n \in 1..(to - from) : batch[n] = from + n
  BY PositionsFacts
<1> HIDE DEF batch
<1>2. PICK acc : BatchRun(acc, d, batch, limited, from)
  BY <1>1, BatchSteps
<1> DEFINE S == {n \in 0..(to - from) :
                   IsAcc(acc[n]) /\ Sound(acc[n].db, from + n, h, D) /\ Numbered(acc[n].db)}
<1>3. 0 \in S
  <2>1. Sound(EmptyDb, from, h, D) /\ Numbered(EmptyDb)
    <3>1. h \in from..Newest
      BY Constants
    <3> QED BY <3>1, EmptySound, EmptyNumbered
  <2>2. IsAcc(acc[0]) /\ Sound(acc[0].db, from, h, D) /\ Numbered(acc[0].db)
    BY <1>2, <2>1 DEF IsAcc, BatchRun
  <2>3. from + 0 = from /\ 0 \in 0..(to - from)
    BY Constants
  <2> QED BY <2>2, <2>3
<1>4. ASSUME NEW n \in 1..(to - from), n - 1 \in S PROVE n \in S
  <2> DEFINE s == from + (n - 1)
  <2>1. s \in 0..(Newest - 1) /\ s + 1 = from + n /\ n \in 0..(to - from) /\ s + 1 <= h
    BY Constants
  <2>2. IsAcc(acc[n - 1]) /\ Sound(acc[n - 1].db, s, h, D) /\ Numbered(acc[n - 1].db)
    BY <1>4
  <2>3. from \in Tokens(h)
    BY Constants DEF Tokens
  <2>4. acc[n] = SaveEvent(acc[n - 1], s + 1, limited, from)
    BY <1>1, <1>2, <2>1 DEF BatchRun
  <2> HIDE DEF s
  <2>5. IsAcc(acc[n]) /\ Sound(acc[n].db, s + 1, h, D) /\ Numbered(acc[n].db)
    <3> DEFINE id == s + 1
    <3>1. id = s + 1
      OBVIOUS
    <3> HIDE DEF id
    <3>2. LET b == SaveEvent(acc[n - 1], id, limited, from) IN IsAcc(b) /\ Sound(b.db, id, h, D)
      BY <2>1, <2>2, <2>3, <3>1, SaveEventSound
    <3>3. Numbered(SaveEvent(acc[n - 1], id, limited, from).db)
      BY <2>1, <2>2, <3>1, SaveEventNumbered
    <3> QED BY <2>4, <3>1, <3>2, <3>3
  <2> QED BY <2>1, <2>5
<1>5. to - from \in S
  <2>1. to - from \in Nat
    BY Constants
  <2> HIDE DEF S
  <2>2. 0..(to - from) \subseteq S
    BY <1>3, <1>4, <2>1, UpTo
  <2> QED BY <2>1, <2>2
<1>6. SaveTimelineMessages(d, batch, limited, from) = acc[to - from].db
  BY <1>1, <1>2 DEF BatchRun
<1> QED BY <1>5, <1>6 DEF batch

LEMMA SaveOldEventNumbered ==
  ASSUME NEW s \in 0..Newest, NEW h, NEW D, NEW d, Sound(d, s, h, D), Numbered(d), NEW id
  PROVE  Numbered(SaveOldEvent(d, id))
<1>1. CASE id \in DOMAIN d.evToOrder
  BY <1>1 DEF SaveOldEvent
<1>2. CASE id \notin DOMAIN d.evToOrder
  <2> DEFINE idx == FirstIdx(d.order) - 1
             midx == FirstIdx(d.order2msg) - 1
  <2>1. SaveOldEvent(d, id) = Insert(d, id, NoTok, idx, midx)
    BY <1>2 DEF SaveOldEvent
  <2>2. idx \in Int /\ midx \in Int /\ Ahead(d.order, idx) /\ Ahead(d.order2msg, midx)
    BY EndsInt, EndsBeyond DEF Sound
  <2> HIDE DEF idx, midx
  <2>3. Numbered(Insert(d, id, NoTok, idx, midx))
    BY <1>2, <2>2, InsertNumbered
  <2> QED BY <2>1, <2>3
<1> QED BY <1>1, <1>2

LEMMA ChunkNumbered ==
  ASSUME NEW s \in 0..Newest, NEW h, NEW D, NEW d, Sound(d, s, h, D), Numbered(d),
         NEW chunk \in Seq(1..h)
  PROVE  Numbered(SaveChunk(d, chunk).db)
<1>1. /\ chunk \in Seq(Int) /\ Len(chunk) \in Nat /\ \A k \in 1..Len(chunk) : chunk[k] \in 1..h
      /\ Sound(d, s, h, Mine)
  BY MineCovers
<1>2. PICK acc : ChunkRun(acc, d, chunk)
  BY <1>1, ChunkSteps
<1> DEFINE S == {n \in 0..Len(chunk) : Sound(acc[n].db, s, h, Mine) /\ Numbered(acc[n].db)}
<1>3. 0 \in S
  BY <1>1, <1>2 DEF ChunkRun
<1>4. ASSUME NEW n \in 1..Len(chunk), n - 1 \in S PROVE n \in S
  <2>1. Sound(acc[n - 1].db, s, h, Mine) /\ Numbered(acc[n - 1].db)
    BY <1>4
  <2>2. acc[n] = ChunkStep(acc[n - 1], chunk[n]) /\ chunk[n] \in 1..h /\ n \in 0..Len(chunk)
    BY <1>1, <1>2 DEF ChunkRun
  <2>3. acc[n] = acc[n - 1] \/ acc[n].db = SaveOldEvent(acc[n - 1].db, chunk[n])
    BY <2>2 DEF ChunkStep
  <2>4. /\ Sound(SaveOldEvent(acc[n - 1].db, chunk[n]), s, h, Mine)
        /\ Numbered(SaveOldEvent(acc[n - 1].db, chunk[n]))
    <3>1. ASSUME -chunk[n] \in DOMAIN acc[n - 1].db.evToOrder PROVE chunk[n] \in Mine
      <4>1. -chunk[n] \in Known(s, h)
        BY <2>1, <3>1 DEF Sound
      <4>2. PICK q \in Mine : -chunk[n] = -q
        BY <2>2, <4>1 DEF Known
      <4> QED BY <2>2, <4>2, Constants
    <3>2. Sound(SaveOldEvent(acc[n - 1].db, chunk[n]), s, h, Mine)
      BY <2>1, <2>2, <3>1, SaveOldEventSound
    <3>3. Numbered(SaveOldEvent(acc[n - 1].db, chunk[n]))
      BY <2>1, SaveOldEventNumbered
    <3> QED BY <3>2, <3>3
  <2> QED BY <2>1, <2>2, <2>3, <2>4
<1>5. Len(chunk) \in S
  <2> HIDE DEF S
  <2>1. 0..Len(chunk) \subseteq S
    BY <1>1, <1>3, <1>4, UpTo
  <2> QED BY <1>1, <2>1
<1> QED BY <1>2, <1>5 DEF ChunkRun

\* The entry that is written again at the front is in neither numbering.
LEMMA RewriteNumbered ==
  ASSUME NEW d, IsDb(d), Numbered(d), NEW i, NEW e
  PROVE  Numbered([d EXCEPT !.order = Put(@, i, e)])
<1> DEFINE c == [d EXCEPT !.order = Put(@, i, e)]
<1>1. /\ c.order = Put(d.order, i, e) /\ c.evToOrder = d.evToOrder
      /\ c.order2msg = d.order2msg /\ c.msg2order = d.msg2order
  BY DEF IsDb
<1> HIDE DEF c
<1>2. DOMAIN d.order \subseteq DOMAIN c.order
  BY <1>1 DEF Put
<1>3. Numbered(c)
  BY <1>1, <1>2 DEF Numbered
<1> QED BY <1>3 DEF c

LEMMA SaveOldNumbered ==
  ASSUME NEW s \in 0..Newest, NEW h, NEW D, NEW d, Sound(d, s, h, D), Numbered(d),
         NEW chunk \in Seq(1..h), NEW end
  PROVE  Numbered(SaveOldMessages(d, chunk, end))
<1> DEFINE new == SaveChunk(d, chunk)
           i == FirstIdx(new.db.order)
<1>m. Sound(d, s, h, Mine) /\ Covers(Mine, d, chunk)
  BY MineCovers
<1>1. /\ Sound(new.db, s, h, Mine) /\ Numbered(new.db)
      /\ new.last = NoEvent => \A k \in 1..Len(chunk) : chunk[k] \in Redactions
  BY <1>m, ChunkSound, ChunkNumbered
<1>2. i \in Int /\ IsDb(new.db) /\ IsDb(d)
  BY <1>1, EndsInt DEF Sound
<1>3. CASE chunk = <<>>
  <2>1. \/ SaveOldMessages(d, chunk, end) = d
        \/ \E e : SaveOldMessages(d, chunk, end) = [d EXCEPT !.order = Put(@, i, e)]
    BY <1>3 DEF SaveOldMessages
  <2> HIDE DEF i
  <2>2. CASE SaveOldMessages(d, chunk, end) = d
    BY <2>2
  <2>3. CASE \E e : SaveOldMessages(d, chunk, end) = [d EXCEPT !.order = Put(@, i, e)]
    <3>1. PICK e : SaveOldMessages(d, chunk, end) = [d EXCEPT !.order = Put(@, i, e)]
      BY <2>3
    <3>2. Numbered([d EXCEPT !.order = Put(@, i, e)])
      BY <1>2, RewriteNumbered
    <3> QED BY <3>1, <3>2
  <2> QED BY <2>1, <2>2, <2>3
<1>4. CASE chunk # <<>> /\ new.last = NoEvent
  <2> DEFINE id == Last(chunk)
             idx == i - 1
  <2>1. Len(chunk) \in 1..Len(chunk)
    BY <1>4
  <2>2. id \in Redactions
    BY <1>1, <1>4, <2>1 DEF Last
  <2>3. SaveOldMessages(d, chunk, end) = Insert(d, id, end, idx, 0)
    BY <1>4 DEF SaveOldMessages
  <2>4. idx \in Int /\ 0 \in Int
    BY <1>2
  <2> HIDE DEF id, idx
  <2>5. Numbered(Insert(d, id, end, idx, 0))
    BY <2>2, <2>4, InsertNumbered
  <2> QED BY <2>3, <2>5
<1>5. CASE chunk # <<>> /\ new.last # NoEvent
  <2> DEFINE c == new.db
  <2>1. PICK e : SaveOldMessages(d, chunk, end) = [c EXCEPT !.order = Put(@, i, e)]
    BY <1>5 DEF SaveOldMessages
  <2> HIDE DEF i, c
  <2>2. Numbered([c EXCEPT !.order = Put(@, i, e)])
    BY <1>1, <1>2, RewriteNumbered DEF c
  <2> QED BY <2>1, <2>2
<1> QED BY <1>3, <1>4, <1>5

\* One event of a sync leaves inverse tables inverse, if nothing has come twice.
LEMMA SaveEventInverse ==
  ASSUME NEW s \in 0..(Newest - 1), NEW h, NEW a, Sound(a.db, s, h, {}), InverseTables(a.db),
         NEW limited \in BOOLEAN, limited /\ a.first => DOMAIN a.db.evToOrder = {},
         NEW prev, NEW id, id = s + 1
  PROVE  LET b == SaveEvent(a, id, limited, prev)
         IN  /\ InverseTables(b.db)
             /\ limited /\ b.first => DOMAIN b.db.evToOrder = {}
<1> DEFINE b == SaveEvent(a, id, limited, prev)
           tok == IF a.first THEN prev ELSE NoTok
           idx == LastIdx(a.db.order) + 1
           midx == LastIdx(a.db.order2msg) + 1
<1>1. id \in 1..Newest /\ id # -id
  BY Constants
<1>2. CASE id \in Mine /\ -id \in DOMAIN a.db.evToOrder
  <2>1. b = [db |-> Echo(a.db, id, tok), first |-> a.first]
    BY <1>2 DEF SaveEvent
  <2>2. id \notin DOMAIN a.db.evToOrder
    BY <1>1, <1>2 DEF Sound, Alone
  <2>3. ~(limited /\ a.first)
    BY <1>2
  <2> HIDE DEF tok, b
  <2>4. InverseTables(Echo(a.db, id, tok))
    BY <1>1, <1>2, <2>2, EchoInverse
  <2> QED BY <2>1, <2>3, <2>4 DEF b
<1>3. CASE b = a
  BY <1>3
<1>4. CASE b # a /\ ~(id \in Mine /\ -id \in DOMAIN a.db.evToOrder)
  <2>1. /\ b = [db |-> Insert(a.db, id, tok, idx, midx), first |-> FALSE]
        /\ id \notin DOMAIN a.db.evToOrder
    BY <1>4 DEF SaveEvent
  <2>2. idx \notin DOMAIN a.db.order
    <3>1. Beyond(a.db.order, idx) /\ idx \in Int
      BY EndsInt, EndsBeyond DEF Sound
    <3> HIDE DEF idx
    <3> QED BY <3>1 DEF Beyond
  <2> HIDE DEF tok, b, idx, midx
  <2>3. InverseTables(Insert(a.db, id, tok, idx, midx))
    BY <2>1, <2>2, InsertInverse
  <2> QED BY <2>1, <2>3 DEF b
<1> QED BY <1>2, <1>3, <1>4

\* A sync leaves inverse tables inverse, and a limited one makes them so.
LEMMA BatchInverse ==
  ASSUME NEW from \in 0..Newest, NEW to \in 0..Newest, from < to, NEW d, NEW limited \in BOOLEAN,
         NEW h \in to..Newest, limited \/ (Sound(d, from, h, {}) /\ InverseTables(d))
  PROVE  InverseTables(SaveTimelineMessages(d, Positions(from, to), limited, from))
<1> DEFINE batch == Positions(from, to)
<1>1. /\ batch \in Seq(Int) /\ Len(batch) = to - from /\ batch # <<>>
      /\ \A n \in 1..(to - from) : batch[n] = from + n
  BY PositionsFacts
<1> HIDE DEF batch
<1>2. PICK acc : BatchRun(acc, d, batch, limited, from)
  BY <1>1, BatchSteps
<1> DEFINE S == {n \in 0..(to - from) :
                   /\ IsAcc(acc[n]) /\ Sound(acc[n].db, from + n, h, {})
                   /\ InverseTables(acc[n].db)
                   /\ limited /\ acc[n].first => DOMAIN acc[n].db.evToOrder = {}}
<1>3. 0 \in S
  <2>1. /\ Sound(EmptyDb, from, h, {}) /\ InverseTables(EmptyDb)
        /\ DOMAIN EmptyDb.evToOrder = {}
    <3>1. h \in from..Newest /\ {} \in SUBSET Mine
      BY Constants
    <3>2. InverseTables(EmptyDb) /\ DOMAIN EmptyDb.evToOrder = {}
      BY DEF InverseTables, EmptyDb, NoRows
    <3> QED BY <3>1, <3>2, EmptySound
  <2>2. acc[0] = [db |-> IF limited THEN EmptyDb ELSE d, first |-> TRUE]
    BY <1>2 DEF BatchRun
  <2>3. /\ IsAcc(acc[0]) /\ Sound(acc[0].db, from, h, {}) /\ InverseTables(acc[0].db)
        /\ limited /\ acc[0].first => DOMAIN acc[0].db.evToOrder = {}
    BY <2>1, <2>2 DEF IsAcc
  <2>4. from + 0 = from /\ 0 \in 0..(to - from)
    BY Constants
  <2> QED BY <2>3, <2>4
<1>4. ASSUME NEW n \in 1..(to - from), n - 1 \in S PROVE n \in S
  <2> DEFINE s == from + (n - 1)
             id == s + 1
  <2>1. s \in 0..(Newest - 1) /\ id = from + n /\ n \in 0..(to - from) /\ id <= h /\ id = s + 1
    BY Constants
  <2>2. /\ IsAcc(acc[n - 1]) /\ Sound(acc[n - 1].db, s, h, {}) /\ InverseTables(acc[n - 1].db)
        /\ limited /\ acc[n - 1].first => DOMAIN acc[n - 1].db.evToOrder = {}
    BY <1>4
  <2>3. from \in Tokens(h)
    BY Constants DEF Tokens
  <2>4. acc[n] = SaveEvent(acc[n - 1], id, limited, from)
    BY <1>1, <1>2, <2>1 DEF BatchRun
  <2> HIDE DEF s, id, S
  <2>5. LET b == SaveEvent(acc[n - 1], id, limited, from) IN IsAcc(b) /\ Sound(b.db, id, h, {})
    BY <2>1, <2>2, <2>3, SaveEventSound
  <2>6. LET b == SaveEvent(acc[n - 1], id, limited, from)
        IN  InverseTables(b.db) /\ (limited /\ b.first => DOMAIN b.db.evToOrder = {})
    BY <2>1, <2>2, SaveEventInverse
  <2> QED BY <2>1, <2>4, <2>5, <2>6 DEF S
<1>5. to - from \in S
  <2>1. to - from \in Nat
    BY Constants
  <2> HIDE DEF S
  <2>2. 0..(to - from) \subseteq S
    BY <1>3, <1>4, <2>1, UpTo
  <2> QED BY <2>1, <2>2
<1>6. SaveTimelineMessages(d, batch, limited, from) = acc[to - from].db
  BY <1>1, <1>2 DEF BatchRun
<1> QED BY <1>5, <1>6 DEF batch

\* The oldest entries of inverse tables go, and with them the oldest rows, which leaves
\* no holes.
LEMMA ForgetOldest ==
  ASSUME NEW s \in 0..Newest, NEW h, NEW d, Sound(d, s, h, {}), Filled(d), Numbered(d),
         InverseTables(d), NEW cut \in Int
  PROVE  LET e == Forget(d, {i \in DOMAIN d.order : i < cut}) IN Filled(e) /\ Numbered(e)
<1> DEFINE idxs == {i \in DOMAIN d.order : i < cut}
           ids == {d.order[i].id : i \in idxs}
           gone == {d.msg2order[id] : id \in ids \cap DOMAIN d.msg2order}
           e == Forget(d, idxs)
<1>1. /\ e.order = Del(d.order, idxs) /\ e.evToOrder = Del(d.evToOrder, ids)
      /\ e.order2msg = Del(d.order2msg, gone) /\ e.msg2order = Del(d.msg2order, ids)
  BY DEF Forget
<1>2. DOMAIN d.order \subseteq Int /\ DOMAIN d.order2msg \subseteq Int
  BY DEF Sound, Bounded
<1>3. \A id \in DOMAIN d.evToOrder : id \in ids <=> d.evToOrder[id] < cut
  BY DEF InverseTables
<1>4. \A id \in DOMAIN d.msg2order :
        /\ id \notin Redactions /\ id \in DOMAIN d.evToOrder
        /\ d.evToOrder[id] \in DOMAIN d.order
        /\ d.msg2order[id] \in DOMAIN d.order2msg /\ d.order2msg[d.msg2order[id]] = id
  BY DEF Numbered
<1>5. \A m \in DOMAIN d.order2msg :
        d.order2msg[m] \in DOMAIN d.msg2order /\ d.msg2order[d.order2msg[m]] = m
  BY DEF Sound, OwnSlots
<1>6. \A m \in DOMAIN d.order2msg : m \in gone <=> d.order2msg[m] \in ids
  BY <1>4, <1>5
<1> HIDE DEF e, ids, gone
<1>7. ASSUME NEW m \in DOMAIN d.order2msg, NEW n \in DOMAIN d.order2msg, m < n, n \in gone
      PROVE  m \in gone
  <2> DEFINE a == d.order2msg[m]
             b == d.order2msg[n]
  <2>1. /\ a \in DOMAIN d.msg2order /\ b \in DOMAIN d.msg2order
        /\ d.msg2order[a] = m /\ d.msg2order[b] = n
    BY <1>5
  <2>2. d.evToOrder[b] < cut
    BY <1>3, <1>4, <1>6, <1>7, <2>1
  <2>3. ~(d.evToOrder[b] < d.evToOrder[a])
    <3>1. d.evToOrder[b] < d.evToOrder[a] => d.msg2order[b] < d.msg2order[a]
      BY <2>1 DEF Numbered
    <3> QED BY <1>2, <1>7, <2>1, <3>1
  <2>4. d.evToOrder[a] < cut
    BY <1>2, <1>4, <2>1, <2>2, <2>3
  <2> QED BY <1>3, <1>4, <1>6, <2>1, <2>4
<1>8. /\ DOMAIN e.order2msg = DOMAIN d.order2msg \ gone
      /\ \A m \in DOMAIN e.order2msg : e.order2msg[m] = d.order2msg[m]
  BY <1>1 DEF Del, Restrict
<1>9. /\ DOMAIN e.msg2order = DOMAIN d.msg2order \ ids
      /\ \A id \in DOMAIN e.msg2order : e.msg2order[id] = d.msg2order[id]
  BY <1>1 DEF Del, Restrict
<1>10. /\ DOMAIN e.evToOrder = DOMAIN d.evToOrder \ ids
       /\ \A id \in DOMAIN e.evToOrder : e.evToOrder[id] = d.evToOrder[id]
  BY <1>1 DEF Del, Restrict
<1>11. DOMAIN e.order = {i \in DOMAIN d.order : ~(i < cut)}
  BY <1>1 DEF Del, Restrict
<1>12. \A id \in DOMAIN e.msg2order : d.msg2order[id] \notin gone
  BY <1>4, <1>6, <1>9
<1>13. Numbered(e)
  <2>1. ASSUME NEW id \in DOMAIN e.evToOrder PROVE e.evToOrder[id] \in DOMAIN e.order
    BY <1>3, <1>10, <1>11 DEF Numbered
  <2>2. ASSUME NEW id \in DOMAIN e.msg2order
        PROVE  /\ id \notin Redactions /\ id \in DOMAIN e.evToOrder
               /\ e.msg2order[id] \in DOMAIN e.order2msg /\ e.order2msg[e.msg2order[id]] = id
    BY <1>4, <1>8, <1>9, <1>10, <1>12
  <2>3. \A a, b \in DOMAIN e.msg2order :
          e.evToOrder[a] < e.evToOrder[b] => e.msg2order[a] < e.msg2order[b]
    BY <1>9, <1>10, <2>2 DEF Numbered
  <2> QED BY <2>1, <2>2, <2>3 DEF Numbered
<1>14. Filled(e)
  <2>1. PICK a \in Int, b \in Int : DOMAIN d.order2msg = a..b
    BY DEF Filled
  <2>2. \E x, y \in Int : DOMAIN e.order2msg = x..y
    <3>1. CASE DOMAIN e.order2msg = {}
      <4>1. DOMAIN e.order2msg = 1..0
        BY <3>1
      <4> QED BY <4>1
    <3>2. CASE DOMAIN e.order2msg # {}
      <4>1. Bounded(e.order2msg)
        BY <1>8, <2>1 DEF Bounded
      <4>2. PICK x \in DOMAIN e.order2msg : \A y \in DOMAIN e.order2msg : x <= y
        BY <3>2, <4>1, EndsOfTable
      <4>3. DOMAIN e.order2msg = x..b
        BY <1>7, <1>8, <2>1, <4>2
      <4> QED BY <1>8, <2>1, <4>3
    <3> QED BY <3>1, <3>2
  <2>3. \A id \in DOMAIN e.msg2order : e.msg2order[id] \in DOMAIN e.order2msg
    BY <1>13 DEF Numbered
  <2> QED BY <2>2, <2>3 DEF Filled
<1> QED BY <1>13, <1>14 DEF e

LEMMA TrimRows ==
  ASSUME NEW s \in 0..Newest, NEW h, NEW d, Sound(d, s, h, {}), Filled(d), Numbered(d),
         InverseTables(d)
  PROVE  Filled(DeleteOldMessages(d)) /\ Numbered(DeleteOldMessages(d))
<1> DEFINE n == LastIdx(d.order) - FirstIdx(d.order)
           cut == FirstIdx(d.order) + n - MaxRestored
<1>1. cut \in Int
  BY EndsInt, Constants DEF Sound
<1>2. \/ DeleteOldMessages(d) = d
      \/ DeleteOldMessages(d) = Forget(d, {i \in DOMAIN d.order : i < cut})
  BY DEF DeleteOldMessages
<1> HIDE DEF cut
<1>3. LET e == Forget(d, {i \in DOMAIN d.order : i < cut}) IN Filled(e) /\ Numbered(e)
  BY <1>1, ForgetOldest
<1> QED BY <1>2, <1>3

----------------------------------------------------------------------------

\* The window v shows the rows of the tables d, but for the newest ones when EventStore was
\* not told of rows that were appended.
Frames(d, v, u) ==
  \E a, b, c \in Int :
    /\ a <= c /\ c <= b /\ (c = b \/ u = "rows")
    /\ DOMAIN d.order2msg = a..b /\ v = [first |-> a, last |-> c]

\* The window is empty or shows the rows of the tables, unless EventStore was not told that
\* they were replaced or trimmed.
Fits(d, v, u) == Filled(d) /\ (v = NoView \/ u = "tables" \/ Frames(d, v, u))

LEMMA RangeOfRows ==
  ASSUME NEW d, NEW a \in Int, NEW b \in Int, a <= b, DOMAIN d.order2msg = a..b
  PROVE  /\ TimelineRange(d) = [first |-> a, last |-> b] /\ TimelineRange(d) # NoView
         /\ FirstIdx(d.order2msg) = a
<1>1. FirstIdx(d.order2msg) = a /\ LastIdx(d.order2msg) = b
  BY EndsOfInterval
<1>2. DOMAIN d.order2msg # {}
  OBVIOUS
<1>3. TimelineRange(d) = [first |-> a, last |-> b]
  BY <1>1, <1>2 DEF TimelineRange, FirstIdx, LastIdx
<1>4. [first |-> a, last |-> b] # NoView
  <2>1. a # NoIdx
    BY EmptyAssumption
  <2> QED BY <2>1 DEF NoView
<1> QED BY <1>1, <1>3, <1>4

\* The whole range of the rows, as a reset of the window shows it.
LEMMA RangeFits ==
  ASSUME NEW d, Filled(d), NEW u
  PROVE  Fits(d, TimelineRange(d), u)
<1>1. PICK a \in Int, b \in Int : DOMAIN d.order2msg = a..b
  BY DEF Filled
<1>2. CASE DOMAIN d.order2msg = {}
  BY <1>2 DEF TimelineRange, Fits
<1>3. CASE DOMAIN d.order2msg # {}
  <2>1. a <= b
    BY <1>1, <1>3
  <2>2. TimelineRange(d) = [first |-> a, last |-> b]
    BY <1>1, <2>1, RangeOfRows
  <2>3. Frames(d, TimelineRange(d), u)
    BY <1>1, <2>1, <2>2 DEF Frames
  <2> QED BY <2>3 DEF Fits
<1> QED BY <1>2, <1>3

\* Rows are appended, and EventStore is not told.
LEMMA UntoldFits ==
  ASSUME NEW d, NEW v, NEW u, Fits(d, v, u), NEW e, Upwards(d, e), NEW w,
         w = "rows" \/ w = "tables", u = "tables" => w = "tables"
  PROVE  Fits(e, v, w)
<1>1. Filled(e)
  BY DEF Upwards
<1>2. CASE v = NoView \/ w = "tables"
  BY <1>1, <1>2 DEF Fits
<1>3. CASE v # NoView /\ w = "rows"
  <2>1. PICK a \in Int, b \in Int, c \in Int :
          a <= c /\ c <= b /\ DOMAIN d.order2msg = a..b /\ v = [first |-> a, last |-> c]
    BY <1>3 DEF Fits, Frames
  <2>2. a <= b
    BY <2>1
  <2>3. PICK x \in Int : b <= x /\ DOMAIN e.order2msg = a..x
    BY <2>1, <2>2 DEF Upwards
  <2>4. c <= x
    BY <2>1, <2>3
  <2>5. Frames(e, v, w)
    BY <1>3, <2>1, <2>3, <2>4 DEF Frames
  <2> QED BY <1>1, <2>5 DEF Fits
<1> QED BY <1>2, <1>3

\* handleSync lets the window grow with the rows that were appended, those that it was not
\* told of before included.
LEMMA HandleSyncFits ==
  ASSUME untold \in Untold, Fits(db, view, untold), Upwards(db, db'), HandleSync(FALSE), Told
  PROVE  Fits(db', view', untold')
<1> DEFINE range == TimelineRange(db')
<1>1. Filled(db')
  BY DEF Upwards
<1>2. view' = IF range = NoView THEN range
              ELSE IF view # NoView /\ range.last > view.last THEN [view EXCEPT !.last = range.last]
              ELSE view
  BY DEF HandleSync
<1>3. CASE view = NoView
  <2>1. view' = NoView
    BY <1>2, <1>3
  <2> QED BY <1>1, <2>1 DEF Fits
<1>4. CASE untold = "tables"
  <2>1. untold' = "tables"
    BY <1>4 DEF Told
  <2> QED BY <1>1, <2>1 DEF Fits
<1>5. CASE view # NoView /\ untold # "tables"
  <2>1. PICK a \in Int, b \in Int, c \in Int :
          a <= c /\ c <= b /\ DOMAIN db.order2msg = a..b /\ view = [first |-> a, last |-> c]
    BY <1>5 DEF Fits, Frames
  <2>a. a <= b
    BY <2>1
  <2>2. PICK x \in Int : b <= x /\ DOMAIN db'.order2msg = a..x
    BY <2>1, <2>a DEF Upwards
  <2>3. a <= x /\ c <= x
    BY <2>1, <2>2
  <2>4. range = [first |-> a, last |-> x] /\ range # NoView
    BY <2>2, <2>3, RangeOfRows
  <2> HIDE DEF range
  <2>5. view' = IF x > c THEN [view EXCEPT !.last = x] ELSE view
    BY <1>2, <1>5, <2>1, <2>4
  <2>6. view' = [first |-> a, last |-> x]
    <3>1. CASE x > c
      BY <2>1, <2>5, <3>1
    <3>2. CASE x = c
      BY <2>1, <2>5, <3>2
    <3> QED BY <2>1, <2>2, <2>3, <3>1, <3>2
  <2>7. x <= x
    BY <2>2
  <2>8. Frames(db', view', untold')
    BY <2>2, <2>3, <2>6, <2>7 DEF Frames
  <2> QED BY <1>1, <2>8 DEF Fits
<1> QED BY <1>3, <1>4, <1>5

\* oldMessagesRetrieved lets it grow with the rows that were put in front.
LEMMA OldSavedFits ==
  ASSUME Fits(db, view, untold), NEW new, Downwards(db, new), OldSaved(new)
  PROVE  Fits(new, view', untold)
<1> DEFINE range == TimelineRange(new)
<1>1. Filled(new)
  BY DEF Downwards
<1>2. \/ view' = view /\ (FirstIdx(new.order2msg) = view.first \/ view = NoView)
      \/ view' = IF view = NoView THEN range ELSE [view EXCEPT !.first = FirstIdx(new.order2msg)]
  BY DEF OldSaved
<1>3. CASE view = NoView
  <2>1. view' = NoView \/ view' = range
    BY <1>2, <1>3
  <2>2. Fits(new, range, untold)
    BY <1>1, RangeFits
  <2> QED BY <1>1, <2>1, <2>2 DEF Fits
<1>4. CASE untold = "tables"
  BY <1>1, <1>4 DEF Fits
<1>5. CASE view # NoView /\ untold # "tables"
  <2>1. PICK a \in Int, b \in Int, c \in Int :
          /\ a <= c /\ c <= b /\ (c = b \/ untold = "rows")
          /\ DOMAIN db.order2msg = a..b /\ view = [first |-> a, last |-> c]
    BY <1>5 DEF Fits, Frames
  <2>a. a <= b
    BY <2>1
  <2>2. PICK x \in Int : x <= a /\ DOMAIN new.order2msg = x..b
    BY <2>1, <2>a DEF Downwards
  <2>3. x <= c /\ x <= b
    BY <2>1, <2>2
  <2>4. FirstIdx(new.order2msg) = x
    BY <2>2, <2>3, RangeOfRows
  <2>5. (view' = view /\ x = view.first) \/ view' = [view EXCEPT !.first = x]
    BY <1>2, <1>5, <2>4
  <2>6. view' = [first |-> x, last |-> c]
    BY <2>1, <2>5
  <2>7. Frames(new, view', untold)
    BY <2>1, <2>2, <2>3, <2>6 DEF Frames
  <2> QED BY <1>1, <2>7 DEF Fits
<1> QED BY <1>3, <1>4, <1>5

\* What the window needs of the tables.
Framing == Fits(db, view, untold) /\ Numbered(db)

LEMMA InitFraming == Init => Framing
<1> SUFFICES ASSUME Init PROVE Fits(db, view, untold) /\ Numbered(db)
  BY DEF Framing
<1> DEFINE batch == <<Start>>
           t == Start - 1
<1>1. db = SaveTimelineMessages(EmptyDb, batch, TRUE, t) /\ view = TimelineRange(db)
  BY DEF Init
<1>2. batch \in Seq(Int) /\ batch # <<>>
  BY Constants
<1>3. t \in 0..Newest /\ Start \in 0..Newest /\ t < Start
  BY Constants
<1>4. Positions(t, Start) = batch
  <2>1. Start - t = 1
    BY Constants
  <2>2. Positions(t, Start) = [k \in 1..1 |-> t + k]
    BY <2>1 DEF Positions
  <2>3. <<Start>> = [k \in 1..1 |-> Start]
    OBVIOUS
  <2>4. \A k \in 1..1 : t + k = Start
    BY Constants
  <2> QED BY <2>2, <2>3, <2>4
<1> HIDE DEF batch, t
<1>5. Upwards(EmptyDb, SaveTimelineMessages(EmptyDb, batch, TRUE, t))
  <2>1. Upwards(IF TRUE THEN EmptyDb ELSE EmptyDb, SaveTimelineMessages(EmptyDb, batch, TRUE, t))
    BY <1>2, EmptyRows, BatchRows
  <2> QED BY <2>1
<1>6. Filled(db)
  BY <1>1, <1>5 DEF Upwards
<1>7. Numbered(SaveTimelineMessages(EmptyDb, Positions(t, Start), TRUE, t))
  <2>1. Start \in Start..Newest /\ {} \in SUBSET Mine
    BY Constants
  <2> QED BY <1>3, <2>1, BatchNumbered
<1>8. Numbered(db)
  BY <1>1, <1>4, <1>7
<1> QED BY <1>1, <1>6, <1>8, RangeFits

\* The homeserver has the events that a sync brings.
LEMMA Furthers ==
  ASSUME NEW s \in 0..Newest, NEW h, NEW D, NEW d, Sound(d, s, h, D), NEW to \in 0..Newest, s < to
  PROVE  \E k \in to..Newest : Sound(d, s, k, D)
<1> DEFINE k == Furthest(h, to)
<1>1. h \in s..Newest /\ D \in SUBSET Mine
  BY DEF Sound
<1>2. k \in h..Newest /\ k \in to..Newest
  BY <1>1, Constants DEF Furthest
<1> HIDE DEF k
<1>3. Sound(d, s, k, D)
  BY <1>1, <1>2, SoundLater
<1> QED BY <1>2, <1>3

\* saveState appends the rows of a sync that continues where the last one ended.
LEMMA SaveNextRows ==
  ASSUME State, Framing, SaveNext(FALSE)
  PROVE  Upwards(db, db') /\ Numbered(db')
<1>s. /\ synced \in 0..Newest /\ Sound(db, synced, head, doubled) /\ head \in synced..Newest
      /\ doubled \in SUBSET Mine /\ Filled(db) /\ Numbered(db)
  BY Constants DEF State, Sound, Framing, Fits
<1>1. PICK to \in (synced + 1)..Newest :
        db' = Trimmed(SaveTimelineMessages(db, Positions(synced, to), FALSE, synced), FALSE)
  BY DEF SaveNext
<1>2. to \in 0..Newest /\ synced < to
  BY <1>s, Constants
<1> DEFINE batch == Positions(synced, to)
<1>3. batch \in Seq(Int) /\ batch # <<>>
  BY <1>s, <1>2, PositionsFacts
<1>4. Numbered(SaveTimelineMessages(db, Positions(synced, to), FALSE, synced))
  <2>1. PICK h \in to..Newest : Sound(db, synced, h, doubled)
    BY <1>s, <1>2, Furthers
  <2> QED BY <1>s, <1>2, <2>1, BatchNumbered
<1> HIDE DEF batch
<1>5. Upwards(db, SaveTimelineMessages(db, batch, FALSE, synced))
  <2>1. Upwards(IF FALSE THEN EmptyDb ELSE db, SaveTimelineMessages(db, batch, FALSE, synced))
    BY <1>s, <1>3, BatchRows
  <2> QED BY <2>1
<1>6. db' = SaveTimelineMessages(db, batch, FALSE, synced)
  BY <1>1 DEF Trimmed, batch
<1> QED BY <1>4, <1>5, <1>6 DEF batch

\* The tables after a limited sync, trimmed or not, and after a sync whose tables are
\* trimmed, if they were inverse and nothing had come twice.
LEMMA SaveRows ==
  ASSUME State, Framing, NEW full \in BOOLEAN,
         \/ SaveLimited(full)
         \/ full /\ SaveNext(full) /\ OrderInverse /\ doubled = {}
  PROVE  Filled(db') /\ Numbered(db')
<1>s. /\ synced \in 0..Newest /\ Sound(db, synced, head, doubled) /\ head \in synced..Newest
      /\ Filled(db) /\ Numbered(db)
  BY Constants DEF State, Sound, Framing, Fits
\* The tables new that saveState commits.
<1>n. ASSUME NEW from \in 0..Newest, NEW to \in 0..Newest, from < to, NEW limited \in BOOLEAN,
             limited \/ (from = synced /\ OrderInverse /\ doubled = {}),
             db' = Trimmed(SaveTimelineMessages(db, Positions(from, to), limited, from), full)
      PROVE  Filled(db') /\ Numbered(db')
  <2> DEFINE new == SaveTimelineMessages(db, Positions(from, to), limited, from)
  <2>1. PICK h \in to..Newest : limited \/ Sound(db, from, h, {})
    <3>1. CASE limited
      <4>1. to \in to..Newest
        OBVIOUS
      <4> QED BY <3>1, <4>1
    <3>2. CASE ~limited
      BY <1>n, <1>s, <3>2, Furthers
    <3> QED BY <3>1, <3>2
  <2>2. {} \in SUBSET Mine /\ (limited \/ InverseTables(db))
    BY <1>n DEF OrderInverse, InverseTables
  <2>3. Sound(new, to, h, {})
    BY <1>n, <2>1, <2>2, BatchSound
  <2>4. InverseTables(new)
    BY <1>n, <2>1, <2>2, BatchInverse
  <2>5. Numbered(new)
    BY <1>n, <1>s, <2>1, <2>2, BatchNumbered
  <2>6. Filled(new)
    <3> DEFINE batch == Positions(from, to)
    <3>1. batch \in Seq(Int) /\ batch # <<>>
      BY <1>n, PositionsFacts
    <3> HIDE DEF batch
    <3>2. Upwards(IF limited THEN EmptyDb ELSE db, SaveTimelineMessages(db, batch, limited, from))
      BY <1>s, <3>1, BatchRows
    <3> QED BY <3>2 DEF Upwards, batch
  <2>7. db' = Trimmed(new, full)
    BY <1>n
  <2> HIDE DEF new
  <2>8. Filled(DeleteOldMessages(new)) /\ Numbered(DeleteOldMessages(new))
    BY <1>n, <2>3, <2>4, <2>5, <2>6, TrimRows
  <2> QED BY <2>5, <2>6, <2>7, <2>8 DEF Trimmed
<1>1. CASE SaveLimited(full)
  <2>1. PICK from \in (synced + 1)..(Newest - 1), to \in (synced + 2)..Newest :
          /\ from < to
          /\ db' = Trimmed(SaveTimelineMessages(db, Positions(from, to), TRUE, from), full)
    BY <1>1 DEF SaveLimited
  <2>2. from \in 0..Newest /\ to \in 0..Newest
    BY <1>s, Constants
  <2> QED BY <1>n, <2>1, <2>2
<1>2. CASE SaveNext(full) /\ OrderInverse /\ doubled = {}
  <2>1. PICK to \in (synced + 1)..Newest :
          db' = Trimmed(SaveTimelineMessages(db, Positions(synced, to), FALSE, synced), full)
    BY <1>2 DEF SaveNext
  <2>2. to \in 0..Newest /\ synced < to
    BY <1>s, Constants
  <2> QED BY <1>2, <1>n, <1>s, <2>1, <2>2
<1> QED BY <1>1, <1>2

\* Every step keeps it, but one that removes messages behind the window's back; a trim
\* does so when it meets tables that are not inverse, or events that have two entries.
LEMMA FramingStep ==
  ASSUME State, Framing, [Next]_vars, ~ClearTimeline,
         Restart \/ MapFull => OrderInverse /\ doubled = {}
  PROVE  Framing'
<1>f. Fits(db, view, untold) /\ Filled(db) /\ Numbered(db)
  BY DEF Framing, Fits
<1>s. /\ synced \in 0..Newest /\ Sound(db, synced, head, doubled) /\ untold \in Untold
      /\ head \in synced..Newest /\ TRUE \in BOOLEAN /\ FALSE \in BOOLEAN
  BY Constants DEF State, Sound
<1>u. ASSUME UNCHANGED <<db, view, untold>> PROVE Framing'
  BY <1>f, <1>u DEF Framing
<1>t. ASSUME untold' = "tables", Filled(db'), Numbered(db') PROVE Framing'
  BY <1>t DEF Framing, Fits
<1>i. OrderInverse => InverseTables(db)
  BY DEF OrderInverse, InverseTables
<1>1. CASE AddPending
  <2>1. PICK q \in Mine : -q \notin DOMAIN db.evToOrder
                          /\ db' = SaveTimelineMessages(db, <<-q>>, FALSE, NoTok)
    BY <1>1 DEF AddPending
  <2> DEFINE id == -q
             idx == LastIdx(db.order) + 1
             midx == LastIdx(db.order2msg) + 1
             e == Insert(db, id, NoTok, idx, midx)
  <2>2. db' = e
    BY <2>1, PendingInsert
  <2>3. Upwards(db, e)
    BY <1>f, InsertRow
  <2>4. idx \in Int /\ midx \in Int /\ Beyond(db.order, idx) /\ Beyond(db.order2msg, midx)
    BY <1>s, EndsInt, EndsBeyond DEF Sound
  <2>5. id \notin DOMAIN db.evToOrder
    BY <2>1
  <2>6. Numbered(e)
    <3> HIDE DEF id, idx, midx
    <3> QED BY <1>f, <1>s, <2>4, <2>5, InsertNumbered
  <2>7. Upwards(db, db') /\ Numbered(db')
    <3> HIDE DEF e
    <3> QED BY <2>2, <2>3, <2>6 DEF Numbered
  <2>8. HandleSync(FALSE) /\ Told
    BY <1>1 DEF AddPending
  <2> QED BY <1>f, <1>s, <2>7, <2>8, HandleSyncFits DEF Framing
<1>2. CASE Sync
  <2>1. SaveNext(FALSE) /\ HandleSync(FALSE) /\ Told
    BY <1>2 DEF Sync
  <2>2. Upwards(db, db') /\ Numbered(db')
    BY <2>1, SaveNextRows
  <2> QED BY <1>f, <1>s, <2>1, <2>2, HandleSyncFits DEF Framing
<1>3. CASE SyncLimited
  <2>1. Filled(db') /\ Numbered(db')
    BY <1>3, <1>s, SaveRows DEF SyncLimited
  <2>2. view' = TimelineRange(db')
    BY <1>3 DEF SyncLimited, HandleSync
  <2> QED BY <2>1, <2>2, RangeFits DEF Framing
<1>4. CASE SyncFails
  <2>1. CASE SaveNext(FALSE) /\ untold' = (IF untold = "tables" THEN untold ELSE "rows")
    <3>1. Upwards(db, db') /\ Numbered(db')
      BY <2>1, SaveNextRows
    <3>2. UNCHANGED view
      BY <1>4 DEF SyncFails
    <3>3. /\ untold' = "rows" \/ untold' = "tables"
          /\ untold = "tables" => untold' = "tables"
      BY <2>1
    <3>4. Fits(db', view, untold')
      BY <1>f, <3>1, <3>3, UntoldFits
    <3> QED BY <3>1, <3>2, <3>4 DEF Framing
  <2>2. CASE SaveLimited(FALSE) /\ untold' = "tables"
    BY <1>s, <1>t, <2>2, SaveRows
  <2> QED BY <1>4, <2>1, <2>2 DEF SyncFails
<1>5. CASE MapFull
  <2>1. untold' = "tables" /\ OrderInverse /\ doubled = {}
    BY <1>5 DEF MapFull
  <2>2. CASE SaveNext(TRUE) \/ SaveLimited(TRUE)
    BY <1>s, <1>t, <2>1, <2>2, SaveRows
  <2>3. CASE db' = DeleteOldMessages(db)
    BY <1>f, <1>i, <1>s, <1>t, <2>1, <2>3, TrimRows
  <2> QED BY <1>5, <2>2, <2>3 DEF MapFull
<1>6. CASE FetchMore \/ Response \/ HandleFetchedMore
  <2>1. UNCHANGED <<db, view, untold>>
    BY <1>6, Zenon DEF FetchMore, Response, HandleFetchedMore, history
  <2> QED BY <1>u, <2>1
<1>7. CASE HandleOld
  <2> DEFINE new == SaveOldMessages(db, uiq[1].res.chunk, uiq[1].res.end)
  <2>1. \/ UNCHANGED <<db, view>>
        \/ db' = new /\ OldSaved(new)
    BY <1>7 DEF HandleOld, OldSaved
  <2>h. UNCHANGED untold
    BY <1>7 DEF HandleOld
  <2>2. uiq[1].res.chunk \in Seq(1..head)
    <3>1. uiq # <<>> /\ uiq[1].kind = "old" /\ uiq \in Seq(UiAnswers(head))
      BY <1>7 DEF HandleOld, State
    <3>2. uiq[1] \in UiAnswers(head)
      BY <3>1
    <3> QED BY <3>1, <3>2 DEF UiAnswers, Pages
  <2>3. Downwards(db, new) /\ Numbered(new)
    BY <1>f, <1>s, <2>2, SaveOldRows, SaveOldNumbered
  <2> HIDE DEF new
  <2>4. CASE db' = new /\ OldSaved(new)
    <3>1. Fits(new, view', untold)
      BY <1>f, <2>3, <2>4, OldSavedFits
    <3> QED BY <2>3, <2>4, <2>h, <3>1 DEF Framing
  <2> QED BY <1>u, <2>1, <2>4, <2>h
<1>9. CASE Restart
  <2>1. InverseTables(db) /\ doubled = {}
    BY <1>9, <1>i
  <2>2. Filled(DeleteOldMessages(db)) /\ Numbered(DeleteOldMessages(db))
    BY <1>f, <1>s, <2>1, TrimRows
  <2>3. db' = DeleteOldMessages(db) /\ view' = TimelineRange(db')
    BY <1>9 DEF Restart
  <2> QED BY <2>2, <2>3, RangeFits DEF Framing
<1>11. CASE UNCHANGED vars
  BY <1>11, <1>u DEF vars, history
<1> QED
  BY <1>1, <1>2, <1>3, <1>4, <1>5, <1>6, <1>7, <1>9, <1>11 DEF Next

LEMMA FramingMatches == Framing => WindowMatches
<1> SUFFICES ASSUME Fits(db, view, untold), view # NoView, untold # "tables"
             PROVE  /\ view.first <= view.last /\ view.last <= LastIdx(db.order2msg)
                    /\ DOMAIN db.order2msg = view.first..LastIdx(db.order2msg)
                    /\ untold = "nothing" => view.last = LastIdx(db.order2msg)
  BY DEF Framing, WindowMatches
<1>1. PICK a \in Int, b \in Int, c \in Int :
        /\ a <= c /\ c <= b /\ (c = b \/ untold = "rows")
        /\ DOMAIN db.order2msg = a..b /\ view = [first |-> a, last |-> c]
  BY DEF Fits, Frames
<1>2. a <= b
  BY <1>1
<1>3. LastIdx(db.order2msg) = b
  BY <1>1, <1>2, EndsOfInterval
<1> QED BY <1>1, <1>3

\* EventStore computes rows as differences of indices: the window it shows is the range of
\* messages that the table holds without holes, or the older part of it while EventStore
\* has not been told of a sync, whatever limited syncs, stale pages, LMDB errors after
\* saveState's commit and restarts come, as long as no trim meets order tables that are not
\* inverse or an event next to its local echo.
THEOREM WindowFitsTrims ==
  Spec /\ [][Restart \/ MapFull => OrderInverse /\ doubled = {}]_vars => []WindowMatches
<1> DEFINE J == clears = 0 => Framing
           Clean == Restart \/ MapFull => OrderInverse /\ doubled = {}
<1>1. Init => J
  BY InitFraming
<1>2. State /\ Counters /\ J /\ [Next]_vars /\ [Clean]_vars => J'
  <2> SUFFICES ASSUME State, Counters, J, [Next]_vars, [Clean]_vars, clears' = 0
               PROVE  Framing'
    OBVIOUS
  <2>1. clears = 0 /\ ~ClearTimeline
    BY CounterSteps DEF Counters
  <2>2. Restart \/ MapFull => OrderInverse /\ doubled = {}
    <3>1. UNCHANGED vars => ~Restart /\ ~MapFull
      BY CounterSteps DEF Counters, vars, bounds
    <3> QED BY <3>1
  <2> QED BY <2>1, <2>2, FramingStep
<1>3. J => WindowMatches
  BY FramingMatches DEF WindowMatches
<1>4. Steady => Counters
  BY DEF Steady
<1> QED BY <1>1, <1>2, <1>3, <1>4, AlwaysSound, AlwaysSteady, PTL DEF Spec

\* No clear has come yet; and, unless neither a restart nor a full database has come, no
\* limited sync, and no more than one of them if it could have trimmed.
Kept ==
  /\ clears = 0
  /\ \/ restarts = 0 /\ fulls = 0
     \/ limits = 0 /\ (restarts + fulls = 1 \/ MaxRestored >= Newest)

\* Of the behaviours of the program these are the ones whose trims find inverse tables,
\* because nothing has disturbed them: one trim is among them.
THEOREM WindowFits == Spec => [](Kept => WindowMatches)
<1> DEFINE J == Kept => Framing
<1>1. Init => J
  BY InitFraming
<1>2. State /\ Steady /\ J /\ [Next]_vars => J'
  <2> SUFFICES ASSUME State, Steady, J, [Next]_vars, Kept' PROVE Framing'
    OBVIOUS
  <2>c. /\ limits \in Nat /\ clears \in Nat /\ restarts \in Nat /\ fulls \in Nat
        /\ limits' = limits \/ limits' = limits + 1
        /\ clears' = clears \/ clears' = clears + 1
        /\ restarts' = restarts \/ restarts' = restarts + 1
        /\ fulls' = fulls \/ fulls' = fulls + 1
        /\ ClearTimeline => clears' = clears + 1
        /\ Restart => restarts' = restarts + 1 /\ fulls' = fulls
        /\ MapFull => fulls' = fulls + 1 /\ restarts' = restarts
    BY CounterSteps DEF Steady, Counters
  <2>1. Kept /\ ~ClearTimeline
    BY <2>c DEF Kept
  <2>2. Restart \/ MapFull => Undisturbed
    BY <2>c DEF Kept, Undisturbed
  <2>3. Restart \/ MapFull => OrderInverse /\ doubled = {}
    BY <2>2, UndisturbedFacts
  <2> QED BY <2>1, <2>3, FramingStep
<1>3. J => (Kept => WindowMatches)
  BY FramingMatches
<1> QED BY <1>1, <1>2, <1>3, AlwaysSound, AlwaysSteady, PTL DEF Spec

=============================================================================
