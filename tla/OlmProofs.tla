----------------------------- MODULE OlmProofs -----------------------------
(***************************************************************************)
(* Theorems about Olm for any number of sessions, of messages under way    *)
(* and of faults, and for both devices sending or only one.                *)
(***************************************************************************)
EXTENDS Olm, TLAPS, SequenceTheorems

\* The rows of a device's sessions, a session having one.
Rows(st) ==
  /\ st.heard \in Seq(Session) /\ st.said \in Seq(Session)
  /\ st = [heard |-> st.heard, said |-> st.said]
  /\ IsInjective(st.heard) /\ IsInjective(st.said)
  /\ \A i \in DOMAIN st.heard, j \in DOMAIN st.said : st.heard[i] # st.said[j]

Stored(st) == ToSet(st.heard) \cup ToSet(st.said)

\* RemoveFirst takes out the place of an element that occurs once.
LEMMA RemoveOnly ==
  ASSUME NEW S, NEW q \in Seq(S), NEW s, NEW i \in 1..Len(q), IsInjective(q), q[i] = s
  PROVE  RemoveFirst(q, s) = RemoveAt(q, i)
<1>1. {j \in 1..Len(q) : q[j] = s} = {i}
  <2>1. DOMAIN q = 1..Len(q)
    OBVIOUS
  <2> QED BY <2>1 DEF IsInjective
<1>2. Min({i}) = i
  <2>1. i \in Int
    OBVIOUS
  <2> QED BY <2>1 DEF Min
<1>3. SelectInSeq(q, LAMBDA v : v = s) = i
  BY <1>1, <1>2 DEF SelectInSeq
<1> QED BY <1>3 DEF RemoveFirst

\* A sequence without one of its places.
LEMMA RemoveAtIs ==
  ASSUME NEW S, NEW q \in Seq(S), NEW i \in 1..Len(q)
  PROVE  /\ RemoveAt(q, i) \in Seq(S) /\ Len(RemoveAt(q, i)) = Len(q) - 1
         /\ DOMAIN RemoveAt(q, i) = 1..(Len(q) - 1)
         /\ \A k \in 1..(Len(q) - 1) :
              RemoveAt(q, i)[k] = IF k < i THEN q[k] ELSE q[k + 1]
<1> DEFINE a == SubSeq(q, 1, i - 1)
           b == SubSeq(q, i + 1, Len(q))
<1>1. a \in Seq(S) /\ Len(a) = i - 1 /\ \A k \in 1..(i - 1) : a[k] = q[k]
  OBVIOUS
<1>2. b \in Seq(S) /\ Len(b) = Len(q) - i /\ \A k \in 1..(Len(q) - i) : b[k] = q[i + k]
  OBVIOUS
<1>3. RemoveAt(q, i) = a \o b
  BY DEF RemoveAt
<1> HIDE DEF a, b
<1>4. a \o b \in Seq(S) /\ Len(a \o b) = Len(q) - 1
  <2>1. a \o b \in Seq(S) /\ Len(a \o b) = Len(a) + Len(b)
    BY <1>1, <1>2, ConcatProperties
  <2>2. Len(q) \in Nat
    OBVIOUS
  <2> QED BY <1>1, <1>2, <2>1, <2>2
<1>5. ASSUME NEW k \in 1..(Len(q) - 1)
      PROVE  (a \o b)[k] = IF k < i THEN q[k] ELSE q[k + 1]
  BY <1>1, <1>2
<1> QED BY <1>3, <1>4, <1>5

\* A list of rows without one of them.
LEMMA RemoveRow ==
  ASSUME NEW S, NEW q \in Seq(S), IsInjective(q), NEW s
  PROVE  /\ RemoveFirst(q, s) \in Seq(S) /\ IsInjective(RemoveFirst(q, s))
         /\ ToSet(RemoveFirst(q, s)) = ToSet(q) \ {s}
<1>1. CASE ~(\E i \in 1..Len(q) : q[i] = s)
  <2>1. RemoveFirst(q, s) = q
    BY <1>1 DEF RemoveFirst
  <2>2. s \notin ToSet(q)
    <3>1. DOMAIN q = 1..Len(q)
      OBVIOUS
    <3> QED BY <1>1, <3>1 DEF ToSet
  <2> QED BY <2>1, <2>2
<1>2. CASE \E i \in 1..Len(q) : q[i] = s
  <2>1. PICK i \in 1..Len(q) : q[i] = s
    BY <1>2
  <2>5. DOMAIN q = 1..Len(q) /\ Len(q) \in Nat
    OBVIOUS
  <2>3. RemoveFirst(q, s) = RemoveAt(q, i)
    BY <2>1, RemoveOnly
  <2> DEFINE r == RemoveAt(q, i)
  <2>4. /\ r \in Seq(S) /\ DOMAIN r = 1..(Len(q) - 1)
        /\ \A k \in 1..(Len(q) - 1) : r[k] = IF k < i THEN q[k] ELSE q[k + 1]
    BY RemoveAtIs
  <2> HIDE DEF r
  <2>d. \A a, b \in 1..Len(q) : q[a] = q[b] => a = b
    BY <2>5 DEF IsInjective
  <2>6. IsInjective(r)
    <3> SUFFICES ASSUME NEW a \in 1..(Len(q) - 1), NEW b \in 1..(Len(q) - 1), r[a] = r[b]
                 PROVE  a = b
      BY <2>4 DEF IsInjective
    <3>1. a \in 1..Len(q) /\ a + 1 \in 1..Len(q) /\ b \in 1..Len(q) /\ b + 1 \in 1..Len(q)
      BY <2>5
    <3>2. CASE a < i /\ b < i
      <4>1. q[a] = q[b]
        BY <2>4, <3>2
      <4> QED BY <2>d, <3>1, <4>1
    <3>3. CASE a < i /\ ~(b < i)
      <4>1. q[a] = q[b + 1]
        BY <2>4, <3>3
      <4>2. a = b + 1
        BY <2>d, <3>1, <4>1
      <4> QED BY <2>5, <3>3, <4>2
    <3>4. CASE ~(a < i) /\ b < i
      <4>1. q[a + 1] = q[b]
        BY <2>4, <3>4
      <4>2. a + 1 = b
        BY <2>d, <3>1, <4>1
      <4> QED BY <2>5, <3>4, <4>2
    <3>5. CASE ~(a < i) /\ ~(b < i)
      <4>1. q[a + 1] = q[b + 1]
        BY <2>4, <3>5
      <4>2. a + 1 = b + 1
        BY <2>d, <3>1, <4>1
      <4> QED BY <2>5, <4>2
    <3> QED BY <3>2, <3>3, <3>4, <3>5
  <2>7. ASSUME NEW x \in ToSet(r) PROVE x \in ToSet(q) \ {s}
    <3>1. PICK k \in 1..(Len(q) - 1) : x = r[k]
      BY <2>4 DEF ToSet
    <3>2. CASE k < i
      <4>1. x = q[k] /\ k \in 1..Len(q) /\ k # i
        BY <2>4, <2>5, <3>1, <3>2
      <4> QED BY <2>1, <2>d, <2>5, <4>1 DEF ToSet
    <3>3. CASE ~(k < i)
      <4>1. x = q[k + 1] /\ k + 1 \in 1..Len(q) /\ k + 1 # i
        BY <2>4, <2>5, <3>1, <3>3
      <4> QED BY <2>1, <2>d, <2>5, <4>1 DEF ToSet
    <3> QED BY <3>2, <3>3
  <2>8. ASSUME NEW x \in ToSet(q) \ {s} PROVE x \in ToSet(r)
    <3>1. PICK k \in 1..Len(q) : x = q[k]
      BY <2>5 DEF ToSet
    <3>2. k # i
      BY <2>1, <3>1
    <3>3. CASE k < i
      BY <2>4, <2>5, <3>1, <3>3 DEF ToSet
    <3>4. CASE k > i
      <4>1. k - 1 \in 1..(Len(q) - 1) /\ r[k - 1] = q[k]
        BY <2>4, <2>5, <3>4
      <4> QED BY <2>4, <3>1, <4>1 DEF ToSet
    <3> QED BY <3>2, <3>3, <3>4
  <2> QED BY <2>3, <2>4, <2>6, <2>7, <2>8 DEF r
<1> QED BY <1>1, <1>2

\* A row is put in front of those of other sessions.
LEMMA ConsRow ==
  ASSUME NEW S, NEW q \in Seq(S), IsInjective(q), NEW s \in S, s \notin ToSet(q)
  PROVE  /\ <<s>> \o q \in Seq(S) /\ IsInjective(<<s>> \o q)
         /\ ToSet(<<s>> \o q) = ToSet(q) \cup {s}
<1> DEFINE r == <<s>> \o q
<1>1. /\ r \in Seq(S) /\ Len(q) \in Nat
      /\ DOMAIN q = 1..Len(q) /\ DOMAIN r = 1..(Len(q) + 1)
      /\ r[1] = s /\ \A k \in 1..Len(q) : r[k + 1] = q[k]
  OBVIOUS
<1> HIDE DEF r
<1>2. ASSUME NEW k \in 2..(Len(q) + 1) PROVE k - 1 \in 1..Len(q) /\ r[k] = q[k - 1] /\ r[k] # s
  <2>1. k - 1 \in 1..Len(q) /\ r[(k - 1) + 1] = q[k - 1] /\ (k - 1) + 1 = k
    BY <1>1
  <2> QED BY <1>1, <2>1 DEF ToSet
<1>3. IsInjective(r)
  <2> SUFFICES ASSUME NEW a \in 1..(Len(q) + 1), NEW b \in 1..(Len(q) + 1), r[a] = r[b]
               PROVE  a = b
    BY <1>1 DEF IsInjective
  <2>1. CASE a = 1 \/ b = 1
    BY <1>1, <1>2, <2>1
  <2>2. CASE a # 1 /\ b # 1
    <3>1. a - 1 \in 1..Len(q) /\ b - 1 \in 1..Len(q) /\ q[a - 1] = q[b - 1]
      BY <1>1, <1>2, <2>2
    <3>2. a - 1 = b - 1
      BY <1>1, <3>1 DEF IsInjective
    <3> QED BY <1>1, <3>2
  <2> QED BY <2>1, <2>2
<1>4. ASSUME NEW x \in ToSet(r) PROVE x \in ToSet(q) \cup {s}
  <2>1. PICK k \in 1..(Len(q) + 1) : x = r[k]
    BY <1>1 DEF ToSet
  <2>2. CASE k = 1
    BY <1>1, <2>1, <2>2
  <2>3. CASE k # 1
    <3>1. k - 1 \in 1..Len(q) /\ x = q[k - 1]
      BY <1>1, <1>2, <2>1, <2>3
    <3> QED BY <1>1, <3>1 DEF ToSet
  <2> QED BY <2>2, <2>3
<1>5. ASSUME NEW x \in ToSet(q) PROVE x \in ToSet(r)
  <2>1. PICK k \in 1..Len(q) : x = q[k]
    BY <1>1 DEF ToSet
  <2>2. k + 1 \in 1..(Len(q) + 1) /\ r[k + 1] = q[k]
    BY <1>1, <2>1
  <2> QED BY <1>1, <2>1, <2>2 DEF ToSet
<1>6. s \in ToSet(r)
  <2>1. 1 \in DOMAIN r
    BY <1>1
  <2> QED BY <1>1, <2>1 DEF ToSet
<1> QED BY <1>1, <1>3, <1>4, <1>5, <1>6 DEF r

\* Two lists of different sessions.
LEMMA RowsOf ==
  ASSUME NEW a \in Seq(Session), NEW b \in Seq(Session),
         IsInjective(a), IsInjective(b), ToSet(a) \cap ToSet(b) = {}
  PROVE  Rows([heard |-> a, said |-> b])
<1>1. \A i \in DOMAIN a, j \in DOMAIN b : a[i] # b[j]
  BY DEF ToSet
<1> QED BY <1>1 DEF Rows

\* The rows of a session are those of another after it was stored or dropped.
LEMMA StoreRow ==
  ASSUME NEW st, Rows(st), NEW s \in Session
  PROVE  /\ Rows(Said(st, s)) /\ Stored(Said(st, s)) = Stored(st) \cup {s}
         /\ Rows(Heard(st, s)) /\ Stored(Heard(st, s)) = Stored(st) \cup {s}
<1> DEFINE h == RemoveFirst(st.heard, s)
           d == RemoveFirst(st.said, s)
<1>1. /\ h \in Seq(Session) /\ IsInjective(h) /\ ToSet(h) = ToSet(st.heard) \ {s}
      /\ d \in Seq(Session) /\ IsInjective(d) /\ ToSet(d) = ToSet(st.said) \ {s}
  BY RemoveRow DEF Rows
<1>2. ToSet(st.heard) \cap ToSet(st.said) = {}
  BY DEF Rows, ToSet
<1> HIDE DEF h, d
<1>3. /\ <<s>> \o h \in Seq(Session) /\ IsInjective(<<s>> \o h)
      /\ ToSet(<<s>> \o h) = ToSet(h) \cup {s}
      /\ <<s>> \o d \in Seq(Session) /\ IsInjective(<<s>> \o d)
      /\ ToSet(<<s>> \o d) = ToSet(d) \cup {s}
  BY <1>1, ConsRow
<1>4. Said(st, s) = [heard |-> h, said |-> <<s>> \o d]
  BY DEF Said, h, d
<1>5. Heard(st, s) = [heard |-> <<s>> \o h, said |-> d]
  BY DEF Heard, h, d
<1>6. ToSet(h) \cap ToSet(<<s>> \o d) = {} /\ ToSet(<<s>> \o h) \cap ToSet(d) = {}
  BY <1>1, <1>2, <1>3
<1>7. Rows([heard |-> h, said |-> <<s>> \o d]) /\ Rows([heard |-> <<s>> \o h, said |-> d])
  BY <1>1, <1>3, <1>6, RowsOf
<1>8. Stored(Said(st, s)) = Stored(st) \cup {s}
  <2>1. Stored([heard |-> h, said |-> <<s>> \o d]) = ToSet(h) \cup ToSet(<<s>> \o d)
    BY DEF Stored
  <2> QED BY <1>1, <1>3, <1>4, <2>1 DEF Stored
<1>9. Stored(Heard(st, s)) = Stored(st) \cup {s}
  <2>1. Stored([heard |-> <<s>> \o h, said |-> d]) = ToSet(<<s>> \o h) \cup ToSet(d)
    BY DEF Stored
  <2> QED BY <1>1, <1>3, <1>5, <2>1 DEF Stored
<1> QED BY <1>4, <1>5, <1>7, <1>8, <1>9

LEMMA DropRow ==
  ASSUME NEW st, Rows(st), NEW s
  PROVE  LET new == [heard |-> RemoveFirst(st.heard, s), said |-> RemoveFirst(st.said, s)]
         IN  Rows(new) /\ Stored(new) = Stored(st) \ {s}
<1> DEFINE h == RemoveFirst(st.heard, s)
           d == RemoveFirst(st.said, s)
<1>1. /\ h \in Seq(Session) /\ IsInjective(h) /\ ToSet(h) = ToSet(st.heard) \ {s}
      /\ d \in Seq(Session) /\ IsInjective(d) /\ ToSet(d) = ToSet(st.said) \ {s}
  BY RemoveRow DEF Rows
<1>2. ToSet(st.heard) \cap ToSet(st.said) = {}
  BY DEF Rows, ToSet
<1> HIDE DEF h, d
<1>3. ToSet(h) \cap ToSet(d) = {}
  BY <1>1, <1>2
<1>4. Rows([heard |-> h, said |-> d])
  BY <1>1, <1>3, RowsOf
<1>5. Stored([heard |-> h, said |-> d]) = Stored(st) \ {s}
  BY <1>1 DEF Stored
<1> QED BY <1>4, <1>5 DEF h, d

\* The session that getLatestOlmSession picks is one that is stored.
LEMMA LatestStored ==
  ASSUME NEW st, Rows(st), Stored(st) # {}
  PROVE  Head(st.heard \o st.said) \in Stored(st)
<1> DEFINE q == st.heard \o st.said
           m == Len(st.heard)
           n == Len(st.said)
<1>1. st.heard \in Seq(Session) /\ st.said \in Seq(Session)
  BY DEF Rows
<1>2. /\ q \in Seq(Session) /\ Len(q) = m + n
      /\ \A i \in 1 .. m + n : q[i] = IF i <= m THEN st.heard[i] ELSE st.said[i - m]
  BY <1>1, ConcatProperties
<1>3. /\ DOMAIN st.heard = 1..m /\ m \in Nat
      /\ DOMAIN st.said = 1..n /\ n \in Nat
  BY <1>1
<1> HIDE DEF q, m, n
<1>4. m > 0 \/ n > 0
  <2> SUFFICES ASSUME m = 0, n = 0 PROVE FALSE
    BY <1>3
  <2>1. DOMAIN st.heard = {} /\ DOMAIN st.said = {}
    BY <1>3
  <2> QED BY <2>1 DEF Stored, ToSet
<1>5. Head(q) = q[1]
  BY <1>2, <1>3, <1>4
<1>6. ASSUME m > 0 PROVE Head(q) \in Stored(st)
  <2>1. 1 \in DOMAIN st.heard /\ q[1] = st.heard[1]
    BY <1>2, <1>3, <1>6
  <2> QED BY <1>5, <2>1 DEF Stored, ToSet
<1>7. ASSUME m = 0 PROVE Head(q) \in Stored(st)
  <2>1. 1 \in DOMAIN st.said /\ 1 \in 1..(m + n) /\ ~(1 <= m) /\ 1 - m = 1
    BY <1>3, <1>4, <1>7
  <2>2. q[1] = st.said[1]
    BY <1>2, <2>1
  <2>3. Head(q) \in ToSet(st.said)
    BY <1>5, <2>1, <2>2 DEF ToSet
  <2> QED BY <2>3 DEF Stored
<1>8. Head(q) \in Stored(st)
  BY <1>3, <1>4, <1>6, <1>7
<1> QED BY <1>8 DEF q

\* A session has one row, read from the two lists as from one.
LEMMA OneRow ==
  ASSUME NEW st, Rows(st)
  PROVE  IsInjective(st.heard \o st.said)
<1> DEFINE q == st.heard \o st.said
           m == Len(st.heard)
           n == Len(st.said)
<1>1. st.heard \in Seq(Session) /\ st.said \in Seq(Session)
  BY DEF Rows
<1>2. /\ q \in Seq(Session) /\ Len(q) = m + n
      /\ \A i \in 1 .. m + n : q[i] = IF i <= m THEN st.heard[i] ELSE st.said[i - m]
  BY <1>1, ConcatProperties
<1>3. /\ DOMAIN st.heard = 1..m /\ m \in Nat
      /\ DOMAIN st.said = 1..n /\ n \in Nat
  BY <1>1
<1> HIDE DEF q, m, n
<1>4. DOMAIN q = 1..(m + n)
  BY <1>2, <1>3
<1>5. ASSUME NEW a \in 1..(m + n), NEW b \in 1..(m + n), q[a] = q[b]
      PROVE  a = b
  <2>1. CASE a <= m /\ b <= m
    <3>1. a \in 1..m /\ b \in 1..m /\ st.heard[a] = st.heard[b]
      BY <1>2, <1>3, <1>5, <2>1
    <3> QED BY <1>3, <3>1 DEF Rows, IsInjective
  <2>2. CASE a <= m /\ ~(b <= m)
    <3>1. a \in 1..m /\ b - m \in 1..n /\ st.heard[a] = st.said[b - m]
      BY <1>2, <1>3, <1>5, <2>2
    <3> QED BY <1>3, <3>1 DEF Rows
  <2>3. CASE ~(a <= m) /\ b <= m
    <3>1. a - m \in 1..n /\ b \in 1..m /\ st.heard[b] = st.said[a - m]
      BY <1>2, <1>3, <1>5, <2>3
    <3> QED BY <1>3, <3>1 DEF Rows
  <2>4. CASE ~(a <= m) /\ ~(b <= m)
    <3>1. a - m \in 1..n /\ b - m \in 1..n /\ st.said[a - m] = st.said[b - m]
      BY <1>2, <1>3, <1>5, <2>4
    <3>2. a - m = b - m
      BY <1>3, <3>1 DEF Rows, IsInjective
    <3> QED BY <1>3, <3>2
  <2> QED BY <2>1, <2>2, <2>3, <2>4
<1> QED BY <1>4, <1>5 DEF IsInjective, q

----------------------------------------------------------------------------
\* Type correctness.

\* TypeOK with what it says of a device's sessions list by list.
State ==
  /\ store \in [Device -> [heard : Seq(Session), said : Seq(Session)]]
  /\ \A d \in Device : Rows(store[d])
  /\ replied \in [Device -> SUBSET Session] /\ consumed \in [Device -> SUBSET Session]
  /\ creator \in Seq(Device) /\ Len(creator) <= MaxSessions
  /\ claim \in [Device -> BOOLEAN] /\ limited \in [Device -> BOOLEAN]
  /\ net \subseteq Message /\ lost \in [Device -> SUBSET Session]
  /\ faults \in 0..MaxFaults

LEMMA StateTypeOK == State => TypeOK
BY OneRow DEF State, TypeOK

LEMMA PeerIs == \A d \in Device : Peer(d) \in Device /\ Peer(Peer(d)) = d /\ Peer(d) # d
BY DEF Device, Peer

LEMMA HeldStored == \A d : Held(d) = Stored(store[d])
BY DEF Held, Stored

LEMMA LatestHeld ==
  ASSUME State, NEW d \in Device, Held(d) # {}
  PROVE  Latest(d) \in Held(d) /\ Latest(d) \in Session
<1>1. Rows(store[d])
  BY DEF State
<1>2. Latest(d) \in Stored(store[d])
  BY <1>1, HeldStored, LatestStored DEF Latest
<1>3. Stored(store[d]) \subseteq Session
  BY <1>1 DEF Rows, Stored, ToSet
<1> QED BY <1>2, <1>3, HeldStored

\* The sessions of one device are written.
LEMMA StoreTyped ==
  ASSUME State, NEW d \in Device, NEW st, Rows(st)
  PROVE  LET new == [store EXCEPT ![d] = st]
         IN  /\ new \in [Device -> [heard : Seq(Session), said : Seq(Session)]]
             /\ \A e \in Device : Rows(new[e])
<1>1. st \in [heard : Seq(Session), said : Seq(Session)]
  BY DEF Rows
<1> QED BY <1>1 DEF State

LEMMA InitState == Init => State
<1> SUFFICES ASSUME Init PROVE State
  OBVIOUS
<1>1. Rows([heard |-> <<>>, said |-> <<>>])
  BY DEF Rows, IsInjective
<1>2. [heard |-> <<>>, said |-> <<>>] \in [heard : Seq(Session), said : Seq(Session)]
  OBVIOUS
<1>3. Len(creator) <= MaxSessions /\ faults \in 0..MaxFaults
  BY OlmBounds DEF Init
<1>4. /\ store \in [Device -> [heard : Seq(Session), said : Seq(Session)]]
      /\ \A d \in Device : Rows(store[d])
  BY <1>1, <1>2 DEF Init
<1> QED BY <1>3, <1>4 DEF Init, State

LEMMA CipherTyped ==
  ASSUME NEW d \in Device, NEW s \in Session
  PROVE  Cipher(d, s) \in Message
BY PeerIs DEF Cipher, Message

LEMMA ClaimTyped ==
  ASSUME State, NEW d \in Device, Claim(d)
  PROVE  claim' \in [Device -> BOOLEAN] /\ limited' \in [Device -> BOOLEAN]
BY DEF State, Claim

LEMMA RestartTyped ==
  ASSUME State, NEW d \in Device, Restart(d)
  PROVE  claim' \in [Device -> BOOLEAN] /\ limited' \in [Device -> BOOLEAN]
BY DEF State, Restart

LEMMA FaultTyped ==
  ASSUME State, Fault
  PROVE  faults' \in 0..MaxFaults
BY OlmBounds DEF State, Fault

LEMMA StateStep == State /\ [Next]_vars => State'
<1> SUFFICES ASSUME State, [Next]_vars PROVE State'
  OBVIOUS
<1>1. ASSUME NEW d \in Device, Send(d) PROVE State'
  <2>1. Latest(d) \in Session
    BY <1>1, LatestHeld DEF Send
  <2>2. Rows(Said(store[d], Latest(d)))
    BY <2>1, StoreRow DEF State
  <2>3. /\ store' \in [Device -> [heard : Seq(Session), said : Seq(Session)]]
        /\ \A e \in Device : Rows(store'[e])
    BY <1>1, <2>2, StoreTyped DEF Send
  <2>4. net' \subseteq Message
    BY <1>1, <2>1, CipherTyped DEF Send, State
  <2> QED BY <1>1, <2>3, <2>4 DEF Send, State
<1>2. ASSUME NEW d \in Device, SendFirst(d) PROVE State'
  BY <1>2, ClaimTyped DEF SendFirst, State
<1>3. ASSUME NEW d \in Device, ClaimAnswer(d) PROVE State'
  <2> DEFINE s == Len(creator) + 1
  <2>1. s \in Session
    BY <1>3 DEF ClaimAnswer
  <2>2. Rows(Said(store[d], s))
    BY <2>1, StoreRow DEF State
  <2>3. /\ store' \in [Device -> [heard : Seq(Session), said : Seq(Session)]]
        /\ \A e \in Device : Rows(store'[e])
    BY <1>3, <2>2, StoreTyped DEF ClaimAnswer
  <2>4. net' \subseteq Message
    BY <1>3, <2>1, CipherTyped DEF ClaimAnswer, State
  <2>5. creator' \in Seq(Device) /\ Len(creator') <= MaxSessions
    BY <1>3, <2>1, OlmBounds DEF ClaimAnswer, State, Session
  <2>6. claim' \in [Device -> BOOLEAN]
    BY <1>3 DEF ClaimAnswer, State
  <2> QED BY <1>3, <2>3, <2>4, <2>5, <2>6 DEF ClaimAnswer, State
<1>4. ASSUME NEW d \in Device, ClaimFails(d) PROVE State'
  BY <1>4, FaultTyped DEF ClaimFails, State
<1>5. ASSUME NEW d \in Device, TenHours(d) PROVE State'
  BY <1>5 DEF TenHours, State
<1>6. ASSUME NEW m \in net, Decrypt(m) PROVE State'
  <2>1. m.to \in Device /\ m.s \in Session
    BY DEF State, Message
  <2>2. Rows(Heard(store[m.to], m.s))
    BY <2>1, StoreRow DEF State
  <2>3. /\ store' \in [Device -> [heard : Seq(Session), said : Seq(Session)]]
        /\ \A e \in Device : Rows(store'[e])
    BY <1>6, <2>1, <2>2, StoreTyped DEF Decrypt
  <2>4. replied' \in [Device -> SUBSET Session] /\ consumed' \in [Device -> SUBSET Session]
    BY <1>6, <2>1 DEF Decrypt, State
  <2> QED BY <1>6, <2>3, <2>4 DEF Decrypt, State
<1>7. ASSUME NEW m \in net, Recover(m) PROVE State'
  <2>1. m.to \in Device
    BY DEF State, Message
  <2> QED BY <1>7, <2>1, ClaimTyped DEF Recover, State
<1>8. ASSUME NEW m \in net, Lose(m) PROVE State'
  BY <1>8, FaultTyped DEF Lose, State
<1>9. ASSUME NEW d \in Device, Crash(d) PROVE State'
  BY <1>9, FaultTyped, RestartTyped DEF Crash, State
<1>10. ASSUME NEW m \in net, CrashInOpen(m) PROVE State'
  <2>1. m.to \in Device /\ m.s \in Session
    BY DEF State, Message
  <2>2. consumed' \in [Device -> SUBSET Session] /\ lost' \in [Device -> SUBSET Session]
    BY <1>10, <2>1 DEF CrashInOpen, State
  <2> QED BY <1>10, <2>1, <2>2, FaultTyped, RestartTyped DEF CrashInOpen, State
<1>11. ASSUME NEW d \in Device, NEW s \in Session, DropSession(d, s) PROVE State'
  <2> DEFINE st == [heard |-> RemoveFirst(store[d].heard, s),
                    said |-> RemoveFirst(store[d].said, s)]
  <2>1. Rows(st)
    BY DropRow DEF State
  <2>2. /\ store' \in [Device -> [heard : Seq(Session), said : Seq(Session)]]
        /\ \A e \in Device : Rows(store'[e])
    BY <1>11, <2>1, StoreTyped DEF DropSession
  <2>3. lost' \in [Device -> SUBSET Session]
    BY <1>11 DEF DropSession, State
  <2> QED BY <1>11, <2>2, <2>3, FaultTyped DEF DropSession, State
<1>12. CASE UNCHANGED vars
  BY <1>12 DEF State, vars
<1> QED BY <1>1, <1>2, <1>3, <1>4, <1>5, <1>6, <1>7, <1>8, <1>9, <1>10, <1>11, <1>12
        DEF Next, Receive

LEMMA StateAlways == Spec => []State
<1> QED BY InitState, StateStep, PTL DEF Spec

\* Variables hold values of their kinds, and a session never gets a second row,
\* although saveOlmSession writes it anew at each use with a time in another unit.
THEOREM TypeCorrect == Spec => []TypeOK
<1> QED BY StateAlways, StateTypeOK, PTL

----------------------------------------------------------------------------
\* Messages that cannot be decrypted.

\* The sessions that a device has or has lost: this set only grows.
Had(d) == Held(d) \cup lost[d]

\* A one-time key was used for a session that the device had, a session on which a
\* message came from the other device is one that both had, and so is the session
\* of a message under way, unless the message can open it.
Channel ==
  /\ \A d \in Device : consumed[d] \subseteq Had(d) /\ replied[d] \subseteq Had(Peer(d))
  /\ \A m \in net : m.s \in Had(Peer(m.to)) /\ (m.pre \/ m.s \in Had(m.to))

LEMMA ChannelReads == State /\ Channel => OnlyLostUnreadable
<1> SUFFICES ASSUME State, Channel, NEW m \in net, ~Readable(m), ~Opens(m)
             PROVE  m.s \in lost[m.to]
  BY DEF OnlyLostUnreadable
<1>1. m.to \in Device /\ m.pre \in BOOLEAN
  BY DEF State, Message
<1>2. m.s \in Had(m.to)
  BY <1>1 DEF Channel, Opens
<1> QED BY <1>2 DEF Had, Readable

\* What a step does to the sessions of a device.
LEMMA HeldStep ==
  ASSUME State, NEW d \in Device, NEW s \in Session, NEW st,
         store' = [store EXCEPT ![d] = st], Stored(st) = Stored(store[d]) \cup {s},
         lost' = lost
  PROVE  \A e \in Device : Had(e)' = IF e = d THEN Had(e) \cup {s} ELSE Had(e)
<1>1. \A e \in Device : store'[e] = IF e = d THEN st ELSE store[e]
  BY DEF State
<1>2. \A e : Held(e)' = Stored(store'[e]) /\ Held(e) = Stored(store[e])
  BY DEF Held, Stored
<1> QED BY <1>1, <1>2 DEF Had

\* A step that takes no session away, and sends nothing.
LEMMA ChannelStays ==
  ASSUME State, Channel, \A e \in Device : Had(e) \subseteq Had(e)',
         net' \subseteq net, replied' = replied, consumed' = consumed
  PROVE  Channel'
<1>1. \A m \in net : m.to \in Device
  BY DEF State, Message
<1>2. ASSUME NEW e \in Device
      PROVE  consumed[e] \subseteq Had(e)' /\ replied[e] \subseteq Had(Peer(e))'
  BY PeerIs DEF Channel
<1>3. ASSUME NEW m \in net'
      PROVE  m.s \in Had(Peer(m.to))' /\ (m.pre \/ m.s \in Had(m.to)')
  BY <1>1, PeerIs DEF Channel
<1>4. \A e : Had(Peer(e))' = Held(Peer(e))' \cup lost'[Peer(e)]
  BY DEF Had
<1> QED BY <1>2, <1>3, <1>4 DEF Channel, Had

\* A message is sent on a session that is now stored.
LEMMA ChannelSends ==
  ASSUME State, Channel, NEW d \in Device, NEW s \in Session,
         \A e \in Device : Had(e)' = IF e = d THEN Had(e) \cup {s} ELSE Had(e),
         net' = net \cup {Cipher(d, s)}, replied' = replied, consumed' = consumed
  PROVE  Channel'
<1>1. \A m \in net : m.to \in Device
  BY DEF State, Message
<1>2. ASSUME NEW e \in Device
      PROVE  consumed[e] \subseteq Had(e)' /\ replied[e] \subseteq Had(Peer(e))'
  BY PeerIs DEF Channel
<1>3. ASSUME NEW m \in net
      PROVE  m.s \in Had(Peer(m.to))' /\ (m.pre \/ m.s \in Had(m.to)')
  BY <1>1, PeerIs DEF Channel
<1>4. s \in Had(d)' /\ (s \in replied[d] => s \in Had(Peer(d))')
  BY <1>2
<1>5. ASSUME NEW m, m = Cipher(d, s)
      PROVE  m.s \in Had(Peer(m.to))' /\ (m.pre \/ m.s \in Had(m.to)')
  <2>1. m.s = s /\ m.to = Peer(d) /\ Peer(m.to) = d /\ m.pre = (s \notin replied[d])
    BY <1>5, PeerIs DEF Cipher
  <2> QED BY <1>4, <2>1
<1>6. ASSUME NEW m \in net'
      PROVE  m.s \in Had(Peer(m.to))' /\ (m.pre \/ m.s \in Had(m.to)')
  <2>1. CASE m \in net
    BY <1>3, <2>1
  <2>2. CASE m = Cipher(d, s)
    BY <1>5, <2>2
  <2> QED BY <2>1, <2>2
<1> QED BY <1>2, <1>6 DEF Channel

LEMMA ChannelStep == State /\ Channel /\ [Next]_vars => Channel'
<1> SUFFICES ASSUME State, Channel, [Next]_vars PROVE Channel'
  OBVIOUS
<1>0. ASSUME store' = store, lost' = lost
      PROVE  \A e \in Device : Had(e)' = Had(e)
  BY <1>0 DEF Had, Held
<1>1. ASSUME NEW d \in Device, Send(d) PROVE Channel'
  <2>1. Latest(d) \in Session
    BY <1>1, LatestHeld DEF Send
  <2>2. Stored(Said(store[d], Latest(d))) = Stored(store[d]) \cup {Latest(d)}
    BY <2>1, StoreRow DEF State
  <2>3. \A e \in Device : Had(e)' = IF e = d THEN Had(e) \cup {Latest(d)} ELSE Had(e)
    BY <1>1, <2>1, <2>2, HeldStep DEF Send
  <2> QED BY <1>1, <2>1, <2>3, ChannelSends DEF Send
<1>2. ASSUME NEW d \in Device, ClaimAnswer(d) PROVE Channel'
  <2> DEFINE s == Len(creator) + 1
  <2>1. s \in Session
    BY <1>2 DEF ClaimAnswer
  <2>2. Stored(Said(store[d], s)) = Stored(store[d]) \cup {s}
    BY <2>1, StoreRow DEF State
  <2>3. /\ store' = [store EXCEPT ![d] = Said(@, s)] /\ lost' = lost
        /\ net' = net \cup {Cipher(d, s)} /\ replied' = replied /\ consumed' = consumed
    BY <1>2 DEF ClaimAnswer
  <2> HIDE DEF s
  <2>4. \A e \in Device : Had(e)' = IF e = d THEN Had(e) \cup {s} ELSE Had(e)
    BY <2>1, <2>2, <2>3, HeldStep
  <2> QED BY <2>1, <2>3, <2>4, ChannelSends
<1>3. ASSUME NEW m \in net, Decrypt(m) PROVE Channel'
  <2>1. m.to \in Device /\ m.s \in Session
    BY DEF State, Message
  <2>2. Stored(Heard(store[m.to], m.s)) = Stored(store[m.to]) \cup {m.s}
    BY <2>1, StoreRow DEF State
  <2>3. \A e \in Device : Had(e)' = IF e = m.to THEN Had(e) \cup {m.s} ELSE Had(e)
    BY <1>3, <2>1, <2>2, HeldStep DEF Decrypt
  <2>4. /\ \A e \in Device : replied'[e] = IF e = m.to THEN replied[e] \cup {m.s} ELSE replied[e]
        /\ \A e \in Device : consumed'[e] \subseteq
                               IF e = m.to THEN consumed[e] \cup {m.s} ELSE consumed[e]
        /\ net' \subseteq net
    BY <1>3, <2>1 DEF Decrypt, State
  <2>5. m.s \in Had(Peer(m.to))
    BY DEF Channel
  <2>6. ASSUME NEW e \in Device
        PROVE  consumed'[e] \subseteq Had(e)' /\ replied'[e] \subseteq Had(Peer(e))'
    <3>1. consumed[e] \subseteq Had(e) /\ replied[e] \subseteq Had(Peer(e))
      BY DEF Channel
    <3>2. consumed'[e] \subseteq Had(e)'
      BY <2>3, <2>4, <3>1
    <3>3. CASE e = m.to
      <4>1. Had(Peer(e))' = Had(Peer(e))
        BY <2>3, <3>3, PeerIs
      <4>2. m.s \in Had(Peer(e)) /\ replied'[e] = replied[e] \cup {m.s}
        BY <2>4, <2>5, <3>3
      <4> QED BY <3>1, <3>2, <4>1, <4>2
    <3>4. CASE e # m.to
      <4>1. Had(Peer(e)) \subseteq Had(Peer(e))' /\ replied'[e] = replied[e]
        BY <2>3, <2>4, <3>4, PeerIs
      <4> QED BY <3>1, <3>2, <4>1
    <3> QED BY <3>3, <3>4
  <2>7. ASSUME NEW n \in net'
        PROVE  n.s \in Had(Peer(n.to))' /\ (n.pre \/ n.s \in Had(n.to)')
    <3>1. n \in net /\ n.to \in Device
      BY <2>4 DEF State, Message
    <3> QED BY <2>3, <3>1, PeerIs DEF Channel
  <2> QED BY <2>6, <2>7 DEF Channel
<1>4. ASSUME NEW m \in net, CrashInOpen(m) PROVE Channel'
  <2>1. m.to \in Device /\ m.s \in Session
    BY DEF State, Message
  <2>2. \A e \in Device : Had(e)' = IF e = m.to THEN Had(e) \cup {m.s} ELSE Had(e)
    BY <1>4, <2>1 DEF CrashInOpen, Had, Held, State
  <2>3. /\ \A e \in Device : consumed'[e] =
                               IF e = m.to THEN consumed[e] \cup {m.s} ELSE consumed[e]
        /\ net' \subseteq net /\ replied' = replied
    BY <1>4, <2>1 DEF CrashInOpen, State
  <2>4. ASSUME NEW e \in Device
        PROVE  consumed'[e] \subseteq Had(e)' /\ replied'[e] \subseteq Had(Peer(e))'
    <3>1. consumed[e] \subseteq Had(e) /\ replied[e] \subseteq Had(Peer(e))
      BY DEF Channel
    <3>2. consumed'[e] \subseteq Had(e)'
      BY <2>2, <2>3, <3>1
    <3>3. Had(Peer(e)) \subseteq Had(Peer(e))'
      BY <2>2, PeerIs
    <3> QED BY <2>3, <3>1, <3>2, <3>3
  <2>5. ASSUME NEW n \in net'
        PROVE  n.s \in Had(Peer(n.to))' /\ (n.pre \/ n.s \in Had(n.to)')
    <3>1. n \in net /\ n.to \in Device
      BY <2>3 DEF State, Message
    <3> QED BY <2>2, <3>1, PeerIs DEF Channel
  <2> QED BY <2>4, <2>5 DEF Channel
<1>5. ASSUME NEW d \in Device, NEW s \in Session, DropSession(d, s) PROVE Channel'
  <2> DEFINE st == [heard |-> RemoveFirst(store[d].heard, s),
                    said |-> RemoveFirst(store[d].said, s)]
  <2>1. Stored(st) = Stored(store[d]) \ {s}
    BY DropRow DEF State
  <2>2. store' = [store EXCEPT ![d] = st]
    BY <1>5 DEF DropSession
  <2> HIDE DEF st
  <2>3. \A e \in Device : store'[e] = IF e = d THEN st ELSE store[e]
    BY <2>2 DEF State
  <2>4. \A e \in Device : lost'[e] = IF e = d THEN lost[e] \cup {s} ELSE lost[e]
    BY <1>5 DEF DropSession, State
  <2>5. \A e : Held(e)' = Stored(store'[e]) /\ Held(e) = Stored(store[e])
    BY DEF Held, Stored
  <2>6. \A e \in Device : Had(e) \subseteq Had(e)'
    BY <2>1, <2>3, <2>4, <2>5 DEF Had
  <2> QED BY <1>5, <2>6, ChannelStays DEF DropSession
<1>6. ASSUME NEW d \in Device, SendFirst(d) \/ ClaimFails(d) \/ TenHours(d) \/ Crash(d)
      PROVE  Channel'
  BY <1>0, <1>6, ChannelStays DEF SendFirst, ClaimFails, TenHours, Crash
<1>7. ASSUME NEW m \in net, Recover(m) \/ Lose(m) PROVE Channel'
  BY <1>0, <1>7, ChannelStays DEF Recover, Lose
<1>8. CASE UNCHANGED vars
  BY <1>0, <1>8, ChannelStays DEF vars
<1> QED BY <1>1, <1>2, <1>3, <1>4, <1>5, <1>6, <1>7, <1>8 DEF Next, Receive

\* A message that cannot be decrypted is on a session that its receiver had and has
\* lost: sessions created on both sides at once, lost and reordered messages, failed
\* claims and restarts never make a message unreadable, for any number of each.
THEOREM UnreadableIsLost == Spec => []OnlyLostUnreadable
<1>1. Init => Channel
  <2> SUFFICES ASSUME Init PROVE Channel
    OBVIOUS
  <2>1. \A d \in Device : consumed[d] = {} /\ replied[d] = {}
    BY DEF Init
  <2>2. net = {}
    BY DEF Init
  <2> QED BY <2>1, <2>2 DEF Channel
<1>2. Spec => []Channel
  BY <1>1, StateAlways, ChannelStep, PTL DEF Spec
<1> QED BY <1>2, StateAlways, ChannelReads, PTL
=============================================================================
