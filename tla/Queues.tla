------------------------------- MODULE Queues -------------------------------
(***************************************************************************)
(* The queues of Qt events as the proofs see them: by the events in them.   *)
(***************************************************************************)
EXTENDS Integers, Sequences, TLAPS, SequenceTheorems

\* The events in a queue.
Elems(q) == {q[i] : i \in DOMAIN q}

\* An event at the end of a queue.
LEMMA QueueAppend ==
  ASSUME NEW S, NEW q \in Seq(S), NEW e \in S
  PROVE  Append(q, e) \in Seq(S) /\ Elems(Append(q, e)) = Elems(q) \cup {e}
<1>1. /\ Append(q, e) \in Seq(S)
      /\ Len(q) \in Nat /\ DOMAIN q = 1..Len(q) /\ DOMAIN Append(q, e) = 1..(Len(q) + 1)
      /\ \A i \in 1..Len(q) : Append(q, e)[i] = q[i]
      /\ Append(q, e)[Len(q) + 1] = e
  OBVIOUS
<1>2. 1..(Len(q) + 1) = 1..Len(q) \cup {Len(q) + 1}
  BY <1>1
<1>3. ASSUME NEW x PROVE x \in Elems(Append(q, e)) <=> x \in Elems(q) \cup {e}
  BY <1>1, <1>2 DEF Elems
<1> QED BY <1>1, <1>3

\* The head of a queue and the rest.
LEMMA QueueTail ==
  ASSUME NEW S, NEW q \in Seq(S), q # <<>>
  PROVE  /\ Tail(q) \in Seq(S) /\ Head(q) \in S
         /\ Elems(q) = Elems(Tail(q)) \cup {Head(q)}
<1>1. /\ Tail(q) \in Seq(S) /\ Head(q) \in S /\ Head(q) = q[1]
      /\ Len(q) \in Nat \ {0} /\ DOMAIN q = 1..Len(q) /\ DOMAIN Tail(q) = 1..(Len(q) - 1)
      /\ \A i \in 1..(Len(q) - 1) : Tail(q)[i] = q[i + 1]
  OBVIOUS
<1>2. ASSUME NEW x \in Elems(q) PROVE x \in Elems(Tail(q)) \cup {Head(q)}
  <2>1. PICK i \in 1..Len(q) : x = q[i]
    BY <1>1 DEF Elems
  <2>2. CASE i = 1
    BY <1>1, <2>1, <2>2
  <2>3. CASE i # 1
    <3>1. i - 1 \in 1..(Len(q) - 1) /\ Tail(q)[i - 1] = q[i]
      BY <1>1, <2>3
    <3> QED BY <1>1, <2>1, <3>1 DEF Elems
  <2> QED BY <2>2, <2>3
<1>3. ASSUME NEW x \in Elems(Tail(q)) PROVE x \in Elems(q)
  <2>1. PICK i \in 1..(Len(q) - 1) : x = Tail(q)[i]
    BY <1>1, <1>3 DEF Elems
  <2>2. i + 1 \in 1..Len(q) /\ x = q[i + 1]
    BY <1>1, <2>1
  <2> QED BY <1>1, <2>2 DEF Elems
<1>4. Head(q) \in Elems(q)
  BY <1>1 DEF Elems
<1> QED BY <1>1, <1>2, <1>3, <1>4

\* A queue of whatever events are in it.
IsQueue(q) == q \in Seq(Elems(q))

\* Every sequence is one.
LEMMA QueueOf ==
  ASSUME NEW S, NEW q \in Seq(S) PROVE IsQueue(q)
<1>1. Len(q) \in Nat /\ q \in [1..Len(q) -> S] /\ DOMAIN q = 1..Len(q)
  OBVIOUS
<1>2. q \in [1..Len(q) -> Elems(q)]
  BY <1>1 DEF Elems
<1> QED BY <1>1, <1>2, SeqDef DEF IsQueue

LEMMA EmptyQueue == IsQueue(<<>>) /\ Elems(<<>>) = {}
BY DEF IsQueue, Elems

\* Events of any kind at its end, and one taken off.
LEMMA EventAppend ==
  ASSUME NEW q, IsQueue(q), NEW e
  PROVE  IsQueue(Append(q, e)) /\ Elems(Append(q, e)) = Elems(q) \cup {e}
<1> DEFINE S == Elems(q) \cup {e}
<1>1. q \in Seq(Elems(q)) /\ Elems(q) \subseteq S /\ e \in S
  BY DEF IsQueue
<1> HIDE DEF S
<1>2. q \in Seq(S)
  BY <1>1, SeqMonotonic
<1>3. Append(q, e) \in Seq(S) /\ Elems(Append(q, e)) = Elems(q) \cup {e}
  BY <1>1, <1>2, QueueAppend
<1> QED BY <1>3, QueueOf

LEMMA EventsAppend ==
  ASSUME NEW q, IsQueue(q), NEW e, NEW f
  PROVE  IsQueue(q \o <<e, f>>) /\ Elems(q \o <<e, f>>) = Elems(q) \cup {e, f}
<1> DEFINE S == Elems(q) \cup {e, f}
<1>1. q \in Seq(Elems(q)) /\ Elems(q) \subseteq S /\ e \in S /\ f \in S
  BY DEF IsQueue
<1> HIDE DEF S
<1>2. q \in Seq(S)
  BY <1>1, SeqMonotonic
<1>3. q \o <<e, f>> = Append(Append(q, e), f)
  BY <1>1, <1>2
<1>4. IsQueue(Append(q, e)) /\ Elems(Append(q, e)) = Elems(q) \cup {e}
  BY EventAppend
<1>5. IsQueue(Append(Append(q, e), f))
      /\ Elems(Append(Append(q, e), f)) = Elems(Append(q, e)) \cup {f}
  BY <1>4, EventAppend
<1> QED BY <1>3, <1>4, <1>5

LEMMA EventTail ==
  ASSUME NEW q, IsQueue(q), q # <<>>
  PROVE  /\ IsQueue(Tail(q)) /\ Head(q) \in Elems(q)
         /\ Elems(q) = Elems(Tail(q)) \cup {Head(q)}
<1> DEFINE S == Elems(q)
<1>1. q \in Seq(S)
  BY DEF IsQueue
<1> HIDE DEF S
<1>2. Tail(q) \in Seq(S) /\ Elems(q) = Elems(Tail(q)) \cup {Head(q)}
  BY <1>1, QueueTail
<1> QED BY <1>2, QueueOf
=============================================================================
