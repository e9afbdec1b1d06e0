------------------------------- MODULE Outbox -------------------------------
(***************************************************************************)
(* What the outgoing queue of a room promises.  A message that has been    *)
(* queued waits until it has been sent and answered, echoed or given up;   *)
(* only the oldest of the messages that wait is sent, so each is sent      *)
(* after all earlier ones have left the queue; and the homeserver accepts  *)
(* nothing else.  A message can leave the queue without being sent in two  *)
(* ways only: a disturbance (the timeline is cleared or its tables are     *)
(* dropped by a limited sync), or another one queued in its place.         *)
(***************************************************************************)
EXTENDS Naturals

CONSTANT Message

VARIABLES
  queued,       \* messages the user has queued
  before,       \* pairs of messages, the first queued before the second
  waiting,      \* those that can still be sent
  sent,         \* those that have been sent, and may arrive at any time
  accepted,     \* those the homeserver has accepted
  disturbances  \* number of disturbances so far

outbox == <<queued, before, waiting, sent, accepted, disturbances>>

Oldest(W, B) == {m \in W : \A k \in W : <<k, m>> \notin B}

\* Nothing is sent, or the oldest of the messages that now wait.
Serve ==
  \/ sent' = sent
  \/ \E m \in Oldest(waiting', before') : sent' = sent \cup {m}

Init ==
  /\ queued = {} /\ before = {} /\ waiting = {} /\ sent = {} /\ accepted = {}
  /\ disturbances = 0

\* A message is queued; at most one that waits is lost.
Enqueue(m) ==
  /\ m \notin queued
  /\ queued' = queued \cup {m}
  /\ before' = before \cup (queued \X {m})
  /\ \E lost \in SUBSET waiting :
       /\ \A k, l \in lost : k = l
       /\ waiting' = (waiting \ lost) \cup {m}
  /\ Serve
  /\ UNCHANGED <<accepted, disturbances>>

\* A message that has been sent leaves the queue, and the next one may be sent.
Finish(m) ==
  /\ m \in sent
  /\ waiting' = waiting \ {m}
  /\ Serve
  /\ UNCHANGED <<queued, before, accepted, disturbances>>

Send ==
  /\ Serve
  /\ UNCHANGED <<queued, before, waiting, accepted, disturbances>>

\* External: what has been sent is accepted, now or much later.
Accept(m) ==
  /\ m \in sent
  /\ accepted' = accepted \cup {m}
  /\ UNCHANGED <<queued, before, waiting, sent, disturbances>>

Disturb ==
  /\ disturbances' = disturbances + 1
  /\ waiting' \in SUBSET waiting
  /\ UNCHANGED <<queued, before, sent, accepted>>

Next ==
  \/ \E m \in Message : Enqueue(m) \/ Finish(m) \/ Accept(m)
  \/ Send \/ Disturb

Spec == Init /\ [][Next]_outbox
=============================================================================
