----------------------------- MODULE SyncStream -----------------------------
(***************************************************************************)
(* What the sync loop promises.  First the cache gets a complete copy of    *)
(* the account, which may take several attempts.  From then on it holds a   *)
(* prefix of the events the homeserver has for the account: each is written *)
(* exactly once and none is skipped, and the to-device messages among them  *)
(* are handed on at most once, when the prefix is extended over them and    *)
(* not before.                                                              *)
(***************************************************************************)
EXTENDS Integers

CONSTANTS
  Last,         \* events are numbered 1..Last
  ToDevice      \* those that are to-device messages

VARIABLES
  phase,        \* "copying" or "following"
  saved,        \* how often each event has been written since the copy
  handled       \* how often each to-device message has been handed on

stream == <<phase, saved, handled>>

Prefix(n) == [e \in 1..Last |-> IF e <= n THEN 1 ELSE 0]

HandOn(m, k) ==
  handled' = [e \in 1..Last |-> IF e \in ToDevice /\ m < e /\ e <= k
                                  THEN handled[e] + 1 ELSE handled[e]]

Init == phase = "copying" /\ saved = Prefix(0) /\ handled = Prefix(0)

\* A complete copy of the first n events is made.
Copy(n, k) ==
  /\ phase = "copying" /\ phase' \in {"copying", "following"}
  /\ saved' = Prefix(n)
  /\ HandOn(0, k)

\* The program is started again and finds a copy.
Follow == phase = "copying" /\ phase' = "following" /\ UNCHANGED <<saved, handled>>

\* The prefix grows from m to n; the messages up to k are handed on.  Those
\* between k and n are lost.
Extend(m, n, k) ==
  /\ phase = "following" /\ phase' = phase
  /\ m <= k /\ k <= n
  /\ saved = Prefix(m) /\ saved' = Prefix(n)
  /\ HandOn(m, k)

\* The account is removed from this computer.
Forget ==
  /\ phase' \in {"copying", "following"}
  /\ saved' = Prefix(0) /\ handled' = Prefix(0)

Next ==
  \/ Follow \/ Forget
  \/ \E n, k \in 0..Last : Copy(n, k)
  \/ \E m, n, k \in 0..Last : Extend(m, n, k)

Spec == Init /\ [][Next]_stream
=============================================================================
