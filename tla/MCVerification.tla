--------------------------- MODULE MCVerification ---------------------------
(* Small sets of devices and one verification for TLC.                       *)
EXTENDS Verification

CONSTANT t1

Two == {1, 2}
Three == {1, 2, 3}
One == {t1}
First == {1}
NoDevice == {}

\* Device 1 verifies device 2.
Up == [t \in Txn |-> 1]
UpTargets == [t \in Txn |-> {2}]

\* Device 2 asks the two others.
Down == [t \in Txn |-> 2]
AnyTargets == [t \in Txn |-> {1, 3}]
=============================================================================
