---------------------------- MODULE MCSendQueue ----------------------------
(* Small instances of SendQueue for TLC. *)
EXTENDS SendQueue, TLC

CONSTANTS m1, m2

Txn2 == {m1, m2}
Perms2 == Permutations(Txn2)
============================================================================
