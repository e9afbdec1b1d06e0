------------------------------ MODULE MCMegolm ------------------------------
(* The local user and somebody with two devices, one of them verified.       *)
EXTENDS Megolm

CONSTANTS Them, o, a, b

MCOwner == [d \in {o, a, b} |-> IF d = o THEN Me ELSE Them]
=============================================================================
