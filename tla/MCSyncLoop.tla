----------------------------- MODULE MCSyncLoop -----------------------------
(* Two events, both to-device messages.                                      *)
EXTENDS SyncLoop

MCToDevice == {1, 2}
=============================================================================
