----------------------------- MODULE MCTimeline -----------------------------
(* Two rooms for TLC.  Both begin with the creation of the room, two hidden  *)
(* events, two redactions and a message.  Beyond the first sync the short    *)
(* room has our own message, a redaction and our own message; in the long    *)
(* room the latter is an edit, and a redaction and our own message follow.   *)
EXTENDS Timeline

MCMine == {7, 9}
MCHidden == {2, 3}
MCRedactions == {4, 5, 8}

MCMineLong == {7, 9, 11}
MCHiddenLong == {2, 3, 9}
MCRedactionsLong == {4, 5, 8, 10}
============================================================================
