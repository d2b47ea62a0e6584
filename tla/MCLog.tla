------------------------------- MODULE MCLog -------------------------------
(***************************************************************************)
(* Instances of DareLog for TLC.  With these lengths the second entry that *)
(* a log from offset 25 gets leaves no place for a header, the one that a  *)
(* log from offset 26 gets ends with the buffer, and HEAD entries push     *)
(* others over the end, so that their header stays behind as a marker.     *)
(* Four requests without pruning fill three quarters of the ring.          *)
(***************************************************************************)
EXTENDS DareLog

Lengths == <<6, 6, 5, 6>>
Starts  == {0, 25, 26}
=============================================================================
