----------------------------- MODULE MCRestarts -----------------------------
(* Three processes over a file of one key, which the user adds and removes:  *)
(* the first one serves, the second one is started in a terminal or as a     *)
(* replacement, the third one with the desktop launcher or as a replacement. *)
EXTENDS Restarts, TLC

CONSTANTS p1, p2, p3, k1, torn
=============================================================================
