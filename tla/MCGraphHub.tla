------------------------------ MODULE MCGraphHub ------------------------------
(* Instances of GraphHub for TLC.                                          *)
EXTENDS GraphHub, TLC

CONSTANTS o1, o2, w1, w2
=============================================================================
