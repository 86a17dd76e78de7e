----------------------------- MODULE MCRedisBus -----------------------------
(* Two proxies that share one key.                                           *)
EXTENDS RedisBus, TLC

CONSTANTS n1, n2, k1
=============================================================================
