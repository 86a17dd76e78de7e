----------------------------- MODULE MCFailover -----------------------------
(* A request for embeddings and one to chat with the same model, for which    *)
(* another one may stand in; two hosts, the first of them UPSTREAM_BASE, and a *)
(* provider.                                                                  *)
EXTENDS Failover, TLC

CONSTANTS r1, r2, m1, m2

OneOfEach == r1 :> "embeddings" @@ r2 :> "chat"
BothModels == <<m1, m2>>
=============================================================================
