----------------------------- MODULE MCRotation -----------------------------
(* Instances of Rotation small enough for TLC.  A tick stands for some 15s,  *)
(* so that the durations keep their order: the pause of the pool, the        *)
(* default cooldown, the cooldown of a 429, that of a repeated one.          *)
EXTENDS Rotation, TLC

CONSTANTS k1, k2, k3, r1, r2, r3

OneKey == <<k1>>
TwoKeys == <<k1, k2>>
ThreeKeys == <<k1, k2, k3>>

Ticks == [auth |-> 4, rate |-> 2, repeat |-> 3, other |-> 1]

Direct == [r \in Request |-> IF r = r1 THEN "catchall" ELSE "anthropic"]
AllCatchAll == [r \in Request |-> "catchall"]
AllResponses == [r \in Request |-> "responses"]
AllPlain == [r \in Request |-> "plain"]
Shims == [r \in Request |-> IF r = r1 THEN "responses" ELSE "plain"]
=============================================================================
