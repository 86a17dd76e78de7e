------------------------------ MODULE EventWire ------------------------------
(***************************************************************************)
(* What the client of a streamed reply may be sent, whichever of the two   *)
(* APIs it speaks: content blocks (items, in /v1/responses) announced      *)
(* under the indexes 0, 1, 2, ..., each one filled while it is open and    *)
(* closed once, and a single last event.  It ends the reply, when every    *)
(* block is closed, or says that it failed, before there is any.           *)
(***************************************************************************)
EXTENDS Naturals, FiniteSets

VARIABLES
  blocks, \* for each index: how often it was announced, filled and closed
  ended,  \* how often the reply was said to be complete
  failed  \* how often it was said to have failed

vars == <<blocks, ended, failed>>

Announced == [opens |-> 1, deltas |-> 0, stops |-> 0]
GoingOn == ended = 0 /\ failed = 0

Init == blocks = [i \in {} |-> Announced] /\ ended = 0 /\ failed = 0

\* The next block gets the next index.
Open ==
  /\ GoingOn
  /\ LET n == Cardinality(DOMAIN blocks)
     IN  blocks' = [i \in 0..n |-> IF i < n THEN blocks[i] ELSE Announced]
  /\ UNCHANGED <<ended, failed>>

Delta(i) ==
  /\ GoingOn /\ blocks[i].stops = 0
  /\ blocks' = [blocks EXCEPT ![i].deltas = @ + 1]
  /\ UNCHANGED <<ended, failed>>

Stop(i) ==
  /\ GoingOn /\ blocks[i].stops = 0
  /\ blocks' = [blocks EXCEPT ![i].stops = 1]
  /\ UNCHANGED <<ended, failed>>

End ==
  /\ GoingOn
  /\ \A i \in DOMAIN blocks : blocks[i].stops = 1
  /\ ended' = 1
  /\ UNCHANGED <<blocks, failed>>

Fail ==
  /\ GoingOn /\ DOMAIN blocks = {}
  /\ failed' = 1
  /\ UNCHANGED <<blocks, ended>>

Next == Open \/ End \/ Fail \/ \E i \in DOMAIN blocks : Delta(i) \/ Stop(i)

Spec == Init /\ [][Next]_vars
=============================================================================
