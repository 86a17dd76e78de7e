------------------------------- MODULE Breaker -------------------------------
(***************************************************************************)
(* The circuit breaker the proxy keeps for each model: ModelHealth and     *)
(* record_model_result in openvidia/proxy_state.py.  "fails" counts the    *)
(* failures in a row, "left" the ticks until the circuit closes again.     *)
(***************************************************************************)
EXTENDS Naturals

CONSTANTS
  CircuitAfter,  \* CIRCUIT_OPEN_AFTER
  CircuitReset   \* CIRCUIT_RESET_AFTER, in ticks

ASSUME BreakerSizes == CircuitAfter \in Nat \ {0} /\ CircuitReset \in Nat \ {0}

BreakerType == [fails : 0..(CircuitAfter + 1), left : 0..CircuitReset]

CircuitOpen(b) == b.fails >= CircuitAfter /\ b.left > 0

\* A success, and the state of a model nothing is known about.
AfterSuccess == [fails |-> 0, left |-> 0]

\* Reading the breaker after its reset time closes it.
CircuitRead(b) == IF CircuitOpen(b) \/ b.fails < CircuitAfter THEN b ELSE AfterSuccess

\* Mutant: every failure from the threshold on opens the circuit anew.
AfterFailureExtending(b) ==
  IF b.fails + 1 >= CircuitAfter
  THEN [fails |-> CircuitAfter, left |-> CircuitReset]
  ELSE [b EXCEPT !.fails = @ + 1]

\* Only the failure that reaches the threshold opens the circuit.  Failures
\* past it are counted as CircuitAfter + 1.
AfterFailure(b) ==
  IF b.fails + 1 = CircuitAfter
  THEN [fails |-> CircuitAfter, left |-> CircuitReset]
  ELSE [b EXCEPT !.fails = IF @ > CircuitAfter THEN @ ELSE @ + 1]

\* One tick later.
BreakerAged(b) == [b EXCEPT !.left = IF @ = 0 THEN 0 ELSE @ - 1]
=============================================================================
