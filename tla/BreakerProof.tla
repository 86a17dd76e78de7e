----------------------------- MODULE BreakerProof -----------------------------
(* What the circuit breaker's operators return, for every threshold.          *)
EXTENDS Breaker, TLAPS

\* Whatever is booked, the breaker keeps its type.
LEMMA BreakerTypes ==
  /\ AfterSuccess \in BreakerType
  /\ \A b \in BreakerType : /\ AfterFailure(b) \in BreakerType
                            /\ CircuitRead(b) \in BreakerType
                            /\ BreakerAged(b) \in BreakerType
<1> USE BreakerSizes
<1>1. AfterSuccess \in BreakerType
  BY DEF AfterSuccess, BreakerType
<1>2. ASSUME NEW b \in BreakerType
      PROVE  AfterFailure(b) \in BreakerType
  <2>1. CASE b.fails + 1 = CircuitAfter
    BY <2>1 DEF AfterFailure, BreakerType
  <2>2. CASE b.fails + 1 # CircuitAfter
    BY <2>2 DEF AfterFailure, BreakerType
  <2> QED BY <2>1, <2>2
<1>3. ASSUME NEW b \in BreakerType
      PROVE  CircuitRead(b) \in BreakerType
  BY <1>1 DEF CircuitRead
<1>4. ASSUME NEW b \in BreakerType
      PROVE  BreakerAged(b) \in BreakerType
  BY DEF BreakerAged, BreakerType
<1> QED BY <1>1, <1>2, <1>3, <1>4

\* Failures booked while the circuit is open leave its reset time alone, and
\* leave the count past the threshold: the next one will not touch it either.
LEMMA FailingWhileOpen ==
  \A b \in BreakerType :
    b.fails >= CircuitAfter =>
      /\ AfterFailure(b).left = b.left
      /\ AfterFailure(b).fails >= CircuitAfter
BY BreakerSizes DEF AfterFailure, BreakerType

\* Nothing but the failure that reaches the threshold makes "left" grow.
LEMMA ReadingNeverProlongs ==
  \A b \in BreakerType : /\ CircuitRead(b).left <= b.left
                         /\ BreakerAged(b).left <= b.left
                         /\ AfterSuccess.left <= b.left
BY BreakerSizes DEF CircuitRead, AfterSuccess, BreakerAged, BreakerType
=============================================================================
