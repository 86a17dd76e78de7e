----------------------------- MODULE ReplayProof -----------------------------
(***************************************************************************)
(* Theorems about Replay, for every set of calls and chunks: a reply says  *)
(* the same streamed and unstreamed, and comes back to the model as it     *)
(* gave it.                                                                *)
(***************************************************************************)
EXTENDS Replay, StreamProof

-----------------------------------------------------------------------------
(* Numbers in their order.                                                 *)

Below(S, n) == {m \in S : m < n}

\* What lists a set of numbers is that set in its order.
LEMMA AscendingIs ==
  ASSUME NEW q \in Seq(Nat), NEW S, Lists(q, S)
  PROVE  /\ q = Ascending(S) /\ IsFiniteSet(S) /\ Cardinality(S) = Len(q)
         /\ \A k \in DOMAIN q : Cardinality(Below(S, q[k])) = k - 1
<1> DEFINE n == Len(q)
<1>0. /\ n \in Nat /\ DOMAIN q = 1..n /\ q \in [1..n -> Nat]
      /\ S = {q[k] : k \in 1..n}
      /\ \A j, k \in 1..n : j < k => q[j] < q[k]
  BY DEF Lists
<1> HIDE DEF n
<1>1. ASSUME NEW m \in 0..n, NEW T, T = {q[k] : k \in 1..m}
      PROVE  IsFiniteSet(T) /\ Cardinality(T) = m
  <2> DEFINE f == [k \in 1..m |-> q[k]]
  <2>1. f \in Bijection(1..m, T)
    <3>1. \A j, k \in 1..m : f[j] = f[k] => j = k
      <4> SUFFICES ASSUME NEW j \in 1..m, NEW k \in 1..m, q[j] = q[k], j # k
                   PROVE  FALSE
        BY <1>0
      <4>1. j < k \/ k < j
        OBVIOUS
      <4>2. q[j] \in Nat /\ q[k] \in Nat /\ j \in 1..n /\ k \in 1..n
        BY <1>0
      <4> QED BY <1>0, <4>1, <4>2
    <3>2. f \in [1..m -> T]
      BY <1>1
    <3>3. \A t \in T : \E k \in 1..m : f[k] = t
      BY <1>1
    <3> HIDE DEF f
    <3> QED BY <3>1, <3>2, <3>3 DEF Bijection, Injection, Surjection, IsInjective
  <2>2. IsFiniteSet(1..m) /\ Cardinality(1..m) = m
    BY FS_Interval
  <2>3. ExistsBijection(1..m, T)
    BY <2>1 DEF ExistsBijection
  <2> QED BY <2>2, <2>3, FS_Bijection
<1>2. ASSUME NEW k \in 1..n
      PROVE  Cardinality(Below(S, q[k])) = k - 1
  <2>1. Below(S, q[k]) = {q[j] : j \in 1..(k - 1)}
    <3>1. \A j \in 1..n : q[j] < q[k] <=> j < k
      <4> SUFFICES ASSUME NEW j \in 1..n, q[j] < q[k], ~(j < k) PROVE FALSE
        BY <1>0
      <4>1. j = k \/ k < j
        BY <1>0
      <4>2. q[j] \in Nat /\ q[k] \in Nat
        BY <1>0
      <4> QED BY <1>0, <4>1, <4>2
    <3>2. 1..(k - 1) = {j \in 1..n : j < k}
      BY <1>0
    <3>3. S = {q[j] : j \in 1..n} /\ 1..(k - 1) \subseteq 1..n
      BY <1>0, <3>2
    <3> QED BY <3>1, <3>2, <3>3 DEF Below
  <2>2. k - 1 \in 0..n
    BY <1>0
  <2> QED BY <1>1, <2>1, <2>2
<1>3. IsFiniteSet(S) /\ Cardinality(S) = n
  <2>1. S = {q[k] : k \in 1..n}
    BY <1>0
  <2>2. n \in 0..n
    BY <1>0
  <2> QED BY <1>1, <2>1, <2>2
<1>4. \A k \in 1..n : q[k] = CHOOSE x \in S : Cardinality({m \in S : m < x}) = k - 1
  <2> SUFFICES ASSUME NEW k \in 1..n
               PROVE  q[k] = CHOOSE x \in S : Cardinality({m \in S : m < x}) = k - 1
    OBVIOUS
  <2>1. q[k] \in S /\ Cardinality({m \in S : m < q[k]}) = k - 1
    BY <1>0, <1>2 DEF Below
  <2>2. ASSUME NEW x \in S, Cardinality({m \in S : m < x}) = k - 1
        PROVE  x = q[k]
    <3>1. PICK j \in 1..n : x = q[j]
      BY <1>0
    <3>2. Cardinality({m \in S : m < x}) = j - 1
      BY <1>2, <3>1 DEF Below
    <3>3. j - 1 = k - 1
      BY <2>2, <3>2
    <3>4. j = k
      BY <1>0, <3>3
    <3> QED BY <3>1, <3>4
  <2> QED BY <2>1, <2>2
<1>5. q = [k \in 1..n |-> q[k]]
  BY <1>0
<1>6. Ascending(S) = [k \in 1..n |-> CHOOSE x \in S : Cardinality({m \in S : m < x}) = k - 1]
  BY <1>3 DEF Ascending
<1> QED BY <1>0, <1>2, <1>3, <1>4, <1>5, <1>6 DEF n

\* Every finite set of numbers can be put in its order.
LEMMA AscendingLists ==
  ASSUME NEW S \in SUBSET Nat, IsFiniteSet(S)
  PROVE  /\ Cardinality(S) \in Nat
         /\ Ascending(S) \in [1..Cardinality(S) -> S]
         /\ Lists(Ascending(S), S)
<1> DEFINE n == Cardinality(S)
           f == [x \in S |-> Cardinality(Below(S, x)) + 1]
           q == Ascending(S)
<1>1. n \in Nat
  BY FS_CardinalityType
<1>2. ASSUME NEW x \in S
      PROVE  /\ IsFiniteSet(Below(S, x)) /\ Cardinality(Below(S, x)) \in 0..(n - 1)
             /\ \A y \in S : x < y => Cardinality(Below(S, x)) < Cardinality(Below(S, y))
  <2>1. IsFiniteSet(S \ {x}) /\ Cardinality(S \ {x}) = n - 1
    BY FS_RemoveElement
  <2>2. Below(S, x) \in SUBSET (S \ {x})
    BY DEF Below
  <2>3. IsFiniteSet(Below(S, x)) /\ Cardinality(Below(S, x)) <= n - 1
    BY <2>1, <2>2, FS_Subset
  <2>4. Cardinality(Below(S, x)) \in Nat
    BY <2>3, FS_CardinalityType
  <2>5. ASSUME NEW y \in S, x < y
        PROVE  Cardinality(Below(S, x)) < Cardinality(Below(S, y))
    <3>1. x \notin Below(S, x)
      BY DEF Below
    <3>2. Cardinality(Below(S, x) \cup {x}) = Cardinality(Below(S, x)) + 1
      BY <2>3, <3>1, FS_AddElement
    <3>3. Below(S, x) \cup {x} \in SUBSET Below(S, y)
      <4>1. \A m \in S : m < x => m < y
        BY <2>5
      <4> QED BY <2>5, <4>1 DEF Below
    <3>4. IsFiniteSet(Below(S, y)) /\ Cardinality(Below(S, y)) \in Nat
      <4>1. Below(S, y) \in SUBSET S
        BY DEF Below
      <4> QED BY <4>1, FS_Subset, FS_CardinalityType
    <3>5. Cardinality(Below(S, x) \cup {x}) <= Cardinality(Below(S, y))
      BY <3>3, <3>4, FS_Subset
    <3> QED BY <2>4, <3>2, <3>4, <3>5
  <2> QED BY <1>1, <2>3, <2>4, <2>5
<1> HIDE DEF n
<1>3. /\ f \in [S -> 1..n]
      /\ \A x, y \in S : x < y => f[x] < f[y]
  BY <1>1, <1>2
<1>4. \A x \in S : f[x] - 1 = Cardinality(Below(S, x))
  BY <1>1, <1>2
<1> HIDE DEF f
<1>5. \A x, y \in S : f[x] = f[y] => x = y
  <2> SUFFICES ASSUME NEW x \in S, NEW y \in S, f[x] = f[y], x # y PROVE FALSE
    OBVIOUS
  <2>1. x < y \/ y < x
    OBVIOUS
  <2>2. f[x] \in 1..n /\ f[y] \in 1..n
    BY <1>3
  <2> QED BY <1>1, <1>3, <2>1, <2>2
<1>6. \A k \in 1..n : \E x \in S : f[x] = k
  <2>1. f \in Injection(S, 1..n)
    BY <1>3, <1>5 DEF Injection, IsInjective
  <2>2. IsFiniteSet(1..n) /\ Cardinality(1..n) = n
    BY <1>1, FS_Interval
  <2>3. f \in Surjection(S, 1..n)
    BY <2>1, <2>2, FS_Injection DEF n
  <2> QED BY <2>3 DEF Surjection
<1>7. \A k \in 1..n : q[k] \in S /\ f[q[k]] = k
  <2> SUFFICES ASSUME NEW k \in 1..n PROVE q[k] \in S /\ f[q[k]] = k
    OBVIOUS
  <2>1. q[k] = CHOOSE x \in S : Cardinality({m \in S : m < x}) = k - 1
    BY DEF Ascending, n
  <2>2. PICK x \in S : f[x] = k
    BY <1>6
  <2>3. Cardinality({m \in S : m < x}) = k - 1
    BY <1>4, <2>2 DEF Below
  <2>4. q[k] \in S /\ Cardinality(Below(S, q[k])) = k - 1
    BY <2>1, <2>3 DEF Below
  <2>5. f[q[k]] - 1 = k - 1 /\ f[q[k]] \in 1..n
    BY <1>3, <1>4, <2>4
  <2> QED BY <1>1, <2>4, <2>5
<1>8. DOMAIN q = 1..n /\ q = [k \in 1..n |-> q[k]]
  <2>1. q = [k \in 1..n |-> CHOOSE x \in S : Cardinality({m \in S : m < x}) = k - 1]
    BY DEF Ascending, n
  <2> HIDE DEF q
  <2> QED BY <2>1
<1> HIDE DEF q
<1>9. \A x \in S : q[f[x]] = x /\ f[x] \in 1..n
  BY <1>3, <1>5, <1>7
<1>10. \A j, k \in 1..n : j < k => q[j] < q[k]
  <2> SUFFICES ASSUME NEW j \in 1..n, NEW k \in 1..n, j < k, ~(q[j] < q[k]) PROVE FALSE
    OBVIOUS
  <2>1. q[j] \in Nat /\ q[k] \in Nat /\ q[j] \in S /\ q[k] \in S /\ q[j] # q[k]
    <3>1. f[q[j]] # f[q[k]]
      BY <1>1, <1>7
    <3> QED BY <1>7, <3>1
  <2>2. q[k] < q[j]
    BY <2>1
  <2>3. f[q[k]] < f[q[j]]
    BY <1>3, <2>1, <2>2
  <2>4. k < j
    BY <1>7, <2>3
  <2> QED BY <1>1, <2>4
<1>11. {q[k] : k \in DOMAIN q} = S
  BY <1>7, <1>8, <1>9
<1>12. Lists(q, S)
  BY <1>8, <1>10, <1>11 DEF Lists
<1>13. q \in [1..n -> S]
  BY <1>7, <1>8
<1> QED BY <1>1, <1>12, <1>13 DEF n, q

\* One of them is the least.
LEMMA LeastOf ==
  ASSUME NEW S \in SUBSET Nat, IsFiniteSet(S), S # {}
  PROVE  \E n \in S : \A m \in S : n <= m
<1> DEFINE q == Ascending(S)
<1>1. /\ Cardinality(S) \in Nat /\ q \in [1..Cardinality(S) -> S]
      /\ S = {q[k] : k \in DOMAIN q} /\ \A j, k \in DOMAIN q : j < k => q[j] < q[k]
  BY AscendingLists DEF Lists
<1> HIDE DEF q
<1>2. Cardinality(S) # 0
  BY FS_EmptySet
<1>3. 1 \in DOMAIN q /\ \A k \in DOMAIN q : k = 1 \/ 1 < k
  BY <1>1, <1>2
<1>4. q[1] \in S /\ \A m \in S : q[1] <= m
  <2>1. \A k \in DOMAIN q : q[k] \in Nat /\ (q[1] = q[k] \/ q[1] < q[k])
    BY <1>1, <1>3
  <2> QED BY <1>1, <1>3, <2>1
<1> QED BY <1>4

-----------------------------------------------------------------------------
(* Sequences put end to end.                                               *)

Joins(s, f) == f = [i \in 1..Len(s) |-> IF i = 1 THEN s[i] ELSE f[i - 1] \o s[i]]

LEMMA JoinedBy ==
  ASSUME NEW s, Len(s) \in Nat, Len(s) # 0, NEW g, Joins(s, g)
  PROVE  FlattenSeq(s) = g[Len(s)]
<1> DEFINE f == CHOOSE f : Joins(s, f)
           differ == {i \in 1..Len(s) : f[i] # g[i]}
<1>1. Joins(s, f)
  OBVIOUS
<1>2. FlattenSeq(s) = f[Len(s)]
  BY DEF FlattenSeq, Joins
<1>3. /\ \A i \in 1..Len(s) : f[i] = IF i = 1 THEN s[i] ELSE f[i - 1] \o s[i]
      /\ \A i \in 1..Len(s) : g[i] = IF i = 1 THEN s[i] ELSE g[i - 1] \o s[i]
  BY <1>1 DEF Joins
<1> HIDE DEF f
<1>4. ASSUME differ # {}
      PROVE  FALSE
  <2>1. differ \in SUBSET Nat /\ \A i \in differ : i <= Len(s)
    OBVIOUS
  <2>2. IsFiniteSet(differ)
    BY <2>1, FS_BoundedSetOfNaturals
  <2>3. PICK i \in differ : \A j \in differ : i <= j
    BY <1>4, <2>1, <2>2, LeastOf
  <2>4. i # 1
    BY <1>3
  <2>5. i - 1 \in 1..Len(s) /\ i - 1 \notin differ
    BY <2>3, <2>4
  <2>6. f[i - 1] = g[i - 1]
    BY <2>5
  <2> QED BY <1>3, <2>4, <2>6
<1>5. f[Len(s)] = g[Len(s)]
  BY <1>4
<1> QED BY <1>2, <1>5

\* Where one part at most has anything in it, that part is all there is.
LEMMA JoinedOne ==
  ASSUME NEW s, Len(s) \in Nat, DOMAIN s = 1..Len(s),
         NEW k \in DOMAIN s, NEW A, s[k] \in Seq(A),
         \A i \in DOMAIN s : i # k => s[i] = <<>>
  PROVE  FlattenSeq(s) = s[k]
<1> DEFINE g == [i \in 1..Len(s) |-> IF i < k THEN <<>> ELSE s[k]]
<1>1. \A i \in 1..Len(s) : g[i] = IF i = 1 THEN s[i] ELSE g[i - 1] \o s[i]
  <2> SUFFICES ASSUME NEW i \in 1..Len(s)
               PROVE  g[i] = IF i = 1 THEN s[i] ELSE g[i - 1] \o s[i]
    OBVIOUS
  <2>1. CASE i < k
    <3>1. g[i] = <<>> /\ s[i] = <<>> /\ (i # 1 => g[i - 1] = <<>>)
      BY <2>1
    <3>2. <<>> \o <<>> = <<>>
      OBVIOUS
    <3> QED BY <3>1, <3>2
  <2>2. CASE i = k
    <3>1. g[i] = s[k] /\ (i # 1 => g[i - 1] = <<>>)
      BY <2>2
    <3>2. <<>> \o s[k] = s[k]
      OBVIOUS
    <3> QED BY <2>2, <3>1, <3>2
  <2>3. CASE i > k
    <3>1. g[i] = s[k] /\ i # 1 /\ g[i - 1] = s[k] /\ s[i] = <<>>
      BY <2>3
    <3>2. s[k] \o <<>> = s[k]
      OBVIOUS
    <3> QED BY <3>1, <3>2
  <2> QED BY <2>1, <2>2, <2>3
<1>2. g[Len(s)] = s[k] /\ Len(s) # 0
  OBVIOUS
<1>3. g = [i \in 1..Len(s) |-> g[i]]
  OBVIOUS
<1> HIDE DEF g
<1>4. Joins(s, g)
  BY <1>1, <1>3 DEF Joins
<1> QED BY <1>2, <1>4, JoinedBy

LEMMA JoinedNone ==
  ASSUME NEW s, Len(s) \in Nat, DOMAIN s = 1..Len(s), \A i \in DOMAIN s : s[i] = <<>>
  PROVE  Len(s) # 0 => FlattenSeq(s) = <<>>
<1> SUFFICES ASSUME Len(s) # 0 PROVE FlattenSeq(s) = <<>>
  OBVIOUS
<1>1. 1 \in DOMAIN s /\ s[1] = <<>> /\ <<>> \in Seq(Nat)
  OBVIOUS
<1> QED BY <1>1, JoinedOne

-----------------------------------------------------------------------------
(* What a reply was told of its usage and of its end.                      *)

Usages == {n \in DOMAIN read : read[n].usage # 0}
Finishing == {n \in DOMAIN read : read[n].finish # None}

\* The usage is the last one told, the reason to stop that of the first chunk
\* with one; only the last chunk read may have one that was not looked at yet.
EndInv ==
  /\ IF Usages = {} THEN reply.usage = 0
     ELSE \E n \in Usages : (\A m \in Usages : m <= n) /\ reply.usage = read[n].usage
  /\ todo.finish # None => read # <<>> /\ todo.finish = read[Len(read)].finish
  /\ IF reply.closed
     THEN \E n \in Finishing : /\ \A m \in Finishing : n <= m
                               /\ reply.stop = StopReason(read[n].finish)
     ELSE /\ reply.stop = "end_turn"
          /\ \A n \in Finishing : n = Len(read) /\ todo.finish # None

\* The event that ends a reply says what the reply came to.
EndsWith ==
  client = "there" => \A e \in Given : e.ev = "end" => e = Completed(reply)

LEMMA ReadType ==
  ASSUME TypeOK
  PROVE  /\ Len(read) \in Nat /\ DOMAIN read = 1..Len(read)
         /\ \A n \in DOMAIN read : read[n] \in Chunk
         /\ reply \in Reply /\ todo \in Todo
<1>1. read \in Seq(Chunks) /\ Chunks \subseteq Chunk
  BY StreamConstants DEF TypeOK
<1>2. /\ Len(read) \in Nat /\ DOMAIN read = 1..Len(read)
      /\ \A n \in DOMAIN read : read[n] \in Chunks
  BY <1>1
<1>3. reply \in Reply /\ todo \in Todo
  BY DEF TypeOK
<1> QED BY <1>1, <1>2, <1>3

LEMMA ReadEnd ==
  ASSUME TypeOK, EndInv, ReadChunk
  PROVE  EndInv'
<1>1. PICK c \in Chunk :
        /\ todo' = [text |-> c.text, calls |-> c.calls, finish |-> c.finish]
        /\ reply' = Usage(reply, c) /\ read' = Append(read, c) /\ todo = Done
  BY StreamConstants DEF ReadChunk
<1> DEFINE n == Len(read) + 1
<1>2. /\ Len(read) \in Nat /\ Len(read') = n /\ DOMAIN read' = 1..n
      /\ read'[n] = c /\ \A m \in DOMAIN read : m \in 1..(n - 1) /\ read'[m] = read[m]
      /\ \A m \in DOMAIN read' : m \in DOMAIN read \/ m = n
      /\ read' # <<>>
  <2>1. read \in Seq(Chunks)
    BY DEF TypeOK
  <2>2. Len(Append(read, c)) = Len(read) + 1 /\ DOMAIN Append(read, c) = 1..(Len(read) + 1)
    BY <2>1
  <2> QED BY <1>1, <2>1, <2>2
<1>3. reply \in Reply /\ todo.finish = None
  BY <1>1, ReadType DEF Done
<1>4. /\ reply'.closed = reply.closed /\ reply'.stop = reply.stop
      /\ reply'.usage = IF c.usage = 0 THEN reply.usage ELSE c.usage
  BY <1>1, <1>3 DEF Usage, Reply
<1> HIDE DEF n
<1>5. /\ \A m \in Usages : m \in Usages' /\ m < n
      /\ \A m \in Usages' : m \in Usages \/ (m = n /\ c.usage # 0)
      /\ c.usage # 0 => n \in Usages'
  BY <1>2 DEF Usages, n
<1>6. IF Usages' = {} THEN reply'.usage = 0
      ELSE \E m \in Usages' : (\A j \in Usages' : j <= m) /\ reply'.usage = read'[m].usage
  <2>1. CASE c.usage # 0
    <3>1. n \in Usages' /\ reply'.usage = read'[n].usage
      BY <1>2, <1>4, <1>5, <2>1
    <3>2. \A j \in Usages' : j \in 1..n
      BY <1>2 DEF Usages
    <3>3. \A j \in Usages' : j <= n
      BY <3>2
    <3> QED BY <3>1, <3>3
  <2>2. CASE c.usage = 0
    <3>1. Usages' = Usages /\ reply'.usage = reply.usage
      BY <1>4, <1>5, <2>2
    <3>2. \A m \in Usages : read'[m] = read[m]
      BY <1>2 DEF Usages
    <3> QED BY <3>1, <3>2 DEF EndInv
  <2> QED BY <2>1, <2>2
<1>7. /\ \A m \in Finishing : m \in Finishing' /\ m < n /\ read'[m] = read[m]
      /\ \A m \in Finishing' : m \in Finishing \/ (m = n /\ c.finish # None)
  BY <1>2 DEF Finishing, n
<1>8. CASE reply.closed
  <2>1. PICK m \in Finishing : /\ \A j \in Finishing : m <= j
                               /\ reply.stop = StopReason(read[m].finish)
    BY <1>8 DEF EndInv
  <2>2. \A j \in Finishing' : m <= j
    BY <1>2, <1>7, <2>1 DEF n, Finishing
  <2>3. \A x : StopReason(x)' = StopReason(x)
    BY DEF StopReason
  <2> QED BY <1>1, <1>2, <1>4, <1>6, <1>7, <1>8, <2>1, <2>2 DEF EndInv, n
<1>9. CASE ~reply.closed
  <2>1. Finishing = {}
    BY <1>3, <1>9 DEF EndInv
  <2>2. \A m \in Finishing' : m = Len(read') /\ todo'.finish # None
    BY <1>1, <1>2, <1>7, <2>1
  <2> QED BY <1>1, <1>2, <1>4, <1>6, <1>9, <2>2 DEF EndInv
<1> QED BY <1>8, <1>9

LEMMA EndStep ==
  ASSUME TypeOK, EndInv, [Next]_vars
  PROVE  EndInv'
<1>0. reply \in Reply /\ todo \in Todo
  BY ReadType
<1>1. ASSUME /\ read' = read /\ todo'.finish = todo.finish
             /\ reply'.usage = reply.usage /\ reply'.closed = reply.closed
             /\ reply'.stop = reply.stop
      PROVE  EndInv'
  <2>1. Usages' = Usages /\ Finishing' = Finishing
    BY <1>1 DEF Usages, Finishing
  <2> QED BY <1>1, <2>1 DEF EndInv
<1>2. CASE ReadChunk
  BY <1>2, ReadEnd
<1>3. CASE Finish
  <2>1. read' = read /\ todo.finish # None /\ todo'.finish = None
    BY <1>3 DEF Finish, KeepRest, Done
  <2>2. Usages' = Usages /\ Finishing' = Finishing
    BY <2>1 DEF Usages, Finishing
  <2>3. CASE reply.closed
    BY <1>3, <2>1, <2>2, <2>3 DEF EndInv, Finish
  <2>4. CASE ~reply.closed
    <3>1. /\ reply'.closed = TRUE /\ reply'.stop = StopReason(todo.finish)
          /\ reply'.usage = reply.usage
      BY <1>0, <1>3, <2>4 DEF Finish, Reply
    <3>2. /\ todo.finish = read[Len(read)].finish
          /\ Len(read) \in Finishing /\ \A m \in Finishing : m = Len(read)
      <4>1. Len(read) \in DOMAIN read
        <5>1. read # <<>> /\ read \in Seq(Chunks)
          BY <2>1 DEF EndInv, TypeOK
        <5> QED BY <5>1
      <4> QED BY <2>1, <2>4, <4>1 DEF EndInv, Finishing
    <3>3. \A m \in Finishing : Len(read) <= m
      BY <3>2, ReadType
    <3> QED BY <2>1, <2>2, <3>1, <3>2, <3>3 DEF EndInv
  <2> QED BY <2>3, <2>4
<1>4. CASE OpenText \/ WriteText \/ OpenCall \/ WriteCall
  <2>1. read' = read /\ todo'.finish = todo.finish
    BY <1>0, <1>4 DEF OpenText, WriteText, OpenCall, WriteCall, KeepRest, Todo
  <2>2. /\ reply'.usage = reply.usage /\ reply'.closed = reply.closed
        /\ reply'.stop = reply.stop
    BY <1>0, <1>4 DEF OpenText, WriteText, OpenCall, WriteCall, Reply
  <2> QED BY <1>1, <2>1, <2>2
<1>5. CASE \/ Yield \/ StartRotation \/ RotationEnds \/ Keepalive \/ Answered \/ Refused
           \/ LoopEnds \/ BodyBreaks \/ PhaseBreaks \/ HangUp \/ Cancel \/ UNCHANGED vars
  <2>1. UNCHANGED <<read, todo, reply>>
    BY <1>5 DEF Yield, StartRotation, RotationEnds, Keepalive, Answered, Refused, LoopEnds,
                BodyBreaks, PhaseBreaks, Break, HangUp, Cancel, Untranslated, vars
  <2> QED BY <1>1, <2>1
<1> QED BY <1>2, <1>3, <1>4, <1>5 DEF Next, Translate

LEMMA EndsWithStep ==
  ASSUME TypeOK, StreamInv, WordsInv, EndsWith, [Next]_vars
  PROVE  EndsWith'
<1> SUFFICES ASSUME client' = "there", NEW e \in Given', e.ev = "end"
             PROVE  e = Completed(reply)'
  BY DEF EndsWith
<1>1. client = "there"
  BY DEF Next, vars, Yield, StartRotation, RotationEnds, Keepalive, Answered, Refused, ReadChunk,
         Translate, OpenText, WriteText, OpenCall, WriteCall, Finish, KeepRest, LoopEnds,
         BodyBreaks, PhaseBreaks, Break, HangUp, Cancel, Untranslated, TypeOK
<1>2. CASE e \in Given
  <2>1. pc = "last" /\ e = Completed(reply)
    BY <1>1, <1>2 DEF WordsInv, Passed, EndsWith
  <2>2. UNCHANGED <<api, reply>>
    BY <2>1 DEF Next, vars, Yield, StartRotation, RotationEnds, Keepalive, Answered, Refused,
                ReadChunk, Reading, Calling, Translate, OpenText, WriteText, OpenCall, WriteCall,
                Finish, LoopEnds, BodyBreaks, PhaseBreaks, Break, HangUp, Cancel, Untranslated
  <2>3. Completed(reply)' = Completed(reply)
    BY <2>2 DEF Completed, Items
  <2> QED BY <2>1, <2>3
<1>3. CASE e \notin Given
  <2>1. \/ UNCHANGED <<sent, out>> \/ Yield \/ Keepalive \/ Refused
        \/ OpenText \/ WriteText \/ OpenCall \/ WriteCall \/ Finish \/ LoopEnds
    BY <1>1 DEF Next, vars, StartRotation, RotationEnds, Answered, ReadChunk, Translate,
                BodyBreaks, PhaseBreaks, Break, HangUp, Cancel, Untranslated
  <2>2. CASE UNCHANGED <<sent, out>>
    BY <1>3, <2>2 DEF Given, SentEvents
  <2>3. CASE Yield
    <3> DEFINE h == Head(out)
               t == Tail(out)
    <3>0. /\ sent \in Seq(Event) /\ out \in Seq(Event) /\ out # <<>> /\ out' = t
          /\ sent' = sent \/ sent' = Append(sent, h)
      BY <2>3 DEF TypeOK, Yield
    <3>1. \A x \in Given' : x \in Given
      <4>1. /\ h \in Event /\ h = out[1] /\ 1 \in DOMAIN out
            /\ \A k \in DOMAIN t : k + 1 \in DOMAIN out /\ t[k] = out[k + 1]
        BY <3>0, HeadAndTail
      <4> HIDE DEF h, t
      <4>2. \A k \in DOMAIN Append(sent, h) :
              Append(sent, h)[k] = h \/ (k \in DOMAIN sent /\ Append(sent, h)[k] = sent[k])
        BY <3>0, <4>1
      <4>3. h \in Given /\ \A k \in DOMAIN sent : sent[k] \in Given
        BY <4>1 DEF Given, SentEvents
      <4>4. \A k \in DOMAIN sent' : sent'[k] \in Given
        BY <3>0, <4>2, <4>3
      <4>5. \A k \in DOMAIN out' : out'[k] \in Given
        BY <3>0, <4>1 DEF Given
      <4>6. Given' = {sent'[k] : k \in DOMAIN sent'} \cup {out'[k] : k \in DOMAIN out'}
        BY DEF Given, SentEvents
      <4> QED BY <4>4, <4>5, <4>6
    <3> QED BY <1>3, <3>1
  <2>4. CASE Keepalive \/ Refused \/ OpenText \/ WriteText \/ OpenCall \/ WriteCall
    <3>1. /\ sent' = sent
          /\ out' = out \/ \E x : out' = <<x>> /\ x.ev \in {"keepalive", "failed", "open", "delta"}
      BY <2>4 DEF Keepalive, Refused, OpenText, WriteText, OpenCall, WriteCall, KeepRest,
                  Opened, Delta
    <3> QED BY <1>3, <3>1 DEF Given, SentEvents
  <2>5. CASE Finish \/ LoopEnds
    <3>1. reply \in Reply /\ out = <<>> /\ UNCHANGED <<sent, api>>
      BY <2>5, ReadType DEF Finish, LoopEnds, Reading, KeepRest
    <3>2. CASE Finish
      <4>1. out' = out \/ out' = Stops(reply)
        BY <3>2 DEF Finish
      <4>2. \A k \in DOMAIN out' : out'[k].ev = "stop"
        BY <3>1, <4>1, StopsOfContents
      <4> QED BY <1>3, <3>1, <4>2 DEF Given, SentEvents
    <3>3. CASE LoopEnds
      <4>1. out' = Farewell(reply) /\ reply' = reply
        BY <3>3 DEF LoopEnds, Untranslated
      <4>2. \A k \in DOMAIN out' : out'[k].ev = "stop" \/ out'[k] = Completed(reply)
        BY <3>1, <4>1, FarewellEvents
      <4>3. Completed(reply)' = Completed(reply)
        BY <3>1, <4>1 DEF Completed, Items
      <4> QED BY <1>3, <3>1, <4>2, <4>3 DEF Given, SentEvents
    <3> QED BY <2>5, <3>2, <3>3
  <2> QED BY <2>1, <2>2, <2>3, <2>4, <2>5
<1> QED BY <1>2, <1>3

-----------------------------------------------------------------------------
(* The end of a reply.                                                     *)

ReplyInv == TypeOK /\ StreamInv /\ WordsInv /\ EndInv /\ EndsWith

\* What a client holds that was told its reply is complete.
LEMMA AtTheEnd ==
  ASSUME ReplyInv, NEW e \in Ends
  PROVE  /\ reply \in Reply /\ Numbered(reply) /\ Gathered /\ InOrder /\ out = <<>>
         /\ e = Completed(reply) /\ todo = Done
         /\ Given = SentEvents /\ Passed
         /\ \A x, y \in Contents(reply) : x.index = y.index \/ x.of = y.of => x = y
         /\ \A i \in Nat : i < reply.next <=> \E x \in Contents(reply) : x.index = i
         /\ \A s \in Sources : Mentioned(s) <=> Begun(s)
         /\ \A x \in Contents(reply) : /\ x.of \in Sources /\ x.data \in Seq(Nat)
                                       /\ Lists(x.data, ChunksWith(x.of))
<1>0. e \in SentEvents /\ e.ev = "end"
  BY DEF Ends
<1>1. TypeOK /\ client = "there" /\ Passed /\ InOrder /\ Gathered
  BY <1>0 DEF ReplyInv, WordsInv, TypeOK
<1>2. Ended(sent)
  BY <1>0 DEF SentEvents, Ended
<1>3. out = <<>>
  BY <1>1, <1>2 DEF ReplyInv, StreamInv, Heard, Continues
<1>4. Given = SentEvents
  BY <1>3 DEF Given
<1>5. todo = Done /\ e = Completed(reply)
  BY <1>0, <1>1, <1>4 DEF Passed, ReplyInv, EndsWith
<1>6. \A r : ~Speaks(todo, r) /\ ~Mentions(todo, r)
  BY <1>5, NothingLeft, DoneIsNothing
<1>7. \A s : Due(s) = ChunksWith(s)
  BY <1>6 DEF Due, ChunksWith
<1>8. reply \in Reply /\ Numbered(reply)
  BY <1>1, ReadType DEF ReplyInv, StreamInv
<1>9. \A x, y \in Contents(reply) : x.index = y.index \/ x.of = y.of => x = y
  BY <1>1, <1>8, ContentsNumbered DEF Gathered
<1>10. \A x \in Contents(reply) : x \in Item /\ x.index < reply.next
  BY <1>8, ContentsType, ContentsNumbered
<1>11. \A x \in Contents(reply) : /\ x.of \in Sources /\ x.data \in Seq(Nat)
                                  /\ Lists(x.data, ChunksWith(x.of))
  BY <1>1, <1>7, <1>10 DEF Gathered, Item
<1>12. \A i \in Nat : i < reply.next <=> \E x \in Contents(reply) : x.index = i
  <2>1. ASSUME NEW i \in Nat, i < reply.next
        PROVE  \E x \in Contents(reply) : x.index = i
    <3>1. i = reply.text \/ \E k \in DOMAIN reply.tools : reply.tools[k].index = i
      BY <1>8, <2>1 DEF Numbered
    <3>2. CASE i = reply.text
      <4>1. reply.text # None
        BY <3>2, StreamConstants
      <4>2. [of |-> "text", index |-> reply.text, data |-> reply.full] \in Contents(reply)
        BY <4>1 DEF Contents
      <4> QED BY <3>2, <4>2
    <3>3. CASE \E k \in DOMAIN reply.tools : reply.tools[k].index = i
      BY <3>3 DEF Contents
    <3> QED BY <3>1, <3>2, <3>3
  <2> QED BY <1>10, <2>1
<1>13. \A s \in Sources : Mentioned(s) <=> Begun(s)
  BY <1>1, <1>6 DEF Gathered, Mentioned, Begun
<1> QED BY <1>1, <1>3, <1>4, <1>5, <1>8, <1>9, <1>11, <1>12, <1>13

\* Blocks are of different sources, and hold the words of theirs: what `items`
\* must be for the theorems below, whichever way the client came by them.
Tells(items) ==
  /\ Len(items) \in Nat /\ DOMAIN items = 1..Len(items)
  /\ \A j, k \in DOMAIN items : items[j].of = items[k].of => j = k
  /\ \A k \in DOMAIN items :
       /\ items[k].of \in Sources /\ Mentioned(items[k].of)
       /\ items[k] = [of |-> items[k].of, data |-> WordsRead(items[k].of)]
  /\ \A s \in Sources : Mentioned(s) => \E k \in DOMAIN items : items[k].of = s

LEMMA WordsOf ==
  ASSUME ReplyInv, NEW e \in Ends, NEW x \in Contents(reply)
  PROVE  x.data = WordsRead(x.of)
BY AtTheEnd, AscendingIs DEF WordsRead

\* The words of a block that the client was sent are the block's.
LEMMA WordsHeld ==
  ASSUME ReplyInv, NEW e \in Ends, NEW x \in Contents(reply)
  PROVE  WordsSent(x.index) = x.data
<1> DEFINE P == {k \in DOMAIN sent : sent[k].ev = "delta" /\ sent[k].index = x.index}
           q == x.data
           n == Len(x.data)
           at == [j \in 1..n |-> CHOOSE k \in P : sent[k] = DeltaOf(x, q[j])]
<1>0. q \in Seq(Nat) /\ Lists(q, ChunksWith(x.of)) /\ Passed /\ Given = SentEvents /\ InOrder
  BY AtTheEnd
<1>1. /\ n \in Nat /\ DOMAIN q = 1..n /\ \A j \in 1..n : q[j] \in Nat
      /\ \A j, k \in 1..n : j < k => q[j] < q[k]
  <2>1. n \in Nat /\ DOMAIN q = 1..n /\ \A j \in 1..n : q[j] \in Nat
    BY <1>0
  <2> QED BY <1>0, <2>1 DEF Lists
<1>2. \A j \in 1..n : at[j] \in P /\ sent[at[j]] = DeltaOf(x, q[j])
  <2> SUFFICES ASSUME NEW j \in 1..n
               PROVE  \E k \in P : sent[k] = DeltaOf(x, q[j])
    OBVIOUS
  <2>1. DeltaOf(x, q[j]) \in SentEvents
    BY <1>0, <1>1 DEF Passed
  <2> QED BY <2>1 DEF SentEvents, DeltaOf
<1>9. DOMAIN at = 1..n /\ at = [j \in 1..n |-> at[j]]
  <2> HIDE DEF P, q, n
  <2> QED OBVIOUS
<1> HIDE DEF at
<1>3. \A k \in P : \E j \in 1..n : sent[k] = DeltaOf(x, q[j])
  <2> SUFFICES ASSUME NEW k \in P PROVE \E j \in 1..n : sent[k] = DeltaOf(x, q[j])
    OBVIOUS
  <2>1. sent[k] \in Given /\ sent[k].ev = "delta" /\ sent[k].index = x.index
    BY DEF Given, SentEvents
  <2>2. PICK y \in Contents(reply) : \E j \in DOMAIN y.data : sent[k] = DeltaOf(y, y.data[j])
    BY <1>0, <2>1 DEF Passed
  <2>3. y.index = x.index
    BY <2>1, <2>2 DEF DeltaOf
  <2>4. y = x
    BY <2>3, AtTheEnd
  <2> QED BY <1>1, <2>2, <2>4
<1>4. \A j, k \in P : j < k => sent[j].data[1] < sent[k].data[1]
  BY <1>0 DEF InOrder, Before
<1>5. \A j \in 1..n : sent[at[j]].data[1] = q[j]
  <2>1. \A m : DeltaOf(x, m).data = <<m>> /\ <<m>>[1] = m
    BY DEF DeltaOf
  <2> QED BY <1>2, <2>1
<1>6. P \subseteq Nat
  <2>1. sent \in Seq(Event)
    BY DEF ReplyInv, TypeOK
  <2>2. DOMAIN sent \subseteq Nat
    BY <2>1
  <2> QED BY <2>2
<1> HIDE DEF P, q, n
<1>7. \A j, k \in 1..n : j < k => at[j] < at[k]
  <2> SUFFICES ASSUME NEW j \in 1..n, NEW k \in 1..n, j < k, ~(at[j] < at[k]) PROVE FALSE
    OBVIOUS
  <2>1. at[j] \in P /\ at[k] \in P /\ at[j] \in Nat /\ at[k] \in Nat
    BY <1>2, <1>6
  <2>2. q[j] < q[k] /\ q[j] \in Nat /\ q[k] \in Nat
    BY <1>1
  <2>3. at[k] = at[j] \/ at[k] < at[j]
    BY <2>1
  <2>4. q[k] = q[j] \/ q[k] < q[j]
    BY <1>4, <1>5, <2>1, <2>3
  <2> QED BY <2>2, <2>4
<1>8. \A k \in P : \E j \in 1..n : at[j] = k
  <2> SUFFICES ASSUME NEW k \in P PROVE \E j \in 1..n : at[j] = k
    OBVIOUS
  <2>1. PICK j \in 1..n : sent[k] = DeltaOf(x, q[j])
    BY <1>3
  <2>2. at[j] \in P /\ sent[at[j]] = sent[k]
    BY <1>2, <2>1
  <2>3. sent[k].data[1] = q[j] /\ q[j] \in Nat
    BY <1>1, <1>5, <2>2
  <2>4. ~(sent[at[j]].data[1] < sent[k].data[1]) /\ ~(sent[k].data[1] < sent[at[j]].data[1])
    BY <2>2, <2>3
  <2>5. ~(at[j] < k) /\ ~(k < at[j]) /\ k \in Nat /\ at[j] \in Nat
    BY <1>4, <1>6, <2>2, <2>4
  <2> QED BY <2>5
<1>10. at \in Seq(Nat)
  <2>1. \A k \in 1..n : at[k] \in Nat
    BY <1>2, <1>6
  <2> QED BY <1>1, <1>9, <2>1
<1>11. Lists(at, P)
  <2>1. {at[k] : k \in DOMAIN at} = P
    BY <1>2, <1>8, <1>9
  <2> QED BY <1>7, <1>9, <2>1 DEF Lists
<1>12. at = Ascending(P)
  BY <1>10, <1>11, AscendingIs
<1>13. WordsSent(x.index) = [k \in DOMAIN at |-> sent[at[k]].data[1]]
  BY <1>12 DEF WordsSent, P
<1>14. [k \in DOMAIN at |-> sent[at[k]].data[1]] = [k \in 1..n |-> q[k]]
  BY <1>5, <1>9
<1>15. [k \in 1..n |-> q[k]] = q
  BY <1>0, <1>1
<1> QED BY <1>13, <1>14, <1>15 DEF q

\* What the client of a stream keeps.
LEMMA KeptTells ==
  ASSUME ReplyInv, NEW e \in Ends
  PROVE  Tells(Kept(e))
<1>0. /\ reply \in Reply /\ Passed /\ Given = SentEvents /\ Gathered /\ Numbered(reply)
      /\ e = Completed(reply)
      /\ \A x, y \in Contents(reply) : x.index = y.index \/ x.of = y.of => x = y
      /\ \A i \in Nat : i < reply.next <=> \E x \in Contents(reply) : x.index = i
      /\ \A s \in Sources : Mentioned(s) <=> Begun(s)
      /\ \A x \in Contents(reply) : x.of \in Sources
  BY AtTheEnd
<1>1. \A x \in Contents(reply) : /\ x \in Item /\ Mentioned(x.of) /\ x.data = WordsRead(x.of)
                                 /\ WordsSent(x.index) = x.data
  BY <1>0, ContentsType, WordsOf, WordsHeld DEF Begun
<1>2. CASE api = "responses"
  <2> DEFINE all == Items(reply)
  <2>1. /\ \A k \in DOMAIN all : all[k] \in Contents(reply)
        /\ \A x \in Contents(reply) : \E k \in DOMAIN all : all[k] = x
        /\ \A j, k \in DOMAIN all : all[j].index = all[k].index => j = k
        /\ Len(all) \in Nat /\ DOMAIN all = 1..Len(all)
    <3>1. all \in Seq(Item)
      BY <1>0, ItemsType
    <3>2. Len(all) \in Nat /\ DOMAIN all = 1..Len(all)
      BY <3>1
    <3> QED BY <1>0, <3>2, ContentsType, ItemsNumbered
  <2>2. Kept(e) = [k \in DOMAIN all |-> [of |-> all[k].of, data |-> all[k].data]]
    BY <1>0, <1>2 DEF Kept, Completed
  <2> HIDE DEF all
  <2>3. \A k \in DOMAIN all : Kept(e)[k] = [of |-> all[k].of, data |-> WordsRead(all[k].of)]
    BY <1>1, <2>1, <2>2
  <2>4. DOMAIN Kept(e) = 1..Len(all) /\ Len(Kept(e)) = Len(all)
    BY <2>1, <2>2
  <2>5. \A j, k \in DOMAIN all : all[j].of = all[k].of => j = k
    BY <1>0, <2>1
  <2>6. \A s \in Sources : Mentioned(s) => \E k \in DOMAIN all : all[k].of = s
    BY <1>0, <2>1 DEF Begun
  <2> QED BY <1>0, <1>1, <2>1, <2>3, <2>4, <2>5, <2>6 DEF Tells
<1>3. CASE api # "responses"
  <2> DEFINE opens == {o \in SentEvents : o.ev = "open"}
             n == reply.next
             block(b) == CHOOSE o \in opens : o.index = b - 1
  <2>1. n \in Nat
    BY <1>0 DEF Reply
  <2>2. \A o : o \in opens <=> \E x \in Contents(reply) : o = OpenOf(x)
    <3>1. \A x : OpenOf(x).ev = "open"
      BY DEF OpenOf
    <3> QED BY <1>0, <3>1 DEF Passed
  <2>3. \A x : OpenOf(x).of = x.of /\ OpenOf(x).index = x.index
    BY DEF OpenOf
  <2> HIDE DEF opens, n
  <2>4. \A b \in 1..n : \E x \in Contents(reply) : x.index = b - 1 /\ block(b) = OpenOf(x)
    <3> SUFFICES ASSUME NEW b \in 1..n
                 PROVE  \E x \in Contents(reply) : x.index = b - 1 /\ block(b) = OpenOf(x)
      OBVIOUS
    <3>1. b - 1 \in Nat /\ b - 1 < reply.next
      BY <2>1 DEF n
    <3>2. PICK x \in Contents(reply) : x.index = b - 1
      BY <1>0, <3>1
    <3>3. OpenOf(x) \in opens /\ OpenOf(x).index = b - 1
      BY <2>2, <2>3, <3>2
    <3>4. block(b) \in opens /\ block(b).index = b - 1
      BY <3>3
    <3> HIDE DEF block
    <3> QED BY <2>2, <2>3, <3>4
  <2> HIDE DEF block
  <2>5. \A x \in Contents(reply) : x.index + 1 \in 1..n /\ block(x.index + 1) = OpenOf(x)
    <3> SUFFICES ASSUME NEW x \in Contents(reply)
                 PROVE  x.index + 1 \in 1..n /\ block(x.index + 1) = OpenOf(x)
      OBVIOUS
    <3>1. x.index \in Nat
      BY <1>1 DEF Item
    <3>2. x.index < n
      BY <1>0, <3>1 DEF n
    <3>3. x.index + 1 \in 1..n
      BY <2>1, <3>1, <3>2
    <3>4. PICK y \in Contents(reply) : /\ y.index = (x.index + 1) - 1
                                       /\ block(x.index + 1) = OpenOf(y)
      BY <2>4, <3>3
    <3>5. y.index = x.index
      BY <3>1, <3>4
    <3> QED BY <1>0, <3>3, <3>4, <3>5
  <2>6. Cardinality(opens) = n
    <3> DEFINE f == [b \in 1..n |-> block(b)]
    <3>1. f \in [1..n -> opens]
      BY <2>2, <2>4
    <3>2. \A o \in opens : \E b \in 1..n : f[b] = o
      BY <2>2, <2>5
    <3>3. \A b, d \in 1..n : f[b] = f[d] => b = d
      <4> SUFFICES ASSUME NEW b \in 1..n, NEW d \in 1..n, block(b) = block(d) PROVE b = d
        OBVIOUS
      <4>1. block(b).index = b - 1 /\ block(d).index = d - 1
        BY <2>3, <2>4
      <4>2. b - 1 = d - 1
        BY <4>1
      <4> QED BY <2>1, <4>2
    <3> HIDE DEF f
    <3>4. f \in Bijection(1..n, opens)
      BY <3>1, <3>2, <3>3 DEF Bijection, Injection, Surjection, IsInjective
    <3>5. ExistsBijection(1..n, opens)
      BY <3>4 DEF ExistsBijection
    <3>6. IsFiniteSet(1..n) /\ Cardinality(1..n) = n
      BY <2>1, FS_Interval
    <3> QED BY <3>5, <3>6, FS_Bijection
  <2> DEFINE kept == [b \in 1..n |-> [of |-> block(b).of, data |-> WordsSent(b - 1)]]
  <2>7. Kept(e) = kept
    BY <1>3, <2>6 DEF Kept, opens, block
  <2>8. DOMAIN kept = 1..n /\ Len(kept) = n
    BY <2>1
  <2>9. \A b \in 1..n :
          /\ kept[b] = [of |-> kept[b].of, data |-> WordsRead(kept[b].of)]
          /\ \E x \in Contents(reply) : x.index = b - 1 /\ kept[b].of = x.of
    <3> SUFFICES ASSUME NEW b \in 1..n
                 PROVE  /\ kept[b] = [of |-> kept[b].of, data |-> WordsRead(kept[b].of)]
                        /\ \E x \in Contents(reply) : x.index = b - 1 /\ kept[b].of = x.of
      OBVIOUS
    <3>1. PICK x \in Contents(reply) : x.index = b - 1 /\ block(b) = OpenOf(x)
      BY <2>4
    <3>2. block(b).of = x.of /\ WordsSent(b - 1) = WordsRead(x.of)
      BY <1>1, <2>3, <3>1
    <3>3. kept[b] = [of |-> x.of, data |-> WordsRead(x.of)]
      BY <3>2
    <3>4. kept[b].of = x.of
      BY <3>3
    <3> HIDE DEF kept
    <3> QED BY <3>1, <3>3, <3>4
  <2>10. \A x \in Contents(reply) : x.index + 1 \in 1..n /\ kept[x.index + 1].of = x.of
    BY <2>3, <2>5
  <2> HIDE DEF kept
  <2>11. \A b, d \in 1..n : kept[b].of = kept[d].of => b = d
    <3> SUFFICES ASSUME NEW b \in 1..n, NEW d \in 1..n, kept[b].of = kept[d].of PROVE b = d
      OBVIOUS
    <3>1. PICK x \in Contents(reply) : x.index = b - 1 /\ kept[b].of = x.of
      BY <2>9
    <3>2. PICK y \in Contents(reply) : y.index = d - 1 /\ kept[d].of = y.of
      BY <2>9
    <3>3. b - 1 = d - 1
      BY <1>0, <3>1, <3>2
    <3> QED BY <2>1, <3>3
  <2>12. \A b \in 1..n : /\ kept[b].of \in Sources /\ Mentioned(kept[b].of)
                         /\ kept[b] = [of |-> kept[b].of, data |-> WordsRead(kept[b].of)]
    BY <1>0, <1>1, <2>9
  <2>13. \A s \in Sources : Mentioned(s) => \E b \in 1..n : kept[b].of = s
    BY <1>0, <2>10 DEF Begun
  <2> QED BY <2>1, <2>7, <2>8, <2>11, <2>12, <2>13 DEF Tells
<1> QED BY <1>2, <1>3

-----------------------------------------------------------------------------
(* The upstream's message.                                                 *)

LEMMA ReadWords ==
  ASSUME TypeOK, NEW s
  PROVE  /\ WordsRead(s) \in Seq(Nat) /\ Lists(WordsRead(s), ChunksWith(s))
         /\ \A k \in DOMAIN WordsRead(s) : WordsRead(s)[k] # 0
         /\ WordsRead(s) = <<>> <=> ChunksWith(s) = {}
<1> DEFINE S == ChunksWith(s)
           q == WordsRead(s)
<1>1. S \subseteq 1..Len(read) /\ Len(read) \in Nat
  BY ReadType DEF ChunksWith
<1>2. S \in SUBSET Nat /\ IsFiniteSet(S)
  <2>1. IsFiniteSet(1..Len(read))
    BY <1>1, FS_Interval
  <2>2. S \in SUBSET (1..Len(read))
    BY <1>1
  <2>3. IsFiniteSet(S)
    BY <2>1, <2>2, FS_Subset
  <2> QED BY <1>1, <2>3
<1>3. /\ Cardinality(S) \in Nat /\ q \in [1..Cardinality(S) -> S] /\ Lists(q, S)
  BY <1>2, AscendingLists DEF WordsRead
<1> HIDE DEF S, q
<1>4. q \in [1..Cardinality(S) -> Nat]
  BY <1>2, <1>3
<1>5. q \in Seq(Nat)
  BY <1>3, <1>4
<1>6. \A k \in DOMAIN q : q[k] \in S /\ q[k] # 0
  BY <1>1, <1>3
<1>7. q = <<>> <=> S = {}
  BY <1>3, <1>5 DEF Lists
<1> QED BY <1>3, <1>5, <1>6, <1>7 DEF S, q

LEMMA TextRead ==
  ASSUME TypeOK
  PROVE  WordsRead("text") = <<>> <=> ~Mentioned("text")
BY ReadWords DEF ChunksWith, Mentioned, Speaks, Mentions

\* The calls of a whole reply, in whatever order SetToSeq has them.
LEMMA CalledListed ==
  ASSUME ReplyInv, NEW e \in Ends
  PROVE  LET S == {c \in Call : Mentioned(c)}
             q == SetToSeq(S)
         IN  /\ Cardinality(S) \in Nat /\ q \in [1..Cardinality(S) -> S]
             /\ \A j, k \in DOMAIN q : q[j] = q[k] => j = k
             /\ \A c \in S : \E k \in DOMAIN q : q[k] = c
<1> DEFINE S == {c \in Call : Mentioned(c)}
           q == SetToSeq(S)
           items == Kept(e)
           f == [k \in 1..Len(items) |-> items[k].of]
           M == {s \in Sources : Mentioned(s)}
<1>1. /\ Len(items) \in Nat /\ DOMAIN items = 1..Len(items)
      /\ \A k \in DOMAIN items : items[k].of \in Sources /\ Mentioned(items[k].of)
      /\ \A s \in Sources : Mentioned(s) => \E k \in DOMAIN items : items[k].of = s
  BY KeptTells DEF Tells
<1> HIDE DEF items
<1>2. IsFiniteSet(M)
  <2>1. f \in Surjection(1..Len(items), M)
    BY <1>1 DEF Surjection
  <2>2. IsFiniteSet(1..Len(items))
    BY <1>1, FS_Interval
  <2> QED BY <2>1, <2>2, FS_Surjection
<1>3. IsFiniteSet(S)
  <2>1. S \in SUBSET M
    BY DEF Sources
  <2> QED BY <1>2, <2>1, FS_Subset
<1> HIDE DEF S
<1>4. Cardinality(S) \in Nat /\ \E g \in [1..Cardinality(S) -> S] : IsInjective(g)
  BY <1>3, FS_CardinalityType DEF ExistsBijection, Bijection, Injection, Surjection
<1>5. q \in [1..Cardinality(S) -> S] /\ IsInjective(q)
  BY <1>4 DEF SetToSeq
<1> HIDE DEF q
<1>6. \A j, k \in DOMAIN q : q[j] = q[k] => j = k
  BY <1>5 DEF IsInjective
<1>7. q \in Surjection(1..Cardinality(S), S)
  <2>1. q \in Injection(1..Cardinality(S), S)
    BY <1>5 DEF Injection
  <2>2. Cardinality(1..Cardinality(S)) = Cardinality(S)
    BY <1>4, FS_Interval
  <2> QED BY <1>3, <2>1, <2>2, FS_Injection
<1>8. \A c \in S : \E k \in DOMAIN q : q[k] = c
  BY <1>7 DEF Surjection
<1> QED BY <1>4, <1>5, <1>6, <1>8 DEF S, q

\* What the client of an unstreamed reply keeps.
LEMMA UnstreamedTells ==
  ASSUME ReplyInv, NEW e \in Ends
  PROVE  Tells(UnstreamedItems(Completion))
<1> DEFINE S == {c \in Call : Mentioned(c)}
           q == SetToSeq(S)
           n == Cardinality(S)
           calls == [k \in DOMAIN q |-> [of |-> q[k], data |-> WordsRead(q[k])]]
           words == [of |-> "text", data |-> WordsRead("text")]
           items == UnstreamedItems(Completion)
<1>1. /\ n \in Nat /\ q \in [1..n -> S]
      /\ \A j, k \in DOMAIN q : q[j] = q[k] => j = k
      /\ \A c \in S : \E k \in DOMAIN q : q[k] = c
  BY CalledListed
<1>2. \A c \in S : c \in Call /\ Mentioned(c)
  OBVIOUS
<1>3. \A c \in Call : Mentioned(c) => c \in S
  OBVIOUS
<1>4. Completion.calls = calls /\ Completion.text = WordsRead("text")
  BY DEF Completion
<1>5. TypeOK
  BY DEF ReplyInv
<1> HIDE DEF S, q
<1>6. DOMAIN calls = 1..n /\ calls \in Seq({[of |-> c, data |-> WordsRead(c)] : c \in S})
  BY <1>1
<1>7. \A k \in 1..n : calls[k].of = q[k] /\ calls[k] = [of |-> q[k], data |-> WordsRead(q[k])]
  BY <1>1
<1>8. words.of = "text" /\ words = [of |-> words.of, data |-> WordsRead(words.of)]
  OBVIOUS
<1> HIDE DEF n, calls, words
<1>9. items = IF Mentioned("text") THEN calls \o <<words>> ELSE calls \o <<>>
  BY <1>4, <1>5, TextRead DEF UnstreamedItems, words
<1> DEFINE m == IF Mentioned("text") THEN n + 1 ELSE n
<1>10. /\ Len(items) = m /\ DOMAIN items = 1..m
       /\ \A k \in 1..n : items[k] = calls[k]
       /\ Mentioned("text") => items[n + 1] = words
  <2> DEFINE A == {[of |-> c, data |-> WordsRead(c)] : c \in S} \cup {words}
  <2>1. calls \in Seq(A) /\ words \in A
    BY <1>6
  <2>2. Len(calls) = n
    BY <1>1, <1>6
  <2> HIDE DEF A
  <2> QED BY <1>1, <1>9, <2>1, <2>2
<1>11. m \in Nat
  BY <1>1
<1>12. \A k \in 1..m : k \in 1..n \/ (k = n + 1 /\ Mentioned("text"))
  BY <1>1
<1> HIDE DEF m, items
<1>13. \A k \in 1..n : /\ items[k].of = q[k] /\ items[k].of \in Call /\ Mentioned(items[k].of)
                       /\ items[k].of # "text"
                       /\ items[k] = [of |-> items[k].of, data |-> WordsRead(items[k].of)]
  <2> SUFFICES ASSUME NEW k \in 1..n
               PROVE  /\ items[k].of = q[k] /\ items[k].of \in Call /\ Mentioned(items[k].of)
                      /\ items[k].of # "text"
                      /\ items[k] = [of |-> items[k].of, data |-> WordsRead(items[k].of)]
    OBVIOUS
  <2>1. q[k] \in Call /\ Mentioned(q[k]) /\ q[k] # "text"
    BY <1>1, <1>2, StreamConstants
  <2>2. items[k].of = q[k]
    BY <1>7, <1>10
  <2>3. items[k] = [of |-> q[k], data |-> WordsRead(q[k])]
    BY <1>7, <1>10
  <2> QED BY <2>1, <2>2, <2>3
<1>14. \A j, k \in DOMAIN items : items[j].of = items[k].of => j = k
  <2> SUFFICES ASSUME NEW j \in 1..m, NEW k \in 1..m, items[j].of = items[k].of PROVE j = k
    BY <1>10
  <2>1. CASE j \in 1..n /\ k \in 1..n
    <3>1. q[j] = q[k]
      BY <1>13, <2>1
    <3> QED BY <1>1, <2>1, <3>1
  <2>2. CASE j \notin 1..n \/ k \notin 1..n
    BY <1>8, <1>10, <1>12, <1>13, <2>2
  <2> QED BY <2>1, <2>2
<1>15. \A k \in DOMAIN items :
         /\ items[k].of \in Sources /\ Mentioned(items[k].of)
         /\ items[k] = [of |-> items[k].of, data |-> WordsRead(items[k].of)]
  <2> SUFFICES ASSUME NEW k \in 1..m
               PROVE  /\ items[k].of \in Sources /\ Mentioned(items[k].of)
                      /\ items[k] = [of |-> items[k].of, data |-> WordsRead(items[k].of)]
    BY <1>10
  <2>1. CASE k \in 1..n
    BY <1>13, <2>1 DEF Sources
  <2>2. CASE k = n + 1 /\ Mentioned("text")
    <3>1. items[k] = words
      BY <1>10, <2>2
    <3> QED BY <1>8, <2>2, <3>1 DEF Sources
  <2> QED BY <1>12, <2>1, <2>2
<1>16. \A s \in Sources : Mentioned(s) => \E k \in DOMAIN items : items[k].of = s
  <2> SUFFICES ASSUME NEW s \in Sources, Mentioned(s)
               PROVE  \E k \in 1..m : items[k].of = s
    BY <1>10
  <2>1. CASE s = "text"
    <3>1. n + 1 \in 1..m /\ items[n + 1] = words
      BY <1>1, <1>10, <2>1 DEF m
    <3> QED BY <1>8, <2>1, <3>1
  <2>2. CASE s # "text"
    <3>1. s \in S
      BY <1>3, <2>2 DEF Sources
    <3>2. PICK k \in 1..n : q[k] = s
      BY <1>1, <3>1
    <3>3. k \in 1..m
      BY <1>1 DEF m
    <3> QED BY <1>13, <3>2, <3>3
  <2> QED BY <2>1, <2>2
<1> QED BY <1>10, <1>11, <1>14, <1>15, <1>16 DEF Tells, items

-----------------------------------------------------------------------------
(* Streamed and unstreamed.                                                *)

LEMMA NotMore ==
  ASSUME NEW a, NEW b, Tells(a), Tells(b)
  PROVE  Len(a) <= Len(b) /\ ToSet(a) \subseteq ToSet(b)
<1> DEFINE at(k) == CHOOSE j \in DOMAIN b : b[j].of = a[k].of
           f == [k \in 1..Len(a) |-> at(k)]
<1>1. /\ Len(a) \in Nat /\ DOMAIN a = 1..Len(a) /\ Len(b) \in Nat /\ DOMAIN b = 1..Len(b)
      /\ \A j, k \in DOMAIN a : a[j].of = a[k].of => j = k
  BY DEF Tells
<1>2. \A k \in DOMAIN a : at(k) \in DOMAIN b /\ b[at(k)].of = a[k].of
  BY DEF Tells
<1> HIDE DEF at
<1>3. f \in Injection(1..Len(a), 1..Len(b))
  <2>1. f \in [1..Len(a) -> 1..Len(b)]
    BY <1>1, <1>2
  <2>2. \A j, k \in DOMAIN f : f[j] = f[k] => j = k
    BY <1>1, <1>2
  <2> HIDE DEF f
  <2> QED BY <2>1, <2>2 DEF Injection, IsInjective
<1>4. Len(a) <= Len(b)
  <2>1. /\ IsFiniteSet(1..Len(b)) /\ Cardinality(1..Len(b)) = Len(b)
        /\ Cardinality(1..Len(a)) = Len(a)
    <3>1. \A n \in Nat : IsFiniteSet(1..n) /\ Cardinality(1..n) = n
      BY FS_Interval
    <3> QED BY <1>1, <3>1
  <2> QED BY <1>3, <2>1, FS_Injection
<1>5. \A k \in DOMAIN a : a[k] = b[at(k)]
  BY <1>2 DEF Tells
<1> QED BY <1>2, <1>4, <1>5 DEF ToSet

LEMMA TellSame ==
  ASSUME NEW a, NEW b, Tells(a), Tells(b)
  PROVE  Len(a) = Len(b) /\ ToSet(a) = ToSet(b)
<1>1. Len(a) \in Nat /\ Len(b) \in Nat
  BY DEF Tells
<1>2. Len(a) <= Len(b) /\ ToSet(a) \subseteq ToSet(b)
  BY NotMore
<1>3. Len(b) <= Len(a) /\ ToSet(b) \subseteq ToSet(a)
  BY NotMore
<1> QED BY <1>1, <1>2, <1>3

\* The reason to stop and the usage of the accumulators are those of the whole
\* reply.
LEMMA EndTold ==
  ASSUME ReplyInv, NEW e \in Ends
  PROVE  /\ reply.stop = StopReason(Completion.finish)
         /\ reply.usage = Completion.usage
<1>1. TypeOK /\ EndInv /\ todo.finish = None
  BY AtTheEnd DEF ReplyInv, Done
<1>2. DOMAIN read \subseteq Nat
  BY <1>1, ReadType
<1>3. reply.stop = StopReason(Completion.finish)
  <2>1. Completion.finish = IF Finishing = {} THEN "stop" ELSE read[Min(Finishing)].finish
    BY DEF Completion, Finishing
  <2>2. CASE Finishing = {}
    BY <1>1, <2>1, <2>2 DEF EndInv, StopReason
  <2>3. CASE Finishing # {}
    <3>1. PICK n \in Finishing : /\ \A m \in Finishing : n <= m
                                 /\ reply.stop = StopReason(read[n].finish)
      BY <1>1, <2>3 DEF EndInv
    <3>2. Min(Finishing) \in Finishing /\ \A m \in Finishing : Min(Finishing) <= m
      BY <3>1 DEF Min
    <3>3. Min(Finishing) = n
      <4>1. Min(Finishing) \in Nat /\ n \in Nat
        BY <1>2, <3>2 DEF Finishing
      <4>2. Min(Finishing) <= n /\ n <= Min(Finishing)
        BY <3>1, <3>2
      <4> QED BY <4>1, <4>2
    <3> QED BY <2>1, <2>3, <3>1, <3>3
  <2> QED BY <2>2, <2>3
<1>4. reply.usage = Completion.usage
  <2>1. Completion.usage = IF Usages = {} THEN 0 ELSE read[Max(Usages)].usage
    BY DEF Completion, Usages
  <2>2. CASE Usages = {}
    BY <1>1, <2>1, <2>2 DEF EndInv
  <2>3. CASE Usages # {}
    <3>1. PICK n \in Usages : (\A m \in Usages : m <= n) /\ reply.usage = read[n].usage
      BY <1>1, <2>3 DEF EndInv
    <3>2. Max(Usages) \in Usages /\ \A m \in Usages : Max(Usages) >= m
      <4>1. \A m \in Usages : n >= m
        BY <1>2, <3>1 DEF Usages
      <4> QED BY <4>1 DEF Max
    <3>3. Max(Usages) = n
      <4>1. Max(Usages) \in Nat /\ n \in Nat
        BY <1>2, <3>2 DEF Usages
      <4>2. Max(Usages) >= n /\ Max(Usages) <= n
        BY <3>1, <3>2
      <4> QED BY <4>1, <4>2
    <3> QED BY <2>1, <2>3, <3>1, <3>3
  <2> QED BY <2>2, <2>3
<1> QED BY <1>3, <1>4

LEMMA SameSaid ==
  ASSUME ReplyInv
  PROVE  SameUnstreamed
<1> DEFINE u == Unstreamed(Completion)
<1>0. /\ u.items = UnstreamedItems(Completion) /\ u.usage = Completion.usage
      /\ u.stop = IF api = "anthropic" THEN StopReason(Completion.finish)
                  ELSE IF CutOff(Completion) THEN "incomplete" ELSE "completed"
  BY DEF Unstreamed
<1> SUFFICES ASSUME NEW e \in Ends
             PROVE  /\ api = "responses" \/ ~CutOff(Completion) =>
                         ToSet(Kept(e)) = ToSet(u.items) /\ Len(Kept(e)) = Len(u.items)
                    /\ api = "anthropic" \/ ~CutOff(Completion) => e.stop = u.stop
                    /\ u.usage # 0 => e.usage = u.usage
  BY DEF SameUnstreamed
<1>1. e = Completed(reply)
  BY AtTheEnd
<1>2. ToSet(Kept(e)) = ToSet(u.items) /\ Len(Kept(e)) = Len(u.items)
  BY <1>0, KeptTells, UnstreamedTells, TellSame
<1>3. /\ e.stop = IF api = "responses" THEN "completed" ELSE reply.stop
      /\ reply.usage # 0 => e.usage = reply.usage
  BY <1>1 DEF Completed
<1>4. reply.stop = StopReason(Completion.finish) /\ reply.usage = Completion.usage
  BY EndTold
<1>5. api \in {"anthropic", "responses"}
  BY DEF ReplyInv, TypeOK
<1> HIDE DEF u
<1> QED BY <1>0, <1>2, <1>3, <1>4, <1>5

-----------------------------------------------------------------------------
(* The next turn.                                                          *)

\* Words the upstream wrote are no one else's, and some words are words.
LEMMA WordsAreWords ==
  ASSUME TypeOK, NEW s
  PROVE  /\ WordsRead(s) # None /\ WordsRead(s) # Other
         /\ None # <<>> /\ None # Other /\ Other # <<>>
<1>1. WordsRead(s) \in Seq(Nat) /\ \A k \in DOMAIN WordsRead(s) : WordsRead(s)[k] # 0
  BY ReadWords
<1>2. Other \in Seq(Nat) /\ Other[1] = 0 /\ 1 \in DOMAIN Other /\ Other # <<>>
  BY DEF Other
<1>3. <<>> \in Seq(Nat)
  OBVIOUS
<1> QED BY <1>1, <1>2, <1>3, NoneIsNoWords

\* The words of a reply, put together from its blocks.
LEMMA TextOf ==
  ASSUME TypeOK, NEW items, Tells(items)
  PROVE  Text(items) = WordsRead("text")
<1> DEFINE w == WordsRead("text")
           s == [k \in DOMAIN items |-> IF items[k].of = "text" THEN items[k].data ELSE <<>>]
<1>1. /\ Len(items) \in Nat /\ DOMAIN items = 1..Len(items)
      /\ \A j, k \in DOMAIN items : items[j].of = items[k].of => j = k
      /\ \A k \in DOMAIN items : items[k] = [of |-> items[k].of, data |-> WordsRead(items[k].of)]
      /\ Mentioned("text") => \E k \in DOMAIN items : items[k].of = "text"
  BY DEF Tells, Sources
<1>2. Text(items) = FlattenSeq(s)
  BY DEF Text
<1>3. DOMAIN s = 1..Len(items) /\ Len(s) = Len(items)
  BY <1>1
<1>4. \A k \in DOMAIN s : s[k] = IF items[k].of = "text" THEN w ELSE <<>>
  <2> SUFFICES ASSUME NEW k \in DOMAIN items
               PROVE  s[k] = IF items[k].of = "text" THEN w ELSE <<>>
    OBVIOUS
  <2>1. items[k].of = "text" => items[k].data = w
    <3>1. [of |-> items[k].of, data |-> WordsRead(items[k].of)].data = WordsRead(items[k].of)
      OBVIOUS
    <3> QED BY <1>1, <3>1
  <2> QED BY <2>1
<1>5. w \in Seq(Nat)
  BY ReadWords
<1>6. s = [k \in 1..Len(items) |-> s[k]]
  BY <1>3
<1> HIDE DEF s
<1>7. CASE Mentioned("text")
  <2>1. PICK k \in DOMAIN items : items[k].of = "text"
    BY <1>1, <1>7
  <2>2. k \in DOMAIN s /\ s[k] = w /\ \A j \in DOMAIN s : j # k => s[j] = <<>>
    BY <1>1, <1>3, <1>4, <2>1
  <2>3. Len(s) \in Nat /\ DOMAIN s = 1..Len(s) /\ s[k] \in Seq(Nat)
    BY <1>1, <1>3, <1>5, <2>2
  <2>4. FlattenSeq(s) = s[k]
    BY <2>2, <2>3, JoinedOne
  <2> QED BY <1>2, <2>2, <2>4
<1>8. CASE ~Mentioned("text")
  <2>1. w = <<>>
    BY <1>8, TextRead
  <2>2. \A k \in DOMAIN s : s[k] = <<>>
    BY <1>4, <2>1
  <2>3. CASE Len(s) = 0
    <3>1. FlattenSeq(s) = s
      BY <2>3 DEF FlattenSeq
    <3>2. s = [k \in 1..0 |-> s[k]]
      BY <1>3, <1>6, <2>3
    <3>3. s = <<>>
      BY <3>2
    <3> QED BY <1>2, <2>1, <3>1, <3>3
  <2>4. CASE Len(s) # 0
    <3>1. FlattenSeq(s) = <<>>
      BY <1>1, <1>3, <2>2, <2>4, JoinedNone
    <3> QED BY <1>2, <2>1, <3>1
  <2> QED BY <2>3, <2>4
<1> QED BY <1>7, <1>8

\* Its calls, in the order of their blocks.
LEMMA CallsOf ==
  ASSUME TypeOK, NEW items, Tells(items)
  PROVE  LET calls == CallsIn(items)
             at == Ascending({k \in DOMAIN items : items[k].of # "text"})
         IN  /\ Len(calls) \in Nat /\ DOMAIN calls = 1..Len(calls)
             /\ DOMAIN at = DOMAIN calls
             /\ \A j \in DOMAIN calls :
                  /\ at[j] \in DOMAIN items /\ calls[j] = items[at[j]]
                  /\ calls[j].of \in Call /\ Mentioned(calls[j].of)
                  /\ calls[j] = [of |-> calls[j].of, data |-> WordsRead(calls[j].of)]
             /\ \A i, j \in DOMAIN calls : calls[i].of = calls[j].of => i = j
             /\ \A c \in Call : Mentioned(c) => \E j \in DOMAIN calls : calls[j].of = c
<1> DEFINE C == {k \in DOMAIN items : items[k].of # "text"}
           at == Ascending(C)
           n == Cardinality(C)
           calls == CallsIn(items)
<1>1. /\ Len(items) \in Nat /\ DOMAIN items = 1..Len(items)
      /\ \A j, k \in DOMAIN items : items[j].of = items[k].of => j = k
      /\ \A k \in DOMAIN items :
           /\ items[k].of \in Sources /\ Mentioned(items[k].of)
           /\ items[k] = [of |-> items[k].of, data |-> WordsRead(items[k].of)]
      /\ \A s \in Sources : Mentioned(s) => \E k \in DOMAIN items : items[k].of = s
  BY DEF Tells
<1>2. C \in SUBSET Nat /\ IsFiniteSet(C)
  <2>1. IsFiniteSet(1..Len(items)) /\ C \in SUBSET (1..Len(items))
    BY <1>1, FS_Interval
  <2>2. IsFiniteSet(C)
    BY <2>1, FS_Subset
  <2> QED BY <1>1, <2>1, <2>2
<1>3. \A k \in C : k \in DOMAIN items /\ items[k].of \in Call
  BY <1>1 DEF Sources
<1>4. \A k \in DOMAIN items : items[k].of # "text" => k \in C
  OBVIOUS
<1> HIDE DEF C
<1>5. n \in Nat /\ at \in [1..n -> C] /\ Lists(at, C)
  BY <1>2, AscendingLists
<1>6. calls = [j \in DOMAIN at |-> items[at[j]]]
  BY DEF CallsIn, C
<1> HIDE DEF at, n, calls
<1>7. \A i, j \in 1..n : at[i] = at[j] => i = j
  <2> SUFFICES ASSUME NEW i \in 1..n, NEW j \in 1..n, at[i] = at[j], i # j PROVE FALSE
    OBVIOUS
  <2>1. i < j \/ j < i
    OBVIOUS
  <2>2. at[i] \in Nat /\ at[j] \in Nat
    BY <1>2, <1>5
  <2> QED BY <1>5, <2>1, <2>2 DEF Lists
<1>8. DOMAIN calls = 1..n /\ Len(calls) = n
  BY <1>5, <1>6
<1>9. \A j \in 1..n : at[j] \in C /\ calls[j] = items[at[j]]
  BY <1>5, <1>6
<1>10. \A j \in 1..n :
         /\ at[j] \in DOMAIN items /\ calls[j].of \in Call /\ Mentioned(calls[j].of)
         /\ calls[j] = [of |-> calls[j].of, data |-> WordsRead(calls[j].of)]
  BY <1>1, <1>3, <1>9
<1>11. \A i, j \in 1..n : calls[i].of = calls[j].of => i = j
  BY <1>1, <1>3, <1>7, <1>9
<1>12. \A c \in Call : Mentioned(c) => \E j \in 1..n : calls[j].of = c
  <2> SUFFICES ASSUME NEW c \in Call, Mentioned(c) PROVE \E j \in 1..n : calls[j].of = c
    OBVIOUS
  <2>1. PICK k \in DOMAIN items : items[k].of = c
    BY <1>1 DEF Sources
  <2>2. k \in C
    BY <1>4, <2>1, StreamConstants
  <2>3. PICK j \in 1..n : at[j] = k
    BY <1>5, <2>2 DEF Lists
  <2> QED BY <1>9, <2>1, <2>3
<1> QED BY <1>5, <1>8, <1>9, <1>10, <1>11, <1>12 DEF calls, at, C

LEMMA SaneSays ==
  ASSUME NEW role, NEW text, NEW cs, NEW answers
  PROVE  LET m == Sane(Says(role, text, cs, answers))
         IN  /\ m.role = role /\ m.answers = answers
             /\ m.text = IF text \notin {None, <<>>} THEN text
                         ELSE IF cs = <<>> THEN Other ELSE <<>>
             /\ m.calls = [k \in DOMAIN cs |-> Filled(cs[k])]
BY DEF Sane, Says, Filled

\* A call as the model is shown it.
Said(c) == [of |-> c, data |-> IF WordsRead(c) = <<>> THEN Other ELSE WordsRead(c)]

LEMMA FilledSays ==
  ASSUME NEW call, call = [of |-> call.of, data |-> WordsRead(call.of)]
  PROVE  Filled(call) = Said(call.of)
<1>1. \A c, d : Filled([of |-> c, data |-> d])
                  = [of |-> c, data |-> IF d = <<>> THEN Other ELSE d]
  BY DEF Filled
<1> QED BY <1>1 DEF Said

\* What the assistant is shown to have said: its words in one message, each
\* call in one place, and something in every message.
SaysAll(a) ==
  LET w == WordsRead("text")
      m(k) == Sane(a[k])
  IN  /\ Len(a) \in Nat /\ a \in Seq({a[k] : k \in DOMAIN a})
      /\ \A k \in DOMAIN a : /\ m(k).role = "assistant" /\ m(k).text # None
                             /\ m(k).text = <<>> => m(k).calls # <<>>
      /\ IF w = <<>> THEN \A k \in DOMAIN a : m(k).text \in {<<>>, Other}
         ELSE \E k \in DOMAIN a : /\ m(k).text = w
                                  /\ \A j \in DOMAIN a : j # k => m(j).text \in {<<>>, Other}
      /\ \A k \in DOMAIN a : \A j \in DOMAIN m(k).calls :
           \E c \in Call : Mentioned(c) /\ m(k).calls[j] = Said(c)
      /\ \A c \in Call : Mentioned(c) =>
           \E k \in DOMAIN a : \E j \in DOMAIN m(k).calls : m(k).calls[j] = Said(c)
      /\ \A k1, k2 \in DOMAIN a :
           \A j1 \in DOMAIN m(k1).calls, j2 \in DOMAIN m(k2).calls :
             m(k1).calls[j1].of = m(k2).calls[j2].of => k1 = k2 /\ j1 = j2

LEMMA BlocksSaid ==
  ASSUME TypeOK, NEW items, Tells(items), api = "anthropic"
  PROVE  SaysAll(Assistant(items))
<1> DEFINE w == WordsRead("text")
           calls == CallsIn(items)
           t == IF w = <<>> THEN None ELSE w
           msg == Says("assistant", t, calls, None)
           m == Sane(msg)
           a == Assistant(items)
<1>1. a = <<msg>>
  BY TextOf DEF Assistant
<1>2. /\ DOMAIN calls = 1..Len(calls)
      /\ \A j \in DOMAIN calls :
           /\ calls[j].of \in Call /\ Mentioned(calls[j].of)
           /\ calls[j] = [of |-> calls[j].of, data |-> WordsRead(calls[j].of)]
      /\ \A i, j \in DOMAIN calls : calls[i].of = calls[j].of => i = j
      /\ \A c \in Call : Mentioned(c) => \E j \in DOMAIN calls : calls[j].of = c
  BY CallsOf
<1>3. /\ m.role = "assistant"
      /\ m.text = IF t \notin {None, <<>>} THEN t ELSE IF calls = <<>> THEN Other ELSE <<>>
      /\ m.calls = [j \in DOMAIN calls |-> Filled(calls[j])]
  BY SaneSays
<1>4. calls = [j \in DOMAIN calls |-> calls[j]]
  BY DEF CallsIn
<1>5. /\ w # None /\ w # Other /\ None # <<>> /\ None # Other /\ Other # <<>>
  BY WordsAreWords
<1> HIDE DEF w, calls, msg, m, a
<1>6. /\ DOMAIN m.calls = DOMAIN calls
      /\ \A j \in DOMAIN calls : m.calls[j] = Said(calls[j].of)
  BY <1>2, <1>3, FilledSays
<1>7. \A c : Said(c).of = c
  BY DEF Said
<1>8. /\ Len(a) = 1 /\ DOMAIN a = {1} /\ Sane(a[1]) = m /\ a \in Seq({a[k] : k \in DOMAIN a})
  <2>1. <<msg>> \in Seq({msg}) /\ Len(<<msg>>) = 1 /\ DOMAIN <<msg>> = {1} /\ <<msg>>[1] = msg
    OBVIOUS
  <2>2. {a[k] : k \in DOMAIN a} = {msg}
    BY <1>1, <2>1
  <2> QED BY <1>1, <2>1, <2>2 DEF m
<1>9. m.text = <<>> => m.calls # <<>>
  <2> SUFFICES ASSUME m.text = <<>>, m.calls = <<>> PROVE FALSE
    OBVIOUS
  <2>1. calls # <<>>
    BY <1>3, <1>5
  <2>2. DOMAIN m.calls = {}
    OBVIOUS
  <2>3. DOMAIN calls = 1..0
    BY <1>6, <2>2
  <2>4. calls = [j \in 1..0 |-> calls[j]]
    BY <1>4, <2>3
  <2>5. [j \in 1..0 |-> calls[j]] = <<>>
    OBVIOUS
  <2> QED BY <2>1, <2>4, <2>5
<1>10. IF w = <<>> THEN m.text \in {<<>>, Other} ELSE m.text = w
  BY <1>3, <1>5
<1>11. m.text # None
  BY <1>3, <1>5
<1>12. /\ \A j \in DOMAIN m.calls : \E c \in Call : Mentioned(c) /\ m.calls[j] = Said(c)
       /\ \A c \in Call : Mentioned(c) => \E j \in DOMAIN m.calls : m.calls[j] = Said(c)
       /\ \A i, j \in DOMAIN m.calls : m.calls[i].of = m.calls[j].of => i = j
  BY <1>2, <1>6, <1>7
<1> QED BY <1>3, <1>8, <1>9, <1>10, <1>11, <1>12 DEF SaysAll, w, a

LEMMA ItemsSaid ==
  ASSUME TypeOK, NEW items, Tells(items), api # "anthropic"
  PROVE  SaysAll(Assistant(items))
<1> DEFINE w == WordsRead("text")
           a == Assistant(items)
           msg(k) == IF items[k].of = "text" THEN Says("assistant", items[k].data, <<>>, None)
                     ELSE Says("assistant", None, <<items[k]>>, None)
           m(k) == Sane(a[k])
<1>1. a = [k \in DOMAIN items |-> msg(k)]
  BY DEF Assistant
<1>2. /\ Len(items) \in Nat /\ DOMAIN items = 1..Len(items)
      /\ \A j, k \in DOMAIN items : items[j].of = items[k].of => j = k
      /\ \A k \in DOMAIN items :
           /\ items[k].of \in Sources /\ Mentioned(items[k].of)
           /\ items[k] = [of |-> items[k].of, data |-> WordsRead(items[k].of)]
      /\ \A s \in Sources : Mentioned(s) => \E k \in DOMAIN items : items[k].of = s
  BY DEF Tells
<1>3. w # None /\ w # Other /\ None # <<>> /\ None # Other /\ Other # <<>>
  BY WordsAreWords
<1>4. w = <<>> <=> ~Mentioned("text")
  BY TextRead
<1>5. \A k \in DOMAIN items : items[k].of = "text" => items[k].data = w
  <2>1. \A c, d : [of |-> c, data |-> d].data = d
    OBVIOUS
  <2> QED BY <1>2, <2>1
<1> HIDE DEF w, msg, a
<1>6. DOMAIN a = DOMAIN items /\ \A k \in DOMAIN items : a[k] = msg(k)
  BY <1>1
<1>7. Len(a) = Len(items) /\ a \in Seq({a[k] : k \in DOMAIN a})
  <2> DEFINE S == {a[k] : k \in DOMAIN a}
             n == Len(items)
  <2>1. a \in [1..n -> S] /\ n \in Nat
    BY <1>1, <1>2, <1>6
  <2> HIDE DEF S, n
  <2>2. a \in Seq(S) /\ Len(a) = n
    BY <2>1
  <2> QED BY <2>2 DEF S, n
<1>8. ASSUME NEW k \in DOMAIN items, items[k].of = "text"
      PROVE  /\ m(k).role = "assistant" /\ m(k).text = w /\ w # <<>>
             /\ DOMAIN m(k).calls = {}
  <2>0. PICK none : none = <<>>
    OBVIOUS
  <2>1. a[k] = Says("assistant", w, none, None)
    BY <1>5, <1>6, <1>8, <2>0 DEF msg
  <2>2. w # <<>>
    BY <1>2, <1>4, <1>8
  <2>3. /\ m(k).role = "assistant"
        /\ m(k).text = IF w \notin {None, <<>>} THEN w
                       ELSE IF none = <<>> THEN Other ELSE <<>>
        /\ m(k).calls = [j \in DOMAIN none |-> Filled(none[j])]
    BY <2>1, SaneSays
  <2>4. DOMAIN m(k).calls = DOMAIN none /\ DOMAIN none = {}
    BY <2>0, <2>3
  <2> QED BY <1>3, <2>2, <2>3, <2>4
<1>9. ASSUME NEW k \in DOMAIN items, items[k].of # "text"
      PROVE  /\ m(k).role = "assistant" /\ m(k).text = <<>> /\ m(k).calls # <<>>
             /\ DOMAIN m(k).calls = {1} /\ m(k).calls[1] = Said(items[k].of)
             /\ items[k].of \in Call /\ Mentioned(items[k].of)
  <2> DEFINE c == items[k]
  <2>1. a[k] = Says("assistant", None, <<c>>, None)
    BY <1>6, <1>9 DEF msg
  <2>2. /\ m(k).role = "assistant"
        /\ m(k).text = IF None \notin {None, <<>>} THEN None
                       ELSE IF <<c>> = <<>> THEN Other ELSE <<>>
        /\ m(k).calls = [j \in DOMAIN <<c>> |-> Filled(<<c>>[j])]
    BY <2>1, SaneSays
  <2>3. Filled(c) = Said(c.of)
    BY <1>2, FilledSays
  <2>4. c.of \in Call /\ Mentioned(c.of)
    BY <1>2, <1>9 DEF Sources
  <2> HIDE DEF m, c
  <2>5. DOMAIN <<c>> = {1} /\ <<c>>[1] = c /\ <<c>> # <<>>
    OBVIOUS
  <2>6. DOMAIN m(k).calls = {1} /\ m(k).calls[1] = Said(c.of)
    BY <2>2, <2>3, <2>5
  <2>7. m(k).calls # <<>>
    BY <2>6
  <2> QED BY <2>2, <2>4, <2>5, <2>6, <2>7 DEF c
<1> HIDE DEF m
<1>10. \A c : Said(c).of = c
  BY DEF Said
<1>11. \A k \in DOMAIN a : /\ m(k).role = "assistant" /\ m(k).text # None
                           /\ m(k).text = <<>> => m(k).calls # <<>>
  BY <1>3, <1>6, <1>8, <1>9
<1>12. IF w = <<>> THEN \A k \in DOMAIN a : m(k).text \in {<<>>, Other}
       ELSE \E k \in DOMAIN a : /\ m(k).text = w
                                /\ \A j \in DOMAIN a : j # k => m(j).text \in {<<>>, Other}
  <2>1. CASE w = <<>>
    BY <1>6, <1>8, <1>9, <2>1
  <2>2. CASE w # <<>>
    <3>1. PICK k \in DOMAIN items : items[k].of = "text"
      BY <1>2, <1>4, <2>2 DEF Sources
    <3>2. \A j \in DOMAIN items : j # k => items[j].of # "text"
      BY <1>2, <3>1
    <3>3. m(k).text = w /\ \A j \in DOMAIN items : j # k => m(j).text = <<>>
      BY <1>8, <1>9, <3>1, <3>2
    <3> QED BY <1>6, <2>2, <3>3
  <2> QED BY <2>1, <2>2
<1>13. \A k \in DOMAIN a : \A j \in DOMAIN m(k).calls :
         items[k].of # "text" /\ j = 1 /\ m(k).calls[j] = Said(items[k].of)
  BY <1>6, <1>8, <1>9
<1>14. \A k \in DOMAIN a : \A j \in DOMAIN m(k).calls :
         \E c \in Call : Mentioned(c) /\ m(k).calls[j] = Said(c)
  BY <1>6, <1>9, <1>13
<1>15. \A c \in Call : Mentioned(c) =>
         \E k \in DOMAIN a : \E j \in DOMAIN m(k).calls : m(k).calls[j] = Said(c)
  <2> SUFFICES ASSUME NEW c \in Call, Mentioned(c)
               PROVE  \E k \in DOMAIN a : \E j \in DOMAIN m(k).calls : m(k).calls[j] = Said(c)
    OBVIOUS
  <2>1. PICK k \in DOMAIN items : items[k].of = c
    BY <1>2 DEF Sources
  <2>2. 1 \in DOMAIN m(k).calls /\ m(k).calls[1] = Said(c)
    BY <1>9, <2>1, StreamConstants
  <2> QED BY <1>6, <2>1, <2>2
<1>16. \A k1, k2 \in DOMAIN a :
         \A j1 \in DOMAIN m(k1).calls, j2 \in DOMAIN m(k2).calls :
           m(k1).calls[j1].of = m(k2).calls[j2].of => k1 = k2 /\ j1 = j2
  BY <1>2, <1>6, <1>10, <1>13
<1> QED BY <1>2, <1>7, <1>11, <1>12, <1>14, <1>15, <1>16 DEF SaysAll, w, m, a

\* The history that is sent back: the assistant's messages, the results, and
\* the client's words.
LEMMA SentBackIs ==
  ASSUME TypeOK, NEW items, Tells(items)
  PROVE  LET a == Assistant(items)
             h == SentBack(items)
             calls == CallsIn(items)
         IN  /\ SaysAll(a) /\ Len(calls) \in Nat /\ DOMAIN calls = 1..Len(calls)
             /\ DOMAIN h = 1..(Len(a) + Len(calls) + 1)
             /\ \A k \in 1..Len(a) : k \in DOMAIN a /\ h[k] = Sane(a[k])
             /\ \A j \in 1..Len(calls) :
                  /\ h[Len(a) + j].role = "tool" /\ h[Len(a) + j].text = Other
                  /\ h[Len(a) + j].calls = <<>> /\ h[Len(a) + j].answers = calls[j].of
             /\ h[Len(a) + Len(calls) + 1].role = "user"
             /\ h[Len(a) + Len(calls) + 1].text = Other
             /\ h[Len(a) + Len(calls) + 1].calls = <<>>
<1> DEFINE a == Assistant(items)
           calls == CallsIn(items)
           r == Results(items)
           last == Says("user", Other, <<>>, None)
           back == a \o (r \o <<last>>)
           h == SentBack(items)
           n == Len(a)
           m == Len(calls)
           tool(j) == Says("tool", Other, <<>>, calls[j].of)
<1>1. SaysAll(a)
  BY BlocksSaid, ItemsSaid
<1>2. n \in Nat /\ a \in Seq({a[k] : k \in DOMAIN a})
  BY <1>1 DEF SaysAll
<1>3. m \in Nat /\ DOMAIN calls = 1..m
  BY CallsOf
<1>4. r = [j \in DOMAIN calls |-> tool(j)]
  BY DEF Results
<1>5. h = [k \in DOMAIN back |-> Sane(back[k])]
  BY DEF SentBack, User
<1> HIDE DEF a, calls, r, last, h, tool
<1>6. r \in [1..m -> {r[j] : j \in 1..m}]
  BY <1>3, <1>4
<1> DEFINE T == {a[k] : k \in DOMAIN a} \cup {r[j] : j \in 1..m} \cup {last}
<1>7. a \in Seq(T) /\ r \in Seq(T) /\ Len(r) = m /\ last \in T
  BY <1>2, <1>3, <1>6
<1> HIDE DEF T, n, m
<1>8. r \o <<last>> \in Seq(T) /\ Len(r \o <<last>>) = m + 1
  BY <1>3, <1>7
<1>9. /\ \A j \in 1..m : (r \o <<last>>)[j] = r[j]
      /\ (r \o <<last>>)[m + 1] = last
  BY <1>3, <1>7
<1> DEFINE u == r \o <<last>>
<1>10. u \in Seq(T) /\ Len(u) = m + 1 /\ back = a \o u
  BY <1>8
<1> HIDE DEF u, back
<1>11. /\ DOMAIN back = 1..(n + m + 1)
       /\ \A k \in 1..n : k \in DOMAIN a /\ back[k] = a[k]
       /\ \A j \in 1..(m + 1) : back[n + j] = u[j]
  <2>1. /\ DOMAIN (a \o u) = 1..(Len(a) + Len(u)) /\ DOMAIN a = 1..Len(a)
        /\ \A k \in 1..(Len(a) + Len(u)) :
             (a \o u)[k] = IF k <= Len(a) THEN a[k] ELSE u[k - Len(a)]
    BY <1>7, <1>10
  <2>2. Len(a) + Len(u) = n + m + 1
    BY <1>2, <1>3, <1>10 DEF n
  <2>3. \A k \in 1..n : k \in 1..(n + m + 1) /\ k <= n
    BY <1>2, <1>3
  <2>4. \A j \in 1..(m + 1) : /\ n + j \in 1..(n + m + 1) /\ ~(n + j <= n)
                              /\ (n + j) - n = j
    BY <1>2, <1>3
  <2> QED BY <1>10, <2>1, <2>2, <2>3, <2>4 DEF n
<1>12. \A j \in 1..m : back[n + j] = tool(j)
  BY <1>3, <1>4, <1>9, <1>11 DEF u
<1>13. back[n + m + 1] = last
  <2>1. m + 1 \in 1..(m + 1) /\ n + (m + 1) = n + m + 1
    BY <1>2, <1>3
  <2> QED BY <1>9, <1>11, <2>1 DEF u
<1>14. \A k \in 1..(n + m + 1) : h[k] = Sane(back[k])
  BY <1>5, <1>11
<1>15. \A k \in 1..n : k \in 1..(n + m + 1)
  BY <1>2, <1>3
<1>16. \A j \in 1..m : n + j \in 1..(n + m + 1)
  BY <1>2, <1>3
<1>17. n + m + 1 \in 1..(n + m + 1)
  BY <1>2, <1>3
<1>18. ASSUME NEW role, NEW answers
       PROVE  LET x == Sane(Says(role, Other, <<>>, answers))
              IN  /\ x.role = role /\ x.text = Other /\ x.calls = <<>> /\ x.answers = answers
  <2>0. PICK none : none = <<>>
    OBVIOUS
  <2>1. Other \notin {None, <<>>}
    BY WordsAreWords
  <2> DEFINE x == Sane(Says(role, Other, none, answers))
  <2>2. /\ x.role = role /\ x.answers = answers
        /\ x.text = IF Other \notin {None, <<>>} THEN Other
                    ELSE IF none = <<>> THEN Other ELSE <<>>
        /\ x.calls = [k \in DOMAIN none |-> Filled(none[k])]
    BY SaneSays
  <2> HIDE DEF x
  <2>3. x.calls = <<>>
    <3>1. DOMAIN none = {}
      BY <2>0
    <3>2. x.calls = [k \in 1..0 |-> Filled(none[k])]
      BY <2>2, <3>1
    <3> QED BY <3>2
  <2> QED BY <2>0, <2>1, <2>2, <2>3 DEF x
<1>19. \A j \in 1..m : /\ h[n + j].role = "tool" /\ h[n + j].text = Other
                       /\ h[n + j].calls = <<>> /\ h[n + j].answers = calls[j].of
  BY <1>12, <1>14, <1>16, <1>18 DEF tool
<1>20. /\ h[n + m + 1].role = "user" /\ h[n + m + 1].text = Other
       /\ h[n + m + 1].calls = <<>>
  BY <1>13, <1>14, <1>17, <1>18 DEF last
<1>21. DOMAIN h = 1..(n + m + 1) /\ \A k \in 1..n : k \in DOMAIN a /\ h[k] = Sane(a[k])
  BY <1>5, <1>11, <1>14, <1>15
<1> QED BY <1>1, <1>3, <1>19, <1>20, <1>21 DEF a, calls, h, n, m

LEMMA CompletionSays ==
  ASSUME ReplyInv, NEW e \in Ends
  PROVE  /\ Completion.text = WordsRead("text")
         /\ {[of |-> c.of, data |-> IF c.data = <<>> THEN Other ELSE c.data] :
               c \in ToSet(Completion.calls)}
              = {Said(c) : c \in {x \in Call : Mentioned(x)}}
<1> DEFINE S == {c \in Call : Mentioned(c)}
           q == SetToSeq(S)
           calls == Completion.calls
           fill(c) == [of |-> c.of, data |-> IF c.data = <<>> THEN Other ELSE c.data]
           call(s) == [of |-> s, data |-> WordsRead(s)]
<1>1. q \in [1..Cardinality(S) -> S] /\ \A c \in S : \E k \in DOMAIN q : q[k] = c
  BY CalledListed
<1>2. Completion.text = WordsRead("text") /\ calls = [k \in DOMAIN q |-> call(q[k])]
  BY DEF Completion
<1>3. \A s : fill(call(s)) = Said(s)
  BY DEF Said
<1> HIDE DEF S, q, calls, fill, call
<1>4. DOMAIN calls = DOMAIN q /\ \A k \in DOMAIN q : calls[k] = call(q[k]) /\ q[k] \in S
  BY <1>1, <1>2
<1>5. ToSet(calls) = {call(s) : s \in S}
  BY <1>1, <1>4 DEF ToSet
<1>6. {fill(c) : c \in ToSet(calls)} = {Said(s) : s \in S}
  BY <1>3, <1>5
<1> QED BY <1>2, <1>6 DEF S, calls, fill

\* One turn, whichever way the client received it.
LEMMA TurnReturns ==
  ASSUME ReplyInv, NEW e \in Ends, NEW items, Tells(items)
  PROVE  Returns(SentBack(items))
<1> DEFINE h     == SentBack(items)
           told  == {k \in DOMAIN h : h[k].role = "assistant" /\ h[k].text \notin {<<>>, Other}}
           calls == UNION {{<<k, j>> : j \in DOMAIN h[k].calls} : k \in DOMAIN h}
           call(c) == h[c[1]].calls[c[2]]
           w == WordsRead("text")
           a == Assistant(items)
           n == Len(a)
           given == CallsIn(items)
           m == Len(given)
           S == {x \in Call : Mentioned(x)}
<1>0. TypeOK
  BY DEF ReplyInv
<1>1. /\ SaysAll(a) /\ m \in Nat /\ DOMAIN given = 1..m
      /\ DOMAIN h = 1..(n + m + 1)
      /\ \A k \in 1..n : k \in DOMAIN a /\ h[k] = Sane(a[k])
      /\ \A j \in 1..m : /\ h[n + j].role = "tool" /\ h[n + j].text = Other
                         /\ h[n + j].calls = <<>> /\ h[n + j].answers = given[j].of
      /\ h[n + m + 1].role = "user" /\ h[n + m + 1].text = Other
      /\ h[n + m + 1].calls = <<>>
  BY <1>0, SentBackIs
<1>2. n \in Nat /\ DOMAIN a = 1..n
  BY <1>1 DEF SaysAll
<1>3. \A j \in 1..m : given[j].of \in S
  BY <1>0, <1>1, CallsOf
<1>4. \A c : c \in S <=> c \in Call /\ Mentioned(c)
  OBVIOUS
<1>5. \A s : Said(s).of = s
  BY DEF Said
<1> HIDE DEF h, a, n, given, m, S, w
<1>6. \A k \in 1..n : /\ h[k].role = "assistant" /\ h[k].text # None
                      /\ h[k].text = <<>> => h[k].calls # <<>>
  BY <1>1, <1>2 DEF SaysAll
<1>7. IF w = <<>> THEN \A k \in 1..n : h[k].text \in {<<>>, Other}
      ELSE \E k \in 1..n : /\ h[k].text = w
                           /\ \A j \in 1..n : j # k => h[j].text \in {<<>>, Other}
  <2>1. IF w = <<>> THEN \A k \in DOMAIN a : Sane(a[k]).text \in {<<>>, Other}
        ELSE \E k \in DOMAIN a :
               /\ Sane(a[k]).text = w
               /\ \A j \in DOMAIN a : j # k => Sane(a[j]).text \in {<<>>, Other}
    BY <1>1 DEF SaysAll, w
  <2>2. DOMAIN a = 1..n /\ \A k \in 1..n : h[k] = Sane(a[k])
    BY <1>1, <1>2
  <2> QED BY <2>1, <2>2
<1>8. \A k \in 1..n : \A j \in DOMAIN h[k].calls : \E c \in S : h[k].calls[j] = Said(c)
  BY <1>1, <1>2, <1>4 DEF SaysAll
<1>9. \A c \in S : \E k \in 1..n : \E j \in DOMAIN h[k].calls : h[k].calls[j] = Said(c)
  BY <1>1, <1>2, <1>4 DEF SaysAll
<1>10. \A k1, k2 \in 1..n :
         \A j1 \in DOMAIN h[k1].calls, j2 \in DOMAIN h[k2].calls :
           h[k1].calls[j1].of = h[k2].calls[j2].of => k1 = k2 /\ j1 = j2
  <2>1. \A k1, k2 \in DOMAIN a :
          \A j1 \in DOMAIN Sane(a[k1]).calls, j2 \in DOMAIN Sane(a[k2]).calls :
            Sane(a[k1]).calls[j1].of = Sane(a[k2]).calls[j2].of => k1 = k2 /\ j1 = j2
    BY <1>1 DEF SaysAll
  <2>2. DOMAIN a = 1..n /\ \A k \in 1..n : h[k] = Sane(a[k])
    BY <1>1, <1>2
  <2> HIDE DEF calls, call, told
  <2> QED BY <2>1, <2>2
<1>11. \A k \in DOMAIN h : \/ k \in 1..n
                           \/ /\ h[k].text = Other /\ h[k].calls = <<>>
                              /\ h[k].role # "assistant"
                              /\ k = n + m + 1 \/ \E j \in 1..m : k = n + j
  <2> SUFFICES ASSUME NEW k \in 1..(n + m + 1), k \notin 1..n
               PROVE  /\ h[k].text = Other /\ h[k].calls = <<>>
                      /\ h[k].role # "assistant"
                      /\ k = n + m + 1 \/ \E j \in 1..m : k = n + j
    BY <1>1
  <2>1. k = n + m + 1 \/ (k - n \in 1..m /\ k = n + (k - n))
    BY <1>1, <1>2
  <2> QED BY <1>1, <2>1
<1>12. \A k \in 1..n : k \in DOMAIN h
  BY <1>1, <1>2
<1>13. w # None /\ w # Other /\ None # <<>> /\ None # Other /\ Other # <<>>
  BY <1>0, WordsAreWords DEF w
<1>14. IF w = <<>> THEN told = {} ELSE \E k \in told : told = {k} /\ h[k].text = w
  <2>1. \A k : k \in told <=> k \in 1..n /\ h[k].text \notin {<<>>, Other}
    BY <1>6, <1>11, <1>12
  <2> HIDE DEF told
  <2>2. CASE w = <<>>
    BY <1>7, <2>1, <2>2
  <2>3. CASE w # <<>>
    <3>1. PICK k \in 1..n : /\ h[k].text = w
                            /\ \A j \in 1..n : j # k => h[j].text \in {<<>>, Other}
      BY <1>7, <2>3
    <3>2. k \in told /\ told = {k}
      BY <1>13, <2>1, <2>3, <3>1
    <3> QED BY <2>3, <3>1, <3>2
  <2> QED BY <2>2, <2>3
<1>15. \A k \in 1..n : \A j \in DOMAIN h[k].calls :
         <<k, j>> \in calls /\ call(<<k, j>>) = h[k].calls[j]
  BY <1>12
<1>16. \A c \in calls : \E k \in 1..n : \E j \in DOMAIN h[k].calls : c = <<k, j>>
  <2> SUFFICES ASSUME NEW k \in DOMAIN h, NEW j \in DOMAIN h[k].calls
               PROVE  k \in 1..n
    OBVIOUS
  <2>1. k \in 1..n \/ h[k].calls = <<>>
    BY <1>11
  <2>2. DOMAIN <<>> = {}
    OBVIOUS
  <2> QED BY <2>1, <2>2
<1> HIDE DEF calls, call
<1>17. {call(c) : c \in calls} = {Said(s) : s \in S}
  <2>1. \A c \in calls : \E s \in S : call(c) = Said(s)
    BY <1>8, <1>15, <1>16
  <2>2. \A s \in S : \E c \in calls : call(c) = Said(s)
    BY <1>9, <1>15
  <2> QED BY <2>1, <2>2
<1>18. \A c, d \in calls : call(c).of = call(d).of => c = d
  <2> SUFFICES ASSUME NEW c \in calls, NEW d \in calls, call(c).of = call(d).of PROVE c = d
    OBVIOUS
  <2>1. PICK k1 \in 1..n : \E j \in DOMAIN h[k1].calls : c = <<k1, j>>
    BY <1>16
  <2>2. PICK j1 \in DOMAIN h[k1].calls : c = <<k1, j1>>
    BY <2>1
  <2>3. PICK k2 \in 1..n : \E j \in DOMAIN h[k2].calls : d = <<k2, j>>
    BY <1>16
  <2>4. PICK j2 \in DOMAIN h[k2].calls : d = <<k2, j2>>
    BY <2>3
  <2>5. call(c) = h[k1].calls[j1] /\ call(d) = h[k2].calls[j2]
    BY <1>15, <2>2, <2>4
  <2>6. k1 = k2 /\ j1 = j2
    BY <1>10, <2>5
  <2> QED BY <2>2, <2>4, <2>6
<1>19. \A x \in ToSet(h) : x.text # None /\ (x.text = <<>> => x.calls # <<>>)
  <2>1. \A k \in DOMAIN h : h[k].text # None /\ (h[k].text = <<>> => h[k].calls # <<>>)
    BY <1>6, <1>11, <1>13
  <2> QED BY <2>1 DEF ToSet
<1>20. ASSUME NEW j \in DOMAIN h, h[j].role = "tool"
       PROVE  \E i \in 1..(j - 1) : /\ \E c \in ToSet(h[i].calls) : c.of = h[j].answers
                                    /\ \A k \in i..j : h[k].role # "user"
  <2>1. j # n + m + 1 /\ j \notin 1..n
    BY <1>1, <1>6, <1>20
  <2>2. PICK t \in 1..m : j = n + t
    BY <1>11, <2>1
  <2>3. h[j].answers = given[t].of /\ given[t].of \in S
    BY <1>1, <1>3, <2>2
  <2>4. PICK i \in 1..n : \E l \in DOMAIN h[i].calls : h[i].calls[l] = Said(given[t].of)
    BY <1>9, <2>3
  <2>5. \E c \in ToSet(h[i].calls) : c.of = h[j].answers
    BY <1>5, <2>3, <2>4 DEF ToSet
  <2>6. i \in 1..(j - 1)
    BY <1>1, <1>2, <2>2
  <2>7. ASSUME NEW k \in i..j
        PROVE  h[k].role # "user"
    <3>1. k \in 1..n \/ (k - n \in 1..m /\ k = n + (k - n))
      BY <1>1, <1>2, <2>2
    <3> QED BY <1>1, <1>6, <3>1
  <2> QED BY <2>5, <2>6, <2>7
<1>21. /\ Completion.text = w
       /\ {[of |-> c.of, data |-> IF c.data = <<>> THEN Other ELSE c.data] :
             c \in ToSet(Completion.calls)} = {Said(s) : s \in S}
  BY CompletionSays DEF w, S
<1> QED BY <1>14, <1>17, <1>18, <1>19, <1>20, <1>21 DEF Returns, h, calls, call

LEMMA Returned ==
  ASSUME ReplyInv
  PROVE  RoundTrip
<1> SUFFICES ASSUME NEW e \in Ends, NEW items \in {Kept(e), UnstreamedItems(Completion)}
             PROVE  Tells(items)
  BY TurnReturns DEF RoundTrip
<1> QED BY KeptTells, UnstreamedTells

-----------------------------------------------------------------------------
(* The theorems.                                                           *)

LEMMA ReplyStart == Init => ReplyInv
<1> SUFFICES ASSUME Init PROVE ReplyInv
  OBVIOUS
<1>1. /\ read = <<>> /\ reply = Empty /\ todo = Done /\ sent = <<>>
      /\ out = <<[ev |-> "opening"]>>
  BY DEF Init
<1>2. EndInv
  <2>1. DOMAIN read = {}
    BY <1>1
  <2>2. Usages = {} /\ Finishing = {}
    BY <2>1 DEF Usages, Finishing
  <2> QED BY <1>1, <2>2 DEF EndInv, Empty, Done
<1>3. EndsWith
  <2>1. SentEvents = {} /\ \A k \in DOMAIN out : out[k] = [ev |-> "opening"]
    BY <1>1 DEF SentEvents
  <2> QED BY <2>1 DEF EndsWith, Given
<1> QED BY <1>2, <1>3, TypeInit, StreamStart, WordsStart DEF ReplyInv

LEMMA ReplyStep ==
  ASSUME OneFill
  PROVE  ReplyInv /\ [Next]_vars => ReplyInv'
BY TypeInv, StreamStep, WordsStep, EndStep, EndsWithStep DEF ReplyInv

\* A reply says the same streamed and unstreamed, for every sequence of chunks
\* that fill each call at most once: the words, the calls and their arguments,
\* the usage, however late it was told, and the reason to stop.
THEOREM SaysTheSame == ASSUME OneFill PROVE Spec => []SameUnstreamed
BY ReplyStart, ReplyStep, SameSaid, PTL DEF Spec

\* The model is shown its own reply as it gave it, whichever way the client
\* received it: all its words in one message, each call once and with its
\* arguments, something in every message, and each result behind its call with
\* no turn of the user between them.
THEOREM ComesBack == ASSUME OneFill PROVE Spec => []RoundTrip
BY ReplyStart, ReplyStep, Returned, PTL DEF Spec
=============================================================================
