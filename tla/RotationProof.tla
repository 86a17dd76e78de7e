---------------------------- MODULE RotationProof ----------------------------
(***************************************************************************)
(* Theorems about Rotation, for every pool, set of requests and routes.    *)
(*                                                                         *)
(* The argument is IndInv.  A load never exceeds the number of holders     *)
(* (Fits) because claim and release change both sides together; that holds *)
(* only as long as a request that is not waiting or relaying has no claim, *)
(* that a candidate stands behind every send (ClaimsMatchState), and that  *)
(* a key out of the pool carries no load, so that releasing it is no loss. *)
(***************************************************************************)
EXTENDS Rotation, BreakerProof, FiniteSetTheorems, FunctionTheorems

-----------------------------------------------------------------------------
(* The pool's operators.                                                   *)

LEMMA PoolFinite ==
  ASSUME keys \in Seq(Key)
  PROVE  Pool \subseteq Key /\ IsFiniteSet(Pool)
<1>1. keys \in Surjection(1..Len(keys), Pool)
  BY DEF Surjection, Pool
<1>2. IsFiniteSet(1..Len(keys))
  BY FS_Interval
<1> QED BY <1>1, <1>2, FS_Surjection DEF Pool

\* Candidates are sequences of keys.
LEMMA CandidatesType ==
  ASSUME keys \in Seq(Key), NEW c \in Candidates
  PROVE  c \in Seq(Key)
<1>1. ASSUME NEW S \in SUBSET Pool, NEW rank, c \in Arranged(S, rank)
      PROVE  c \in Seq(Key)
  <2>1. Cardinality(S) \in Nat
    BY PoolFinite, FS_Subset, FS_CardinalityType
  <2>2. c \in [1..Cardinality(S) -> Key]
    BY <1>1, PoolFinite DEF Arranged
  <2> QED BY <2>1, <2>2
<1> DEFINE usable == {k \in Pool : valid[k]}
           live == {k \in usable : ~OnCooldown(k)}
<1>2. CASE live # {}
  BY <1>1, <1>2 DEF Candidates
<1>3. CASE live = {}
  BY <1>1, <1>3 DEF Candidates
<1> QED BY <1>2, <1>3

\* The sends that are too old are the first ones; forgetting them leaves a
\* shorter window, in order.
LEMMA AgedType ==
  ASSUME NEW s \in Seq(1..RpmWindow), InOrder(s)
  PROVE  /\ Aged(s) \in Seq(1..RpmWindow)
         /\ InOrder(Aged(s))
         /\ Len(Aged(s)) <= Len(s)
<1> USE PoolSizes
<1> DEFINE over == {i \in DOMAIN s : s[i] = 1}
           old == Cardinality(over)
<1>0. Len(s) \in Nat /\ DOMAIN s = 1..Len(s)
  OBVIOUS
<1>1. IsFiniteSet(1..Len(s)) /\ Cardinality(1..Len(s)) = Len(s)
  <2>1. \A n \in Nat : IsFiniteSet(1..n) /\ Cardinality(1..n) = n
    BY FS_Interval
  <2> QED BY <1>0, <2>1
<1>2. IsFiniteSet(over) /\ old \in Nat /\ old <= Len(s)
  <2>1. over \in SUBSET (1..Len(s))
    BY <1>0
  <2> QED BY <1>1, <2>1, FS_Subset, FS_CardinalityType
<1>3. ASSUME NEW i \in 1..Len(s), i > old
      PROVE  s[i] # 1
  <2> SUFFICES ASSUME s[i] = 1 PROVE FALSE
    OBVIOUS
  <2>1. \A j \in 1..i : j \in DOMAIN s /\ s[j] \in 1..RpmWindow /\ s[j] <= 1
    BY DEF InOrder
  <2>2. 1..i \in SUBSET over
    BY <2>1
  <2>3. Cardinality(1..i) = i
    BY FS_Interval
  <2>4. Cardinality(1..i) <= old
    BY <1>2, <2>2, FS_Subset
  <2> QED BY <1>2, <1>3, <2>3, <2>4
<1> HIDE DEF old
<1>4. Aged(s) = [i \in 1..(Len(s) - old) |-> s[i + old] - 1]
  BY DEF Aged, old
<1>5. \A i \in 1..(Len(s) - old) :
        i + old \in 1..Len(s) /\ s[i + old] - 1 \in 1..RpmWindow
  <2> TAKE i \in 1..(Len(s) - old)
  <2>1. i + old \in 1..Len(s) /\ i + old > old
    BY <1>2
  <2>2. s[i + old] # 1 /\ s[i + old] \in 1..RpmWindow
    BY <1>3, <2>1
  <2> QED BY <2>1, <2>2
<1>6. Len(s) - old \in Nat
  BY <1>2
<1>7. Aged(s) \in Seq(1..RpmWindow) /\ Len(Aged(s)) = Len(s) - old
  <2> DEFINE n == Len(s) - old
  <2>1. Aged(s) \in [1..n -> 1..RpmWindow]
    BY <1>4, <1>5
  <2> HIDE DEF n
  <2>2. n \in Nat
    BY <1>6 DEF n
  <2>3. Aged(s) \in Seq(1..RpmWindow) /\ Len(Aged(s)) = n
    BY <2>1, <2>2
  <2> QED BY <2>3 DEF n
<1>8. InOrder(Aged(s))
  <2> SUFFICES ASSUME NEW i \in 1..(Len(s) - old), NEW j \in 1..(Len(s) - old), i <= j
               PROVE  s[i + old] - 1 <= s[j + old] - 1
    BY <1>4, <1>7 DEF InOrder
  <2>1. i + old \in DOMAIN s /\ j + old \in DOMAIN s /\ i + old <= j + old
    BY <1>2, <1>5
  <2>2. s[i + old] <= s[j + old]
    BY <2>1 DEF InOrder
  <2> QED BY <2>1, <2>2
<1> QED BY <1>2, <1>7, <1>8

\* A failure leaves the health of the pool well typed.
LEMMA MarkKeyFailedType ==
  ASSUME PoolTypeOK, NEW k \in Key, NEW status \in Status,
         MarkKeyFailed(k, status)
  PROVE  /\ valid' \in [Key -> BOOLEAN]
         /\ fails' \in [Key -> 0..FailCap]
         /\ cooldown' \in [Key -> [left : Nat, status : Status]]
         /\ ceiling' \in [Key -> FloorRpm..MaxRpm]
         /\ strikes' \in [Key -> Nat]
         /\ throttle' \in Nat
<1> USE PoolSizes, Durations
<1> DEFINE held == k \in Pool
           count == Smaller(FailCap, fails[k] + 1)
           ticks == IF status = "rate" /\ held /\ count > 1
                    THEN Duration["repeat"] ELSE Duration[status]
<1>1. count \in 0..FailCap
  BY DEF PoolTypeOK, Smaller
<1>2. ticks \in Nat
  BY DEF Status
<1>3. fails' \in [Key -> 0..FailCap]
  BY <1>1 DEF PoolTypeOK, MarkKeyFailed
<1>4. cooldown' \in [Key -> [left : Nat, status : Status]]
  BY <1>2 DEF PoolTypeOK, MarkKeyFailed
<1>5. valid' \in [Key -> BOOLEAN]
  BY DEF PoolTypeOK, MarkKeyFailed
<1>6. strikes' \in [Key -> Nat] /\ throttle' \in Nat
  BY DEF PoolTypeOK, MarkKeyFailed, NoteRateLimited
<1>7. ceiling' \in [Key -> FloorRpm..MaxRpm]
  <2>1. \A c \in FloorRpm..MaxRpm : Larger(FloorRpm, c \div 2) \in FloorRpm..MaxRpm
    BY DEF Larger
  <2>2. CASE status = "rate"
    <3>1. ceiling' = IF held
                     THEN [ceiling EXCEPT ![k] = Larger(FloorRpm, ceiling[k] \div 2)]
                     ELSE ceiling
      BY <2>2 DEF MarkKeyFailed
    <3> QED BY <2>1, <3>1 DEF PoolTypeOK
  <2>3. CASE status # "rate"
    BY <2>3 DEF PoolTypeOK, MarkKeyFailed
  <2> QED BY <2>2, <2>3
<1> QED BY <1>3, <1>4, <1>5, <1>6, <1>7

-----------------------------------------------------------------------------
(* A claim given back, a claim taken.                                      *)

\* A claim given back once lowers the load and its holders together.
LEMMA ReleaseFits ==
  ASSUME NEW load \in [Key -> Nat], NEW held \in [Request -> Key \cup {None}],
         Fits(load, held), NEW r \in Request, held[r] # None
  PROVE  /\ Released(load, held[r]) \in [Key -> Nat]
         /\ Fits(Released(load, held[r]), [held EXCEPT ![r] = None])
<1> USE RotationSizes, BreakerSizes
<1> DEFINE less == Released(load, held[r])
           then == [held EXCEPT ![r] = None]
<1>1. held[r] \in Key
  OBVIOUS
<1>2. less \in [Key -> Nat]
  BY <1>1 DEF Released, Less
<1>3. ASSUME NEW k \in Key
      PROVE  /\ less[k] <= Cardinality({q \in Request : then[q] = k})
             /\ k \notin Pool => less[k] = 0
  <2> DEFINE H == {q \in Request : held[q] = k}
             G == {q \in Request : then[q] = k}
  <2>1. load[k] <= Cardinality(H) /\ (k \notin Pool => load[k] = 0)
    BY DEF Fits
  <2>2. IsFiniteSet(H) /\ Cardinality(H) \in Nat
    BY FS_Subset, FS_CardinalityType
  <2>3. CASE k = held[r]
    <3>1. G = H \ {r} /\ r \in H
      BY <2>3
    <3>2. Cardinality(G) = Cardinality(H) - 1
      <4> HIDE DEF G, H
      <4> QED BY <2>2, <3>1, FS_RemoveElement
    <3>3. less[k] = IF k \in Pool THEN Less(load[k]) ELSE load[k]
      BY <2>3 DEF Released
    <3>4. Cardinality(G) \in Nat
      BY FS_Subset, FS_CardinalityType
    <3>5. less[k] <= Cardinality(G) /\ (k \notin Pool => less[k] = 0)
      <4> HIDE DEF less, G, H
      <4> QED BY <2>1, <2>2, <3>2, <3>3, <3>4 DEF Less
    <3> QED BY <3>5
  <2>4. CASE k # held[r]
    <3>1. G = H
      BY <2>4
    <3>2. less[k] = load[k]
      BY <2>4 DEF Released
    <3> QED BY <2>1, <3>1, <3>2
  <2> QED BY <2>3, <2>4
<1> QED BY <1>2, <1>3 DEF Fits

\* A claim raises the load and its holders together.
LEMMA ClaimFits ==
  ASSUME NEW load \in [Key -> Nat], NEW held \in [Request -> Key \cup {None}],
         Fits(load, held), NEW r \in Request, held[r] = None, NEW k \in Key
  PROVE  /\ Claimed(load, k) \in [Key -> Nat]
         /\ Fits(Claimed(load, k), [held EXCEPT ![r] = k])
<1> USE RotationSizes, BreakerSizes
<1> DEFINE more == Claimed(load, k)
           then == [held EXCEPT ![r] = k]
<1>1. more \in [Key -> Nat]
  BY DEF Claimed
<1>2. ASSUME NEW j \in Key
      PROVE  /\ more[j] <= Cardinality({q \in Request : then[q] = j})
             /\ j \notin Pool => more[j] = 0
  <2> DEFINE H == {q \in Request : held[q] = j}
             G == {q \in Request : then[q] = j}
  <2>1. load[j] <= Cardinality(H) /\ (j \notin Pool => load[j] = 0)
    BY DEF Fits
  <2>2. IsFiniteSet(H) /\ Cardinality(H) \in Nat
    BY FS_Subset, FS_CardinalityType
  <2>3. CASE j = k
    <3>1. G = H \cup {r} /\ r \notin H
      BY <2>3
    <3>2. Cardinality(G) = Cardinality(H) + 1
      BY <2>2, <3>1, FS_AddElement
    <3>3. more[j] = IF j \in Pool THEN load[j] + 1 ELSE load[j]
      BY <2>3 DEF Claimed
    <3>4. more[j] <= Cardinality(G) /\ (j \notin Pool => more[j] = 0)
      <4> HIDE DEF more, G, H
      <4> QED BY <2>1, <2>2, <3>2, <3>3
    <3> QED BY <3>4
  <2>4. CASE j # k
    <3>1. G = H
      BY <2>4
    <3>2. more[j] = load[j]
      BY <2>4 DEF Claimed
    <3> QED BY <2>1, <3>1, <3>2
  <2> QED BY <2>3, <2>4
<1> QED BY <1>1, <1>2 DEF Fits

-----------------------------------------------------------------------------
(* The ends of an iteration of the rotation loop.                          *)

\* What an iteration assigns.
RequestsOK ==
  /\ pc \in [Request -> States]
  /\ claim \in [Request -> Key \cup {None}]
  /\ loop \in [Request -> LoopType]
  /\ breaker \in BreakerType
  /\ inFlight \in [Key -> Nat]
  /\ window \in [Key -> Seq(1..RpmWindow)]
  /\ ClaimsMatchState
  /\ Fits(inFlight, claim)
  /\ \A k \in Key : InOrder(window[k])
  /\ RpmRespected

\* What it is handed: the claim of r is already given back.
Handed(r, st, load, b) ==
  /\ st \in LoopType
  /\ b \in BreakerType
  /\ load \in [Key -> Nat]
  /\ Fits(load, [claim EXCEPT ![r] = None])

LEMMA FreshLoopType == FreshLoop \in LoopType
BY RotationSizes DEF FreshLoop, LoopType

\* Fits depends on the pool, which no request changes.
LEMMA FitsNext ==
  ASSUME keys' = keys, NEW load, NEW held, Fits(load, held),
         inFlight' = load, claim' = held
  PROVE  Fits(inFlight, claim)'
BY DEF Fits, Pool

\* Giving up, the first outcome of Scan, in a step that has no claim left.
LEMMA GiveUpOK ==
  ASSUME IndInv, keys' = keys, gone' = gone,
         NEW r \in Request, NEW st, NEW load, NEW b, Handed(r, st, load, b),
         GiveUp(r, st, load, b)
  PROVE  RequestsOK'
<1> USE RotationSizes, BreakerSizes
<1>1. breaker' \in BreakerType
  BY BreakerTypes DEF GiveUp, Handed
<1>2. [FreshLoop EXCEPT !.last = st.last] \in LoopType
  BY FreshLoopType DEF LoopType, Handed
<1>3. /\ pc' \in [Request -> States]
      /\ claim' \in [Request -> Key \cup {None}]
      /\ loop' \in [Request -> LoopType]
  BY <1>2 DEF GiveUp, IndInv, TypeOK, States
<1>4. ClaimsMatchState'
  BY DEF GiveUp, IndInv, TypeOK, ClaimsMatchState
<1>5. Fits(inFlight, claim)'
  BY FitsNext DEF GiveUp, Handed
<1>6. inFlight' \in [Key -> Nat] /\ window' = window
  BY DEF GiveUp, Handed
<1> QED BY <1>1, <1>3, <1>4, <1>5, <1>6
        DEF RequestsOK, IndInv, TypeOK, PoolTypeOK, RpmRespected, InOrder

\* Sleeping until the next candidate or pass, the second outcome of Scan.
LEMMA SleepOK ==
  ASSUME IndInv, keys' = keys, gone' = gone,
         NEW r \in Request, NEW st, NEW load, NEW b, Handed(r, st, load, b),
         NEW where \in {"pausing", "backoff"}, Sleep(r, st, where, load, b)
  PROVE  RequestsOK'
<1> USE RotationSizes, BreakerSizes
<1>1. breaker' \in BreakerType
  BY DEF Sleep, Handed
<1>2. /\ pc' \in [Request -> States]
      /\ claim' \in [Request -> Key \cup {None}]
      /\ loop' \in [Request -> LoopType]
  BY DEF Sleep, Handed, IndInv, TypeOK, States, Awaiting
<1>3. ClaimsMatchState'
  BY DEF Sleep, IndInv, TypeOK, ClaimsMatchState
<1>4. Fits(inFlight, claim)'
  BY FitsNext DEF Sleep, Handed
<1>5. inFlight' \in [Key -> Nat] /\ window' = window
  BY DEF Sleep, Handed
<1> QED BY <1>1, <1>2, <1>3, <1>4, <1>5
        DEF RequestsOK, IndInv, TypeOK, PoolTypeOK, RpmRespected, InOrder

\* Claiming the next candidate, the third outcome of Scan.
LEMMA TakeOK ==
  ASSUME IndInv, keys' = keys, gone' = gone,
         NEW r \in Request, NEW st, NEW load, NEW b, Handed(r, st, load, b),
         NEW j \in 1..Len(st.cand), st.attempts < MaxAttempts,
         Len(window[st.cand[j]]) < MaxRpm,
         Take(r, st, load, b, j)
  PROVE  RequestsOK'
<1> USE RotationSizes, BreakerSizes, PoolSizes
<1> DEFINE k == st.cand[j]
           free == [claim EXCEPT ![r] = None]
           now == [st EXCEPT !.pos = j, !.resent = FALSE, !.attempts = @ + 1]
<1>1. k \in Key
  BY DEF Handed, LoopType
<1>2. now \in LoopType /\ now.attempts >= 1 /\ now.pos = j /\ now.cand = st.cand
  <2>1. st \in LoopType
    BY DEF Handed
  <2>2. st.attempts + 1 \in 0..MaxAttempts /\ st.attempts + 1 >= 1
    <3>1. st.attempts \in 0..MaxAttempts
      BY <2>1 DEF LoopType
    <3> QED BY <3>1
  <2>3. j \in Nat
    <3>1. Len(st.cand) \in Nat
      BY <2>1 DEF LoopType
    <3> QED BY <3>1
  <2>4. [st EXCEPT !.pos = j, !.resent = FALSE] \in LoopType
    BY <2>1, <2>3 DEF LoopType
  <2> QED BY <2>1, <2>2, <2>3, <2>4 DEF LoopType
<1>3. /\ pc' \in [Request -> States]
      /\ loop' \in [Request -> LoopType]
      /\ loop' = [loop EXCEPT ![r] = now]
      /\ pc' = [pc EXCEPT ![r] = NextSend(r)]
      /\ NextSend(r) \in {"claimed", "sending"}
  BY <1>2 DEF Take, IndInv, TypeOK, States, Awaiting, NextSend
<1>4. claim' = [claim EXCEPT ![r] = k] /\ claim' \in [Request -> Key \cup {None}]
  BY <1>1 DEF Take, IndInv, TypeOK
<1>5. inFlight' \in [Key -> Nat] /\ Fits(inFlight, claim)'
  <2>1. /\ free \in [Request -> Key \cup {None}]
        /\ free[r] = None
        /\ [free EXCEPT ![r] = k] = claim'
    BY <1>4 DEF IndInv, TypeOK
  <2>2. Claimed(load, k) \in [Key -> Nat] /\ Fits(Claimed(load, k), claim')
    BY <1>1, <2>1, ClaimFits DEF Handed
  <2>3. inFlight' = Claimed(load, k)
    BY DEF Take
  <2> QED BY <2>2, <2>3, FitsNext
<1>6. breaker' \in BreakerType
  BY DEF Take, Handed
<1>7. /\ window' \in [Key -> Seq(1..RpmWindow)]
      /\ \A i \in Key : InOrder(window'[i]) /\ Len(window'[i]) <= MaxRpm
  <2>1. window' = [window EXCEPT ![k] = Append(window[k], RpmWindow)]
    BY DEF Take, RecordRequest
  <2>2. /\ window \in [Key -> Seq(1..RpmWindow)]
        /\ \A i \in Key : InOrder(window[i]) /\ Len(window[i]) <= MaxRpm
    BY DEF IndInv, TypeOK, PoolTypeOK, RpmRespected
  <2>3. ASSUME NEW s \in Seq(1..RpmWindow), InOrder(s), Len(s) < MaxRpm
        PROVE  /\ Append(s, RpmWindow) \in Seq(1..RpmWindow)
               /\ InOrder(Append(s, RpmWindow))
               /\ Len(Append(s, RpmWindow)) <= MaxRpm
    BY <2>3 DEF InOrder
  <2> QED BY <1>1, <2>1, <2>2, <2>3
<1>8. ClaimsMatchState'
  <2>1. k # None
    BY <1>1
  <2>2. ASSUME NEW q \in Request, q # r
        PROVE  pc'[q] = pc[q] /\ loop'[q] = loop[q] /\ claim'[q] = claim[q]
    BY <1>3, <1>4, <2>2 DEF IndInv, TypeOK
  <2>3. pc'[r] \in {"claimed", "sending"} /\ loop'[r] = now /\ claim'[r] = k
    BY <1>3, <1>4 DEF IndInv, TypeOK
  <2> HIDE DEF now
  <2> QED BY <1>2, <2>1, <2>2, <2>3 DEF IndInv, ClaimsMatchState
<1> QED BY <1>3, <1>4, <1>5, <1>6, <1>7, <1>8 DEF RequestsOK, RpmRespected

\* Hence Scan preserves the invariant.
LEMMA ScanOK ==
  ASSUME IndInv, keys' = keys, gone' = gone,
         ceiling' \in [Key -> FloorRpm..MaxRpm],
         NEW r \in Request, NEW st, NEW load, NEW b, Handed(r, st, load, b),
         Scan(r, st, load, b)
  PROVE  RequestsOK'
<1> USE RotationSizes, BreakerSizes, PoolSizes
<1> DEFINE rest == {j \in 1..Len(st.cand) : j >= st.pos}
           free == {j \in rest : Free(st.cand[j])}
           spent == rest # {} /\ st.attempts >= MaxAttempts
           stop == rest # {} /\ Paused
<1>0. st \in LoopType
  BY DEF Handed
<1>1. CASE GiveUp(r, st, load, b)
  BY <1>1, GiveUpOK
<1>2. CASE GiveUp(r, [st EXCEPT !.last = "rate"], load, b)
  <2>1. Handed(r, [st EXCEPT !.last = "rate"], load, b)
    BY DEF Handed, LoopType, ErrorStatus
  <2> QED BY <1>2, <2>1, GiveUpOK
<1>3. ASSUME ~spent, NEW j \in free, Take(r, st, load, b, j)
      PROVE  RequestsOK'
  <2>1. j \in 1..Len(st.cand) /\ st.cand[j] \in Key
    BY <1>0 DEF LoopType
  <2>2. st.attempts < MaxAttempts
    <3>1. rest # {}
      BY <1>3
    <3>2. ~(st.attempts >= MaxAttempts)
      BY <1>3, <3>1
    <3> QED BY <1>0, <3>2 DEF LoopType
  <2>3. Len(window[st.cand[j]]) < MaxRpm
    <3>1. /\ window[st.cand[j]] \in Seq(1..RpmWindow)
          /\ ceiling'[st.cand[j]] \in FloorRpm..MaxRpm
      BY <2>1 DEF IndInv, TypeOK, PoolTypeOK
    <3>2. Len(window[st.cand[j]]) < ceiling'[st.cand[j]]
      BY <1>3 DEF Free
    <3> QED BY <3>1, <3>2
  <2> QED BY <1>3, <2>1, <2>2, <2>3, TakeOK
<1>4. CASE st.pass < Passes /\ Sleep(r, NextPass(st), "pausing", load, b)
  <2>1. Handed(r, NextPass(st), load, b)
    <3>1. st.pass + 1 \in 1..Passes
      BY <1>0, <1>4 DEF LoopType
    <3>2. NextPass(st) \in LoopType
      BY <1>0, <3>1 DEF NextPass, LoopType
    <3> QED BY <3>2 DEF Handed
  <2> QED BY <1>4, <2>1, SleepOK
<1> QED BY <1>1, <1>2, <1>3, <1>4 DEF Scan

-----------------------------------------------------------------------------
(* Every step preserves IndInv.                                            *)

HealthOK ==
  /\ valid \in [Key -> BOOLEAN]
  /\ fails \in [Key -> 0..FailCap]
  /\ cooldown \in [Key -> [left : Nat, status : Status]]
  /\ ceiling \in [Key -> FloorRpm..MaxRpm]
  /\ strikes \in [Key -> Nat]
  /\ throttle \in Nat

\* A step of a request leaves the pool, the clients and the probes alone.
LEMMA RequestStep ==
  ASSUME IndInv, RequestsOK', HealthOK', KeepRest
  PROVE  IndInv'
BY DEF IndInv, TypeOK, PoolTypeOK, RequestsOK, HealthOK, KeepRest

\* Steps that leave the health of the keys alone keep its type.
LEMMA HealthKept ==
  ASSUME IndInv, KeepHealth
  PROVE  HealthOK' /\ ceiling' \in [Key -> FloorRpm..MaxRpm]
BY DEF IndInv, TypeOK, PoolTypeOK, HealthOK, KeepHealth, healthVars

\* Steps that blame a key keep it too.
LEMMA HealthMarked ==
  ASSUME IndInv, NEW k \in Key, NEW status \in Status, MarkKeyFailed(k, status)
  PROVE  HealthOK' /\ ceiling' \in [Key -> FloorRpm..MaxRpm]
<1>1. PoolTypeOK
  BY DEF IndInv, TypeOK
<1> QED BY <1>1, MarkKeyFailedType DEF HealthOK

\* A request without a claim hands the load over as it is.
LEMMA NothingToRelease ==
  ASSUME IndInv, NEW r \in Request, claim[r] = None
  PROVE  /\ inFlight \in [Key -> Nat]
         /\ Fits(inFlight, [claim EXCEPT ![r] = None])
         /\ [claim EXCEPT ![r] = None] = claim
<1>1. [claim EXCEPT ![r] = None] = claim
  BY DEF IndInv, TypeOK
<1> QED BY <1>1 DEF IndInv, TypeOK, PoolTypeOK

\* A request that waits for the upstream gives its claim back first.
LEMMA ClaimReleased ==
  ASSUME IndInv, NEW r \in Request, claim[r] # None
  PROVE  /\ claim[r] \in Key
         /\ Unclaimed(r) \in [Key -> Nat]
         /\ Fits(Unclaimed(r), [claim EXCEPT ![r] = None])
<1>1. /\ claim \in [Request -> Key \cup {None}]
      /\ inFlight \in [Key -> Nat]
      /\ Fits(inFlight, claim)
  BY DEF IndInv, TypeOK, PoolTypeOK
<1> QED BY <1>1, ReleaseFits DEF Unclaimed

\* The local variables of r, one candidate further on.
LEMMA AdvancedType ==
  ASSUME IndInv, NEW r \in Request
  PROVE  /\ loop[r] \in LoopType
         /\ Advanced(r) \in LoopType
         /\ Advanced(r).attempts = loop[r].attempts
         /\ Advanced(r).waits = loop[r].waits
         /\ Advanced(r).net = loop[r].net
<1>1. loop[r] \in LoopType
  BY DEF IndInv, TypeOK
<1>2. loop[r].pos + 1 \in Nat
  BY <1>1 DEF LoopType
<1>3. Advanced(r) = [loop[r] EXCEPT !.pos = loop[r].pos + 1]
  BY DEF Advanced
<1> HIDE DEF Advanced
<1> QED BY <1>1, <1>2, <1>3 DEF LoopType

\* The candidate a sent or answered request is at.
LEMMA CurrentType ==
  ASSUME IndInv, NEW r \in Request, pc[r] \in {"claimed", "sending", "answered"}
  PROVE  Current(r) \in Key /\ loop[r].attempts \in 1..MaxAttempts
<1>1. loop[r] \in LoopType
  BY DEF IndInv, TypeOK
<1>2. loop[r].attempts >= 1 /\ loop[r].pos \in 1..Len(loop[r].cand)
  BY DEF IndInv, ClaimsMatchState
<1>3. loop[r].cand \in Seq(Key) /\ loop[r].attempts \in 0..MaxAttempts
  BY <1>1 DEF LoopType
<1> QED BY RotationSizes, <1>2, <1>3 DEF Current

\* A request that is turned away holds nothing.
LEMMA TurnAwayInv ==
  ASSUME IndInv, NEW r \in Request, pc[r] \in {"idle", "admitted"},
         TurnAway(r), breaker' = breaker
  PROVE  IndInv'
<1>1. pc' \in [Request -> States]
  BY DEF TurnAway, IndInv, TypeOK, States
<1>2. ClaimsMatchState'
  BY DEF TurnAway, IndInv, TypeOK, ClaimsMatchState
<1>3. Fits(inFlight, claim)'
  BY DEF TurnAway, IndInv, Fits, Pool
<1> QED BY <1>1, <1>2, <1>3
        DEF TurnAway, IndInv, TypeOK, PoolTypeOK, healthVars, RpmRespected, InOrder

\* Steps that move r to another state and touch neither pool nor claims.
LEMMA MoveInv ==
  ASSUME IndInv, KeepPool, NEW r \in Request, NEW where \in States,
         pc' = [pc EXCEPT ![r] = where],
         loop' \in [Request -> LoopType], breaker' \in BreakerType,
         ClaimsMatchState'
  PROVE  IndInv'
<1>1. pc' \in [Request -> States]
  BY DEF IndInv, TypeOK
<1>2. Fits(inFlight, claim)'
  BY DEF KeepPool, poolVars, IndInv, Fits, Pool
<1> QED BY <1>1, <1>2
        DEF KeepPool, poolVars, healthVars, IndInv, TypeOK, PoolTypeOK,
            RpmRespected, InOrder

\* The steps of a request that arrives.
LEMMA ArriveInv ==
  ASSUME IndInv, NEW r \in Request, Arrive(r)
  PROVE  IndInv'
<1> USE RotationSizes, BreakerSizes
<1>0. /\ pc \in [Request -> States] /\ loop \in [Request -> LoopType]
      /\ breaker \in BreakerType /\ keys \in Seq(Key)
  BY DEF IndInv, TypeOK, PoolTypeOK
<1>1. CASE Refuse(r)
  BY <1>1, TurnAwayInv DEF Refuse
<1>2. CASE Admit(r)
  <2>1. breaker' \in BreakerType /\ loop' \in [Request -> LoopType]
    BY <1>0, <1>2, BreakerTypes DEF Admit
  <2>2. ClaimsMatchState'
    BY <1>0, <1>2 DEF Admit, KeepPool, IndInv, ClaimsMatchState
  <2> QED BY <1>2, <2>1, <2>2, MoveInv DEF Admit, States
<1>3. CASE StartBarred(r)
  <2>1. pc[r] \in {"idle", "admitted"}
    BY <1>3 DEF StartBarred, Ready
  <2> QED BY <1>3, <2>1, TurnAwayInv DEF StartBarred
<1>4. CASE StartDirect(r)
  <2>1. PICK c \in Candidates :
          Scan(r, [FreshLoop EXCEPT !.cand = c], inFlight, BreakerSeen(r))
    BY <1>4 DEF StartDirect
  <2>2. claim[r] = None
    BY <1>4 DEF StartDirect, Ready, IndInv, ClaimsMatchState
  <2>3. [FreshLoop EXCEPT !.cand = c] \in LoopType
    BY <1>0, CandidatesType, FreshLoopType DEF LoopType
  <2>4. BreakerSeen(r) \in BreakerType
    BY <1>0, BreakerTypes DEF BreakerSeen
  <2>5. Handed(r, [FreshLoop EXCEPT !.cand = c], inFlight, BreakerSeen(r))
    BY <2>2, <2>3, <2>4, NothingToRelease DEF Handed
  <2>6. KeepHealth /\ KeepRest
    BY <1>4 DEF StartDirect
  <2>7. RequestsOK'
    BY <2>1, <2>5, <2>6, HealthKept, ScanOK DEF KeepRest
  <2> QED BY <2>6, <2>7, HealthKept, RequestStep
<1>5. CASE StartTask(r)
  <2>1. PICK c \in Candidates : loop' = [loop EXCEPT ![r].cand = c]
    BY <1>5 DEF StartTask
  <2>2. c \in Seq(Key)
    BY <1>0, CandidatesType
  <2>3. loop' \in [Request -> LoopType]
    <3>1. [loop[r] EXCEPT !.cand = c] \in LoopType
      BY <1>0, <2>2 DEF LoopType
    <3> QED BY <1>0, <2>1, <3>1
  <2>4. ClaimsMatchState'
    BY <1>0, <1>5, <2>1 DEF StartTask, Ready, KeepPool, IndInv, ClaimsMatchState
  <2> QED BY <1>0, <1>5, <2>3, <2>4, MoveInv DEF StartTask, States, Awaiting
<1> QED BY <1>1, <1>2, <1>3, <1>4, <1>5 DEF Arrive

\* The steps of a request that waits for a pass or the semaphore.
LEMMA WaitingInv ==
  ASSUME IndInv, NEW r \in Request, Resume(r) \/ Send(r)
  PROVE  IndInv'
<1>0. /\ pc \in [Request -> States] /\ loop \in [Request -> LoopType]
      /\ breaker \in BreakerType
  BY DEF IndInv, TypeOK
<1>1. CASE Resume(r)
  <2>1. claim[r] = None
    BY <1>1 DEF Resume, IndInv, ClaimsMatchState
  <2>2. Handed(r, loop[r], inFlight, breaker)
    BY <1>0, <2>1, NothingToRelease DEF Handed
  <2>3. KeepHealth /\ KeepRest /\ Scan(r, loop[r], inFlight, breaker)
    BY <1>1 DEF Resume
  <2>4. RequestsOK'
    BY <2>2, <2>3, HealthKept, ScanOK DEF KeepRest
  <2> QED BY <2>3, <2>4, HealthKept, RequestStep
<1>2. CASE Send(r)
  <2>1. ClaimsMatchState'
    BY <1>0, <1>2 DEF Send, KeepPool, IndInv, ClaimsMatchState
  <2> QED BY <1>0, <1>2, <2>1, MoveInv DEF Send, States, Awaiting
<1> QED BY <1>1, <1>2

\* The upstream's answers.
LEMMA AnswerInv ==
  ASSUME IndInv, NEW r \in Request, Answer(r)
  PROVE  IndInv'
<1> USE RotationSizes, BreakerSizes
<1>0. /\ pc \in [Request -> States] /\ loop \in [Request -> LoopType]
      /\ breaker \in BreakerType
  BY DEF IndInv, TypeOK
<1>1. pc[r] = "sending"
  BY DEF Answer, ReplyOk, Goaway, TooSlow, NoConnection, Broken, ReplyError
<1>2. claim[r] # None
  BY <1>1 DEF IndInv, ClaimsMatchState
<1>3. ASSUME NEW st \in LoopType, NEW b \in BreakerType
      PROVE  Handed(r, st, Unclaimed(r), b)
  BY <1>2, ClaimReleased DEF Handed
<1>4. CASE ReplyOk(r)
  <2>1. loop' \in [Request -> LoopType] /\ breaker' \in BreakerType
    BY <1>0, <1>4, FreshLoopType, BreakerTypes DEF ReplyOk
  <2>2. ClaimsMatchState'
    BY <1>0, <1>2, <1>4 DEF ReplyOk, KeepPool, IndInv, ClaimsMatchState
  <2>3. CASE gone[r]
    BY <1>4, <2>1, <2>2, <2>3, MoveInv DEF ReplyOk, States
  <2>4. CASE ~gone[r]
    BY <1>4, <2>1, <2>2, <2>4, MoveInv DEF ReplyOk, States
  <2> QED BY <2>3, <2>4
<1>5. CASE Goaway(r)
  <2>1. loop' \in [Request -> LoopType]
    <3>1. [loop[r] EXCEPT !.resent = TRUE] \in LoopType
      BY <1>0 DEF LoopType
    <3> QED BY <1>0, <1>5, <3>1 DEF Goaway
  <2>2. NextSend(r) \in {"claimed", "sending"}
    BY DEF NextSend
  <2>3. ClaimsMatchState'
    <3>1. pc'[r] = NextSend(r)
      BY <1>0, <1>5 DEF Goaway
    <3>2. /\ loop'[r].attempts = loop[r].attempts
          /\ loop'[r].pos = loop[r].pos /\ loop'[r].cand = loop[r].cand
      BY <1>0, <1>5 DEF Goaway, LoopType
    <3>3. \A q \in Request \ {r} : pc'[q] = pc[q] /\ loop'[q] = loop[q]
      BY <1>0, <1>5 DEF Goaway
    <3>4. claim' = claim /\ gone' = gone
      BY <1>5 DEF Goaway, KeepPool
    <3> QED BY <1>1, <1>2, <2>2, <3>1, <3>2, <3>3, <3>4 DEF IndInv, ClaimsMatchState
  <2> QED BY <1>0, <1>5, <2>1, <2>2, <2>3, MoveInv DEF Goaway, States, Awaiting
<1>6. CASE TooSlow(r)
  <2> DEFINE st == [loop[r] EXCEPT !.pos = Len(loop[r].cand) + 1, !.last = "fault"]
  <2>1. st \in LoopType
    <3>1. loop[r] \in LoopType /\ Len(loop[r].cand) + 1 \in Nat
      BY <1>0 DEF LoopType
    <3> QED BY <3>1 DEF LoopType
  <2>2. Handed(r, st, Unclaimed(r), AfterFailure(breaker))
    BY <1>0, <1>3, <2>1, BreakerTypes
  <2>3. KeepHealth /\ KeepRest /\ Scan(r, st, Unclaimed(r), AfterFailure(breaker))
    BY <1>6 DEF TooSlow
  <2> HIDE DEF st
  <2>4. RequestsOK'
    BY <2>2, <2>3, HealthKept, ScanOK DEF KeepRest
  <2> QED BY <2>3, <2>4, HealthKept, RequestStep
<1>7. CASE NoConnection(r)
  <2> DEFINE st == [Advanced(r) EXCEPT !.net = @ + 1, !.last = "fault"]
  <2>1. KeepHealth /\ KeepRest
    BY <1>7 DEF NoConnection
  <2>2. loop[r].net \in 0..MaxNetworkErrors /\ Advanced(r) \in LoopType
        /\ Advanced(r).net = loop[r].net
    BY <1>0, AdvancedType DEF LoopType
  <2>3. CASE st.net >= MaxNetworkErrors
    <3>1. GiveUp(r, st, Unclaimed(r), breaker)
      BY <1>7, <2>3 DEF NoConnection
    <3>2. GiveUp(r, [Advanced(r) EXCEPT !.last = "fault"], Unclaimed(r), breaker)
      BY <2>2, <3>1 DEF GiveUp, LoopType
    <3>3. [Advanced(r) EXCEPT !.last = "fault"] \in LoopType
      BY <2>2 DEF LoopType
    <3>4. RequestsOK'
      BY <1>0, <1>3, <2>1, <3>2, <3>3, GiveUpOK DEF KeepRest
    <3> QED BY <2>1, <3>4, HealthKept, RequestStep
  <2>4. CASE ~(st.net >= MaxNetworkErrors)
    <3>1. Sleep(r, st, "backoff", Unclaimed(r), breaker)
      BY <1>7, <2>4 DEF NoConnection
    <3>2. st \in LoopType
      <4>1. st.net = loop[r].net + 1
        BY <2>2 DEF LoopType
      <4>2. loop[r].net + 1 \in 0..MaxNetworkErrors
        <5> HIDE DEF st
        <5> QED BY <2>2, <2>4, <4>1
      <4> QED BY <2>2, <4>2 DEF LoopType
    <3>3. Handed(r, st, Unclaimed(r), breaker)
      BY <1>0, <1>3, <3>2
    <3> HIDE DEF st
    <3>4. RequestsOK'
      BY <2>1, <3>1, <3>3, SleepOK DEF KeepRest
    <3> QED BY <2>1, <3>4, HealthKept, RequestStep
  <2> QED BY <2>3, <2>4
<1>8. CASE Broken(r)
  <2> DEFINE st == [Advanced(r) EXCEPT !.last = "fault"]
  <2>1. st \in LoopType
    <3>1. Advanced(r) \in LoopType
      BY AdvancedType
    <3> QED BY <3>1 DEF LoopType
  <2>2. /\ KeepRest /\ MarkKeyFailed(claim[r], "other")
        /\ Scan(r, st, Unclaimed(r), breaker)
    BY <1>8 DEF Broken
  <2>3. Handed(r, st, Unclaimed(r), breaker)
    BY <1>0, <1>3, <2>1
  <2> HIDE DEF st
  <2>4. HealthOK' /\ ceiling' \in [Key -> FloorRpm..MaxRpm]
    BY <1>2, <2>2, ClaimReleased, HealthMarked DEF Status
  <2>5. RequestsOK'
    BY <2>2, <2>3, <2>4, ScanOK DEF KeepRest
  <2> QED BY <2>2, <2>4, <2>5, RequestStep
<1>9. ASSUME NEW s \in ErrorStatus, ReplyError(r, s)
      PROVE  IndInv'
  <2>1. pc' \in [Request -> States] /\ claim' \in [Request -> Key \cup {None}]
    BY <1>0, <1>9 DEF ReplyError, IndInv, TypeOK, States, Awaiting
  <2>2. loop' \in [Request -> LoopType]
    <3>1. [loop[r] EXCEPT !.last = s] \in LoopType
      BY <1>0 DEF LoopType
    <3> QED BY <1>0, <1>9, <3>1 DEF ReplyError
  <2>3. inFlight' \in [Key -> Nat] /\ Fits(inFlight, claim)'
    <3>1. keys' = keys /\ inFlight' = Unclaimed(r)
          /\ claim' = [claim EXCEPT ![r] = None]
      BY <1>9 DEF ReplyError
    <3> QED BY <1>2, <3>1, ClaimReleased, FitsNext
  <2>4. ClaimsMatchState'
    <3>1. pc'[r] = "answered" /\ claim'[r] = None
      BY <1>0, <1>9 DEF ReplyError, IndInv, TypeOK
    <3>2. /\ loop'[r].attempts = loop[r].attempts
          /\ loop'[r].pos = loop[r].pos /\ loop'[r].cand = loop[r].cand
      BY <1>0, <1>9 DEF ReplyError, LoopType
    <3>3. \A q \in Request \ {r} :
            pc'[q] = pc[q] /\ loop'[q] = loop[q] /\ claim'[q] = claim[q]
      BY <1>0, <1>9 DEF ReplyError, IndInv, TypeOK
    <3>4. gone' = gone
      BY <1>9 DEF ReplyError
    <3> QED BY <1>1, <3>1, <3>2, <3>3, <3>4 DEF IndInv, ClaimsMatchState
  <2> QED BY <1>9, <2>1, <2>2, <2>3, <2>4
          DEF ReplyError, IndInv, TypeOK, PoolTypeOK, healthVars, RpmRespected, InOrder
<1> QED BY <1>4, <1>5, <1>6, <1>7, <1>8, <1>9 DEF Answer

\* What the loop does with an error status.
LEMMA HandleInv ==
  ASSUME IndInv, NEW r \in Request, Handle(r)
  PROVE  IndInv'
<1> USE RotationSizes, BreakerSizes
<1>0. /\ pc \in [Request -> States] /\ loop \in [Request -> LoopType]
      /\ breaker \in BreakerType
  BY DEF IndInv, TypeOK
<1>1. pc[r] = "answered"
  BY DEF Handle, Exhausted, Rejected, GatewayTimeout, KeyFault
<1>2. claim[r] = None
  BY <1>1 DEF IndInv, ClaimsMatchState
<1>3. ASSUME NEW st \in LoopType, NEW b \in BreakerType
      PROVE  Handed(r, st, inFlight, b)
  BY <1>2, NothingToRelease DEF Handed
<1>4. loop[r] \in LoopType /\ Advanced(r) \in LoopType
      /\ Advanced(r).attempts = loop[r].attempts
      /\ Advanced(r).waits = loop[r].waits
  BY AdvancedType
<1>5. loop[r].attempts - 1 \in 0..MaxAttempts
  <2>1. loop[r].attempts \in 1..MaxAttempts
    BY <1>1, CurrentType
  <2> QED BY <2>1
<1>6. Current(r) \in Key
  BY <1>1, CurrentType
<1>7. CASE Exhausted(r)
  <2> DEFINE st == [Advanced(r) EXCEPT !.waits = @ + 1]
             back == [st EXCEPT !.attempts = @ - 1]
  <2>1. KeepHealth /\ KeepRest
    BY <1>7 DEF Exhausted
  <2>2. loop[r].waits \in 0..(MaxExhaustedWaits + 1) /\ st.waits = loop[r].waits + 1
    BY <1>4 DEF LoopType
  <2>3. CASE st.waits > MaxExhaustedWaits
    <3>1. GiveUp(r, st, inFlight, breaker)
      BY <1>7, <2>3 DEF Exhausted
    <3>2. GiveUp(r, Advanced(r), inFlight, breaker)
      BY <1>4, <3>1 DEF GiveUp, LoopType
    <3>3. RequestsOK'
      BY <1>0, <1>3, <1>4, <2>1, <3>2, GiveUpOK DEF KeepRest
    <3> QED BY <2>1, <3>3, HealthKept, RequestStep
  <2>4. CASE ~(st.waits > MaxExhaustedWaits)
    <3>1. Sleep(r, back, "backoff", inFlight, breaker)
      BY <1>7, <2>4 DEF Exhausted
    <3>2. back \in LoopType
      <4>1. loop[r].waits + 1 \in 0..(MaxExhaustedWaits + 1)
        <5> HIDE DEF st
        <5> QED BY <2>2, <2>4
      <4>2. st \in LoopType /\ st.attempts = loop[r].attempts
        BY <1>4, <4>1 DEF LoopType
      <4> HIDE DEF st
      <4> QED BY <1>5, <4>2 DEF LoopType
    <3>3. Handed(r, back, inFlight, breaker)
      BY <1>0, <1>3, <3>2
    <3> HIDE DEF back
    <3>4. RequestsOK'
      BY <2>1, <3>1, <3>3, SleepOK DEF KeepRest
    <3> QED BY <2>1, <3>4, HealthKept, RequestStep
  <2> QED BY <2>3, <2>4
<1>8. CASE Rejected(r)
  <2>1. /\ KeepHealth /\ KeepRest
        /\ GiveUp(r, loop[r], inFlight, AfterFailure(breaker))
    BY <1>8 DEF Rejected
  <2>2. RequestsOK'
    BY <1>0, <1>3, <1>4, <2>1, BreakerTypes, GiveUpOK DEF KeepRest
  <2> QED BY <2>1, <2>2, HealthKept, RequestStep
<1>9. CASE GatewayTimeout(r)
  <2> DEFINE back == [Advanced(r) EXCEPT !.attempts = @ - 1]
  <2>1. /\ KeepRest /\ MarkKeyFailed(Current(r), "other")
        /\ Scan(r, back, inFlight, AfterFailure(breaker))
    BY <1>9 DEF GatewayTimeout
  <2>2. back \in LoopType
    BY <1>4, <1>5 DEF LoopType
  <2>3. Handed(r, back, inFlight, AfterFailure(breaker))
    BY <1>0, <1>3, <2>2, BreakerTypes
  <2> HIDE DEF back
  <2>4. HealthOK' /\ ceiling' \in [Key -> FloorRpm..MaxRpm]
    BY <1>6, <2>1, HealthMarked DEF Status
  <2>5. RequestsOK'
    BY <2>1, <2>3, <2>4, ScanOK DEF KeepRest
  <2> QED BY <2>1, <2>4, <2>5, RequestStep
<1>10. CASE KeyFault(r)
  <2>1. /\ KeepRest /\ MarkKeyFailed(Current(r), loop[r].last)
        /\ Scan(r, Advanced(r), inFlight, AfterFailure(breaker))
        /\ loop[r].last \in Status
    BY <1>10 DEF KeyFault, Status
  <2>2. Handed(r, Advanced(r), inFlight, AfterFailure(breaker))
    BY <1>0, <1>3, <1>4, BreakerTypes
  <2>3. HealthOK' /\ ceiling' \in [Key -> FloorRpm..MaxRpm]
    BY <1>6, <2>1, HealthMarked
  <2>4. RequestsOK'
    BY <2>1, <2>2, <2>3, ScanOK DEF KeepRest
  <2> QED BY <2>1, <2>3, <2>4, RequestStep
<1> QED BY <1>7, <1>8, <1>9, <1>10 DEF Handle

\* The ends of a request.
LEMMA LeaveInv ==
  ASSUME IndInv, NEW r \in Request, ServeEnd(r) \/ UnreadableReply(r) \/ HangUp(r)
  PROVE  IndInv'
<1> USE RotationSizes, BreakerSizes
<1>0. /\ pc \in [Request -> States] /\ loop \in [Request -> LoopType]
      /\ breaker \in BreakerType /\ claim \in [Request -> Key \cup {None}]
  BY DEF IndInv, TypeOK
<1>1. ASSUME Finish(r) PROVE IndInv'
  <2>1. inFlight' \in [Key -> Nat] /\ Fits(inFlight, claim)'
    <3>1. keys' = keys /\ claim' = [claim EXCEPT ![r] = None]
          /\ inFlight' = IF claim[r] = None THEN inFlight ELSE Unclaimed(r)
      BY <1>1 DEF Finish
    <3>2. CASE claim[r] = None
      BY <3>1, <3>2, NothingToRelease, FitsNext
    <3>3. CASE claim[r] # None
      BY <3>1, <3>3, ClaimReleased, FitsNext
    <3> QED BY <3>2, <3>3
  <2>2. /\ pc' \in [Request -> States] /\ loop' \in [Request -> LoopType]
        /\ claim' \in [Request -> Key \cup {None}]
    BY <1>0, <1>1, FreshLoopType DEF Finish, States
  <2>3. ClaimsMatchState'
    BY <1>0, <1>1 DEF Finish, IndInv, ClaimsMatchState
  <2> QED BY <1>1, <2>1, <2>2, <2>3
          DEF Finish, IndInv, TypeOK, PoolTypeOK, healthVars, RpmRespected, InOrder
<1>2. CASE UnreadableReply(r)
  <2>1. ClaimsMatchState'
    BY <1>0, <1>2 DEF UnreadableReply, KeepPool, IndInv, ClaimsMatchState
  <2> QED BY <1>0, <1>2, <2>1, MoveInv DEF UnreadableReply, States
<1>3. ASSUME Route[r] = "responses", gone' = [gone EXCEPT ![r] = TRUE],
             UNCHANGED <<poolVars, pc, claim, loop, breaker, probe>>
      PROVE  IndInv'
  <2>1. gone' \in [Request -> BOOLEAN]
    BY <1>3 DEF IndInv, TypeOK
  <2>2. ClaimsMatchState'
    BY <1>3 DEF IndInv, TypeOK, ClaimsMatchState
  <2>3. Fits(inFlight, claim)'
    BY <1>3 DEF poolVars, IndInv, Fits, Pool
  <2> QED BY <1>3, <2>1, <2>2, <2>3
          DEF IndInv, TypeOK, PoolTypeOK, poolVars, healthVars, RpmRespected, InOrder
<1> QED BY <1>1, <1>2, <1>3 DEF ServeEnd, HangUp

\* Steps of the pool alone: no load rises, no send is added, and a key that is
\* no longer held carries no load.
LEMMA PoolStepInv ==
  ASSUME IndInv, OnlyPool, PoolTypeOK', probe' \in [Probers -> SUBSET Key],
         \A k \in Key : /\ inFlight'[k] <= inFlight[k]
                        /\ k \notin Pool' => inFlight'[k] = 0
                        /\ InOrder(window'[k]) /\ Len(window'[k]) <= Len(window[k])
  PROVE  IndInv'
<1>1. ClaimsMatchState'
  BY DEF OnlyPool, IndInv, ClaimsMatchState
<1>2. Fits(inFlight, claim)'
  <2> SUFFICES ASSUME NEW k \in Key
               PROVE  inFlight'[k] <= Cardinality({r \in Request : claim[r] = k})
    BY DEF Fits, OnlyPool
  <2>1. inFlight[k] <= Cardinality({r \in Request : claim[r] = k})
    BY DEF IndInv, Fits
  <2>2. Cardinality({r \in Request : claim[r] = k}) \in Nat
    BY RotationSizes, FS_Subset, FS_CardinalityType
  <2>3. inFlight[k] \in Nat /\ inFlight'[k] \in Nat /\ inFlight'[k] <= inFlight[k]
    BY DEF IndInv, TypeOK, PoolTypeOK
  <2> QED BY <2>1, <2>2, <2>3
<1>3. RpmRespected'
  <2> SUFFICES ASSUME NEW k \in Key PROVE Len(window'[k]) <= MaxRpm
    BY DEF RpmRespected
  <2>1. Len(window[k]) <= MaxRpm /\ Len(window'[k]) <= Len(window[k])
    BY DEF IndInv, RpmRespected
  <2>2. Len(window[k]) \in Nat /\ Len(window'[k]) \in Nat
    BY DEF IndInv, TypeOK, PoolTypeOK
  <2> QED BY PoolSizes, <2>1, <2>2
<1> QED BY <1>1, <1>2, <1>3 DEF OnlyPool, IndInv, TypeOK

\* Edits of the pool: a key that leaves takes its load with it.
LEMMA SetKeysInv ==
  ASSUME IndInv, OnlyPool, probe' = probe, NEW ks \in Seq(Key), SetKeys(ks)
  PROVE  IndInv'
<1> USE PoolSizes
<1>0. PoolTypeOK /\ Fits(inFlight, claim) /\ \A k \in Key : InOrder(window[k])
  BY DEF IndInv, TypeOK
<1>1. PoolTypeOK'
  <2>1. /\ keys' \in Seq(Key)
        /\ strikes' \in [Key -> Nat] /\ throttle' \in Nat
    BY <1>0 DEF SetKeys, PoolTypeOK
  <2>5. valid' \in [Key -> BOOLEAN]
    BY <1>0 DEF SetKeys, PoolTypeOK
  <2>6. inFlight' \in [Key -> Nat]
    BY <1>0 DEF SetKeys, PoolTypeOK
  <2>7. fails' \in [Key -> 0..FailCap]
    <3>1. 0 \in 0..FailCap
      OBVIOUS
    <3> QED BY <1>0, <3>1 DEF SetKeys, PoolTypeOK
  <2>2. NoCooldown \in [left : Nat, status : Status]
    BY DEF NoCooldown, Status
  <2>3. cooldown' \in [Key -> [left : Nat, status : Status]]
    BY <1>0, <2>2 DEF SetKeys, PoolTypeOK
  <2>4. window' \in [Key -> Seq(1..RpmWindow)]
    <3>1. <<>> \in Seq(1..RpmWindow)
      OBVIOUS
    <3> QED BY <1>0, <3>1 DEF SetKeys, PoolTypeOK
  <2>8. ceiling' \in [Key -> FloorRpm..MaxRpm]
    <3>1. MaxRpm \in FloorRpm..MaxRpm
      OBVIOUS
    <3> QED BY <1>0, <3>1 DEF SetKeys, PoolTypeOK
  <2> QED BY <2>1, <2>3, <2>4, <2>5, <2>6, <2>7, <2>8 DEF PoolTypeOK
<1>2. ASSUME NEW k \in Key
      PROVE  /\ inFlight'[k] <= inFlight[k]
             /\ k \notin Pool' => inFlight'[k] = 0
  <2>1. Pool' = {ks[i] : i \in DOMAIN ks}
    BY DEF SetKeys, Pool
  <2>2. inFlight'[k] = IF k \in Pool' \cap Pool THEN inFlight[k] ELSE 0
    BY <2>1 DEF SetKeys
  <2>3. inFlight[k] \in Nat
    BY <1>0 DEF PoolTypeOK
  <2> QED BY <2>2, <2>3
<1>3. ASSUME NEW k \in Key
      PROVE  InOrder(window'[k]) /\ Len(window'[k]) <= Len(window[k])
  <2>1. window'[k] = window[k] \/ window'[k] = <<>>
    BY DEF SetKeys
  <2>2. InOrder(<<>>)
    BY DEF InOrder
  <2>3. window[k] \in Seq(1..RpmWindow)
    BY <1>0 DEF PoolTypeOK
  <2> QED BY <1>0, <2>1, <2>2, <2>3
<1>4. probe' \in [Probers -> SUBSET Key]
  BY DEF IndInv, TypeOK
<1> QED BY <1>1, <1>2, <1>3, <1>4, PoolStepInv

\* Health checks, edits of the pool and the clock.
LEMMA EnvironmentInv ==
  ASSUME IndInv, Environment
  PROVE  IndInv'
<1> USE RotationSizes, BreakerSizes, PoolSizes, Durations
<1>0. /\ PoolTypeOK /\ Fits(inFlight, claim) /\ \A k \in Key : InOrder(window[k])
      /\ breaker \in BreakerType /\ probe \in [Probers -> SUBSET Key]
  BY DEF IndInv, TypeOK
<1>1. Pool \subseteq Key
  BY <1>0, PoolFinite DEF PoolTypeOK
<1>2. \A k \in Key : /\ inFlight[k] \in Nat /\ (k \notin Pool => inFlight[k] = 0)
                     /\ Len(window[k]) \in Nat
  <2> TAKE k \in Key
  <2>1. inFlight[k] \in Nat /\ window[k] \in Seq(1..RpmWindow)
    BY <1>0 DEF PoolTypeOK
  <2>2. k \notin Pool => inFlight[k] = 0
    BY <1>0 DEF Fits
  <2> QED BY <2>1, <2>2
<1>3. ASSUME NEW p \in Probers, ProbeStart(p) PROVE IndInv'
  <2>1. PoolTypeOK'
    <3>1. fails' \in [Key -> 0..FailCap]
      BY <1>0, <1>3 DEF ProbeStart, Decay, Less, PoolTypeOK
    <3> QED BY <1>0, <1>3, <3>1 DEF ProbeStart, PoolTypeOK
  <2>2. probe' \in [Probers -> SUBSET Key]
    BY <1>0, <1>1, <1>3 DEF ProbeStart, ProbeTargets
  <2>3. OnlyPool /\ inFlight' = inFlight /\ window' = window /\ Pool' = Pool
    BY <1>3 DEF ProbeStart, Pool
  <2> QED BY <1>0, <1>2, <2>1, <2>2, <2>3, PoolStepInv
<1>4. ASSUME NEW p \in Probers, ProbeEnd(p) PROVE IndInv'
  <2>1. PICK reachable \in SUBSET probe[p] :
          ApplyProbe(reachable, IF p = "prewarm" THEN probe[p] \ reachable ELSE {})
    BY <1>4 DEF ProbeEnd
  <2>2. PoolTypeOK'
    <3>1. NoCooldown \in [left : Nat, status : Status]
          /\ [left |-> Duration["other"], status |-> "other"] \in [left : Nat, status : Status]
      BY DEF NoCooldown, Status
    <3>2. cooldown' \in [Key -> [left : Nat, status : Status]]
      BY <1>0, <2>1, <3>1 DEF ApplyProbe, PoolTypeOK
    <3>3. fails' \in [Key -> 0..FailCap]
      <4>1. \A n \in 0..FailCap : Smaller(FailCap, n + 1) \in 0..FailCap
        BY DEF Smaller
      <4>2. 0 \in 0..FailCap
        OBVIOUS
      <4> QED BY <1>0, <2>1, <4>1, <4>2 DEF ApplyProbe, PoolTypeOK
    <3>4. valid' \in [Key -> BOOLEAN]
      BY <1>0, <2>1 DEF ApplyProbe, PoolTypeOK
    <3> QED BY <1>0, <2>1, <3>2, <3>3, <3>4 DEF ApplyProbe, PoolTypeOK
  <2>3. probe' \in [Probers -> SUBSET Key]
    BY <1>0, <1>4 DEF ProbeEnd
  <2>4. OnlyPool /\ inFlight' = inFlight /\ window' = window /\ Pool' = Pool
    BY <1>4, <2>1 DEF ProbeEnd, ApplyProbe, Pool
  <2> QED BY <1>0, <1>2, <2>2, <2>3, <2>4, PoolStepInv
<1>5. ASSUME NEW k \in EditableKeys, AddKey(k) PROVE IndInv'
  <2>1. Append(keys, k) \in Seq(Key)
    BY <1>0 DEF PoolTypeOK
  <2> QED BY <1>5, <2>1, SetKeysInv DEF AddKey
<1>6. ASSUME NEW k \in EditableKeys, RemoveKey(k) PROVE IndInv'
  <2>1. PICK i \in DOMAIN keys : SetKeys(Without(keys, i))
    BY <1>6 DEF RemoveKey
  <2>2. keys \in Seq(Key) /\ Len(keys) \in Nat /\ i \in 1..Len(keys)
    <3>1. keys \in Seq(Key)
      BY <1>0 DEF PoolTypeOK
    <3>2. i \in DOMAIN keys
      BY <2>1
    <3> QED BY <3>1, <3>2
  <2>3. Without(keys, i) \in Seq(Key)
    <3> DEFINE n == Len(keys) - 1
    <3>1. n \in Nat
      BY <2>2
    <3>2. \A j \in 1..n : j \in 1..Len(keys) /\ j + 1 \in 1..Len(keys)
      BY <2>2
    <3>3. Without(keys, i) \in [1..n -> Key]
      BY <2>2, <3>2 DEF Without
    <3> HIDE DEF n
    <3> QED BY <3>1, <3>3
  <2> QED BY <1>6, <2>1, <2>3, SetKeysInv DEF RemoveKey
<1>7. CASE Tick
  <2>1. \A k \in Key : /\ window'[k] = Aged(window[k])
                       /\ window'[k] \in Seq(1..RpmWindow)
                       /\ InOrder(window'[k]) /\ Len(window'[k]) <= Len(window[k])
    BY <1>0, <1>7, AgedType DEF Tick, PoolTick, PoolTypeOK
  <2>2. PoolTypeOK'
    <3>1. cooldown' \in [Key -> [left : Nat, status : Status]]
      <4>1. NoCooldown \in [left : Nat, status : Status]
        BY DEF NoCooldown, Status
      <4>2. ASSUME NEW c \in [left : Nat, status : Status], ~(c.left <= 1)
            PROVE  [c EXCEPT !.left = @ - 1] \in [left : Nat, status : Status]
        <5>1. c.left - 1 \in Nat
          BY <4>2
        <5> QED BY <5>1
      <4> QED BY <1>0, <1>7, <4>1, <4>2 DEF Tick, PoolTick, PoolTypeOK
    <3>2. window' \in [Key -> Seq(1..RpmWindow)]
      BY <1>7, <2>1 DEF Tick, PoolTick
    <3>3. strikes' \in [Key -> Nat] /\ throttle' \in Nat
      <4>1. \A n \in Nat : Less(n) \in Nat
        BY DEF Less
      <4> QED BY <1>0, <1>7, <4>1 DEF Tick, PoolTick, PoolTypeOK
    <3> QED BY <1>0, <1>7, <3>1, <3>2, <3>3 DEF Tick, PoolTick, PoolTypeOK
  <2>3. breaker' \in BreakerType
    BY <1>0, <1>7, BreakerTypes DEF Tick
  <2>4. /\ inFlight' = inFlight /\ Pool' = Pool /\ probe' = probe
        /\ pc' = pc /\ claim' = claim /\ loop' = loop /\ gone' = gone
    BY <1>7 DEF Tick, PoolTick, Pool
  <2>5. ClaimsMatchState' /\ Fits(inFlight, claim)'
    BY <2>4 DEF IndInv, ClaimsMatchState, Fits
  <2>6. RpmRespected'
    <3> SUFFICES ASSUME NEW k \in Key PROVE Len(window'[k]) <= MaxRpm
      BY DEF RpmRespected
    <3>1. window'[k] \in Seq(1..RpmWindow) /\ Len(window'[k]) <= Len(window[k])
      BY <2>1
    <3>2. Len(window[k]) <= MaxRpm /\ Len(window[k]) \in Nat
      BY <1>2 DEF IndInv, RpmRespected
    <3> QED BY <3>1, <3>2
  <2> QED BY <2>1, <2>2, <2>3, <2>4, <2>5, <2>6 DEF IndInv, TypeOK
<1> QED BY <1>3, <1>4, <1>5, <1>6, <1>7 DEF Environment

-----------------------------------------------------------------------------
(* The invariant, and what it is for.                                      *)

\* The induction.
LEMMA InitInv == Init => IndInv
<1> SUFFICES ASSUME Init PROVE IndInv
  OBVIOUS
<1> USE RotationSizes, BreakerSizes, PoolSizes, Durations
<1>1. keys \in Seq(Key) /\ Pool \subseteq Key
  <2>1. keys \in Seq(Key)
    BY DEF Init, PoolInit
  <2> QED BY <2>1, PoolFinite
<1>2. PoolTypeOK
  <2>1. NoCooldown \in [left : Nat, status : Status]
    BY DEF NoCooldown, Status
  <2>2. <<>> \in Seq(1..RpmWindow)
    OBVIOUS
  <2>3. MaxRpm \in FloorRpm..MaxRpm /\ 0 \in 0..FailCap
    OBVIOUS
  <2> QED BY <1>1, <2>1, <2>2, <2>3 DEF Init, PoolInit, PoolTypeOK
<1>3. TypeOK
  <2>1. breaker \in BreakerType
    BY BreakerTypes DEF Init
  <2>2. \A r \in Request : loop[r] \in LoopType
    BY FreshLoopType DEF Init
  <2>3. loop \in [Request -> LoopType]
    BY <2>2 DEF Init
  <2>4. probe \in [Probers -> SUBSET Key]
    BY <1>1 DEF Init
  <2> QED BY <1>2, <2>1, <2>3, <2>4 DEF Init, TypeOK, States
<1>4. ClaimsMatchState
  BY DEF Init, ClaimsMatchState
<1>5. Fits(inFlight, claim)
  <2> SUFFICES ASSUME NEW k \in Key
               PROVE  /\ inFlight[k] <= Cardinality({r \in Request : claim[r] = k})
                      /\ inFlight[k] = 0
    BY DEF Fits
  <2>1. {r \in Request : claim[r] = k} = {}
    BY DEF Init
  <2>2. Cardinality({r \in Request : claim[r] = k}) = 0
    BY <2>1, FS_EmptySet
  <2>3. inFlight[k] = 0
    BY DEF Init, PoolInit
  <2> QED BY <2>2, <2>3
<1>6. \A k \in Key : InOrder(window[k]) /\ Len(window[k]) <= MaxRpm
  <2>1. InOrder(<<>>) /\ Len(<<>>) = 0
    BY DEF InOrder
  <2> QED BY <2>1 DEF Init, PoolInit
<1> QED BY <1>3, <1>4, <1>5, <1>6 DEF IndInv, RpmRespected

\* The induction step.
LEMMA NextInv == IndInv /\ [Next]_vars => IndInv'
<1> SUFFICES ASSUME IndInv, [Next]_vars PROVE IndInv'
  OBVIOUS
<1>1. ASSUME NEW r \in Request, Arrive(r) PROVE IndInv'
  BY <1>1, ArriveInv
<1>2. ASSUME NEW r \in Request, Proceed(r) PROVE IndInv'
  BY <1>2, WaitingInv, AnswerInv, HandleInv DEF Proceed
<1>3. ASSUME NEW r \in Request, ServeEnd(r) \/ UnreadableReply(r) \/ HangUp(r)
      PROVE  IndInv'
  BY <1>3, LeaveInv
<1>4. CASE Environment
  BY <1>4, EnvironmentInv
<1>5. CASE UNCHANGED vars
  BY <1>5 DEF vars, poolVars, healthVars, IndInv, TypeOK, PoolTypeOK,
              ClaimsMatchState, Fits, Pool, RpmRespected
<1> QED BY <1>1, <1>2, <1>3, <1>4, <1>5 DEF Next

\* Every reachable state satisfies the inductive invariant.
THEOREM Inductive == Spec => []IndInv
<1> QED BY InitInv, NextInv, PTL DEF Spec

\* The state keeps its types: in particular a rotation phase never makes more
\* than MaxAttempts attempts, and never refunds one it has not made.
THEOREM TypeCorrect == Spec => []TypeOK
<1>1. IndInv => TypeOK
  BY DEF IndInv
<1> QED BY <1>1, Inductive, PTL

\* A key is never charged with more requests than hold a claim on it, whatever
\* happens to the requests and whatever keys are removed and added back.
THEOREM LoadIsHeld == Spec => []NoPhantomLoad
<1>1. IndInv => NoPhantomLoad
  BY DEF IndInv, Fits, NoPhantomLoad, Holders
<1> QED BY <1>1, Inductive, PTL

\* The attempts recorded for a key (record_request, before every attempt; the
\* resends after a GOAWAY are not recorded) never exceed MAX_RPM in a window.
THEOREM RpmBound == Spec => []RpmRespected
<1>1. IndInv => RpmRespected
  BY DEF IndInv
<1> QED BY <1>1, Inductive, PTL

\* On the catch-all and /v1/messages routes every way out of a request gives
\* its claim back, and no request sends or relays without one.
THEOREM DirectRoutesRelease ==
  ASSUME \A r \in Request : Route[r] \in {"catchall", "anthropic"}
  PROVE  Spec => []ClaimsReleased
<1>1. IndInv => ClaimsReleased
  <2> SUFFICES ASSUME IndInv, NEW r \in Request
               PROVE  claim[r] # None <=> pc[r] \in {"claimed", "sending", "serving"}
    BY DEF ClaimsReleased
  <2>1. pc[r] \in States
    BY DEF IndInv, TypeOK
  <2> QED BY <2>1 DEF IndInv, ClaimsMatchState, States, Awaiting
<1> QED BY <1>1, Inductive, PTL
-----------------------------------------------------------------------------
(* The semaphore, and the pause.                                           *)

\* Where a request goes from one step to the next: to the upstream only through
\* the semaphore, and to a new key only through Take.
Passage(r) == /\ pc' = [pc EXCEPT ![r] = "sending"]
              /\ Cardinality(OnWire \ {r}) < SemCap

Held(r) == claim'[r] \notin {claim[r], None}
              => throttle' = 0 /\ cooldown'[claim'[r]].left = 0

OneMoves(r) ==
  /\ \/ Passage(r)
     \/ \E place \in States \ {"sending"} : pc' = [pc EXCEPT ![r] = place]
  /\ \A q \in Request \ {r} : claim'[q] = claim[q]
  /\ Held(r)

\* A request that gives its claim back, or keeps it, and is not sent.
LEMMA RestMoves ==
  ASSUME TypeOK, NEW r \in Request,
         claim' = claim \/ claim' = [claim EXCEPT ![r] = None],
         NEW place \in States \ {"sending"}, pc' = [pc EXCEPT ![r] = place]
  PROVE  OneMoves(r)
BY DEF TypeOK, OneMoves, Held

\* Entering the semaphore, or queueing for it.
LEMMA NextSendMoves ==
  ASSUME NEW r \in Request, pc' = [pc EXCEPT ![r] = NextSend(r)]
  PROVE  Passage(r) \/ pc' = [pc EXCEPT ![r] = "claimed"]
BY DEF NextSend, Passage

LEMMA ScanMoves ==
  ASSUME TypeOK, throttle' \in Nat, NEW r \in Request, NEW st, NEW load, NEW b,
         Scan(r, st, load, b)
  PROVE  OneMoves(r)
<1> USE DEF States, Awaiting
<1>1. ASSUME NEW s2, GiveUp(r, s2, load, b)
      PROVE  OneMoves(r)
  BY <1>1, RestMoves DEF GiveUp
<1>2. ASSUME Sleep(r, NextPass(st), "pausing", load, b)
      PROVE  OneMoves(r)
  BY <1>2, RestMoves DEF Sleep
<1>3. ASSUME NEW j \in 1..Len(st.cand), j >= st.pos, ~Paused,
             Free(st.cand[j]), Take(r, st, load, b, j)
      PROVE  OneMoves(r)
  <2>1. claim' = [claim EXCEPT ![r] = st.cand[j]]
    BY <1>3 DEF Take
  <2>2. throttle' = 0 /\ cooldown'[st.cand[j]].left = 0
    BY <1>3 DEF Paused, Free
  <2>3. Held(r) /\ \A q \in Request \ {r} : claim'[q] = claim[q]
    BY <2>1, <2>2 DEF TypeOK, Held
  <2>4. Passage(r) \/ pc' = [pc EXCEPT ![r] = "claimed"]
    BY <1>3, NextSendMoves DEF Take
  <2> QED BY <2>3, <2>4 DEF OneMoves
<1>4. \/ \E s2 : GiveUp(r, s2, load, b)
      \/ Sleep(r, NextPass(st), "pausing", load, b)
      \/ \E j \in 1..Len(st.cand) : /\ j >= st.pos /\ ~Paused
                                    /\ Free(st.cand[j]) /\ Take(r, st, load, b, j)
  BY DEF Scan
<1> QED BY <1>1, <1>2, <1>3, <1>4

\* Whatever happens moves one request, or none.
LEMMA NextMoves ==
  ASSUME TypeOK, throttle' \in Nat, [Next]_vars
  PROVE  \/ UNCHANGED <<pc, claim>>
         \/ \E r \in Request : OneMoves(r)
<1> USE DEF States, Awaiting
<1>1. ASSUME NEW r \in Request, Arrive(r)
      PROVE  OneMoves(r)
  <2>1. CASE \E st, load, b : Scan(r, st, load, b)
    BY <2>1, ScanMoves
  <2>2. CASE \E place \in {"done", "admitted", "hopping"} :
               pc' = [pc EXCEPT ![r] = place] /\ UNCHANGED claim
    BY <2>2, RestMoves
  <2> QED BY <1>1, <2>1, <2>2 DEF Arrive, Refuse, Admit, StartBarred, StartDirect, StartTask, TurnAway, KeepPool
<1>2. ASSUME NEW r \in Request, Resume(r) \/ TooSlow(r) \/ Broken(r) \/ GatewayTimeout(r) \/ KeyFault(r)
      PROVE  OneMoves(r)
  BY <1>2, ScanMoves DEF Resume, TooSlow, Broken, GatewayTimeout, KeyFault
<1>3. ASSUME NEW r \in Request, Send(r)
      PROVE  OneMoves(r)
  <2>1. OnWire \ {r} = OnWire
    BY <1>3 DEF Send, OnWire
  <2>2. Passage(r) /\ UNCHANGED claim
    BY <1>3, <2>1 DEF Send, Passage, KeepPool
  <2> QED BY <2>2 DEF OneMoves, Held
<1>4. ASSUME NEW r \in Request, Goaway(r)
      PROVE  OneMoves(r)
  <2>1. (Passage(r) \/ pc' = [pc EXCEPT ![r] = "claimed"]) /\ UNCHANGED claim
    BY <1>4, NextSendMoves DEF Goaway, KeepPool
  <2> QED BY <2>1 DEF OneMoves, Held
<1>5. ASSUME NEW r \in Request,
             ReplyOk(r) \/ (\E s \in ErrorStatus \cap Replies : ReplyError(r, s)) \/ Rejected(r)
               \/ Exhausted(r) \/ NoConnection(r) \/ ServeEnd(r) \/ UnreadableReply(r)
      PROVE  OneMoves(r)
  <2>1. /\ claim' = claim \/ claim' = [claim EXCEPT ![r] = None]
        /\ \E place \in {"done", "serving", "answered", "backoff"} : pc' = [pc EXCEPT ![r] = place]
    BY <1>5 DEF ReplyOk, ReplyError, Rejected, Exhausted, NoConnection, ServeEnd,
                UnreadableReply, Finish, GiveUp, Sleep, KeepPool
  <2> QED BY <2>1, RestMoves
<1>6. ASSUME NEW r \in Request, HangUp(r)
      PROVE  UNCHANGED <<pc, claim>> \/ OneMoves(r)
  <2>1. CASE Finish(r)
    BY <2>1, RestMoves DEF Finish
  <2> QED BY <1>6, <2>1 DEF HangUp
<1>7. CASE Environment
  BY <1>7 DEF Environment, ProbeStart, ProbeEnd, AddKey, RemoveKey, Tick, OnlyPool
<1>8. CASE UNCHANGED vars
  BY <1>8 DEF vars
<1> QED BY <1>1, <1>2, <1>3, <1>4, <1>5, <1>6, <1>7, <1>8 DEF Next, Proceed, Answer, Handle

\* However many requests there are, and whatever the cap, the sends under way
\* that wait for their headers are never more than it allows.
THEOREM SemaphoreHolds == Spec => []SemaphoreRespected
<1>1. Init => SemaphoreRespected
  <2> SUFFICES ASSUME Init PROVE SemaphoreRespected
    OBVIOUS
  <2>1. OnWire = {}
    BY DEF Init, OnWire
  <2> QED BY <2>1, FS_EmptySet, RotationSizes DEF SemaphoreRespected
<1>2. IndInv /\ IndInv' /\ SemaphoreRespected /\ [Next]_vars => SemaphoreRespected'
  <2> SUFFICES ASSUME IndInv, IndInv', SemaphoreRespected, [Next]_vars PROVE SemaphoreRespected'
    OBVIOUS
  <2>1. /\ TypeOK /\ throttle' \in Nat /\ pc \in [Request -> States]
        /\ SemCap \in Nat \ {0}
    BY RotationSizes DEF IndInv, TypeOK, PoolTypeOK
  <2>2. IsFiniteSet(OnWire) /\ Cardinality(OnWire) \in Nat
    BY RotationSizes, FS_Subset, FS_CardinalityType DEF OnWire
  <2>3. CASE UNCHANGED pc
    BY <2>3 DEF SemaphoreRespected, OnWire
  <2>4. ASSUME NEW r \in Request, Passage(r)
        PROVE  SemaphoreRespected'
    <3>1. OnWire' = (OnWire \ {r}) \cup {r}
      BY <2>1, <2>4 DEF Passage, OnWire
    <3>2. IsFiniteSet(OnWire \ {r}) /\ Cardinality(OnWire \ {r}) \in Nat
      BY <2>2, FS_Subset, FS_CardinalityType
    <3>3. Cardinality((OnWire \ {r}) \cup {r}) = Cardinality(OnWire \ {r}) + 1
      BY <3>2, FS_AddElement
    <3> QED BY <2>1, <2>4, <3>1, <3>2, <3>3 DEF Passage, SemaphoreRespected
  <2>5. ASSUME NEW r \in Request, NEW place \in States \ {"sending"},
               pc' = [pc EXCEPT ![r] = place]
        PROVE  SemaphoreRespected'
    <3>1. OnWire' \subseteq OnWire
      BY <2>1, <2>5 DEF OnWire
    <3>2. Cardinality(OnWire') \in Nat /\ Cardinality(OnWire') <= Cardinality(OnWire)
      BY <2>2, <3>1, FS_Subset, FS_CardinalityType
    <3> QED BY <2>1, <2>2, <3>2 DEF SemaphoreRespected
  <2> QED BY <2>1, <2>3, <2>4, <2>5, NextMoves DEF OneMoves
<1> QED BY <1>1, <1>2, Inductive, PTL DEF Spec

\* Whatever the pool and the requests, no request begins to hold a key that is
\* cooling down, and none does while the pool is paused.
THEOREM PausesHold == Spec => NoClaimWhilePaused
<1>1. IndInv /\ IndInv' /\ [Next]_vars =>
        [\A r \in Request :
           claim'[r] \notin {claim[r], None}
           => throttle' = 0 /\ cooldown'[claim'[r]].left = 0]_vars
  <2> SUFFICES ASSUME IndInv, IndInv', [Next]_vars, NEW r \in Request,
                      claim'[r] \notin {claim[r], None}
               PROVE  throttle' = 0 /\ cooldown'[claim'[r]].left = 0
    OBVIOUS
  <2>1. TypeOK /\ throttle' \in Nat
    BY DEF IndInv, TypeOK, PoolTypeOK
  <2>2. PICK q \in Request : OneMoves(q)
    BY <2>1, NextMoves
  <2> QED BY <2>2 DEF OneMoves, Held
<1> QED BY <1>1, Inductive, PTL DEF Spec, NoClaimWhilePaused

-----------------------------------------------------------------------------
(* What Rotation promises of its choices, which key a phase takes first and *)
(* who is blamed for a failure; first, who moves.                          *)

\* A step of r leaves the other requests where they are.
OnlyMoves(r) ==
  \A q \in Request \ {r} :
    pc'[q] = pc[q] /\ claim'[q] = claim[q] /\ loop'[q] = loop[q]

\* What can happen to one request.
Step(r) ==
  Arrive(r) \/ Proceed(r) \/ ServeEnd(r) \/ UnreadableReply(r) \/ HangUp(r)

LEMMA ScanOnlyMoves ==
  ASSUME TypeOK, NEW r \in Request, NEW st, NEW load, NEW b,
         Scan(r, st, load, b)
  PROVE  OnlyMoves(r)
<1>1. ASSUME NEW s2, GiveUp(r, s2, load, b)
      PROVE  OnlyMoves(r)
  BY <1>1 DEF GiveUp, OnlyMoves, TypeOK
<1>2. ASSUME Sleep(r, NextPass(st), "pausing", load, b)
      PROVE  OnlyMoves(r)
  BY <1>2 DEF Sleep, OnlyMoves, TypeOK
<1>3. ASSUME NEW j, Take(r, st, load, b, j)
      PROVE  OnlyMoves(r)
  BY <1>3 DEF Take, OnlyMoves, TypeOK
<1>4. \/ \E s2 : GiveUp(r, s2, load, b)
      \/ Sleep(r, NextPass(st), "pausing", load, b)
      \/ \E j : Take(r, st, load, b, j)
  BY DEF Scan
<1> QED BY <1>1, <1>2, <1>3, <1>4

LEMMA StepOnlyMoves ==
  ASSUME TypeOK, NEW r \in Request, Step(r)
  PROVE  OnlyMoves(r)
<1>1. CASE \E st, load, b : Scan(r, st, load, b)
  BY <1>1, ScanOnlyMoves
<1>2. CASE Refuse(r) \/ Admit(r) \/ StartBarred(r) \/ StartTask(r)
  BY <1>2 DEF Refuse, Admit, StartBarred, StartTask, TurnAway, KeepPool, OnlyMoves, TypeOK
<1>3. CASE Send(r) \/ ReplyOk(r) \/ Goaway(r)
  BY <1>3 DEF Send, ReplyOk, Goaway, KeepPool, OnlyMoves, TypeOK
<1>4. CASE NoConnection(r) \/ Exhausted(r) \/ Rejected(r)
  BY <1>4 DEF NoConnection, Exhausted, Rejected, GiveUp, Sleep, OnlyMoves, TypeOK
<1>5. CASE \E s \in ErrorStatus \cap Replies : ReplyError(r, s)
  BY <1>5 DEF ReplyError, OnlyMoves, TypeOK
<1>6. CASE ServeEnd(r) \/ UnreadableReply(r) \/ HangUp(r)
  BY <1>6 DEF ServeEnd, UnreadableReply, HangUp, Finish, KeepPool, OnlyMoves, TypeOK
<1>7. CASE StartDirect(r) \/ Resume(r) \/ TooSlow(r) \/ Broken(r)
           \/ GatewayTimeout(r) \/ KeyFault(r)
  BY <1>1, <1>7 DEF StartDirect, Resume, TooSlow, Broken, GatewayTimeout, KeyFault
<1> QED BY <1>2, <1>3, <1>4, <1>5, <1>6, <1>7
        DEF Step, Arrive, Proceed, Answer, Handle

\* A request that is not where it was took a step.
LEMMA MoverSteps ==
  ASSUME TypeOK, [Next]_vars, NEW r \in Request,
         pc'[r] # pc[r] \/ claim'[r] # claim[r]
  PROVE  Step(r)
<1>1. ~Environment /\ ~UNCHANGED vars
  BY DEF Environment, ProbeStart, ProbeEnd, AddKey, RemoveKey, Tick, OnlyPool, vars
<1>2. PICK q \in Request : Step(q)
  BY <1>1 DEF Next, Step
<1> QED BY <1>2, StepOnlyMoves DEF OnlyMoves

-----------------------------------------------------------------------------
(* Full workers are no failure of the model.                               *)

\* Scan gives the model the failures it was handed, and the status it ends
\* with, or the pause of the pool's.
LEMMA ScanKeepsFailures ==
  ASSUME TypeOK, NEW r \in Request, NEW st \in LoopType, NEW load,
         NEW b \in BreakerType,
         Scan(r, st, load, b), loop'[r].last = "exhausted"
  PROVE  breaker' = b /\ st.last = "exhausted"
<1>1. ASSUME NEW s2 \in LoopType, GiveUp(r, s2, load, b)
      PROVE  s2.last = "exhausted" /\ breaker' = b
  <2>1. loop'[r] = [FreshLoop EXCEPT !.last = s2.last]
    BY <1>1 DEF GiveUp, TypeOK
  <2>2. s2.last = "exhausted"
    BY <2>1 DEF FreshLoop
  <2> QED BY <1>1, <2>2 DEF GiveUp
<1>2. CASE GiveUp(r, st, load, b)
  BY <1>1, <1>2
<1>3. CASE GiveUp(r, [st EXCEPT !.last = "rate"], load, b)
  <2>1. [st EXCEPT !.last = "rate"] \in LoopType
    BY DEF LoopType, ErrorStatus
  <2>2. [st EXCEPT !.last = "rate"].last = "rate"
    BY DEF LoopType
  <2> QED BY <1>1, <1>3, <2>1, <2>2
<1>4. CASE Sleep(r, NextPass(st), "pausing", load, b)
  <2>1. loop'[r] = NextPass(st) /\ NextPass(st).last = st.last
    BY <1>4 DEF Sleep, TypeOK, NextPass, LoopType
  <2> QED BY <1>4, <2>1 DEF Sleep
<1>5. ASSUME NEW j, Take(r, st, load, b, j)
      PROVE  breaker' = b /\ st.last = "exhausted"
  <2>1. loop'[r].last = st.last
    BY <1>5 DEF Take, TypeOK, LoopType
  <2> QED BY <1>5, <2>1 DEF Take
<1> QED BY <1>2, <1>3, <1>4, <1>5 DEF Scan

\* Reading the circuit never adds a failure.
LEMMA ReadFails ==
  ASSUME NEW b \in BreakerType
  PROVE  CircuitRead(b) \in BreakerType /\ CircuitRead(b).fails <= b.fails
<1>1. b.fails \in 0..(CircuitAfter + 1)
  BY DEF BreakerType
<1>2. CircuitRead(b) = b \/ CircuitRead(b) = AfterSuccess
  BY DEF CircuitRead
<1> QED BY <1>1, <1>2, BreakerTypes, BreakerSizes DEF AfterSuccess

\* However many requests share the model, a request whose last answer was that
\* the upstream's workers are full never counts it as a failure of the model,
\* neither in the loop nor when it gives up.
THEOREM FullWorkersForgiven == Spec => FullWorkersAreNoFailure
<1>1. IndInv /\ [Next]_vars =>
        [\A r \in Request :
           /\ loop[r].last = "exhausted" /\ loop'[r].last = "exhausted"
           /\ pc'[r] # pc[r]
           => breaker'.fails <= breaker.fails]_vars
  <2> SUFFICES ASSUME IndInv, [Next]_vars, NEW r \in Request,
                      loop[r].last = "exhausted", loop'[r].last = "exhausted",
                      pc'[r] # pc[r]
               PROVE  breaker'.fails <= breaker.fails
    OBVIOUS
  <2>1. /\ TypeOK /\ loop[r] \in LoopType
        /\ breaker \in BreakerType /\ breaker.fails \in Nat
    BY DEF IndInv, TypeOK, BreakerType
  <2>2. Step(r)
    BY <2>1, MoverSteps
  <2>3. CASE breaker' = breaker \/ breaker' = CircuitRead(breaker)
    BY <2>1, <2>3, ReadFails
  <2>4. ASSUME NEW st \in LoopType, NEW load, Scan(r, st, load, breaker)
        PROVE  breaker' = breaker
    BY <2>1, <2>4, ScanKeepsFailures
  <2>5. CASE StartDirect(r)
    <3>1. PICK c \in Candidates :
                 Scan(r, [FreshLoop EXCEPT !.cand = c], inFlight, BreakerSeen(r))
      BY <2>5 DEF StartDirect
    <3>2. c \in Seq(Key)
      BY <2>1, CandidatesType DEF TypeOK, PoolTypeOK
    <3>3. [FreshLoop EXCEPT !.cand = c] \in LoopType
      BY <3>2, FreshLoopType DEF LoopType
    <3>4. BreakerSeen(r) \in BreakerType
      BY <2>1, ReadFails DEF BreakerSeen
    <3>5. breaker' = BreakerSeen(r)
      BY <2>1, <3>1, <3>3, <3>4, ScanKeepsFailures
    <3> QED BY <2>3, <3>5 DEF BreakerSeen
  <2>6. CASE Resume(r)
    BY <2>1, <2>3, <2>4, <2>6 DEF Resume
  <2>7. CASE TooSlow(r)
    <3>0. Len(loop[r].cand) + 1 \in Nat
      BY <2>1 DEF LoopType
    <3>1. [loop[r] EXCEPT !.pos = Len(loop[r].cand) + 1, !.last = "fault"] \in LoopType
      BY <2>1, <3>0 DEF LoopType
    <3>2. [loop[r] EXCEPT !.pos = Len(loop[r].cand) + 1, !.last = "fault"].last # "exhausted"
      BY <2>1 DEF LoopType
    <3>3. AfterFailure(breaker) \in BreakerType
      BY <2>1, BreakerTypes
    <3> QED BY <2>1, <2>7, <3>1, <3>2, <3>3, ScanKeepsFailures DEF TooSlow
  <2>8. CASE NoConnection(r)
    <3> DEFINE st == [Advanced(r) EXCEPT !.net = @ + 1, !.last = "fault"]
    <3>1. st.last = "fault"
      BY AdvancedType DEF LoopType
    <3>2. GiveUp(r, st, Unclaimed(r), breaker) \/ Sleep(r, st, "backoff", Unclaimed(r), breaker)
      BY <2>8 DEF NoConnection
    <3>3. loop'[r].last = "fault"
      <4> HIDE DEF st
      <4> QED BY <2>1, <3>1, <3>2 DEF GiveUp, Sleep, TypeOK, FreshLoop
    <3> QED BY <3>3
  <2>9. CASE Broken(r)
    <3>1. [Advanced(r) EXCEPT !.last = "fault"] \in LoopType
      BY AdvancedType DEF LoopType
    <3>2. Scan(r, [Advanced(r) EXCEPT !.last = "fault"], Unclaimed(r), breaker)
      BY <2>9 DEF Broken
    <3> QED BY <2>3, <2>4, <3>1, <3>2
  <2>10. CASE Exhausted(r)
    <3> DEFINE st == [Advanced(r) EXCEPT !.waits = @ + 1]
    <3>1. st.last = "exhausted"
      BY <2>1, AdvancedType DEF Advanced, LoopType
    <3>2. \/ GiveUp(r, st, inFlight, breaker)
          \/ Sleep(r, [st EXCEPT !.attempts = @ - 1], "backoff", inFlight, breaker)
      BY <2>10 DEF Exhausted
    <3>3. breaker' = breaker
      <4> HIDE DEF st
      <4> QED BY <3>1, <3>2 DEF GiveUp, Sleep
    <3> QED BY <2>3, <3>3
  <2>11. CASE Refuse(r) \/ Admit(r) \/ StartBarred(r) \/ StartTask(r) \/ Send(r) \/ Goaway(r)
              \/ (\E s \in ErrorStatus \cap Replies : ReplyError(r, s))
              \/ ServeEnd(r) \/ UnreadableReply(r) \/ HangUp(r)
    <3>1. breaker' = breaker \/ breaker' = CircuitRead(breaker)
      BY <2>11 DEF Refuse, Admit, StartBarred, StartTask, Send, Goaway, ReplyError,
                   ServeEnd, UnreadableReply, HangUp, Finish
    <3> QED BY <2>3, <3>1
  <2>12. CASE ReplyOk(r)
    BY <2>1, <2>12 DEF ReplyOk, FreshLoop, TypeOK
  <2>13. ~Rejected(r) /\ ~GatewayTimeout(r) /\ ~KeyFault(r)
    BY DEF Rejected, GatewayTimeout, KeyFault
  <2> QED BY <2>2, <2>5, <2>6, <2>7, <2>8, <2>9, <2>10, <2>11, <2>12, <2>13
          DEF Step, Arrive, Proceed, Answer, Handle
<1> QED BY <1>1, Inductive, PTL DEF Spec, FullWorkersAreNoFailure

-----------------------------------------------------------------------------
(* The cheapest key first.                                                 *)

\* While a key can be sent with, the candidates are all the keys that are not
\* cooling down, by increasing cost.
LEMMA CheapestAhead ==
  ASSUME PoolTypeOK, NEW c \in Candidates, NEW k \in Key, CanServe(k)
  PROVE  \E i \in 1..Len(c) :
           /\ c[i] = k
           /\ \A j \in 1..i : Cost(c[j]) <= Cost(k)
<1> DEFINE live == {h \in {g \in Pool : valid[g]} : ~OnCooldown(h)}
           rank == [h \in live |-> <<Cost(h), IndexOf(h)>>]
           n == Cardinality(live)
<1>1. k \in live
  BY DEF CanServe
<1>2. live \subseteq Key /\ IsFiniteSet(live) /\ n \in Nat
  <2>1. Pool \subseteq Key /\ IsFiniteSet(Pool)
    BY PoolFinite DEF PoolTypeOK
  <2> QED BY <2>1, FS_Subset, FS_CardinalityType
<1>3. /\ c \in [1..n -> live]
      /\ \A i, j \in 1..n : i < j => Before(rank[c[i]], rank[c[j]])
  <2>1. c \in Arranged(live, rank)
    BY <1>1 DEF Candidates
  <2> QED BY <2>1 DEF Arranged
<1>4. ASSUME NEW h \in live
      PROVE  /\ Cost(h) \in Nat
             /\ IndexOf(h) \in Nat
             /\ rank[h] = <<Cost(h), IndexOf(h)>>
  <2>1. \E i \in DOMAIN keys : keys[i] = h
    BY DEF Pool
  <2>2. IndexOf(h) \in DOMAIN keys
    BY <2>1 DEF IndexOf
  <2>3. Cost(h) \in Nat
    <3>1. h \in Key /\ inFlight[h] \in Nat /\ fails[h] \in 0..FailCap
      BY <1>2 DEF PoolTypeOK
    <3>2. Len(window[h]) \in Nat
      <4>1. window[h] \in Seq(1..RpmWindow)
        BY <3>1 DEF PoolTypeOK
      <4> QED BY <4>1
    <3> QED BY <3>1, <3>2 DEF Cost
  <2>4. IndexOf(h) \in Nat
    <3>1. DOMAIN keys = 1..Len(keys)
      BY DEF PoolTypeOK
    <3> QED BY <2>2, <3>1
  <2> HIDE DEF live
  <2> QED BY <2>3, <2>4
<1> HIDE DEF live, n, rank
<1>5. ASSUME NEW i \in 1..n, NEW j \in 1..n, i < j
      PROVE  c[i] # c[j] /\ Cost(c[i]) <= Cost(c[j])
  <2>1. c[i] \in live /\ c[j] \in live /\ Before(rank[c[i]], rank[c[j]])
    BY <1>3, <1>5
  <2> QED BY <1>4, <2>1 DEF Before
<1>6. IsFiniteSet(1..n) /\ Cardinality(1..n) = n
  BY <1>2, FS_Interval
<1>7. c \in Injection(1..n, live)
  <2>1. \A i, j \in 1..n : c[i] = c[j] => i = j
    <3> SUFFICES ASSUME NEW i \in 1..n, NEW j \in 1..n, c[i] = c[j], i # j
                 PROVE  FALSE
      OBVIOUS
    <3>1. i < j \/ j < i
      BY <1>2
    <3> QED BY <1>5, <3>1
  <2> QED BY <1>3, <2>1 DEF Injection, IsInjective
<1>8. c \in Surjection(1..n, live)
  <2>1. Cardinality(1..n) = Cardinality(live)
    BY <1>6 DEF n
  <2> QED BY <1>2, <1>7, <2>1, FS_Injection
<1>9. PICK i \in 1..n : c[i] = k
  BY <1>1, <1>8 DEF Surjection
<1>10. Len(c) = n
  BY <1>2, <1>3
<1>11. ASSUME NEW j \in 1..i
       PROVE  Cost(c[j]) <= Cost(k)
  BY <1>2, <1>4, <1>5, <1>9, <1>1
<1> QED BY <1>2, <1>9, <1>10, <1>11

\* Without the streams of /v1/responses no request waits for its task.
NoTasks == \A r \in Request : pc[r] # "hopping"

LEMMA ScanNoTask ==
  ASSUME TypeOK, NEW r \in Request, NEW st, NEW load, NEW b,
         Scan(r, st, load, b)
  PROVE  pc'[r] # "hopping"
<1>1. ASSUME NEW j, Take(r, st, load, b, j)
      PROVE  pc'[r] # "hopping"
  BY <1>1 DEF Take, NextSend, TypeOK
<1>2. \/ \E s2 : GiveUp(r, s2, load, b)
      \/ Sleep(r, NextPass(st), "pausing", load, b)
      \/ \E j : Take(r, st, load, b, j)
  BY DEF Scan
<1> QED BY <1>1, <1>2 DEF GiveUp, Sleep, TypeOK

LEMMA NoTasksInv ==
  ASSUME \A r \in Request : Route[r] # "responses", TypeOK, NoTasks, [Next]_vars
  PROVE  NoTasks'
<1> SUFFICES ASSUME NEW r \in Request, pc'[r] = "hopping", pc[r] # "hopping"
             PROVE  FALSE
  BY DEF NoTasks
<1>1. Step(r)
  BY MoverSteps
<1>2. ~\E st, load, b : Scan(r, st, load, b)
  BY ScanNoTask
<1>3. ~StartDirect(r) /\ ~Resume(r) /\ ~TooSlow(r) /\ ~Broken(r)
      /\ ~GatewayTimeout(r) /\ ~KeyFault(r) /\ ~StartTask(r)
  BY <1>2 DEF StartDirect, Resume, TooSlow, Broken, GatewayTimeout, KeyFault, StartTask
<1>4. ~Refuse(r) /\ ~Admit(r) /\ ~StartBarred(r)
  BY DEF Refuse, Admit, StartBarred, TurnAway, TypeOK
<1>5. ~Send(r) /\ ~ReplyOk(r) /\ ~Goaway(r) /\ ~NoConnection(r) /\ ~Exhausted(r) /\ ~Rejected(r)
  BY DEF Send, ReplyOk, Goaway, NextSend, NoConnection, Exhausted, Rejected, GiveUp, Sleep, TypeOK
<1>6. ~(\E s \in ErrorStatus \cap Replies : ReplyError(r, s))
      /\ ~ServeEnd(r) /\ ~UnreadableReply(r) /\ ~HangUp(r)
  BY DEF ReplyError, ServeEnd, UnreadableReply, HangUp, Finish, TypeOK
<1> QED BY <1>1, <1>3, <1>4, <1>5, <1>6 DEF Step, Arrive, Proceed, Answer, Handle

\* On the routes that claim in the step in which they read the candidates, a
\* phase begins with a key that no other usable key is cheaper than, whatever
\* the pool and however many requests arrive together.  (A stream of
\* /v1/responses claims on a later turn of the loop.)
THEOREM CheapestFirst ==
  ASSUME \A r \in Request : Route[r] # "responses"
  PROVE  Spec => LeastLoadedFirst
<1>1. IndInv /\ NoTasks /\ [Next]_vars =>
        [\A r \in Request :
           pc[r] \in {"idle", "admitted", "hopping"} /\ claim[r] # claim'[r]
           => \A k \in Key : CanServe(k) => Cost(claim'[r]) <= Cost(k)]_vars
  <2> SUFFICES ASSUME IndInv, NoTasks, [Next]_vars, NEW r \in Request,
                      pc[r] \in {"idle", "admitted"}, claim[r] # claim'[r],
                      NEW k \in Key, CanServe(k)
               PROVE  Cost(claim'[r]) <= Cost(k)
    BY DEF NoTasks
  <2>1. TypeOK /\ PoolTypeOK /\ claim[r] = None
    BY DEF IndInv, TypeOK, ClaimsMatchState
  <2>2. Step(r)
    BY <2>1, MoverSteps
  <2>3. StartDirect(r)
    <3>1. ~Refuse(r) /\ ~Admit(r) /\ ~StartBarred(r) /\ ~StartTask(r)
      BY DEF Refuse, Admit, StartBarred, StartTask, TurnAway, KeepPool
    <3>2. ~Proceed(r) /\ ~ServeEnd(r) /\ ~UnreadableReply(r) /\ ~HangUp(r)
      BY DEF Proceed, Resume, Send, Answer, ReplyOk, Goaway, TooSlow, NoConnection, Broken,
             ReplyError, Handle, Exhausted, Rejected, GatewayTimeout, KeyFault,
             ServeEnd, UnreadableReply, HangUp, Awaiting
    <3> QED BY <2>2, <3>1, <3>2 DEF Step, Arrive
  <2>4. PICK c \in Candidates :
               Scan(r, [FreshLoop EXCEPT !.cand = c], inFlight, BreakerSeen(r))
    BY <2>3 DEF StartDirect
  <2> DEFINE st == [FreshLoop EXCEPT !.cand = c]
             free == {j \in {i \in 1..Len(c) : i >= 1} : Free(c[j])}
  <2>5. st.cand = c /\ st.pos = 1
    BY DEF FreshLoop
  <2>6. PICK j \in free : /\ \A i \in free : j <= i
                          /\ Take(r, st, inFlight, BreakerSeen(r), j)
    <3>1. ASSUME NEW s2, NEW where,
                 \/ GiveUp(r, s2, inFlight, BreakerSeen(r))
                 \/ Sleep(r, s2, where, inFlight, BreakerSeen(r))
          PROVE  FALSE
      BY <2>1, <3>1 DEF GiveUp, Sleep, TypeOK
    <3> HIDE DEF st
    <3> QED BY <2>4, <2>5, <3>1 DEF Scan, st
  <2>7. claim'[r] = c[j]
    BY <2>1, <2>5, <2>6 DEF Take, TypeOK
  <2>8. PICK i \in 1..Len(c) : c[i] = k /\ \A m \in 1..i : Cost(c[m]) <= Cost(k)
    BY <2>1, <2>4, CheapestAhead
  <2>9. i \in free
    <3>1. cooldown' = cooldown /\ ceiling' = ceiling
      BY <2>3 DEF StartDirect, KeepHealth, healthVars
    <3>2. cooldown[k].left = 0 /\ Len(window[k]) < ceiling[k]
      BY <2>1 DEF CanServe, OnCooldown, HasRoom, PoolTypeOK
    <3> QED BY <2>8, <3>1, <3>2 DEF Free
  <2>10. j \in 1..i
    BY <2>6, <2>9
  <2> QED BY <2>7, <2>8, <2>10
<1>2. Init => NoTasks
  BY DEF Init, NoTasks
<1>3. IndInv /\ NoTasks /\ [Next]_vars => NoTasks'
  BY NoTasksInv DEF IndInv
<1> QED BY <1>1, <1>2, <1>3, Inductive, PTL DEF Spec, LeastLoadedFirst

-----------------------------------------------------------------------------
(* A key is blamed for what it did itself.                                 *)

\* What BlamelessKeys says of one key.
Blameless(k) ==
  Worse(k) =>
    \/ \E r \in Request, s \in {"gateway", "auth", "rate", "other"} :
         Handles(r, k, s) /\ Costs(k, s)
    \/ \E r \in Request : claim[r] = k /\ Broken(r) /\ Costs(k, "other")
    \/ \E p \in Probers : p = "prewarm" /\ k \in probe[p] /\ probe'[p] = {}

LEMMA NoneWorse ==
  ASSUME PoolTypeOK, KeepHealth, NEW k \in Key
  PROVE  ~Worse(k)
<1>1. /\ fails'[k] = fails[k] /\ cooldown'[k] = cooldown[k] /\ valid'[k] = valid[k]
      /\ ceiling'[k] = ceiling[k]
  BY DEF KeepHealth, healthVars
<1>2. fails[k] \in Nat /\ cooldown[k].left \in Nat /\ ceiling[k] \in Nat
  BY PoolSizes DEF PoolTypeOK
<1> QED BY <1>1, <1>2 DEF Worse

\* mark_key_failed makes the key it is called for worse off, and no other.
LEMMA MarkCharges ==
  ASSUME PoolTypeOK, NEW k \in Key, NEW s \in Status, MarkKeyFailed(k, s),
         NEW j \in Key, Worse(j)
  PROVE  /\ j = k
         /\ s = "auth" \/ valid'[k] = valid[k]
         /\ s = "rate" \/ ceiling'[k] = ceiling[k]
         /\ cooldown'[k].status = s
<1>1. j = k
  <2> SUFFICES ASSUME j # k PROVE FALSE
    OBVIOUS
  <2>1. /\ fails'[j] = fails[j] /\ cooldown'[j] = cooldown[j] /\ valid'[j] = valid[j]
        /\ ceiling'[j] = ceiling[j]
    BY DEF MarkKeyFailed, PoolTypeOK
  <2>2. fails[j] \in Nat /\ cooldown[j].left \in Nat /\ ceiling[j] \in Nat
    BY PoolSizes DEF PoolTypeOK
  <2> QED BY <2>1, <2>2 DEF Worse
<1>2. s = "auth" \/ valid'[k] = valid[k]
  BY DEF MarkKeyFailed
<1>3. s = "rate" \/ ceiling'[k] = ceiling[k]
  BY DEF MarkKeyFailed
<1>4. cooldown'[k].status = s
  BY DEF MarkKeyFailed, PoolTypeOK
<1> QED BY <1>1, <1>2, <1>3, <1>4

\* A phase that scans on is no longer at the answer it came from.
LEMMA ScanLeaves ==
  ASSUME TypeOK, NEW r \in Request, NEW st, NEW load, NEW b, Scan(r, st, load, b)
  PROVE  pc'[r] # "answered"
<1>1. pc'[r] \in {"done", "claimed", "sending", "pausing"}
  BY DEF Scan, GiveUp, Take, Sleep, NextSend, TypeOK
<1> QED BY <1>1

LEMMA StepBlames ==
  ASSUME IndInv, [Next]_vars, NEW k \in Key
  PROVE  Blameless(k)
<1> SUFFICES ASSUME Worse(k)
             PROVE  \/ \E r \in Request, s \in {"gateway", "auth", "rate", "other"} :
                         Handles(r, k, s) /\ Costs(k, s)
                    \/ \E r \in Request : claim[r] = k /\ Broken(r) /\ Costs(k, "other")
                    \/ \E p \in Probers : p = "prewarm" /\ k \in probe[p] /\ probe'[p] = {}
  BY DEF Blameless
<1>0. TypeOK /\ PoolTypeOK
  BY DEF IndInv, TypeOK
<1>1. ~KeepHealth
  BY <1>0, NoneWorse
<1>2. ASSUME NEW r \in Request, Step(r)
      PROVE  \/ \E s \in {"gateway", "auth", "rate", "other"} :
                  Handles(r, k, s) /\ Costs(k, s)
             \/ claim[r] = k /\ Broken(r) /\ Costs(k, "other")
  <2>1. GatewayTimeout(r) \/ KeyFault(r) \/ Broken(r)
    <3>1. ~Arrive(r) /\ ~ServeEnd(r) /\ ~UnreadableReply(r) /\ ~HangUp(r)
      BY <1>1 DEF Arrive, Refuse, Admit, StartBarred, StartDirect, StartTask, TurnAway,
                  ServeEnd, UnreadableReply, HangUp, Finish, KeepPool, KeepHealth, poolVars
    <3>2. /\ ~Resume(r) /\ ~Send(r) /\ ~ReplyOk(r) /\ ~Goaway(r) /\ ~TooSlow(r)
          /\ ~NoConnection(r) /\ ~Exhausted(r) /\ ~Rejected(r)
          /\ \A s \in ErrorStatus : ~ReplyError(r, s)
      BY <1>1 DEF Resume, Send, ReplyOk, Goaway, TooSlow, NoConnection, Exhausted, Rejected,
                  ReplyError, KeepPool, KeepHealth, poolVars
    <3> QED BY <1>2, <3>1, <3>2 DEF Step, Proceed, Answer, Handle
  <2>2. CASE GatewayTimeout(r)
    <3>1. Current(r) \in Key
      BY <2>2, CurrentType DEF GatewayTimeout
    <3>2. Current(r) = k /\ Costs(k, "gateway")
      BY <1>0, <2>2, <3>1, MarkCharges DEF GatewayTimeout, Status, Costs
    <3>3. pc'[r] # "answered"
      BY <1>0, <2>2, ScanLeaves DEF GatewayTimeout
    <3> QED BY <2>2, <3>2, <3>3 DEF GatewayTimeout, Handles
  <2>3. CASE KeyFault(r)
    <3> DEFINE s == loop[r].last
    <3>1. Current(r) \in Key /\ s \in Status
      BY <2>3, CurrentType DEF KeyFault, Status
    <3>2. Current(r) = k /\ Costs(k, s)
      BY <1>0, <2>3, <3>1, MarkCharges DEF KeyFault, Costs, Status
    <3>3. pc'[r] # "answered"
      BY <1>0, <2>3, ScanLeaves DEF KeyFault
    <3> QED BY <2>3, <3>1, <3>2, <3>3 DEF KeyFault, Handles, Status
  <2>4. CASE Broken(r)
    <3>1. claim[r] \in Key
      BY <1>0, <2>4 DEF Broken, IndInv, ClaimsMatchState, TypeOK
    <3>2. claim[r] = k /\ Costs(k, "other")
      BY <1>0, <2>4, <3>1, MarkCharges DEF Broken, Status, Costs
    <3> QED BY <2>4, <3>2
  <2> QED BY <2>1, <2>2, <2>3, <2>4
<1>3. ASSUME NEW p \in Probers, ProbeStart(p)
      PROVE  FALSE
  <2>1. PICK S \in SUBSET Pool : Decay(S)
    BY <1>3 DEF ProbeStart
  <2>2. fails'[k] <= fails[k]
    BY <1>0, <2>1 DEF Decay, Less, PoolTypeOK
  <2>3. cooldown'[k] = cooldown[k] /\ valid'[k] = valid[k] /\ ceiling'[k] = ceiling[k]
    BY <1>3 DEF ProbeStart
  <2>4. fails'[k] \in Nat /\ fails[k] \in Nat /\ cooldown[k].left \in Nat /\ ceiling[k] \in Nat
    BY <1>0, <2>1, PoolSizes DEF Decay, Less, PoolTypeOK
  <2> QED BY <2>2, <2>3, <2>4 DEF Worse
<1>4. ASSUME NEW p \in Probers, ProbeEnd(p)
      PROVE  p = "prewarm" /\ k \in probe[p] /\ probe'[p] = {}
  <2>1. PICK reachable \in SUBSET probe[p] :
             ApplyProbe(reachable, IF p = "prewarm" THEN probe[p] \ reachable ELSE {})
    BY <1>4 DEF ProbeEnd
  <2> DEFINE blamed == IF p = "prewarm" THEN probe[p] \ reachable ELSE {}
  <2>2. k \in blamed
    <3> SUFFICES ASSUME k \notin blamed PROVE FALSE
      OBVIOUS
    <3>1. /\ fails'[k] \in {0, fails[k]} /\ cooldown'[k] \in {NoCooldown, cooldown[k]}
          /\ valid[k] => valid'[k]
          /\ ceiling'[k] = ceiling[k]
      BY <1>0, <2>1 DEF ApplyProbe, PoolTypeOK
    <3>2. fails[k] \in Nat /\ cooldown[k].left \in Nat /\ ceiling[k] \in Nat
      BY <1>0, PoolSizes DEF PoolTypeOK
    <3> QED BY <3>1, <3>2 DEF Worse, NoCooldown
  <2>3. probe'[p] = {}
    BY <1>0, <1>4 DEF ProbeEnd, TypeOK
  <2> QED BY <2>2, <2>3
<1>5. ASSUME NEW ks, SetKeys(ks)
      PROVE  FALSE
  <2>1. /\ fails'[k] \in {0, fails[k]} /\ cooldown'[k] \in {NoCooldown, cooldown[k]}
        /\ valid[k] => valid'[k]
        /\ ceiling'[k] \in {MaxRpm, ceiling[k]}
    BY <1>5 DEF SetKeys
  <2>2. fails[k] \in Nat /\ cooldown[k].left \in Nat
        /\ ceiling[k] \in Nat /\ ceiling[k] <= MaxRpm /\ MaxRpm \in Nat
    BY <1>0, PoolSizes DEF PoolTypeOK
  <2> QED BY <2>1, <2>2 DEF Worse, NoCooldown
<1>6. ~Tick
  <2> SUFFICES ASSUME Tick PROVE FALSE
    OBVIOUS
  <2>1. /\ fails' = fails /\ valid' = valid /\ ceiling' = ceiling
        /\ cooldown'[k] = IF cooldown[k].left <= 1 THEN NoCooldown
                          ELSE [cooldown[k] EXCEPT !.left = @ - 1]
    BY DEF Tick, PoolTick
  <2>2. cooldown[k] \in [left : Nat, status : Status] /\ fails[k] \in Nat /\ ceiling[k] \in Nat
    BY <1>0, PoolSizes DEF PoolTypeOK
  <2>3. cooldown'[k].left <= cooldown[k].left
    BY <2>1, <2>2 DEF NoCooldown
  <2>4. cooldown'[k].left \in Nat /\ cooldown[k].left \in Nat
    BY <2>1, <2>2 DEF NoCooldown
  <2> QED BY <2>1, <2>2, <2>3, <2>4 DEF Worse
<1>7. ~UNCHANGED vars
  BY <1>1 DEF vars, poolVars, KeepHealth
<1> QED BY <1>2, <1>3, <1>4, <1>5, <1>6, <1>7
        DEF Next, Step, Environment, AddKey, RemoveKey

\* Whatever the upstream answers and whoever probes or edits the pool, no step
\* leaves a key worse off but the one that handles this key's own answer, the
\* exchange it broke off or the pre-warm it did not answer, and then at the
\* price of that answer: a slow model, a dead network, full workers and a
\* malformed request are never held against a key, a gateway timeout is.
THEOREM OnlyOwnFaults == Spec => BlamelessKeys
<1>1. IndInv /\ [Next]_vars =>
        [\A k \in Key : Worse(k) =>
           \/ \E r \in Request, s \in {"gateway", "auth", "rate", "other"} :
                Handles(r, k, s) /\ Costs(k, s)
           \/ \E r \in Request : claim[r] = k /\ Broken(r) /\ Costs(k, "other")
           \/ \E p \in Probers : p = "prewarm" /\ k \in probe[p] /\ probe'[p] = {}]_vars
  BY StepBlames DEF Blameless
<1> QED BY <1>1, Inductive, PTL DEF Spec, BlamelessKeys

-----------------------------------------------------------------------------
(* No claim is lost while nobody edits the pool.                           *)

\* What NoPhantomLoad leaves open: a load that is too low.
Exact(load, held) ==
  \A k \in Key : load[k] = Cardinality({r \in Request : held[r] = k})

\* The candidates of a phase are keys of the pool, and so is what it claims.
Stocked(st) == \A i \in 1..Len(st.cand) : st.cand[i] \in Pool

OwnKeys ==
  \A r \in Request : /\ Stocked(loop[r])
                     /\ claim[r] # None => claim[r] \in Pool

\* The load without the claim of r.
Freed(r) == IF claim[r] = None THEN inFlight ELSE Unclaimed(r)

\* What a step of r does to the load: nothing, a claim given back, or a claim
\* taken after the earlier one was given back.
Booked(r) ==
  \/ claim' = claim /\ inFlight' = inFlight
  \/ claim' = [claim EXCEPT ![r] = None] /\ inFlight' = Freed(r)
  \/ \E k \in Pool : /\ claim' = [claim EXCEPT ![r] = k]
                     /\ inFlight' = Claimed(Freed(r), k)

LEMMA ReleaseExact ==
  ASSUME NEW load \in [Key -> Nat], NEW held \in [Request -> Key \cup {None}],
         Exact(load, held), NEW r \in Request, held[r] \in Key \cap Pool
  PROVE  /\ Released(load, held[r]) \in [Key -> Nat]
         /\ Exact(Released(load, held[r]), [held EXCEPT ![r] = None])
<1> USE RotationSizes
<1> DEFINE less == Released(load, held[r])
           then == [held EXCEPT ![r] = None]
<1>1. less \in [Key -> Nat]
  BY DEF Released, Less
<1>2. ASSUME NEW k \in Key
      PROVE  less[k] = Cardinality({q \in Request : then[q] = k})
  <2> DEFINE H == {q \in Request : held[q] = k}
             G == {q \in Request : then[q] = k}
  <2>1. load[k] = Cardinality(H)
    BY DEF Exact
  <2>2. IsFiniteSet(H) /\ Cardinality(H) \in Nat
    BY FS_Subset, FS_CardinalityType
  <2>3. CASE k = held[r]
    <3>1. G = H \ {r} /\ r \in H
      BY <2>3
    <3>2. Cardinality(G) = Cardinality(H) - 1 /\ Cardinality(G) \in Nat
      <4> HIDE DEF G, H
      <4>1. Cardinality(G) = Cardinality(H) - 1
        BY <2>2, <3>1, FS_RemoveElement
      <4>2. IsFiniteSet(G)
        BY <2>2, <3>1, FS_Subset
      <4> QED BY <4>1, <4>2, FS_CardinalityType
    <3>3. less[k] = Less(load[k])
      BY <2>3 DEF Released
    <3>4. less[k] = Cardinality(G)
      <4> HIDE DEF less, G, H
      <4> QED BY <2>1, <2>2, <3>2, <3>3 DEF Less
    <3> QED BY <3>4
  <2>4. CASE k # held[r]
    <3>1. G = H
      BY <2>4
    <3>2. less[k] = load[k]
      BY <2>4 DEF Released
    <3> QED BY <2>1, <3>1, <3>2
  <2> QED BY <2>3, <2>4
<1> QED BY <1>1, <1>2 DEF Exact

LEMMA ClaimExact ==
  ASSUME NEW load \in [Key -> Nat], NEW held \in [Request -> Key \cup {None}],
         Exact(load, held), NEW r \in Request, held[r] = None,
         NEW k \in Key \cap Pool
  PROVE  Exact(Claimed(load, k), [held EXCEPT ![r] = k])
<1> USE RotationSizes
<1> DEFINE more == Claimed(load, k)
           then == [held EXCEPT ![r] = k]
<1>1. ASSUME NEW j \in Key
      PROVE  more[j] = Cardinality({q \in Request : then[q] = j})
  <2> DEFINE H == {q \in Request : held[q] = j}
             G == {q \in Request : then[q] = j}
  <2>1. load[j] = Cardinality(H)
    BY DEF Exact
  <2>2. IsFiniteSet(H) /\ Cardinality(H) \in Nat
    BY FS_Subset, FS_CardinalityType
  <2>3. CASE j = k
    <3>1. G = H \cup {r} /\ r \notin H
      BY <2>3
    <3>2. Cardinality(G) = Cardinality(H) + 1
      BY <2>2, <3>1, FS_AddElement
    <3>3. more[j] = load[j] + 1
      BY <2>3 DEF Claimed
    <3> QED BY <2>1, <3>2, <3>3
  <2>4. CASE j # k
    <3>1. G = H
      BY <2>4
    <3>2. more[j] = load[j]
      BY <2>4 DEF Claimed
    <3> QED BY <2>1, <3>1, <3>2
  <2> QED BY <2>3, <2>4
<1> QED BY <1>1 DEF Exact

LEMMA CandidatesHeld ==
  ASSUME keys \in Seq(Key), NEW c \in Candidates
  PROVE  \A i \in 1..Len(c) : c[i] \in Pool
<1>1. ASSUME NEW S \in SUBSET Pool, NEW rank, c \in Arranged(S, rank)
      PROVE  \A i \in 1..Len(c) : c[i] \in Pool
  <2>1. Cardinality(S) \in Nat
    BY PoolFinite, FS_Subset, FS_CardinalityType
  <2>2. c \in [1..Cardinality(S) -> S]
    BY <1>1 DEF Arranged
  <2> QED BY <2>1, <2>2
<1> DEFINE usable == {k \in Pool : valid[k]}
           live == {k \in usable : ~OnCooldown(k)}
<1>2. CASE live # {}
  BY <1>1, <1>2 DEF Candidates
<1>3. CASE live = {}
  BY <1>1, <1>3 DEF Candidates
<1> QED BY <1>2, <1>3

\* Scan books the load it was handed, with the candidates it was handed.
LEMMA ScanBooks ==
  ASSUME TypeOK, NEW r \in Request, NEW st \in LoopType, NEW b,
         Stocked(st), keys' = keys, Scan(r, st, Freed(r), b)
  PROVE  Booked(r) /\ Stocked(loop'[r])
<1>1. ASSUME NEW s2, GiveUp(r, s2, Freed(r), b)
      PROVE  Booked(r) /\ Stocked(loop'[r])
  <2>1. loop'[r] = [FreshLoop EXCEPT !.last = s2.last]
    BY <1>1 DEF GiveUp, TypeOK
  <2>2. loop'[r].cand = <<>>
    BY <2>1 DEF FreshLoop
  <2> QED BY <1>1, <2>2 DEF GiveUp, Booked, Stocked
<1>2. CASE Sleep(r, NextPass(st), "pausing", Freed(r), b)
  <2>1. loop'[r] = NextPass(st)
    BY <1>2 DEF Sleep, TypeOK
  <2>2. NextPass(st).cand = st.cand
    BY DEF NextPass, LoopType
  <2> QED BY <1>2, <2>1, <2>2 DEF Sleep, Booked, Stocked
<1>3. ASSUME NEW j \in 1..Len(st.cand), Take(r, st, Freed(r), b, j)
      PROVE  Booked(r) /\ Stocked(loop'[r])
  <2>1. loop'[r] = [st EXCEPT !.pos = j, !.resent = FALSE, !.attempts = @ + 1]
    BY <1>3 DEF Take, TypeOK
  <2>2. loop'[r].cand = st.cand
    BY <2>1 DEF LoopType
  <2>3. st.cand[j] \in Pool
    BY DEF Stocked
  <2> QED BY <1>3, <2>2, <2>3 DEF Take, Booked, Stocked
<1>4. \/ \E s2 : GiveUp(r, s2, Freed(r), b)
      \/ Sleep(r, NextPass(st), "pausing", Freed(r), b)
      \/ \E j \in 1..Len(st.cand) : Take(r, st, Freed(r), b, j)
  BY DEF Scan
<1> QED BY <1>1, <1>2, <1>3, <1>4

\* Every step of a request keeps the books.
LEMMA StepBooks ==
  ASSUME IndInv, OwnKeys, NEW r \in Request, Step(r)
  PROVE  Booked(r) /\ Stocked(loop'[r]) /\ keys' = keys
<1>0. /\ TypeOK /\ loop[r] \in LoopType /\ Stocked(loop[r])
      /\ keys \in Seq(Key)
  BY DEF IndInv, TypeOK, PoolTypeOK, OwnKeys
<1>1. /\ pc[r] \in {"idle", "admitted", "hopping", "answered", "backoff", "pausing"}
           => Freed(r) = inFlight /\ claim = [claim EXCEPT ![r] = None]
      /\ pc[r] \in {"sending", "serving"} => Freed(r) = Unclaimed(r)
  BY <1>0 DEF IndInv, ClaimsMatchState, Freed, TypeOK
<1>2. /\ Advanced(r) \in LoopType
      /\ Advanced(r).cand = loop[r].cand
  BY <1>0, AdvancedType DEF Advanced, LoopType
<1>3. CASE StartDirect(r)
  <2>1. PICK c \in Candidates :
               Scan(r, [FreshLoop EXCEPT !.cand = c], inFlight, BreakerSeen(r))
    BY <1>3 DEF StartDirect
  <2>2. c \in Seq(Key) /\ \A i \in 1..Len(c) : c[i] \in Pool
    BY <1>0, CandidatesType, CandidatesHeld
  <2>3. [FreshLoop EXCEPT !.cand = c] \in LoopType
    BY <2>2, FreshLoopType DEF LoopType
  <2>4. Stocked([FreshLoop EXCEPT !.cand = c])
    BY <2>2 DEF Stocked, FreshLoop
  <2>5. pc[r] \in {"idle", "admitted"}
    BY <1>3 DEF StartDirect, Ready
  <2> QED BY <1>0, <1>1, <1>3, <2>1, <2>3, <2>4, <2>5, ScanBooks DEF StartDirect, KeepRest
<1>4. CASE StartTask(r)
  <2>1. PICK c \in Candidates : loop' = [loop EXCEPT ![r].cand = c]
    BY <1>4 DEF StartTask
  <2>2. loop'[r].cand = c
    BY <1>0, <2>1 DEF TypeOK, LoopType
  <2>3. Stocked(loop'[r])
    BY <1>0, <2>2, CandidatesHeld DEF Stocked
  <2> QED BY <1>4, <2>3 DEF StartTask, KeepPool, poolVars, Booked
<1>5. CASE Resume(r)
  BY <1>0, <1>1, <1>5, ScanBooks DEF Resume, KeepRest
<1>6. CASE TooSlow(r)
  <2> DEFINE st == [loop[r] EXCEPT !.pos = Len(loop[r].cand) + 1, !.last = "fault"]
  <2>0. Len(loop[r].cand) + 1 \in Nat
    BY <1>0 DEF LoopType
  <2>1. st \in LoopType /\ st.cand = loop[r].cand
    BY <1>0, <2>0 DEF LoopType
  <2>2. Scan(r, st, Freed(r), AfterFailure(breaker)) /\ keys' = keys
    BY <1>1, <1>6 DEF TooSlow, KeepRest
  <2>3. Stocked(st)
    BY <1>0, <2>1 DEF Stocked
  <2> HIDE DEF st
  <2> QED BY <1>0, <2>1, <2>2, <2>3, ScanBooks
<1>7. CASE Broken(r)
  <2> DEFINE st == [Advanced(r) EXCEPT !.last = "fault"]
  <2>1. st \in LoopType /\ st.cand = loop[r].cand
    BY <1>2 DEF LoopType
  <2>2. Scan(r, st, Freed(r), breaker) /\ keys' = keys
    BY <1>1, <1>7 DEF Broken, KeepRest
  <2>3. Stocked(st)
    BY <1>0, <2>1 DEF Stocked
  <2> HIDE DEF st
  <2> QED BY <1>0, <2>1, <2>2, <2>3, ScanBooks
<1>8. CASE GatewayTimeout(r)
  <2> DEFINE st == [Advanced(r) EXCEPT !.attempts = @ - 1]
  <2>1. loop[r].attempts \in 1..MaxAttempts
    BY <1>8, CurrentType DEF GatewayTimeout
  <2>2. Advanced(r).attempts - 1 \in 0..MaxAttempts
    BY <2>1, AdvancedType, RotationSizes
  <2>3. st \in LoopType /\ st.cand = loop[r].cand
    BY <1>2, <2>2 DEF LoopType
  <2>4. Scan(r, st, Freed(r), AfterFailure(breaker)) /\ keys' = keys
    BY <1>1, <1>8 DEF GatewayTimeout, KeepRest
  <2>5. Stocked(st)
    BY <1>0, <2>3 DEF Stocked
  <2> HIDE DEF st
  <2> QED BY <1>0, <2>3, <2>4, <2>5, ScanBooks
<1>9. CASE KeyFault(r)
  <2>1. Stocked(Advanced(r))
    BY <1>0, <1>2 DEF Stocked
  <2> QED BY <1>0, <1>1, <1>2, <1>9, <2>1, ScanBooks DEF KeyFault, KeepRest
<1>10. ASSUME NEW st, st.cand = loop[r].cand,
              \/ \E b : GiveUp(r, st, Freed(r), b)
              \/ \E b : Sleep(r, st, "backoff", Freed(r), b)
       PROVE  Booked(r) /\ Stocked(loop'[r])
  <2>1. loop'[r].cand \in {<<>>, loop[r].cand}
    BY <1>0, <1>10 DEF GiveUp, Sleep, FreshLoop, TypeOK
  <2> QED BY <1>0, <1>10, <2>1 DEF GiveUp, Sleep, Booked, Stocked
<1>11. CASE NoConnection(r)
  <2> DEFINE st == [Advanced(r) EXCEPT !.net = @ + 1, !.last = "fault"]
  <2>1. st.cand = loop[r].cand
    BY <1>2 DEF LoopType
  <2>2. /\ \/ GiveUp(r, st, Freed(r), breaker)
           \/ Sleep(r, st, "backoff", Freed(r), breaker)
        /\ keys' = keys
    BY <1>1, <1>11 DEF NoConnection, KeepRest
  <2> HIDE DEF st
  <2> QED BY <1>10, <2>1, <2>2
<1>12. CASE Exhausted(r)
  <2> DEFINE st == [Advanced(r) EXCEPT !.waits = @ + 1]
             refunded == [st EXCEPT !.attempts = @ - 1]
  <2>1. st.cand = loop[r].cand /\ refunded.cand = loop[r].cand
    BY <1>2 DEF LoopType
  <2>2. /\ \/ GiveUp(r, st, Freed(r), breaker)
           \/ Sleep(r, refunded, "backoff", Freed(r), breaker)
        /\ keys' = keys
    BY <1>1, <1>12 DEF Exhausted, KeepRest
  <2> HIDE DEF st, refunded
  <2> QED BY <1>10, <2>1, <2>2
<1>13. CASE Rejected(r)
  BY <1>1, <1>10, <1>13 DEF Rejected, KeepRest
<1>14. CASE Refuse(r) \/ Admit(r) \/ StartBarred(r) \/ Send(r) \/ UnreadableReply(r)
  BY <1>0, <1>14 DEF Refuse, Admit, StartBarred, Send, UnreadableReply, TurnAway, KeepPool,
                     poolVars, Booked
<1>15. CASE ReplyOk(r) \/ Goaway(r)
  <2>1. loop'[r].cand \in {<<>>, loop[r].cand}
    BY <1>0, <1>15 DEF ReplyOk, Goaway, FreshLoop, TypeOK, LoopType
  <2> QED BY <1>0, <1>15, <2>1 DEF ReplyOk, Goaway, KeepPool, poolVars, Booked, Stocked
<1>16. CASE \E s \in ErrorStatus \cap Replies : ReplyError(r, s)
  <2>1. loop'[r].cand = loop[r].cand
    BY <1>0, <1>16 DEF ReplyError, TypeOK, LoopType
  <2> QED BY <1>0, <1>1, <1>16, <2>1 DEF ReplyError, Booked, Stocked
<1>17. CASE Finish(r)
  <2>1. loop'[r].cand = <<>>
    BY <1>0, <1>17 DEF Finish, FreshLoop, TypeOK
  <2> QED BY <1>17, <2>1 DEF Finish, Booked, Freed, Stocked
<1>18. CASE HangUp(r) \/ ServeEnd(r)
  BY <1>0, <1>17, <1>18 DEF HangUp, ServeEnd, poolVars, Booked
<1> QED BY <1>3, <1>4, <1>5, <1>6, <1>7, <1>8, <1>9, <1>11, <1>12, <1>13, <1>14,
           <1>15, <1>16, <1>18 DEF Step, Arrive, Proceed, Answer, Handle

LEMMA ExactInv ==
  ASSUME EditableKeys = {}, IndInv, OwnKeys, Exact(inFlight, claim), [Next]_vars
  PROVE  OwnKeys' /\ Exact(inFlight, claim)'
<1>0. /\ TypeOK /\ inFlight \in [Key -> Nat]
      /\ claim \in [Request -> Key \cup {None}]
      /\ None \notin Key /\ Pool \subseteq Key
  BY RotationSizes, PoolFinite DEF IndInv, TypeOK, PoolTypeOK
<1>1. ASSUME NEW r \in Request, Step(r)
      PROVE  OwnKeys' /\ Exact(inFlight, claim)'
  <2>1. Booked(r) /\ Stocked(loop'[r]) /\ keys' = keys
    BY <1>1, StepBooks
  <2>2. OnlyMoves(r) /\ Pool' = Pool
    BY <1>0, <1>1, <2>1, StepOnlyMoves DEF Pool
  <2>3. claim'[r] # None => claim'[r] \in Pool
    BY <1>0, <2>1 DEF Booked, OwnKeys
  <2>4. OwnKeys'
    BY <2>1, <2>2, <2>3 DEF OwnKeys, OnlyMoves, Stocked
  <2> DEFINE held == [claim EXCEPT ![r] = None]
  <2>5. /\ Freed(r) \in [Key -> Nat]
        /\ Exact(Freed(r), held)
    <3>1. CASE claim[r] = None
      <4>1. held = claim
        BY <1>0, <3>1
      <4> QED BY <1>0, <3>1, <4>1 DEF Freed
    <3>2. CASE claim[r] # None
      <4>1. claim[r] \in Key \cap Pool
        BY <1>0, <3>2 DEF OwnKeys
      <4> QED BY <1>0, <3>2, <4>1, ReleaseExact DEF Freed, Unclaimed
    <3> QED BY <3>1, <3>2
  <2>6. Exact(inFlight', claim')
    <3>1. CASE claim' = claim /\ inFlight' = inFlight
      BY <3>1
    <3>2. CASE claim' = held /\ inFlight' = Freed(r)
      BY <2>5, <3>2
    <3>3. ASSUME NEW k \in Pool, claim' = [claim EXCEPT ![r] = k],
                 inFlight' = Claimed(Freed(r), k)
          PROVE  Exact(inFlight', claim')
      <4>1. claim' = [held EXCEPT ![r] = k]
        BY <1>0, <3>3
      <4>2. held \in [Request -> Key \cup {None}] /\ held[r] = None /\ k \in Key \cap Pool
        BY <1>0
      <4>3. Exact(Claimed(Freed(r), k), [held EXCEPT ![r] = k])
        <5> HIDE DEF held
        <5> QED BY <2>5, <4>2, ClaimExact
      <4> QED BY <3>3, <4>1, <4>3
    <3> QED BY <2>1, <3>1, <3>2, <3>3 DEF Booked
  <2> QED BY <2>4, <2>6 DEF Exact
<1>2. ASSUME keys' = keys, claim' = claim, loop' = loop, inFlight' = inFlight
      PROVE  OwnKeys' /\ Exact(inFlight, claim)'
  BY <1>2 DEF OwnKeys, Stocked, Pool, Exact
<1>3. CASE Environment \/ UNCHANGED vars
  BY <1>2, <1>3 DEF Environment, ProbeStart, ProbeEnd, ApplyProbe, Tick, PoolTick, OnlyPool,
                    vars, poolVars
<1> QED BY <1>1, <1>3 DEF Next, Step

\* While nobody edits the pool the load of every key is exactly the number of
\* requests that hold it, whatever happens to them: no claim is given back
\* twice, or by a request that has none, and none is forgotten.
THEOREM LoadIsExact ==
  ASSUME EditableKeys = {}
  PROVE  Spec => []ExactLoad
<1>1. Init => OwnKeys /\ Exact(inFlight, claim)
  <2> SUFFICES ASSUME Init PROVE OwnKeys /\ Exact(inFlight, claim)
    OBVIOUS
  <2>1. OwnKeys
    BY DEF Init, OwnKeys, Stocked, FreshLoop
  <2>2. \A k \in Key : {r \in Request : claim[r] = k} = {}
    BY RotationSizes DEF Init
  <2>3. Exact(inFlight, claim)
    BY <2>2, FS_EmptySet DEF Init, PoolInit, Exact
  <2> QED BY <2>1, <2>3
<1>2. IndInv /\ OwnKeys /\ Exact(inFlight, claim) /\ [Next]_vars
      => OwnKeys' /\ Exact(inFlight, claim)'
  BY ExactInv
<1>3. Exact(inFlight, claim) => ExactLoad
  BY DEF Exact, ExactLoad, Holders
<1> QED BY <1>1, <1>2, <1>3, Inductive, PTL DEF Spec

-----------------------------------------------------------------------------
(* A phase moves on.                                                       *)

\* Where r may stand after a step that left it in its phase, at candidate p of
\* its list of the same pass or later, or asleep until the next pass.
Continues(r, st) ==
  pc'[r] \in Awaiting =>
    /\ loop'[r].cand = st.cand
    /\ \/ /\ pc'[r] = "pausing" /\ loop'[r].pos = 1
          /\ loop'[r].pass = st.pass + 1
       \/ /\ pc'[r] \in {"claimed", "sending"} /\ loop'[r].pos \in st.pos..Len(st.cand)
          /\ loop'[r].pass = st.pass /\ ~loop'[r].resent

LEMMA ScanContinues ==
  ASSUME TypeOK, NEW r \in Request, NEW st \in LoopType, NEW load, NEW b,
         Scan(r, st, load, b)
  PROVE  Continues(r, st)
<1>1. ASSUME NEW s2, GiveUp(r, s2, load, b)
      PROVE  Continues(r, st)
  <2>1. pc'[r] = "done"
    BY <1>1 DEF GiveUp, TypeOK
  <2> QED BY <2>1 DEF Continues, Awaiting
<1>2. CASE Sleep(r, NextPass(st), "pausing", load, b)
  <2>1. pc'[r] = "pausing" /\ loop'[r] = NextPass(st)
    BY <1>2 DEF Sleep, TypeOK
  <2> QED BY <2>1 DEF Continues, NextPass, LoopType
<1>3. ASSUME NEW j \in 1..Len(st.cand), j >= st.pos, Take(r, st, load, b, j)
      PROVE  Continues(r, st)
  <2>1. /\ pc'[r] = NextSend(r)
        /\ loop'[r] = [st EXCEPT !.pos = j, !.resent = FALSE, !.attempts = @ + 1]
    BY <1>3 DEF Take, TypeOK
  <2>2. pc'[r] \in {"claimed", "sending"}
    BY <2>1 DEF NextSend
  <2>3. /\ loop'[r].cand = st.cand /\ loop'[r].pos = j
        /\ loop'[r].pass = st.pass /\ ~loop'[r].resent
    BY <2>1 DEF LoopType
  <2>4. st.pos \in Nat /\ Len(st.cand) \in Nat
    BY DEF LoopType
  <2>5. j \in st.pos..Len(st.cand)
    BY <1>3, <2>4
  <2> QED BY <2>2, <2>3, <2>5 DEF Continues
<1>4. \/ \E s2 : GiveUp(r, s2, load, b)
      \/ Sleep(r, NextPass(st), "pausing", load, b)
      \/ \E j \in 1..Len(st.cand) : j >= st.pos /\ Take(r, st, load, b, j)
  BY DEF Scan
<1> QED BY <1>1, <1>2, <1>3, <1>4

\* What PhaseMovesOn says of one request.
MovesOn(r) ==
  pc[r] \in Awaiting /\ pc'[r] \in Awaiting =>
    /\ loop'[r].cand = loop[r].cand
    /\ \/ pc'[r] = pc[r] /\ loop'[r] = loop[r]
       \/ /\ loop'[r].pos <= Len(loop[r].cand) + 1
          /\ \/ Before(At(r), At(r)')
             \/ At(r) = At(r)' /\ Stage(r) < Stage(r)'

LEMMA Later ==
  ASSUME TypeOK, NEW r \in Request, NEW st \in LoopType, st.cand = loop[r].cand,
         st.pass = loop[r].pass, Continues(r, st),
         \/ st.pos > loop[r].pos
         \/ st.pos = loop[r].pos /\ pc[r] \in {"hopping", "pausing", "backoff"}
  PROVE  MovesOn(r)
<1> SUFFICES ASSUME pc'[r] \in Awaiting
             PROVE  /\ loop'[r].cand = loop[r].cand
                    /\ loop'[r].pos <= Len(loop[r].cand) + 1
                    /\ \/ Before(At(r), At(r)')
                       \/ At(r) = At(r)' /\ Stage(r) < Stage(r)'
  BY DEF MovesOn
<1>0. /\ loop[r].pos \in Nat /\ loop[r].pass \in Nat /\ Len(loop[r].cand) \in Nat
      /\ st.pos \in Nat
  BY DEF TypeOK, LoopType
<1>1. CASE pc'[r] = "pausing" /\ loop'[r].pos = 1 /\ loop'[r].pass = st.pass + 1
  <2>1. At(r) = <<loop[r].pass, loop[r].pos>> /\ At(r)' = <<loop[r].pass + 1, 1>>
    BY <1>1 DEF At
  <2>2. Before(At(r), At(r)')
    BY <1>0, <2>1 DEF Before
  <2>3. loop'[r].pos <= Len(loop[r].cand) + 1
    BY <1>0, <1>1
  <2>4. loop'[r].cand = loop[r].cand
    BY <1>1 DEF Continues
  <2> QED BY <2>2, <2>3, <2>4
<1>2. CASE /\ pc'[r] \in {"claimed", "sending"} /\ loop'[r].pos \in st.pos..Len(st.cand)
           /\ loop'[r].pass = st.pass /\ ~loop'[r].resent
  <2> DEFINE j == loop'[r].pos
  <2>1. At(r) = <<loop[r].pass, loop[r].pos>> /\ At(r)' = <<loop[r].pass, j>>
    BY <1>2 DEF At
  <2>2. j \in Nat /\ j >= st.pos /\ j <= Len(loop[r].cand) + 1
    BY <1>0, <1>2
  <2>3. loop'[r].cand = loop[r].cand
    BY <1>2 DEF Continues
  <2> HIDE DEF j
  <2>4. CASE j > loop[r].pos
    <3>1. Before(At(r), At(r)')
      BY <1>0, <2>1, <2>2, <2>4 DEF Before
    <3> QED BY <2>2, <2>3, <3>1 DEF j
  <2>5. CASE ~(j > loop[r].pos)
    <3>1. j = loop[r].pos /\ pc[r] \in {"hopping", "pausing", "backoff"}
      BY <1>0, <2>2, <2>5
    <3>2. Stage(r) = 0
      BY <3>1 DEF Stage
    <3>3. Stage(r)' \in {1, 2}
      BY <1>2 DEF Stage
    <3>4. At(r) = At(r)'
      BY <2>1, <3>1
    <3>5. Stage(r) < Stage(r)'
      BY <3>2, <3>3
    <3> QED BY <2>2, <2>3, <3>4, <3>5 DEF j
  <2> QED BY <2>4, <2>5
<1> QED BY <1>1, <1>2 DEF Continues

LEMMA StepMovesOn ==
  ASSUME IndInv, NEW r \in Request, Step(r)
  PROVE  MovesOn(r)
<1>0. /\ TypeOK /\ loop[r] \in LoopType
      /\ pc[r] \in {"claimed", "sending", "answered"} =>
           loop[r].attempts >= 1 /\ loop[r].pos \in 1..Len(loop[r].cand)
  BY DEF IndInv, TypeOK, ClaimsMatchState
<1>1. CASE Arrive(r) \/ ServeEnd(r) \/ UnreadableReply(r)
  <2>1. pc[r] \in {"idle", "admitted", "serving"}
    BY <1>1 DEF Arrive, Refuse, Admit, StartBarred, StartDirect, StartTask, Ready, ServeEnd,
                UnreadableReply
  <2> QED BY <2>1 DEF MovesOn, Awaiting
<1>2. CASE Resume(r)
  BY <1>0, <1>2, ScanContinues, Later DEF Resume
<1>3. CASE Send(r) \/ Goaway(r)
  <2>1. \/ /\ pc[r] = "claimed" /\ pc'[r] = "sending" /\ loop' = loop
        \/ /\ pc[r] = "sending" /\ ~loop[r].resent /\ pc'[r] \in {"claimed", "sending"}
           /\ loop'[r] = [loop[r] EXCEPT !.resent = TRUE]
    BY <1>0, <1>3 DEF Send, Goaway, NextSend, TypeOK
  <2>2. /\ loop'[r].cand = loop[r].cand /\ loop'[r].pos = loop[r].pos
        /\ loop'[r].pass = loop[r].pass
    BY <1>0, <2>1 DEF LoopType
  <2>3. loop'[r].pos <= Len(loop[r].cand) + 1
    BY <1>0, <2>1, <2>2
  <2>4. At(r)' = At(r)
    BY <2>2 DEF At
  <2>5. Stage(r) < Stage(r)'
    <3>1. CASE pc[r] = "claimed"
      BY <2>1, <3>1 DEF Stage
    <3>2. CASE pc[r] = "sending"
      <4>1. loop'[r].resent
        BY <1>0, <2>1, <3>2 DEF LoopType
      <4>2. Stage(r) = 2
        BY <2>1, <3>2 DEF Stage
      <4>3. Stage(r)' \in {3, 4}
        BY <2>1, <3>2, <4>1 DEF Stage
      <4> QED BY <4>2, <4>3
    <3> QED BY <2>1, <3>1, <3>2
  <2> QED BY <2>2, <2>3, <2>4, <2>5 DEF MovesOn
<1>4. CASE \E s \in ErrorStatus \cap Replies : ReplyError(r, s)
  <2>1. PICK s \in ErrorStatus \cap Replies : ReplyError(r, s)
    BY <1>4
  <2>2. /\ pc[r] = "sending" /\ pc'[r] = "answered"
        /\ loop'[r] = [loop[r] EXCEPT !.last = s]
    BY <1>0, <2>1 DEF ReplyError, TypeOK
  <2>3. /\ loop'[r].cand = loop[r].cand /\ loop'[r].pos = loop[r].pos
        /\ loop'[r].pass = loop[r].pass
    BY <1>0, <2>2 DEF LoopType
  <2>4. loop'[r].pos <= Len(loop[r].cand) + 1
    BY <1>0, <2>2, <2>3
  <2>5. At(r)' = At(r)
    BY <2>3 DEF At
  <2>6. Stage(r) \in {2, 4} /\ Stage(r)' = 5
    BY <2>2 DEF Stage
  <2> QED BY <2>3, <2>4, <2>5, <2>6 DEF MovesOn
<1>5. CASE TooSlow(r)
  <2> DEFINE st == [loop[r] EXCEPT !.pos = Len(loop[r].cand) + 1, !.last = "fault"]
  <2>1. /\ st \in LoopType /\ st.cand = loop[r].cand /\ st.pass = loop[r].pass
        /\ st.pos = Len(loop[r].cand) + 1
    <3>1. loop[r] \in LoopType /\ Len(loop[r].cand) + 1 \in Nat
      BY <1>0 DEF LoopType
    <3> QED BY <3>1 DEF LoopType
  <2>2. pc[r] = "sending" /\ \E load, b : Scan(r, st, load, b)
    BY <1>5 DEF TooSlow
  <2> HIDE DEF st
  <2>3. Continues(r, st)
    BY <1>0, <2>1, <2>2, ScanContinues
  <2>4. st.pos > loop[r].pos
    BY <1>0, <2>1, <2>2 DEF LoopType
  <2> QED BY <1>0, <2>1, <2>3, <2>4, Later
<1>6. CASE Broken(r) \/ GatewayTimeout(r) \/ KeyFault(r)
  <2>1. /\ pc[r] \in {"sending", "answered"}
        /\ \E st, load, b :
             /\ Scan(r, st, load, b)
             /\ \/ st = [Advanced(r) EXCEPT !.last = "fault"]
                \/ st = [Advanced(r) EXCEPT !.attempts = @ - 1]
                \/ st = Advanced(r)
    BY <1>6 DEF Broken, GatewayTimeout, KeyFault
  <2>2. PICK st, load, b :
          /\ Scan(r, st, load, b)
          /\ \/ st = [Advanced(r) EXCEPT !.last = "fault"]
             \/ st = [Advanced(r) EXCEPT !.attempts = @ - 1]
             \/ st = Advanced(r)
    BY <2>1
  <2>3. /\ st \in LoopType /\ st.cand = loop[r].cand /\ st.pass = loop[r].pass
        /\ st.pos = loop[r].pos + 1
    <3> DEFINE next == Advanced(r)
    <3>1. /\ next \in LoopType /\ next.attempts - 1 \in 0..MaxAttempts
          /\ next.cand = loop[r].cand /\ next.pass = loop[r].pass
          /\ next.pos = loop[r].pos + 1
      <4>1. next \in LoopType /\ next.attempts = loop[r].attempts
        BY AdvancedType
      <4>2. next.attempts - 1 \in 0..MaxAttempts
        <5> DEFINE n == loop[r].attempts
        <5>1. n \in 0..MaxAttempts /\ n >= 1 /\ MaxAttempts \in Nat
          BY <1>0, <2>1, RotationSizes DEF LoopType
        <5> HIDE DEF n, next
        <5>2. n - 1 \in 0..MaxAttempts
          BY <5>1
        <5> QED BY <4>1, <5>2 DEF n
      <4>3. /\ next.cand = loop[r].cand /\ next.pass = loop[r].pass
            /\ next.pos = loop[r].pos + 1
        BY <1>0 DEF Advanced, LoopType
      <4> QED BY <4>1, <4>2, <4>3
    <3> HIDE DEF next
    <3>2. \/ st = [next EXCEPT !.last = "fault"]
          \/ st = [next EXCEPT !.attempts = next.attempts - 1]
          \/ st = next
      BY <2>2 DEF next
    <3> QED BY <3>1, <3>2 DEF LoopType
  <2>4. Continues(r, st)
    BY <1>0, <2>2, <2>3, ScanContinues
  <2>5. st.pos > loop[r].pos
    BY <1>0, <2>3 DEF LoopType
  <2> QED BY <1>0, <2>3, <2>4, <2>5, Later
<1>7. CASE NoConnection(r) \/ Exhausted(r) \/ Rejected(r)
  <2> SUFFICES ASSUME pc'[r] \in Awaiting
               PROVE  MovesOn(r)
    BY DEF MovesOn
  <2>1. /\ pc[r] \in {"sending", "answered"} /\ pc'[r] = "backoff"
        /\ \/ loop'[r] = [Advanced(r) EXCEPT !.net = @ + 1, !.last = "fault"]
           \/ loop'[r] = [[Advanced(r) EXCEPT !.waits = @ + 1] EXCEPT !.attempts = @ - 1]
    BY <1>0, <1>7 DEF NoConnection, Exhausted, Rejected, GiveUp, Sleep, TypeOK, Awaiting
  <2>2. /\ loop'[r].cand = loop[r].cand /\ loop'[r].pos = loop[r].pos + 1
        /\ loop'[r].pass = loop[r].pass
    BY <1>0, <2>1 DEF Advanced, LoopType
  <2>3. loop[r].pos \in Nat /\ loop[r].pass \in Nat /\ loop[r].pos <= Len(loop[r].cand)
    BY <1>0, <2>1 DEF LoopType
  <2>4. loop'[r].pos <= Len(loop[r].cand) + 1
    BY <1>0, <2>2, <2>3 DEF LoopType
  <2>5. At(r) = <<loop[r].pass, loop[r].pos>> /\ At(r)' = <<loop[r].pass, loop[r].pos + 1>>
    BY <2>2 DEF At
  <2>6. Before(At(r), At(r)')
    BY <2>3, <2>5 DEF Before
  <2> QED BY <2>2, <2>4, <2>6 DEF MovesOn
<1>8. CASE ReplyOk(r)
  <2>1. pc'[r] \in {"done", "serving"}
    BY <1>0, <1>8 DEF ReplyOk, TypeOK
  <2> QED BY <2>1 DEF MovesOn, Awaiting
<1>9. CASE HangUp(r)
  <2>1. pc'[r] = "done" \/ UNCHANGED <<pc, loop>>
    BY <1>0, <1>9 DEF HangUp, Finish, TypeOK
  <2> QED BY <2>1 DEF MovesOn, Awaiting
<1> QED BY <1>1, <1>2, <1>3, <1>4, <1>5, <1>6, <1>7, <1>8, <1>9
        DEF Step, Proceed, Answer, Handle

\* Whatever fails, a phase only gets further in the list it began with: with a
\* finite list and Passes passes over it, refunded attempts cannot keep it
\* going.
THEOREM PhaseIsBounded == Spec => PhaseMovesOn
<1>1. IndInv /\ [Next]_vars =>
        [\A r \in Request :
           pc[r] \in Awaiting /\ pc'[r] \in Awaiting
           => /\ loop'[r].cand = loop[r].cand
              /\ \/ pc'[r] = pc[r] /\ loop'[r] = loop[r]
                 \/ /\ loop'[r].pos <= Len(loop[r].cand) + 1
                    /\ \/ Before(At(r), At(r)')
                       \/ At(r) = At(r)' /\ Stage(r) < Stage(r)']_vars
  <2> SUFFICES ASSUME IndInv, [Next]_vars, NEW r \in Request
               PROVE  MovesOn(r)
    BY DEF MovesOn
  <2>1. CASE UNCHANGED <<pc, loop>>
    BY <2>1 DEF MovesOn
  <2>2. CASE ~UNCHANGED <<pc, loop>>
    <3>1. ~Environment /\ ~UNCHANGED vars
      BY <2>2 DEF Environment, ProbeStart, ProbeEnd, AddKey, RemoveKey, Tick, OnlyPool, vars
    <3>2. PICK q \in Request : Step(q)
      BY <3>1 DEF Next, Step
    <3>3. CASE q = r
      BY <3>2, <3>3, StepMovesOn
    <3>4. CASE q # r
      <4>1. pc'[r] = pc[r] /\ loop'[r] = loop[r]
        BY <3>2, <3>4, StepOnlyMoves DEF OnlyMoves, IndInv
      <4> QED BY <4>1 DEF MovesOn
    <3> QED BY <3>3, <3>4
  <2> QED BY <2>1, <2>2
<1> QED BY <1>1, Inductive, PTL DEF Spec, PhaseMovesOn
=============================================================================
