---------------------------- MODULE FailoverProof ----------------------------
(***************************************************************************)
(* Theorems about Failover, for every set of requests, models, hosts and   *)
(* providers, every size of the cache and every threshold of the breaker.  *)
(*                                                                         *)
(* The argument is IndInv.  That a rejection is final is inductive because *)
(* the box a phase leaves is emptied wherever a request goes on, and is    *)
(* only ever read while the request is trying; that the cache keeps its    *)
(* limit needs to know how many entries a full one loses.                  *)
(***************************************************************************)
EXTENDS Failover, BreakerProof, FiniteSetTheorems

IndInv == TypeOK /\ RejectionIsFinal /\ CacheIsSound

-----------------------------------------------------------------------------
(* The operators.                                                          *)

LEMMA AnyAskType == AnyAsk \in Asked /\ AnyAsk \in Model
<1>1. \E m \in Asked : TRUE
  BY FailoverSizes
<1> QED BY <1>1, FailoverSizes DEF AnyAsk

\* What an attempt leaves in the box.
LEMMA RecordedType ==
  \A s \in Failures : /\ Recorded(s) \in Outcomes
                      /\ Recorded(s) = "reject" => s = "reject"
BY DEF Failures, Recorded, Outcomes

\* There is always a host to try.
LEMMA HostsToTryType == HostsToTry \in SUBSET (0..HostCount) /\ HostsToTry # {}
BY FailoverSizes DEF HostsToTry, Healthy, Host

\* The circuit of one model changes to one of the states it may be in.
LEMMA BreakerSet ==
  ASSUME TypeOK, NEW m \in Model, NEW b \in BreakerType
  PROVE  [breaker EXCEPT ![m] = b] \in [Model -> BreakerType]
BY DEF TypeOK

-----------------------------------------------------------------------------
(* Type correctness.                                                       *)

\* The part of the type invariant that requests change.
RequestsOK ==
  /\ pc \in [Request -> {"trying", "asking", "done"}]
  /\ ask \in [Request -> Asked]
  /\ model \in [Request -> Model]
  /\ hosts \in [Request -> SUBSET (0..HostCount)]
  /\ left \in [Request -> 0..ProviderCount]
  /\ box \in [Request -> Outcomes]
  /\ reply \in [Request -> {"rejected", "other"}]
  /\ \A r \in Request : pc[r] = "trying" => hosts[r] # {}

\* The part they share.
SharedOK ==
  /\ breaker \in [Model -> BreakerType]
  /\ blocked \in [Host -> 0..HostRetry]
  /\ mode \in [Model \cup {Nobody} -> {"off", "on", "auto", "inherit"}]
  /\ cache \in [Model -> [by : Model \cup {Nobody}, left : 0..CacheTtl]]

LEMMA TypeParts == TypeOK <=> RequestsOK /\ SharedOK
BY DEF TypeOK, RequestsOK, SharedOK

LEMMA InitType == Init => TypeOK
<1> SUFFICES ASSUME Init PROVE TypeOK
  OBVIOUS
<1>1. RequestsOK
  BY AnyAskType, FailoverSizes DEF Init, RequestsOK, Outcomes
<1>2. SharedOK
  BY BreakerTypes, FailoverSizes DEF Init, SharedOK, NoEntry
<1> QED BY <1>1, <1>2, TypeParts

\* A request that is over, whatever its answer, is of the right type.
LEMMA AnsweredType ==
  ASSUME RequestsOK, NEW r \in Request, NEW how \in {"rejected", "other"},
         Answered(r, how), box' \in [Request -> Outcomes]
  PROVE  RequestsOK'
<1>1. {} \in SUBSET (0..HostCount) /\ 0 \in 0..ProviderCount
  BY FailoverSizes
<1>2. /\ hosts' \in [Request -> SUBSET (0..HostCount)]
      /\ left' \in [Request -> 0..ProviderCount]
  BY <1>1 DEF Answered, RequestsOK
<1>3. /\ pc' \in [Request -> {"trying", "asking", "done"}]
      /\ reply' \in [Request -> {"rejected", "other"}]
  BY DEF Answered, RequestsOK
<1>4. ask' \in [Request -> Asked] /\ model' \in [Request -> Model]
  BY AnyAskType DEF Answered, RequestsOK
<1>5. \A q \in Request : pc'[q] = "trying" => hosts'[q] # {}
  BY DEF Answered, RequestsOK
<1> QED BY <1>2, <1>3, <1>4, <1>5 DEF RequestsOK

LEMMA TurnedType ==
  ASSUME RequestsOK, NEW r \in Request, Turned(r)
  PROVE  RequestsOK'
BY DEF Turned, RequestsOK, Outcomes, Arriving

LEMMA AllFailedType ==
  ASSUME TypeOK, NEW r \in Request, NEW s \in Outcomes, NEW b \in BreakerType,
         AllFailed(r, s, b)
  PROVE  RequestsOK' /\ breaker' \in [Model -> BreakerType]
<1> DEFINE booked == IF s = "exhausted" THEN b ELSE AfterFailure(b)
<1>1. booked \in BreakerType /\ CircuitRead(booked) \in BreakerType
  BY BreakerTypes
<1>2. model[r] \in Model /\ RequestsOK
  BY TypeParts DEF RequestsOK
<1>3. breaker' \in [Model -> BreakerType]
  <2>1. \/ breaker' = [breaker EXCEPT ![model[r]] = booked]
        \/ breaker' = [breaker EXCEPT ![model[r]] = CircuitRead(booked)]
    BY DEF AllFailed
  <2> QED BY <1>1, <1>2, <2>1, BreakerSet
<1>4. box' \in [Request -> Outcomes]
  BY <1>2 DEF AllFailed, RequestsOK, Outcomes
<1>5. \/ Answered(r, "rejected") \/ Answered(r, "other")
      \/ /\ pc' = [pc EXCEPT ![r] = "asking"]
         /\ hosts' = [hosts EXCEPT ![r] = {}]
         /\ left' = [left EXCEPT ![r] = ProviderCount]
         /\ UNCHANGED <<ask, model, reply>>
  BY DEF AllFailed
<1>6. CASE Answered(r, "rejected") \/ Answered(r, "other")
  BY <1>2, <1>3, <1>4, <1>6, AnsweredType
<1>7. CASE /\ pc' = [pc EXCEPT ![r] = "asking"]
           /\ hosts' = [hosts EXCEPT ![r] = {}]
           /\ left' = [left EXCEPT ![r] = ProviderCount]
           /\ UNCHANGED <<ask, model, reply>>
  BY <1>2, <1>3, <1>4, <1>7, FailoverSizes DEF RequestsOK
<1> QED BY <1>5, <1>6, <1>7

LEMMA PhaseOverType ==
  ASSUME TypeOK, NEW r \in Request, pc[r] = "trying",
         NEW s \in Outcomes, NEW b \in BreakerType, PhaseOver(r, s, b)
  PROVE  TypeOK'
<1> DEFINE h == Current(r)
<1>1. RequestsOK /\ SharedOK /\ model[r] \in Model
  BY TypeParts DEF RequestsOK
<1>2. UNCHANGED <<mode, cache>> /\ blocked' \in [Host -> 0..HostRetry]
  <2>1. UNCHANGED <<mode, cache>>
    BY DEF PhaseOver
  <2>2. \/ h \in Host /\ blocked' = [blocked EXCEPT ![h] = HostRetry]
        \/ blocked' = blocked
    BY DEF PhaseOver
  <2>3. HostRetry \in 0..HostRetry
    BY FailoverSizes
  <2> QED BY <1>1, <2>1, <2>2, <2>3 DEF SharedOK
<1>3. RequestsOK' /\ breaker' \in [Model -> BreakerType]
  <2>1. CASE AllFailed(r, s, b)
    BY <2>1, AllFailedType
  <2>2. CASE /\ hosts[r] # {h}
             /\ hosts' = [hosts EXCEPT ![r] = @ \ {h}]
             /\ box' = [box EXCEPT ![r] = s]
             /\ breaker' = [breaker EXCEPT ![model[r]] = b]
             /\ UNCHANGED <<pc, ask, model, left, reply>>
    <3>1. breaker' \in [Model -> BreakerType]
      BY <1>1, <2>2, BreakerSet
    <3>2. hosts[r] \ {h} \in SUBSET (0..HostCount) /\ hosts[r] \ {h} # {}
      BY <1>1, <2>2 DEF RequestsOK
    <3> HIDE DEF h
    <3>3. RequestsOK'
      BY <1>1, <2>2, <3>2 DEF RequestsOK
    <3> QED BY <3>1, <3>3
  <2> QED BY <2>1, <2>2 DEF PhaseOver
<1>4. SharedOK'
  BY <1>1, <1>2, <1>3 DEF SharedOK
<1> QED BY <1>3, <1>4 DEF TypeOK, RequestsOK, SharedOK

\* A request that is turned away, or goes on its way.
LEMMA ArriveType ==
  ASSUME TypeOK, NEW r \in Request, NEW m \in Asked, Arrive(r, m)
  PROVE  TypeOK'
<1>1. RequestsOK /\ SharedOK /\ m \in Model
  BY TypeParts, FailoverSizes
<1>2. ASSUME Miss(r, m)
      PROVE  cache' \in [Model -> [by : Model \cup {Nobody}, left : 0..CacheTtl]]
  <2>1. NoEntry \in [by : Model \cup {Nobody}, left : 0..CacheTtl]
    BY FailoverSizes DEF NoEntry
  <2> QED BY <1>1, <1>2, <2>1 DEF Miss, SharedOK
<1>3. ASSUME Turned(r), UNCHANGED cache \/ Miss(r, m)
      PROVE  TypeOK'
  <2>1. RequestsOK'
    BY <1>1, <1>3, TurnedType
  <2>2. SharedOK'
    BY <1>1, <1>2, <1>3 DEF Turned, SharedOK
  <2> QED BY <2>1, <2>2 DEF TypeOK, RequestsOK, SharedOK
<1>4. ASSUME NEW n \in Model, Begin(r, m, n)
      PROVE  TypeOK'
  <2>1. RequestsOK'
    BY <1>1, <1>4, HostsToTryType DEF Begin, RequestsOK, Outcomes
  <2>2. breaker' \in [Model -> BreakerType]
    BY <1>1, <1>4, BreakerTypes DEF Begin, SharedOK
  <2>3. SharedOK'
    BY <1>1, <1>2, <1>4, <2>2 DEF Begin, SharedOK
  <2> QED BY <2>1, <2>3 DEF TypeOK, RequestsOK, SharedOK
<1>5. CASE Hit(r, m)
  BY <1>3, <1>5 DEF Hit
<1>6. CASE NoKeys(r, m)
  BY <1>3, <1>6 DEF NoKeys
<1>7. CASE Refuse(r, m)
  BY <1>3, <1>7 DEF Refuse
<1>8. CASE Start(r, m)
  BY <1>1, <1>4, <1>8 DEF Start
<1>9. CASE Substitute(r, m)
  <2>1. PICK i \in StandIns(m) : Begin(r, m, Presets[i])
    BY <1>9 DEF Substitute
  <2>2. Presets[i] \in Model
    BY <2>1, FailoverSizes DEF StandIns
  <2> QED BY <1>4, <2>1, <2>2
<1> QED BY <1>5, <1>6, <1>7, <1>8, <1>9 DEF Arrive

\* A request that is on its way makes a step.
LEMMA ProceedType ==
  ASSUME TypeOK, NEW r \in Request, Proceed(r)
  PROVE  TypeOK'
<1>1. RequestsOK /\ SharedOK /\ model[r] \in Model /\ breaker[model[r]] \in BreakerType
  BY TypeParts DEF RequestsOK, SharedOK
<1>2. ASSUME NEW s \in Failures, Fail(r, s)
      PROVE  TypeOK'
  <2> DEFINE b == IF s \in Booked THEN AfterFailure(breaker[model[r]]) ELSE breaker[model[r]]
             out == Recorded(s)
  <2>1. b \in BreakerType /\ out \in Outcomes
    BY <1>1, BreakerTypes, RecordedType
  <2>2. pc[r] = "trying" /\ (PhaseOver(r, out, b) \/ PhaseGoesOn(r, out, b))
    BY <1>2 DEF Fail
  <2> HIDE DEF b, out
  <2>3. CASE PhaseOver(r, out, b)
    BY <2>1, <2>2, <2>3, PhaseOverType
  <2>4. CASE PhaseGoesOn(r, out, b)
    <3>1. RequestsOK'
      BY <1>1, <2>1, <2>4 DEF PhaseGoesOn, RequestsOK
    <3>2. SharedOK'
      BY <1>1, <2>1, <2>4 DEF PhaseGoesOn, SharedOK
    <3> QED BY <3>1, <3>2 DEF TypeOK, RequestsOK, SharedOK
  <2> QED BY <2>2, <2>3, <2>4
<1>3. CASE RunOut(r)
  <2>1. box[r] \in Outcomes
    BY <1>1 DEF RequestsOK
  <2> QED BY <1>1, <1>3, <2>1, PhaseOverType DEF RunOut
<1>4. CASE Throttled(r)
  <2>1. box' \in [Request -> Outcomes]
    BY <1>1, <1>4 DEF Throttled, RequestsOK, Outcomes
  <2>2. RequestsOK'
    BY <1>1, <1>4, <2>1, AnsweredType DEF Throttled
  <2>3. breaker' \in [Model -> BreakerType]
    BY <1>1, <1>4, BreakerTypes DEF Throttled, SharedOK
  <2>4. SharedOK'
    BY <1>1, <1>4, <2>3 DEF Throttled, SharedOK
  <2> QED BY <2>2, <2>4 DEF TypeOK, RequestsOK, SharedOK
<1>5. CASE Succeeds(r) /\ cache' \in [Model -> [by : Model \cup {Nobody}, left : 0..CacheTtl]]
  <2>1. box' \in [Request -> Outcomes]
    BY <1>1, <1>5 DEF Succeeds, RequestsOK, Outcomes
  <2>2. RequestsOK'
    BY <1>1, <1>5, <2>1, AnsweredType DEF Succeeds
  <2>3. breaker' \in [Model -> BreakerType]
    BY <1>1, <1>5, BreakerTypes DEF Succeeds, SharedOK
  <2>4. blocked' \in [Host -> 0..HostRetry]
    BY <1>1, <1>5, FailoverSizes DEF Succeeds, SharedOK
  <2>5. SharedOK'
    BY <1>1, <1>5, <2>3, <2>4 DEF Succeeds, SharedOK
  <2> QED BY <2>2, <2>5 DEF TypeOK, RequestsOK, SharedOK
<1>6. CASE Keep(r)
  <2>1. /\ NoEntry \in [by : Model \cup {Nobody}, left : 0..CacheTtl]
        /\ [by |-> model[r], left |-> CacheTtl] \in [by : Model \cup {Nobody}, left : 0..CacheTtl]
    BY <1>1, FailoverSizes DEF NoEntry
  <2>2. cache' \in [Model -> [by : Model \cup {Nobody}, left : 0..CacheTtl]]
    BY <1>1, <1>6, <2>1 DEF Keep, SharedOK
  <2> QED BY <1>5, <1>6, <2>2 DEF Keep
<1>7. CASE Ok(r)
  BY <1>1, <1>5, <1>7 DEF Ok, SharedOK
<1>8. CASE AskProvider(r)
  <2>1. RequestsOK'
    <3>1. CASE Answered(r, "other")
      BY <1>1, <1>8, <3>1, AnsweredType DEF AskProvider, RequestsOK
    <3>2. CASE /\ left[r] > 1
               /\ left' = [left EXCEPT ![r] = @ - 1]
               /\ UNCHANGED <<pc, ask, model, hosts, reply, breaker>>
      <4>1. left[r] - 1 \in 0..ProviderCount
        BY <1>1, <3>2, FailoverSizes DEF RequestsOK
      <4> QED BY <1>1, <1>8, <3>2, <4>1 DEF AskProvider, RequestsOK
    <3> QED BY <1>8, <3>1, <3>2 DEF AskProvider
  <2>2. breaker' \in [Model -> BreakerType]
    BY <1>1, <1>8, BreakerTypes DEF AskProvider, SharedOK
  <2>3. SharedOK'
    BY <1>1, <1>8, <2>2 DEF AskProvider, SharedOK
  <2> QED BY <2>1, <2>3 DEF TypeOK, RequestsOK, SharedOK
<1> QED BY <1>2, <1>3, <1>4, <1>5, <1>6, <1>7, <1>8 DEF Proceed

\* Time passes, or the user turns the switch.
LEMMA SharedType ==
  ASSUME TypeOK, Tick \/ \E m \in Switched, v \in Settings : SetFallback(m, v)
  PROVE  TypeOK'
<1>1. RequestsOK /\ SharedOK
  BY TypeParts
<1>2. CASE Tick
  <2>1. RequestsOK'
    BY <1>1, <1>2 DEF Tick, RequestsOK, reqVars
  <2>2. breaker' \in [Model -> BreakerType]
    BY <1>1, <1>2, BreakerTypes DEF Tick, SharedOK
  <2>3. blocked' \in [Host -> 0..HostRetry]
    BY <1>1, <1>2, FailoverSizes DEF Tick, SharedOK, Less
  <2>4. ASSUME NEW m \in Model
        PROVE  [cache[m] EXCEPT !.left = Less(cache[m].left)]
                 \in [by : Model \cup {Nobody}, left : 0..CacheTtl]
    <3>1. cache[m] \in [by : Model \cup {Nobody}, left : 0..CacheTtl]
      BY <1>1 DEF SharedOK
    <3>2. Less(cache[m].left) \in 0..CacheTtl
      BY <3>1, FailoverSizes DEF Less
    <3> QED BY <3>1, <3>2
  <2>5. cache' \in [Model -> [by : Model \cup {Nobody}, left : 0..CacheTtl]]
    BY <1>2, <2>4 DEF Tick
  <2>6. SharedOK'
    BY <1>1, <1>2, <2>2, <2>3, <2>5 DEF Tick, SharedOK
  <2> QED BY <2>1, <2>6 DEF TypeOK, RequestsOK, SharedOK
<1>3. ASSUME NEW m \in Switched, NEW v \in Settings, SetFallback(m, v)
      PROVE  TypeOK'
  <2>1. RequestsOK'
    BY <1>1, <1>3 DEF SetFallback, RequestsOK, reqVars
  <2>2. mode' \in [Model \cup {Nobody} -> {"off", "on", "auto", "inherit"}]
    BY <1>1, <1>3, FailoverSizes DEF SetFallback, SharedOK
  <2>3. SharedOK'
    BY <1>1, <1>3, <2>2 DEF SetFallback, SharedOK
  <2> QED BY <2>1, <2>3 DEF TypeOK, RequestsOK, SharedOK
<1> QED BY <1>2, <1>3

LEMMA NextType == TypeOK /\ [Next]_vars => TypeOK'
<1> SUFFICES ASSUME TypeOK, [Next]_vars PROVE TypeOK'
  OBVIOUS
<1>1. ASSUME NEW r \in Request, NEW m \in Asked, Arrive(r, m) PROVE TypeOK'
  BY <1>1, ArriveType
<1>2. ASSUME NEW r \in Request, Proceed(r) PROVE TypeOK'
  BY <1>2, ProceedType
<1>3. CASE Tick \/ \E m \in Switched, v \in Settings : SetFallback(m, v)
  BY <1>3, SharedType
<1>4. CASE UNCHANGED vars
  BY <1>4 DEF vars, reqVars, TypeOK, Cached
<1> QED BY <1>1, <1>2, <1>3, <1>4 DEF Next

-----------------------------------------------------------------------------
(* Rejections.                                                             *)

LEMMA InitRejection == Init => RejectionIsFinal
BY DEF Init, RejectionIsFinal

\* Whatever is in the box when all hosts have failed, the request stops with
\* it, or goes on with an empty box.
LEMMA PhaseOverRejection ==
  ASSUME TypeOK, RejectionIsFinal, NEW r \in Request,
         NEW s \in Outcomes, NEW b \in BreakerType, PhaseOver(r, s, b)
  PROVE  RejectionIsFinal'
<1>1. /\ pc \in [Request -> {"trying", "asking", "done"}]
      /\ reply \in [Request -> {"rejected", "other"}]
      /\ box \in [Request -> Outcomes]
  BY DEF TypeOK
<1>2. CASE AllFailed(r, s, b)
  <2>1. \/ s = "reject" /\ Answered(r, "rejected")
        \/ box' = [box EXCEPT ![r] = "none"]
    BY <1>2 DEF AllFailed
  <2>2. /\ \A q \in Request \ {r} : box'[q] = box[q] /\ pc'[q] = pc[q] /\ reply'[q] = reply[q]
    BY <1>1, <1>2 DEF AllFailed, Answered
  <2>3. box'[r] = "reject" => pc'[r] = "done" /\ reply'[r] = "rejected"
    BY <1>1, <2>1 DEF Answered
  <2> QED BY <2>2, <2>3 DEF RejectionIsFinal
<1>3. CASE s # "reject" /\ box' = [box EXCEPT ![r] = s] /\ UNCHANGED <<pc, reply>>
  BY <1>1, <1>3 DEF RejectionIsFinal
<1> QED BY <1>2, <1>3 DEF PhaseOver, Stops

LEMMA NextRejection == TypeOK /\ RejectionIsFinal /\ [Next]_vars => RejectionIsFinal'
<1> SUFFICES ASSUME TypeOK, RejectionIsFinal, [Next]_vars PROVE RejectionIsFinal'
  OBVIOUS
<1>1. /\ pc \in [Request -> {"trying", "asking", "done"}]
      /\ reply \in [Request -> {"rejected", "other"}]
      /\ box \in [Request -> Outcomes]
  BY DEF TypeOK
<1>2. ASSUME NEW r \in Request, NEW m \in Asked, Arrive(r, m)
      PROVE  RejectionIsFinal'
  <2>1. Turned(r) \/ \E n : Begin(r, m, n)
    BY <1>2 DEF Arrive, Hit, NoKeys, Refuse, Start, Substitute
  <2>2. /\ box' = [box EXCEPT ![r] = "none"]
        /\ \A q \in Request \ {r} : pc'[q] = pc[q] /\ reply'[q] = reply[q]
    BY <1>1, <2>1 DEF Turned, Begin
  <2> QED BY <1>1, <2>2 DEF RejectionIsFinal
<1>3. ASSUME NEW r \in Request, NEW s \in Failures, Fail(r, s)
      PROVE  RejectionIsFinal'
  <2> DEFINE b == IF s \in Booked THEN AfterFailure(breaker[model[r]]) ELSE breaker[model[r]]
             out == Recorded(s)
  <2>1. b \in BreakerType /\ out \in Outcomes
    BY BreakerTypes, RecordedType DEF TypeOK
  <2>2. PhaseOver(r, out, b) \/ (s # "reject" /\ PhaseGoesOn(r, out, b))
    BY <1>3 DEF Fail
  <2>3. s # "reject" => out # "reject"
    BY RecordedType
  <2> HIDE DEF b, out
  <2>4. CASE PhaseOver(r, out, b)
    BY <2>1, <2>4, PhaseOverRejection
  <2>5. CASE s # "reject" /\ PhaseGoesOn(r, out, b)
    BY <1>1, <2>3, <2>5 DEF PhaseGoesOn, RejectionIsFinal
  <2> QED BY <2>2, <2>4, <2>5
<1>4. ASSUME NEW r \in Request, RunOut(r)
      PROVE  RejectionIsFinal'
  <2>1. box[r] \in Outcomes /\ breaker[model[r]] \in BreakerType
    BY DEF TypeOK
  <2> QED BY <1>4, <2>1, PhaseOverRejection DEF RunOut
<1>5. ASSUME NEW r \in Request, Throttled(r) \/ Ok(r) \/ Keep(r)
      PROVE  RejectionIsFinal'
  <2>1. /\ box' = [box EXCEPT ![r] = "none"]
        /\ \A q \in Request \ {r} : pc'[q] = pc[q] /\ reply'[q] = reply[q]
    BY <1>1, <1>5 DEF Throttled, Ok, Keep, Succeeds, Answered
  <2> QED BY <1>1, <2>1 DEF RejectionIsFinal
<1>6. ASSUME NEW r \in Request, AskProvider(r)
      PROVE  RejectionIsFinal'
  <2>1. box[r] # "reject"
    BY <1>6 DEF AskProvider, RejectionIsFinal
  <2>2. /\ box' = box
        /\ \A q \in Request \ {r} : pc'[q] = pc[q] /\ reply'[q] = reply[q]
    BY <1>1, <1>6 DEF AskProvider, Answered
  <2> QED BY <2>1, <2>2 DEF RejectionIsFinal
<1>7. CASE Tick \/ \E m \in Switched, v \in Settings : SetFallback(m, v)
  BY <1>7 DEF Tick, SetFallback, reqVars, RejectionIsFinal
<1>8. CASE UNCHANGED vars
  BY <1>8 DEF vars, reqVars, RejectionIsFinal
<1> QED BY <1>2, <1>3, <1>4, <1>5, <1>6, <1>7, <1>8 DEF Next, Proceed

-----------------------------------------------------------------------------
(* The cache.                                                              *)

LEMMA InitCache == Init => CacheIsSound
<1> SUFFICES ASSUME Init PROVE CacheIsSound
  OBVIOUS
<1>1. Cached = {}
  BY DEF Init, Cached, NoEntry
<1>2. Cardinality(Cached) <= CacheMax
  BY <1>1, FS_EmptySet, FailoverSizes
<1> QED BY <1>1, <1>2 DEF CacheIsSound

\* A full cache loses at least one entry.
LEMMA CacheStepIsPositive == CacheStep \in Nat \ {0}
BY FailoverSizes DEF CacheStep

\* Keeping one more embedding leaves the cache within its limit.
LEMMA KeepCache ==
  ASSUME TypeOK, CacheIsSound, NEW r \in Request, Keep(r)
  PROVE  CacheIsSound'
<1> DEFINE n == model[r]
<1>1. n \in Model /\ n # Nobody
  BY FailoverSizes DEF TypeOK
<1>2. IsFiniteSet(Cached) /\ Cardinality(Cached) \in Nat
  BY FailoverSizes, FS_Subset, FS_CardinalityType DEF Cached
<1>3. PICK old \in SUBSET Cached :
        /\ Pruned(old)
        /\ cache' = [m \in Model |->
             IF m = n THEN [by |-> n, left |-> CacheTtl]
             ELSE IF m \in old THEN NoEntry ELSE cache[m]]
  BY DEF Keep, FiledUnder
<1> HIDE DEF n
<1>4. Cached' = (Cached \ old) \cup {n}
  BY <1>1, <1>3 DEF Cached, NoEntry
<1>5. \A m \in Cached' : cache'[m].by = m
  BY <1>1, <1>3, <1>4 DEF Cached, CacheIsSound
<1>6. Cardinality(Cached') <= CacheMax
  <2>1. ASSUME NEW S \in SUBSET Cached, Cardinality(S) < CacheMax
        PROVE  IsFiniteSet(S \cup {n}) /\ Cardinality(S \cup {n}) <= CacheMax
    <3>1. IsFiniteSet(S) /\ Cardinality(S) \in Nat
      BY <1>2, FS_Subset, FS_CardinalityType
    <3>2. /\ IsFiniteSet(S \cup {n})
          /\ \/ Cardinality(S \cup {n}) = Cardinality(S)
             \/ Cardinality(S \cup {n}) = Cardinality(S) + 1
      BY <3>1, FS_AddElement
    <3> QED BY <2>1, <3>1, <3>2, FailoverSizes
  <2>2. CASE Cardinality(Cached) < CacheMax
    <3>1. old = {}
      BY <1>3, <2>2 DEF Pruned
    <3> QED BY <1>4, <2>1, <2>2, <3>1
  <2>3. CASE ~(Cardinality(Cached) < CacheMax)
    <3>1. Cardinality(old) = CacheStep
      BY <1>3, <2>3 DEF Pruned
    <3>2. PICK x \in old : TRUE
      <4>1. old # {}
        BY <3>1, CacheStepIsPositive, FS_EmptySet
      <4> QED BY <4>1
    <3>3. x \in Cached /\ Cached \ {x} \in SUBSET Cached
      BY <3>2
    <3>4. Cardinality(Cached \ {x}) = Cardinality(Cached) - 1
      BY <1>2, <3>3, FS_RemoveElement
    <3>5. Cardinality(Cached \ {x}) < CacheMax
      BY <1>2, <3>4, FailoverSizes DEF CacheIsSound
    <3>6. /\ IsFiniteSet((Cached \ {x}) \cup {n})
          /\ Cardinality((Cached \ {x}) \cup {n}) <= CacheMax
      BY <2>1, <3>3, <3>5
    <3>7. Cached' \subseteq (Cached \ {x}) \cup {n}
      BY <1>4, <3>2
    <3>8. /\ Cardinality(Cached') \in Nat
          /\ Cardinality((Cached \ {x}) \cup {n}) \in Nat
          /\ Cardinality(Cached') <= Cardinality((Cached \ {x}) \cup {n})
      BY <3>6, <3>7, FS_Subset, FS_CardinalityType
    <3> QED BY <3>6, <3>8, FailoverSizes
  <2> QED BY <2>2, <2>3
<1> QED BY <1>5, <1>6 DEF CacheIsSound

\* Losing an entry, or ageing, breaks nothing either.
LEMMA ShrinkCache ==
  ASSUME TypeOK, CacheIsSound, Cached' \subseteq Cached,
         \A m \in Cached' : cache'[m].by = cache[m].by
  PROVE  CacheIsSound'
<1>1. IsFiniteSet(Cached)
  BY FailoverSizes, FS_Subset DEF Cached
<1>2. /\ Cardinality(Cached) \in Nat /\ Cardinality(Cached') \in Nat
      /\ Cardinality(Cached') <= Cardinality(Cached)
  BY <1>1, FS_Subset, FS_CardinalityType
<1> QED BY <1>2, FailoverSizes DEF CacheIsSound

LEMMA NextCache == TypeOK /\ CacheIsSound /\ [Next]_vars => CacheIsSound'
<1> SUFFICES ASSUME TypeOK, CacheIsSound, [Next]_vars PROVE CacheIsSound'
  OBVIOUS
<1>1. CASE UNCHANGED cache
  BY <1>1 DEF CacheIsSound, Cached
<1>2. ASSUME NEW r \in Request, NEW m \in Asked, Miss(r, m)
      PROVE  CacheIsSound'
  <2>1. cache' = cache \/ cache' = [cache EXCEPT ![m] = NoEntry]
    BY <1>2 DEF Miss
  <2>2. CASE cache' = [cache EXCEPT ![m] = NoEntry]
    <3>1. cache \in [Model -> [by : Model \cup {Nobody}, left : 0..CacheTtl]]
      BY DEF TypeOK
    <3>2. Cached' \subseteq Cached /\ \A k \in Cached' : cache'[k].by = cache[k].by
      BY <2>2, <3>1 DEF Cached, NoEntry
    <3> QED BY <3>2, ShrinkCache
  <2> QED BY <1>1, <2>1, <2>2
<1>3. ASSUME NEW r \in Request, NEW m \in Asked, Arrive(r, m)
      PROVE  CacheIsSound'
  <2>1. UNCHANGED cache \/ Miss(r, m)
    BY <1>3 DEF Arrive, Hit, NoKeys, Refuse, Start, Substitute, Begin
  <2> QED BY <1>1, <1>2, <2>1
<1>4. ASSUME NEW r \in Request, Proceed(r)
      PROVE  CacheIsSound'
  <2>1. Keep(r) \/ UNCHANGED cache
    BY <1>4 DEF Proceed, Fail, RunOut, PhaseOver, PhaseGoesOn, Throttled, Ok, AskProvider
  <2> QED BY <1>1, <2>1, KeepCache
<1>5. CASE Tick
  <2>1. cache \in [Model -> [by : Model \cup {Nobody}, left : 0..CacheTtl]]
    BY DEF TypeOK
  <2>2. \A m \in Model : cache'[m].by = cache[m].by
    BY <1>5, <2>1 DEF Tick
  <2>3. Cached' \subseteq Cached /\ \A k \in Cached' : cache'[k].by = cache[k].by
    BY <2>2 DEF Cached
  <2> QED BY <2>3, ShrinkCache
<1>6. CASE \E m \in Switched, v \in Settings : SetFallback(m, v)
  BY <1>1, <1>6 DEF SetFallback
<1>7. CASE UNCHANGED vars
  BY <1>1, <1>7 DEF vars
<1> QED BY <1>3, <1>4, <1>5, <1>6, <1>7 DEF Next

-----------------------------------------------------------------------------
(* The circuit.                                                            *)

\* What a step may make of the breaker b of a model: nothing, one booking, or
\* the two of a phase that is the request's last, read once or not.
Reached(b) ==
  LET booked == {b, AfterFailure(b), AfterFailure(AfterFailure(b))}
  IN  booked \cup {CircuitRead(c) : c \in booked} \cup {AfterSuccess, BreakerAged(b)}

\* None of these opens a circuit for longer that is open.
LEMMA ReachedNeverProlongs ==
  ASSUME NEW b \in BreakerType, CircuitOpen(b), NEW c \in Reached(b)
  PROVE  c.left <= b.left
<1>1. /\ b.fails >= CircuitAfter /\ b.left \in Nat
      /\ AfterFailure(b) \in BreakerType
      /\ AfterFailure(AfterFailure(b)) \in BreakerType
  BY BreakerTypes, BreakerSizes DEF CircuitOpen, BreakerType
<1>2. AfterFailure(b).left = b.left /\ AfterFailure(b).fails >= CircuitAfter
  BY <1>1, FailingWhileOpen
<1>3. AfterFailure(AfterFailure(b)).left = b.left
  BY <1>1, <1>2, FailingWhileOpen
<1>4. /\ CircuitRead(b).left <= b.left
      /\ CircuitRead(AfterFailure(b)).left <= AfterFailure(b).left
      /\ CircuitRead(AfterFailure(AfterFailure(b))).left <= AfterFailure(AfterFailure(b)).left
      /\ AfterSuccess.left <= b.left
      /\ BreakerAged(b).left <= b.left
  BY <1>1, ReadingNeverProlongs
<1>5. \/ c = b \/ c = AfterFailure(b) \/ c = AfterFailure(AfterFailure(b))
      \/ c = CircuitRead(b) \/ c = CircuitRead(AfterFailure(b))
      \/ c = CircuitRead(AfterFailure(AfterFailure(b)))
      \/ c = AfterSuccess \/ c = BreakerAged(b)
  BY DEF Reached
<1>6. b.left <= b.left
  BY <1>1
<1> QED BY <1>2, <1>3, <1>4, <1>5, <1>6

\* One request changes the breaker of one model.
LEMMA OneBreaker ==
  ASSUME TypeOK, NEW n \in Model, NEW c, c \in Reached(breaker[n]),
         breaker' = [breaker EXCEPT ![n] = c], NEW m \in Model
  PROVE  breaker'[m] \in Reached(breaker[m])
<1>1. breaker'[m] = IF m = n THEN c ELSE breaker[m]
  BY DEF TypeOK
<1>2. breaker[m] \in Reached(breaker[m])
  BY DEF Reached
<1> QED BY <1>1, <1>2

LEMMA PhaseOverBreaker ==
  ASSUME TypeOK, NEW r \in Request, NEW s \in Outcomes,
         NEW b, b \in {breaker[model[r]], AfterFailure(breaker[model[r]])},
         PhaseOver(r, s, b), NEW m \in Model
  PROVE  breaker'[m] \in Reached(breaker[m])
<1>1. model[r] \in Model
  BY DEF TypeOK
<1>2. PICK c : /\ c \in Reached(breaker[model[r]])
               /\ breaker' = [breaker EXCEPT ![model[r]] = c]
  <2>1. CASE breaker' = [breaker EXCEPT ![model[r]] = b]
    BY <2>1 DEF Reached
  <2>2. CASE AllFailed(r, s, b)
    <3> DEFINE booked == IF s = "exhausted" THEN b ELSE AfterFailure(b)
    <3>1. booked \in Reached(breaker[model[r]]) /\ CircuitRead(booked) \in Reached(breaker[model[r]])
      BY DEF Reached
    <3>2. \/ breaker' = [breaker EXCEPT ![model[r]] = booked]
          \/ breaker' = [breaker EXCEPT ![model[r]] = CircuitRead(booked)]
      BY <2>2 DEF AllFailed
    <3> HIDE DEF booked
    <3> QED BY <3>1, <3>2
  <2> QED BY <2>1, <2>2 DEF PhaseOver
<1> QED BY <1>1, <1>2, OneBreaker

\* What any step makes of any breaker.
LEMMA NextBreaker ==
  ASSUME TypeOK, [Next]_vars, NEW m \in Model
  PROVE  breaker'[m] \in Reached(breaker[m])
<1>0. CASE UNCHANGED breaker
  BY <1>0 DEF Reached
<1>1. ASSUME NEW r \in Request, NEW k \in Asked, Arrive(r, k)
      PROVE  breaker'[m] \in Reached(breaker[m])
  <2>1. UNCHANGED breaker \/ \E n \in Model : Begin(r, k, n)
    BY <1>1, FailoverSizes DEF Arrive, Hit, NoKeys, Refuse, Turned, Start, Substitute, StandIns
  <2>2. ASSUME NEW n \in Model, Begin(r, k, n)
        PROVE  breaker'[m] \in Reached(breaker[m])
    <3>1. breaker' = [breaker EXCEPT ![n] = CircuitRead(breaker[n])]
      BY <2>2 DEF Begin
    <3>2. CircuitRead(breaker[n]) \in Reached(breaker[n])
      BY DEF Reached
    <3> QED BY <3>1, <3>2, OneBreaker
  <2> QED BY <1>0, <2>1, <2>2
<1>2. ASSUME NEW r \in Request, NEW s \in Failures, Fail(r, s)
      PROVE  breaker'[m] \in Reached(breaker[m])
  <2> DEFINE b == IF s \in Booked THEN AfterFailure(breaker[model[r]]) ELSE breaker[model[r]]
             out == Recorded(s)
  <2>1. /\ b \in {breaker[model[r]], AfterFailure(breaker[model[r]])}
        /\ b \in Reached(breaker[model[r]])
        /\ out \in Outcomes
        /\ model[r] \in Model
    BY RecordedType DEF TypeOK, Reached
  <2>2. PhaseOver(r, out, b) \/ breaker' = [breaker EXCEPT ![model[r]] = b]
    BY <1>2 DEF Fail, PhaseGoesOn
  <2> HIDE DEF b, out
  <2>3. CASE PhaseOver(r, out, b)
    BY <2>1, <2>3, PhaseOverBreaker
  <2>4. CASE breaker' = [breaker EXCEPT ![model[r]] = b]
    BY <2>1, <2>4, OneBreaker
  <2> QED BY <2>2, <2>3, <2>4
<1>3. ASSUME NEW r \in Request, RunOut(r)
      PROVE  breaker'[m] \in Reached(breaker[m])
  <2>1. box[r] \in Outcomes
    BY DEF TypeOK
  <2> QED BY <1>3, <2>1, PhaseOverBreaker DEF RunOut
<1>4. ASSUME NEW r \in Request, Throttled(r) \/ Ok(r) \/ Keep(r) \/ AskProvider(r)
      PROVE  breaker'[m] \in Reached(breaker[m])
  <2>1. model[r] \in Model
    BY DEF TypeOK
  <2>2. UNCHANGED breaker \/ \E c \in Reached(breaker[model[r]]) :
                                breaker' = [breaker EXCEPT ![model[r]] = c]
    BY <1>4 DEF Throttled, Ok, Keep, Succeeds, AskProvider, Reached
  <2> QED BY <1>0, <2>1, <2>2, OneBreaker
<1>5. CASE Tick
  BY <1>5 DEF Tick, Reached
<1>6. CASE \E k \in Switched, v \in Settings : SetFallback(k, v)
  BY <1>0, <1>6 DEF SetFallback
<1>7. CASE UNCHANGED vars
  BY <1>0, <1>7 DEF vars
<1> QED BY <1>1, <1>2, <1>3, <1>4, <1>5, <1>6, <1>7 DEF Next, Proceed

-----------------------------------------------------------------------------
(* The theorems.                                                           *)

\* The state of requests, breakers, hosts, switch and cache has its type, and a
\* request that is trying has a host left to try.
THEOREM Typed == Spec => []TypeOK
<1>1. Init => TypeOK
  BY InitType
<1>2. TypeOK /\ [Next]_vars => TypeOK'
  BY NextType
<1> QED BY <1>1, <1>2, PTL DEF Spec

LEMMA Inductive == Spec => []IndInv
<1>1. Init => IndInv
  BY InitType, InitRejection, InitCache DEF IndInv
<1>2. IndInv /\ [Next]_vars => IndInv'
  BY NextType, NextRejection, NextCache DEF IndInv
<1> QED BY <1>1, <1>2, PTL DEF Spec

\* However many hosts and providers there are, a request that one host rejected
\* as malformed (400, 404, 422) is over, and its client is told so.
THEOREM RejectionsAreFinal == Spec => []RejectionIsFinal
<1>1. IndInv => RejectionIsFinal
  BY DEF IndInv
<1> QED BY <1>1, Inductive, PTL

\* Whatever stands in for what, and whatever the limit of the cache, it is never
\* above it and holds only what the model it is filed under computed.
THEOREM CacheStaysSound == Spec => []CacheIsSound
<1>1. IndInv => CacheIsSound
  BY DEF IndInv
<1> QED BY <1>1, Inductive, PTL

\* However many requests fail while a circuit is open, and wherever, it closes
\* when it was going to.
THEOREM CircuitsClose == Spec => NeverProlonged
<1>1. TypeOK /\ [Next]_vars =>
        [\A m \in Model : CircuitOpen(breaker[m]) => breaker'[m].left <= breaker[m].left]_vars
  <2> SUFFICES ASSUME TypeOK, [Next]_vars, NEW m \in Model, CircuitOpen(breaker[m])
               PROVE  breaker'[m].left <= breaker[m].left
    OBVIOUS
  <2>1. breaker[m] \in BreakerType
    BY DEF TypeOK
  <2> QED BY <2>1, NextBreaker, ReachedNeverProlongs
<1> QED BY <1>1, Typed, PTL DEF Spec, NeverProlonged

=============================================================================
