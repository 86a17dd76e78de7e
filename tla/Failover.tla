------------------------------ MODULE Failover ------------------------------
(***************************************************************************)
(* What the catch-all handler of openvidia/proxy_app.py does around the    *)
(* rotation phase: the cache of embeddings, the circuit of the model and   *)
(* the preset that stands in for it, the upstream hosts tried one after    *)
(* another (upstream_router.py), the free providers asked when all of them *)
(* failed (provider_fallback.py), and the dashboard's fallback switch.     *)
(*                                                                         *)
(* The pool is left out: a phase is a number of attempts that end as the   *)
(* upstream pleases, and that ends, itself, after any of them.             *)
(***************************************************************************)
EXTENDS Breaker, Sequences, FiniteSets

CONSTANTS
  Request,        \* requests in flight at once
  Model,          \* model identifiers
  Kind,           \* of each request: chat completions or embeddings
  Asked,          \* the models they ask for (and one text to embed)
  Presets,        \* load_saved_presets(), a sequence of models
  HostCount,      \* hosts of upstream_endpoints(): 1, the preferred one, to HostCount
  BaseHost,       \* the one that is UPSTREAM_BASE, 0 when it is none of them
  HostRetry,      \* ENDPOINT_RETRY_AFTER, in ticks
  ProviderCount,  \* providers of providers.json with a key
  CacheMax,       \* max_entries of the embeddings cache
  CacheTtl,       \* its ttl_s, in ticks
  Switched,       \* models the dashboard sets the switch for; Nobody: for all
  Settings,       \* what it may set it to in this instance
  Nobody          \* no model

ASSUME FailoverSizes ==
  /\ IsFiniteSet(Model) /\ Nobody \notin Model
  /\ Kind \in [Request -> {"chat", "embeddings"}]
  /\ Asked \subseteq Model /\ Asked # {}
  /\ Presets \in Seq(Model)
  /\ HostCount \in Nat \ {0} /\ BaseHost \in 0..HostCount
  /\ HostRetry \in Nat \ {0} /\ ProviderCount \in Nat
  /\ CacheMax \in Nat \ {0} /\ CacheTtl \in Nat \ {0}
  /\ Switched \subseteq Model \cup {Nobody}
  /\ Settings \subseteq {"off", "on", "auto"}

VARIABLES
  pc,       \* done (none yet), trying, asking (providers)
  ask,      \* the model each request asked for
  model,    \* payload["model"]: the model it is sent to
  hosts,    \* the hosts it has not given up on; the first is being tried
  left,     \* the providers it has not asked yet
  box,      \* its outcome_box, shared by the phases of all hosts
  reply,    \* whether its client is told that its request was rejected
  breaker,  \* ModelHealth of each model
  blocked,  \* ticks each host stays blacklisted
  mode,     \* the fallback switch of each model; Nobody's is for all
  cache     \* for each model, whose embeddings are kept, and for how long

reqVars == <<pc, ask, model, hosts, left, box, reply>>
vars == <<reqVars, breaker, blocked, mode, cache>>

Host == 1..HostCount

\* How an attempt fails: a 5xx or no first byte in time, no connection for the
\* third time, a 401, 403 or 429, a deterministic status, full workers, a broken
\* exchange.
Failures == {"fault", "unreachable", "client", "reject", "exhausted", "broken"}

\* The failures that record_model_result is told of.
Booked == {"fault", "client", "reject"}

\* What is left in the box: no status, one of 500 or more, one below, and the
\* two that are flagged.
Recorded(s) == CASE s \in {"fault", "unreachable"} -> "dead"
                 [] s = "client" -> "other"
                 [] s = "broken" -> "none"
                 [] OTHER -> s
Outcomes == {"none", "dead", "other", "reject", "exhausted"}

NoEntry == [by |-> Nobody, left |-> 0]
Cached == {m \in Model : cache[m].by # Nobody}

\* Type invariant: the state has its types.
TypeOK ==
  /\ pc \in [Request -> {"trying", "asking", "done"}]
  /\ ask \in [Request -> Asked]
  /\ model \in [Request -> Model]
  /\ hosts \in [Request -> SUBSET (0..HostCount)]
  /\ left \in [Request -> 0..ProviderCount]
  /\ box \in [Request -> Outcomes]
  /\ reply \in [Request -> {"rejected", "other"}]
  /\ breaker \in [Model -> BreakerType]
  /\ blocked \in [Host -> 0..HostRetry]
  /\ mode \in [Model \cup {Nobody} -> {"off", "on", "auto", "inherit"}]
  /\ cache \in [Model -> [by : Model \cup {Nobody}, left : 0..CacheTtl]]
  /\ \A r \in Request : pc[r] = "trying" => hosts[r] # {}

\* What a request that is over was about no longer matters.
AnyAsk == CHOOSE m \in Asked : TRUE

Init ==
  /\ pc = [r \in Request |-> "done"]
  /\ ask = [r \in Request |-> AnyAsk]
  /\ model = [r \in Request |-> AnyAsk]
  /\ hosts = [r \in Request |-> {}]
  /\ left = [r \in Request |-> 0]
  /\ box = [r \in Request |-> "none"]
  /\ reply = [r \in Request |-> "other"]
  /\ breaker = [m \in Model |-> AfterSuccess]
  /\ blocked = [h \in Host |-> 0]
  /\ mode = [m \in Model \cup {Nobody} |-> IF m = Nobody THEN "off" ELSE "inherit"]
  /\ cache = [m \in Model |-> NoEntry]

-----------------------------------------------------------------------------
(* A request arrives.                                                      *)

Arriving(r) == pc[r] = "done"

Fresh(m) == m \in Cached /\ cache[m].left > 0

\* Answered before anything is sent.
Turned(r) ==
  /\ Arriving(r)
  /\ box' = [box EXCEPT ![r] = "none"]
  /\ reply' = [reply EXCEPT ![r] = "other"]
  /\ UNCHANGED <<pc, ask, model, hosts, left, breaker, blocked, mode>>

Embeds(r) == Kind[r] = "embeddings"

\* The same text was embedded by this model a short while ago.
Hit(r, m) ==
  /\ Embeds(r) /\ Fresh(m)
  /\ Turned(r)
  /\ UNCHANGED cache

\* Not answered from the cache: an entry that is found expired is dropped.
Miss(r, m) ==
  /\ Embeds(r) => ~Fresh(m)
  /\ cache' = IF Embeds(r) THEN [cache EXCEPT ![m] = NoEntry] ELSE cache

\* The pool has no valid key.
NoKeys(r, m) == Miss(r, m) /\ Turned(r)

\* What the dashboard's switch says for model m.
ModeOf(m) == IF mode[m] = "inherit" THEN mode[Nobody] ELSE mode[m]

\* The presets a request for model m may be handed to, by their place.
StandIns(m) == {i \in DOMAIN Presets : Presets[i] # m /\ ~CircuitOpen(breaker[Presets[i]])}

\* The circuit of the model is open, and no other may or can stand in.
Refuse(r, m) ==
  /\ CircuitOpen(breaker[m])
  /\ ModeOf(m) = "off" \/ StandIns(m) = {}
  /\ Miss(r, m) /\ Turned(r)

\* healthy_endpoints(), as it is when the request starts.
Healthy == {h \in Host : blocked[h] = 0}

\* Mutant: nothing is tried when every host is blacklisted.
HealthyOnly == Healthy

\* The hosts a request tries, one after another.
HostsToTry == IF Healthy = {} THEN {BaseHost} ELSE Healthy

\* A request for model m goes to model n.
Begin(r, m, n) ==
  /\ Arriving(r) /\ Miss(r, m)
  /\ pc' = [pc EXCEPT ![r] = "trying"]
  /\ ask' = [ask EXCEPT ![r] = m]
  /\ model' = [model EXCEPT ![r] = n]
  /\ hosts' = [hosts EXCEPT ![r] = HostsToTry]
  /\ box' = [box EXCEPT ![r] = "none"]
  /\ reply' = [reply EXCEPT ![r] = "other"]
  /\ breaker' = [breaker EXCEPT ![n] = CircuitRead(@)]
  /\ UNCHANGED <<left, blocked, mode>>

Start(r, m) == ~CircuitOpen(breaker[m]) /\ Begin(r, m, m)

\* The first preset whose circuit is closed stands in.
Substitute(r, m) ==
  /\ CircuitOpen(breaker[m]) /\ ModeOf(m) # "off"
  /\ \E i \in StandIns(m) : /\ \A j \in StandIns(m) : i <= j
                            /\ Begin(r, m, Presets[i])

-----------------------------------------------------------------------------
(* Attempts, and the phases they make up.                                  *)

Current(r) == CHOOSE h \in hosts[r] : \A g \in hosts[r] : h <= g

Answered(r, how) ==
  /\ pc' = [pc EXCEPT ![r] = "done"]
  /\ ask' = [ask EXCEPT ![r] = AnyAsk]
  /\ model' = [model EXCEPT ![r] = AnyAsk]
  /\ reply' = [reply EXCEPT ![r] = how]
  /\ hosts' = [hosts EXCEPT ![r] = {}]
  /\ left' = [left EXCEPT ![r] = 0]

\* All hosts have failed, with outcome s in the box: one more failure is booked
\* on the model, whose breaker is b, unless its workers were merely full.
AllFailed(r, s, b) ==
  LET booked == IF s = "exhausted" THEN b ELSE AfterFailure(b)
      asking == ~Embeds(r) /\ ProviderCount > 0
      book(x) == breaker' = [breaker EXCEPT ![model[r]] = x]
      \* of an outcome nobody looks at again only a rejection is kept
      kept == IF s = "reject" THEN s ELSE "none"
  IN  /\ box' = [box EXCEPT ![r] = kept]
      /\ \/ /\ s = "reject"
            /\ Answered(r, "rejected") /\ book(booked)
         \* the account-wide pause
         \/ /\ s # "reject"
            /\ Answered(r, "other") /\ book(booked)
         \/ /\ s # "reject" /\ asking
            /\ pc' = [pc EXCEPT ![r] = "asking"]
            /\ hosts' = [hosts EXCEPT ![r] = {}]
            /\ left' = [left EXCEPT ![r] = ProviderCount]
            /\ book(booked)
            /\ UNCHANGED <<ask, model, reply>>
         \/ /\ s # "reject" /\ ~asking
            /\ Answered(r, "other") /\ book(CircuitRead(booked))

\* Mutant: a rejected request is tried on the other hosts too.
NeverStops(s) == FALSE

\* A request that was rejected would be rejected by every host.
Stops(s) == s = "reject"

\* The phase on the current host is over, with outcome s in the box.
PhaseOver(r, s, b) ==
  LET h == Current(r)
  IN  /\ blocked' = IF s = "dead" /\ h \in Host
                    THEN [blocked EXCEPT ![h] = HostRetry] ELSE blocked
      /\ \/ /\ ~Stops(s) /\ hosts[r] # {h}
            /\ hosts' = [hosts EXCEPT ![r] = @ \ {h}]
            /\ box' = [box EXCEPT ![r] = s]
            /\ breaker' = [breaker EXCEPT ![model[r]] = b]
            /\ UNCHANGED <<pc, ask, model, left, reply>>
         \/ /\ Stops(s) \/ hosts[r] = {h}
            /\ AllFailed(r, s, b)
      /\ UNCHANGED <<mode, cache>>

\* The phase goes on to the next key, or the next pass.
PhaseGoesOn(r, s, b) ==
  /\ box' = [box EXCEPT ![r] = s]
  /\ breaker' = [breaker EXCEPT ![model[r]] = b]
  /\ UNCHANGED <<pc, ask, model, hosts, left, reply, blocked, mode, cache>>

\* An attempt fails.
Fail(r, s) ==
  /\ pc[r] = "trying"
  /\ LET b == IF s \in Booked THEN AfterFailure(breaker[model[r]]) ELSE breaker[model[r]]
     IN  \/ PhaseOver(r, Recorded(s), b)
         \/ s \notin {"reject", "unreachable"} /\ PhaseGoesOn(r, Recorded(s), b)

\* The phase ends where nothing more was sent: no key left, no attempt left.
\* Nothing is recorded, and the box holds what it held: after a phase that sent
\* nothing at all, the outcome of the host before.
RunOut(r) == pc[r] = "trying" /\ PhaseOver(r, box[r], breaker[model[r]])

\* The account-wide pause ends the phase, and with it that of every other host.
Throttled(r) ==
  /\ pc[r] = "trying"
  /\ Answered(r, "other")
  /\ box' = [box EXCEPT ![r] = "none"]
  /\ breaker' = [breaker EXCEPT ![model[r]] = AfterFailure(@)]
  /\ UNCHANGED <<blocked, mode, cache>>

\* A 200: the circuit of the model is closed, and the host is off the blacklist.
Succeeds(r) ==
  /\ pc[r] = "trying"
  /\ Answered(r, "other")
  /\ breaker' = [breaker EXCEPT ![model[r]] = AfterSuccess]
  /\ blocked' = [h \in Host |-> IF h = Current(r) THEN 0 ELSE blocked[h]]
  /\ box' = [box EXCEPT ![r] = "none"]
  /\ UNCHANGED mode

\* The body of a chat is relayed as it comes (Rotation).
Ok(r) == ~Embeds(r) /\ Succeeds(r) /\ UNCHANGED cache

-----------------------------------------------------------------------------
(* The cache of embeddings, and the providers.                             *)

CacheStep == IF CacheMax >= 20 THEN CacheMax \div 10 ELSE 1

\* Mutant: the body is kept under the model that was asked for.
FiledUnderAsked(r) == ask[r]

\* It is kept under the model it was asked of.
FiledUnder(r) == model[r]

\* What a full cache loses before it takes one more: its oldest tenth.
Pruned(old) ==
  IF Cardinality(Cached) < CacheMax THEN old = {}
  ELSE /\ Cardinality(old) = CacheStep
       /\ \A m \in old, k \in Cached \ old : cache[m].left <= cache[k].left

\* The body of embeddings has been read by the send itself, as a part of the
\* attempt (stream is FALSE), and is kept.
Keep(r) ==
  /\ Embeds(r) /\ Succeeds(r)
  /\ \E old \in SUBSET Cached :
       /\ Pruned(old)
       /\ cache' = [m \in Model |->
            IF m = FiledUnder(r) THEN [by |-> model[r], left |-> CacheTtl]
            ELSE IF m \in old THEN NoEntry ELSE cache[m]]

\* The next provider answers, or not; none is left.
AskProvider(r) ==
  /\ pc[r] = "asking" /\ left[r] > 0
  /\ \/ /\ Answered(r, "other")
        /\ UNCHANGED breaker
     \/ /\ left[r] > 1
        /\ left' = [left EXCEPT ![r] = @ - 1]
        /\ UNCHANGED <<pc, ask, model, hosts, reply, breaker>>
     \/ /\ left[r] = 1
        /\ Answered(r, "other")
        /\ breaker' = [breaker EXCEPT ![model[r]] = CircuitRead(@)]
  /\ UNCHANGED <<box, blocked, mode, cache>>

-----------------------------------------------------------------------------
(* The dashboard, and the clock.                                           *)

\* api_set_fallback: "auto" for a model forgets what was set for it.
SetFallback(m, v) ==
  /\ mode' = [mode EXCEPT ![m] = IF v = "auto" /\ m # Nobody THEN "inherit" ELSE v]
  /\ UNCHANGED <<reqVars, breaker, blocked, cache>>

Less(n) == IF n = 0 THEN 0 ELSE n - 1

Tick ==
  /\ breaker' = [m \in Model |-> BreakerAged(breaker[m])]
  /\ blocked' = [h \in Host |-> Less(blocked[h])]
  /\ cache' = [m \in Model |-> [cache[m] EXCEPT !.left = Less(@)]]
  /\ UNCHANGED <<reqVars, mode>>

Arrive(r, m) ==
  Hit(r, m) \/ NoKeys(r, m) \/ Refuse(r, m) \/ Start(r, m) \/ Substitute(r, m)

Proceed(r) ==
  \/ \E s \in Failures : Fail(r, s)
  \/ RunOut(r) \/ Throttled(r) \/ Ok(r)
  \/ Keep(r) \/ AskProvider(r)

Next ==
  \/ \E r \in Request : Proceed(r) \/ \E m \in Asked : Arrive(r, m)
  \/ \E m \in Switched, v \in Settings : SetFallback(m, v)
  \/ Tick

Spec == Init /\ [][Next]_vars

-----------------------------------------------------------------------------
(* Properties.                                                             *)

\* A request the upstream rejected as malformed is sent to no other host and no
\* provider, and its client is answered with the rejection: never with a
\* status that invites it to try again.
RejectionIsFinal ==
  \A r \in Request : box[r] = "reject" => pc[r] = "done" /\ reply[r] = "rejected"

\* Embeddings are only kept under the name of the model that computed them,
\* whichever preset stood in for the one that was asked for, and the cache never
\* holds more than its limit: what is found in it is what the upstream would say.
CacheIsSound ==
  /\ \A m \in Cached : cache[m].by = m
  /\ Cardinality(Cached) <= CacheMax

\* An open circuit is never kept open longer by the requests that were on their
\* way, to any host, when it opened and go on failing: it closes when it said
\* it would, and the model gets another chance.
NeverProlonged ==
  [][\A m \in Model :
       CircuitOpen(breaker[m]) => breaker'[m].left <= breaker[m].left]_vars
=============================================================================
