------------------------------ MODULE Rotation ------------------------------
(***************************************************************************)
(* Client requests served over the shared key pool: _rotation_phase in     *)
(* openvidia/responses_shim.py, the four handlers that await it, the       *)
(* health check and the dashboard's edits of the pool.                     *)
(*                                                                         *)
(* One asyncio loop runs everything, so a step of this module is what one  *)
(* task does between two awaits.  A request moves through                  *)
(*                                                                         *)
(*   idle -> admitted -> hopping -> claimed -> sending -> serving -> done  *)
(*                                     ^          |                        *)
(*                                     |     answered (an error's body is  *)
(*                                     |          |       being read)      *)
(*                                     +-- backoff / pausing (asleep)      *)
(*                                                                         *)
(* with "claimed" waiting for the upstream semaphore and "serving" relaying*)
(* the body of a 200, on a key that stays claimed until the body ends.     *)
(***************************************************************************)
EXTENDS KeyPool, Breaker

CONSTANTS
  Request,          \* the client requests
  Route,            \* the handler of each request
  Replies,          \* what the upstream may answer in this instance
  Probers,          \* the health checks that run: "prewarm", "background"
  EditableKeys,     \* keys the dashboard adds and removes
  MaxAttempts,      \* _MAX_ROTATE_ATTEMPTS
  Passes,           \* passes over the candidates, range(3)
  MaxNetworkErrors, \* _MAX_NETWORK_ERRORS
  MaxExhaustedWaits,\* _MAX_EXHAUSTED_WAITS
  SemCap,           \* _UPSTREAM_CONCURRENCY_LIMIT
  None              \* no key

\* The catch-all proxy, /v1/messages streaming, /v1/responses streaming, and
\* /v1/responses without streaming.
Routes == {"catchall", "anthropic", "responses", "plain"}

\* A status, as the rotation loop tells them apart: exhausted is a 429 or 503
\* whose body says ResourceExhausted, reject is a deterministic status,
\* gateway a 502/503/504, auth a 401/403, rate a 429, other the rest.
ErrorStatus == {"exhausted", "reject", "gateway", "auth", "rate", "other"}
\* No status: no first byte in time, no connection, a broken exchange, and a
\* connection the server recycled (GOAWAY).
Trouble == {"slow", "noconnect", "broken", "goaway"}

ASSUME RotationSizes ==
  /\ IsFiniteSet(Request)
  /\ Route \in [Request -> Routes]
  /\ Replies \subseteq ErrorStatus \cup Trouble \cup {"ok"}
  /\ Probers \subseteq {"prewarm", "background"}
  /\ EditableKeys \subseteq Key
  /\ MaxAttempts \in Nat \ {0} /\ Passes \in Nat \ {0}
  /\ MaxNetworkErrors \in Nat \ {0} /\ MaxExhaustedWaits \in Nat
  /\ SemCap \in Nat \ {0}
  /\ None \notin Key

VARIABLES
  pc,      \* where each request stands
  claim,   \* the key a request holds a claim on, or None
  loop,    \* the local variables of its rotation phase
  gone,    \* its client hung up
  breaker, \* ModelHealth of the one model: failures in a row, ticks open
  probe    \* the keys each health check is probing, {} between checks

vars == <<poolVars, pc, claim, loop, gone, breaker, probe>>

\* cand[pos] is the candidate being tried; last is what the caller will read
\* in its outcome_box once the phase is over.
FreshLoop == [cand |-> <<>>, pos |-> 1, pass |-> 1, attempts |-> 0,
              waits |-> 0, net |-> 0, resent |-> FALSE, last |-> "none"]

Awaiting == {"hopping", "claimed", "sending", "answered", "backoff", "pausing"}
States == {"idle", "admitted", "serving", "done"} \cup Awaiting

LoopType ==
  [cand : Seq(Key), pos : Nat, pass : 1..Passes, attempts : 0..MaxAttempts,
   waits : 0..(MaxExhaustedWaits + 1), net : 0..MaxNetworkErrors,
   resent : BOOLEAN, last : ErrorStatus \cup {"none", "fault"}]

\* Type invariant: the pool's and the requests' state have their types.  The
\* attempt budget is never overdrawn and a refund never exceeds what was spent.
TypeOK ==
  /\ PoolTypeOK
  /\ pc \in [Request -> States]
  /\ claim \in [Request -> Key \cup {None}]
  /\ loop \in [Request -> LoopType]
  /\ gone \in [Request -> BOOLEAN]
  /\ breaker \in BreakerType
  /\ probe \in [Probers -> SUBSET Key]

Init ==
  /\ PoolInit
  /\ pc = [r \in Request |-> "idle"]
  /\ claim = [r \in Request |-> None]
  /\ loop = [r \in Request |-> FreshLoop]
  /\ gone = [r \in Request |-> FALSE]
  /\ breaker = AfterSuccess
  /\ probe = [p \in Probers |-> IF p = "prewarm" THEN Pool ELSE {}]

-----------------------------------------------------------------------------
(* One iteration of the rotation loop.                                     *)

Current(r) == loop[r].cand[loop[r].pos]

OnWire == {r \in Request : pc[r] = "sending"}
Queued == {r \in Request : pc[r] = "claimed"}

\* Mutant: the semaphore is not there.
NextSendUncapped(r) == "sending"

\* Entering the semaphore: at once when it has room and nobody waits for it.
NextSend(r) ==
  IF Cardinality(OnWire \ {r}) < SemCap /\ Queued \ {r} = {}
  THEN "sending" ELSE "claimed"

\* The phase ends without a reply.  The catch-all books one more failure of
\* the model, unless the upstream was merely full.
GiveUp(r, st, load, b) ==
  /\ pc' = [pc EXCEPT ![r] = "done"]
  /\ claim' = [claim EXCEPT ![r] = None]
  /\ loop' = [loop EXCEPT ![r] = [FreshLoop EXCEPT !.last = st.last]]
  /\ inFlight' = load
  /\ breaker' = IF Route[r] = "catchall" /\ st.last # "exhausted"
                THEN AfterFailure(b) ELSE b
  /\ UNCHANGED window

\* The loop reaches candidate j: it counts the send, then claims the key.
Take(r, st, load, b, j) ==
  /\ pc' = [pc EXCEPT ![r] = NextSend(r)]
  /\ claim' = [claim EXCEPT ![r] = st.cand[j]]
  /\ loop' = [loop EXCEPT ![r] = [st EXCEPT !.pos = j, !.resent = FALSE,
                                            !.attempts = @ + 1]]
  /\ RecordRequest(st.cand[j])
  /\ inFlight' = Claimed(load, st.cand[j])
  /\ breaker' = b

\* Asleep until the next pass (1.0 s) or the next candidate (0.5 s, 0.8 s).
Sleep(r, st, where, load, b) ==
  /\ pc' = [pc EXCEPT ![r] = where]
  /\ claim' = [claim EXCEPT ![r] = None]
  /\ loop' = [loop EXCEPT ![r] = st]
  /\ inFlight' = load
  /\ breaker' = b
  /\ UNCHANGED window

\* Mutants: an off-by-one on the ceiling; the pause as it was before the
\* failure that is being handled; a pass that is never counted.
FreeOffByOne(k) == cooldown'[k].left = 0 /\ Len(window[k]) <= ceiling'[k]
PausedBefore == throttle > 0
SamePass(st) == [st EXCEPT !.pos = 1]

\* The loop runs in a step that has already settled the health of the keys:
\* what it looks at is cooldown', ceiling' and throttle'.
Free(k) == cooldown'[k].left = 0 /\ Len(window[k]) < ceiling'[k]
Paused == throttle' > 0
NextPass(st) == [st EXCEPT !.pass = @ + 1, !.pos = 1]

\* The loop from candidate st.pos on.
Scan(r, st, load, b) ==
  LET rest  == {j \in 1..Len(st.cand) : j >= st.pos}
      free  == {j \in rest : Free(st.cand[j])}
      spent == rest # {} /\ st.attempts >= MaxAttempts
      stop  == rest # {} /\ Paused
  IN  \/ /\ spent
         /\ GiveUp(r, st, load, b)
      \/ /\ ~spent /\ stop
         /\ GiveUp(r, [st EXCEPT !.last = "rate"], load, b)
      \/ /\ ~spent /\ ~stop
         /\ \E j \in free : /\ \A i \in free : j <= i
                            /\ Take(r, st, load, b, j)
      \/ /\ ~spent /\ ~stop /\ free = {} /\ st.pass < Passes
         /\ Sleep(r, NextPass(st), "pausing", load, b)
      \/ /\ ~spent /\ ~stop /\ free = {} /\ st.pass = Passes
         /\ GiveUp(r, st, load, b)

-----------------------------------------------------------------------------
(* A request arrives, and gets its candidates.                             *)

KeepHealth == UNCHANGED healthVars
KeepRest == UNCHANGED <<keys, gone, probe>>
\* Nothing but the state of request r and the breaker changes.
KeepPool == UNCHANGED <<poolVars, claim, gone, probe>>

\* Answered 503 before any key is considered.
TurnAway(r) ==
  /\ pc' = [pc EXCEPT ![r] = "done"]
  /\ UNCHANGED <<keys, inFlight, window, healthVars, claim, loop, gone, probe>>

\* The circuit is open and there is no fallback: instant 503.
Refuse(r) ==
  /\ pc[r] = "idle" /\ Route[r] # "anthropic"
  /\ CircuitOpen(breaker)
  /\ TurnAway(r)
  /\ UNCHANGED breaker

\* /v1/responses reads the circuit, then awaits the compaction of the history.
Admit(r) ==
  /\ pc[r] = "idle" /\ Route[r] \in {"responses", "plain"}
  /\ ~CircuitOpen(breaker)
  /\ pc' = [pc EXCEPT ![r] = "admitted"]
  /\ breaker' = CircuitRead(breaker)
  /\ KeepPool /\ UNCHANGED loop

\* Where a request asks for its candidates from, and what the breaker is then:
\* the catch-all reads it in the same step, /v1/messages never does.
Ready(r) == IF Route[r] \in {"responses", "plain"} THEN pc[r] = "admitted"
            ELSE /\ pc[r] = "idle"
                 /\ Route[r] = "catchall" => ~CircuitOpen(breaker)

BreakerSeen(r) == IF Route[r] = "catchall" THEN CircuitRead(breaker) ELSE breaker

\* The shims give up when fewer than 1 in 20 keys (at least one) could send.
Saturated(c) ==
  LET live == {i \in DOMAIN c : HasRoom(c[i]) /\ ~OnCooldown(c[i])}
  IN  Len(keys) > 0 /\ Cardinality(live) < Larger(1, Len(keys) \div 20)

\* The phase is not entered: no candidate, or too few that could send.
Barred(r, c) == IF Route[r] = "catchall" THEN c = <<>>
                ELSE Saturated(c) \/ (Route[r] = "plain" /\ c = <<>>)

StartBarred(r) ==
  /\ Ready(r)
  /\ \E c \in Candidates : Barred(r, c)
  /\ TurnAway(r)
  /\ breaker' = breaker

\* Candidates and the first claim in one step: nothing is awaited in between.
StartDirect(r) ==
  /\ Ready(r) /\ Route[r] # "responses"
  /\ KeepHealth /\ KeepRest
  /\ \E c \in Candidates :
       /\ ~Barred(r, c)
       /\ Scan(r, [FreshLoop EXCEPT !.cand = c], inFlight, BreakerSeen(r))

\* /v1/responses streaming wraps the phase in a task (ensure_future), which
\* starts on a later turn of the loop, with the candidates of this one.
StartTask(r) ==
  /\ Ready(r) /\ Route[r] = "responses"
  /\ \E c \in Candidates :
       /\ ~Barred(r, c)
       /\ loop' = [loop EXCEPT ![r].cand = c]
  /\ pc' = [pc EXCEPT ![r] = "hopping"]
  /\ KeepPool /\ UNCHANGED breaker

Resume(r) ==
  /\ pc[r] \in {"hopping", "pausing", "backoff"}
  /\ KeepHealth /\ KeepRest
  /\ Scan(r, loop[r], inFlight, breaker)

\* The semaphore lets a waiting request through.
Send(r) ==
  /\ pc[r] = "claimed" /\ Cardinality(OnWire) < SemCap
  /\ pc' = [pc EXCEPT ![r] = "sending"]
  /\ KeepPool /\ UNCHANGED <<loop, breaker>>

-----------------------------------------------------------------------------
(* The upstream answers.                                                   *)

\* Mutant: after a failure the same candidate is tried once more.
SameCandidate(r) == loop[r]

\* Next to consider is the candidate after the current one.
Advanced(r) == [loop[r] EXCEPT !.pos = @ + 1]
\* The claim is given back.
Unclaimed(r) == Released(inFlight, claim[r])

\* A 200 ends the phase and keeps the claim while the body is relayed; a task
\* whose stream is gone hands it to nobody.
ReplyOk(r) ==
  /\ pc[r] = "sending" /\ "ok" \in Replies
  /\ pc' = [pc EXCEPT ![r] = IF gone[r] THEN "done" ELSE "serving"]
  /\ loop' = [loop EXCEPT ![r] = FreshLoop]
  /\ breaker' = AfterSuccess
  /\ KeepPool

\* The first GOAWAY on an attempt is answered by sending again on the same key.
Goaway(r) ==
  /\ pc[r] = "sending" /\ "goaway" \in Replies /\ ~loop[r].resent
  /\ pc' = [pc EXCEPT ![r] = NextSend(r)]
  /\ loop' = [loop EXCEPT ![r].resent = TRUE]
  /\ KeepPool /\ UNCHANGED breaker

\* ReadTimeout: the model is too slow.  The break leaves the loop over the
\* candidates only, so the next pass begins.
TooSlow(r) ==
  /\ pc[r] = "sending" /\ "slow" \in Replies
  /\ KeepHealth /\ KeepRest
  /\ Scan(r, [loop[r] EXCEPT !.pos = Len(loop[r].cand) + 1, !.last = "fault"],
          Unclaimed(r), AfterFailure(breaker))

\* Mutant: the network's failure is held against the key.
NoConnectionBlamed(r) ==
  /\ pc[r] = "sending" /\ "noconnect" \in Replies
  /\ MarkKeyFailed(claim[r], "other") /\ KeepRest
  /\ Scan(r, Advanced(r), Unclaimed(r), breaker)

\* ConnectError, ConnectTimeout: the network's fault.  The count of them is
\* never reset within a phase.
NoConnection(r) ==
  /\ pc[r] = "sending" /\ "noconnect" \in Replies
  /\ KeepHealth /\ KeepRest
  /\ LET st == [Advanced(r) EXCEPT !.net = @ + 1, !.last = "fault"]
     IN  IF st.net >= MaxNetworkErrors
         THEN GiveUp(r, st, Unclaimed(r), breaker)
         ELSE Sleep(r, st, "backoff", Unclaimed(r), breaker)

\* Any other transport error, a second GOAWAY included, is blamed on the key.
Broken(r) ==
  /\ pc[r] = "sending"
  /\ "broken" \in Replies \/ ("goaway" \in Replies /\ loop[r].resent)
  /\ MarkKeyFailed(claim[r], "other") /\ KeepRest
  /\ Scan(r, [Advanced(r) EXCEPT !.last = "fault"], Unclaimed(r), breaker)

\* Mutant: the claim is forgotten, its load is not taken back.
ReplyErrorKeepingLoad(r, s) ==
  /\ pc[r] = "sending"
  /\ pc' = [pc EXCEPT ![r] = "answered"]
  /\ loop' = [loop EXCEPT ![r].last = s]
  /\ claim' = [claim EXCEPT ![r] = None]
  /\ UNCHANGED <<poolVars, gone, breaker, probe>>

\* Any status but 200: the claim is given back, then the body is awaited.
ReplyError(r, s) ==
  /\ pc[r] = "sending"
  /\ pc' = [pc EXCEPT ![r] = "answered"]
  /\ loop' = [loop EXCEPT ![r].last = s]
  /\ claim' = [claim EXCEPT ![r] = None]
  /\ inFlight' = Unclaimed(r)
  /\ UNCHANGED <<keys, window, healthVars, gone, breaker, probe>>

\* Mutant: full workers scored against the model before they are told apart.
ExhaustedScored(r) ==
  /\ pc[r] = "answered" /\ loop[r].last = "exhausted"
  /\ KeepHealth /\ KeepRest
  /\ Sleep(r, Advanced(r), "backoff", inFlight, AfterFailure(breaker))

\* Mutant: the attempt is refunded twice.
ExhaustedRefundedTwice(r) ==
  /\ pc[r] = "answered" /\ loop[r].last = "exhausted"
  /\ KeepHealth /\ KeepRest
  /\ Sleep(r, [Advanced(r) EXCEPT !.attempts = @ - 2], "backoff", inFlight, breaker)

\* The workers upstream are full: nobody's fault, and the attempt is refunded.
Exhausted(r) ==
  /\ pc[r] = "answered" /\ loop[r].last = "exhausted"
  /\ KeepHealth /\ KeepRest
  /\ LET st == [Advanced(r) EXCEPT !.waits = @ + 1]
     IN  IF st.waits > MaxExhaustedWaits
         THEN GiveUp(r, st, inFlight, breaker)
         ELSE Sleep(r, [st EXCEPT !.attempts = @ - 1], "backoff", inFlight, breaker)

\* The request is wrong: the same answer would come from every key.
Rejected(r) ==
  /\ pc[r] = "answered" /\ loop[r].last = "reject"
  /\ KeepHealth /\ KeepRest
  /\ GiveUp(r, loop[r], inFlight, AfterFailure(breaker))

\* The provider gave up on the model: the key rests 30s, the attempt is refunded.
GatewayTimeout(r) ==
  /\ pc[r] = "answered" /\ loop[r].last = "gateway"
  /\ MarkKeyFailed(Current(r), "other") /\ KeepRest
  /\ Scan(r, [Advanced(r) EXCEPT !.attempts = @ - 1], inFlight,
          AfterFailure(breaker))

\* Every other status is the key's fault.
KeyFault(r) ==
  /\ pc[r] = "answered" /\ loop[r].last \in {"auth", "rate", "other"}
  /\ MarkKeyFailed(Current(r), loop[r].last) /\ KeepRest
  /\ Scan(r, Advanced(r), inFlight, AfterFailure(breaker))

-----------------------------------------------------------------------------
(* The reply ends, or the client hangs up.                                 *)

\* Mutant: the release is not in the finally block.
FinishKeepingClaim(r) ==
  /\ pc' = [pc EXCEPT ![r] = "done"]
  /\ KeepPool /\ UNCHANGED <<loop, breaker>>

\* The claim is given back as the request ends.
Finish(r) ==
  /\ pc' = [pc EXCEPT ![r] = "done"]
  /\ claim' = [claim EXCEPT ![r] = None]
  /\ loop' = [loop EXCEPT ![r] = FreshLoop]
  /\ inFlight' = IF claim[r] = None THEN inFlight ELSE Unclaimed(r)
  /\ UNCHANGED <<keys, window, healthVars, gone, breaker, probe>>

\* The body has been relayed, or the client of a stream hung up meanwhile.
ServeEnd(r) == pc[r] = "serving" /\ Finish(r)

\* A 200 without a JSON body: resp.json() raises before the claim is released.
UnreadableReply(r) ==
  /\ pc[r] = "serving" /\ Route[r] = "plain"
  /\ pc' = [pc EXCEPT ![r] = "done"]
  /\ KeepPool /\ UNCHANGED <<loop, breaker>>

\* The client hangs up during the phase.  /v1/messages awaits it in the stream
\* itself, which is cancelled; the task of /v1/responses is shielded and goes
\* on; the two other handlers do not notice.
HangUp(r) ==
  /\ pc[r] \in Awaiting
  /\ \/ Route[r] = "anthropic" /\ Finish(r)
     \/ /\ Route[r] = "responses" /\ ~gone[r]
        /\ gone' = [gone EXCEPT ![r] = TRUE]
        /\ UNCHANGED <<poolVars, pc, claim, loop, breaker, probe>>

-----------------------------------------------------------------------------
(* The health check, the dashboard and the clock.                          *)

OnlyPool == UNCHANGED <<pc, claim, loop, gone, breaker>>

\* Once a minute: old failures decay, then the cooldowns that are nearly over
\* are probed.  (The pre-warm is under way from the start, see Init.)
ProbeStart(p) ==
  /\ p = "background" /\ probe[p] = {}
  /\ probe' = [probe EXCEPT ![p] = ProbeTargets]
  /\ \E S \in SUBSET {k \in Pool : fails[k] > 0} : Decay(S)
  /\ UNCHANGED <<keys, valid, inFlight, cooldown, window, ceiling, strikes, throttle>>
  /\ OnlyPool

\* All probes are in: the keys that answered are restored, and the pre-warm
\* blames the others.
ProbeEnd(p) ==
  /\ probe[p] # {}
  /\ \E reachable \in SUBSET probe[p] :
       ApplyProbe(reachable, IF p = "prewarm" THEN probe[p] \ reachable ELSE {})
  /\ probe' = [probe EXCEPT ![p] = {}]
  /\ OnlyPool

AddKey(k) ==
  /\ k \in EditableKeys \ Pool
  /\ SetKeys(Append(keys, k))
  /\ OnlyPool /\ UNCHANGED probe

RemoveKey(k) ==
  /\ k \in EditableKeys
  /\ \E i \in DOMAIN keys : keys[i] = k /\ SetKeys(Without(keys, i))
  /\ OnlyPool /\ UNCHANGED probe

Tick ==
  /\ PoolTick
  /\ breaker' = BreakerAged(breaker)
  /\ UNCHANGED <<pc, claim, loop, gone, probe>>

-----------------------------------------------------------------------------
Arrive(r) == Refuse(r) \/ Admit(r) \/ StartBarred(r) \/ StartDirect(r) \/ StartTask(r)

Answer(r) ==
  \/ ReplyOk(r) \/ Goaway(r) \/ TooSlow(r) \/ NoConnection(r) \/ Broken(r)
  \/ \E s \in ErrorStatus \cap Replies : ReplyError(r, s)

Handle(r) == Exhausted(r) \/ Rejected(r) \/ GatewayTimeout(r) \/ KeyFault(r)

\* What the proxy does for a request once it has begun its phase.
Proceed(r) == Resume(r) \/ Send(r) \/ Answer(r) \/ Handle(r)

Environment ==
  \/ \E p \in Probers : ProbeStart(p) \/ ProbeEnd(p)
  \/ \E k \in EditableKeys : AddKey(k) \/ RemoveKey(k)
  \/ Tick

Next ==
  \/ \E r \in Request : \/ Arrive(r) \/ Proceed(r)
                        \/ ServeEnd(r) \/ UnreadableReply(r) \/ HangUp(r)
  \/ Environment

Spec == Init /\ [][Next]_vars

\* asyncio runs every ready task, its sleeps end, and httpx's timeouts give
\* every send an outcome; a request that was admitted goes on to its phase.
FairSpec ==
  /\ Spec
  /\ \A r \in Request :
       /\ WF_vars(pc[r] = "admitted" /\ Arrive(r))
       /\ WF_vars(Proceed(r))

-----------------------------------------------------------------------------
(* Properties.                                                             *)

Holders(k) == {r \in Request : claim[r] = k}

\* The load a key is charged with (begin_in_flight, end_in_flight) is never
\* more than the claims on it that nobody has given back: adding and removing
\* keys while requests hold them leaves no load behind that no claim accounts
\* for.  A claim that a request leaks as it ends (the shielded task of
\* /v1/responses, a reply that is not JSON) counts as not given back: that such
\* a request still charges its key is what NoClaimOutlivesItsRequest shows.
NoPhantomLoad == \A k \in Key : inFlight[k] <= Cardinality(Holders(k))

\* While nobody edits the pool the load is exactly the number of requests that
\* hold the key: no claim is lost either, so no busy key looks idle.
ExactLoad == \A k \in Key : inFlight[k] = Cardinality(Holders(k))

\* A request holds a claim exactly while it waits for the upstream or relays a
\* reply: on every way out of _rotation_phase and of the stream after it, a
\* client that hangs up included, the claim is given back exactly once.
ClaimsReleased ==
  \A r \in Request :
    claim[r] # None <=> pc[r] \in {"claimed", "sending", "serving"}

\* The sends remembered for a key (record_request before every attempt) never
\* exceed MAX_RPM in a window, however many requests race for the key.
RpmRespected == \A k \in Key : Len(window[k]) <= MaxRpm

\* Why NoPhantomLoad is preserved, together with TypeOK and RpmRespected: a
\* request that is sent or answered has a candidate and an attempt behind it,
\* one that is not has no claim, and a key out of the pool carries no load.
\* The claims of /v1/responses may outlive their request, the others do not.
ClaimsMatchState ==
  \A r \in Request :
    /\ pc[r] \in {"claimed", "sending", "serving"} => claim[r] # None
    /\ pc[r] \in {"claimed", "sending", "answered"}
       => loop[r].attempts >= 1 /\ loop[r].pos \in 1..Len(loop[r].cand)
    /\ pc[r] \in {"idle", "admitted", "hopping", "answered", "backoff", "pausing"}
       => claim[r] = None
    /\ pc[r] = "done" /\ Route[r] \in {"catchall", "anthropic"} => claim[r] = None
    /\ gone[r] => Route[r] = "responses"

Fits(load, held) ==
  \A k \in Key : /\ load[k] <= Cardinality({r \in Request : held[r] = k})
                 /\ k \notin Pool => load[k] = 0

\* The inductive invariant of the theorems in RotationProof.
IndInv ==
  /\ TypeOK
  /\ ClaimsMatchState
  /\ Fits(inFlight, claim)
  /\ \A k \in Key : InOrder(window[k])
  /\ RpmRespected

\* No two sends beyond the semaphore's cap are waiting for their headers.
SemaphoreRespected == Cardinality(OnWire) <= SemCap

CanServe(k) == k \in Pool /\ valid[k] /\ ~OnCooldown(k) /\ HasRoom(k)

\* A phase that begins takes a key no other usable key is cheaper than, as the
\* pool is at that very moment: N requests that arrive together spread over
\* the pool (get_candidate_keys and the claim before the send).
LeastLoadedFirst ==
  [][\A r \in Request :
       pc[r] \in {"idle", "admitted", "hopping"} /\ claim[r] # claim'[r]
       => \A k \in Key : CanServe(k) => Cost(claim'[r]) <= Cost(k)]_vars

\* A request that takes a key takes one that was not cooling down, in a step
\* after which the pool is not paused: not even the request whose own 429
\* pauses the pool goes on to spend another key.
NoClaimWhilePaused ==
  [][\A r \in Request :
       claim'[r] \notin {claim[r], None}
       => throttle' = 0 /\ cooldown'[claim'[r]].left = 0]_vars

\* A step leaves a key worse off: one more failure, a longer cooldown, its
\* validity lost or its ceiling lowered.
Worse(k) ==
  \/ fails'[k] > fails[k]
  \/ cooldown'[k].left > cooldown[k].left
  \/ valid[k] /\ ~valid'[k]
  \/ ceiling'[k] < ceiling[k]

\* What the step costs the key is what the status s of its answer costs: the
\* validity for a 401 or 403 only, half the ceiling for a 429 only.
Costs(k, s) ==
  /\ s = "auth" \/ valid'[k] = valid[k]
  /\ s = "rate" \/ ceiling'[k] = ceiling[k]
  /\ cooldown'[k].status = IF s = "gateway" THEN "other" ELSE s

\* Request r handles the error status s that key k itself has answered.
Handles(r, k, s) ==
  pc[r] = "answered" /\ pc'[r] # "answered" /\ Current(r) = k /\ loop[r].last = s

\* No step leaves a key worse off but one that handles what this very key did:
\* a status it answered, though its claim has been given back and other requests
\* have used it or edited it out of the pool since, an exchange it broke off, or
\* the pre-warm it did not answer.  A model too slow for a first byte, a dead
\* network, full workers and a malformed request met on a key cost no key
\* anything.  A gateway timeout does cost the key a failure and a rest, as
\* mark_key_failed is called for it, though the comment on _GATEWAY_TIMEOUTS says
\* it must not be charged to the key.
BlamelessKeys ==
  [][\A k \in Key : Worse(k) =>
       \/ \E r \in Request, s \in {"gateway", "auth", "rate", "other"} :
            Handles(r, k, s) /\ Costs(k, s)
       \/ \E r \in Request : claim[r] = k /\ Broken(r) /\ Costs(k, "other")
       \/ \E p \in Probers : p = "prewarm" /\ k \in probe[p] /\ probe'[p] = {}]_vars

\* Full upstream workers are no failure of the model: neither the loop nor the
\* handler that gives up after it counts them towards opening its circuit.
FullWorkersAreNoFailure ==
  [][\A r \in Request :
       /\ loop[r].last = "exhausted" /\ loop'[r].last = "exhausted"
       /\ pc'[r] # pc[r]
       => breaker'.fails <= breaker.fails]_vars

\* How far a phase has come: the pass and the candidate it is at, and how often
\* it has come to send on that one.
At(r) == <<loop[r].pass, loop[r].pos>>
Stage(r) ==
  CASE pc[r] = "claimed"  -> IF loop[r].resent THEN 3 ELSE 1
    [] pc[r] = "sending"  -> IF loop[r].resent THEN 4 ELSE 2
    [] pc[r] = "answered" -> 5
    [] OTHER              -> 0

\* A phase only ever gets further in the list it began with, whatever fails and
\* whatever the others do to the pool meanwhile: no refund of an attempt, no
\* resend after a GOAWAY and no sleep brings it back to a candidate it has
\* tried in the same pass, so the refunded attempts cannot keep it going.
PhaseMovesOn ==
  [][\A r \in Request :
       pc[r] \in Awaiting /\ pc'[r] \in Awaiting
       => /\ loop'[r].cand = loop[r].cand
          /\ \/ pc'[r] = pc[r] /\ loop'[r] = loop[r]
             \/ /\ loop'[r].pos <= Len(loop[r].cand) + 1
                /\ \/ Before(At(r), At(r)')
                   \/ At(r) = At(r)' /\ Stage(r) < Stage(r)']_vars

\* Every request that is admitted ends, or is being relayed a reply: however
\* the upstream answers, the refunded attempts never make a phase endless.
Answered ==
  \A r \in Request : pc[r] # "idle" ~> pc[r] \in {"serving", "done"}

-----------------------------------------------------------------------------
(* What comments of the source say and the code does not do.               *)

\* Once a request is over it charges no key: a claim is released in a finally
\* block by every caller, however its client left.
NoClaimOutlivesItsRequest == \A r \in Request : pc[r] = "done" => claim[r] = None

\* A key rejected by a 401 or 403 is not revived by a health check: what the
\* metadata endpoint answers says nothing about it.
DeadKeysStayDead ==
  [][\A k \in Pool : keys' = keys /\ ~valid[k] => ~valid'[k]]_vars
=============================================================================
