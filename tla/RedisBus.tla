------------------------------ MODULE RedisBus ------------------------------
(***************************************************************************)
(* Several proxies over one pool of keys, told of each other's cooldowns,  *)
(* dead keys, pauses and open circuits: openvidia/redis_sync.py,           *)
(* apply_remote_event and the calls of _emit in openvidia/proxy_state.py.  *)
(*                                                                         *)
(* Redis itself is up, keeps the order of events and loses none.  A        *)
(* deadline is the number of ticks left before it passes, in an event that *)
(* is on its way too.                                                      *)
(***************************************************************************)
EXTENDS Breaker, Sequences

CONSTANTS
  Node,      \* the proxies
  Key,       \* the keys of the pool
  Duration,  \* ticks, at least one, of a cooldown, and of the account-wide pause
  MaxQueue   \* bound of the model: events waiting in a queue or an inbox

VARIABLES
  cool,     \* cooldowns of each node: ticks left for each key
  valid,    \* the keys each node has not seen rejected
  pause,    \* pool_throttled_until of each node
  breaker,  \* ModelHealth of the one model, at each node
  queue,    \* _queue: events a node has yet to publish
  inbox,    \* events its subscription has yet to hand to its listener
  listener  \* whether its _listen_loop is still running

health == <<cool, valid, pause, breaker>>
vars == <<health, queue, inbox, listener>>

Init ==
  /\ cool = [n \in Node |-> [k \in Key |-> 0]]
  /\ valid = [n \in Node |-> Key]
  /\ pause = [n \in Node |-> 0]
  /\ breaker = [n \in Node |-> AfterSuccess]
  /\ queue = [n \in Node |-> <<>>]
  /\ inbox = [n \in Node |-> <<>>]
  /\ listener = [n \in Node |-> TRUE]

-----------------------------------------------------------------------------
(* What a node learns from its own requests, and emits.                    *)

\* An event: a cooldown, key_invalid, pool_throttle or model_circuit.  The key of
\* those that concern no key is any key.
Told(kind, k) == [kind |-> kind, key |-> k, left |-> Duration]

Emit(n, events) ==
  /\ Len(queue[n]) + Len(events) <= MaxQueue
  /\ queue' = [queue EXCEPT ![n] = @ \o events]
  /\ UNCHANGED <<inbox, listener>>

Cooled(n, k) == cool' = [cool EXCEPT ![n][k] = Duration]

\* A 429, which may be the one that pauses the whole pool.
RateLimited(n, k) ==
  /\ Cooled(n, k)
  /\ \/ /\ Emit(n, <<Told("cooldown", k)>>)
        /\ UNCHANGED pause
     \/ /\ pause[n] = 0
        /\ pause' = [pause EXCEPT ![n] = Duration]
        /\ Emit(n, <<Told("pool_throttle", k), Told("cooldown", k)>>)
  /\ UNCHANGED <<valid, breaker>>

\* A 401 or 403.
Rejected(n, k) ==
  /\ Cooled(n, k)
  /\ valid' = [valid EXCEPT ![n] = @ \ {k}]
  /\ Emit(n, <<Told("cooldown", k), Told("key_invalid", k)>>)
  /\ UNCHANGED <<pause, breaker>>

\* A failure of the model; the one that opens its circuit is told.
ModelFails(n) ==
  /\ breaker' = [breaker EXCEPT ![n] = AfterFailure(@)]
  /\ IF breaker'[n].fails = CircuitAfter
     THEN \E k \in Key : Emit(n, <<Told("model_circuit", k)>>)
     ELSE UNCHANGED <<queue, inbox, listener>>
  /\ UNCHANGED <<cool, valid, pause>>

-----------------------------------------------------------------------------
(* The bus.                                                                *)

\* The event goes to every subscriber, the node that sent it included.  One
\* whose listener has ended never reads it.
Publish(n) ==
  /\ queue[n] # <<>>
  /\ \A m \in Node : Len(inbox[m]) < MaxQueue
  /\ inbox' = [m \in Node |-> IF listener[m] THEN Append(inbox[m], Head(queue[n]))
                              ELSE inbox[m]]
  /\ queue' = [queue EXCEPT ![n] = Tail(@)]
  /\ UNCHANGED <<health, listener>>

\* apply_remote_event.
Apply(n, e) ==
  /\ cool' = IF e.kind = "cooldown" /\ e.left > 0
             THEN [cool EXCEPT ![n][e.key] = e.left] ELSE cool
  /\ valid' = IF e.kind = "key_invalid" THEN [valid EXCEPT ![n] = @ \ {e.key}] ELSE valid
  /\ pause' = IF e.kind = "pool_throttle" /\ e.left > pause[n]
              THEN [pause EXCEPT ![n] = e.left] ELSE pause
  /\ breaker' = IF e.kind = "model_circuit"
                THEN [breaker EXCEPT ![n].fails = IF @ > CircuitAfter THEN @ ELSE CircuitAfter,
                                     ![n].left = CircuitReset]
                ELSE breaker

\* No event carries the node_id the listener compares with its own, so every
\* event is applied.  The result of apply_remote_event, a plain function, is
\* then awaited: that raises, and the listener ends without a word.
Listen(n) ==
  /\ listener[n] /\ inbox[n] # <<>>
  /\ Apply(n, Head(inbox[n]))
  /\ inbox' = [inbox EXCEPT ![n] = <<>>]
  /\ listener' = [listener EXCEPT ![n] = FALSE]
  /\ UNCHANGED queue

Less(n) == IF n = 0 THEN 0 ELSE n - 1
Aged(s) == [i \in DOMAIN s |-> [s[i] EXCEPT !.left = Less(@)]]

Tick ==
  /\ cool' = [n \in Node |-> [k \in Key |-> Less(cool[n][k])]]
  /\ pause' = [n \in Node |-> Less(pause[n])]
  /\ breaker' = [n \in Node |-> BreakerAged(breaker[n])]
  /\ queue' = [n \in Node |-> Aged(queue[n])]
  /\ inbox' = [n \in Node |-> Aged(inbox[n])]
  /\ UNCHANGED <<valid, listener>>

Next ==
  \/ \E n \in Node : \/ ModelFails(n) \/ Publish(n) \/ Listen(n)
                     \/ \E k \in Key : RateLimited(n, k) \/ Rejected(n, k)
  \/ Tick

Spec == Init /\ [][Next]_vars

\* The two tasks of a node run on.
FairSpec == Spec /\ \A n \in Node : WF_vars(Publish(n)) /\ WF_vars(Listen(n))

-----------------------------------------------------------------------------
\* A key that one node cools down is soon cooling at every other one, unless
\* the cooldown is over by then ("so node A does not hammer a key that node B
\* just cooled down", redis_sync.py).
SharedCooldowns ==
  \A n, m \in Node, k \in Key : cool[n][k] > 0 ~> cool[m][k] > 0 \/ cool[n][k] = 0
=============================================================================
