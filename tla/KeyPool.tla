------------------------------ MODULE KeyPool ------------------------------
(***************************************************************************)
(* The key pool of openvidia/proxy_state.py: the API keys the proxy holds, *)
(* what it knows of the health and load of each one, and the account-wide  *)
(* pause.  ProxyState lives on one asyncio loop and none of its methods    *)
(* awaits, so each operator below is applied atomically; Rotation composes *)
(* them into the steps the request handlers take between two awaits.       *)
(*                                                                         *)
(* A deadline ("until", a timestamp in a deque) is the number of ticks     *)
(* left before it passes; Tick is the only thing that makes time go by.    *)
(***************************************************************************)
EXTENDS Naturals, Sequences, FiniteSets

CONSTANTS
  Key,          \* every API key the user can hold
  InitKeys,     \* the pool at start: a sequence of distinct keys
  MaxRpm,       \* MAX_RPM, the sends a key may make per window
  FloorRpm,     \* ADAPTIVE_FLOOR_RPM, where the halving on a 429 stops
  RpmWindow,    \* RPM_WINDOW, in ticks
  Duration,     \* ticks of cooldown: COOLDOWN_DURATIONS, DEFAULT_COOLDOWN
  NearExpiry,   \* a cooldown with this many ticks left or fewer is probed
  Pool429Window, Pool429Keys, PoolPause,  \* POOL_429_*, POOL_THROTTLE_PAUSE
  FailCap       \* bound of the model: failures are counted up to here

\* What a failed attempt is remembered as: a 401/403, a 429, or anything else.
Status == {"auth", "rate", "other"}

ASSUME PoolSizes ==
  /\ InitKeys \in Seq(Key)
  /\ MaxRpm \in Nat /\ FloorRpm \in 1..MaxRpm
  /\ RpmWindow \in Nat \ {0}
  /\ Pool429Window \in Nat \ {0} /\ Pool429Keys \in Nat \ {0}
  /\ PoolPause \in Nat \ {0} /\ NearExpiry \in Nat
  /\ FailCap \in Nat /\ FailCap >= 2

ASSUME Durations ==
  Duration \in [{"auth", "rate", "repeat", "other"} -> Nat \ {0}]

VARIABLES
  keys,       \* _keys, the pool in the order the user gave
  valid,      \* KeyState.is_valid
  inFlight,   \* KeyState.in_flight
  fails,      \* KeyState.consecutive_failures
  cooldown,   \* the cooldown a key sits out, with the status that caused it
  window,     \* RpmTracker.timestamps: ticks before each send is forgotten
  ceiling,    \* RpmTracker.max_rpm, MaxRpm when it is 0 ("inherit")
  strikes,    \* _recent_429: ticks before a key's latest 429 is forgotten
  throttle    \* pool_throttled_until: ticks the whole pool is paused for

healthVars == <<valid, fails, cooldown, ceiling, strikes, throttle>>
poolVars == <<keys, healthVars, inFlight, window>>

Larger(a, b) == IF a > b THEN a ELSE b
Smaller(a, b) == IF a < b THEN a ELSE b
Less(n) == IF n = 0 THEN 0 ELSE n - 1

Pool == {keys[i] : i \in DOMAIN keys}

NoCooldown == [left |-> 0, status |-> "other"]
OnCooldown(k) == cooldown[k].left > 0
HasRoom(k) == Len(window[k]) < ceiling[k]

PoolTypeOK ==
  /\ keys \in Seq(Key)
  /\ valid \in [Key -> BOOLEAN]
  /\ inFlight \in [Key -> Nat]
  /\ fails \in [Key -> 0..FailCap]
  /\ cooldown \in [Key -> [left : Nat, status : Status]]
  /\ window \in [Key -> Seq(1..RpmWindow)]
  /\ ceiling \in [Key -> FloorRpm..MaxRpm]
  /\ strikes \in [Key -> Nat]
  /\ throttle \in Nat

\* The oldest send comes first.
InOrder(s) == \A i, j \in DOMAIN s : i <= j => s[i] <= s[j]

PoolInit ==
  /\ keys = InitKeys
  /\ valid = [k \in Key |-> TRUE]
  /\ inFlight = [k \in Key |-> 0]
  /\ fails = [k \in Key |-> 0]
  /\ cooldown = [k \in Key |-> NoCooldown]
  /\ window = [k \in Key |-> <<>>]
  /\ ceiling = [k \in Key |-> MaxRpm]
  /\ strikes = [k \in Key |-> 0]
  /\ throttle = 0

-----------------------------------------------------------------------------
(* The order keys are offered in.                                          *)

\* An idle key costs nothing; a busy, recently used or failing one costs more.
Cost(k) == 4 * inFlight[k] + Len(window[k]) + 8 * fails[k]

IndexOf(k) == CHOOSE i \in DOMAIN keys : keys[i] = k

Before(a, b) == a[1] < b[1] \/ (a[1] = b[1] /\ a[2] < b[2])

\* The one arrangement of the keys of S by increasing rank.
Arranged(S, rank) ==
  {c \in [1..Cardinality(S) -> S] :
     \A i, j \in 1..Cardinality(S) : i < j => Before(rank[c[i]], rank[c[j]])}

\* Mutant: the naive order, whatever the load.
CandidatesInPoolOrder ==
  LET live == {k \in Pool : valid[k] /\ ~OnCooldown(k)}
  IN  Arranged(live, [k \in live |-> <<0, IndexOf(k)>>])

\* The keys not cooling down, cheapest first; the cooling ones, the first to
\* come back first, only when there is no other.
Candidates ==
  LET usable  == {k \in Pool : valid[k]}
      live    == {k \in usable : ~OnCooldown(k)}
  IN  IF live # {}
      THEN Arranged(live, [k \in live |-> <<Cost(k), IndexOf(k)>>])
      ELSE Arranged(usable, [k \in usable |-> <<cooldown[k].left, IndexOf(k)>>])

-----------------------------------------------------------------------------
(* A claim on a key, and a failed attempt.                                 *)

\* The load after a claim on k: nothing is counted for a key no longer held.
Claimed(load, k) == IF k \in Pool THEN [load EXCEPT ![k] = @ + 1] ELSE load

\* The load after k's claim is given back, by a request that may have claimed
\* an earlier key of the same name: clamped, never negative.
Released(load, k) == IF k \in Pool THEN [load EXCEPT ![k] = Less(@)] ELSE load

\* A send is remembered for RpmWindow ticks, held key or not.
RecordRequest(k) == window' = [window EXCEPT ![k] = Append(@, RpmWindow)]

\* Enough distinct keys rate-limited within the window pause the whole pool.
NoteRateLimited(k) ==
  LET struck == {j \in Key : strikes[j] > 0} \cup {k}
  IN  /\ strikes' = [strikes EXCEPT ![k] = Pool429Window]
      /\ throttle' = IF throttle = 0 /\ Cardinality(struck) >= Pool429Keys
                     THEN PoolPause ELSE throttle

\* A failed attempt on k.  A status is counted against a held key only, but
\* the cooldown is written for any key, and over whatever cooldown it had.
MarkKeyFailed(k, status) ==
  LET held   == k \in Pool
      count  == Smaller(FailCap, fails[k] + 1)
      ticks  == IF status = "rate" /\ held /\ count > 1
                THEN Duration["repeat"] ELSE Duration[status]
  IN  /\ fails' = IF held THEN [fails EXCEPT ![k] = count] ELSE fails
      /\ cooldown' = [cooldown EXCEPT ![k] = [left |-> ticks, status |-> status]]
      /\ valid' = IF held /\ status = "auth"
                  THEN [valid EXCEPT ![k] = FALSE] ELSE valid
      /\ IF status = "rate"
         THEN /\ NoteRateLimited(k)
              /\ ceiling' = IF held
                            THEN [ceiling EXCEPT ![k] = Larger(FloorRpm, @ \div 2)]
                            ELSE ceiling
         ELSE UNCHANGED <<strikes, throttle, ceiling>>

-----------------------------------------------------------------------------
(* The health check, the dashboard and the clock.                          *)

\* Keys a background check probes: cooling down for a reason other than a
\* rejected credential or a rate limit, and nearly done.
ProbeTargets ==
  {k \in Pool : /\ OnCooldown(k)
                /\ cooldown[k].status = "other"
                /\ cooldown[k].left <= NearExpiry}

\* The results of a check: reachable keys are restored (restore_key without
\* the rehabilitation of their ceiling), the others blamed or left alone.
\* Nobody looks again at what became of a key since it was probed.
ApplyProbe(reachable, blamed) ==
  /\ cooldown' = [k \in Key |->
       IF k \in reachable THEN NoCooldown
       ELSE IF k \in blamed THEN [left |-> Duration["other"], status |-> "other"]
       ELSE cooldown[k]]
  /\ valid' = [k \in Key |-> valid[k] \/ (k \in reachable \cap Pool)]
  /\ fails' = [k \in Key |->
       IF k \in reachable \cap Pool THEN 0
       ELSE IF k \in blamed \cap Pool THEN Smaller(FailCap, fails[k] + 1)
       ELSE fails[k]]
  /\ UNCHANGED <<keys, inFlight, window, ceiling, strikes, throttle>>

\* decay_stale_failures: one failure forgotten for the keys of S, those whose
\* latest failure is old enough (which ones is left open).
Decay(S) == fails' = [k \in Key |-> IF k \in S THEN Less(fails[k]) ELSE fails[k]]

\* Mutant: the state of the keys that left is not rebuilt.
SetKeysKeepingState(ks) ==
  /\ keys' = ks
  /\ UNCHANGED <<healthVars, inFlight, window>>

\* The pool becomes ks.  A key that stays keeps its state, a key that is new
\* gets a fresh one, and what was known of a key that left is forgotten: all
\* but its place among the recent 429s.
SetKeys(ks) ==
  LET new    == {ks[i] : i \in DOMAIN ks}
      stays  == new \cap Pool
  IN  /\ keys' = ks
      /\ valid' = [k \in Key |-> IF k \in stays THEN valid[k] ELSE TRUE]
      /\ inFlight' = [k \in Key |-> IF k \in stays THEN inFlight[k] ELSE 0]
      /\ fails' = [k \in Key |-> IF k \in stays THEN fails[k] ELSE 0]
      /\ cooldown' = [k \in Key |-> IF k \in new THEN cooldown[k] ELSE NoCooldown]
      /\ window' = [k \in Key |-> IF k \in new THEN window[k] ELSE <<>>]
      /\ ceiling' = [k \in Key |-> IF k \in new THEN ceiling[k] ELSE MaxRpm]
      /\ UNCHANGED <<strikes, throttle>>

\* The sequence without its i-th element.
Without(s, i) == [j \in 1..(Len(s) - 1) |-> IF j < i THEN s[j] ELSE s[j + 1]]

\* The sends still remembered one tick later: the oldest come first.
Aged(s) ==
  LET old == Cardinality({i \in DOMAIN s : s[i] = 1})
  IN  [i \in 1..(Len(s) - old) |-> s[i + old] - 1]

PoolTick ==
  /\ cooldown' = [k \in Key |->
       IF cooldown[k].left <= 1 THEN NoCooldown
       ELSE [cooldown[k] EXCEPT !.left = @ - 1]]
  /\ window' = [k \in Key |-> Aged(window[k])]
  /\ strikes' = [k \in Key |-> Less(strikes[k])]
  /\ throttle' = Less(throttle)
  /\ UNCHANGED <<keys, valid, inFlight, fails, ceiling>>
=============================================================================
