------------------------------- MODULE HubProof -------------------------------
(***************************************************************************)
(* Theorems about GraphHub, for every set of orchestrators and workers,    *)
(* every limit, agents that kill themselves included.                     *)
(*                                                                         *)
(* All of them follow from one inductive invariant, HubInv: what is not    *)
(* over is active and has a task, a name with a status is never spawned    *)
(* again, whoever is awaited by its killer can only end as killed, and     *)
(* whoever was cancelled before its first turn was so by the host or by a  *)
(* killer that still waits for it.                                         *)
(***************************************************************************)
EXTENDS GraphHub, TLAPS, FiniteSetTheorems, SequenceTheorems

Statuses == Ended \cup {"none", "active"}
Places == {"none", "starting", "thinking", "waiting", "killing", "over"}

\* What is not over is active, from the moment it has a task on.
ActiveWhileAlive == \A n \in Name : Alive(n) => status[n] = "active"

\* What has run has a status; only what is not over can have a cancellation to see.
NamesAreUsedOnce ==
  \A n \in Name : /\ status[n] = "none" => body[n] = "none"
                  /\ pending[n] # "none" => Alive(n)

\* Every agent that is not over has a task, and what has a task but is over was
\* cancelled before its first turn: no end was written for it but a killer's.
TasksAreTheLiving ==
  \A n \in Name :
    /\ Alive(n) => Contains(tasks, n)
    /\ Contains(tasks, n) => /\ status[n] # "none"
                             /\ (~Alive(n) => body[n] = "over" /\ status[n] \in {"active", "killed"})

\* A killer is an orchestrator; its victim, if another, is doomed or over, and no
\* end was written for it that the killer's would overwrite.
VictimsOnlyDie ==
  \A k \in Name :
    body[k] = "killing" =>
      /\ k \in Root /\ victims[k] # <<>>
      /\ LET v == Head(victims[k])
         IN  \/ v = k
             \/ Alive(v) /\ pending[v] = "cancel"
             \/ body[v] = "over" /\ status[v] \in {"active", "killed"}

\* Whoever was cancelled before its first turn was cancelled by close, or by a
\* killer that still waits for it.
StillbornAreAwaited ==
  \A n \in Name :
    body[n] = "starting" /\ pending[n] # "none"
    => host # "open" \/ \E k \in Name : n \in Awaited(k)

\* From the cancellation on, close leaves nobody uncancelled; then nobody alive.
ClosingReachesAll ==
  \A n \in Name :
    Alive(n) => host # "closed" /\ (host = "closing" => pending[n] # "none")

HubInv ==
  /\ TypeOK
  /\ ActiveWhileAlive /\ NamesAreUsedOnce /\ TasksAreTheLiving
  /\ VictimsOnlyDie /\ StillbornAreAwaited /\ NoGhosts /\ ClosingReachesAll

-----------------------------------------------------------------------------
(* Tasks, and what a cancellation reaches.                                 *)

\* A sequence without repetitions from which one element is taken.
LEMMA Removed ==
  ASSUME NEW S, NEW s \in Seq(S), IsInjective(s), NEW e
  PROVE  /\ RemoveFirst(s, e) \in Seq(S) /\ IsInjective(RemoveFirst(s, e))
         /\ \A x : Contains(RemoveFirst(s, e), x) <=> Contains(s, x) /\ x # e
<1>1. Len(s) \in Nat /\ DOMAIN s = 1..Len(s)
  BY LenProperties
<1>2. CASE ~\E i \in 1..Len(s) : s[i] = e
  BY <1>2 DEF RemoveFirst, Contains
<1>3. CASE \E i \in 1..Len(s) : s[i] = e
  <2>1. PICK i \in 1..Len(s) : s[i] = e
    BY <1>3
  <2> DEFINE r == SubSeq(s, 1, i - 1) \o SubSeq(s, i + 1, Len(s))
  <2>2. {j \in 1..Len(s) : s[j] = e} = {i}
    BY <1>1, <2>1 DEF IsInjective
  <2>3. SelectInSeq(s, LAMBDA v : v = e) = i
    BY <1>1, <2>1, <2>2 DEF SelectInSeq, Min
  <2>4. RemoveFirst(s, e) = r
    BY <1>3, <2>3 DEF RemoveFirst, RemoveAt
  <2>5. /\ r \in Seq(S) /\ Len(r) = Len(s) - 1
        /\ \A j \in 1..(Len(s) - 1) : r[j] = IF j < i THEN s[j] ELSE s[j + 1]
    <3> DEFINE a == SubSeq(s, 1, i - 1)
               b == SubSeq(s, i + 1, Len(s))
    <3>1. a \in Seq(S) /\ Len(a) = i - 1 /\ \A j \in 1..(i - 1) : a[j] = s[j]
      <4>1. \A j \in 1..(i - 1) : s[j] \in S
        BY <1>1, ElementOfSeq
      <4> QED BY <1>1, <4>1, SubSeqProperties
    <3>2. b \in Seq(S) /\ Len(b) = Len(s) - i /\ \A j \in 1..(Len(s) - i) : b[j] = s[i + j]
      <4>1. i + 1 \in Int /\ Len(s) \in Int
        BY <1>1
      <4>2. \A j \in (i + 1)..Len(s) : s[j] \in S
        BY <1>1, ElementOfSeq
      <4>3. b \in Seq(S) /\ Len(b) = IF i + 1 <= Len(s) THEN Len(s) - (i + 1) + 1 ELSE 0
        BY <1>1, <4>1, <4>2, SubSeqProperties
      <4>4. ASSUME NEW j \in 1..(Len(s) - i) PROVE b[j] = s[i + j]
        <5>1. j \in 1..(Len(s) - (i + 1) + 1) /\ i + j = (i + 1) + j - 1
          BY <1>1
        <5>2. b[j] = s[(i + 1) + j - 1]
          BY <1>1, <4>1, <4>2, <5>1, SubSeqProperties
        <5> QED BY <5>1, <5>2
      <4>5. Len(b) = Len(s) - i
        <5>1. Len(s) \in Nat
          BY <1>1
        <5>2. (IF i + 1 <= Len(s) THEN Len(s) - (i + 1) + 1 ELSE 0) = Len(s) - i
          BY <5>1
        <5> HIDE DEF b
        <5> QED BY <4>3, <5>2
      <4> HIDE DEF b
      <4> QED BY <4>3, <4>4, <4>5
    <3>3. r = a \o b
      OBVIOUS
    <3> HIDE DEF a, b, r
    <3>4. /\ r \in Seq(S) /\ Len(r) = Len(a) + Len(b)
          /\ \A j \in 1..(Len(a) + Len(b)) : r[j] = IF j <= Len(a) THEN a[j] ELSE b[j - Len(a)]
      BY <3>1, <3>2, <3>3, ConcatProperties
    <3>5. ASSUME NEW j \in 1..(Len(s) - 1)
          PROVE  r[j] = IF j < i THEN s[j] ELSE s[j + 1]
      <4>1. CASE j < i
        <5>1. j \in 1..(i - 1) /\ j <= Len(a) /\ j \in 1..(Len(a) + Len(b))
          BY <1>1, <3>1, <3>2, <4>1
        <5> QED BY <3>1, <3>4, <4>1, <5>1
      <4>2. CASE ~(j < i)
        <5>1. /\ j - Len(a) \in 1..(Len(s) - i) /\ ~(j <= Len(a)) /\ j \in 1..(Len(a) + Len(b))
              /\ i + (j - Len(a)) = j + 1
          BY <1>1, <3>1, <3>2, <4>2
        <5> QED BY <3>2, <3>4, <4>2, <5>1
      <4> QED BY <4>1, <4>2
    <3> QED BY <1>1, <3>1, <3>2, <3>4, <3>5
  <2> HIDE DEF r
  <2>6. DOMAIN r = 1..(Len(s) - 1)
    BY <2>5, LenProperties
  <2>7. IsInjective(r)
    <3> SUFFICES ASSUME NEW j \in 1..(Len(s) - 1), NEW k \in 1..(Len(s) - 1), r[j] = r[k]
                 PROVE  j = k
      BY <2>6 DEF IsInjective
    <3> DEFINE at(x) == IF x < i THEN x ELSE x + 1
    <3>1. at(j) \in 1..Len(s) /\ at(k) \in 1..Len(s)
      BY <1>1, <2>1
    <3>2. s[at(j)] = r[j] /\ s[at(k)] = r[k]
      BY <2>5
    <3>3. at(j) = at(k)
      BY <1>1, <3>1, <3>2 DEF IsInjective
    <3> QED BY <1>1, <2>1, <3>3
  <2>8. ASSUME NEW x PROVE Contains(r, x) <=> Contains(s, x) /\ x # e
    <3>1. ASSUME Contains(r, x) PROVE Contains(s, x) /\ x # e
      <4>1. PICK j \in 1..(Len(s) - 1) : r[j] = x
        BY <2>5, <3>1 DEF Contains
      <4>2. PICK k \in 1..Len(s) : k # i /\ s[k] = x
        BY <1>1, <2>1, <2>5, <4>1
      <4> QED BY <1>1, <2>1, <4>2 DEF Contains, IsInjective
    <3>2. ASSUME Contains(s, x), x # e PROVE Contains(r, x)
      <4>1. PICK k \in 1..Len(s) : s[k] = x /\ k # i
        BY <2>1, <3>2 DEF Contains
      <4>2. \E j \in 1..(Len(s) - 1) : r[j] = x
        <5>1. CASE k < i
          BY <1>1, <2>1, <2>5, <4>1, <5>1
        <5>2. CASE k > i
          <6>1. k - 1 \in 1..(Len(s) - 1) /\ ~(k - 1 < i) /\ (k - 1) + 1 = k
            BY <1>1, <2>1, <4>1, <5>2
          <6> QED BY <2>5, <4>1, <6>1
        <5> QED BY <1>1, <2>1, <4>1, <5>1, <5>2
      <4> QED BY <2>5, <4>2 DEF Contains
    <3> QED BY <3>1, <3>2
  <2> QED BY <2>4, <2>5, <2>7, <2>8
<1> QED BY <1>2, <1>3

\* Two of them with nothing in common, one after the other.
LEMMA Joined ==
  ASSUME NEW S, NEW s \in Seq(S), NEW t \in Seq(S), IsInjective(s), IsInjective(t),
         \A x \in S : ~(Contains(s, x) /\ Contains(t, x))
  PROVE  /\ s \o t \in Seq(S) /\ IsInjective(s \o t)
         /\ \A x : Contains(s \o t, x) <=> Contains(s, x) \/ Contains(t, x)
<1>1. /\ s \o t \in Seq(S) /\ Len(s \o t) = Len(s) + Len(t)
      /\ \A i \in 1..(Len(s) + Len(t)) :
           (s \o t)[i] = IF i <= Len(s) THEN s[i] ELSE t[i - Len(s)]
  BY ConcatProperties
<1>2. /\ Len(s) \in Nat /\ DOMAIN s = 1..Len(s) /\ \A i \in 1..Len(s) : s[i] \in S
      /\ Len(t) \in Nat /\ DOMAIN t = 1..Len(t) /\ \A i \in 1..Len(t) : t[i] \in S
      /\ DOMAIN (s \o t) = 1..(Len(s) + Len(t))
  BY <1>1, LenProperties, ElementOfSeq
<1>3. \A i \in 1..Len(s), j \in 1..Len(t) : s[i] # t[j]
  BY <1>2 DEF Contains
<1> DEFINE u == s \o t
<1> HIDE DEF u
<1>4. IsInjective(u)
  <2> SUFFICES ASSUME NEW i \in 1..(Len(s) + Len(t)), NEW j \in 1..(Len(s) + Len(t)),
                      u[i] = u[j]
               PROVE  i = j
    BY <1>2 DEF IsInjective, u
  <2>1. CASE i <= Len(s) /\ j <= Len(s)
    BY <1>1, <1>2, <2>1 DEF IsInjective, u
  <2>2. CASE i > Len(s) /\ j > Len(s)
    <3>1. i - Len(s) \in 1..Len(t) /\ j - Len(s) \in 1..Len(t)
      BY <1>2, <2>2
    <3>2. t[i - Len(s)] = t[j - Len(s)]
      BY <1>1, <1>2, <2>2 DEF u
    <3>3. i - Len(s) = j - Len(s)
      BY <1>2, <3>1, <3>2 DEF IsInjective
    <3> QED BY <1>2, <3>3
  <2>3. CASE i <= Len(s) /\ j > Len(s)
    <3>1. i \in 1..Len(s) /\ j - Len(s) \in 1..Len(t)
      BY <1>2, <2>3
    <3> QED BY <1>1, <1>2, <1>3, <2>3, <3>1 DEF u
  <2>4. CASE i > Len(s) /\ j <= Len(s)
    <3>1. j \in 1..Len(s) /\ i - Len(s) \in 1..Len(t)
      BY <1>2, <2>4
    <3> QED BY <1>1, <1>2, <1>3, <2>4, <3>1 DEF u
  <2> QED BY <1>2, <2>1, <2>2, <2>3, <2>4
<1>5. ASSUME NEW x PROVE Contains(u, x) <=> Contains(s, x) \/ Contains(t, x)
  <2>1. ASSUME Contains(u, x) PROVE Contains(s, x) \/ Contains(t, x)
    <3>1. PICK i \in 1..(Len(s) + Len(t)) : u[i] = x
      BY <1>1, <2>1 DEF Contains, u
    <3>2. CASE i <= Len(s)
      BY <1>1, <1>2, <3>1, <3>2 DEF Contains, u
    <3>3. CASE i > Len(s)
      <4>1. i - Len(s) \in 1..Len(t) /\ t[i - Len(s)] = x
        BY <1>1, <1>2, <3>1, <3>3 DEF u
      <4> QED BY <4>1 DEF Contains
    <3> QED BY <1>2, <3>2, <3>3
  <2>2. ASSUME Contains(s, x) PROVE Contains(u, x)
    <3>1. PICK i \in 1..Len(s) : s[i] = x
      BY <2>2 DEF Contains
    <3>2. i \in 1..(Len(s) + Len(t)) /\ u[i] = x
      BY <1>1, <1>2, <3>1 DEF u
    <3> QED BY <1>1, <3>2 DEF Contains, u
  <2>3. ASSUME Contains(t, x) PROVE Contains(u, x)
    <3>1. PICK i \in 1..Len(t) : t[i] = x
      BY <2>3 DEF Contains
    <3>2. /\ Len(s) + i \in 1..(Len(s) + Len(t)) /\ ~(Len(s) + i <= Len(s))
          /\ (Len(s) + i) - Len(s) = i
      BY <1>2, <3>1
    <3>3. u[Len(s) + i] = x
      BY <1>1, <3>1, <3>2 DEF u
    <3> QED BY <1>1, <3>2, <3>3 DEF Contains, u
  <2> QED BY <2>1, <2>2, <2>3
<1> QED BY <1>1, <1>4, <1>5 DEF u

\* A killer awaits an agent, and only while its list is not empty.
LEMMA AwaitedIsName ==
  ASSUME HubInv, NEW k \in Name, NEW v \in Awaited(k)
  PROVE  body[k] = "killing" /\ v = Head(victims[k]) /\ v \in Name
<1>1. body[k] = "killing" /\ v = Head(victims[k])
  BY DEF Awaited
<1>2. victims[k] \in Seq(Name) /\ victims[k] # <<>>
  BY <1>1 DEF HubInv, TypeOK, VictimsOnlyDie
<1> QED BY <1>1, <1>2

\* A cancellation reaches its target and, beyond it, only those that somebody awaits.
LEMMA ReachedAre ==
  ASSUME HubInv, NEW n \in Name
  PROVE  /\ Alive(n) => n \in Reached(n)
         /\ \A m \in Reached(n) :
              m \in Name /\ Alive(m) /\ (m # n => \E k \in Name : m \in Awaited(k))
<1>1. Alive(n) => n \in Reached(n)
  BY DEF Reached
<1>2. ASSUME NEW m \in Reached(n), m # n
      PROVE  \E k \in Name : m \in Awaited(k)
  <2> DEFINE S == {n} \cup {x \in Name : \E k \in Name : x \in Awaited(k)}
  <2>1. S \in SUBSET Name /\ n \in S
    OBVIOUS
  <2>2. \A k \in S : Awaited(k) \subseteq S
    BY <2>1, AwaitedIsName
  <2>3. m \in S
    BY <1>2, <2>1, <2>2 DEF Reached
  <2> QED BY <1>2, <2>3
<1>3. \A m \in Reached(n) : m \in Name /\ Alive(m)
  BY DEF Reached
<1> QED BY <1>1, <1>2, <1>3

\* What a cancellation does to those who have one to see.
LEMMA CancelledType ==
  ASSUME HubInv, NEW n \in Name, NEW why \in {"timer", "cancel"}
  PROVE  LET p == Cancelled(pending, n, why)
         IN  /\ p \in [Name -> {"none", "timer", "cancel"}]
             /\ \A m \in Name :
                  /\ (pending[m] # "none" => p[m] # "none")
                  /\ (pending[m] = "cancel" => p[m] = "cancel")
                  /\ (p[m] # pending[m] => m \in Reached(n))
             /\ (why = "cancel" /\ Alive(n) => p[n] = "cancel")
<1>1. pending \in [Name -> {"none", "timer", "cancel"}]
  BY DEF HubInv, TypeOK
<1>2. Alive(n) => n \in Reached(n)
  BY ReachedAre
<1> QED BY <1>1, <1>2 DEF Cancelled

-----------------------------------------------------------------------------
(* The end of a turn.                                                      *)

\* What agent n leaves at the end of a turn: the statuses st, written for names it
\* has just made or for a victim that is over, and the new workers.
TurnLeaves(n, st, new) ==
  /\ Alive(n) /\ st \in [Name -> Statuses] /\ st[n] = "active"
  /\ new \in Seq(Name) /\ IsInjective(new)
  /\ \A m \in Name : Contains(new, m) =>
       status[m] = "none" /\ st[m] = "active" /\ pending[n] = "none"
  /\ \A m \in Name : st[m] # status[m] =>
       \/ status[m] = "none" /\ st[m] = "active"
       \/ body[m] = "over" /\ status[m] \in {"active", "killed"} /\ st[m] = "killed"

\* Nobody it was killing is left as a ghost by an agent that ends, or goes on, thus.
VictimSettled(n, how, st) ==
  \A v \in Awaited(n) : ~Alive(v) /\ (how \in {"killed", "timeout"} \/ st[v] = "killed")

\* Agent n is over, with the status how, or thinks on as "active".
Moves(n, how, st, new) ==
  LET place == IF how = "active" THEN "thinking" ELSE "over"
  IN  /\ how \in Ended \cup {"active"}
      /\ pending[n] # "none" => how # "active"
      /\ pending[n] = "cancel" => how = "killed"
      /\ status' = [st EXCEPT ![n] = how]
      /\ body' = [m \in Name |-> IF m = n THEN place
                                 ELSE IF Contains(new, m) THEN "starting" ELSE body[m]]
      /\ tasks' \in Seq(Name) /\ IsInjective(tasks')
      /\ \A m \in Name : Contains(tasks', m) <=>
           (Contains(tasks, m) \/ Contains(new, m)) /\ ~(m = n /\ place = "over")
      /\ victims' = [victims EXCEPT ![n] = <<>>]
      /\ pending' = [pending EXCEPT ![n] = "none"]
      /\ iters' \in [Name -> 0..(MaxIterations - 1)]
      /\ UNCHANGED host

\* The tasks of the others, and the new ones.
LEMMA TasksJoined ==
  ASSUME HubInv, NEW n \in Name, NEW st, NEW new, TurnLeaves(n, st, new)
  PROVE  /\ tasks \o new \in Seq(Name) /\ IsInjective(tasks \o new)
         /\ \A m : Contains(tasks \o new, m) <=> Contains(tasks, m) \/ Contains(new, m)
<1>1. tasks \in Seq(Name) /\ IsInjective(tasks) /\ new \in Seq(Name) /\ IsInjective(new)
  BY DEF HubInv, TypeOK, TurnLeaves
<1>2. \A m \in Name : ~(Contains(tasks, m) /\ Contains(new, m))
  BY DEF HubInv, TasksAreTheLiving, TurnLeaves
<1> QED BY <1>1, <1>2, Joined

LEMMA LeaveMoves ==
  ASSUME HubInv, NEW n \in Name, NEW how \in Ended, NEW st, NEW new,
         TurnLeaves(n, st, new), pending[n] = "cancel" => how = "killed",
         Leave(n, how, st, new)
  PROVE  Moves(n, how, st, new)
<1>1. how # "active"
  BY DEF Ended
<1>2. /\ tasks' \in Seq(Name) /\ IsInjective(tasks')
      /\ \A m : Contains(tasks', m) <=> (Contains(tasks, m) \/ Contains(new, m)) /\ m # n
  BY TasksJoined, Removed DEF Leave
<1>3. iters' \in [Name -> 0..(MaxIterations - 1)]
  BY DEF Leave, HubInv, TypeOK
<1> QED BY <1>1, <1>2, <1>3 DEF Leave, Moves

LEMMA ContinueMoves ==
  ASSUME HubInv, NEW n \in Name, NEW st, NEW new,
         TurnLeaves(n, st, new), pending[n] = "none", Continue(n, st, new)
  PROVE  Moves(n, "done", st, new) \/ Moves(n, "active", st, new)
<1>1. CASE Leave(n, "done", st, new)
  BY <1>1, LeaveMoves DEF Ended
<1>2. CASE ~Leave(n, "done", st, new)
  <2>1. /\ ~LastTurn(n) /\ status' = st
        /\ body' = [m \in Name |-> IF m = n THEN "thinking"
                                   ELSE IF Contains(new, m) THEN "starting" ELSE body[m]]
        /\ tasks' = tasks \o new
        /\ iters' = [iters EXCEPT ![n] = @ + 1]
        /\ victims' = [victims EXCEPT ![n] = <<>>]
        /\ UNCHANGED <<pending, host>>
    BY <1>2 DEF Continue
  <2>2. status' = [st EXCEPT ![n] = "active"]
    BY <2>1 DEF TurnLeaves
  <2>3. pending' = [pending EXCEPT ![n] = "none"]
    BY <2>1 DEF HubInv, TypeOK
  <2>4. iters' \in [Name -> 0..(MaxIterations - 1)]
    <3>1. iters \in [Name -> 0..(MaxIterations - 1)] /\ MaxIterations \in Nat \ {0}
      BY HubSizes DEF HubInv, TypeOK
    <3>2. iters[n] + 1 \in 0..(MaxIterations - 1)
      BY <2>1, <3>1 DEF LastTurn
    <3> QED BY <2>1, <3>1, <3>2
  <2>5. /\ tasks' \in Seq(Name) /\ IsInjective(tasks')
        /\ \A m : Contains(tasks', m) <=> Contains(tasks, m) \/ Contains(new, m)
    BY <2>1, TasksJoined
  <2> QED BY <2>1, <2>2, <2>3, <2>4, <2>5 DEF Moves
<1> QED BY <1>1, <1>2

\* The end of a turn preserves the invariant, and how another agent ended.
LEMMA MovesInv ==
  ASSUME HubInv, NEW n \in Name, NEW how, NEW st, NEW new,
         TurnLeaves(n, st, new), VictimSettled(n, how, st), Moves(n, how, st, new),
         mail' \in [Name -> 0..MaxMail]
  PROVE  HubInv' /\ \A m \in Name : status[m] \in Ended => status'[m] = status[m]
<1> DEFINE place == IF how = "active" THEN "thinking" ELSE "over"
<1>1. /\ status \in [Name -> Statuses] /\ body \in [Name -> Places]
      /\ pending \in [Name -> {"none", "timer", "cancel"}] /\ victims \in [Name -> Seq(Name)]
  BY DEF HubInv, TypeOK, Statuses, Places
<1>2. /\ status' \in [Name -> Statuses] /\ status'[n] = how
      /\ \A m \in Name : m # n => status'[m] = st[m]
  BY DEF Moves, TurnLeaves, Statuses
<1>3. /\ body' \in [Name -> Places] /\ body'[n] = place
      /\ \A m \in Name : m # n => body'[m] = IF Contains(new, m) THEN "starting" ELSE body[m]
  BY <1>1 DEF Moves, Places
<1>4. /\ pending'[n] = "none" /\ \A m \in Name : m # n => pending'[m] = pending[m]
      /\ pending' \in [Name -> {"none", "timer", "cancel"}]
  BY <1>1 DEF Moves
<1>5. /\ victims' \in [Name -> Seq(Name)] /\ \A m \in Name : m # n => victims'[m] = victims[m]
  BY <1>1 DEF Moves
<1>6. /\ Alive(n) /\ status[n] = "active" /\ body[n] \notin {"none", "over"}
      /\ \/ place = "over" /\ how \in Ended /\ how # "active"
         \/ place = "thinking" /\ how = "active"
      /\ pending[n] # "none" => how # "active"
      /\ pending[n] = "cancel" => how = "killed"
  BY DEF TurnLeaves, HubInv, ActiveWhileAlive, Alive, Moves, Ended
<1> HIDE DEF place
\* what was over keeps its end, and what is made was nothing before
<1>7. \A m \in Name : m # n /\ status[m] # "none" =>
        /\ body'[m] = body[m]
        /\ \/ status'[m] = status[m]
           \/ body[m] = "over" /\ status[m] \in {"active", "killed"} /\ status'[m] = "killed"
  BY <1>2, <1>3 DEF TurnLeaves
<1>8. \A m \in Name : m # n /\ status[m] = "none" =>
        /\ body[m] = "none" /\ pending[m] = "none" /\ ~Contains(tasks, m)
        /\ body'[m] = IF Contains(new, m) THEN "starting" ELSE "none"
        /\ status'[m] \in {"none", "active"}
        /\ (Contains(new, m) => status'[m] = "active")
  BY <1>2, <1>3 DEF TurnLeaves, HubInv, NamesAreUsedOnce, TasksAreTheLiving, Alive
<1>9. \A k \in Name : k # n /\ (body'[k] = "killing" \/ body[k] = "killing") =>
        body'[k] = body[k] /\ victims'[k] = victims[k] /\ Awaited(k)' = Awaited(k)
  BY <1>3, <1>5, <1>7, <1>8 DEF Awaited
<1>10. TypeOK'
  BY <1>2, <1>3, <1>4, <1>5 DEF Moves, TypeOK, HubInv, Statuses, Places
<1>11. ActiveWhileAlive'
  BY <1>2, <1>3, <1>6, <1>7, <1>8 DEF HubInv, ActiveWhileAlive, Alive
<1>12. NamesAreUsedOnce'
  <2> SUFFICES ASSUME NEW m \in Name
               PROVE  /\ status'[m] = "none" => body'[m] = "none"
                      /\ pending'[m] # "none" => Alive(m)'
    BY DEF NamesAreUsedOnce
  <2>1. CASE m = n
    BY <1>2, <1>4, <1>6, <2>1 DEF Ended
  <2>2. CASE m # n
    BY <1>4, <1>7, <1>8, <2>2 DEF HubInv, NamesAreUsedOnce, Alive
  <2> QED BY <2>1, <2>2
<1>13. TasksAreTheLiving'
  <2>1. \A m \in Name : Contains(tasks', m) <=>
          (Contains(tasks, m) \/ Contains(new, m)) /\ ~(m = n /\ place = "over")
    BY DEF Moves, place
  <2> SUFFICES ASSUME NEW m \in Name
               PROVE  /\ Alive(m)' => Contains(tasks', m)
                      /\ Contains(tasks', m) =>
                           /\ status'[m] # "none"
                           /\ Alive(m)' \/ (body'[m] = "over" /\ status'[m] \in {"active", "killed"})
    BY DEF TasksAreTheLiving
  <2>2. CASE m = n
    BY <1>2, <1>3, <1>6, <2>1, <2>2 DEF HubInv, TasksAreTheLiving, Alive
  <2>3. CASE m # n /\ status[m] = "none"
    BY <1>8, <2>1, <2>3 DEF Alive
  <2>4. CASE m # n /\ status[m] # "none"
    <3>1. ~Contains(new, m)
      BY <2>4 DEF TurnLeaves
    <3>2. Contains(tasks', m) <=> Contains(tasks, m)
      BY <2>1, <2>4, <3>1
    <3>3. body'[m] = body[m] /\ (Alive(m)' <=> Alive(m))
      BY <1>7, <2>4 DEF Alive
    <3>4. /\ status'[m] # "none"
          /\ status[m] \in {"active", "killed"} => status'[m] \in {"active", "killed"}
      BY <1>7, <2>4
    <3>5. /\ Alive(m) => Contains(tasks, m)
          /\ Contains(tasks, m) => Alive(m) \/ (body[m] = "over" /\ status[m] \in {"active", "killed"})
      BY DEF HubInv, TasksAreTheLiving
    <3> QED BY <3>2, <3>3, <3>4, <3>5
  <2> QED BY <2>2, <2>3, <2>4
<1>14. VictimsOnlyDie'
  <2> SUFFICES ASSUME NEW k \in Name, body'[k] = "killing"
               PROVE  /\ k \in Root /\ victims'[k] # <<>>
                      /\ LET v == Head(victims'[k])
                         IN  \/ v = k
                             \/ body'[v] \notin {"none", "over"} /\ pending'[v] = "cancel"
                             \/ body'[v] = "over" /\ status'[v] \in {"active", "killed"}
    BY DEF VictimsOnlyDie, Alive
  <2>1. k # n /\ body[k] = "killing" /\ victims'[k] = victims[k]
    BY <1>3, <1>6, <1>9
  <2> DEFINE v == Head(victims[k])
  <2>2. v \in Awaited(k)
    BY <2>1 DEF Awaited
  <2>3. v \in Name
    BY <2>2, AwaitedIsName
  <2>4. /\ k \in Root /\ victims[k] # <<>>
        /\ \/ v = k
           \/ body[v] \notin {"none", "over"} /\ pending[v] = "cancel"
           \/ body[v] = "over" /\ status[v] \in {"active", "killed"}
    BY <2>1 DEF HubInv, VictimsOnlyDie, Alive
  <2> SUFFICES \/ v = k
               \/ body'[v] \notin {"none", "over"} /\ pending'[v] = "cancel"
               \/ body'[v] = "over" /\ status'[v] \in {"active", "killed"}
    BY <2>1, <2>4
  <2> HIDE DEF v
  <2>5. CASE v = n
    <3>1. CASE pending[v] = "cancel"
      BY <1>2, <1>3, <1>6, <2>5, <3>1
    <3>2. CASE body[v] = "over" \/ v = k
      BY <1>6, <2>1, <2>5, <3>2
    <3> QED BY <2>4, <3>1, <3>2
  <2>6. CASE v # n
    <3>1. status[v] # "none" \/ v = k
      BY <2>3, <2>4 DEF HubInv, NamesAreUsedOnce
    <3>2. CASE v = k
      BY <3>2
    <3>3. CASE v # k
      BY <1>4, <1>7, <2>3, <2>4, <2>6, <3>1, <3>3
    <3> QED BY <3>2, <3>3
  <2> QED BY <2>5, <2>6
<1>15. StillbornAreAwaited'
  <2> SUFFICES ASSUME NEW m \in Name, body'[m] = "starting", pending'[m] # "none"
               PROVE  host' # "open" \/ \E k \in Name : m \in Awaited(k)'
    BY DEF StillbornAreAwaited
  <2>1. m # n /\ body[m] = "starting" /\ pending[m] # "none"
    BY <1>4, <1>7, <1>8
  <2>2. CASE host # "open"
    BY <2>2 DEF Moves
  <2>3. ASSUME NEW k \in Name, m \in Awaited(k) PROVE m \in Awaited(k)'
    <3>1. k # n
      BY <2>1, <2>3 DEF VictimSettled, Alive
    <3>2. body[k] = "killing"
      BY <2>3, AwaitedIsName
    <3> QED BY <1>9, <2>3, <3>1, <3>2
  <2> QED BY <2>1, <2>2, <2>3 DEF HubInv, StillbornAreAwaited
<1>16. NoGhosts'
  <2> SUFFICES ASSUME NEW m \in Name, body'[m] = "over", status'[m] = "active"
               PROVE  \/ host' # "open"
                      \/ \E k \in Root : status'[k] \in {"killed", "timeout"} \/ m \in Awaited(k)'
    BY DEF NoGhosts
  <2>1. m # n /\ body[m] = "over" /\ status[m] = "active"
    BY <1>2, <1>3, <1>6, <1>7, <1>8 DEF Ended
  <2>2. CASE host # "open"
    BY <2>2 DEF Moves
  <2>3. ASSUME NEW k \in Root, status[k] \in {"killed", "timeout"}
        PROVE  status'[k] \in {"killed", "timeout"}
    BY <1>6, <1>7, <2>3 DEF Name
  <2>4. ASSUME NEW k \in Root, m \in Awaited(k), k # n
        PROVE  m \in Awaited(k)'
    <3>1. k \in Name
      BY DEF Name
    <3> QED BY <1>9, <2>4, <3>1, AwaitedIsName
  <2>5. CASE n \in Root /\ m \in Awaited(n)
    <3>1. st[m] = "active"
      BY <1>2, <2>1
    <3>2. how \in {"killed", "timeout"}
      BY <2>5, <3>1 DEF VictimSettled
    <3> QED BY <1>2, <2>5, <3>2
  <2> QED BY <2>1, <2>2, <2>3, <2>4, <2>5 DEF HubInv, NoGhosts
<1>17. ClosingReachesAll'
  <2> SUFFICES ASSUME NEW m \in Name, Alive(m)'
               PROVE  host' # "closed" /\ (host' = "closing" => pending'[m] # "none")
    BY DEF ClosingReachesAll
  <2>1. host' = host /\ host # "closed" /\ (host = "closing" => pending[n] # "none")
    BY <1>6 DEF Moves, HubInv, ClosingReachesAll
  <2>2. CASE m = n
    BY <1>3, <1>6, <2>1, <2>2 DEF Alive
  <2>3. CASE m # n /\ Contains(new, m)
    BY <2>1, <2>3 DEF TurnLeaves
  <2>4. CASE m # n /\ ~Contains(new, m)
    BY <1>3, <1>4, <2>1, <2>4 DEF HubInv, ClosingReachesAll, Alive
  <2> QED BY <2>2, <2>3, <2>4
<1>18. \A m \in Name : status[m] \in Ended => status'[m] = status[m]
  BY <1>6, <1>7 DEF Ended
<1> QED BY <1>10, <1>11, <1>12, <1>13, <1>14, <1>15, <1>16, <1>17, <1>18 DEF HubInv

-----------------------------------------------------------------------------
(* A kill.                                                                 *)

\* What a killer does to the first of its victims that is still to be killed.
KillBegins(n, names, st) ==
  /\ n \in Root /\ names \in Seq(Name) /\ names # <<>>
  /\ Contains(tasks, Head(names)) /\ ~AwaitsItself(Head(names))
  /\ status' = st
  /\ body' = [body EXCEPT ![n] = "killing"]
  /\ victims' = [victims EXCEPT ![n] = names]
  /\ pending' = IF Head(names) = n THEN pending
                ELSE Cancelled(pending, Head(names), "cancel")
  /\ UNCHANGED <<tasks, mail, iters, host>>

LEMMA KillBeginsInv ==
  ASSUME HubInv, NEW n \in Name, NEW names, NEW st,
         TurnLeaves(n, st, <<>>), VictimSettled(n, "active", st), pending[n] = "none",
         KillBegins(n, names, st)
  PROVE  HubInv' /\ \A m \in Name : status[m] \in Ended => status'[m] = status[m]
<1> DEFINE v == Head(names)
<1>1. /\ status \in [Name -> Statuses] /\ body \in [Name -> Places]
      /\ pending \in [Name -> {"none", "timer", "cancel"}] /\ victims \in [Name -> Seq(Name)]
  BY DEF HubInv, TypeOK, Statuses, Places
<1>2. v \in Name
  BY DEF KillBegins
<1>3. /\ pending' \in [Name -> {"none", "timer", "cancel"}]
      /\ \A m \in Name :
           /\ (pending[m] # "none" => pending'[m] # "none")
           /\ (pending[m] = "cancel" => pending'[m] = "cancel")
           /\ (pending'[m] # pending[m] => m \in Reached(v))
      /\ (v # n /\ Alive(v) => pending'[v] = "cancel")
  BY <1>1, <1>2, CancelledType DEF KillBegins
<1>4. /\ body' \in [Name -> Places] /\ body'[n] = "killing" /\ body[n] \notin {"none", "over"}
      /\ \A m \in Name : m # n => body'[m] = body[m]
  BY <1>1 DEF KillBegins, Places, TurnLeaves, Alive
<1>5. /\ victims' \in [Name -> Seq(Name)] /\ victims'[n] = names /\ names # <<>>
      /\ \A m \in Name : m # n => victims'[m] = victims[m]
  BY <1>1 DEF KillBegins
<1>6. /\ status' \in [Name -> Statuses] /\ status'[n] = "active" /\ status[n] = "active"
      /\ \A m \in Name :
           \/ status'[m] = status[m]
           \/ status[m] = "none" /\ status'[m] = "active"
           \/ body[m] = "over" /\ status[m] \in {"active", "killed"} /\ status'[m] = "killed"
  BY DEF KillBegins, TurnLeaves, HubInv, ActiveWhileAlive
<1>7. \A m \in Name : Alive(m)' <=> Alive(m)
  BY <1>4 DEF Alive
<1>8. \A m \in Name : Alive(m) => status[m] = "active" /\ status'[m] = "active"
  BY <1>6 DEF HubInv, ActiveWhileAlive, Alive
<1>9. \A k \in Name : k # n => Awaited(k)' = Awaited(k)
  BY <1>4, <1>5 DEF Awaited
<1>10. Awaited(n)' = {v}
  BY <1>4, <1>5 DEF Awaited
<1> HIDE DEF v
<1>11. \A m \in Name : pending'[m] # pending[m] =>
         Alive(m) /\ (m # v => \E k \in Name : m \in Awaited(k))
  <2>1. \A m \in Reached(v) : Alive(m) /\ (m # v => \E k \in Name : m \in Awaited(k))
    BY <1>2, ReachedAre
  <2> QED BY <1>3, <2>1
<1>12. TypeOK'
  BY <1>3, <1>4, <1>5, <1>6 DEF KillBegins, TypeOK, HubInv, Statuses, Places
<1>13. ActiveWhileAlive'
  BY <1>7, <1>8 DEF ActiveWhileAlive
<1>14. NamesAreUsedOnce'
  <2> SUFFICES ASSUME NEW m \in Name
               PROVE  /\ (status'[m] = "none" => body'[m] = "none")
                      /\ (pending'[m] # "none" => Alive(m)')
    BY DEF NamesAreUsedOnce
  <2>1. status'[m] = "none" => body'[m] = "none"
    BY <1>4, <1>6 DEF HubInv, NamesAreUsedOnce
  <2>2. pending[m] # "none" => Alive(m)
    BY DEF HubInv, NamesAreUsedOnce
  <2> QED BY <1>7, <1>11, <2>1, <2>2
<1>15. TasksAreTheLiving'
  <2> SUFFICES ASSUME NEW m \in Name
               PROVE  /\ (Alive(m)' => Contains(tasks', m))
                      /\ (Contains(tasks', m) =>
                           /\ status'[m] # "none"
                           /\ Alive(m)' \/ (body'[m] = "over" /\ status'[m] \in {"active", "killed"}))
    BY DEF TasksAreTheLiving
  <2>1. tasks' = tasks
    BY DEF KillBegins
  <2>2. /\ (Alive(m) => Contains(tasks, m))
        /\ (Contains(tasks, m) =>
             /\ status[m] # "none"
             /\ Alive(m) \/ (body[m] = "over" /\ status[m] \in {"active", "killed"}))
    BY DEF HubInv, TasksAreTheLiving
  <2> QED BY <1>4, <1>6, <1>7, <2>1, <2>2
<1>16. VictimsOnlyDie'
  <2> SUFFICES ASSUME NEW k \in Name, body'[k] = "killing"
               PROVE  /\ k \in Root /\ victims'[k] # <<>>
                      /\ LET w == Head(victims'[k])
                         IN  \/ w = k
                             \/ body'[w] \notin {"none", "over"} /\ pending'[w] = "cancel"
                             \/ body'[w] = "over" /\ status'[w] \in {"active", "killed"}
    BY DEF VictimsOnlyDie, Alive
  <2>1. CASE k = n
    <3>1. Contains(tasks, v)
      BY DEF KillBegins, v
    <3>2. Alive(v) \/ (body[v] = "over" /\ status[v] \in {"active", "killed"})
      BY <1>2, <3>1 DEF HubInv, TasksAreTheLiving
    <3>3. CASE v = n
      BY <1>5, <2>1, <3>3 DEF KillBegins, v
    <3>4. CASE v # n /\ Alive(v)
      <4>1. body'[v] \notin {"none", "over"} /\ pending'[v] = "cancel"
        BY <1>2, <1>3, <1>7, <3>4 DEF Alive
      <4> QED BY <1>5, <2>1, <4>1 DEF KillBegins, v
    <3>5. CASE v # n /\ ~Alive(v)
      <4>1. body'[v] = "over" /\ status'[v] \in {"active", "killed"}
        BY <1>2, <1>4, <1>6, <3>2, <3>5
      <4> QED BY <1>5, <2>1, <4>1 DEF KillBegins, v
    <3> QED BY <3>3, <3>4, <3>5
  <2>2. CASE k # n
    <3> DEFINE w == Head(victims[k])
    <3>1. body[k] = "killing" /\ victims'[k] = victims[k]
      BY <1>4, <1>5, <2>2
    <3>2. w \in Awaited(k)
      BY <3>1 DEF Awaited
    <3>3. w \in Name
      BY <3>2, AwaitedIsName
    <3>4. /\ k \in Root /\ victims[k] # <<>>
          /\ \/ w = k
             \/ Alive(w) /\ pending[w] = "cancel"
             \/ body[w] = "over" /\ status[w] \in {"active", "killed"}
      BY <3>1 DEF HubInv, VictimsOnlyDie
    <3> SUFFICES \/ w = k
                 \/ body'[w] \notin {"none", "over"} /\ pending'[w] = "cancel"
                 \/ body'[w] = "over" /\ status'[w] \in {"active", "killed"}
      BY <3>1, <3>4
    <3> HIDE DEF w
    <3>5. CASE Alive(w) /\ pending[w] = "cancel"
      BY <1>3, <1>7, <3>3, <3>5 DEF Alive
    <3>6. CASE body[w] = "over" /\ status[w] \in {"active", "killed"}
      BY <1>4, <1>6, <3>3, <3>6
    <3> QED BY <3>4, <3>5, <3>6
  <2> QED BY <2>1, <2>2
<1>17. StillbornAreAwaited'
  <2> SUFFICES ASSUME NEW m \in Name, body'[m] = "starting", pending'[m] # "none", host = "open"
               PROVE  \E k \in Name : m \in Awaited(k)'
    BY DEF StillbornAreAwaited, KillBegins
  <2>1. m # n /\ body[m] = "starting" /\ Alive(m)
    BY <1>4 DEF Alive
  <2>2. m = v \/ \E k \in Name : m \in Awaited(k)
    <3>1. CASE pending[m] # "none"
      BY <2>1, <3>1 DEF HubInv, StillbornAreAwaited
    <3>2. CASE pending[m] = "none"
      BY <1>11, <3>2
    <3> QED BY <3>1, <3>2
  <2>3. CASE m = v
    BY <1>10, <2>3
  <2>4. ASSUME NEW k \in Name, m \in Awaited(k) PROVE m \in Awaited(k)'
    <3>1. k # n
      BY <2>1, <2>4 DEF VictimSettled
    <3> QED BY <1>9, <2>4, <3>1
  <2> QED BY <2>2, <2>3, <2>4
<1>18. NoGhosts'
  <2> SUFFICES ASSUME NEW m \in Name, body'[m] = "over", status'[m] = "active", host = "open"
               PROVE  \E k \in Root : status'[k] \in {"killed", "timeout"} \/ m \in Awaited(k)'
    BY DEF NoGhosts, KillBegins
  <2>1. m # n /\ body[m] = "over" /\ status[m] = "active"
    BY <1>4, <1>6 DEF HubInv, NamesAreUsedOnce
  <2>2. PICK k \in Root : status[k] \in {"killed", "timeout"} \/ m \in Awaited(k)
    BY <2>1 DEF HubInv, NoGhosts
  <2>3. k \in Name
    BY DEF Name
  <2>4. CASE status[k] \in {"killed", "timeout"}
    BY <1>6, <2>3, <2>4
  <2>5. CASE m \in Awaited(k)
    <3>1. status'[m] = st[m]
      BY DEF KillBegins
    <3>2. k # n
      BY <2>1, <2>5, <3>1 DEF VictimSettled
    <3> QED BY <1>9, <2>3, <2>5, <3>2
  <2> QED BY <2>2, <2>4, <2>5
<1>19. ClosingReachesAll'
  BY <1>3, <1>7 DEF KillBegins, HubInv, ClosingReachesAll
<1>20. \A m \in Name : status[m] \in Ended => status'[m] = status[m]
  BY <1>6 DEF Ended
<1> QED BY <1>12, <1>13, <1>14, <1>15, <1>16, <1>17, <1>18, <1>19, <1>20 DEF HubInv

\* From the first of names on: the call ends, or a kill begins.
LEMMA KillFromInv ==
  ASSUME HubInv, NEW n \in Root, NEW names \in Seq(Name), NEW st,
         TurnLeaves(n, st, <<>>), VictimSettled(n, "active", st), pending[n] = "none",
         KillFrom(n, names, st), mail' = mail
  PROVE  HubInv' /\ \A m \in Name : status[m] \in Ended => status'[m] = status[m]
<1>1. n \in Name
  BY DEF Name
<1>2. CASE Continue(n, st, <<>>)
  <2>1. VictimSettled(n, "done", st)
    BY DEF VictimSettled
  <2>2. mail' \in [Name -> 0..MaxMail]
    BY DEF HubInv, TypeOK
  <2> QED BY <1>1, <1>2, <2>1, <2>2, ContinueMoves, MovesInv
<1>3. CASE ~Continue(n, st, <<>>)
  <2>1. KillBegins(n, names, st)
    BY <1>3 DEF KillFrom, KillBegins, BeforeTheWait, CancelVictim
  <2> QED BY <1>1, <2>1, KillBeginsInv
<1> QED BY <1>2, <1>3

-----------------------------------------------------------------------------
(* Cancellations, and turns that change nobody else.                       *)

\* Somebody is cancelled: nobody loses a cancellation, and who gets one is alive
\* and is awaited, was running, or is cancelled by close.
LEMMA CancelInv ==
  ASSUME HubInv, NEW h,
         pending' \in [Name -> {"none", "timer", "cancel"}],
         \A m \in Name : /\ (pending[m] # "none" => pending'[m] # "none")
                         /\ (pending[m] = "cancel" => pending'[m] = "cancel")
                         /\ (pending'[m] # pending[m] => Alive(m)),
         \A m \in Name : body[m] = "starting" /\ pending'[m] # pending[m] =>
           h # "open" \/ \E k \in Name : m \in Awaited(k),
         h \in {"open", "closing", "failed"}, host # "open" => h = host,
         h = "closing" => \A m \in Name : Alive(m) => pending'[m] # "none",
         host' = h, UNCHANGED <<status, tasks, mail, body, iters, victims>>
  PROVE  HubInv'
<1>1. \A m \in Name : Alive(m)' = Alive(m) /\ Awaited(m)' = Awaited(m)
  BY DEF Alive, Awaited
<1>2. TypeOK'
  BY DEF HubInv, TypeOK
<1>3. ActiveWhileAlive' /\ NamesAreUsedOnce' /\ TasksAreTheLiving'
  <2>1. ActiveWhileAlive'
    BY DEF HubInv, ActiveWhileAlive, Alive
  <2>2. NamesAreUsedOnce'
    BY <1>1 DEF HubInv, NamesAreUsedOnce
  <2>3. TasksAreTheLiving'
    BY DEF HubInv, TasksAreTheLiving, Alive, Contains
  <2> QED BY <2>1, <2>2, <2>3
<1>4. VictimsOnlyDie'
  <2> SUFFICES ASSUME NEW k \in Name, body[k] = "killing"
               PROVE  /\ k \in Root /\ victims[k] # <<>>
                      /\ LET v == Head(victims[k])
                         IN  \/ v = k
                             \/ body[v] \notin {"none", "over"} /\ pending'[v] = "cancel"
                             \/ body[v] = "over" /\ status[v] \in {"active", "killed"}
    BY DEF VictimsOnlyDie, Alive
  <2>1. Head(victims[k]) \in Name
    BY AwaitedIsName DEF Awaited
  <2> QED BY <2>1 DEF HubInv, VictimsOnlyDie, Alive
<1>5. StillbornAreAwaited'
  <2> SUFFICES ASSUME NEW m \in Name, body[m] = "starting", pending'[m] # "none"
               PROVE  h # "open" \/ \E k \in Name : m \in Awaited(k)
    BY <1>1 DEF StillbornAreAwaited
  <2>1. CASE pending[m] # "none"
    BY <2>1 DEF HubInv, StillbornAreAwaited
  <2>2. CASE pending[m] = "none"
    BY <2>2
  <2> QED BY <2>1, <2>2
<1>6. NoGhosts'
  <2> SUFFICES ASSUME NEW m \in Name, body[m] = "over", status[m] = "active", h = "open"
               PROVE  \E k \in Root : status[k] \in {"killed", "timeout"} \/ m \in Awaited(k)
    BY <1>1 DEF NoGhosts, Name
  <2> QED BY DEF HubInv, NoGhosts
<1>7. ClosingReachesAll'
  BY <1>1 DEF ClosingReachesAll
<1> QED BY <1>2, <1>3, <1>4, <1>5, <1>6, <1>7 DEF HubInv

LEMMA TimeoutInv == ASSUME HubInv, NEW n \in Name, Timeout(n) PROVE HubInv'
<1>1. pending' = Cancelled(pending, n, "timer")
  BY DEF Timeout
<1>2. \A m \in Reached(n) : Alive(m) /\ (m # n => \E k \in Name : m \in Awaited(k))
  BY ReachedAre
<1>3. /\ pending' \in [Name -> {"none", "timer", "cancel"}]
      /\ \A m \in Name : /\ (pending[m] # "none" => pending'[m] # "none")
                         /\ (pending[m] = "cancel" => pending'[m] = "cancel")
                         /\ (pending'[m] # pending[m] => m \in Reached(n))
  BY <1>1, CancelledType
<1>4. body[n] # "starting" /\ host' = host
  BY DEF Timeout, Running
<1>5. host \in {"open", "closing", "closed", "failed"}
  BY DEF HubInv, TypeOK
<1>6. Alive(n)
  BY DEF Timeout, Running, Alive
<1>7. host # "closed" /\ (host = "closing" => \A m \in Name : Alive(m) => pending[m] # "none")
  BY <1>6 DEF HubInv, ClosingReachesAll
<1> QED BY <1>2, <1>3, <1>4, <1>5, <1>7, CancelInv DEF Timeout

LEMMA CloseInv == ASSUME HubInv, Close PROVE HubInv'
<1> DEFINE bad  == {i \in DOMAIN tasks : AwaitsItself(tasks[i])}
           done == {i \in DOMAIN tasks : \A j \in bad : i < j}
<1>1. /\ host = "open" /\ host' = IF bad = {} THEN "closing" ELSE "failed"
      /\ pending' = [n \in Name |->
           IF \E i \in done : n \in Reached(tasks[i]) THEN "cancel" ELSE pending[n]]
  BY DEF Close
<1>2. /\ pending \in [Name -> {"none", "timer", "cancel"}] /\ tasks \in Seq(Name)
  BY DEF HubInv, TypeOK
<1>3. \A m \in Name : pending'[m] # pending[m] => Alive(m)
  <2>1. \A x : \A m \in Reached(x) : Alive(m)
    BY DEF Reached
  <2> QED BY <1>1, <2>1
<1>4. bad = {} => \A m \in Name : Alive(m) => pending'[m] # "none"
  <2> SUFFICES ASSUME bad = {}, NEW m \in Name, Alive(m) PROVE pending'[m] # "none"
    OBVIOUS
  <2>1. PICK i \in 1..Len(tasks) : tasks[i] = m
    BY DEF HubInv, TasksAreTheLiving, Contains
  <2>2. i \in DOMAIN tasks
    BY <1>2, <2>1, LenProperties
  <2>3. m \in Reached(tasks[i])
    BY <2>1, ReachedAre
  <2> QED BY <1>1, <2>2, <2>3
<1>5. \A m \in Name : /\ (pending[m] # "none" => pending'[m] # "none")
                      /\ (pending[m] = "cancel" => pending'[m] = "cancel")
  BY <1>1
<1>6. pending' \in [Name -> {"none", "timer", "cancel"}]
  BY <1>1, <1>2
<1> HIDE DEF bad, done
<1>7. /\ host' \in {"open", "closing", "failed"} /\ host' # "open"
      /\ (host' = "closing" => \A m \in Name : Alive(m) => pending'[m] # "none")
  BY <1>1, <1>4
<1> QED BY <1>1, <1>3, <1>5, <1>6, <1>7, CancelInv DEF Close

LEMMA CloseReturnsInv == ASSUME HubInv, CloseReturns PROVE HubInv'
<1>1. \A m \in Name : ~Alive(m)
  <2> SUFFICES ASSUME NEW m \in Name, Alive(m) PROVE FALSE
    OBVIOUS
  <2>1. PICK i \in 1..Len(tasks) : tasks[i] = m
    BY DEF HubInv, TasksAreTheLiving, Contains
  <2>2. i \in DOMAIN tasks
    BY <2>1, LenProperties DEF HubInv, TypeOK
  <2> QED BY <2>1, <2>2 DEF CloseReturns
<1>2. \A m \in Name : Alive(m)' = Alive(m) /\ Awaited(m)' = Awaited(m)
  BY DEF Alive, Awaited, CloseReturns
<1>3. host' = "closed"
  BY DEF CloseReturns
<1>4. TypeOK'
  BY DEF CloseReturns, HubInv, TypeOK
<1>5. ActiveWhileAlive' /\ NamesAreUsedOnce'
  BY <1>2 DEF CloseReturns, HubInv, ActiveWhileAlive, NamesAreUsedOnce
<1>6. TasksAreTheLiving'
  BY DEF CloseReturns, HubInv, TasksAreTheLiving, Alive, Contains
<1>7. VictimsOnlyDie'
  BY DEF CloseReturns, HubInv, VictimsOnlyDie, Alive
<1>8. StillbornAreAwaited' /\ NoGhosts'
  BY <1>3 DEF StillbornAreAwaited, NoGhosts
<1>9. ClosingReachesAll'
  BY <1>1, <1>2 DEF ClosingReachesAll
<1> QED BY <1>4, <1>5, <1>6, <1>7, <1>8, <1>9 DEF HubInv

\* n goes to another place within its turns, or is over before its first.
LEMMA PlaceInv ==
  ASSUME HubInv, NEW n \in Name, Begin(n) \/ WaitForMessage(n) \/ NeverBegin(n)
  PROVE  HubInv'
<1>1. PICK place \in {"thinking", "waiting", "over"} :
        /\ body' = [body EXCEPT ![n] = place]
        /\ \/ place # "over" /\ pending[n] = "none" /\ pending' = pending
           \/ /\ place = "over" /\ body[n] = "starting" /\ pending[n] # "none"
              /\ pending' = [pending EXCEPT ![n] = "none"]
  BY DEF Begin, WaitForMessage, NeverBegin, At
<1>2. Alive(n) /\ body[n] # "killing" /\ UNCHANGED <<status, tasks, mail, iters, victims, host>>
  BY DEF Begin, WaitForMessage, NeverBegin, At, Alive
<1>3. body \in [Name -> Places] /\ pending \in [Name -> {"none", "timer", "cancel"}]
  BY DEF HubInv, TypeOK, Places
<1>4. /\ body'[n] = place /\ \A m \in Name : m # n => body'[m] = body[m]
      /\ pending'[n] = "none" /\ \A m \in Name : m # n => pending'[m] = pending[m]
      /\ pending' \in [Name -> {"none", "timer", "cancel"}] /\ body' \in [Name -> Places]
  BY <1>1, <1>3 DEF Places
<1>5. \A k \in Name : Awaited(k)' = Awaited(k)
  BY <1>2, <1>4 DEF Awaited
<1>6. status[n] = "active" /\ Contains(tasks, n)
  BY <1>2 DEF HubInv, ActiveWhileAlive, TasksAreTheLiving
<1>7. TypeOK'
  BY <1>2, <1>4 DEF HubInv, TypeOK, Places
<1>8. ActiveWhileAlive' /\ NamesAreUsedOnce'
  <2>1. ActiveWhileAlive'
    BY <1>2, <1>4, <1>6 DEF HubInv, ActiveWhileAlive, Alive
  <2>2. NamesAreUsedOnce'
    BY <1>2, <1>4, <1>6 DEF HubInv, NamesAreUsedOnce, Alive
  <2> QED BY <2>1, <2>2
<1>9. TasksAreTheLiving'
  <2> SUFFICES ASSUME NEW m \in Name
               PROVE  /\ (Alive(m)' => Contains(tasks, m))
                      /\ (Contains(tasks, m) =>
                           /\ status[m] # "none"
                           /\ Alive(m)' \/ (body'[m] = "over" /\ status[m] \in {"active", "killed"}))
    BY <1>2 DEF TasksAreTheLiving, Contains
  <2>1. /\ (Alive(m) => Contains(tasks, m))
        /\ (Contains(tasks, m) =>
             /\ status[m] # "none"
             /\ Alive(m) \/ (body[m] = "over" /\ status[m] \in {"active", "killed"}))
    BY DEF HubInv, TasksAreTheLiving
  <2> QED BY <1>4, <1>6, <2>1 DEF Alive
<1>10. VictimsOnlyDie'
  <2> SUFFICES ASSUME NEW k \in Name, body'[k] = "killing"
               PROVE  /\ k \in Root /\ victims[k] # <<>>
                      /\ LET v == Head(victims[k])
                         IN  \/ v = k
                             \/ body'[v] \notin {"none", "over"} /\ pending'[v] = "cancel"
                             \/ body'[v] = "over" /\ status[v] \in {"active", "killed"}
    BY <1>2 DEF VictimsOnlyDie, Alive
  <2> DEFINE v == Head(victims[k])
  <2>1. k # n /\ body[k] = "killing"
    BY <1>1, <1>4
  <2>2. v \in Name
    BY <2>1, AwaitedIsName DEF Awaited
  <2>3. /\ k \in Root /\ victims[k] # <<>>
        /\ \/ v = k
           \/ body[v] \notin {"none", "over"} /\ pending[v] = "cancel"
           \/ body[v] = "over" /\ status[v] \in {"active", "killed"}
    BY <2>1 DEF HubInv, VictimsOnlyDie, Alive
  <2> HIDE DEF v
  <2>4. CASE v = n
    BY <1>1, <1>2, <1>4, <1>6, <2>1, <2>3, <2>4 DEF v, Alive
  <2>5. CASE v # n
    BY <1>4, <2>2, <2>3, <2>5 DEF v
  <2> QED BY <2>4, <2>5
<1>11. StillbornAreAwaited'
  <2> SUFFICES ASSUME NEW m \in Name, body'[m] = "starting", pending'[m] # "none"
               PROVE  host # "open" \/ \E k \in Name : m \in Awaited(k)
    BY <1>2, <1>5 DEF StillbornAreAwaited
  <2> QED BY <1>1, <1>4 DEF HubInv, StillbornAreAwaited
<1>12. NoGhosts'
  <2> SUFFICES ASSUME NEW m \in Name, body'[m] = "over", status[m] = "active", host = "open"
               PROVE  \E k \in Root : status[k] \in {"killed", "timeout"} \/ m \in Awaited(k)
    BY <1>2, <1>5 DEF NoGhosts, Name
  <2>1. CASE m # n
    BY <1>4, <2>1 DEF HubInv, NoGhosts
  <2>2. CASE m = n
    <3>1. PICK k \in Name : n \in Awaited(k)
      BY <1>1, <1>4, <2>2 DEF HubInv, StillbornAreAwaited
    <3>2. k \in Root
      BY <3>1, AwaitedIsName DEF HubInv, VictimsOnlyDie
    <3> QED BY <2>2, <3>1, <3>2
  <2> QED BY <2>1, <2>2
<1>13. ClosingReachesAll'
  <2>1. host # "closed" /\ (host = "closing" => pending[n] # "none")
    BY <1>2 DEF HubInv, ClosingReachesAll
  <2> QED BY <1>1, <1>2, <1>4, <2>1 DEF HubInv, ClosingReachesAll, Alive
<1> QED BY <1>7, <1>8, <1>9, <1>10, <1>11, <1>12, <1>13 DEF HubInv

\* The host runs an orchestrator.
LEMMA RunInv == ASSUME HubInv, NEW n \in Name, Run(n) PROVE HubInv'
<1>1. /\ status[n] = "none" /\ body[n] = "none" /\ pending[n] = "none" /\ host = "open"
      /\ ~Contains(tasks, n)
  BY DEF Run, Registered, HubInv, NamesAreUsedOnce, TasksAreTheLiving, Alive
<1>2. /\ status \in [Name -> Statuses] /\ body \in [Name -> Places]
      /\ tasks \in Seq(Name) /\ IsInjective(tasks)
  BY DEF HubInv, TypeOK, Statuses, Places
<1>3. /\ status'[n] = "active" /\ \A m \in Name : m # n => status'[m] = status[m]
      /\ body'[n] = "thinking" /\ \A m \in Name : m # n => body'[m] = body[m]
      /\ UNCHANGED <<mail, iters, victims, pending, host>>
      /\ status' \in [Name -> Statuses] /\ body' \in [Name -> Places]
  BY <1>2 DEF Run, Statuses, Places
<1>4. /\ tasks' \in Seq(Name) /\ IsInjective(tasks')
      /\ \A m : Contains(tasks', m) <=> Contains(tasks, m) \/ m = n
  <2>1. <<n>> \in Seq(Name) /\ Len(<<n>>) = 1 /\ <<n>>[1] = n
    OBVIOUS
  <2>2. IsInjective(<<n>>) /\ \A m : Contains(<<n>>, m) <=> m = n
    <3>1. DOMAIN <<n>> = {1}
      BY <2>1
    <3>2. IsInjective(<<n>>)
      BY <3>1 DEF IsInjective
    <3>3. \A m : Contains(<<n>>, m) <=> m = n
      BY <2>1 DEF Contains
    <3> QED BY <3>2, <3>3
  <2>3. tasks' = tasks \o <<n>>
    BY <1>2, AppendIsConcat DEF Run
  <2> DEFINE one == <<n>>
  <2>4. one \in Seq(Name) /\ IsInjective(one) /\ \A m : Contains(one, m) <=> m = n
    BY <2>1, <2>2
  <2> HIDE DEF one
  <2>5. /\ tasks \o one \in Seq(Name) /\ IsInjective(tasks \o one)
        /\ \A m : Contains(tasks \o one, m) <=> Contains(tasks, m) \/ Contains(one, m)
    BY <1>1, <1>2, <2>4, Joined
  <2> QED BY <2>3, <2>4, <2>5 DEF one
<1>5. \A k \in Name : k # n => Awaited(k)' = Awaited(k)
  BY <1>3 DEF Awaited
<1>6. Awaited(n) = {} /\ Awaited(n)' = {}
  BY <1>1, <1>3 DEF Awaited
<1>7. TypeOK'
  BY <1>3, <1>4 DEF HubInv, TypeOK, Statuses, Places
<1>8. ActiveWhileAlive' /\ NamesAreUsedOnce'
  BY <1>1, <1>3 DEF HubInv, ActiveWhileAlive, NamesAreUsedOnce, Alive
<1>9. TasksAreTheLiving'
  <2> SUFFICES ASSUME NEW m \in Name
               PROVE  /\ (Alive(m)' => Contains(tasks', m))
                      /\ (Contains(tasks', m) =>
                           /\ status'[m] # "none"
                           /\ Alive(m)' \/ (body'[m] = "over" /\ status'[m] \in {"active", "killed"}))
    BY DEF TasksAreTheLiving
  <2>1. /\ (Alive(m) => Contains(tasks, m))
        /\ (Contains(tasks, m) =>
             /\ status[m] # "none"
             /\ Alive(m) \/ (body[m] = "over" /\ status[m] \in {"active", "killed"}))
    BY DEF HubInv, TasksAreTheLiving
  <2> QED BY <1>3, <1>4, <2>1 DEF Alive
<1>10. VictimsOnlyDie'
  <2> SUFFICES ASSUME NEW k \in Name, body'[k] = "killing"
               PROVE  /\ k \in Root /\ victims[k] # <<>>
                      /\ LET v == Head(victims[k])
                         IN  \/ v = k
                             \/ body'[v] \notin {"none", "over"} /\ pending[v] = "cancel"
                             \/ body'[v] = "over" /\ status'[v] \in {"active", "killed"}
    BY <1>3 DEF VictimsOnlyDie, Alive
  <2> DEFINE v == Head(victims[k])
  <2>1. k # n /\ body[k] = "killing"
    BY <1>3
  <2>2. v \in Name
    BY <2>1, AwaitedIsName DEF Awaited
  <2>3. /\ k \in Root /\ victims[k] # <<>>
        /\ \/ v = k
           \/ body[v] \notin {"none", "over"} /\ pending[v] = "cancel"
           \/ body[v] = "over" /\ status[v] \in {"active", "killed"}
    BY <2>1 DEF HubInv, VictimsOnlyDie, Alive
  <2> HIDE DEF v
  <2> QED BY <1>1, <1>3, <2>1, <2>2, <2>3 DEF v
<1>11. StillbornAreAwaited'
  <2> SUFFICES ASSUME NEW m \in Name, body'[m] = "starting", pending[m] # "none"
               PROVE  \E k \in Name : m \in Awaited(k)'
    BY <1>3 DEF StillbornAreAwaited
  <2>1. PICK k \in Name : m \in Awaited(k)
    BY <1>1, <1>3 DEF HubInv, StillbornAreAwaited
  <2> QED BY <1>5, <1>6, <2>1
<1>12. NoGhosts'
  <2> SUFFICES ASSUME NEW m \in Name, body'[m] = "over", status'[m] = "active"
               PROVE  \E k \in Root : status'[k] \in {"killed", "timeout"} \/ m \in Awaited(k)'
    BY <1>3 DEF NoGhosts
  <2>1. PICK k \in Root : status[k] \in {"killed", "timeout"} \/ m \in Awaited(k)
    BY <1>1, <1>3 DEF HubInv, NoGhosts
  <2> QED BY <1>1, <1>3, <1>5, <1>6, <2>1 DEF Name
<1>13. ClosingReachesAll'
  BY <1>1, <1>3 DEF ClosingReachesAll
<1> QED BY <1>7, <1>8, <1>9, <1>10, <1>11, <1>12, <1>13 DEF HubInv

-----------------------------------------------------------------------------
(* The next-state relation.                                                *)

LEMMA NothingNew ==
  /\ <<>> \in Seq(Name) /\ IsInjective(<<>>) /\ \A m : ~Contains(<<>>, m)
BY DEF IsInjective, Contains

\* The statuses stay as they are.
LEMMA NothingLeft ==
  ASSUME HubInv, NEW n \in Name, Alive(n)
  PROVE  TurnLeaves(n, status, <<>>)
BY NothingNew DEF TurnLeaves, HubInv, TypeOK, ActiveWhileAlive, Statuses

\* The workers a call has spawned are those it made a status for.
LEMMA SpawnedType ==
  ASSUME NEW made, IsFiniteSet(made), NEW new \in SetToSeqs(made)
  PROVE  new \in Seq(made) /\ IsInjective(new)
<1>1. Cardinality(made) \in Nat
  BY FS_CardinalityType
<1> QED BY <1>1 DEF SetToSeqs, IsInjective

LEMMA CreateInv ==
  ASSUME HubInv, NEW n \in Name, CreateSubagents(n)
  PROVE  HubInv' /\ \A m \in Name : status[m] \in Ended => status'[m] = status[m]
<1>1. PICK made \in SUBSET (Worker \ Registered), half \in SUBSET (Worker \ Registered) :
        \E new \in SetToSeqs(made) :
          Continue(n, [m \in Name |-> IF m \in made \cup half THEN "active"
                                      ELSE status[m]], new)
  BY DEF CreateSubagents
<1> DEFINE st == [m \in Name |-> IF m \in made \cup half THEN "active" ELSE status[m]]
<1>2. PICK new \in SetToSeqs(made) : Continue(n, st, new)
  BY <1>1
<1>3. Alive(n) /\ pending[n] = "none" /\ body[n] = "thinking"
  BY DEF CreateSubagents, At, Alive
<1>4. new \in Seq(made) /\ IsInjective(new)
  <2>1. IsFiniteSet(made)
    BY HubSizes, FS_Subset DEF Registered
  <2> QED BY <2>1, SpawnedType
<1>5. made \subseteq Name /\ \A m \in made \cup half : m \in Name /\ status[m] = "none"
  BY DEF Registered, Name
<1>6. new \in Seq(Name)
  BY <1>4, <1>5, SeqMonotonic
<1>7. \A m : Contains(new, m) => m \in made
  BY <1>4, ElementOfSeq DEF Contains
<1>8. TurnLeaves(n, st, new)
  <2>1. st \in [Name -> Statuses] /\ \A m \in Name : st[m] = IF m \in made \cup half THEN "active" ELSE status[m]
    BY DEF HubInv, TypeOK, Statuses
  <2>2. status[n] = "active"
    BY <1>3 DEF HubInv, ActiveWhileAlive
  <2> HIDE DEF st
  <2> QED BY <1>3, <1>4, <1>5, <1>6, <1>7, <2>1, <2>2 DEF TurnLeaves
<1>9. VictimSettled(n, "done", st) /\ VictimSettled(n, "active", st)
  BY <1>3 DEF VictimSettled, Awaited
<1>10. mail' \in [Name -> 0..MaxMail]
  BY DEF CreateSubagents, HubInv, TypeOK
<1> HIDE DEF st
<1> QED BY <1>2, <1>3, <1>8, <1>9, <1>10, ContinueMoves, MovesInv

LEMMA NextInv ==
  ASSUME HubInv, [Next]_vars
  PROVE  HubInv' /\ \A m \in Name : status[m] \in Ended => status'[m] = status[m]
<1>1. ASSUME NEW n \in Name, Run(n)
      PROVE  \A m \in Name : status[m] \in Ended => status'[m] = status[m]
  BY <1>1 DEF Run, Registered, Ended, HubInv, TypeOK
<1>2. ASSUME NEW n \in Name, Begin(n) \/ WaitForMessage(n) \/ NeverBegin(n) \/ Timeout(n)
      PROVE  UNCHANGED status
  BY <1>2 DEF Begin, WaitForMessage, NeverBegin, Timeout
<1>3. CASE Close \/ CloseReturns
  BY <1>3, CloseInv, CloseReturnsInv DEF Close, CloseReturns
<1>4. ASSUME NEW n \in Name, Interrupt(n) \/ Crash(n) \/ Reply(n)
      PROVE  HubInv' /\ \A m \in Name : status[m] \in Ended => status'[m] = status[m]
  <2>1. Alive(n)
    BY <1>4 DEF Interrupt, Crash, Reply, At, Running, Alive
  <2>2. PICK how \in Ended : /\ Leave(n, how, status, <<>>)
                             /\ (pending[n] = "cancel" => how = "killed")
                             /\ (body[n] = "killing" => how \in {"killed", "timeout"})
                             /\ \A v \in Awaited(n) : ~Alive(v)
    BY <1>4 DEF Interrupt, Crash, Reply, At, Ended, Awaited
  <2>3. VictimSettled(n, how, status)
    BY <2>2 DEF VictimSettled, Awaited
  <2>4. mail' \in [Name -> 0..MaxMail]
    BY <1>4 DEF Interrupt, Crash, Reply, HubInv, TypeOK
  <2> QED BY <2>1, <2>2, <2>3, <2>4, NothingLeft, LeaveMoves, MovesInv
<1>5. ASSUME NEW n \in Name, UseTool(n) \/ SendMessage(n) \/ Receive(n) \/ WaitExpires(n)
      PROVE  HubInv' /\ \A m \in Name : status[m] \in Ended => status'[m] = status[m]
  <2>1. Alive(n) /\ pending[n] = "none" /\ body[n] # "killing" /\ Continue(n, status, <<>>)
    BY <1>5 DEF UseTool, SendMessage, Receive, WaitExpires, At, Alive
  <2>2. VictimSettled(n, "done", status) /\ VictimSettled(n, "active", status)
    BY <2>1 DEF VictimSettled, Awaited
  <2>3. mail' \in [Name -> 0..MaxMail]
    <3>1. mail \in [Name -> 0..MaxMail] /\ MaxMail \in Nat
      BY HubSizes DEF HubInv, TypeOK
    <3>2. CASE SendMessage(n)
      BY <3>1, <3>2 DEF SendMessage
    <3>3. CASE Receive(n)
      <4>1. mail' = [mail EXCEPT ![n] = @ - 1] /\ mail[n] - 1 \in 0..MaxMail
        BY <3>1, <3>3 DEF Receive
      <4> QED BY <3>1, <4>1
    <3>4. CASE UseTool(n) \/ WaitExpires(n)
      BY <3>1, <3>4 DEF UseTool, WaitExpires
    <3> QED BY <1>5, <3>2, <3>3, <3>4
  <2> QED BY <2>1, <2>2, <2>3, NothingLeft, ContinueMoves, MovesInv
<1>6. ASSUME NEW n \in Name, KillSubagents(n)
      PROVE  HubInv' /\ \A m \in Name : status[m] \in Ended => status'[m] = status[m]
  <2>1. /\ n \in Root /\ Alive(n) /\ pending[n] = "none" /\ body[n] # "killing" /\ mail' = mail
        /\ \E names \in KillLists : KillFrom(n, names, status)
    BY <1>6 DEF KillSubagents, At, Alive
  <2>2. KillLists \subseteq Seq(Name)
    BY SeqDef DEF KillLists
  <2>3. PICK names \in Seq(Name) : KillFrom(n, names, status)
    BY <2>1, <2>2
  <2>4. VictimSettled(n, "active", status)
    BY <2>1 DEF VictimSettled, Awaited
  <2>5. TurnLeaves(n, status, <<>>) /\ n \in Root /\ pending[n] = "none" /\ mail' = mail
    BY <2>1, NothingLeft
  <2> QED BY <2>3, <2>4, <2>5, KillFromInv
<1>7. ASSUME NEW n \in Name, KillNext(n)
      PROVE  HubInv' /\ \A m \in Name : status[m] \in Ended => status'[m] = status[m]
  <2> DEFINE v == Head(victims[n])
             st == [status EXCEPT ![v] = "killed"]
  <2>1. /\ body[n] = "killing" /\ pending[n] = "none" /\ Alive(n) /\ mail' = mail
        /\ KillFrom(n, Tail(victims[n]), st) /\ Awaited(n) = {v}
        /\ ~Alive(v)
    BY <1>7 DEF KillNext, At, Alive, Awaited, AfterTheWait
  <2>2. /\ n \in Root /\ victims[n] \in Seq(Name) /\ victims[n] # <<>> /\ v # n
        /\ body[v] = "over" /\ status[v] \in {"active", "killed"}
    BY <2>1 DEF HubInv, TypeOK, VictimsOnlyDie
  <2>3. v \in Name /\ Tail(victims[n]) \in Seq(Name)
    BY <2>2
  <2>4. /\ st \in [Name -> Statuses] /\ st[v] = "killed" /\ \A m \in Name : m # v => st[m] = status[m]
    BY <2>3 DEF HubInv, TypeOK, Statuses, Ended
  <2>5. status[n] = "active"
    BY <2>1 DEF HubInv, ActiveWhileAlive
  <2> HIDE DEF v, st
  <2>6. TurnLeaves(n, st, <<>>)
    BY <2>1, <2>2, <2>4, <2>5, NothingNew DEF TurnLeaves
  <2>7. VictimSettled(n, "active", st)
    BY <2>1, <2>4 DEF VictimSettled
  <2> QED BY <2>1, <2>2, <2>3, <2>6, <2>7, KillFromInv
<1>8. CASE UNCHANGED vars
  <2>1. \A m \in Name : Alive(m)' = Alive(m) /\ Awaited(m)' = Awaited(m)
    BY <1>8 DEF vars, Alive, Awaited
  <2>2. TypeOK' /\ ActiveWhileAlive' /\ NamesAreUsedOnce' /\ ClosingReachesAll'
    BY <1>8, <2>1 DEF vars, HubInv, TypeOK, ActiveWhileAlive, NamesAreUsedOnce, ClosingReachesAll
  <2>3. TasksAreTheLiving' /\ VictimsOnlyDie'
    BY <1>8 DEF vars, HubInv, TasksAreTheLiving, VictimsOnlyDie, Alive, Contains
  <2>4. StillbornAreAwaited' /\ NoGhosts'
    BY <1>8, <2>1 DEF vars, HubInv, StillbornAreAwaited, NoGhosts, Name
  <2> QED BY <1>8, <2>2, <2>3, <2>4 DEF vars, HubInv
<1> QED BY <1>1, <1>2, <1>3, <1>4, <1>5, <1>6, <1>7, <1>8, RunInv, PlaceInv, TimeoutInv, CreateInv
        DEF Next, Step

LEMMA InitInv == Init => HubInv
<1> SUFFICES ASSUME Init PROVE HubInv
  OBVIOUS
<1>1. TypeOK
  BY HubSizes, NothingNew DEF Init, TypeOK
<1>2. ActiveWhileAlive /\ NamesAreUsedOnce /\ ClosingReachesAll
  BY DEF Init, ActiveWhileAlive, NamesAreUsedOnce, ClosingReachesAll, Alive
<1>3. TasksAreTheLiving
  BY NothingNew DEF Init, TasksAreTheLiving, Alive
<1>4. VictimsOnlyDie /\ StillbornAreAwaited /\ NoGhosts
  BY DEF Init, VictimsOnlyDie, StillbornAreAwaited, NoGhosts
<1> QED BY <1>1, <1>2, <1>3, <1>4 DEF HubInv

LEMMA HubAlways == Spec => []HubInv
<1>1. Init => HubInv
  BY InitInv
<1>2. HubInv /\ [Next]_vars => HubInv'
  BY NextInv
<1> QED BY <1>1, <1>2, PTL DEF Spec

-----------------------------------------------------------------------------
(* Theorems.                                                               *)

\* The state of the hub has its types, however many agents there are: nobody
\* begins a turn past max_iterations, and no task is registered twice.
THEOREM Typed == Spec => []TypeOK
<1>1. HubInv => TypeOK
  BY DEF HubInv
<1> QED BY <1>1, HubAlways, PTL

\* However many agents spawn, wait for and kill one another, what get_status
\* tells of one whose code runs is that it is active.
THEOREM RunningStaysActive == Spec => []RunningIsActive
<1>1. HubInv => RunningIsActive
  BY DEF HubInv, ActiveWhileAlive, RunningIsActive, Running, Alive
<1> QED BY <1>1, HubAlways, PTL

\* Kills, timeouts, crashes and a close that race for the same agent never
\* rewrite one another's verdict in Hub._status.
THEOREM EndsAreFinal == Spec => StatusIsFinal
<1>1. HubInv /\ [Next]_vars =>
        [\A n \in Name : status[n] \in Ended => status'[n] = status[n]]_status
  BY NextInv
<1> QED BY <1>1, HubAlways, PTL DEF Spec, StatusIsFinal

\* Nobody who is over is listed as active, but for those a killer is about to
\* mark, was stopped before it could, or close cancelled before their first turn.
THEOREM GhostsAreExplained == Spec => []NoGhosts
<1>1. HubInv => NoGhosts
  BY DEF HubInv
<1> QED BY <1>1, HubAlways, PTL

\* When Hub.close returns nobody runs, or will: whoever had a task was cancelled,
\* and a cancelled agent spawns nobody.
THEOREM CloseIsComplete == Spec => []CloseStopsEverything
<1>1. HubInv => CloseStopsEverything
  BY DEF HubInv, ClosingReachesAll, CloseStopsEverything
<1> QED BY <1>1, HubAlways, PTL
=============================================================================
