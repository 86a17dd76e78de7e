----------------------------- MODULE SummaryProof -----------------------------
(***************************************************************************)
(* For any clients, histories, sizes and number of tasks: one summary at a *)
(* time for a conversation, and everybody is served its own history.       *)
(*                                                                         *)
(* The invariant behind the first: a task that runs is the one _inflight   *)
(* holds for its key, because only a task that is done can be displaced or *)
(* taken out.  Behind the second: whatever is cached stands for the prefix *)
(* it is filed under, and every cut is at a message that is no tool        *)
(* result, and behind what the summary stands for.                         *)
(***************************************************************************)
EXTENDS SummaryCache, TLAPS, SequenceTheorems, FiniteSetTheorems, WellFoundedInduction

\* A running task is its key's in _inflight.
Enrolled ==
  \A t \in TaskId : tasks[t].state = "running"
                    => /\ tasks[t].key \in Keys
                       /\ inflight[tasks[t].key] = t

Maps == /\ inflight \in [Keys -> TaskId \cup {NoTask}]
        /\ DOMAIN tasks = TaskId
        /\ \A t \in TaskId : DOMAIN tasks[t] = {"key", "prefix", "text", "state"}

FlightInv == Maps /\ Enrolled

\* No task runs at the start.
LEMMA FlightInit == Init => FlightInv
  BY DEF Init, FlightInv, Maps, Enrolled, Absent

\* A request that only reads the cache, waits or is served starts no task.
LEMMA FlightKept ==
  FlightInv /\ UNCHANGED <<inflight, tasks>> => FlightInv'
  BY DEF FlightInv, Maps, Enrolled

\* A task is started for a key only when the key's task is done: the entry it
\* displaces is not one of a running task.
LEMMA FlightStart ==
  ASSUME NEW c \in Client, FlightInv, StartSummarize(c)
  PROVE  FlightInv'
<1>1. PICK h \in Histories, t \in TaskId :
        /\ ~UnderWay(Key(h))
        /\ tasks[t] = Absent
        /\ tasks' = [tasks EXCEPT ![t] =
             [key |-> Key(h), prefix |-> Upto(h, Split(h)),
              text |-> CachedText(h) \o SubSeq(h, Len(CachedText(h)) + 1, Split(h)),
              state |-> "running"]]
        /\ inflight' = [inflight EXCEPT ![Key(h)] = t]
  BY DEF StartSummarize
<1>2. Key(h) \in Keys
  BY DEF Keys
<1>3. Maps'
  BY <1>1, <1>2 DEF FlightInv, Maps
<1>4. ASSUME NEW u \in TaskId, tasks'[u].state = "running"
      PROVE  tasks'[u].key \in Keys /\ inflight'[tasks'[u].key] = u
  <2>1. CASE u = t
    BY <1>1, <1>2, <2>1 DEF FlightInv, Maps
  <2>2. CASE u # t
    <3>1. tasks'[u] = tasks[u]
      BY <1>1, <2>2 DEF FlightInv, Maps
    <3>2. tasks[u].key \in Keys /\ inflight[tasks[u].key] = u
      BY <1>4, <3>1 DEF FlightInv, Enrolled
    <3>3. tasks[u].key # Key(h)
      BY <1>1, <1>4, <3>1, <3>2, CacheSizes DEF UnderWay
    <3> QED BY <1>1, <3>1, <3>2, <3>3 DEF FlightInv, Maps
  <2> QED BY <2>1, <2>2
<1> QED BY <1>3, <1>4 DEF FlightInv, Enrolled

\* The end of a task leaves the others where they are.
LEMMA FlightEnd ==
  ASSUME NEW t \in TaskId, FlightInv, TaskEnds(t)
  PROVE  FlightInv'
<1>1. PICK s \in {"ok", "failed"} : tasks' = [tasks EXCEPT ![t].state = s]
  BY DEF TaskEnds
<1>2. inflight' = inflight
  BY DEF TaskEnds
<1>3. \A u \in TaskId : tasks'[u].key = tasks[u].key
                        /\ (tasks'[u].state = "running" => tasks[u].state = "running")
                        /\ DOMAIN tasks'[u] = DOMAIN tasks[u]
  BY <1>1 DEF FlightInv, Maps
<1> QED BY <1>1, <1>2, <1>3 DEF FlightInv, Maps, Enrolled

\* The callback takes no other task than its own out of _inflight.
LEMMA FlightCallback ==
  ASSUME NEW t \in TaskId, FlightInv, Callback(t)
  PROVE  FlightInv'
<1>1. inflight' = Forget(t) /\ tasks' = [tasks EXCEPT ![t] = Absent]
  BY DEF Callback
<1>2. Maps'
  BY <1>1 DEF FlightInv, Maps, Forget, Absent
<1>3. ASSUME NEW u \in TaskId, tasks'[u].state = "running"
      PROVE  tasks'[u].key \in Keys /\ inflight'[tasks'[u].key] = u
  <2>1. u # t
    BY <1>1, <1>3 DEF FlightInv, Maps, Absent
  <2>2. tasks'[u] = tasks[u]
    BY <1>1, <2>1 DEF FlightInv, Maps
  <2>3. tasks[u].key \in Keys /\ inflight[tasks[u].key] = u
    BY <1>3, <2>2 DEF FlightInv, Enrolled
  <2> QED BY <1>1, <2>1, <2>2, <2>3 DEF Forget
<1> QED BY <1>2, <1>3 DEF FlightInv, Enrolled

\* The induction step.
LEMMA FlightNext == FlightInv /\ [Next]_vars => FlightInv'
<1> SUFFICES ASSUME FlightInv, [Next]_vars PROVE FlightInv'
  OBVIOUS
<1>1. ASSUME NEW c \in Client,
             ServeAtOnce(c) \/ Join(c) \/ Serve(c) \/ HangUp(c)
      PROVE  FlightInv'
  BY <1>1, FlightKept DEF ServeAtOnce, Join, Serve, HangUp
<1>2. ASSUME NEW c \in Client, StartSummarize(c) PROVE FlightInv'
  BY <1>2, FlightStart
<1>3. ASSUME NEW t \in TaskId, TaskEnds(t) PROVE FlightInv'
  BY <1>3, FlightEnd
<1>4. ASSUME NEW t \in TaskId, Callback(t) PROVE FlightInv'
  BY <1>4, FlightCallback
<1>5. CASE UNCHANGED vars
  BY <1>5, FlightKept DEF vars
<1> QED BY <1>1, <1>2, <1>3, <1>4, <1>5 DEF Next

\* Two tasks never write the summary of the same conversation at the same time,
\* whatever requests, failures and late callbacks come between (_start_summarize
\* and its _done).
THEOREM OneSummaryAtATime == Spec => []SingleFlight
<1>1. FlightInv => SingleFlight
  BY DEF FlightInv, Enrolled, SingleFlight
<1> QED BY <1>1, FlightInit, FlightNext, PTL DEF Spec

------------------------------------------------------------------------------
(* What a cut leaves.                                                      *)

\* A set of numbers has its least element.
LEMMA LeastExists ==
  ASSUME NEW S \in SUBSET Nat, S # {}
  PROVE  Min(S) \in S
<1>1. PICK x \in S : \A y \in S : ~(<<y, x>> \in OpToRel(<, Nat))
  BY NatLessThanWellFounded, WFMin
<1>2. \A y \in S : x =< y
  <2> TAKE y \in S
  <2>1. ~(y < x)
    BY <1>1 DEF OpToRel
  <2> QED BY <2>1
<1> QED BY <1>2 DEF Min

\* A set of numbers with a bound has its greatest element.
LEMMA GreatestExists ==
  ASSUME NEW n \in Nat, NEW S \in SUBSET (0..n), S # {}
  PROVE  Max(S) \in S
<1> DEFINE D == {d \in Nat : n - d \in S}
<1>1. D # {}
  <2>1. PICK x \in S : TRUE
    OBVIOUS
  <2>2. n - x \in D
    <3>1. n - (n - x) = x /\ n - x \in Nat
      OBVIOUS
    <3> QED BY <3>1
  <2> QED BY <2>2
<1>2. PICK d \in D : \A e \in D : ~(<<e, d>> \in OpToRel(<, Nat))
  BY <1>1, NatLessThanWellFounded, WFMin
<1>3. \A y \in S : n - d >= y
  <2> TAKE y \in S
  <2>1. n - y \in Nat /\ n - (n - y) = y
    OBVIOUS
  <2>2. ~(n - y < d)
    BY <1>2, <2>1 DEF OpToRel
  <2> QED BY <2>1, <2>2
<1> QED BY <1>3 DEF Max

\* A part of a history is a sequence of messages, of the length one expects.
LEMMA Parts ==
  ASSUME NEW h \in Seq(Message), NEW n \in 0..Len(h)
  PROVE  /\ Upto(h, n) \in Seq(Message) /\ Len(Upto(h, n)) = n
         /\ From(h, n) \in Seq(Message) /\ Len(From(h, n)) = Len(h) - n
         /\ \A i \in 1..n : Upto(h, n)[i] = h[i]
         /\ \A i \in 1..(Len(h) - n) : From(h, n)[i] = h[n + i]
<1>1. Len(h) \in Nat /\ \A i \in 1..Len(h) : h[i] \in Message
  BY LenProperties, ElementOfSeq
<1>2. \A i \in 1..n : h[i] \in Message
  BY <1>1
<1>3. \A i \in (n + 1)..Len(h) : h[i] \in Message
  BY <1>1
<1>4. /\ Upto(h, n) \in Seq(Message) /\ Len(Upto(h, n)) = n
      /\ \A i \in 1..n : Upto(h, n)[i] = h[i]
  BY <1>1, <1>2, SubSeqProperties DEF Upto
<1>5. /\ From(h, n) \in Seq(Message) /\ Len(From(h, n)) = Len(h) - n
      /\ \A i \in 1..(Len(h) - n) : From(h, n)[i] = h[n + i]
  BY <1>1, <1>3, SubSeqProperties DEF From
<1> QED BY <1>4, <1>5

\* The end of the end of a history is its end.
LEMMA PartsOfParts ==
  ASSUME NEW h \in Seq(Message), NEW n \in 0..Len(h), NEW i \in 0..(Len(h) - n)
  PROVE  From(From(h, n), i) = From(h, n + i)
<1> DEFINE len == Len(h)
           e == From(h, n)
           f == From(e, i)
           k == n + i
           g == From(h, k)
<1>1. len \in Nat /\ n \in 0..len /\ i \in 0..(len - n) /\ k \in 0..len
  BY LenProperties
<1>2. e \in Seq(Message) /\ Len(e) = len - n /\ \A j \in 1..(len - n) : e[j] = h[n + j]
  BY Parts
<1>3. g \in Seq(Message) /\ Len(g) = len - k /\ \A j \in 1..(len - k) : g[j] = h[k + j]
  BY <1>1, Parts
<1> HIDE DEF e
<1>4. f \in Seq(Message) /\ Len(f) = len - n - i
      /\ \A j \in 1..(len - n - i) : f[j] = e[i + j]
  <2>1. i \in 0..Len(e)
    BY <1>1, <1>2
  <2> HIDE DEF len
  <2>2. /\ From(e, i) \in Seq(Message) /\ Len(From(e, i)) = Len(e) - i
        /\ \A j \in 1..(Len(e) - i) : From(e, i)[j] = e[i + j]
    BY <1>2, <2>1, Parts
  <2> QED BY <1>2, <2>2
<1> HIDE DEF f, g, len
<1>5. Len(f) = Len(g)
  BY <1>1, <1>3, <1>4
<1>6. \A j \in 1..Len(f) : f[j] = g[j]
  <2> TAKE j \in 1..Len(f)
  <2>1. i + j \in 1..(len - n) /\ j \in 1..(len - k) /\ j \in 1..(len - n - i)
    BY <1>1, <1>4
  <2>2. f[j] = h[n + (i + j)]
    BY <1>2, <1>4, <2>1
  <2>3. g[j] = h[n + i + j]
    BY <1>3, <2>1
  <2>4. n + (i + j) = n + i + j
    BY <1>1, <2>1
  <2> QED BY <2>2, <2>3, <2>4
<1>7. f = g
  BY <1>3, <1>4, <1>5, <1>6, SeqEqual
<1> QED BY <1>7 DEF f, g, e

\* What a cut leaves of a history is a suffix of it.
LEMMA CutIsSuffix ==
  ASSUME NEW h \in Seq(Message), NEW n \in 0..Len(h)
  PROVE  IsSuffix(From(h, n), h)
<1> DEFINE g == From(h, n)
           m == Len(h) - n
<1>1. Len(h) \in Nat /\ m \in Nat /\ \A i \in 1..Len(h) : h[i] \in Message
  BY LenProperties, ElementOfSeq
<1>2. g \in Seq(Message) /\ Len(g) = m /\ \A i \in 1..m : g[i] = h[n + i] /\ g[i] \in Message
  BY Parts, ElementOfSeq
<1> HIDE DEF g, m
<1>3. /\ Reverse(g) \in Seq(Message) /\ Len(Reverse(g)) = m
      /\ \A i \in 1..m : Reverse(g)[i] = g[m - i + 1]
  <2>1. Reverse(g) = [i \in 1..m |-> g[m - i + 1]]
    BY <1>2 DEF Reverse
  <2>2. \A i \in 1..m : g[m - i + 1] \in Message
    BY <1>1, <1>2
  <2> QED BY <1>1, <2>1, <2>2, IsASeq
<1>4. /\ Reverse(h) \in Seq(Message) /\ Len(Reverse(h)) = Len(h)
      /\ \A i \in 1..Len(h) : Reverse(h)[i] = h[Len(h) - i + 1]
  <2>1. \A i \in 1..Len(h) : h[Len(h) - i + 1] \in Message
    BY <1>1
  <2> QED BY <1>1, <2>1, IsASeq DEF Reverse
<1>5. \A i \in 1..m : Reverse(g)[i] = Reverse(h)[i]
  <2> TAKE i \in 1..m
  <2>1. m - i + 1 \in 1..m /\ n + (m - i + 1) = Len(h) - i + 1 /\ i \in 1..Len(h)
    BY <1>1 DEF m
  <2> QED BY <1>2, <1>3, <1>4, <2>1
<1>6. m =< Len(h)
  BY <1>1 DEF m
<1>7. SubSeq(Reverse(g), 1, m) = SubSeq(Reverse(h), 1, m)
  <2>1. \A i \in 1..m : Reverse(g)[i] \in Message /\ Reverse(h)[i] \in Message
    BY <1>1, <1>3, <1>5, ElementOfSeq
  <2> QED BY <1>1, <1>5, <2>1, SubSeqProperties, SeqEqual
<1> QED BY <1>3, <1>4, <1>6, <1>7 DEF IsSuffix, IsPrefix, g

\* The verbatim part b of a reply: h from some message on that is none of its
\* first n and no tool result.
Clean(h, b, n) ==
  \E j \in n..Len(h) : b = From(h, j) /\ (j < Len(h) => h[j + 1].role # "tool")

\* A reply made of h: the summary of a beginning, the first message or none, and
\* a clean end that is behind them.
OwnReply(h, s) ==
  \E n, k \in 0..Len(h) :
    /\ n + k =< Len(h)
    /\ s.text = Upto(h, n) /\ Len(s.head) = k /\ Clean(h, s.body, n + k)

\* Nothing is a clean end.
LEMMA NothingIsClean ==
  ASSUME NEW h \in Seq(Message), NEW n \in 0..Len(h)
  PROVE  Clean(h, <<>>, n)
<1>1. Len(h) \in Nat /\ Len(h) \in n..Len(h)
  BY LenProperties
<1>2. From(h, Len(h)) = <<>>
  BY <1>1, SubSeqEmpty DEF From
<1> QED BY <1>1, <1>2 DEF Clean

\* A clean end behind n messages is one behind fewer.
LEMMA CleanFromEarlier ==
  ASSUME NEW h \in Seq(Message), NEW n \in 0..Len(h), NEW m \in 0..n, NEW b, Clean(h, b, n)
  PROVE  Clean(h, b, m)
<1>1. Len(h) \in Nat
  BY LenProperties
<1> QED BY <1>1 DEF Clean

\* The clean end of an end is one of the whole.
LEMMA CleanEndOfEnd ==
  ASSUME NEW h \in Seq(Message), NEW n \in 0..Len(h), NEW b, Clean(From(h, n), b, 0)
  PROVE  Clean(h, b, n)
<1> DEFINE g == From(h, n)
<1>1. Len(h) \in Nat /\ g \in Seq(Message) /\ Len(g) = Len(h) - n
      /\ \A i \in 1..(Len(h) - n) : g[i] = h[n + i]
  BY LenProperties, Parts
<1>2. PICK j \in 0..Len(g) : b = From(g, j) /\ (j < Len(g) => g[j + 1].role # "tool")
  BY DEF Clean
<1> HIDE DEF g
<1>3. j \in 0..(Len(h) - n) /\ n + j \in n..Len(h)
  BY <1>1, <1>2
<1>4. b = From(h, n + j)
  BY <1>2, <1>3, PartsOfParts DEF g
<1>5. ASSUME n + j < Len(h) PROVE h[n + j + 1].role # "tool"
  <2>1. j + 1 \in 1..(Len(h) - n) /\ j < Len(g) /\ n + (j + 1) = n + j + 1
    BY <1>1, <1>3, <1>5
  <2>2. g[j + 1] = h[n + (j + 1)]
    BY <1>1, <2>1
  <2> QED BY <1>2, <2>1, <2>2
<1> QED BY <1>3, <1>4, <1>5 DEF Clean

\* _safe_cut moves a boundary forward, to a message that is no tool result or to
\* the end.
LEMMA SafeCutMovesForward ==
  ASSUME NEW h \in Seq(Message), NEW n \in 0..Len(h)
  PROVE  /\ SafeCut(h, n) \in n..Len(h)
         /\ SafeCut(h, n) < Len(h) => h[SafeCut(h, n) + 1].role # "tool"
<1> DEFINE S == {j \in n..Len(h) : j = Len(h) \/ h[j + 1].role # "tool"}
<1>1. Len(h) \in Nat
  BY LenProperties
<1>2. S \in SUBSET Nat /\ Len(h) \in S
  BY <1>1
<1> HIDE DEF S
<1>3. Min(S) \in S
  BY <1>2, LeastExists
<1>4. SafeCut(h, n) = Min(S)
  BY DEF SafeCut, S
<1> QED BY <1>1, <1>3, <1>4 DEF S

\* What _safe_cut leaves is a clean end.
LEMMA SafeCutIsClean ==
  ASSUME NEW h \in Seq(Message), NEW n \in 0..Len(h)
  PROVE  Clean(h, From(h, SafeCut(h, n)), n)
  BY SafeCutMovesForward DEF Clean

\* The longest of some ends that begin at a cut is a clean end, or nothing.
LEMMA LongestIsClean ==
  ASSUME NEW h \in Seq(Message), NEW fits \in SUBSET Cuts(h)
  PROVE  Clean(h, Longest(h, fits), 0)
<1>1. Len(h) \in Nat
  BY LenProperties
<1>2. CASE fits = {}
  <2>1. Longest(h, fits) = <<>>
    BY <1>2 DEF Longest
  <2> QED BY <1>1, <2>1, NothingIsClean
<1>3. CASE fits # {}
  <2>1. fits \in SUBSET Nat
    BY <1>1 DEF Cuts
  <2>2. Longest(h, fits) = From(h, Min(fits))
    BY <1>3 DEF Longest
  <2>3. Min(fits) \in fits
    BY <1>3, <2>1, LeastExists
  <2>4. Min(fits) \in 0..Len(h) /\ SafeCut(h, Min(fits)) = Min(fits)
    BY <2>3 DEF Cuts
  <2>5. Clean(h, From(h, Min(fits)), Min(fits))
    BY <2>4, SafeCutIsClean
  <2> QED BY <2>2, <2>4, <2>5, CleanFromEarlier
<1> QED BY <1>2, <1>3

LEMMA FittingIsClean ==
  ASSUME NEW h \in Seq(Message), NEW room
  PROVE  Clean(h, Fitting(h, room), 0)
<1>1. {i \in Cuts(h) : Size(From(h, i)) <= room} \in SUBSET Cuts(h)
  OBVIOUS
<1> QED BY <1>1, LongestIsClean DEF Fitting

\* The part to be summarized holds a message at least, and no more than there are.
LEMMA SplitInside ==
  ASSUME NEW h \in Seq(Message), Len(h) >= 2
  PROVE  Split(h) \in 1..Len(h)
<1> DEFINE fits == {n \in 1..Len(h) :
                      n = 1 \/ Size(From(h, Len(h) - n)) + SystemSize + SummarySize <= Target}
<1>1. Len(h) \in Nat
  BY LenProperties
<1>2. fits \in SUBSET (0..Len(h)) /\ 1 \in fits
  BY <1>1
<1>3. SplitPoint(h) = IF Max(fits) < Len(h) THEN Max(fits) ELSE Len(h) - 1
  BY DEF SplitPoint
<1> HIDE DEF fits
<1>4. Max(fits) \in fits
  BY <1>1, <1>2, GreatestExists
<1>5. SplitPoint(h) \in 1..(Len(h) - 1)
  BY <1>1, <1>3, <1>4 DEF fits
<1>6. Len(h) - SplitPoint(h) \in 1..Len(h)
  BY <1>1, <1>5
<1> QED BY <1>1, <1>6, SafeCutMovesForward DEF Split

\* A summary of a beginning of h and everything after it is made of h.
LEMMA VerbatimIsOwn ==
  ASSUME NEW h \in Seq(Message), NEW n \in 0..Len(h)
  PROVE  OwnReply(h, Verbatim(h, Upto(h, n)))
<1>1. Len(h) \in Nat /\ Len(Upto(h, n)) = n
  BY LenProperties, Parts
<1>2. Clean(h, From(h, SafeCut(h, n)), n + 0)
  BY <1>1, SafeCutIsClean
<1>3. Len(<<>>) = 0 /\ 0 \in 0..Len(h)
  BY <1>1
<1> QED BY <1>1, <1>2, <1>3 DEF OwnReply, Verbatim, Served

\* So is one with the newest messages after it, as many as fit.
LEMMA AssembledIsOwn ==
  ASSUME NEW h \in Seq(Message), NEW n \in 0..Len(h)
  PROVE  OwnReply(h, Assembled(h, Upto(h, n), n))
<1> DEFINE a == Assembled(h, Upto(h, n), n)
           rem == From(h, SafeCut(h, n))
<1>1. Len(h) \in Nat
  BY LenProperties
<1>2. SafeCut(h, n) \in n..Len(h)
  BY SafeCutMovesForward
<1>3. rem \in Seq(Message)
  BY <1>1, <1>2, Parts
<1>4. Clean(h, a.body, n)
  <2>1. CASE a.body = <<>>
    BY <2>1, NothingIsClean
  <2>2. CASE a.body # <<>>
    <3>1. PICK room : a.body = Fitting(rem, room)
      BY <2>2 DEF Assembled, Served
    <3> HIDE DEF a
    <3>2. Clean(rem, a.body, 0)
      BY <1>3, <3>1, FittingIsClean
    <3>3. SafeCut(h, n) \in 0..Len(h) /\ n \in 0..SafeCut(h, n)
      BY <1>1, <1>2
    <3>4. Clean(h, a.body, SafeCut(h, n))
      BY <3>2, <3>3, CleanEndOfEnd
    <3> QED BY <3>3, <3>4, CleanFromEarlier
  <2> QED BY <2>1, <2>2
<1>5. a.text = Upto(h, n) /\ a.head = <<>> /\ Len(<<>>) = 0
  BY DEF Assembled, Served
<1> HIDE DEF a
<1>6. n + 0 = n /\ 0 \in 0..Len(h) /\ n =< Len(h)
  BY <1>1
<1>7. OwnReply(h, a)
  BY <1>4, <1>5, <1>6 DEF OwnReply
<1> QED BY <1>7 DEF a

\* So is what _trim keeps: the first message or none, and recent ones.
LEMMA TrimmedIsOwn ==
  ASSUME NEW h \in Seq(Message), Len(h) >= 2
  PROVE  OwnReply(h, Trimmed(h)) /\ Trimmed(h).text = <<>>
<1> DEFINE s == Trimmed(h)
           fixed == SystemSize + NoticeSize
           head == IF fixed + Size(Upto(h, 1)) <= Target THEN Upto(h, 1) ELSE <<>>
           last(n) == From(h, Len(h) - n)
           recent == {n \in 0..(Len(h) - 1) :
                        \A j \in 1..n : \/ j <= KeepRecent
                                        \/ fixed + Size(head) + Size(last(j)) <= Target}
           taken == Max(recent)
           fits == {i \in Cuts(last(taken)) :
                      Estimate(head \o From(last(taken), i), fixed, SystemSpare + NoticeSpare)
                        <= Target}
           body == Longest(last(taken), fits)
<1>1. Len(h) \in Nat /\ Len(<<>>) = 0 /\ Upto(h, 0) = <<>>
  BY LenProperties, SubSeqEmpty DEF Upto
<1>2. Len(Upto(h, 1)) = 1
  <2>1. 1 \in 0..Len(h)
    BY <1>1
  <2> QED BY <2>1, Parts
<1>3. Len(head) \in 0..1
  BY <1>1, <1>2
<1>4. Len(h) - 1 \in Nat /\ recent \in SUBSET (0..(Len(h) - 1)) /\ 0 \in recent
  BY <1>1
<1>5. s = IF fixed > Target THEN Served(<<>>, <<>>, <<>>) ELSE Served(<<>>, head, body)
  BY DEF Trimmed
<1>6. s.text = <<>>
  BY <1>5 DEF Served
<1>cuts. fits \in SUBSET Cuts(last(taken))
  OBVIOUS
<1> HIDE DEF s, recent, fits
<1>7. taken \in 0..(Len(h) - 1)
  <2>1. taken \in recent
    BY <1>4, GreatestExists
  <2> QED BY <1>4, <2>1
<1> HIDE DEF taken
<1>8. Clean(h, body, 1)
  <2>1. Len(h) - taken \in 0..Len(h) /\ 1 \in 0..(Len(h) - taken)
    BY <1>1, <1>7
  <2>2. last(taken) \in Seq(Message)
    BY <2>1, Parts
  <2>3. Clean(last(taken), body, 0)
    BY <1>cuts, <2>2, LongestIsClean
  <2>4. Clean(h, body, Len(h) - taken)
    BY <2>1, <2>3, CleanEndOfEnd
  <2> QED BY <2>1, <2>4, CleanFromEarlier
<1>9. Clean(h, s.body, 1) /\ Len(s.head) \in 0..1
  <2>1. CASE fixed > Target
    <3>1. s.head = <<>> /\ s.body = <<>>
      BY <1>5, <2>1 DEF Served
    <3>2. 1 \in 0..Len(h)
      BY <1>1
    <3> QED BY <1>1, <3>1, <3>2, NothingIsClean
  <2>2. CASE ~(fixed > Target)
    <3>1. s = Served(<<>>, head, body)
      BY <1>5, <2>2
    <3> HIDE DEF head, body, last
    <3>2. s.head = head /\ s.body = body
      BY <3>1 DEF Served
    <3> QED BY <1>3, <1>8, <3>2
  <2> QED BY <2>1, <2>2
<1>10. Clean(h, s.body, 0 + Len(s.head))
  <2>1. 1 \in 0..Len(h) /\ 0 + Len(s.head) \in 0..1
    BY <1>1, <1>9
  <2> QED BY <1>9, <2>1, CleanFromEarlier
<1>11. 0 \in 0..Len(h) /\ Len(s.head) \in 0..Len(h) /\ 0 + Len(s.head) =< Len(h)
  <2> HIDE DEF head, body, last
  <2>1. \A k \in 0..1 : k \in 0..Len(h) /\ 0 + k =< Len(h)
    BY <1>1
  <2> QED BY <1>1, <1>9, <2>1
<1>12. OwnReply(h, s)
  BY <1>1, <1>6, <1>10, <1>11 DEF OwnReply
<1> QED BY <1>6, <1>12 DEF s

\* The two fallbacks are made of h, and serve the summary there is.
LEMMA FallbackIsOwn ==
  ASSUME NEW h \in Seq(Message), Len(h) >= 2, NEW n \in 0..Len(h)
  PROVE  OwnReply(h, Fallback(h, Upto(h, n))) /\ Fallback(h, Upto(h, n)).text = Upto(h, n)
<1>1. Len(Upto(h, n)) = n
  BY Parts
<1>2. Assembled(h, Upto(h, n), n).text = Upto(h, n)
  BY DEF Assembled, Served
<1> QED BY <1>1, <1>2, AssembledIsOwn, TrimmedIsOwn DEF Fallback

------------------------------------------------------------------------------
(* What is cached, under way and waited with.                              *)

\* A summary stands for the prefix it is filed under.
OwnSummary(e) ==
  e.key \in Seq(Message) /\ e.prefix \in Seq(Message) /\ e.text = e.prefix

Entry ==
  {e \in [key : Seq(Message), prefix : Seq(Message), text : Seq(Message)] : e.text = e.prefix}

\* What a request waits with is a beginning of its own history.
OwnRequest(r) ==
  r # Idle => /\ r.history \in Histories
              /\ \E n \in 0..Len(r.history) : r.text = Upto(r.history, n)

SummaryInv ==
  /\ rolling \in Seq(Entry)
  /\ \A t \in TaskId : tasks[t].state # "absent" => OwnSummary(tasks[t])
  /\ DOMAIN req = Client /\ \A c \in Client : OwnRequest(req[c])

\* What the last step served.
OutInv ==
  /\ out.rest \in Seq(Message)
  /\ OwnReply(out.rest, out.reply)
  /\ Len(out.reply.text) >= out.had

CacheInv == FlightInv /\ SummaryInv /\ OutInv

\* Nothing served is nothing wrong.
LEMMA NothingServedOK == NothingServed.rest \in Seq(Message)
                         /\ OwnReply(NothingServed.rest, NothingServed.reply)
                         /\ Len(NothingServed.reply.text) >= NothingServed.had
<1>1. <<>> \in Seq(Message) /\ Len(<<>>) = 0
  BY EmptySeq
<1>2. Clean(<<>>, <<>>, 0)
  <2>1. 0 \in 0..Len(<<>>)
    BY <1>1
  <2> QED BY <1>1, <2>1, NothingIsClean
<1>3. Upto(<<>>, 0) = <<>>
  BY SubSeqEmpty DEF Upto
<1>4. OwnReply(<<>>, Served(<<>>, <<>>, <<>>))
  <2>1. 0 \in 0..Len(<<>>) /\ 0 + 0 =< Len(<<>>) /\ 0 + 0 = 0
    BY <1>1
  <2> QED BY <1>1, <1>2, <1>3, <2>1 DEF OwnReply, Served
<1>5. /\ NothingServed.rest = <<>> /\ NothingServed.had = 0
      /\ NothingServed.reply = Served(<<>>, <<>>, <<>>)
  BY DEF NothingServed
<1>6. Served(<<>>, <<>>, <<>>).text = <<>>
  BY DEF Served
<1> QED BY <1>1, <1>4, <1>5, <1>6

\* The summary that is found for a history is one of its beginnings.
LEMMA CachedIsOwn ==
  ASSUME NEW h \in Seq(Message), rolling \in Seq(Entry)
  PROVE  \E n \in 0..Len(h) : CachedText(h) = Upto(h, n)
<1> DEFINE mine == {i \in DOMAIN rolling : /\ rolling[i].key = Key(h)
                                           /\ IsPrefix(rolling[i].prefix, h)}
<1>1. Len(h) \in Nat
  BY LenProperties
<1>2. CASE mine = {}
  <2>1. CachedText(h) = <<>>
    BY <1>2 DEF CachedText
  <2>2. Upto(h, 0) = <<>> /\ 0 \in 0..Len(h)
    BY <1>1, SubSeqEmpty DEF Upto
  <2> QED BY <2>1, <2>2
<1>3. CASE mine # {}
  <2>1. PICK i \in mine : CachedText(h) = rolling[i].text
    BY <1>3 DEF CachedText
  <2>2. rolling[i] \in Entry /\ IsPrefix(rolling[i].prefix, h)
    BY <2>1, LenProperties, ElementOfSeq
  <2> DEFINE p == rolling[i].prefix
  <2>3. p \in Seq(Message) /\ CachedText(h) = p
    BY <2>1, <2>2 DEF Entry
  <2>4. Len(p) \in 0..Len(h) /\ SubSeq(p, 1, Len(p)) = SubSeq(h, 1, Len(p))
    BY <1>1, <2>2, <2>3, LenProperties DEF IsPrefix
  <2>5. p = Upto(h, Len(p))
    BY <2>3, <2>4, SubSeqFull DEF Upto
  <2> QED BY <2>3, <2>4, <2>5
<1> QED BY <1>2, <1>3

\* A new summary stands for the prefix up to the split.
LEMMA IntegratedIsOwn ==
  ASSUME NEW h \in Seq(Message), NEW n \in 0..Len(h), NEW m \in 1..Len(h), m > n
  PROVE  /\ Upto(h, n) \o SubSeq(h, Len(Upto(h, n)) + 1, m) = Upto(h, m)
         /\ Upto(h, m) \in Seq(Message)
<1>1. Len(h) \in Nat /\ Len(Upto(h, n)) = n
  BY LenProperties, Parts
<1>2. n + 1 \in 1..(Len(h) + 1) /\ m \in 0..Len(h) /\ n \in (1 - 1)..Len(h) /\ m \in n..Len(h)
      /\ 1 \in 1..(Len(h) + 1)
  BY <1>1
<1>3. SubSeq(h, 1, n) \o SubSeq(h, n + 1, m) = SubSeq(h, 1, m)
  BY <1>2, ConcatAdjacentSubSeq
<1> QED BY <1>1, <1>2, <1>3, Parts DEF Upto

\* The key of a history is a sequence of messages.
LEMMA KeyIsSeq ==
  ASSUME NEW h \in Seq(Message)
  PROVE  Key(h) \in Seq(Message)
<1>1. Len(h) \in Nat /\ KeyLen \in Nat
  BY LenProperties, CacheSizes
<1>2. (IF Len(h) < KeyLen THEN Len(h) ELSE KeyLen) \in 0..Len(h)
  BY <1>1
<1> QED BY <1>2, Parts DEF Key

\* Nothing is cached, under way or served at the start.
LEMMA SummaryInit == Init => SummaryInv /\ OutInv
<1> SUFFICES ASSUME Init PROVE SummaryInv /\ OutInv
  OBVIOUS
<1>1. rolling \in Seq(Entry)
  BY EmptySeq DEF Init
<1>2. \A t \in TaskId : tasks[t].state = "absent"
  BY DEF Init, Absent
<1>3. DOMAIN req = Client /\ \A c \in Client : req[c] = Idle
  BY DEF Init
<1>4. OutInv
  BY NothingServedOK DEF Init, OutInv
<1> QED BY <1>1, <1>2, <1>3, <1>4 DEF SummaryInv, OwnRequest

\* Histories are sequences of two messages at least.
LEMMA HistoryLen ==
  ASSUME NEW h \in Histories
  PROVE  h \in Seq(Message) /\ Len(h) >= 2
  BY CacheSizes

\* A request that is over leaves nothing of its own behind.
LEMMA RequestOver ==
  ASSUME SummaryInv, NEW c \in Client, req' = [req EXCEPT ![c] = Idle],
         UNCHANGED <<rolling, tasks>>
  PROVE  SummaryInv'
<1>1. DOMAIN req' = Client /\ \A d \in Client : req'[d] = req[d] \/ req'[d] = Idle
  BY DEF SummaryInv
<1> QED BY <1>1 DEF SummaryInv, OwnRequest, OwnSummary

\* A request that begins to wait does so with a beginning of its history.
LEMMA RequestWaits ==
  ASSUME SummaryInv, NEW c \in Client, NEW h \in Histories, Wait(c, h, CachedText(h))
  PROVE  /\ DOMAIN req' = Client /\ \A d \in Client : OwnRequest(req'[d])
         /\ OutInv'
<1>1. \E n \in 0..Len(h) : CachedText(h) = Upto(h, n)
  BY HistoryLen, CachedIsOwn DEF SummaryInv
<1> DEFINE r == [history |-> h, text |-> CachedText(h)]
<1>2. OwnRequest(r)
  BY <1>1 DEF OwnRequest
<1> HIDE DEF r
<1>3. req' = [req EXCEPT ![c] = r] /\ out' = NothingServed
  BY DEF Wait, r
<1>4. DOMAIN req' = Client /\ \A d \in Client : req'[d] = req[d] \/ req'[d] = r
  BY <1>3 DEF SummaryInv
<1>5. OutInv'
  BY <1>3, NothingServedOK DEF OutInv
<1> QED BY <1>2, <1>4, <1>5 DEF SummaryInv, OwnRequest

\* A request served at once is served its own history.
LEMMA ServedAtOnceIsOwn ==
  ASSUME CacheInv, NEW c \in Client, ServeAtOnce(c)
  PROVE  SummaryInv' /\ OutInv'
<1>1. PICK h \in Histories :
        \/ Reply(c, h, Verbatim(h, CachedText(h)), Len(CachedText(h)))
        \/ Reply(c, h, Fallback(h, CachedText(h)), Len(CachedText(h)))
  BY DEF ServeAtOnce
<1>2. h \in Seq(Message) /\ Len(h) >= 2
  BY HistoryLen
<1>3. PICK n \in 0..Len(h) : CachedText(h) = Upto(h, n)
  BY <1>2, CachedIsOwn DEF CacheInv, SummaryInv
<1>4. Len(Upto(h, n)) \in Nat
  BY <1>2, Parts, LenProperties
<1>5. PICK s : /\ OwnReply(h, s) /\ s.text = Upto(h, n)
               /\ out' = [rest |-> h, reply |-> s, had |-> Len(Upto(h, n))]
  <2>1. OwnReply(h, Verbatim(h, Upto(h, n))) /\ Verbatim(h, Upto(h, n)).text = Upto(h, n)
    BY <1>2, VerbatimIsOwn DEF Verbatim, Served
  <2>2. OwnReply(h, Fallback(h, Upto(h, n))) /\ Fallback(h, Upto(h, n)).text = Upto(h, n)
    BY <1>2, FallbackIsOwn
  <2> QED BY <1>1, <1>3, <2>1, <2>2 DEF Reply
<1>6. OutInv'
  BY <1>2, <1>4, <1>5 DEF OutInv
<1>7. SummaryInv'
  BY <1>1, RequestOver DEF CacheInv, ServeAtOnce, Reply
<1> QED BY <1>6, <1>7

\* A request that waited is served its own history, and no less of it summarized
\* than it began with.
LEMMA ServedLateIsOwn ==
  ASSUME CacheInv, NEW c \in Client, Serve(c)
  PROVE  SummaryInv' /\ OutInv'
<1> DEFINE h == req[c].history
<1>1. h \in Histories /\ \E n \in 0..Len(h) : req[c].text = Upto(h, n)
  BY DEF CacheInv, SummaryInv, OwnRequest, Serve
<1> HIDE DEF h
<1>2. h \in Seq(Message) /\ Len(h) >= 2
  BY <1>1, HistoryLen
<1>3. PICK n \in 0..Len(h) : req[c].text = Upto(h, n)
  BY <1>1
<1>4. PICK m \in 0..Len(h) : CachedText(h) = Upto(h, m)
  BY <1>2, CachedIsOwn DEF CacheInv, SummaryInv
<1>5. Len(Upto(h, n)) = n /\ Len(Upto(h, m)) = m /\ n \in Nat /\ m \in Nat
  <2>1. Len(Upto(h, n)) = n /\ Len(Upto(h, m)) = m
    BY <1>2, Parts
  <2> QED BY <1>2, <2>1, LenProperties
<1>6. PICK p \in 0..Len(h) : /\ Better(req[c].text, CachedText(h)) = Upto(h, p)
                             /\ Len(Upto(h, p)) >= Len(Upto(h, n))
  BY <1>3, <1>4, <1>5 DEF Better
<1>7. out' = [rest |-> h, reply |-> Fallback(h, Upto(h, p)), had |-> Len(Upto(h, n))]
  BY <1>3, <1>6 DEF Serve, Reply, h
<1>8. OwnReply(h, Fallback(h, Upto(h, p))) /\ Fallback(h, Upto(h, p)).text = Upto(h, p)
  BY <1>2, FallbackIsOwn
<1>9. OutInv'
  BY <1>2, <1>6, <1>7, <1>8 DEF OutInv
<1>10. SummaryInv'
  BY RequestOver DEF CacheInv, Serve, Reply
<1> QED BY <1>9, <1>10

\* Putting a summary into the cache keeps all entries about their own prefix.
LEMMA PutKeepsOwn ==
  ASSUME NEW e \in Entry, rolling \in Seq(Entry)
  PROVE  Put(e) \in Seq(Entry)
<1> DEFINE same == {i \in DOMAIN rolling : rolling[i].key = e.key}
           kept == IF Len(rolling) >= RollingCap THEN Tail(rolling) ELSE rolling
<1>1. Len(rolling) \in Nat /\ DOMAIN rolling = 1..Len(rolling)
      /\ \A i \in DOMAIN rolling : rolling[i] \in Entry
  BY LenProperties, ElementOfSeq
<1>2. kept \in Seq(Entry)
  <2>1. Len(rolling) >= RollingCap => rolling # <<>>
    BY <1>1, CacheSizes
  <2> QED BY <2>1, HeadTailProperties
<1>3. Append(kept, e) \in Seq(Entry)
  BY <1>2, AppendProperties
<1>4. [i \in DOMAIN rolling |-> IF i \in same THEN e ELSE rolling[i]] \in Seq(Entry)
  BY <1>1, IsASeq
<1> QED BY <1>3, <1>4 DEF Put

\* The summary that is started is one of the history it is started for.
LEMMA StartIsOwn ==
  ASSUME CacheInv, NEW c \in Client, StartSummarize(c)
  PROVE  SummaryInv' /\ OutInv'
<1>1. PICK h \in Histories, t \in TaskId :
        /\ Split(h) > Len(CachedText(h))
        /\ tasks' = [tasks EXCEPT ![t] =
             [key |-> Key(h), prefix |-> Upto(h, Split(h)),
              text |-> CachedText(h) \o SubSeq(h, Len(CachedText(h)) + 1, Split(h)),
              state |-> "running"]]
        /\ Wait(c, h, CachedText(h))
  BY DEF StartSummarize
<1>2. h \in Seq(Message) /\ Len(h) >= 2
  BY HistoryLen
<1>3. PICK n \in 0..Len(h) : CachedText(h) = Upto(h, n)
  BY <1>2, CachedIsOwn DEF CacheInv, SummaryInv
<1>4. Split(h) \in 1..Len(h) /\ Len(Upto(h, n)) = n
  BY <1>2, SplitInside, Parts
<1>5. /\ CachedText(h) \o SubSeq(h, Len(CachedText(h)) + 1, Split(h)) = Upto(h, Split(h))
      /\ Upto(h, Split(h)) \in Seq(Message)
  BY <1>1, <1>2, <1>3, <1>4, IntegratedIsOwn
<1>6. OwnSummary(tasks'[t])
  BY <1>1, <1>2, <1>5, KeyIsSeq DEF OwnSummary, CacheInv, FlightInv, Maps
<1>7. \A u \in TaskId : u # t => tasks'[u] = tasks[u]
  BY <1>1 DEF CacheInv, FlightInv, Maps
<1>8. \A u \in TaskId : tasks'[u].state # "absent" => OwnSummary(tasks'[u])
  BY <1>6, <1>7 DEF CacheInv, SummaryInv
<1>9. rolling' = rolling
  BY DEF StartSummarize
<1>10. DOMAIN req' = Client /\ (\A d \in Client : OwnRequest(req'[d])) /\ OutInv'
  BY <1>1, RequestWaits DEF CacheInv
<1> QED BY <1>8, <1>9, <1>10 DEF CacheInv, SummaryInv, OwnRequest, OwnSummary

\* A task that ends is about what it was about.
LEMMA EndKeepsOwn ==
  ASSUME CacheInv, NEW t \in TaskId, TaskEnds(t)
  PROVE  SummaryInv' /\ OutInv'
<1>1. PICK s \in {"ok", "failed"} : tasks' = [tasks EXCEPT ![t].state = s]
  BY DEF TaskEnds
<1>2. \A u \in TaskId : OwnSummary(tasks[u]) => OwnSummary(tasks'[u])
  BY <1>1 DEF OwnSummary, CacheInv, FlightInv, Maps
<1>3. \A u \in TaskId : tasks'[u].state # "absent" => tasks[u].state # "absent"
  BY <1>1 DEF TaskEnds, CacheInv, FlightInv, Maps
<1>4. UNCHANGED <<req, rolling>> /\ OutInv'
  BY NothingServedOK DEF TaskEnds, OutInv
<1> QED BY <1>2, <1>3, <1>4 DEF CacheInv, SummaryInv, OwnRequest, OwnSummary

\* What a callback caches is about what it is filed under.
LEMMA CallbackKeepsOwn ==
  ASSUME CacheInv, NEW t \in TaskId, Callback(t)
  PROVE  SummaryInv' /\ OutInv'
<1>1. tasks' = [tasks EXCEPT ![t] = Absent] /\ req' = req /\ OutInv'
  BY NothingServedOK DEF Callback, OutInv
<1>2. rolling' \in Seq(Entry)
  <2> DEFINE e == [key |-> tasks[t].key, prefix |-> tasks[t].prefix, text |-> tasks[t].text]
  <2>1. OwnSummary(tasks[t])
    BY DEF Callback, CacheInv, SummaryInv
  <2>2. e \in Entry
    BY <2>1 DEF OwnSummary, Entry
  <2>3. rolling' = Put(e) \/ rolling' = rolling
    BY DEF Callback
  <2> HIDE DEF e
  <2> QED BY <2>2, <2>3, PutKeepsOwn DEF CacheInv, SummaryInv
<1>3. \A u \in TaskId : tasks'[u] = tasks[u] \/ tasks'[u].state = "absent"
  BY <1>1 DEF Absent, CacheInv, FlightInv, Maps
<1> QED BY <1>1, <1>2, <1>3 DEF CacheInv, SummaryInv, OwnRequest, OwnSummary

\* The induction step.
LEMMA CacheNext == CacheInv /\ [Next]_vars => CacheInv'
<1> SUFFICES ASSUME CacheInv, [Next]_vars PROVE CacheInv'
  OBVIOUS
<1>1. FlightInv'
  BY FlightNext DEF CacheInv
<1>2. ASSUME NEW c \in Client, ServeAtOnce(c) PROVE SummaryInv' /\ OutInv'
  BY <1>2, ServedAtOnceIsOwn
<1>3. ASSUME NEW c \in Client, Join(c) PROVE SummaryInv' /\ OutInv'
  <2>1. PICK h \in Histories : Wait(c, h, CachedText(h))
    BY <1>3 DEF Join
  <2>2. UNCHANGED <<rolling, tasks>>
    BY <1>3 DEF Join
  <2>3. DOMAIN req' = Client /\ (\A d \in Client : OwnRequest(req'[d])) /\ OutInv'
    BY <2>1, RequestWaits DEF CacheInv
  <2> QED BY <2>2, <2>3 DEF CacheInv, SummaryInv, OwnRequest, OwnSummary
<1>4. ASSUME NEW c \in Client, StartSummarize(c) PROVE SummaryInv' /\ OutInv'
  BY <1>4, StartIsOwn
<1>5. ASSUME NEW c \in Client, Serve(c) PROVE SummaryInv' /\ OutInv'
  BY <1>5, ServedLateIsOwn
<1>6. ASSUME NEW c \in Client, HangUp(c) PROVE SummaryInv' /\ OutInv'
  BY <1>6, RequestOver, NothingServedOK DEF HangUp, CacheInv, OutInv
<1>7. ASSUME NEW t \in TaskId, TaskEnds(t) PROVE SummaryInv' /\ OutInv'
  BY <1>7, EndKeepsOwn
<1>8. ASSUME NEW t \in TaskId, Callback(t) PROVE SummaryInv' /\ OutInv'
  BY <1>8, CallbackKeepsOwn
<1>9. ASSUME UNCHANGED vars PROVE SummaryInv' /\ OutInv'
  BY <1>9 DEF vars, CacheInv, SummaryInv, OutInv, OwnRequest, OwnSummary
<1>10. SummaryInv' /\ OutInv'
  BY <1>2, <1>3, <1>4, <1>5, <1>6, <1>7, <1>8, <1>9 DEF Next
<1> QED BY <1>1, <1>10 DEF CacheInv

\* The invariant holds throughout.
LEMMA CacheAlways == Spec => []CacheInv
<1>1. Init => CacheInv
  BY FlightInit, SummaryInit DEF CacheInv
<1> QED BY <1>1, CacheNext, PTL DEF Spec

\* A reply made of a history is its own, in order and with nothing twice.
LEMMA OwnReplyIsOwn ==
  ASSUME NEW h \in Seq(Message), NEW s, OwnReply(h, s)
  PROVE  /\ IsPrefix(s.text, h) /\ IsSuffix(s.body, h)
         /\ Len(s.text) + Len(s.head) + Len(s.body) <= Len(h)
         /\ s.body # <<>> => s.body[1].role # "tool"
<1>1. PICK n, k \in 0..Len(h) :
        /\ n + k =< Len(h)
        /\ s.text = Upto(h, n) /\ Len(s.head) = k /\ Clean(h, s.body, n + k)
  BY DEF OwnReply
<1>2. PICK j \in (n + k)..Len(h) :
        s.body = From(h, j) /\ (j < Len(h) => h[j + 1].role # "tool")
  BY <1>1 DEF Clean
<1>3. Len(h) \in Nat /\ j \in 0..Len(h)
  BY <1>1, <1>2, LenProperties
<1>4. Upto(h, n) \in Seq(Message) /\ Len(Upto(h, n)) = n
  BY Parts
<1>5. /\ Len(From(h, j)) = Len(h) - j
      /\ \A i \in 1..(Len(h) - j) : From(h, j)[i] = h[j + i]
  BY <1>3, Parts
<1>6. IsPrefix(s.text, h)
  <2>1. SubSeq(Upto(h, n), 1, n) = Upto(h, n)
    BY <1>4, SubSeqFull
  <2> QED BY <1>1, <1>3, <1>4, <2>1 DEF IsPrefix, Upto
<1>7. IsSuffix(s.body, h)
  BY <1>2, <1>3, CutIsSuffix
<1>8. Len(s.text) + Len(s.head) + Len(s.body) <= Len(h)
  BY <1>1, <1>2, <1>3, <1>4, <1>5
<1>9. ASSUME s.body # <<>> PROVE s.body[1].role # "tool"
  <2>1. j < Len(h)
    <3>1. From(h, Len(h)) = <<>>
      BY <1>3, SubSeqEmpty DEF From
    <3> QED BY <1>2, <1>3, <1>9, <3>1
  <2>2. From(h, j)[1] = h[j + 1]
    BY <1>3, <1>5, <2>1
  <2> QED BY <1>2, <2>1, <2>2
<1> QED BY <1>6, <1>7, <1>8, <1>9

\* Whatever forks, rewinds and late summaries wrote the cache meanwhile, a client
\* is served its own history: a summary of a beginning of it and a clean end, in
\* order and with nothing twice (_cache_get, _safe_cut, _trim and _assemble).
THEOREM ServedIsOwn == Spec => []ServedIsOwnHistory
<1>1. CacheInv => ServedIsOwnHistory
  BY OwnReplyIsOwn DEF CacheInv, OutInv, ServedIsOwnHistory
<1> QED BY <1>1, CacheAlways, PTL

\* No verbatim part begins with a tool result, whatever the budget and the sizes
\* (_safe_cut and _orphan_free).
THEOREM ToolResultsAreCalledFor == Spec => []NoOrphanedToolResult
<1>1. CacheInv => NoOrphanedToolResult
  BY OwnReplyIsOwn DEF CacheInv, OutInv, NoOrphanedToolResult
<1> QED BY <1>1, CacheAlways, PTL

\* A request that waited is never served less of a summary than it had (the
\* second look into the cache of maybe_compact).
THEOREM SummariesOnlyGrow == Spec => []NeverBackwards
<1>1. CacheInv => NeverBackwards
  BY DEF CacheInv, OutInv, NeverBackwards
<1> QED BY <1>1, CacheAlways, PTL

------------------------------------------------------------------------------
(* The type invariant.                                                     *)

OneEntryAKey(r) == \A i, j \in DOMAIN r : r[i].key = r[j].key => i = j

\* The cache keeps to its cap, and to one entry for a key.
LEMMA PutKeepsToItsCap ==
  ASSUME NEW e \in Entry, rolling \in Seq(Entry), Len(rolling) <= RollingCap,
         OneEntryAKey(rolling)
  PROVE  Len(Put(e)) <= RollingCap /\ OneEntryAKey(Put(e))
<1> DEFINE same == {i \in DOMAIN rolling : rolling[i].key = e.key}
           kept == IF Len(rolling) >= RollingCap THEN Tail(rolling) ELSE rolling
           set  == [i \in DOMAIN rolling |-> IF i \in same THEN e ELSE rolling[i]]
<1>1. Len(rolling) \in Nat /\ DOMAIN rolling = 1..Len(rolling) /\ RollingCap \in Nat \ {0}
      /\ \A i \in DOMAIN rolling : rolling[i] \in Entry
  BY LenProperties, ElementOfSeq, CacheSizes
<1>2. CASE same = {}
  <2> DEFINE shift == IF Len(rolling) >= RollingCap THEN 1 ELSE 0
  <2>1. /\ shift \in {0, 1} /\ kept \in Seq(Entry)
        /\ Len(kept) = Len(rolling) - shift /\ Len(kept) < RollingCap
        /\ \A i \in 1..Len(kept) : kept[i] = rolling[i + shift]
    <3>1. CASE Len(rolling) >= RollingCap
      <4>1. rolling # <<>>
        BY <1>1, <3>1
      <4>2. kept \in Seq(Entry) /\ Len(kept) = Len(rolling) - 1
            /\ \A i \in 1..Len(kept) : kept[i] = rolling[i + 1]
        BY <3>1, <4>1, HeadTailProperties
      <4>3. shift = 1
        BY <3>1
      <4> HIDE DEF kept, shift
      <4> QED BY <1>1, <4>2, <4>3
    <3>2. CASE ~(Len(rolling) >= RollingCap)
      <4>1. kept = rolling /\ shift = 0
        BY <3>2
      <4> HIDE DEF kept, shift
      <4>2. \A i \in 1..Len(kept) : kept[i] = rolling[i + shift]
        BY <1>1, <4>1
      <4> QED BY <1>1, <3>2, <4>1, <4>2
    <3> QED BY <3>1, <3>2
  <2>2. Put(e) = Append(kept, e)
    BY <1>2 DEF Put
  <2> HIDE DEF kept, shift
  <2>3. Len(Put(e)) = Len(kept) + 1 /\ DOMAIN Put(e) = 1..(Len(kept) + 1)
        /\ Put(e)[Len(kept) + 1] = e
        /\ \A i \in 1..Len(kept) : Put(e)[i] = rolling[i + shift]
    BY <2>1, <2>2, AppendProperties, LenProperties
  <2>4. \A i \in 1..Len(kept) : i + shift \in DOMAIN rolling
    BY <1>1, <2>1
  <2>5. \A i \in 1..Len(kept) : rolling[i + shift].key # e.key
    BY <1>2, <2>4
  <2>6. OneEntryAKey(Put(e))
    <3> SUFFICES ASSUME NEW i \in 1..(Len(kept) + 1), NEW j \in 1..(Len(kept) + 1),
                        Put(e)[i].key = Put(e)[j].key
                 PROVE  i = j
      BY <2>3 DEF OneEntryAKey
    <3>1. Len(kept) \in Nat
      BY <2>1, LenProperties
    <3>2. CASE i \in 1..Len(kept) /\ j \in 1..Len(kept)
      <4>1. rolling[i + shift].key = rolling[j + shift].key
        BY <2>3, <3>2
      <4>2. i + shift \in DOMAIN rolling /\ j + shift \in DOMAIN rolling
        BY <2>4, <3>2
      <4>3. i + shift = j + shift
        BY <4>1, <4>2 DEF OneEntryAKey
      <4> QED BY <2>1, <3>1, <4>3
    <3>3. CASE i = Len(kept) + 1 \/ j = Len(kept) + 1
      BY <2>3, <2>5, <3>1, <3>3
    <3> QED BY <3>1, <3>2, <3>3
  <2> QED BY <1>1, <2>1, <2>3, <2>6
<1>3. CASE same # {}
  <2>1. Put(e) = set
    BY <1>3 DEF Put
  <2>2. set \in Seq(Entry) /\ Len(set) = Len(rolling) /\ DOMAIN set = DOMAIN rolling
    BY <1>1, IsASeq, LenProperties
  <2>3. \A i \in DOMAIN rolling : set[i].key = rolling[i].key
    <3> TAKE i \in DOMAIN rolling
    <3>1. set[i] = IF i \in same THEN e ELSE rolling[i]
      OBVIOUS
    <3> QED BY <3>1
  <2> HIDE DEF set
  <2>4. OneEntryAKey(set)
    BY <2>2, <2>3 DEF OneEntryAKey
  <2> QED BY <2>1, <2>2, <2>4
<1> QED BY <1>2, <1>3

States == {"absent", "running", "ok", "failed"}

CapInv ==
  /\ Len(rolling) <= RollingCap /\ OneEntryAKey(rolling)
  /\ \A t \in TaskId : tasks[t].state \in States
  /\ out.rest \in Histories \cup {<<>>}

\* The rest of the type invariant is kept too.
LEMMA CapNext == CacheInv /\ CapInv /\ [Next]_vars => CapInv'
<1> SUFFICES ASSUME CacheInv, CapInv, [Next]_vars PROVE CapInv'
  OBVIOUS
<1>1. NothingServed.rest = <<>>
  BY DEF NothingServed
<1>2. ASSUME NEW c \in Client, ServeAtOnce(c) \/ Join(c) \/ HangUp(c) PROVE CapInv'
  BY <1>1, <1>2 DEF CapInv, ServeAtOnce, Join, HangUp, Reply, Wait, OneEntryAKey
<1>3. ASSUME NEW c \in Client, Serve(c) PROVE CapInv'
  <2>1. req[c].history \in Histories
    BY <1>3 DEF Serve, CacheInv, SummaryInv, OwnRequest
  <2> QED BY <1>3, <2>1 DEF CapInv, Serve, Reply, OneEntryAKey
<1>4. ASSUME NEW c \in Client, StartSummarize(c) PROVE CapInv'
  <2>1. \A t \in TaskId : tasks'[t].state \in {tasks[t].state, "running"}
    BY <1>4 DEF StartSummarize, CacheInv, FlightInv, Maps
  <2> QED BY <1>1, <1>4, <2>1 DEF CapInv, StartSummarize, Wait, OneEntryAKey, States
<1>5. ASSUME NEW t \in TaskId, TaskEnds(t) PROVE CapInv'
  <2>1. \A u \in TaskId : tasks'[u].state \in {tasks[u].state, "ok", "failed"}
    BY <1>5 DEF TaskEnds, CacheInv, FlightInv, Maps
  <2> QED BY <1>1, <1>5, <2>1 DEF CapInv, TaskEnds, OneEntryAKey, States
<1>6. ASSUME NEW t \in TaskId, Callback(t) PROVE CapInv'
  <2> DEFINE e == [key |-> tasks[t].key, prefix |-> tasks[t].prefix, text |-> tasks[t].text]
  <2>1. OwnSummary(tasks[t])
    BY <1>6 DEF Callback, CacheInv, SummaryInv
  <2>2. e \in Entry
    BY <2>1 DEF OwnSummary, Entry
  <2>3. rolling' = Put(e) \/ rolling' = rolling
    BY <1>6 DEF Callback
  <2> HIDE DEF e
  <2>4. Len(rolling') <= RollingCap /\ OneEntryAKey(rolling')
    BY <2>2, <2>3, PutKeepsToItsCap DEF CacheInv, SummaryInv, CapInv
  <2>5. \A u \in TaskId : tasks'[u].state \in {tasks[u].state, "absent"}
    BY <1>6 DEF Callback, Absent, CacheInv, FlightInv, Maps
  <2> QED BY <1>1, <1>6, <2>4, <2>5 DEF CapInv, Callback, OneEntryAKey, States
<1>7. CASE UNCHANGED vars
  BY <1>7 DEF vars, CapInv, OneEntryAKey
<1> QED BY <1>2, <1>3, <1>4, <1>5, <1>6, <1>7 DEF Next

\* Every variable has its type; the cache keeps to its cap and to one entry for a
\* key (_cache_put).
THEOREM SummaryTypes == Spec => []TypeOK
<1>1. Init => CapInv
  <2> SUFFICES ASSUME Init PROVE CapInv
    OBVIOUS
  <2>1. Len(<<>>) = 0 /\ DOMAIN <<>> = {}
    OBVIOUS
  <2>2. 0 <= RollingCap
    BY CacheSizes
  <2> QED BY <2>1, <2>2 DEF Init, CapInv, OneEntryAKey, States, Absent, NothingServed
<1>2. CacheInv /\ CapInv => TypeOK
  <2> SUFFICES ASSUME CacheInv, CapInv PROVE TypeOK
    OBVIOUS
  <2>1. ASSUME NEW c \in Client
        PROVE  req[c].history \in Histories \cup {<<>>} /\ req[c].text \in Beginnings \cup {<<>>}
    <3>1. CASE req[c] = Idle
      BY <3>1 DEF Idle, Beginnings
    <3>2. CASE req[c] # Idle
      BY <3>2 DEF CacheInv, SummaryInv, OwnRequest, Beginnings
    <3> QED BY <3>1, <3>2
  <2> QED BY <2>1 DEF TypeOK, CacheInv, FlightInv, Maps, CapInv, OneEntryAKey, States
<1> QED BY <1>1, <1>2, CapNext, CacheAlways, CacheNext, PTL DEF Spec

------------------------------------------------------------------------------
(* What is served fits.                                                    *)

\* A history has finitely many tokens.
LEMMA SizeIsNumber ==
  ASSUME NEW h \in Seq(Message)
  PROVE  Size(h) \in Nat
<1> DEFINE of == [i \in DOMAIN h |-> {i} \X (1..h[i].size)]
           each == {of[i] : i \in DOMAIN h}
<1>1. /\ Len(h) \in Nat /\ DOMAIN h = 1..Len(h)
      /\ \A i \in DOMAIN h : h[i].size \in Nat
  <2>1. Len(h) \in Nat /\ DOMAIN h = 1..Len(h) /\ \A i \in 1..Len(h) : h[i] \in Message
    BY LenProperties, ElementOfSeq
  <2> QED BY <2>1 DEF Message
<1>2. IsFiniteSet(DOMAIN h)
  BY <1>1, FS_Interval
<1>3. \A i \in DOMAIN h : IsFiniteSet(of[i])
  <2> TAKE i \in DOMAIN h
  <2> DEFINE places == 1..h[i].size
  <2>1. IsFiniteSet(places)
    <3>1. 1 \in Int /\ h[i].size \in Int
      BY <1>1
    <3> QED BY <3>1, FS_Interval
  <2>2. of[i] = {i} \X places
    OBVIOUS
  <2> HIDE DEF of, places
  <2>3. IsFiniteSet({i})
    BY FS_Singleton
  <2>4. IsFiniteSet({i} \X places)
    BY <2>1, <2>3, FS_Product
  <2> QED BY <2>2, <2>4
<1>4. Size(h) = Cardinality(UNION each)
  BY DEF Size
<1>5. DOMAIN of = DOMAIN h
  OBVIOUS
<1> HIDE DEF of
<1>6. of \in Surjection(DOMAIN h, each)
  <2>1. of \in [DOMAIN h -> each]
    <3>1. \A i \in DOMAIN h : of[i] \in each
      OBVIOUS
    <3>2. of = [i \in DOMAIN h |-> of[i]]
      BY DEF of
    <3> HIDE DEF each
    <3> QED BY <3>1, <3>2
  <2> QED BY <2>1 DEF Surjection
<1>7. IsFiniteSet(each)
  BY <1>2, <1>6, FS_Surjection
<1>8. \A T \in each : IsFiniteSet(T)
  BY <1>3
<1> HIDE DEF each
<1>9. IsFiniteSet(UNION each)
  BY <1>7, <1>8, FS_UNION
<1> QED BY <1>4, <1>9, FS_CardinalityType

\* The longest of some ends is one of them.
LEMMA LongestIsOne ==
  ASSUME NEW h \in Seq(Message), NEW fits \in SUBSET Cuts(h), Longest(h, fits) # <<>>
  PROVE  \E i \in fits : Longest(h, fits) = From(h, i)
<1>1. fits # {} /\ Longest(h, fits) = From(h, Min(fits))
  BY DEF Longest
<1>2. fits \in SUBSET Nat
  <2>1. Len(h) \in Nat
    BY LenProperties
  <2> QED BY <2>1 DEF Cuts
<1>3. Min(fits) \in fits
  BY <1>1, <1>2, LeastExists
<1> QED BY <1>1, <1>3

LEMMA FittingFits ==
  ASSUME NEW h \in Seq(Message), NEW room, Fitting(h, room) # <<>>
  PROVE  Size(Fitting(h, room)) <= room
<1> DEFINE fits == {i \in Cuts(h) : Size(From(h, i)) <= room}
<1>1. fits \in SUBSET Cuts(h) /\ Fitting(h, room) = Longest(h, fits)
  BY DEF Fitting
<1> HIDE DEF fits
<1>2. PICK i \in fits : Fitting(h, room) = From(h, i)
  BY <1>1, LongestIsOne
<1> QED BY <1>2 DEF fits

LEMMA FittingIsSeq ==
  ASSUME NEW h \in Seq(Message), NEW room
  PROVE  Fitting(h, room) \in Seq(Message)
<1>1. PICK j \in 0..Len(h) : Fitting(h, room) = From(h, j)
  BY FittingIsClean DEF Clean
<1> QED BY <1>1, Parts

\* What ServedFits says of one reply.
Fits(s) ==
  LET shown == s.head \o s.body
      fixed == SystemSize + (IF s.text = <<>> THEN NoticeSize ELSE SummarySize)
      spare == SystemSpare + (IF s.text = <<>> THEN NoticeSpare ELSE SummarySpare)
  IN  shown # <<>> =>
        \/ Estimate(shown, fixed, spare) <= (IF s.text = <<>> THEN Target ELSE Budget)
        \/ /\ s.text # <<>> \/ s.body = <<>>
           /\ fixed + Size(shown) <= Target

LEMMA SizesAreNumbers ==
  /\ Budget \in Nat /\ Target \in Nat /\ Target <= Budget
  /\ SystemSize \in Nat /\ SummarySize \in Nat /\ NoticeSize \in Nat
  BY CutSizes

\* The fast path is taken only for what fits.
LEMMA VerbatimFits ==
  ASSUME NEW h \in Seq(Message), NEW n \in 0..Len(h), FastPath(h, Upto(h, n))
  PROVE  Fits(Verbatim(h, Upto(h, n)))
<1> DEFINE s == Verbatim(h, Upto(h, n))
           body == From(h, SafeCut(h, n))
<1>1. Len(Upto(h, n)) = n
  BY Parts
<1>2. s.text = Upto(h, n) /\ s.head = <<>> /\ s.body = body
  BY <1>1 DEF Verbatim, Served
<1>3. body \in Seq(Message)
  <2>1. SafeCut(h, n) \in n..Len(h) /\ Len(h) \in Nat
    BY SafeCutMovesForward, LenProperties
  <2>2. SafeCut(h, n) \in 0..Len(h)
    BY <2>1
  <2> QED BY <2>2, Parts
<1>4. /\ Upto(h, n) # <<>>
      /\ Estimate(body, SystemSize + SummarySize, SystemSpare + SummarySpare) <= Budget
  BY <1>2 DEF FastPath
<1> HIDE DEF s, body
<1>5. <<>> \o body = body
  BY <1>3, ConcatEmptySeq
<1>6. Fits(s)
  BY <1>2, <1>4, <1>5 DEF Fits
<1> QED BY <1>6 DEF s

\* A summary is followed by what fits into the target by the sum of the sizes.
LEMMA AssembledFits ==
  ASSUME NEW h \in Seq(Message), NEW n \in 0..Len(h), Upto(h, n) # <<>>
  PROVE  Fits(Assembled(h, Upto(h, n), n))
<1> DEFINE s == Assembled(h, Upto(h, n), n)
           used == SystemSize + SummarySize
           rem == From(h, SafeCut(h, n))
           body == IF used > Target THEN <<>> ELSE Fitting(rem, Target - used)
<1>1. s.text = Upto(h, n) /\ s.head = <<>> /\ s.body = body
  BY DEF Assembled, Served
<1>2. rem \in Seq(Message)
  <2>1. SafeCut(h, n) \in n..Len(h) /\ Len(h) \in Nat
    BY SafeCutMovesForward, LenProperties
  <2>2. SafeCut(h, n) \in 0..Len(h)
    BY <2>1
  <2> QED BY <2>2, Parts
<1>3. body \in Seq(Message)
  <2>1. Fitting(rem, Target - used) \in Seq(Message)
    BY <1>2, FittingIsSeq
  <2> QED BY <2>1, EmptySeq
<1>4. body # <<>> => Size(body) <= Target - used
  <2>1. Fitting(rem, Target - used) # <<>>
        => Size(Fitting(rem, Target - used)) <= Target - used
    BY <1>2, FittingFits
  <2> QED BY <2>1
<1>5. Size(body) \in Nat /\ <<>> \o body = body
  BY <1>3, SizeIsNumber, ConcatEmptySeq
<1> HIDE DEF s, body, rem
<1>6. body # <<>> => SystemSize + SummarySize + Size(body) <= Target
  BY <1>4, <1>5, SizesAreNumbers
<1>7. Fits(s)
  BY <1>1, <1>5, <1>6 DEF Fits
<1> QED BY <1>7 DEF s

\* _trim fits by the estimate of the list, but for the first message alone.
LEMMA TrimmedFits ==
  ASSUME NEW h \in Seq(Message), Len(h) >= 2
  PROVE  Fits(Trimmed(h))
<1> DEFINE s == Trimmed(h)
           fixed == SystemSize + NoticeSize
           head == IF fixed + Size(Upto(h, 1)) <= Target THEN Upto(h, 1) ELSE <<>>
           last(n) == From(h, Len(h) - n)
           recent == {n \in 0..(Len(h) - 1) :
                        \A j \in 1..n : \/ j <= KeepRecent
                                        \/ fixed + Size(head) + Size(last(j)) <= Target}
           taken == Max(recent)
           tail == last(taken)
           fits == {i \in Cuts(tail) :
                      Estimate(head \o From(tail, i), fixed, SystemSpare + NoticeSpare)
                        <= Target}
           body == Longest(tail, fits)
<1>1. s = IF fixed > Target THEN Served(<<>>, <<>>, <<>>) ELSE Served(<<>>, head, body)
  BY DEF Trimmed
<1>2. Len(h) \in Nat
  BY LenProperties
<1>3. head \in Seq(Message)
  <2>1. 1 \in 0..Len(h)
    BY <1>2
  <2>2. Upto(h, 1) \in Seq(Message) /\ <<>> \in Seq(Message)
    BY <2>1, Parts, EmptySeq
  <2> QED BY <2>2
<1>4. tail \in Seq(Message)
  <2>1. recent \in SUBSET (0..(Len(h) - 1)) /\ 0 \in recent /\ Len(h) - 1 \in Nat
    BY <1>2
  <2> HIDE DEF recent
  <2>2. taken \in recent
    BY <2>1, GreatestExists
  <2> HIDE DEF taken
  <2>3. Len(h) - taken \in 0..Len(h)
    BY <1>2, <2>1, <2>2
  <2> QED BY <2>3, Parts
<1> HIDE DEF recent, taken, last, tail
<1>5. body # <<>> =>
        Estimate(head \o body, fixed, SystemSpare + NoticeSpare) <= Target
  <2> SUFFICES ASSUME body # <<>>
               PROVE  Estimate(head \o body, fixed, SystemSpare + NoticeSpare) <= Target
    OBVIOUS
  <2>1. fits \in SUBSET Cuts(tail)
    OBVIOUS
  <2> HIDE DEF fits
  <2>2. PICK i \in fits : body = From(tail, i)
    BY <1>4, <2>1, LongestIsOne
  <2> QED BY <2>2 DEF fits
<1>6. head # <<>> => fixed + Size(head) <= Target
  OBVIOUS
<1> HIDE DEF s, head, body
<1>7. CASE fixed > Target
  <2>1. s.head = <<>> /\ s.body = <<>>
    BY <1>1, <1>7 DEF Served
  <2>2. s.head \o s.body = <<>>
    BY <2>1, EmptySeq, ConcatEmptySeq
  <2>3. Fits(s)
    BY <2>2 DEF Fits
  <2> QED BY <2>3 DEF s
<1>8. CASE ~(fixed > Target)
  <2>1. s.text = <<>> /\ s.head = head /\ s.body = body
    BY <1>1, <1>8 DEF Served
  <2>2. CASE body # <<>>
    <3>1. Fits(s)
      BY <1>5, <2>1, <2>2 DEF Fits
    <3> QED BY <3>1 DEF s
  <2>3. CASE body = <<>>
    <3>1. head \o body = head
      BY <1>3, <2>3, ConcatEmptySeq
    <3>2. Fits(s)
      BY <1>6, <2>1, <2>3, <3>1 DEF Fits
    <3> QED BY <3>2 DEF s
  <2> QED BY <2>2, <2>3
<1> QED BY <1>7, <1>8

LEMMA FallbackFits ==
  ASSUME NEW h \in Seq(Message), Len(h) >= 2, NEW n \in 0..Len(h)
  PROVE  Fits(Fallback(h, Upto(h, n)))
<1>1. Len(Upto(h, n)) = n
  BY Parts
<1> QED BY <1>1, AssembledFits, TrimmedFits DEF Fallback

\* Whatever the messages, the budget, the reserves and the histories are, what
\* is served fits by the estimate of the list, a summary with its messages into
\* the budget and a trimmed history into the target, but for the two lists that are
\* only ever summed up: what _assemble has cut and the first message alone, which
\* fit into the target by their sum.
THEOREM RepliesFit == Spec => []ServedFits
<1>1. Fits(NothingServed.reply)
  <2>1. NothingServed.reply.head = <<>> /\ NothingServed.reply.body = <<>>
    BY DEF NothingServed, Served
  <2>2. <<>> \o <<>> = <<>>
    BY EmptySeq, ConcatEmptySeq
  <2> QED BY <2>1, <2>2 DEF Fits
<1>2. Init => ServedFits
  BY <1>1 DEF Init, ServedFits, Fits
<1>3. CacheInv /\ ServedFits /\ [Next]_vars => ServedFits'
  <2> SUFFICES ASSUME CacheInv, ServedFits, [Next]_vars PROVE Fits(out.reply)'
    BY DEF ServedFits, Fits
  <2>1. ASSUME NEW c \in Client, ServeAtOnce(c) PROVE Fits(out.reply)'
    <3>1. PICK h \in Histories :
            out'.reply = IF FastPath(h, CachedText(h)) THEN Verbatim(h, CachedText(h))
                         ELSE Fallback(h, CachedText(h))
      BY <2>1 DEF ServeAtOnce, Reply
    <3>2. h \in Seq(Message) /\ Len(h) >= 2
      BY HistoryLen
    <3>3. PICK n \in 0..Len(h) : CachedText(h) = Upto(h, n)
      BY <3>2, CachedIsOwn DEF CacheInv, SummaryInv
    <3> QED BY <3>1, <3>2, <3>3, VerbatimFits, FallbackFits
  <2>2. ASSUME NEW c \in Client, Serve(c) PROVE Fits(out.reply)'
    <3> DEFINE h == req[c].history
    <3>1. /\ h \in Histories /\ \E n \in 0..Len(h) : req[c].text = Upto(h, n)
          /\ out'.reply = Fallback(h, Better(req[c].text, CachedText(h)))
      BY <2>2 DEF CacheInv, SummaryInv, OwnRequest, Serve, Reply
    <3> HIDE DEF h
    <3>2. h \in Seq(Message) /\ Len(h) >= 2
      BY <3>1, HistoryLen
    <3>3. PICK m \in 0..Len(h) : CachedText(h) = Upto(h, m)
      BY <3>2, CachedIsOwn DEF CacheInv, SummaryInv
    <3>4. PICK p \in 0..Len(h) : Better(req[c].text, CachedText(h)) = Upto(h, p)
      BY <3>1, <3>3 DEF Better
    <3> QED BY <3>1, <3>2, <3>4, FallbackFits
  <2>3. ASSUME NEW c \in Client, Join(c) \/ StartSummarize(c) \/ HangUp(c) PROVE Fits(out.reply)'
    BY <1>1, <2>3 DEF Join, StartSummarize, HangUp, Wait
  <2>4. ASSUME NEW t \in TaskId, TaskEnds(t) \/ Callback(t) PROVE Fits(out.reply)'
    BY <1>1, <2>4 DEF TaskEnds, Callback
  <2>5. CASE UNCHANGED vars
    BY <2>5 DEF vars, ServedFits, Fits
  <2> QED BY <2>1, <2>2, <2>3, <2>4, <2>5 DEF Next
<1> QED BY <1>2, <1>3, CacheAlways, PTL DEF Spec
=============================================================================
