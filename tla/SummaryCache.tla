----------------------------- MODULE SummaryCache -----------------------------
(***************************************************************************)
(* maybe_compact of openvidia/compaction.py: requests whose history is too *)
(* long are served a summary of its beginning and the rest verbatim.  The  *)
(* summaries are written by detached tasks, one at a time for each         *)
(* conversation key, and kept in a rolling cache of bounded size.          *)
(*                                                                         *)
(* Any client may send any history: the next turn, a fork, a rewind; all   *)
(* that share their first messages share a key.  Hashes do not collide.    *)
(* The text of a summary is the messages it was written from, and the      *)
(* fingerprint of a prefix is the prefix.                                  *)
(*                                                                         *)
(* A step is what one task of the loop does between two awaits.  A task is *)
(* done one turn before its callback runs, and whoever awaits it resumes   *)
(* after the callback, or at its own deadline.                             *)
(***************************************************************************)
EXTENDS CompactionCuts

CONSTANTS
  Client,     \* the requests under way at a time
  Histories,  \* the histories a client may send, system messages removed
  KeyLen,     \* _CONV_KEY_PREFIX_MSGS
  RollingCap, \* _ROLLING_CAP
  TaskId,     \* names for the summarize tasks under way
  NoTask      \* none of them

ASSUME CacheSizes ==
  /\ Histories \subseteq Seq(Message)
  /\ \A h \in Histories : Len(h) >= 2 /\ h[1].role # "tool"
  /\ KeyLen \in Nat \ {0} /\ RollingCap \in Nat \ {0}
  /\ NoTask \notin TaskId

VARIABLES
  req,      \* each client's request: Idle, or what it holds while it waits
  rolling,  \* _rolling, in insertion order
  inflight, \* _inflight: the task of each key, or NoTask
  tasks,    \* the summarize tasks, by name
  out       \* what the last step served, and for which history

vars == <<req, rolling, inflight, tasks, out>>

\* _conv_key.
Key(h) == Upto(h, IF Len(h) < KeyLen THEN Len(h) ELSE KeyLen)
Keys == {Key(h) : h \in Histories}
Beginnings == UNION {{Upto(h, i) : i \in 0..Len(h)} : h \in Histories}

Idle == [history |-> <<>>, text |-> <<>>]
Absent == [key |-> <<>>, prefix |-> <<>>, text |-> <<>>, state |-> "absent"]
NothingServed == [rest |-> <<>>, reply |-> Served(<<>>, <<>>, <<>>), had |-> 0]

\* Type invariant; the cache holds one entry for a key, and is never over its cap.
TypeOK ==
  /\ \A c \in Client : /\ req[c].history \in Histories \cup {<<>>}
                       /\ req[c].text \in Beginnings \cup {<<>>}
  /\ Len(rolling) <= RollingCap
  /\ \A i, j \in DOMAIN rolling : rolling[i].key = rolling[j].key => i = j
  /\ inflight \in [Keys -> TaskId \cup {NoTask}]
  /\ \A t \in TaskId : tasks[t].state \in {"absent", "running", "ok", "failed"}
  /\ out.rest \in Histories \cup {<<>>}

Init ==
  /\ req = [c \in Client |-> Idle]
  /\ rolling = <<>>
  /\ inflight = [k \in Keys |-> NoTask]
  /\ tasks = [t \in TaskId |-> Absent]
  /\ out = NothingServed

-----------------------------------------------------------------------------
(* The rolling cache.                                                      *)

\* Mutant: whatever is cached for the key is used.
UnverifiedText(h) ==
  LET mine == {i \in DOMAIN rolling : rolling[i].key = Key(h)}
  IN  IF mine = {} THEN <<>> ELSE rolling[CHOOSE i \in mine : TRUE].text

\* _cache_get: the text of the summary cached for h's key, if what it covers is
\* a prefix of h; else nothing.
CachedText(h) ==
  LET mine == {i \in DOMAIN rolling : /\ rolling[i].key = Key(h)
                                      /\ IsPrefix(rolling[i].prefix, h)}
  IN  IF mine = {} THEN <<>> ELSE rolling[CHOOSE i \in mine : TRUE].text

\* Mutant: an entry is appended without making room for it.
PutUnbounded(entry) == Append(rolling, entry)

\* _cache_put: an entry of the same key is replaced in place; a new one evicts
\* the oldest when the cache is full.
Put(entry) ==
  LET same == {i \in DOMAIN rolling : rolling[i].key = entry.key}
      kept == IF Len(rolling) >= RollingCap THEN Tail(rolling) ELSE rolling
  IN  IF same = {} THEN Append(kept, entry)
      ELSE [i \in DOMAIN rolling |-> IF i \in same THEN entry ELSE rolling[i]]

-----------------------------------------------------------------------------
(* A request.                                                              *)

TooLong(h) == Estimate(h, SystemSize, SystemSpare) > Budget

\* The summary of text, which covers the first Len(text) messages of h, and
\* everything after it verbatim.
Verbatim(h, text) == Served(text, <<>>, From(h, SafeCut(h, Len(text))))
FastPath(h, text) ==
  /\ text # <<>>
  /\ Estimate(Verbatim(h, text).body, SystemSize + SummarySize,
              SystemSpare + SummarySpare) <= Budget

\* The ladder's last steps: a stale summary beats a trim.
Fallback(h, text) ==
  IF text # <<>> THEN Assembled(h, text, Len(text)) ELSE Trimmed(h)

Reply(c, h, served, had) ==
  /\ out' = [rest |-> h, reply |-> served, had |-> had]
  /\ req' = [req EXCEPT ![c] = Idle]

Split(h) == SafeCut(h, Len(h) - SplitPoint(h))

UnderWay(k) == inflight[k] # NoTask /\ tasks[inflight[k]].state = "running"

Wait(c, h, text) ==
  /\ req' = [req EXCEPT ![c] = [history |-> h, text |-> text]]
  /\ out' = NothingServed

\* Served without a summarize call: the cached summary is enough, or nothing is
\* left to summarize, or too few keys are healthy to spend one on a summary.
ServeAtOnce(c) ==
  /\ req[c] = Idle
  /\ \E h \in Histories :
       LET text == CachedText(h)
       IN  /\ TooLong(h)
           /\ IF FastPath(h, text)
              THEN Reply(c, h, Verbatim(h, text), Len(text))
              ELSE /\ Split(h) > Len(text) => ~UnderWay(Key(h))
                   /\ Reply(c, h, Fallback(h, text), Len(text))
  /\ UNCHANGED <<rolling, inflight, tasks>>

\* The boundary must advance, and another request has a summary under way.
Join(c) ==
  /\ req[c] = Idle
  /\ \E h \in Histories :
       LET text == CachedText(h)
       IN  /\ TooLong(h) /\ ~FastPath(h, text) /\ Split(h) > Len(text)
           /\ UnderWay(Key(h))
           /\ Wait(c, h, text)
  /\ UNCHANGED <<rolling, inflight, tasks>>

\* The messages since the cached summary are to be integrated into it.
StartSummarize(c) ==
  /\ req[c] = Idle
  /\ \E h \in Histories, t \in TaskId :
       LET text == CachedText(h)
       IN  /\ TooLong(h) /\ ~FastPath(h, text) /\ Split(h) > Len(text)
           /\ ~UnderWay(Key(h))
           /\ tasks[t] = Absent
           /\ tasks' = [tasks EXCEPT ![t] =
                [key |-> Key(h), prefix |-> Upto(h, Split(h)),
                 text |-> text \o SubSeq(h, Len(text) + 1, Split(h)),
                 state |-> "running"]]
           /\ inflight' = [inflight EXCEPT ![Key(h)] = t]
           /\ Wait(c, h, text)
  /\ UNCHANGED rolling

\* Mutant: whatever is cached now replaces what the request began with.
Newest(had, fresh) == fresh
\* The better of the summary the request began with and the one cached now.
Better(had, fresh) == IF Len(fresh) >= Len(had) THEN fresh ELSE had

\* The awaited task has ended and its callback has run, or the deadline is over.
Serve(c) ==
  /\ req[c] # Idle
  /\ LET h == req[c].history
     IN  Reply(c, h, Fallback(h, Better(req[c].text, CachedText(h))), Len(req[c].text))
  /\ UNCHANGED <<rolling, inflight, tasks>>

\* The client is gone; the shielded task goes on.
HangUp(c) ==
  /\ req[c] # Idle
  /\ req' = [req EXCEPT ![c] = Idle]
  /\ out' = NothingServed
  /\ UNCHANGED <<rolling, inflight, tasks>>

-----------------------------------------------------------------------------
(* A summarize task.                                                       *)

\* A key has answered with a summary, or all the attempts have failed.
TaskEnds(t) ==
  /\ tasks[t].state = "running"
  /\ \E s \in {"ok", "failed"} : tasks' = [tasks EXCEPT ![t].state = s]
  /\ out' = NothingServed
  /\ UNCHANGED <<req, rolling, inflight>>

\* Mutant: the callback clears its key's entry, whose ever it is.
ForgetAny(t) == [inflight EXCEPT ![tasks[t].key] = NoTask]

\* Only the task that is still its key's is taken out of _inflight.
Forget(t) == [k \in Keys |-> IF inflight[k] = t THEN NoTask ELSE inflight[k]]

\* _done.
Callback(t) ==
  /\ tasks[t].state \in {"ok", "failed"}
  /\ inflight' = Forget(t)
  /\ rolling' = IF tasks[t].state = "ok"
                THEN Put([key |-> tasks[t].key, prefix |-> tasks[t].prefix,
                          text |-> tasks[t].text])
                ELSE rolling
  /\ tasks' = [tasks EXCEPT ![t] = Absent]
  /\ out' = NothingServed
  /\ UNCHANGED req

Next ==
  \/ \E c \in Client : \/ ServeAtOnce(c) \/ Join(c) \/ StartSummarize(c)
                       \/ Serve(c) \/ HangUp(c)
  \/ \E t \in TaskId : TaskEnds(t) \/ Callback(t)

Spec == Init /\ [][Next]_vars

-----------------------------------------------------------------------------
(* Properties.                                                             *)

\* What a client is served is its own history: the summary stands for exactly a
\* prefix of it, and the verbatim messages are a suffix that begins no earlier
\* than the summary ends.  No other conversation's text, nothing twice, whatever
\* fork or rewind wrote the cache while the request was waiting.
ServedIsOwnHistory ==
  LET s == out.reply
  IN  /\ IsPrefix(s.text, out.rest) /\ IsSuffix(s.body, out.rest)
      /\ Len(s.text) + Len(s.head) + Len(s.body) <= Len(out.rest)

\* No tool result is served without the assistant turn it answers, wherever the
\* budget, a summary or a fork puts the cut; one assistant message makes all the
\* calls of a turn here (see ResultsKeepTheirCalls of Replay).
NoOrphanedToolResult ==
  LET s == out.reply.body IN s # <<>> => s[1].role # "tool"

\* What is served fits by the estimate of the list: a history with a summary
\* before it in the budget, a trimmed one in the target ("GUARANTEE", _trim).  The
\* lists nobody estimates as a whole, the first message alone and what _assemble
\* has cut for a summary, keep to the target by the sum of their messages' sizes
\* only, though it is called an upper bound: the estimate of the list may exceed
\* it by the spare characters that the sum drops.  (Not when nothing but system
\* messages is left.)
ServedFits ==
  LET s     == out.reply
      shown == s.head \o s.body
      fixed == SystemSize + (IF s.text = <<>> THEN NoticeSize ELSE SummarySize)
      spare == SystemSpare + (IF s.text = <<>> THEN NoticeSpare ELSE SummarySpare)
  IN  shown # <<>> =>
        \/ Estimate(shown, fixed, spare) <= (IF s.text = <<>> THEN Target ELSE Budget)
        \/ /\ s.text # <<>> \/ s.body = <<>>
           /\ fixed + Size(shown) <= Target

\* One summary at a time is being written for a conversation, even when a task
\* that is done has not been taken out of _inflight before the next one starts.
SingleFlight ==
  \A t, u \in TaskId :
    tasks[t].state = "running" /\ tasks[u].state = "running"
    /\ tasks[t].key = tasks[u].key => t = u

\* A request that waited is not served a shorter summary than it began with,
\* although a rewound fork may have replaced the cached one meanwhile.
NeverBackwards == Len(out.reply.text) >= out.had
=============================================================================
