---------------------------- MODULE CompactionCuts ----------------------------
(***************************************************************************)
(* Where openvidia/compaction.py cuts a conversation that is too long.     *)
(*                                                                         *)
(* A history is the conversation after its leading system messages.  Of a  *)
(* message only its role and the length of its JSON matter: size tokens of *)
(* four characters and 0 to 3 spare ones, which the estimate of the single *)
(* message drops.  The JSON of a list is as long as those of its messages, *)
(* each in a list of its own, together; so its estimate counts the spare   *)
(* characters that the sum of the estimates, which most of the code        *)
(* budgets with, does not.                                                 *)
(*                                                                         *)
(* The loops of the code drop or add one message at a time; sizes are      *)
(* positive, so the index where a loop stops is the first that fits.       *)
(***************************************************************************)
EXTENDS Naturals, Sequences, FiniteSetsExt, SequencesExt

CONSTANTS
  Budget,      \* the model's budget minus reserved_tokens
  Target,      \* compact_ratio of it
  SystemSize, SystemSpare,   \* the leading system messages, summed
  SummarySize, SummarySpare, \* a summary block; its size is the reserve too
  NoticeSize, NoticeSpare,   \* "[previous messages omitted to fit context]"
  KeepRecent   \* keep_recent

ASSUME CutSizes ==
  /\ Budget \in Nat /\ Target \in 0..Budget
  /\ SystemSize \in Nat /\ SummarySize \in Nat /\ NoticeSize \in Nat
  /\ SystemSpare \in Nat /\ SummarySpare \in 0..3 /\ NoticeSpare \in 0..3
  /\ KeepRecent \in Nat

Message == [role : {"user", "assistant", "tool"}, size : Nat \ {0}, spare : 0..3]

\* The sum of _msg_tokens over a history, and the characters it drops.
Size(h) == Cardinality(UNION {{i} \X (1..h[i].size) : i \in DOMAIN h})
Spare(h) == Cardinality(UNION {{i} \X (1..h[i].spare) : i \in DOMAIN h})

\* estimate_tokens of a list with the messages of h and others of so many tokens
\* and spare characters.
Estimate(h, size, spare) == size + Size(h) + (spare + Spare(h)) \div 4

\* h[i:] and h[:i].
From(h, i) == SubSeq(h, i + 1, Len(h))
Upto(h, i) == SubSeq(h, 1, i)

\* Mutant: the boundary is taken as it comes.
CutAnywhere(h, i) == i
\* _safe_cut: the first boundary from i on that orphans no tool result.
SafeCut(h, i) == Min({j \in i..Len(h) : j = Len(h) \/ h[j + 1].role # "tool"})

OrphanFree(h) == From(h, SafeCut(h, 0))

\* The suffixes a loop that drops the oldest messages may stop at, by what they
\* leave out, and the longest of those it stops at; nothing if there is none.
Cuts(h) == {i \in 0..Len(h) : SafeCut(h, i) = i}
Longest(h, fits) == IF fits = {} THEN <<>> ELSE From(h, Min(fits))

\* Mutant: the sizes of what is dropped are not followed up.
FittingAsIs(h, room) == OrphanFree(h)
\* The longest orphan-free suffix of h whose summed sizes fit in room.
Fitting(h, room) == Longest(h, {i \in Cuts(h) : Size(From(h, i)) <= room})

\* _split_point: how many messages stay verbatim; one at least, and one at least
\* is summarized.
SplitPoint(h) ==
  LET fits == {n \in 1..Len(h) :
                 n = 1 \/ Size(From(h, Len(h) - n)) + SystemSize + SummarySize <= Target}
      kept == Max(fits)
  IN  IF kept < Len(h) THEN kept ELSE Len(h) - 1

\* What a request is served with: the summarized messages its summary stands
\* for, the first message kept before the notice, and the verbatim messages.
Served(text, head, body) == [text |-> text, head |-> head, body |-> body]

\* _trim: the first message if it fits, then the recent messages; keep_recent
\* of them are considered whatever their size.  Up to there the sizes are summed;
\* then the oldest are dropped until the estimate of the whole list fits, or none
\* is left.
Trimmed(h) ==
  LET fixed == SystemSize + NoticeSize
      head  == IF fixed + Size(Upto(h, 1)) <= Target THEN Upto(h, 1) ELSE <<>>
      last(n) == From(h, Len(h) - n)
      taken == Max({n \in 0..(Len(h) - 1) :
                      \A j \in 1..n : \/ j <= KeepRecent
                                      \/ fixed + Size(head) + Size(last(j)) <= Target})
      tail  == last(taken)
      fits  == {i \in Cuts(tail) :
                  Estimate(head \o From(tail, i), fixed, SystemSpare + NoticeSpare) <= Target}
  IN  IF fixed > Target THEN Served(<<>>, <<>>, <<>>)
      ELSE Served(<<>>, head, Longest(tail, fits))

\* _assemble, without a separate tail: the summary of text and the newest
\* messages after it.  Nobody estimates the list as a whole.
Assembled(h, text, covered) ==
  LET used == SystemSize + SummarySize
      rem  == From(h, SafeCut(h, covered))
  IN  Served(text, <<>>, IF used > Target THEN <<>> ELSE Fitting(rem, Target - used))
=============================================================================
