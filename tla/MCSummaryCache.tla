---------------------------- MODULE MCSummaryCache ----------------------------
(* Instances of SummaryCache for TLC.                                      *)
EXTENDS SummaryCache, TLC

CONSTANTS c1, c2, t1, t2

Clients == Permutations(Client) \cup Permutations(TaskId)

User      == [role |-> "user", size |-> 1, spare |-> 0]
Nudge     == [role |-> "user", size |-> 1, spare |-> 3]
Paste     == [role |-> "user", size |-> 2, spare |-> 1]
Assistant == [role |-> "assistant", size |-> 1, spare |-> 3]
Result    == [role |-> "tool", size |-> 1, spare |-> 3]
Dump      == [role |-> "tool", size |-> 3, spare |-> 3]

\* An agent's conversation as it grows, two forks of it, and one of
\* another key that ends in what no target holds; a shorter one is a rewind.
Turns ==
  { <<User, Assistant, Result, Assistant, Nudge>>,
    <<User, Assistant, Result, Assistant, Nudge, Assistant, Result>>,
    <<User, Assistant, User, Assistant, Dump>>,
    <<User, Assistant, Result, Paste, User>>,
    <<Paste, Paste, Assistant, Dump, Result>> }
=============================================================================
