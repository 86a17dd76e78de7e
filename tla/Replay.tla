-------------------------------- MODULE Replay --------------------------------
(***************************************************************************)
(* What becomes of a reply on the next turn.  The client keeps what it was *)
(* given, the blocks of /v1/messages or the items of /v1/responses, runs   *)
(* the tools, and sends all of it back with their results: the shims turn  *)
(* that into the messages of a chat completion again, where compaction.py  *)
(* may cut it.  The same reply may also have been asked for unstreamed,    *)
(* which other functions translate.                                        *)
(*                                                                         *)
(* The translation of a history is that of its turns, one after another,   *)
(* so one turn is enough.  A block is what it is of (text, or a call) and  *)
(* its words.  Parsing the arguments of a call and writing them again      *)
(* keeps them.                                                             *)
(***************************************************************************)
EXTENDS ReplyStream, SequencesExt

ASSUME NoneIsNoWords == None \notin Seq(Nat)

Ends == {e \in SentEvents : e.ev = "end"}

\* A finite set of numbers as a sequence: its k-th member has k - 1 below it.
Ascending(S) ==
  [k \in 1..Cardinality(S) |-> CHOOSE n \in S : Cardinality({m \in S : m < n}) = k - 1]

WordsRead(s) == Ascending(ChunksWith(s))
WordsSent(index) ==
  LET fills == Ascending({k \in DOMAIN sent : sent[k].ev = "delta" /\ sent[k].index = index})
  IN  [k \in DOMAIN fills |-> sent[fills[k]].data[1]]

\* The upstream's message, which the chunks are pieces of: its words and, for
\* each call, its arguments.
Completion ==
  LET called == SetToSeq({c \in Call : Mentioned(c)})
      told   == {n \in DOMAIN read : read[n].usage # 0}
      ended  == {n \in DOMAIN read : read[n].finish # None}
  IN  [text   |-> WordsRead("text"),
       calls  |-> [k \in DOMAIN called |-> [of |-> called[k], data |-> WordsRead(called[k])]],
       finish |-> IF ended = {} THEN "stop" ELSE read[Min(ended)].finish,
       usage  |-> IF told = {} THEN 0 ELSE read[Max(told)].usage]

------------------------------------------------------------------------------
(* The unstreamed reply.                                                   *)

\* The calls, and then the words if there are any.
UnstreamedItems(m) ==
  m.calls \o (IF m.text = <<>> THEN <<>> ELSE <<[of |-> "text", data |-> m.text]>>)

\* The upstream cut the message off, at its limit or for what it says.
CutOff(m) == m.finish \in {"length", "content_filter"}

Unstreamed(m) ==
  [items |-> UnstreamedItems(m),
   stop  |-> IF api = "anthropic" THEN StopReason(m.finish)
             ELSE IF CutOff(m) THEN "incomplete" ELSE "completed",
   usage |-> m.usage]

------------------------------------------------------------------------------
(* What the client sends back, as chat messages.                           *)

\* Words that are not the upstream's: the client's own, and those the shims put
\* where there are none ("(empty)", "{}").
Other == <<0>>

Says(role, text, calls, answers) ==
  [role |-> role, text |-> text, calls |-> calls, answers |-> answers]

Text(items) == FlattenSeq([k \in DOMAIN items |->
                             IF items[k].of = "text" THEN items[k].data ELSE <<>>])
CallsIn(items) ==
  LET at == Ascending({k \in DOMAIN items : items[k].of # "text"})
  IN  [j \in DOMAIN at |-> items[at[j]]]

\* One assistant message for all blocks of /v1/messages, one for each item of
\* /v1/responses.
Assistant(items) ==
  IF api = "anthropic"
  THEN <<Says("assistant", IF Text(items) = <<>> THEN None ELSE Text(items),
              CallsIn(items), None)>>
  ELSE [k \in DOMAIN items |->
          IF items[k].of = "text" THEN Says("assistant", items[k].data, <<>>, None)
          ELSE Says("assistant", None, <<items[k]>>, None)]

\* The result of each call.
Results(items) ==
  LET calls == CallsIn(items)
  IN  [k \in DOMAIN calls |-> Says("tool", Other, <<>>, calls[k].of)]

\* Mutant: a user message is translated in the order of its blocks.
WordsFirst(items) == <<Says("user", Other, <<>>, None)>> \o Results(items)

\* The client's turn: in /v1/messages one message holds its words and, after
\* them, the results, which the shim puts first.
User(items) == Results(items) \o <<Says("user", Other, <<>>, None)>>

Filled(call) == [call EXCEPT !.data = IF @ = <<>> THEN Other ELSE @]

\* No message without content; no call without arguments, were it "{}".
Sane(m) ==
  [m EXCEPT !.text = IF @ \notin {None, <<>>} THEN @
                     ELSE IF m.calls = <<>> THEN Other ELSE <<>>,
            !.calls = [k \in DOMAIN @ |-> Filled(@[k])]]

SentBack(items) ==
  LET h == Assistant(items) \o User(items)
  IN  [k \in DOMAIN h |-> Sane(h[k])]

Cuts == INSTANCE CompactionCuts WITH
  Budget <- 0, Target <- 0, SystemSize <- 0, SystemSpare <- 0, SummarySize <- 0,
  SummarySpare <- 0, NoticeSize <- 0, NoticeSpare <- 0, KeepRecent <- 0

------------------------------------------------------------------------------
(* Properties.                                                             *)

\* What a client that was streamed a whole reply has kept of it: /v1/messages
\* puts each block at its index.
Kept(e) ==
  IF api = "responses"
  THEN [k \in DOMAIN e.items |-> [of |-> e.items[k].of, data |-> e.items[k].data]]
  ELSE LET opens == {o \in SentEvents : o.ev = "open"}
       IN  [b \in 1..Cardinality(opens) |->
              [of   |-> (CHOOSE o \in opens : o.index = b - 1).of,
               data |-> WordsSent(b - 1)]]

\* A reply says the same streamed and unstreamed: the same words, the same
\* calls with the same arguments, the same usage if one was told, however late,
\* and the same reason to stop whichever chunks follow it, so that the agent runs
\* its tools either way (_stream_* against _chat_to_anthropic_response and
\* _chat_response_to_responses).  Two things differ for a reply that was cut off:
\* the status of /v1/responses, and arguments of /v1/messages that do not parse.
SameUnstreamed ==
  LET u   == Unstreamed(Completion)
      cut == CutOff(Completion) IN
  \A e \in Ends :
    /\ api = "responses" \/ ~cut =>
         ToSet(Kept(e)) = ToSet(u.items) /\ Len(Kept(e)) = Len(u.items)
    /\ api = "anthropic" \/ ~cut => e.stop = u.stop
    /\ u.usage # 0 => e.usage = u.usage

\* A turn sent back as messages h: all the words of the reply in one message,
\* each call once and with its arguments, every message with content, and each
\* result after its call with no turn of the user between them.
Returns(h) ==
  LET told    == {k \in DOMAIN h : h[k].role = "assistant" /\ h[k].text \notin {<<>>, Other}}
      calls   == UNION {{<<k, j>> : j \in DOMAIN h[k].calls} : k \in DOMAIN h}
      call(c) == h[c[1]].calls[c[2]]
  IN  /\ IF Completion.text = <<>> THEN told = {}
         ELSE \E k \in told : told = {k} /\ h[k].text = Completion.text
      /\ {call(c) : c \in calls} =
           {[of |-> c.of, data |-> IF c.data = <<>> THEN Other ELSE c.data] :
              c \in ToSet(Completion.calls)}
      /\ \A c, d \in calls : call(c).of = call(d).of => c = d
      /\ \A m \in ToSet(h) : m.text # None /\ (m.text = <<>> => m.calls # <<>>)
      /\ \A j \in DOMAIN h : h[j].role = "tool" =>
           \E i \in 1..(j - 1) : /\ \E c \in ToSet(h[i].calls) : c.of = h[j].answers
                                 /\ \A k \in i..j : h[k].role # "user"

\* The model is shown its own reply as it gave it, whichever way the client
\* received it (_anthropic_to_chat_messages, _input_to_messages and
\* _sanitize_chat_messages undo what the reply translators did).
RoundTrip ==
  \A e \in Ends : \A items \in {Kept(e), UnstreamedItems(Completion)} :
    Returns(SentBack(items))

\* Wherever compaction cuts a history, no tool result is left without the
\* message that called for it ("Move a boundary forward until the suffix has no
\* orphans", _safe_cut).
ResultsKeepTheirCalls ==
  \A e \in Ends :
    LET h == SentBack(Kept(e)) IN
    \A cut \in 0..Len(h) :
      LET kept == Cuts!From(h, Cuts!SafeCut(h, cut)) IN
      \A m \in ToSet(kept) : m.role = "tool" =>
        \E n \in ToSet(kept) : \E c \in ToSet(n.calls) : c.of = m.answers
=============================================================================
