----------------------------- MODULE ReplyStream -----------------------------
(***************************************************************************)
(* The generators that translate a streamed chat completion into events:   *)
(* _stream_anthropic of anthropic_shim.py for /v1/messages and             *)
(* _stream_responses of responses_shim.py for /v1/responses.  They are the *)
(* same loop over the chunks of the upstream; `api` says which one it is.  *)
(*                                                                         *)
(* The n-th chunk carries n as its text and as the arguments of its calls: *)
(* that is enough to tell which words reached the client and in what order.*)
(* The two opening events, the two closing events of an item and the two   *)
(* final events of a reply always follow one another; each pair is one     *)
(* event here.  A step of the generator runs to its next await or yield,   *)
(* except that the events that close all blocks are queued together and    *)
(* yielded one by one.  Lines that are not a chunk are skipped by the code *)
(* and left out.                                                           *)
(***************************************************************************)
EXTENDS Integers, Sequences, FiniteSets

CONSTANTS
  Call,      \* the "index" fields of an upstream's tool calls
  Chunks,    \* what a chunk may be
  MaxChunks, \* bound: chunks of a reply
  None       \* no block, no finish_reason

Finishes == {"stop", "length", "tool_calls", "content_filter"}
Pieces == [call : Call, args : BOOLEAN]

Chunk ==
  [text : BOOLEAN, calls : Seq(Pieces), finish : Finishes \cup {None}, usage : Nat]

ASSUME StreamConstants ==
  /\ Chunks \subseteq Chunk
  /\ MaxChunks \in Nat
  /\ "text" \notin Call
  /\ None \notin Nat \cup Finishes

VARIABLES
  api,    \* "anthropic" or "responses"
  pc,     \* where the generator is: "rotating", "reading" or "last"
  task,   \* the rotation phase and what it came to
  read,   \* the chunks read so far
  todo,   \* what is left of the last one
  reply,  \* the accumulators of the streamed content
  out,    \* events the generator is about to yield
  sent,   \* events the client received
  client, \* "there" or "gone"
  broken  \* an exception went through the generator

vars == <<api, pc, task, read, todo, reply, out, sent, client, broken>>

Outcomes == {"reply", "nothing", "raised"}
Over == pc = "last" /\ out = <<>>

------------------------------------------------------------------------------
(* The accumulators.                                                       *)

\* Nothing received yet; usage 0 is "not told".
Empty ==
  [next |-> 0, text |-> None, full |-> <<>>, tools |-> <<>>,
   closed |-> FALSE, stop |-> "end_turn", usage |-> 0]

\* Nothing left of a chunk.
Done == [text |-> FALSE, calls |-> <<>>, finish |-> None]

Opened(of, index) == <<[ev |-> "open", of |-> of, index |-> index]>>
Delta(index, n) == <<[ev |-> "delta", index |-> index, data |-> <<n>>]>>

\* The text, if there is any, and the tool calls in arrival order, which is the
\* order of the dict: the order in which blocks are closed, and that of
\* final_output.
Items(acc) ==
  (IF acc.text = None THEN <<>>
   ELSE <<[of |-> "text", index |-> acc.text, data |-> acc.full]>>)
  \o acc.tools

\* Only /v1/responses repeats the whole content of a block when it closes it.
Stops(acc) ==
  [k \in DOMAIN Items(acc) |->
     [ev |-> "stop", index |-> Items(acc)[k].index,
      data |-> IF api = "responses" THEN Items(acc)[k].data ELSE <<>>]]

\* Mutant: the upstream's word is passed on as it is.
RawReason(finish) == finish

StopReason(finish) ==
  CASE finish = "length" -> "max_tokens"
    [] finish = "tool_calls" -> "tool_use"
    [] OTHER -> "end_turn"

\* Mutant: usages are read until the choice ends.
EarlyUsage(acc, c) ==
  IF c.usage = 0 \/ acc.closed THEN acc ELSE [acc EXCEPT !.usage = c.usage]

Usage(acc, c) == IF c.usage = 0 THEN acc ELSE [acc EXCEPT !.usage = c.usage]

\* Without a usage /v1/messages counts characters and /v1/responses says zero.
Completed(acc) ==
  [ev |-> "end",
   stop |-> IF api = "responses" THEN "completed" ELSE acc.stop,
   items |-> IF api = "responses" THEN Items(acc) ELSE <<>>,
   usage |-> IF api = "anthropic" /\ acc.usage = 0 THEN Len(acc.full) \div 4
             ELSE acc.usage]

\* Mutant: the blocks are closed again after the loop.
StopAgain(acc) == Stops(acc) \o <<Completed(acc)>>

\* Mutant: only a finish_reason brings the final event.
IfFinished(acc) ==
  IF acc.closed THEN <<Completed(acc)>> ELSE Stops(acc)

\* What follows the loop, however it ended.
Farewell(acc) ==
  (IF acc.closed THEN <<>> ELSE Stops(acc)) \o <<Completed(acc)>>

------------------------------------------------------------------------------
(* The phase.                                                              *)

Init ==
  /\ api \in {"anthropic", "responses"}
  /\ pc = "rotating"
  /\ task = "not started"
  /\ read = <<>>
  /\ todo = Done
  /\ reply = Empty
  /\ out = <<[ev |-> "opening"]>>
  /\ sent = <<>>
  /\ client = "there"
  /\ broken = FALSE

Untranslated == UNCHANGED <<read, todo, reply>>

\* The next event goes to the client, if there is one; the keepalives are
\* comments, which its parser drops.
Yield ==
  /\ out # <<>>
  /\ out' = Tail(out)
  /\ sent' = IF client = "there" /\ Head(out).ev # "keepalive"
             THEN Append(sent, Head(out)) ELSE sent
  /\ Untranslated /\ UNCHANGED <<api, pc, task, client, broken>>

\* A saturated pool is not asked at all.
StartRotation ==
  /\ pc = "rotating" /\ task = "not started" /\ out = <<>>
  /\ task' \in {"running", "nothing"}
  /\ Untranslated /\ UNCHANGED <<api, pc, out, sent, client, broken>>

RotationEnds ==
  /\ task = "running"
  /\ task' \in Outcomes
  /\ Untranslated /\ UNCHANGED <<api, pc, out, sent, client, broken>>

\* Ten seconds of /v1/responses without an answer.
Keepalive ==
  /\ api = "responses" /\ pc = "rotating" /\ task = "running" /\ out = <<>>
  /\ out' = <<[ev |-> "keepalive"]>>
  /\ Untranslated /\ UNCHANGED <<api, pc, task, sent, client, broken>>

Answered ==
  /\ pc = "rotating" /\ task = "reply" /\ out = <<>>
  /\ pc' = "reading"
  /\ Untranslated /\ UNCHANGED <<api, task, out, sent, client, broken>>

\* /v1/responses takes an exception of the phase for a failure.
Refused ==
  /\ pc = "rotating" /\ out = <<>>
  /\ task = "nothing" \/ (task = "raised" /\ api = "responses")
  /\ pc' = "last"
  /\ out' = <<[ev |-> "failed"]>>
  /\ Untranslated /\ UNCHANGED <<api, task, sent, client, broken>>

------------------------------------------------------------------------------
(* The loop: usage, text, tool calls, finish_reason of each chunk.         *)

Reading == pc = "reading" /\ out = <<>>
KeepRest == UNCHANGED <<api, pc, task, read, sent, client, broken>>

\* A choice ends with its finish_reason: what follows is a usage or another
\* finish_reason, never more content.
ReadChunk ==
  /\ Reading /\ todo = Done /\ client = "there"
  /\ Len(read) < MaxChunks
  /\ \E c \in Chunks :
       /\ reply.closed => ~c.text /\ c.calls = <<>>
       /\ todo' = [text |-> c.text, calls |-> c.calls, finish |-> c.finish]
       /\ reply' = Usage(reply, c)
       /\ read' = Append(read, c)
  /\ UNCHANGED <<api, pc, task, out, sent, client, broken>>

\* The first words open the block of the text.
OpenText ==
  /\ Reading /\ todo.text /\ reply.text = None
  /\ reply' = [reply EXCEPT !.text = reply.next, !.next = @ + 1]
  /\ out' = Opened("text", reply.next)
  /\ UNCHANGED todo /\ KeepRest

\* Mutant: a chunk has words or calls, not both.
WriteTextOnly ==
  /\ Reading /\ todo.text /\ reply.text # None
  /\ reply' = [reply EXCEPT !.full = Append(@, Len(read))]
  /\ out' = Delta(reply.text, Len(read))
  /\ todo' = [todo EXCEPT !.text = FALSE, !.calls = <<>>]
  /\ KeepRest

WriteText ==
  /\ Reading /\ todo.text /\ reply.text # None
  /\ reply' = [reply EXCEPT !.full = Append(@, Len(read))]
  /\ out' = Delta(reply.text, Len(read))
  /\ todo' = [todo EXCEPT !.text = FALSE]
  /\ KeepRest

\* The call the next piece of the chunk belongs to.
Calling == Reading /\ ~todo.text /\ todo.calls # <<>>
IsOf(tool) == tool.of = Head(todo.calls).call

\* An index seen for the first time opens a block.
OpenCall ==
  /\ Calling /\ \A k \in DOMAIN reply.tools : ~IsOf(reply.tools[k])
  /\ reply' = [reply EXCEPT
       !.tools = Append(@, [of |-> Head(todo.calls).call, index |-> reply.next,
                            data |-> <<>>]),
       !.next = @ + 1]
  /\ out' = Opened(Head(todo.calls).call, reply.next)
  /\ UNCHANGED todo /\ KeepRest

WriteCall ==
  /\ Calling
  /\ \E k \in DOMAIN reply.tools :
       /\ IsOf(reply.tools[k])
       /\ IF Head(todo.calls).args
          THEN /\ reply' = [reply EXCEPT !.tools[k].data = Append(@, Len(read))]
               /\ out' = Delta(reply.tools[k].index, Len(read))
          ELSE UNCHANGED <<reply, out>>
  /\ todo' = [todo EXCEPT !.calls = Tail(@)]
  /\ KeepRest

\* The first finish_reason closes the blocks; the last event is held back.
Finish ==
  /\ Reading /\ ~todo.text /\ todo.calls = <<>> /\ todo.finish # None
  /\ IF reply.closed THEN UNCHANGED <<reply, out>>
     ELSE /\ reply' = [reply EXCEPT !.closed = TRUE, !.stop = StopReason(todo.finish)]
          /\ out' = Stops(reply)
  /\ todo' = Done
  /\ KeepRest

Translate == OpenText \/ WriteText \/ OpenCall \/ WriteCall \/ Finish

\* [DONE], the end of the body, or a disconnection noticed at the next line.
LoopEnds ==
  /\ Reading /\ todo = Done
  /\ pc' = "last"
  /\ out' = Farewell(reply)
  /\ Untranslated /\ UNCHANGED <<api, task, sent, client, broken>>

------------------------------------------------------------------------------
(* The other ends.                                                         *)

\* An exception goes through the generator: nothing is yielded any more.
Break ==
  /\ pc' = "last" /\ out = <<>>
  /\ broken' = TRUE
  /\ Untranslated /\ UNCHANGED <<api, task, out, sent, client>>

\* httpx raises while the body is read, or a chunk has another shape.
BodyBreaks == pc = "reading" /\ Break

\* /v1/messages awaits the phase itself, and its exceptions with it.
PhaseBreaks ==
  /\ pc = "rotating" /\ task = "raised" /\ api = "anthropic"
  /\ Break

HangUp ==
  /\ client = "there" /\ ~Over
  /\ client' = "gone"
  /\ Untranslated /\ UNCHANGED <<api, pc, task, out, sent, broken>>

\* The server cancels the generator of a client that is gone.
Cancel ==
  /\ client = "gone" /\ ~Over
  /\ pc' = "last"
  /\ out' = <<>>
  /\ Untranslated /\ UNCHANGED <<api, task, sent, client, broken>>

Next ==
  \/ Yield \/ StartRotation \/ RotationEnds \/ Keepalive \/ Answered \/ Refused
  \/ ReadChunk \/ Translate \/ LoopEnds
  \/ BodyBreaks \/ PhaseBreaks \/ HangUp \/ Cancel

Spec == Init /\ [][Next]_vars

\* The event loop runs whoever can go on, and every wait for the upstream has
\* a timeout: the phase ends and the next chunk, or the end, arrives.
FairSpec ==
  /\ Spec
  /\ WF_vars(RotationEnds)
  /\ WF_vars(Yield \/ StartRotation \/ Answered \/ Refused \/ PhaseBreaks
             \/ ReadChunk \/ Translate \/ LoopEnds)

------------------------------------------------------------------------------
(* Properties.                                                             *)

Sources == {"text"} \cup Call
Item == [of : Sources, index : Nat, data : Seq(Nat)]
Reasons == {"end_turn", "max_tokens", "tool_use"}

Event ==
  [ev : {"opening", "keepalive", "failed"}]
  \cup [ev : {"open"}, of : Sources, index : Nat]
  \cup [ev : {"delta", "stop"}, index : Nat, data : Seq(Nat)]
  \cup [ev : {"end"}, stop : Reasons \cup {"completed"}, items : Seq(Item), usage : Nat]

Todo == [text : BOOLEAN, calls : Seq(Pieces), finish : Finishes \cup {None}]
Reply ==
  [next : Nat, text : Nat \cup {None}, full : Seq(Nat), tools : Seq(Item),
   closed : BOOLEAN, stop : Reasons, usage : Nat]

\* Every variable has its type; a stop_reason is one of the client's
\* protocol, never the upstream's word for it (stop_map).
TypeOK ==
  /\ api \in {"anthropic", "responses"}
  /\ pc \in {"rotating", "reading", "last"}
  /\ task \in {"not started", "running"} \cup Outcomes
  /\ read \in Seq(Chunks)
  /\ todo \in Todo
  /\ reply \in Reply
  /\ out \in Seq(Event)
  /\ sent \in Seq(Event)
  /\ client \in {"there", "gone"} /\ broken \in BOOLEAN

\* The client's view: the indexes it was told of, and how often each of them
\* was announced, filled and closed.
At(s, ev, i) == {k \in DOMAIN s : s[k].ev = ev /\ s[k].index = i}
Count(s, ev, i) == Cardinality(At(s, ev, i))
Tally(s, ev) == Cardinality({k \in DOMAIN s : s[k].ev = ev})

Told(s) == {s[k].index : k \in {j \in DOMAIN s : s[j].ev \in {"open", "delta", "stop"}}}
Blocks(s) ==
  [i \in Told(s) |-> [opens |-> Count(s, "open", i), deltas |-> Count(s, "delta", i),
                      stops |-> Count(s, "stop", i)]]

Wire == INSTANCE EventWire WITH
  blocks <- Blocks(sent), ended <- Tally(sent, "end"), failed <- Tally(sent, "failed")

\* Whatever the chunks carry and wherever the stream is cut, the client sees
\* indexes without holes, words only for open blocks, every block closed once
\* and one terminator after all of it: block_idx and _close_blocks of
\* _stream_anthropic, output_index and _emit_items_done of _stream_responses.
WellFormed == Wire!Spec

SentEvents == {sent[i] : i \in DOMAIN sent}

\* What a chunk has of a source, the text or a call: its words, or its name at
\* least.
Speaks(c, s) ==
  IF s = "text" THEN c.text
  ELSE \E k \in DOMAIN c.calls : c.calls[k].call = s /\ c.calls[k].args
Mentions(c, s) ==
  IF s = "text" THEN c.text ELSE \E k \in DOMAIN c.calls : c.calls[k].call = s

ChunksWith(s) == {n \in DOMAIN read : Speaks(read[n], s)}
Mentioned(s) == \E n \in DOMAIN read : Mentions(read[n], s)

\* The blocks of s, and the events that fill them.
BlocksOf(s) == {e \in SentEvents : e.ev = "open" /\ e.of = s}
Fills(s) ==
  {k \in DOMAIN sent : sent[k].ev = "delta" /\ \E o \in BlocksOf(s) : o.index = sent[k].index}

\* q has the members of S, each once and in their order.
Lists(q, S) ==
  /\ {q[k] : k \in DOMAIN q} = S
  /\ \A j, k \in DOMAIN q : j < k => q[j] < q[k]

\* A client that was told the reply is complete holds one block for the text
\* and one for each call of the upstream, with all its words, each once and in
\* their order, and what /v1/responses repeats at the end (output_text.done,
\* output) is what it had streamed.
EveryWordArrives ==
  \A e \in SentEvents : e.ev = "end" => \A s \in Sources :
    /\ BlocksOf(s) # {} <=> Mentioned(s)
    /\ {sent[k].data : k \in Fills(s)} = {<<n>> : n \in ChunksWith(s)}
    /\ \A j, k \in Fills(s) : j < k => sent[j].data[1] < sent[k].data[1]
    /\ api = "responses" /\ Mentioned(s) =>
         /\ \E k \in DOMAIN e.items : /\ e.items[k].of = s
                                      /\ Lists(e.items[k].data, ChunksWith(s))
         /\ \E o \in BlocksOf(s), x \in SentEvents :
              /\ x.ev = "stop" /\ x.index = o.index
              /\ Lists(x.data, ChunksWith(s))

\* "One terminator, always, whatever the upstream did": a client that stays
\* receives one, unless an exception goes through the generator.
EveryReplyEnds ==
  <>(\/ \E e \in SentEvents : e.ev \in {"end", "failed"}
     \/ client = "gone" \/ broken)
=============================================================================
