----------------------------- MODULE StreamProof -----------------------------
(***************************************************************************)
(* Theorems about ReplyStream, for every set of calls and chunks: the      *)
(* generators keep their types, implement EventWire, and lose no word.     *)
(*                                                                         *)
(* The refinement rests on what may be waiting in `out`: as long as the    *)
(* client is there, what is about to be yielded continues what was sent    *)
(* (Continues), and the indexes handed out are those that were announced   *)
(* (Numbered).  That no word is lost rests on two facts about the blocks:  *)
(* each lists the chunks that had words for it, but for what is left of    *)
(* the last one (Gathered), and all of it was sent or is about to be       *)
(* (Passed).                                                               *)
(***************************************************************************)
EXTENDS ReplyStream, FiniteSetTheorems, SequenceTheorems, TLAPS

-----------------------------------------------------------------------------
(* Types.                                                                  *)

LEMMA ItemsType ==
  ASSUME NEW acc \in Reply
  PROVE  /\ Items(acc) \in Seq(Item)
         /\ acc.text = None => Items(acc) = acc.tools
         /\ acc.text # None =>
              /\ Len(Items(acc)) = Len(acc.tools) + 1
              /\ Items(acc)[1].index = acc.text
              /\ \A k \in 1..Len(acc.tools) : Items(acc)[k + 1] = acc.tools[k]
<1> DEFINE head == [of |-> "text", index |-> acc.text, data |-> acc.full]
<1>0. acc.tools \in Seq(Item) /\ acc.full \in Seq(Nat) /\ acc.text \in Nat \cup {None}
  BY DEF Reply
<1>1. CASE acc.text = None
  <2>1. Items(acc) = acc.tools
    BY <1>0, <1>1 DEF Items
  <2> QED BY <1>0, <1>1, <2>1
<1>2. CASE acc.text # None
  <2>1. head \in Item /\ head.index = acc.text
    BY <1>0, <1>2 DEF Item, Sources
  <2>2. Items(acc) = <<head>> \o acc.tools
    BY <1>2 DEF Items
  <2> HIDE DEF head
  <2>3. /\ <<head>> \o acc.tools \in Seq(Item)
        /\ Len(<<head>> \o acc.tools) = Len(acc.tools) + 1
        /\ (<<head>> \o acc.tools)[1] = head
        /\ \A k \in 1..Len(acc.tools) : (<<head>> \o acc.tools)[k + 1] = acc.tools[k]
    BY <1>0, <2>1
  <2> QED BY <1>2, <2>1, <2>2, <2>3
<1> QED BY <1>1, <1>2

LEMMA StopsType ==
  ASSUME NEW acc \in Reply
  PROVE  /\ Stops(acc) \in Seq(Event)
         /\ Len(Stops(acc)) = Len(Items(acc))
         /\ \A k \in 1..Len(Items(acc)) : /\ Stops(acc)[k].ev = "stop"
                                          /\ Stops(acc)[k].index = Items(acc)[k].index
<1> DEFINE items == Items(acc)
           stop(k) == [ev |-> "stop", index |-> items[k].index,
                       data |-> IF api = "responses" THEN items[k].data ELSE <<>>]
<1>1. items \in Seq(Item)
  BY ItemsType
<1>2. \A k \in DOMAIN items : stop(k) \in Event
  <2> SUFFICES ASSUME NEW k \in DOMAIN items PROVE stop(k) \in Event
    OBVIOUS
  <2>1. items[k] \in Item
    BY <1>1
  <2>2. <<>> \in Seq(Nat)
    OBVIOUS
  <2> QED BY <2>1, <2>2 DEF Event, Item
<1>3. Stops(acc) = [k \in DOMAIN items |-> stop(k)]
  BY DEF Stops
<1>4. DOMAIN items = 1..Len(items) /\ Len(items) \in Nat
  BY <1>1
<1>5. \A k \in DOMAIN items : stop(k).ev = "stop" /\ stop(k).index = items[k].index
  OBVIOUS
<1> HIDE DEF items, stop
<1>6. Stops(acc) \in [1..Len(items) -> Event]
  BY <1>2, <1>3, <1>4
<1> QED BY <1>3, <1>4, <1>5, <1>6 DEF items

LEMMA CompletedType ==
  ASSUME NEW acc \in Reply
  PROVE  Completed(acc) \in Event /\ Completed(acc).ev = "end"
<1>1. Items(acc) \in Seq(Item) /\ <<>> \in Seq(Item)
  BY ItemsType
<1>2. acc.full \in Seq(Nat) /\ acc.usage \in Nat /\ acc.stop \in Reasons
  BY DEF Reply
<1>3. Len(acc.full) \div 4 \in Nat
  <2>1. Len(acc.full) \in Nat
    BY <1>2
  <2>2. \A n \in Nat : n \div 4 \in Nat
    OBVIOUS
  <2> QED BY <2>1, <2>2
<1> DEFINE stop == IF api = "responses" THEN "completed" ELSE acc.stop
           items == IF api = "responses" THEN Items(acc) ELSE <<>>
           usage == IF api = "anthropic" /\ acc.usage = 0 THEN Len(acc.full) \div 4
                    ELSE acc.usage
<1>4. stop \in Reasons \cup {"completed"} /\ items \in Seq(Item) /\ usage \in Nat
  BY <1>1, <1>2, <1>3
<1>5. Completed(acc) = [ev |-> "end", stop |-> stop, items |-> items, usage |-> usage]
  BY DEF Completed
<1> HIDE DEF stop, items, usage
<1> QED BY <1>4, <1>5 DEF Event

LEMMA FarewellType ==
  ASSUME NEW acc \in Reply
  PROVE  /\ Farewell(acc) \in Seq(Event)
         /\ acc.closed => Farewell(acc) = <<Completed(acc)>>
         /\ ~acc.closed =>
              /\ Len(Farewell(acc)) = Len(Items(acc)) + 1
              /\ \A k \in 1..Len(Items(acc)) : Farewell(acc)[k] = Stops(acc)[k]
              /\ Farewell(acc)[Len(Items(acc)) + 1] = Completed(acc)
<1>1. Completed(acc) \in Event
  BY CompletedType
<1>2. Stops(acc) \in Seq(Event) /\ Len(Stops(acc)) = Len(Items(acc))
  BY StopsType
<1>3. CASE acc.closed
  <2>1. Farewell(acc) = <<Completed(acc)>>
    BY <1>1, <1>3 DEF Farewell
  <2> QED BY <1>1, <1>3, <2>1
<1>4. CASE ~acc.closed
  <2>1. Farewell(acc) = Stops(acc) \o <<Completed(acc)>>
    BY <1>4 DEF Farewell
  <2> QED BY <1>1, <1>2, <1>4, <2>1
<1> QED BY <1>3, <1>4

\* The variables of a reply that is being translated keep their types.
Translating == todo \in Todo /\ reply \in Reply /\ out \in Seq(Event)

\* One event, whatever it is.
LEMMA SingleEvent ==
  /\ \A ev \in {"opening", "keepalive", "failed"} : <<[ev |-> ev]>> \in Seq(Event)
  /\ \A of \in Sources, i \in Nat : Opened(of, i) \in Seq(Event)
  /\ \A i \in Nat, n \in Nat : Delta(i, n) \in Seq(Event)
<1>1. \A ev \in {"opening", "keepalive", "failed"} : [ev |-> ev] \in Event
  BY DEF Event
<1>2. \A of \in Sources, i \in Nat : [ev |-> "open", of |-> of, index |-> i] \in Event
  BY DEF Event
<1>3. \A i \in Nat, n \in Nat : [ev |-> "delta", index |-> i, data |-> <<n>>] \in Event
  <2> TAKE i \in Nat, n \in Nat
  <2>1. <<n>> \in Seq(Nat)
    OBVIOUS
  <2> QED BY <2>1 DEF Event
<1>4. \A e \in Event : <<e>> \in Seq(Event)
  OBVIOUS
<1> QED BY <1>1, <1>2, <1>3, <1>4 DEF Opened, Delta

LEMMA TranslateType ==
  ASSUME TypeOK, Translate
  PROVE  Translating'
<1>0. todo \in Todo /\ reply \in Reply /\ out \in Seq(Event) /\ read \in Seq(Chunks)
  BY DEF TypeOK, Todo, Reply
<1>1. /\ reply.next \in Nat /\ reply.text \in Nat \cup {None}
      /\ reply.full \in Seq(Nat) /\ reply.tools \in Seq(Item)
      /\ todo.calls \in Seq(Pieces) /\ Len(read) \in Nat
  BY <1>0 DEF Reply, Todo
<1>2. CASE OpenText
  <2>1. reply' = [reply EXCEPT !.text = reply.next, !.next = reply.next + 1]
    BY <1>2 DEF OpenText
  <2>2. reply' \in Reply
    <3>1. reply.next + 1 \in Nat
      BY <1>1
    <3> QED BY <1>0, <1>1, <2>1, <3>1 DEF Reply
  <2>3. out' \in Seq(Event)
    BY <1>1, <1>2, SingleEvent DEF OpenText, Sources
  <2> QED BY <1>0, <1>2, <2>2, <2>3 DEF OpenText, Translating
<1>3. CASE WriteText
  <2>1. reply' = [reply EXCEPT !.full = Append(reply.full, Len(read))]
    BY <1>3 DEF WriteText
  <2>2. Append(reply.full, Len(read)) \in Seq(Nat)
    BY <1>1
  <2>3. reply' \in Reply
    BY <1>0, <2>1, <2>2 DEF Reply
  <2>4. out' \in Seq(Event)
    BY <1>1, <1>3, SingleEvent DEF WriteText
  <2>5. todo' \in Todo
    BY <1>0, <1>3 DEF WriteText, Todo
  <2> QED BY <2>3, <2>4, <2>5 DEF Translating
<1>4. CASE OpenCall
  <2> DEFINE call == Head(todo.calls).call
             tool == [of |-> call, index |-> reply.next, data |-> <<>>]
  <2>1. Head(todo.calls) \in Pieces
    BY <1>1, <1>4 DEF OpenCall, Calling
  <2>2. call \in Call
    BY <2>1 DEF Pieces
  <2>3. tool \in Item
    <3>1. <<>> \in Seq(Nat)
      OBVIOUS
    <3> QED BY <1>1, <2>2, <3>1 DEF Item, Sources
  <2>4. reply' = [reply EXCEPT !.tools = Append(reply.tools, tool), !.next = reply.next + 1]
    BY <1>4 DEF OpenCall
  <2>5. out' = Opened(call, reply.next) /\ todo' = todo
    BY <1>4 DEF OpenCall
  <2> HIDE DEF tool, call
  <2>6. Append(reply.tools, tool) \in Seq(Item)
    BY <1>1, <2>3
  <2>7. reply' \in Reply
    <3>1. reply.next + 1 \in Nat
      BY <1>1
    <3> QED BY <1>0, <2>4, <2>6, <3>1 DEF Reply
  <2>8. out' \in Seq(Event)
    BY <1>1, <2>2, <2>5, SingleEvent DEF Sources
  <2> QED BY <1>0, <2>5, <2>7, <2>8 DEF Translating
<1>5. CASE WriteCall
  <2>1. todo' \in Todo
    <3>1. todo' = [todo EXCEPT !.calls = Tail(todo.calls)]
      BY <1>5 DEF WriteCall
    <3>2. Tail(todo.calls) \in Seq(Pieces)
      BY <1>1, <1>5 DEF WriteCall, Calling
    <3> QED BY <1>0, <3>1, <3>2 DEF Todo
  <2>2. CASE UNCHANGED <<reply, out>>
    BY <1>0, <2>1, <2>2 DEF Translating
  <2>3. ASSUME NEW k \in DOMAIN reply.tools,
               reply' = [reply EXCEPT !.tools[k].data = Append(@, Len(read))],
               out' = Delta(reply.tools[k].index, Len(read))
        PROVE  Translating'
    <3>1. reply.tools[k] \in Item
      BY <1>1
    <3>2. reply.tools[k].index \in Nat /\ reply.tools[k].data \in Seq(Nat)
      BY <3>1 DEF Item
    <3> DEFINE tool == [reply.tools[k] EXCEPT !.data = Append(reply.tools[k].data, Len(read))]
    <3>3. Append(reply.tools[k].data, Len(read)) \in Seq(Nat)
      BY <1>1, <3>2
    <3>4. tool \in Item
      BY <3>1, <3>3 DEF Item
    <3>5. reply' = [reply EXCEPT !.tools = [reply.tools EXCEPT ![k] = tool]]
      BY <2>3
    <3> HIDE DEF tool
    <3>6. [reply.tools EXCEPT ![k] = tool] \in Seq(Item)
      BY <1>1, <3>4
    <3>7. reply' \in Reply
      BY <1>0, <3>5, <3>6 DEF Reply
    <3>8. out' \in Seq(Event)
      BY <1>1, <2>3, <3>2, SingleEvent
    <3> QED BY <2>1, <3>7, <3>8 DEF Translating
  <2> QED BY <1>5, <2>2, <2>3 DEF WriteCall
<1>6. CASE Finish
  <2>1. todo' \in Todo
    <3>1. <<>> \in Seq(Pieces)
      OBVIOUS
    <3> QED BY <1>6, <3>1 DEF Finish, Done, Todo
  <2>2. CASE UNCHANGED <<reply, out>>
    BY <1>0, <2>1, <2>2 DEF Translating
  <2>3. CASE reply' = [reply EXCEPT !.closed = TRUE, !.stop = StopReason(todo.finish)]
             /\ out' = Stops(reply)
    <3>1. StopReason(todo.finish) \in Reasons
      BY DEF StopReason, Reasons
    <3>2. reply' \in Reply
      BY <1>0, <2>3, <3>1 DEF Reply
    <3> QED BY <1>0, <2>1, <2>3, <3>2, StopsType DEF Translating
  <2> QED BY <1>6, <2>2, <2>3 DEF Finish
<1> QED BY <1>2, <1>3, <1>4, <1>5, <1>6 DEF Translate

\* The others.
Surroundings ==
  /\ api \in {"anthropic", "responses"}
  /\ pc \in {"rotating", "reading", "last"}
  /\ task \in {"not started", "running"} \cup Outcomes
  /\ read \in Seq(Chunks)
  /\ sent \in Seq(Event)
  /\ client \in {"there", "gone"} /\ broken \in BOOLEAN

LEMMA TypeInv == TypeOK /\ [Next]_vars => TypeOK'
<1> SUFFICES ASSUME TypeOK, [Next]_vars PROVE TypeOK'
  OBVIOUS
<1>0. Translating /\ Surroundings
  BY DEF TypeOK, Translating, Todo, Reply, Surroundings
<1> SUFFICES Translating' /\ Surroundings'
  BY DEF TypeOK, Translating, Todo, Reply, Surroundings
<1>1. CASE Yield
  <2>1. Tail(out) \in Seq(Event) /\ Head(out) \in Event
    BY <1>0, <1>1 DEF Yield, Translating
  <2>2. Append(sent, Head(out)) \in Seq(Event)
    <3>1. sent \in Seq(Event)
      BY <1>0 DEF Surroundings
    <3> QED BY <2>1, <3>1
  <2>3. Translating'
    BY <1>0, <1>1, <2>1 DEF Yield, Untranslated, Translating
  <2>4. sent' \in Seq(Event)
    BY <1>0, <1>1, <2>2 DEF Yield, Surroundings
  <2> QED BY <1>0, <1>1, <2>3, <2>4 DEF Yield, Untranslated, Surroundings
<1>2. CASE StartRotation \/ RotationEnds \/ Answered \/ HangUp \/ BodyBreaks \/ PhaseBreaks
  <2>1. UNCHANGED <<todo, reply, out>>
    BY <1>2 DEF StartRotation, RotationEnds, Answered, HangUp, BodyBreaks, PhaseBreaks, Break,
                Untranslated
  <2>2. Surroundings'
    BY <1>0, <1>2 DEF StartRotation, RotationEnds, Answered, HangUp, BodyBreaks, PhaseBreaks,
                      Break, Untranslated, Surroundings, Outcomes
  <2> QED BY <1>0, <2>1, <2>2 DEF Translating
<1>3. CASE Keepalive \/ Refused
  <2>1. out' \in Seq(Event) /\ UNCHANGED <<todo, reply>>
    BY <1>3, SingleEvent DEF Keepalive, Refused, Untranslated
  <2>2. Surroundings'
    BY <1>0, <1>3 DEF Keepalive, Refused, Untranslated, Surroundings
  <2> QED BY <1>0, <2>1, <2>2 DEF Translating
<1>4. CASE ReadChunk
  <2>1. PICK c \in Chunks :
          /\ todo' = [text |-> c.text, calls |-> c.calls, finish |-> c.finish]
          /\ reply' = Usage(reply, c)
          /\ read' = Append(read, c)
    BY <1>4 DEF ReadChunk
  <2>2. c \in Chunk
    BY StreamConstants
  <2>3. todo' \in Todo
    BY <2>1, <2>2 DEF Chunk, Todo
  <2>4. reply' \in Reply
    BY <1>0, <2>1, <2>2 DEF Usage, Reply, Chunk, Translating
  <2>5. read' \in Seq(Chunks)
    <3>1. read \in Seq(Chunks)
      BY <1>0 DEF Surroundings
    <3>2. Append(read, c) \in Seq(Chunks)
      BY <3>1
    <3> QED BY <2>1, <3>2
  <2>6. UNCHANGED <<api, pc, task, out, sent, client, broken>>
    BY <1>4 DEF ReadChunk
  <2> QED BY <1>0, <2>3, <2>4, <2>5, <2>6 DEF Translating, Surroundings
<1>5. CASE Translate
  <2>1. Translating'
    BY <1>5, TranslateType
  <2>2. KeepRest
    BY <1>5 DEF Translate, OpenText, WriteText, OpenCall, WriteCall, Finish
  <2> QED BY <1>0, <2>1, <2>2 DEF KeepRest, Surroundings
<1>6. CASE LoopEnds
  <2>1. out' \in Seq(Event)
    BY <1>0, <1>6, FarewellType DEF LoopEnds, Translating
  <2> QED BY <1>0, <1>6, <2>1 DEF LoopEnds, Untranslated, Translating, Surroundings
<1>7. CASE Cancel
  <2>1. <<>> \in Seq(Event)
    OBVIOUS
  <2> QED BY <1>0, <1>7, <2>1 DEF Cancel, Untranslated, Translating, Surroundings
<1>8. CASE UNCHANGED vars
  BY <1>0, <1>8 DEF vars, Translating, Surroundings
<1> QED BY <1>1, <1>2, <1>3, <1>4, <1>5, <1>6, <1>7, <1>8 DEF Next

LEMMA TypeInit == Init => TypeOK
<1> SUFFICES ASSUME Init PROVE TypeOK
  OBVIOUS
<1>1. /\ <<>> \in Seq(Chunks) /\ <<>> \in Seq(Pieces) /\ <<>> \in Seq(Nat)
      /\ <<>> \in Seq(Item) /\ <<>> \in Seq(Event)
  OBVIOUS
<1>2. todo \in Todo
  BY <1>1 DEF Init, Done, Todo
<1>3. reply \in Reply
  BY <1>1 DEF Init, Empty, Reply, Reasons
<1>4. out \in Seq(Event)
  BY SingleEvent DEF Init
<1> QED BY <1>1, <1>2, <1>3, <1>4 DEF Init, TypeOK, Todo, Reply

\* Whatever the chunks are, the variables keep their types: every event is one
\* of the client's protocol, with one of its reasons to stop.
THEOREM Typed == Spec => []TypeOK
BY TypeInit, TypeInv, PTL DEF Spec

-----------------------------------------------------------------------------
(* The invariant.                                                          *)

Has(s, ev, i) == \E k \in DOMAIN s : s[k].ev = ev /\ s[k].index = i
Ended(s) == \E k \in DOMAIN s : s[k].ev \in {"end", "failed"}

\* What a client that was sent s may be sent after it.
Follows(s, o, k) ==
  /\ o[k].ev \in {"keepalive", "open", "delta"} => Len(o) = 1
  /\ o[k].ev = "open" => \A i \in Nat : Has(s, "open", i) <=> i < o[k].index
  /\ o[k].ev \in {"delta", "stop"} =>
       Has(s, "open", o[k].index) /\ ~Has(s, "stop", o[k].index)
  /\ o[k].ev \in {"end", "failed"} => k = Len(o)
  /\ o[k].ev = "end" =>
       \A i \in Nat : Has(s, "open", i) => Has(s, "stop", i) \/ Has(o, "stop", i)
  /\ o[k].ev = "failed" => \A i \in Nat : ~Has(s, "open", i)

ClosesOnce(o) ==
  \A j, k \in DOMAIN o :
    o[j].ev = "stop" /\ o[k].ev = "stop" /\ o[j].index = o[k].index => j = k

Continues(s, o) ==
  /\ o # <<>> => ~Ended(s)
  /\ ClosesOnce(o)
  /\ \A k \in DOMAIN o : Follows(s, o, k)

\* The blocks have the indexes 0, 1, ..., each has one of its own; a reply that
\* is closed has no words left, and one that is not begun has no blocks.
Numbered(acc) ==
  /\ acc.text # None => /\ acc.text < acc.next
                        /\ \A k \in DOMAIN acc.tools : acc.tools[k].index # acc.text
  /\ \A k \in DOMAIN acc.tools : acc.tools[k].index < acc.next
  /\ \A j, k \in DOMAIN acc.tools : acc.tools[j].index = acc.tools[k].index => j = k
  /\ \A i \in Nat : i < acc.next =>
       i = acc.text \/ \E k \in DOMAIN acc.tools : acc.tools[k].index = i

Phases ==
  /\ reply.closed => ~todo.text /\ todo.calls = <<>>
  /\ pc = "rotating" => reply.next = 0

\* What was announced and what was closed, sent or about to be.
Announces ==
  \A i \in Nat : (Has(sent, "open", i) \/ Has(out, "open", i)) <=> i < reply.next

Closes ==
  /\ ~Ended(sent) /\ ~Ended(out)
  /\ \A i \in Nat :
       (Has(sent, "stop", i) \/ Has(out, "stop", i)) <=> (reply.closed /\ i < reply.next)

\* What was sent so far.
Orderly(s) ==
  /\ \A i \in Nat : Has(s, "delta", i) \/ Has(s, "stop", i) => Has(s, "open", i)
  /\ \A i \in Nat : Has(s, "stop", i) => Count(s, "stop", i) = 1

Heard ==
  /\ Continues(sent, out)
  /\ Orderly(sent)
  /\ Announces
  /\ pc # "last" => Closes

StreamInv ==
  /\ Numbered(reply)
  /\ Phases
  /\ client = "there" => Heard

-----------------------------------------------------------------------------
(* Lemmas: sequences of events.                                            *)

\* What is appended to what was sent.
LEMMA Appended ==
  ASSUME NEW s \in Seq(Event), NEW e \in Event
  PROVE  /\ Append(s, e) \in Seq(Event)
         /\ \A ev, i : Has(Append(s, e), ev, i) <=> Has(s, ev, i) \/ (e.ev = ev /\ e.index = i)
         /\ Ended(Append(s, e)) <=> Ended(s) \/ e.ev \in {"end", "failed"}
<1> DEFINE t == Append(s, e)
<1>1. /\ t \in Seq(Event) /\ Len(s) \in Nat /\ Len(t) = Len(s) + 1
      /\ t[Len(s) + 1] = e /\ \A k \in 1..Len(s) : t[k] = s[k]
  OBVIOUS
<1>2. DOMAIN t = 1..(Len(s) + 1) /\ DOMAIN s = 1..Len(s)
  BY <1>1
<1> HIDE DEF t
<1>3. DOMAIN t = DOMAIN s \cup {Len(s) + 1}
  BY <1>1, <1>2
<1>4. \A k \in DOMAIN s : t[k] = s[k]
  BY <1>1, <1>2
<1>5. \A ev, i : Has(t, ev, i) <=> Has(s, ev, i) \/ (e.ev = ev /\ e.index = i)
  BY <1>1, <1>3, <1>4 DEF Has
<1>6. Ended(t) <=> Ended(s) \/ e.ev \in {"end", "failed"}
  BY <1>1, <1>3, <1>4 DEF Ended
<1> QED BY <1>1, <1>5, <1>6 DEF t

\* A queue is its head and its tail.
LEMMA HeadAndTail ==
  ASSUME NEW o \in Seq(Event), o # <<>>
  PROVE  /\ Head(o) \in Event /\ Tail(o) \in Seq(Event) /\ Head(o) = o[1] /\ 1 \in DOMAIN o
         /\ Len(o) \in Nat /\ Len(Tail(o)) = Len(o) - 1
         /\ \A k \in DOMAIN Tail(o) : k + 1 \in DOMAIN o /\ Tail(o)[k] = o[k + 1] /\ k \in Nat
                                      /\ k # 0
         /\ \A ev, i : Has(o, ev, i) <=> (Head(o).ev = ev /\ Head(o).index = i)
                                          \/ Has(Tail(o), ev, i)
         /\ Ended(o) <=> Head(o).ev \in {"end", "failed"} \/ Ended(Tail(o))
<1> DEFINE t == Tail(o)
<1>1. /\ Head(o) \in Event /\ t \in Seq(Event) /\ Head(o) = o[1]
      /\ Len(o) \in Nat /\ Len(o) # 0 /\ Len(t) = Len(o) - 1
      /\ \A k \in 1..Len(t) : t[k] = o[k + 1]
  OBVIOUS
<1>2. DOMAIN t = 1..(Len(o) - 1) /\ DOMAIN o = 1..Len(o)
  BY <1>1
<1> HIDE DEF t
<1>3. \A k \in DOMAIN t : k + 1 \in DOMAIN o /\ t[k] = o[k + 1] /\ k \in Nat /\ k # 0
  BY <1>1, <1>2
<1>4. 1 \in DOMAIN o /\ \A k \in DOMAIN o : k # 1 => k - 1 \in DOMAIN t /\ t[k - 1] = o[k]
  BY <1>1, <1>2
<1>5. \A ev, i : Has(o, ev, i) <=> (Head(o).ev = ev /\ Head(o).index = i) \/ Has(t, ev, i)
  <2> TAKE ev, i
  <2>1. ASSUME Has(o, ev, i) PROVE (Head(o).ev = ev /\ Head(o).index = i) \/ Has(t, ev, i)
    <3>1. PICK k \in DOMAIN o : o[k].ev = ev /\ o[k].index = i
      BY <2>1 DEF Has
    <3>2. CASE k = 1
      BY <1>1, <3>1, <3>2
    <3>3. CASE k # 1
      BY <1>4, <3>1, <3>3 DEF Has
    <3> QED BY <3>2, <3>3
  <2>2. ASSUME Has(t, ev, i) PROVE Has(o, ev, i)
    BY <1>3, <2>2 DEF Has
  <2>3. ASSUME Head(o).ev = ev, Head(o).index = i PROVE Has(o, ev, i)
    BY <1>1, <1>4, <2>3 DEF Has
  <2> QED BY <2>1, <2>2, <2>3
<1>6. Ended(o) <=> Head(o).ev \in {"end", "failed"} \/ Ended(t)
  <2>1. ASSUME Ended(o) PROVE Head(o).ev \in {"end", "failed"} \/ Ended(t)
    <3>1. PICK k \in DOMAIN o : o[k].ev \in {"end", "failed"}
      BY <2>1 DEF Ended
    <3>2. CASE k = 1
      BY <1>1, <3>1, <3>2
    <3>3. CASE k # 1
      BY <1>4, <3>1, <3>3 DEF Ended
    <3> QED BY <3>2, <3>3
  <2>2. ASSUME Ended(t) PROVE Ended(o)
    BY <1>3, <2>2 DEF Ended
  <2>3. ASSUME Head(o).ev \in {"end", "failed"} PROVE Ended(o)
    BY <1>1, <1>4, <2>3 DEF Ended
  <2> QED BY <2>1, <2>2, <2>3
<1> QED BY <1>1, <1>3, <1>4, <1>5, <1>6 DEF t

LEMMA Nothing ==
  /\ \A ev, i : ~Has(<<>>, ev, i)
  /\ ~Ended(<<>>)
  /\ \A s : Continues(s, <<>>)
BY DEF Has, Ended, Continues, ClosesOnce

\* A queue of one event.
LEMMA One ==
  ASSUME NEW e, NEW s
  PROVE  /\ \A ev, i : Has(<<e>>, ev, i) <=> e.ev = ev /\ e.index = i
         /\ Ended(<<e>>) <=> e.ev \in {"end", "failed"}
         /\ Continues(s, <<e>>) <=> ~Ended(s) /\ Follows(s, <<e>>, 1)
<1>1. DOMAIN <<e>> = {1} /\ <<e>>[1] = e /\ <<e>> # <<>>
  OBVIOUS
<1> QED BY <1>1 DEF Has, Ended, Continues, ClosesOnce

\* What continues goes on continuing when its first event is sent.
LEMMA GoesOn ==
  ASSUME NEW s \in Seq(Event), NEW o \in Seq(Event), o # <<>>, Continues(s, o)
  PROVE  /\ Follows(s, o, 1)
         /\ Head(o).ev = "keepalive" => Tail(o) = <<>>
         /\ Head(o).ev # "keepalive" => Continues(Append(s, Head(o)), Tail(o))
<1> DEFINE e == Head(o)
           t == Tail(o)
           s1 == Append(s, e)
<1>0. /\ e \in Event /\ t \in Seq(Event) /\ e = o[1] /\ 1 \in DOMAIN o
      /\ Len(o) \in Nat /\ Len(t) = Len(o) - 1
      /\ \A k \in DOMAIN t : k + 1 \in DOMAIN o /\ t[k] = o[k + 1] /\ k \in Nat /\ k # 0
      /\ \A ev, i : Has(o, ev, i) <=> (e.ev = ev /\ e.index = i) \/ Has(t, ev, i)
  BY HeadAndTail
<1>1. Follows(s, o, 1)
  BY <1>0 DEF Continues
<1>2. \A k \in DOMAIN t : Len(o) # 1
  BY <1>0
<1>3. e.ev = "keepalive" => t = <<>>
  <2>1. e.ev = "keepalive" => Len(t) = 0
    BY <1>0, <1>1 DEF Follows
  <2> QED BY <1>0, <2>1
<1>4. ASSUME e.ev # "keepalive" PROVE Continues(s1, t)
  <2>1. /\ \A ev, i : Has(s1, ev, i) <=> Has(s, ev, i) \/ (e.ev = ev /\ e.index = i)
        /\ Ended(s1) <=> Ended(s) \/ e.ev \in {"end", "failed"}
    BY <1>0, Appended
  <2> HIDE DEF e, t, s1
  <2>2. t # <<>> => ~Ended(s1)
    <3>1. t # <<>> => Len(t) # 0
      BY <1>0
    <3>2. t # <<>> => e.ev \notin {"end", "failed"}
      BY <1>0, <1>1, <3>1 DEF Follows
    <3> QED BY <2>1, <3>2 DEF Continues
  <2>3. ClosesOnce(t)
    <3> SUFFICES ASSUME NEW j \in DOMAIN t, NEW k \in DOMAIN t, t[j].ev = "stop",
                        t[k].ev = "stop", t[j].index = t[k].index
                 PROVE  j = k
      BY DEF ClosesOnce
    <3>1. j + 1 = k + 1
      BY <1>0 DEF Continues, ClosesOnce
    <3> QED BY <1>0, <3>1
  <2>4. ASSUME NEW k \in DOMAIN t PROVE Follows(s1, t, k)
    <3>1. /\ k + 1 \in DOMAIN o /\ t[k] = o[k + 1] /\ k \in Nat /\ k # 0 /\ Len(o) # 1
      BY <1>0, <1>2
    <3>2. Follows(s, o, k + 1)
      BY <3>1 DEF Continues
    <3>3. t[k].ev \notin {"keepalive", "open", "delta"} /\ e.ev \notin {"open", "delta"}
      BY <1>0, <1>1, <3>1, <3>2 DEF Follows
    <3>4. t[k].ev = "stop" => ~(e.ev = "stop" /\ e.index = t[k].index)
      <4>1. k + 1 # 1
        BY <3>1
      <4> QED BY <1>0, <3>1, <4>1 DEF Continues, ClosesOnce
    <3>5. t[k].ev = "stop" => Has(s1, "open", t[k].index) /\ ~Has(s1, "stop", t[k].index)
      BY <2>1, <3>1, <3>2, <3>4 DEF Follows
    <3>6. t[k].ev \in {"end", "failed"} => k = Len(t)
      BY <1>0, <3>1, <3>2 DEF Follows
    <3>7. ASSUME t[k].ev = "end", NEW i \in Nat, Has(s1, "open", i)
          PROVE  Has(s1, "stop", i) \/ Has(t, "stop", i)
      <4>1. Has(s, "open", i)
        BY <2>1, <3>3, <3>7
      <4>2. Has(s, "stop", i) \/ Has(o, "stop", i)
        BY <3>1, <3>2, <3>7, <4>1 DEF Follows
      <4> QED BY <1>0, <2>1, <4>2
    <3>8. ASSUME t[k].ev = "failed", NEW i \in Nat PROVE ~Has(s1, "open", i)
      BY <2>1, <3>1, <3>2, <3>3, <3>8 DEF Follows
    <3> QED BY <3>3, <3>5, <3>6, <3>7, <3>8 DEF Follows
  <2> QED BY <2>2, <2>3, <2>4 DEF Continues
<1> QED BY <1>1, <1>3, <1>4

LEMMA Counted ==
  ASSUME NEW s \in Seq(Event), NEW e \in Event
  PROVE  \A ev, i :
           /\ Count(s, ev, i) \in Nat
           /\ Count(s, ev, i) = 0 <=> ~Has(s, ev, i)
           /\ Count(Append(s, e), ev, i) = IF e.ev = ev /\ e.index = i THEN Count(s, ev, i) + 1
                                           ELSE Count(s, ev, i)
<1> DEFINE t == Append(s, e)
<1>1. /\ t \in Seq(Event) /\ Len(s) \in Nat /\ Len(t) = Len(s) + 1
      /\ t[Len(s) + 1] = e /\ \A k \in 1..Len(s) : t[k] = s[k]
  OBVIOUS
<1>2. DOMAIN t = 1..(Len(s) + 1) /\ DOMAIN s = 1..Len(s)
  BY <1>1
<1> HIDE DEF t
<1>3. DOMAIN t = DOMAIN s \cup {Len(s) + 1} /\ Len(s) + 1 \notin DOMAIN s
  BY <1>1, <1>2
<1> SUFFICES ASSUME NEW ev, NEW i
             PROVE  /\ Count(s, ev, i) \in Nat
                    /\ Count(s, ev, i) = 0 <=> ~Has(s, ev, i)
                    /\ Count(t, ev, i) = IF e.ev = ev /\ e.index = i THEN Count(s, ev, i) + 1
                                         ELSE Count(s, ev, i)
  BY DEF t
<1>4. IsFiniteSet(At(s, ev, i))
  <2>1. IsFiniteSet(1..Len(s))
    BY <1>1, FS_Interval
  <2>2. At(s, ev, i) \subseteq 1..Len(s)
    BY <1>2 DEF At
  <2> QED BY <2>1, <2>2, FS_Subset
<1>5. Cardinality(At(s, ev, i)) \in Nat /\ (Cardinality(At(s, ev, i)) = 0 <=> At(s, ev, i) = {})
  BY <1>4, FS_CardinalityType, FS_EmptySet
<1>6. At(s, ev, i) = {} <=> ~Has(s, ev, i)
  BY DEF At, Has
<1>7. CASE e.ev = ev /\ e.index = i
  <2>1. At(t, ev, i) = At(s, ev, i) \cup {Len(s) + 1}
    BY <1>1, <1>2, <1>3, <1>7 DEF At
  <2>2. Len(s) + 1 \notin At(s, ev, i)
    BY <1>3 DEF At
  <2>3. Cardinality(At(t, ev, i)) = Cardinality(At(s, ev, i)) + 1
    BY <1>4, <2>1, <2>2, FS_AddElement
  <2> QED BY <1>5, <1>6, <1>7, <2>3 DEF Count
<1>8. CASE ~(e.ev = ev /\ e.index = i)
  <2>1. At(t, ev, i) = At(s, ev, i)
    BY <1>1, <1>2, <1>3, <1>8 DEF At
  <2> QED BY <1>5, <1>6, <1>8, <2>1 DEF Count
<1> QED BY <1>7, <1>8

-----------------------------------------------------------------------------
(* Lemmas: the blocks of a reply.                                          *)

LEMMA ItemsNumbered ==
  ASSUME NEW acc \in Reply, Numbered(acc)
  PROVE  /\ \A k \in DOMAIN Items(acc) : /\ Items(acc)[k].index \in Nat
                                         /\ Items(acc)[k].index < acc.next
         /\ \A j, k \in DOMAIN Items(acc) : Items(acc)[j].index = Items(acc)[k].index => j = k
         /\ \A i \in Nat : i < acc.next => \E k \in DOMAIN Items(acc) : Items(acc)[k].index = i
<1> DEFINE items == Items(acc)
<1>0. /\ acc.tools \in Seq(Item) /\ acc.text \in Nat \cup {None} /\ acc.next \in Nat
      /\ None \notin Nat /\ items \in Seq(Item)
  BY ItemsType, StreamConstants DEF Reply
<1>1. \A k \in DOMAIN items : items[k].index \in Nat
  <2> HIDE DEF items
  <2> TAKE k \in DOMAIN items
  <2>1. items[k] \in Item
    BY <1>0
  <2> QED BY <2>1 DEF Item
<1>2. CASE acc.text = None
  <2>1. items = acc.tools
    BY <1>2, ItemsType
  <2> QED BY <1>0, <1>1, <1>2, <2>1 DEF Numbered
<1>3. CASE acc.text # None
  <2>1. /\ Len(items) = Len(acc.tools) + 1
        /\ items[1].index = acc.text
        /\ \A k \in 1..Len(acc.tools) : items[k + 1] = acc.tools[k]
    BY <1>3, ItemsType
  <2> HIDE DEF items
  <2>2. /\ DOMAIN acc.tools = 1..Len(acc.tools) /\ Len(acc.tools) \in Nat
        /\ DOMAIN items = 1..(Len(acc.tools) + 1)
    BY <1>0, <2>1
  <2>3. \A k \in DOMAIN items : k = 1 \/ (k - 1 \in DOMAIN acc.tools /\ items[k] = acc.tools[k - 1])
    <3> TAKE k \in DOMAIN items
    <3>1. k # 1 => k - 1 \in 1..Len(acc.tools) /\ (k - 1) + 1 = k
      BY <2>2
    <3> QED BY <2>1, <2>2, <3>1
  <2>4. \A k \in DOMAIN items : items[k].index < acc.next
    BY <1>3, <2>1, <2>3 DEF Numbered
  <2>5. ASSUME NEW j \in DOMAIN items, NEW k \in DOMAIN items, items[j].index = items[k].index
        PROVE  j = k
    <3>1. CASE j = 1 /\ k = 1
      BY <3>1
    <3>2. CASE j = 1 /\ k # 1
      BY <1>3, <2>1, <2>3, <2>5, <3>2 DEF Numbered
    <3>3. CASE j # 1 /\ k = 1
      BY <1>3, <2>1, <2>3, <2>5, <3>3 DEF Numbered
    <3>4. CASE j # 1 /\ k # 1
      <4>1. j - 1 = k - 1
        BY <2>3, <2>5, <3>4 DEF Numbered
      <4> QED BY <2>2, <4>1
    <3> QED BY <3>1, <3>2, <3>3, <3>4
  <2>6. ASSUME NEW i \in Nat, i < acc.next PROVE \E k \in DOMAIN items : items[k].index = i
    <3>1. CASE i = acc.text
      <4>1. 1 \in DOMAIN items
        BY <2>2
      <4> QED BY <2>1, <3>1, <4>1
    <3>2. CASE \E k \in DOMAIN acc.tools : acc.tools[k].index = i
      <4>1. PICK k \in DOMAIN acc.tools : acc.tools[k].index = i
        BY <3>2
      <4>2. k + 1 \in DOMAIN items /\ items[k + 1] = acc.tools[k]
        BY <2>1, <2>2
      <4> QED BY <4>1, <4>2
    <3> QED BY <2>6, <3>1, <3>2 DEF Numbered
  <2> QED BY <1>1, <2>4, <2>5, <2>6 DEF items
<1> QED BY <1>2, <1>3

\* The events that close all blocks: each index, once.
LEMMA StopsNumbered ==
  ASSUME NEW acc \in Reply, Numbered(acc)
  PROVE  /\ \A k \in DOMAIN Stops(acc) : /\ Stops(acc)[k].ev = "stop"
                                         /\ Stops(acc)[k].index \in Nat
                                         /\ Stops(acc)[k].index < acc.next
         /\ ClosesOnce(Stops(acc))
         /\ \A i \in Nat : Has(Stops(acc), "stop", i) <=> i < acc.next
         /\ \A i : ~Has(Stops(acc), "open", i)
         /\ ~Ended(Stops(acc))
<1> DEFINE items == Items(acc)
           stops == Stops(acc)
<1>1. /\ stops \in Seq(Event) /\ items \in Seq(Item) /\ Len(stops) = Len(items)
      /\ \A k \in 1..Len(items) : stops[k].ev = "stop" /\ stops[k].index = items[k].index
  BY StopsType, ItemsType
<1>2. /\ \A k \in DOMAIN items : items[k].index \in Nat /\ items[k].index < acc.next
      /\ \A j, k \in DOMAIN items : items[j].index = items[k].index => j = k
      /\ \A i \in Nat : i < acc.next => \E k \in DOMAIN items : items[k].index = i
  BY ItemsNumbered
<1> HIDE DEF items, stops
<1>3. DOMAIN stops = DOMAIN items /\ DOMAIN items = 1..Len(items)
  BY <1>1
<1>4. \A k \in DOMAIN stops : /\ stops[k].ev = "stop" /\ stops[k].index = items[k].index
                              /\ stops[k].index \in Nat /\ stops[k].index < acc.next
  BY <1>1, <1>2, <1>3
<1>5. ClosesOnce(stops)
  BY <1>2, <1>3, <1>4 DEF ClosesOnce
<1>6. \A i \in Nat : Has(stops, "stop", i) <=> i < acc.next
  BY <1>2, <1>3, <1>4 DEF Has
<1>7. (\A i : ~Has(stops, "open", i)) /\ ~Ended(stops)
  BY <1>4 DEF Has, Ended
<1> QED BY <1>4, <1>5, <1>6, <1>7 DEF stops

\* When all that was announced is open, closing everything continues it, with
\* or without the last event.
LEMMA ClosingContinues ==
  ASSUME NEW acc \in Reply, Numbered(acc), NEW s, ~Ended(s), ~acc.closed,
         \A i \in Nat : Has(s, "open", i) <=> i < acc.next,
         \A i \in Nat : ~Has(s, "stop", i)
  PROVE  /\ Continues(s, Stops(acc)) /\ Continues(s, Farewell(acc))
         /\ \A i : ~Has(Farewell(acc), "open", i)
<1> DEFINE n == Len(Items(acc))
           stops == Stops(acc)
           all == Farewell(acc)
<1>1. /\ \A k \in DOMAIN stops : stops[k].ev = "stop" /\ stops[k].index \in Nat
                                 /\ stops[k].index < acc.next
      /\ ClosesOnce(stops)
      /\ \A i \in Nat : Has(stops, "stop", i) <=> i < acc.next
  BY StopsNumbered
<1>2. stops \in Seq(Event) /\ Len(stops) = n /\ n \in Nat
  BY StopsType
<1>3. /\ all \in Seq(Event) /\ Len(all) = n + 1
      /\ \A k \in 1..n : all[k] = stops[k]
      /\ all[n + 1].ev = "end"
  BY FarewellType, CompletedType
<1> HIDE DEF n, stops, all
<1>4. Continues(s, stops)
  <2>1. \A k \in DOMAIN stops : Follows(s, stops, k)
    BY <1>1 DEF Follows
  <2> QED BY <1>1, <2>1 DEF Continues
<1>5. DOMAIN all = 1..(n + 1) /\ DOMAIN stops = 1..n
  BY <1>2, <1>3
<1>6. \A k \in DOMAIN all : (k \in DOMAIN stops /\ all[k] = stops[k]) \/ k = n + 1
  <2> TAKE k \in DOMAIN all
  <2>1. k \in 1..n \/ k = n + 1
    BY <1>2, <1>5
  <2> QED BY <1>3, <1>5, <2>1
<1>7. \A i \in Nat : i < acc.next => Has(all, "stop", i)
  <2> SUFFICES ASSUME NEW i \in Nat, i < acc.next PROVE Has(all, "stop", i)
    OBVIOUS
  <2>1. PICK k \in DOMAIN stops : stops[k].ev = "stop" /\ stops[k].index = i
    BY <1>1 DEF Has
  <2>2. k \in DOMAIN all /\ all[k] = stops[k]
    BY <1>2, <1>3, <1>5
  <2> QED BY <2>1, <2>2 DEF Has
<1>8. ASSUME NEW k \in DOMAIN all PROVE Follows(s, all, k)
  <2>1. CASE k \in DOMAIN stops /\ all[k] = stops[k]
    BY <1>1, <2>1 DEF Follows
  <2>2. CASE k = n + 1
    BY <1>3, <1>7, <2>2 DEF Follows
  <2> QED BY <1>6, <2>1, <2>2
<1>9. ClosesOnce(all)
  BY <1>1, <1>3, <1>6 DEF ClosesOnce
<1>10. \A i : ~Has(all, "open", i)
  BY <1>1, <1>3, <1>6 DEF Has
<1> QED BY <1>4, <1>8, <1>9, <1>10 DEF Continues, stops, all

-----------------------------------------------------------------------------
(* The steps.                                                              *)

\* A step that neither sends nor translates anything.
LEMMA Idle ==
  ASSUME StreamInv, UNCHANGED <<todo, reply, out, sent>>,
         client' = "there" => client = "there",
         pc' # "last" => pc # "last",
         pc' = "rotating" => pc = "rotating"
  PROVE  StreamInv'
BY DEF StreamInv, Phases, Heard, Announces, Closes

LEMMA YieldInv ==
  ASSUME TypeOK, StreamInv, Yield
  PROVE  StreamInv'
<1>1. sent \in Seq(Event) /\ out \in Seq(Event) /\ out # <<>>
  BY DEF TypeOK, Yield
<1>2. UNCHANGED <<todo, reply, pc, client>> /\ out' = Tail(out)
  BY DEF Yield, Untranslated
<1> SUFFICES ASSUME client = "there" PROVE Heard'
  BY <1>2 DEF StreamInv, Phases
<1>3. Heard
  BY <1>2 DEF StreamInv
<1>4. Continues(sent, out)
  BY <1>3 DEF Heard
<1>5. CASE Head(out).ev = "keepalive"
  <2>1. sent' = sent /\ out' = <<>>
    BY <1>1, <1>2, <1>4, <1>5, GoesOn DEF Yield
  <2>2. \A ev, i : ev # "keepalive" => ~Has(out, ev, i)
    <3>1. \A ev, i : Has(out, ev, i) <=> (Head(out).ev = ev /\ Head(out).index = i)
                                          \/ Has(out', ev, i)
      BY <1>1, <1>2, HeadAndTail
    <3>2. \A ev, i : ~Has(out', ev, i)
      BY <2>1, Nothing
    <3> QED BY <1>5, <3>1, <3>2
  <2>3. Continues(sent', out') /\ Orderly(sent')
    BY <1>3, <2>1, Nothing DEF Heard
  <2>4. Announces'
    BY <1>2, <1>3, <2>1, <2>2, Nothing DEF Heard, Announces
  <2>5. pc' # "last" => Closes'
    BY <1>2, <1>3, <2>1, <2>2, Nothing DEF Heard, Closes
  <2> QED BY <2>3, <2>4, <2>5 DEF Heard
<1>6. CASE Head(out).ev # "keepalive"
  <2> DEFINE e == Head(out)
  <2>1. sent' = Append(sent, e)
    BY <1>6 DEF Yield
  <2>2. /\ e \in Event /\ e = out[1]
        /\ \A ev, i : Has(out, ev, i) <=> (e.ev = ev /\ e.index = i) \/ Has(out', ev, i)
        /\ Ended(out) <=> e.ev \in {"end", "failed"} \/ Ended(out')
    BY <1>1, <1>2, HeadAndTail
  <2>3. /\ \A ev, i : Has(sent', ev, i) <=> Has(sent, ev, i) \/ (e.ev = ev /\ e.index = i)
        /\ Ended(sent') <=> Ended(sent) \/ e.ev \in {"end", "failed"}
    BY <1>1, <2>1, <2>2, Appended
  <2>4. Follows(sent, out, 1) /\ Continues(sent', out')
    BY <1>1, <1>2, <1>4, <1>6, <2>1, GoesOn
  <2>5. \A ev, i : Has(sent, ev, i) \/ Has(out, ev, i) <=> Has(sent', ev, i) \/ Has(out', ev, i)
    BY <2>2, <2>3
  <2> HIDE DEF e
  <2>6. Announces'
    BY <1>2, <1>3, <2>5 DEF Heard, Announces
  <2>7. pc' # "last" => Closes'
    BY <1>2, <1>3, <2>2, <2>3, <2>5 DEF Heard, Closes
  <2>8. Orderly(sent')
    <3>1. ASSUME NEW i \in Nat, Has(sent', "delta", i) \/ Has(sent', "stop", i)
          PROVE  Has(sent', "open", i)
      BY <1>3, <2>2, <2>3, <2>4, <3>1 DEF Heard, Orderly, Follows
    <3>2. ASSUME NEW i \in Nat, Has(sent', "stop", i) PROVE Count(sent', "stop", i) = 1
      <4>1. Count(sent', "stop", i) = IF e.ev = "stop" /\ e.index = i
                                      THEN Count(sent, "stop", i) + 1
                                      ELSE Count(sent, "stop", i)
        BY <1>1, <2>1, <2>2, Counted
      <4>2. CASE e.ev = "stop" /\ e.index = i
        <5>1. ~Has(sent, "stop", i)
          BY <2>2, <2>4, <4>2 DEF Follows
        <5>2. Count(sent, "stop", i) = 0
          BY <1>1, <5>1, Counted
        <5> QED BY <4>1, <4>2, <5>2
      <4>3. CASE ~(e.ev = "stop" /\ e.index = i)
        <5>1. Has(sent, "stop", i)
          BY <2>3, <3>2, <4>3
        <5> QED BY <1>3, <4>1, <4>3, <5>1 DEF Heard, Orderly
      <4> QED BY <4>2, <4>3
    <3> QED BY <3>1, <3>2 DEF Orderly
  <2> QED BY <2>4, <2>6, <2>7, <2>8 DEF Heard
<1> QED BY <1>5, <1>6

\* What is queued while nothing else is: Announces and Closes say what it may be.
LEMMA Queued ==
  ASSUME TypeOK, StreamInv, client = "there", out = <<>>
  PROVE  /\ \A i \in Nat : Has(sent, "open", i) <=> i < reply.next
         /\ Orderly(sent)
         /\ pc # "last" => /\ ~Ended(sent)
                           /\ \A i \in Nat : Has(sent, "stop", i) <=> reply.closed /\ i < reply.next
BY Nothing DEF StreamInv, Heard, Announces, Closes

LEMMA WaitingInv ==
  ASSUME TypeOK, StreamInv, Keepalive \/ Refused
  PROVE  StreamInv'
<1>1. /\ UNCHANGED <<todo, reply, sent, client>> /\ out = <<>> /\ pc = "rotating"
      /\ pc' \in {"rotating", "last"}
  BY DEF Keepalive, Refused, Untranslated
<1>2. PICK e : out' = <<e>> /\ (e = [ev |-> "keepalive"] \/ (e = [ev |-> "failed"] /\ pc' = "last"))
  BY DEF Keepalive, Refused
<1> SUFFICES ASSUME client = "there" PROVE Heard'
  BY <1>1 DEF StreamInv, Phases
<1>3. e.ev \in {"keepalive", "failed"}
  BY <1>2
<1>4. reply.next = 0
  BY <1>1 DEF StreamInv, Phases
<1>5. /\ \A i \in Nat : ~Has(sent, "open", i)
      /\ Orderly(sent) /\ ~Ended(sent)
      /\ \A i \in Nat : Has(sent, "stop", i) <=> reply.closed /\ i < reply.next
  <2>1. \A i \in Nat : ~(i < 0)
    OBVIOUS
  <2> QED BY <1>1, <1>4, <2>1, Queued
<1>6. Continues(sent', out')
  <2>1. Len(<<e>>) = 1 /\ <<e>>[1] = e
    OBVIOUS
  <2>2. Follows(sent, <<e>>, 1)
    BY <1>3, <1>5, <2>1 DEF Follows
  <2> QED BY <1>1, <1>2, <1>5, <2>2, One
<1>7. \A i : ~Has(out', "open", i) /\ ~Has(out', "stop", i)
  BY <1>2, <1>3, One
<1>8. Announces'
  <2>1. \A i \in Nat : ~(i < 0)
    OBVIOUS
  <2> QED BY <1>1, <1>4, <1>5, <1>7, <2>1 DEF Announces
<1>9. pc' # "last" => Closes'
  <2> SUFFICES ASSUME pc' # "last" PROVE Closes'
    OBVIOUS
  <2>1. e.ev = "keepalive"
    BY <1>2
  <2>2. ~Ended(out')
    BY <1>2, <2>1, One
  <2> QED BY <1>1, <1>5, <1>7, <2>2 DEF Closes
<1> QED BY <1>1, <1>5, <1>6, <1>8, <1>9 DEF Heard

LEMMA ReadInv ==
  ASSUME TypeOK, StreamInv, ReadChunk
  PROVE  StreamInv'
<1>1. PICK c \in Chunks : /\ reply.closed => ~c.text /\ c.calls = <<>>
                          /\ todo' = [text |-> c.text, calls |-> c.calls, finish |-> c.finish]
                          /\ reply' = Usage(reply, c)
  BY DEF ReadChunk
<1>2. UNCHANGED <<out, sent, client, pc>> /\ pc = "reading"
  BY DEF ReadChunk, Reading
<1>3. reply \in Reply
  BY DEF TypeOK, Reply
<1>4. /\ reply'.next = reply.next /\ reply'.text = reply.text /\ reply'.tools = reply.tools
      /\ reply'.closed = reply.closed
  BY <1>1, <1>3 DEF Usage, Reply
<1>5. Numbered(reply')
  BY <1>4 DEF StreamInv, Numbered
<1>6. Phases'
  BY <1>1, <1>2, <1>4 DEF Phases
<1>7. client' = "there" => Heard'
  BY <1>2, <1>4 DEF StreamInv, Heard, Announces, Closes
<1> QED BY <1>5, <1>6, <1>7 DEF StreamInv

\* A block is announced under the next index.
LEMMA Opening ==
  ASSUME TypeOK, StreamInv, client = "there", pc = "reading", out = <<>>, ~reply.closed,
         NEW of, out' = Opened(of, reply.next),
         reply'.next = reply.next + 1, ~reply'.closed, UNCHANGED <<sent, pc>>
  PROVE  Heard'
<1> DEFINE e == [ev |-> "open", of |-> of, index |-> reply.next]
<1>1. e.ev = "open" /\ e.index = reply.next /\ out' = <<e>>
  BY DEF Opened
<1> HIDE DEF e
<1>2. /\ \A i \in Nat : Has(sent, "open", i) <=> i < reply.next
      /\ Orderly(sent) /\ ~Ended(sent)
      /\ \A i \in Nat : ~Has(sent, "stop", i)
  BY Queued
<1>3. reply.next \in Nat
  BY DEF TypeOK, Reply
<1>4. Continues(sent', out')
  <2>1. Len(<<e>>) = 1 /\ <<e>>[1] = e
    OBVIOUS
  <2>2. Follows(sent, <<e>>, 1)
    BY <1>1, <1>2, <2>1 DEF Follows
  <2> QED BY <1>1, <1>2, <2>2, One
<1>5. (\A i : Has(out', "open", i) <=> reply.next = i) /\ ~Ended(out')
      /\ \A i : ~Has(out', "stop", i)
  BY <1>1, One
<1>6. Announces'
  <2>1. \A i \in Nat : i < reply.next + 1 <=> (i < reply.next \/ reply.next = i)
    BY <1>3
  <2> QED BY <1>2, <1>5, <2>1 DEF Announces
<1>7. Closes'
  BY <1>2, <1>5 DEF Closes
<1> QED BY <1>2, <1>4, <1>6, <1>7 DEF Heard

\* Words go to a block that is open.
LEMMA Filling ==
  ASSUME TypeOK, StreamInv, client = "there", pc = "reading", out = <<>>, ~reply.closed,
         NEW index \in Nat, index < reply.next, NEW n, out' = Delta(index, n),
         reply'.next = reply.next, ~reply'.closed, UNCHANGED <<sent, pc>>
  PROVE  Heard'
<1> DEFINE e == [ev |-> "delta", index |-> index, data |-> <<n>>]
<1>1. e.ev = "delta" /\ e.index = index /\ out' = <<e>>
  BY DEF Delta
<1> HIDE DEF e
<1>2. /\ \A i \in Nat : Has(sent, "open", i) <=> i < reply.next
      /\ Orderly(sent) /\ ~Ended(sent)
      /\ \A i \in Nat : ~Has(sent, "stop", i)
  BY Queued
<1>3. Continues(sent', out')
  <2>1. Len(<<e>>) = 1 /\ <<e>>[1] = e
    OBVIOUS
  <2>2. Follows(sent, <<e>>, 1)
    BY <1>1, <1>2, <2>1 DEF Follows
  <2> QED BY <1>1, <1>2, <2>2, One
<1>4. (\A i : ~Has(out', "open", i) /\ ~Has(out', "stop", i)) /\ ~Ended(out')
  BY <1>1, One
<1>5. Announces' /\ Closes'
  BY <1>2, <1>4 DEF Announces, Closes
<1> QED BY <1>2, <1>3, <1>5 DEF Heard

LEMMA OpenTextInv ==
  ASSUME TypeOK, StreamInv, OpenText
  PROVE  StreamInv'
<1>1. /\ pc = "reading" /\ out = <<>> /\ todo.text /\ reply.text = None
      /\ reply' = [reply EXCEPT !.text = reply.next, !.next = reply.next + 1]
      /\ out' = Opened("text", reply.next)
      /\ UNCHANGED <<todo, pc, sent, client>>
  BY DEF OpenText, Reading, KeepRest
<1>2. reply \in Reply /\ reply.next \in Nat
  BY DEF TypeOK, Reply
<1>3. /\ reply'.text = reply.next /\ reply'.next = reply.next + 1
      /\ reply'.tools = reply.tools /\ reply'.closed = reply.closed
  BY <1>1, <1>2 DEF Reply
<1>4. ~reply.closed
  BY <1>1 DEF StreamInv, Phases
<1>5. Phases'
  BY <1>1, <1>3, <1>4 DEF Phases
<1>6. Numbered(reply')
  <2>1. Numbered(reply)
    BY DEF StreamInv
  <2>2. \A k \in DOMAIN reply.tools : /\ reply.tools[k].index < reply.next
                                      /\ reply.tools[k].index \in Nat
    <3> TAKE k \in DOMAIN reply.tools
    <3>1. reply.tools[k] \in Item
      BY <1>2 DEF Reply
    <3> QED BY <2>1, <3>1 DEF Numbered, Item
  <2>3. \A k \in DOMAIN reply'.tools : /\ reply'.tools[k].index # reply'.text
                                       /\ reply'.tools[k].index < reply'.next
    BY <1>2, <1>3, <2>2
  <2>4. ASSUME NEW i \in Nat, i < reply'.next
        PROVE  i = reply'.text \/ \E k \in DOMAIN reply'.tools : reply'.tools[k].index = i
    <3>1. i = reply.next \/ i < reply.next
      BY <1>2, <1>3, <2>4
    <3>2. None \notin Nat
      BY StreamConstants
    <3> QED BY <1>1, <1>3, <2>1, <3>1, <3>2 DEF Numbered
  <2>5. reply'.text < reply'.next
    BY <1>2, <1>3
  <2>6. \A j, k \in DOMAIN reply'.tools : reply'.tools[j].index = reply'.tools[k].index => j = k
    BY <1>3, <2>1 DEF Numbered
  <2> QED BY <2>3, <2>4, <2>5, <2>6 DEF Numbered
<1>7. client' = "there" => Heard'
  BY <1>1, <1>3, <1>4, Opening
<1> QED BY <1>5, <1>6, <1>7 DEF StreamInv

LEMMA WriteTextInv ==
  ASSUME TypeOK, StreamInv, WriteText
  PROVE  StreamInv'
<1>1. /\ pc = "reading" /\ out = <<>> /\ todo.text /\ reply.text # None
      /\ reply' = [reply EXCEPT !.full = Append(reply.full, Len(read))]
      /\ out' = Delta(reply.text, Len(read))
      /\ todo' = [todo EXCEPT !.text = FALSE]
      /\ UNCHANGED <<pc, sent, client>>
  BY DEF WriteText, Reading, KeepRest
<1>2. reply \in Reply /\ reply.text \in Nat
  BY <1>1 DEF TypeOK, Reply
<1>3. /\ reply'.text = reply.text /\ reply'.next = reply.next
      /\ reply'.tools = reply.tools /\ reply'.closed = reply.closed
  BY <1>1, <1>2 DEF Reply
<1>4. ~reply.closed /\ Numbered(reply)
  BY <1>1 DEF StreamInv, Phases
<1>5. Phases'
  BY <1>1, <1>3, <1>4 DEF Phases
<1>6. Numbered(reply')
  BY <1>3, <1>4 DEF Numbered
<1>7. reply.text < reply.next
  BY <1>1, <1>4 DEF Numbered
<1>8. client' = "there" => Heard'
  BY <1>1, <1>2, <1>3, <1>4, <1>7, Filling
<1> QED BY <1>5, <1>6, <1>8 DEF StreamInv

LEMMA OpenCallInv ==
  ASSUME TypeOK, StreamInv, OpenCall
  PROVE  StreamInv'
<1> DEFINE tool == [of |-> Head(todo.calls).call, index |-> reply.next, data |-> <<>>]
<1>1. /\ pc = "reading" /\ out = <<>> /\ todo.calls # <<>>
      /\ reply' = [reply EXCEPT !.tools = Append(reply.tools, tool), !.next = reply.next + 1]
      /\ out' = Opened(Head(todo.calls).call, reply.next)
      /\ UNCHANGED <<todo, pc, sent, client>>
  BY DEF OpenCall, Calling, Reading, KeepRest
<1>2. reply \in Reply /\ reply.next \in Nat /\ reply.text \in Nat \cup {None}
      /\ reply.tools \in Seq(Item)
  BY DEF TypeOK, Reply
<1>3. tool.index = reply.next
  OBVIOUS
<1> HIDE DEF tool
<1>4. /\ reply'.text = reply.text /\ reply'.next = reply.next + 1
      /\ reply'.tools = Append(reply.tools, tool) /\ reply'.closed = reply.closed
  BY <1>1, <1>2 DEF Reply
<1>5. ~reply.closed /\ Numbered(reply)
  BY <1>1 DEF StreamInv, Phases
<1>6. Phases'
  BY <1>1, <1>4, <1>5 DEF Phases
<1>7. Numbered(reply')
  <2> DEFINE n == Len(reply.tools)
             tools == reply'.tools
  <2>1. /\ DOMAIN reply.tools = 1..n /\ DOMAIN tools = 1..(n + 1) /\ n \in Nat
        /\ \A k \in 1..n : tools[k] = reply.tools[k]
        /\ tools[n + 1] = tool
    BY <1>2, <1>4
  <2>2. \A k \in DOMAIN reply.tools : /\ reply.tools[k].index < reply.next
                                      /\ reply.tools[k].index \in Nat
    <3> TAKE k \in DOMAIN reply.tools
    <3>1. reply.tools[k] \in Item
      BY <1>2
    <3> QED BY <1>5, <3>1 DEF Numbered, Item
  <2> HIDE DEF n, tools
  <2>3. DOMAIN tools = DOMAIN reply.tools \cup {n + 1} /\ n + 1 \notin DOMAIN reply.tools
    BY <2>1
  <2>4. \A k \in DOMAIN tools : \/ k \in DOMAIN reply.tools /\ tools[k] = reply.tools[k]
                                \/ k = n + 1 /\ tools[k] = tool
    BY <2>1, <2>3
  <2>5. ASSUME NEW k \in DOMAIN tools
        PROVE  /\ tools[k].index < reply.next + 1
               /\ reply.text # None => tools[k].index # reply.text
    <3>1. CASE k \in DOMAIN reply.tools /\ tools[k] = reply.tools[k]
      BY <1>2, <1>5, <2>2, <3>1 DEF Numbered
    <3>2. CASE k = n + 1 /\ tools[k] = tool
      BY <1>2, <1>3, <1>5, <3>2 DEF Numbered
    <3> QED BY <2>4, <3>1, <3>2
  <2>6. ASSUME NEW j \in DOMAIN tools, NEW k \in DOMAIN tools, tools[j].index = tools[k].index
        PROVE  j = k
    <3>1. \A m \in DOMAIN reply.tools : reply.tools[m].index # reply.next
      BY <1>2, <2>2
    <3> QED BY <1>3, <1>5, <2>4, <2>6, <3>1 DEF Numbered
  <2>7. ASSUME NEW i \in Nat, i < reply.next + 1
        PROVE  i = reply.text \/ \E k \in DOMAIN tools : tools[k].index = i
    <3>1. CASE i = reply.next
      BY <1>3, <2>1, <2>3, <3>1
    <3>2. CASE i < reply.next
      BY <1>5, <2>1, <2>3, <3>2 DEF Numbered
    <3> QED BY <1>2, <2>7, <3>1, <3>2
  <2>8. reply.text # None => reply.text < reply.next + 1
    BY <1>2, <1>5 DEF Numbered
  <2> QED BY <1>4, <2>5, <2>6, <2>7, <2>8 DEF Numbered, tools
<1>8. client' = "there" => Heard'
  BY <1>1, <1>4, <1>5, Opening
<1> QED BY <1>6, <1>7, <1>8 DEF StreamInv

LEMMA WriteCallInv ==
  ASSUME TypeOK, StreamInv, WriteCall
  PROVE  StreamInv'
<1>1. /\ pc = "reading" /\ out = <<>> /\ ~todo.text /\ todo.calls # <<>>
      /\ todo' = [todo EXCEPT !.calls = Tail(todo.calls)]
      /\ UNCHANGED <<pc, sent, client>>
  BY DEF WriteCall, Calling, Reading, KeepRest
<1>2. reply \in Reply /\ reply.tools \in Seq(Item)
  BY DEF TypeOK, Reply
<1>3. ~reply.closed /\ Numbered(reply)
  BY <1>1 DEF StreamInv, Phases
<1>4. CASE UNCHANGED <<reply, out>>
  BY <1>1, <1>3, <1>4 DEF StreamInv, Phases, Heard, Announces, Closes
<1>5. ASSUME NEW k \in DOMAIN reply.tools,
             reply' = [reply EXCEPT !.tools[k].data = Append(@, Len(read))],
             out' = Delta(reply.tools[k].index, Len(read))
      PROVE  StreamInv'
  <2>1. reply.tools[k] \in Item
    BY <1>2
  <2> DEFINE tool == [reply.tools[k] EXCEPT !.data = Append(reply.tools[k].data, Len(read))]
  <2>2. tool.index = reply.tools[k].index /\ reply.tools[k].index \in Nat
    BY <2>1 DEF Item
  <2>3. reply' = [reply EXCEPT !.tools = [reply.tools EXCEPT ![k] = tool]]
    BY <1>5
  <2> HIDE DEF tool
  <2>4. /\ reply'.text = reply.text /\ reply'.next = reply.next /\ reply'.closed = reply.closed
        /\ reply'.tools = [reply.tools EXCEPT ![k] = tool]
    BY <1>2, <2>3 DEF Reply
  <2>5. /\ DOMAIN reply'.tools = DOMAIN reply.tools
        /\ \A j \in DOMAIN reply.tools : reply'.tools[j].index = reply.tools[j].index
    BY <1>2, <2>2, <2>4
  <2>6. Numbered(reply')
    BY <1>3, <2>4, <2>5 DEF Numbered
  <2>7. Phases'
    BY <1>1, <1>3, <2>4 DEF Phases
  <2>8. reply.tools[k].index < reply.next
    BY <1>3 DEF Numbered
  <2>9. client' = "there" => Heard'
    BY <1>1, <1>3, <1>5, <2>2, <2>4, <2>8, Filling
  <2> QED BY <2>6, <2>7, <2>9 DEF StreamInv
<1> QED BY <1>4, <1>5 DEF WriteCall

LEMMA FinishInv ==
  ASSUME TypeOK, StreamInv, Finish
  PROVE  StreamInv'
<1>1. /\ pc = "reading" /\ out = <<>> /\ todo' = Done
      /\ UNCHANGED <<pc, sent, client>>
  BY DEF Finish, Reading, KeepRest
<1>2. reply \in Reply /\ Numbered(reply)
  BY DEF TypeOK, Reply, StreamInv
<1>3. Phases'
  BY <1>1 DEF Phases, Done
<1>4. CASE reply.closed
  <2>1. UNCHANGED <<reply, out>>
    BY <1>4 DEF Finish
  <2> QED BY <1>1, <1>3, <2>1 DEF StreamInv, Heard, Announces, Closes
<1>5. CASE ~reply.closed
  <2>1. /\ reply' = [reply EXCEPT !.closed = TRUE, !.stop = StopReason(todo.finish)]
        /\ out' = Stops(reply)
    BY <1>5 DEF Finish
  <2>2. /\ reply'.text = reply.text /\ reply'.next = reply.next
        /\ reply'.tools = reply.tools /\ reply'.closed
    BY <1>2, <2>1 DEF Reply
  <2>3. Numbered(reply')
    BY <1>2, <2>2 DEF Numbered
  <2>4. ASSUME client = "there" PROVE Heard'
    <3>1. /\ \A i \in Nat : Has(sent, "open", i) <=> i < reply.next
          /\ Orderly(sent) /\ ~Ended(sent)
          /\ \A i \in Nat : ~Has(sent, "stop", i)
      BY <1>1, <1>5, <2>4, Queued
    <3>2. Continues(sent', out')
      BY <1>1, <1>2, <1>5, <2>1, <3>1, ClosingContinues
    <3>3. /\ \A i : ~Has(out', "open", i)
          /\ ~Ended(out')
          /\ \A i \in Nat : Has(out', "stop", i) <=> i < reply.next
      BY <1>2, <2>1, StopsNumbered
    <3>4. Announces' /\ Closes'
      BY <1>1, <2>2, <3>1, <3>3 DEF Announces, Closes
    <3> QED BY <1>1, <3>1, <3>2, <3>4 DEF Heard
  <2> QED BY <1>1, <1>3, <2>3, <2>4 DEF StreamInv
<1> QED BY <1>4, <1>5

LEMMA LoopEndsInv ==
  ASSUME TypeOK, StreamInv, LoopEnds
  PROVE  StreamInv'
<1>1. /\ pc = "reading" /\ out = <<>> /\ pc' = "last" /\ out' = Farewell(reply)
      /\ UNCHANGED <<todo, reply, sent, client>>
  BY DEF LoopEnds, Reading, Untranslated
<1>2. reply \in Reply /\ Numbered(reply)
  BY DEF TypeOK, Reply, StreamInv
<1>3. Phases'
  BY <1>1 DEF StreamInv, Phases
<1>4. ASSUME client = "there" PROVE Heard'
  <2>1. /\ \A i \in Nat : Has(sent, "open", i) <=> i < reply.next
        /\ Orderly(sent) /\ ~Ended(sent)
        /\ \A i \in Nat : Has(sent, "stop", i) <=> reply.closed /\ i < reply.next
    BY <1>1, <1>4, Queued
  <2>2. Continues(sent, Farewell(reply)) /\ \A i : ~Has(Farewell(reply), "open", i)
    <3>1. CASE ~reply.closed
      BY <1>2, <2>1, <3>1, ClosingContinues
    <3>2. CASE reply.closed
      <4> DEFINE e == Completed(reply)
      <4>1. Farewell(reply) = <<e>> /\ e.ev = "end"
        BY <1>2, <3>2, FarewellType, CompletedType
      <4> HIDE DEF e
      <4>2. Len(<<e>>) = 1 /\ <<e>>[1] = e
        OBVIOUS
      <4>3. Follows(sent, <<e>>, 1)
        BY <2>1, <3>2, <4>1, <4>2 DEF Follows
      <4> QED BY <2>1, <4>1, <4>3, One
    <3> QED BY <3>1, <3>2
  <2>3. Announces'
    BY <1>1, <2>1, <2>2 DEF Announces
  <2> QED BY <1>1, <2>1, <2>2, <2>3 DEF Heard
<1> QED BY <1>1, <1>2, <1>3, <1>4 DEF StreamInv

LEMMA StreamStep == TypeOK /\ StreamInv /\ [Next]_vars => StreamInv'
<1> SUFFICES ASSUME TypeOK, StreamInv, [Next]_vars PROVE StreamInv'
  OBVIOUS
<1>1. CASE Yield
  BY <1>1, YieldInv
<1>2. CASE StartRotation \/ RotationEnds \/ Answered \/ HangUp \/ BodyBreaks \/ PhaseBreaks
           \/ UNCHANGED vars
  <2>1. /\ UNCHANGED <<todo, reply, out, sent>>
        /\ client' = "there" => client = "there"
        /\ pc' # "last" => pc # "last"
        /\ pc' = "rotating" => pc = "rotating"
    BY <1>2 DEF StartRotation, RotationEnds, Answered, HangUp, BodyBreaks, PhaseBreaks, Break,
                Untranslated, vars
  <2> QED BY <2>1, Idle
<1>3. CASE Keepalive \/ Refused
  BY <1>3, WaitingInv
<1>4. CASE ReadChunk
  BY <1>4, ReadInv
<1>5. CASE Translate
  BY <1>5, OpenTextInv, WriteTextInv, OpenCallInv, WriteCallInv, FinishInv DEF Translate
<1>6. CASE LoopEnds
  BY <1>6, LoopEndsInv
<1>7. CASE Cancel
  BY <1>7 DEF Cancel, Untranslated, StreamInv, Phases
<1> QED BY <1>1, <1>2, <1>3, <1>4, <1>5, <1>6, <1>7 DEF Next

LEMMA StreamStart == Init => StreamInv
<1> SUFFICES ASSUME Init PROVE StreamInv
  OBVIOUS
<1>1. /\ reply = Empty /\ todo = Done /\ sent = <<>> /\ out = <<[ev |-> "opening"]>>
  BY DEF Init
<1>2. /\ reply.next = 0 /\ reply.text = None /\ reply.tools = <<>> /\ ~reply.closed
  BY <1>1 DEF Empty
<1>3. \A i \in Nat : ~(i < 0)
  OBVIOUS
<1>4. Numbered(reply)
  BY <1>2, <1>3 DEF Numbered
<1>5. Phases
  BY <1>2 DEF Phases
<1>6. /\ \A ev, i : ~Has(sent, ev, i)
      /\ ~Ended(sent)
  BY <1>1, Nothing
<1> DEFINE e == [ev |-> "opening"]
<1>7. e.ev = "opening" /\ out = <<e>> /\ <<e>>[1] = e
  BY <1>1
<1> HIDE DEF e
<1>8. Continues(sent, out)
  <2>1. Follows(sent, <<e>>, 1)
    BY <1>7 DEF Follows
  <2> QED BY <1>6, <1>7, <2>1, One
<1>9. (\A i : ~Has(out, "open", i) /\ ~Has(out, "stop", i)) /\ ~Ended(out)
  BY <1>7, One
<1>10. Orderly(sent) /\ Announces /\ Closes
  BY <1>2, <1>3, <1>6, <1>9 DEF Orderly, Announces, Closes
<1> QED BY <1>4, <1>5, <1>8, <1>10 DEF StreamInv, Heard

LEMMA StreamSafe == Spec => [](TypeOK /\ StreamInv)
<1>1. TypeOK /\ StreamInv /\ [Next]_vars => (TypeOK /\ StreamInv)'
  BY TypeInv, StreamStep
<1> QED BY <1>1, TypeInit, StreamStart, PTL DEF Spec

-----------------------------------------------------------------------------
(* The refinement.                                                         *)

Block(s, i) ==
  [opens |-> Count(s, "open", i), deltas |-> Count(s, "delta", i),
   stops |-> Count(s, "stop", i)]

\* The client knows the blocks that were announced.
LEMMA Known ==
  ASSUME NEW s \in Seq(Event), Orderly(s)
  PROVE  \A i : i \in Told(s) <=> i \in Nat /\ Has(s, "open", i)
<1>1. ASSUME NEW k \in DOMAIN s, s[k].ev \in {"open", "delta", "stop"}
      PROVE  s[k].index \in Nat
  <2>1. s[k] \in Event
    OBVIOUS
  <2> QED BY <1>1, <2>1 DEF Event
<1>2. ASSUME NEW i \in Told(s) PROVE i \in Nat /\ Has(s, "open", i)
  <2>1. PICK k \in DOMAIN s : s[k].ev \in {"open", "delta", "stop"} /\ i = s[k].index
    BY DEF Told
  <2>2. i \in Nat
    BY <1>1, <2>1
  <2>3. Has(s, "open", i) \/ Has(s, "delta", i) \/ Has(s, "stop", i)
    BY <2>1 DEF Has
  <2> QED BY <2>2, <2>3 DEF Orderly
<1>3. ASSUME NEW i, Has(s, "open", i) PROVE i \in Told(s)
  BY <1>3 DEF Has, Told
<1> QED BY <1>2, <1>3

LEMMA BlocksAppended ==
  ASSUME NEW s \in Seq(Event), NEW e \in Event
  PROVE  /\ Blocks(s) = [i \in Told(s) |-> Block(s, i)]
         /\ Blocks(Append(s, e)) = [i \in Told(Append(s, e)) |-> Block(Append(s, e), i)]
         /\ Told(Append(s, e)) = IF e.ev \in {"open", "delta", "stop"} THEN Told(s) \cup {e.index}
                                 ELSE Told(s)
         /\ \A i : e.ev \notin {"open", "delta", "stop"} \/ e.index # i =>
                     Block(Append(s, e), i) = Block(s, i)
<1> DEFINE t == Append(s, e)
<1>1. /\ t \in Seq(Event) /\ Len(s) \in Nat /\ Len(t) = Len(s) + 1
      /\ t[Len(s) + 1] = e /\ \A k \in 1..Len(s) : t[k] = s[k]
  OBVIOUS
<1>2. /\ DOMAIN t = DOMAIN s \cup {Len(s) + 1}
      /\ \A k \in DOMAIN s : t[k] = s[k]
  BY <1>1
<1>3. Blocks(s) = [i \in Told(s) |-> Block(s, i)] /\ Blocks(t) = [i \in Told(t) |-> Block(t, i)]
  BY DEF Blocks, Block
<1>4. \A ev, i : ~(e.ev = ev /\ e.index = i) => Count(t, ev, i) = Count(s, ev, i)
  BY Counted
<1>5. ASSUME NEW i, e.ev \notin {"open", "delta", "stop"} \/ e.index # i
      PROVE  Block(t, i) = Block(s, i)
  <2>1. /\ Count(t, "open", i) = Count(s, "open", i)
        /\ Count(t, "delta", i) = Count(s, "delta", i)
        /\ Count(t, "stop", i) = Count(s, "stop", i)
    BY <1>4, <1>5
  <2> QED BY <2>1 DEF Block
<1> HIDE DEF t
<1>6. Told(t) = IF e.ev \in {"open", "delta", "stop"} THEN Told(s) \cup {e.index} ELSE Told(s)
  BY <1>1, <1>2 DEF Told
<1> QED BY <1>3, <1>5, <1>6 DEF t

LEMMA Tallied ==
  ASSUME NEW s \in Seq(Event), NEW e \in Event, NEW ev
  PROVE  /\ Tally(s, ev) \in Nat
         /\ Tally(s, ev) = 0 <=> \A k \in DOMAIN s : s[k].ev # ev
         /\ Tally(Append(s, e), ev) = IF e.ev = ev THEN Tally(s, ev) + 1 ELSE Tally(s, ev)
<1> DEFINE t == Append(s, e)
           of(r) == {k \in DOMAIN r : r[k].ev = ev}
<1>1. /\ t \in Seq(Event) /\ Len(s) \in Nat /\ Len(t) = Len(s) + 1
      /\ t[Len(s) + 1] = e /\ \A k \in 1..Len(s) : t[k] = s[k]
  OBVIOUS
<1>2. /\ DOMAIN t = DOMAIN s \cup {Len(s) + 1} /\ Len(s) + 1 \notin DOMAIN s
      /\ \A k \in DOMAIN s : t[k] = s[k]
  BY <1>1
<1> HIDE DEF t
<1>3. IsFiniteSet(of(s))
  <2>1. IsFiniteSet(1..Len(s))
    BY <1>1, FS_Interval
  <2>2. of(s) \subseteq 1..Len(s)
    BY <1>1
  <2> QED BY <2>1, <2>2, FS_Subset
<1>4. Tally(s, ev) = Cardinality(of(s)) /\ Tally(t, ev) = Cardinality(of(t))
  BY DEF Tally
<1>5. Cardinality(of(s)) \in Nat /\ (Cardinality(of(s)) = 0 <=> of(s) = {})
  BY <1>3, FS_CardinalityType, FS_EmptySet
<1>6. of(s) = {} <=> \A k \in DOMAIN s : s[k].ev # ev
  OBVIOUS
<1>7. e.ev = ev => of(t) = of(s) \cup {Len(s) + 1} /\ Len(s) + 1 \notin of(s)
  BY <1>1, <1>2
<1>8. e.ev # ev => of(t) = of(s)
  BY <1>1, <1>2
<1> HIDE DEF of
<1>9. e.ev = ev => Cardinality(of(t)) = Cardinality(of(s)) + 1
  BY <1>3, <1>7, FS_AddElement
<1> QED BY <1>4, <1>5, <1>6, <1>8, <1>9 DEF t

\* What the client is sent is what EventWire allows.
LEMMA SendingRefines ==
  ASSUME TypeOK, StreamInv, Yield, client = "there", Head(out).ev # "keepalive"
  PROVE  Wire!Next \/ UNCHANGED Wire!vars
<1> DEFINE e == Head(out)
<1>1. sent \in Seq(Event) /\ out \in Seq(Event) /\ out # <<>> /\ sent' = Append(sent, e)
  BY DEF TypeOK, Yield
<1>2. Continues(sent, out) /\ Orderly(sent) /\ ~Ended(sent)
  BY <1>1 DEF StreamInv, Heard, Continues
<1>3. /\ e \in Event /\ e = out[1] /\ Follows(sent, out, 1)
      /\ \A ev, i : Has(out, ev, i) <=> (e.ev = ev /\ e.index = i) \/ Has(Tail(out), ev, i)
      /\ Len(out) \in Nat /\ Len(Tail(out)) = Len(out) - 1 /\ Tail(out) \in Seq(Event)
  BY <1>1, <1>2, HeadAndTail, GoesOn
<1> HIDE DEF e
<1> DEFINE blocks == Blocks(sent)
           told == Told(sent)
<1>4. \A i : i \in told <=> i \in Nat /\ Has(sent, "open", i)
  BY <1>1, <1>2, Known
<1>5. /\ blocks = [i \in told |-> Block(sent, i)]
      /\ Blocks(sent)' = [i \in Told(sent') |-> Block(sent', i)]
      /\ Told(sent') = IF e.ev \in {"open", "delta", "stop"} THEN told \cup {e.index} ELSE told
      /\ \A i : e.ev \notin {"open", "delta", "stop"} \/ e.index # i =>
                  Block(sent', i) = Block(sent, i)
  <2>1. /\ Blocks(sent) = [i \in Told(sent) |-> Block(sent, i)]
        /\ Blocks(sent') = [i \in Told(sent') |-> Block(sent', i)]
    BY DEF Blocks, Block
  <2>2. Told(sent') = IF e.ev \in {"open", "delta", "stop"} THEN Told(sent) \cup {e.index}
                      ELSE Told(sent)
    BY <1>1, <1>3, BlocksAppended
  <2>3. \A i : e.ev \notin {"open", "delta", "stop"} \/ e.index # i =>
                  Block(sent', i) = Block(sent, i)
    BY <1>1, <1>3, BlocksAppended
  <2> QED BY <2>1, <2>2, <2>3
<1>6. /\ Tally(sent, "end")' = IF e.ev = "end" THEN Tally(sent, "end") + 1 ELSE Tally(sent, "end")
      /\ Tally(sent, "failed")' = IF e.ev = "failed" THEN Tally(sent, "failed") + 1
                                  ELSE Tally(sent, "failed")
  BY <1>1, <1>3, Tallied
<1>7. Tally(sent, "end") = 0 /\ Tally(sent, "failed") = 0
  BY <1>1, <1>2, <1>3, Tallied DEF Ended
<1>8. \A ev, i : /\ Count(sent, ev, i) \in Nat
                 /\ Count(sent, ev, i) = 0 <=> ~Has(sent, ev, i)
                 /\ Count(sent', ev, i) = IF e.ev = ev /\ e.index = i THEN Count(sent, ev, i) + 1
                                          ELSE Count(sent, ev, i)
  BY <1>1, <1>3, Counted
<1>9. e.ev \in {"opening", "failed", "open", "delta", "stop", "end"}
  BY <1>3 DEF Event, e
<1>10. CASE e.ev = "opening"
  <2>1. Blocks(sent)' = blocks
    BY <1>5, <1>10
  <2> QED BY <1>6, <1>10, <2>1 DEF Wire!vars
<1>11. CASE e.ev = "open"
  <2> DEFINE n == e.index
  <2>1. n \in Nat
    BY <1>3, <1>11 DEF Event
  <2>2. \A i \in Nat : Has(sent, "open", i) <=> i < n
    BY <1>3, <1>11 DEF Follows
  <2> HIDE DEF n
  <2>3. told = 0..(n - 1)
    <3>1. \A i : i \in told <=> i \in Nat /\ i < n
      BY <1>4, <2>2
    <3>2. \A i : i \in 0..(n - 1) <=> i \in Nat /\ i < n
      BY <2>1
    <3> HIDE DEF told
    <3> QED BY <3>1, <3>2
  <2>4. Told(sent') = 0..n
    <3>1. Told(sent') = told \cup {n}
      BY <1>5, <1>11 DEF n
    <3>2. 0..n = (0..(n - 1)) \cup {n}
      BY <2>1
    <3> QED BY <2>3, <3>1, <3>2
  <2>5. Cardinality(told) = n
    <3>1. n - 1 \in Int /\ 0 \in Int
      BY <2>1
    <3>2. Cardinality(0..(n - 1)) = IF 0 > n - 1 THEN 0 ELSE (n - 1) - 0 + 1
      BY <3>1, FS_Interval
    <3> QED BY <2>1, <2>3, <3>2
  <2>6. \A i \in 0..n : i < n => Block(sent', i) = blocks[i]
    <3> SUFFICES ASSUME NEW i \in 0..n, i < n PROVE Block(sent', i) = blocks[i]
      OBVIOUS
    <3>1. i \in told /\ i # e.index
      BY <2>1, <2>3 DEF n
    <3>2. blocks[i] = Block(sent, i)
      BY <1>5, <3>1
    <3> QED BY <1>5, <3>1, <3>2
  <2>7. Block(sent', n) = Wire!Announced
    <3>1. ~Has(sent, "open", n)
      BY <2>1, <2>2
    <3>2. ~Has(sent, "delta", n) /\ ~Has(sent, "stop", n)
      BY <1>2, <2>1, <3>1 DEF Orderly
    <3>3. Count(sent', "open", n) = 0 + 1
      BY <1>8, <1>11, <3>1 DEF n
    <3>4. Count(sent', "delta", n) = 0 /\ Count(sent', "stop", n) = 0
      BY <1>8, <1>11, <3>2
    <3> QED BY <3>3, <3>4 DEF Block, Wire!Announced
  <2>8. \A i \in 0..n : Block(sent', i) = IF i < n THEN blocks[i] ELSE Wire!Announced
    <3> TAKE i \in 0..n
    <3>1. i < n \/ i = n
      BY <2>1
    <3>2. ~(n < n)
      BY <2>1
    <3> QED BY <2>6, <2>7, <3>1, <3>2
  <2>9. Blocks(sent)' = [i \in 0..n |-> IF i < n THEN blocks[i] ELSE Wire!Announced]
    BY <1>5, <2>4, <2>8
  <2>10. DOMAIN blocks = told
    BY <1>5
  <2> HIDE DEF blocks, told
  <2>11. Blocks(sent)' = LET m == Cardinality(DOMAIN blocks)
                         IN  [i \in 0..m |-> IF i < m THEN blocks[i] ELSE Wire!Announced]
    BY <2>5, <2>9, <2>10
  <2>12. Wire!GoingOn
    BY <1>7 DEF Wire!GoingOn
  <2>13. UNCHANGED <<Tally(sent, "end"), Tally(sent, "failed")>>
    BY <1>6, <1>11
  <2>14. Wire!Open
    BY <2>11, <2>12, <2>13 DEF Wire!Open, Wire!Cardinality, Cardinality, blocks
  <2> QED BY <2>14 DEF Wire!Next
<1>12. CASE e.ev \in {"delta", "stop"}
  <2> DEFINE n == e.index
  <2>1. n \in Nat
    BY <1>3, <1>12 DEF Event
  <2>2. Has(sent, "open", n) /\ ~Has(sent, "stop", n)
    BY <1>3, <1>12 DEF Follows
  <2>3. n \in told
    BY <1>4, <2>1, <2>2
  <2>4. Told(sent') = told
    BY <1>5, <1>12, <2>3
  <2>5. \A i \in told : blocks[i] = Block(sent, i)
    BY <1>5
  <2>6. Count(sent, "stop", n) = 0
    BY <1>8, <2>2
  <2>7. blocks[n].stops = 0
    <3>1. blocks[n] = Block(sent, n)
      BY <2>3, <2>5
    <3>2. Block(sent, n).stops = Count(sent, "stop", n)
      BY DEF Block
    <3> QED BY <2>6, <3>1, <3>2
  <2>8. DOMAIN blocks = told
    BY <1>5
  <2>9. \A i \in told : i # n => Block(sent', i) = blocks[i]
    BY <1>5, <2>5
  <2>10. CASE e.ev = "delta"
    <3>1. Block(sent', n) = [blocks[n] EXCEPT !.deltas = @ + 1]
      <4>1. /\ Count(sent', "open", n) = Count(sent, "open", n)
            /\ Count(sent', "delta", n) = Count(sent, "delta", n) + 1
            /\ Count(sent', "stop", n) = Count(sent, "stop", n)
        BY <1>8, <2>10
      <4>2. blocks[n] = Block(sent, n)
        BY <2>3, <2>5
      <4> HIDE DEF blocks, told, n
      <4> QED BY <4>1, <4>2 DEF Block
    <3>2. Blocks(sent)' = [blocks EXCEPT ![n].deltas = @ + 1]
      BY <1>5, <2>3, <2>4, <2>8, <2>9, <3>1
    <3> HIDE DEF blocks, told, n
    <3>3. Wire!Delta(n)
      BY <1>6, <1>7, <2>7, <2>10, <3>2 DEF Wire!Delta, Wire!GoingOn, blocks
    <3>4. n \in DOMAIN Blocks(sent)
      BY <2>3, <2>8 DEF blocks
    <3> QED BY <3>3, <3>4 DEF Wire!Next
  <2>11. CASE e.ev = "stop"
    <3>1. Block(sent', n) = [blocks[n] EXCEPT !.stops = 1]
      <4>1. /\ Count(sent', "open", n) = Count(sent, "open", n)
            /\ Count(sent', "delta", n) = Count(sent, "delta", n)
            /\ Count(sent', "stop", n) = 0 + 1
        BY <1>8, <2>6, <2>11
      <4>2. blocks[n] = Block(sent, n)
        BY <2>3, <2>5
      <4> HIDE DEF blocks, told, n
      <4> QED BY <4>1, <4>2 DEF Block
    <3>2. Blocks(sent)' = [blocks EXCEPT ![n].stops = 1]
      BY <1>5, <2>3, <2>4, <2>8, <2>9, <3>1
    <3> HIDE DEF blocks, told, n
    <3>3. Wire!Stop(n)
      BY <1>6, <1>7, <2>7, <2>11, <3>2 DEF Wire!Stop, Wire!GoingOn, blocks
    <3>4. n \in DOMAIN Blocks(sent)
      BY <2>3, <2>8 DEF blocks
    <3> QED BY <3>3, <3>4 DEF Wire!Next
  <2> QED BY <1>12, <2>10, <2>11
<1>13. CASE e.ev \in {"end", "failed"}
  <2>1. Blocks(sent)' = blocks
    BY <1>5, <1>13
  <2>2. CASE e.ev = "end"
    <3>1. \A i \in Nat : Has(sent, "open", i) => Has(sent, "stop", i)
      <4>1. Len(Tail(out)) = 0
        BY <1>3, <2>2 DEF Follows
      <4>2. \A i : ~Has(Tail(out), "stop", i)
        <5>1. \A s \in Seq(Event) : Len(s) = 0 => s = <<>>
          OBVIOUS
        <5>2. Tail(out) = <<>>
          BY <1>3, <4>1, <5>1
        <5> QED BY <5>2, Nothing
      <4> QED BY <1>3, <2>2, <4>2 DEF Follows
    <3>2. \A i \in DOMAIN blocks : blocks[i].stops = 1
      BY <1>2, <1>4, <1>5, <3>1 DEF Orderly, Block
    <3>3. Tally(sent, "end")' = 1 /\ Tally(sent, "failed")' = Tally(sent, "failed")
      BY <1>6, <1>7, <2>2
    <3>4. Wire!End
      BY <1>7, <2>1, <3>2, <3>3 DEF Wire!End, Wire!GoingOn
    <3> QED BY <3>4 DEF Wire!Next
  <2>3. CASE e.ev = "failed"
    <3>1. DOMAIN blocks = {}
      BY <1>3, <1>4, <1>5, <2>3 DEF Follows
    <3>2. Tally(sent, "failed")' = 1 /\ Tally(sent, "end")' = Tally(sent, "end")
      BY <1>6, <1>7, <2>3
    <3>3. Wire!Fail
      BY <1>7, <2>1, <3>1, <3>2 DEF Wire!Fail, Wire!GoingOn
    <3> QED BY <3>3 DEF Wire!Next
  <2> QED BY <1>13, <2>2, <2>3
<1> QED BY <1>9, <1>10, <1>11, <1>12, <1>13

LEMMA Refines == TypeOK /\ StreamInv /\ [Next]_vars => [Wire!Next]_Wire!vars
<1> SUFFICES ASSUME TypeOK, StreamInv, [Next]_vars PROVE Wire!Next \/ UNCHANGED Wire!vars
  OBVIOUS
<1>1. CASE Yield /\ client = "there" /\ Head(out).ev # "keepalive"
  BY <1>1, SendingRefines
<1>2. CASE UNCHANGED sent
  BY <1>2 DEF Wire!vars
<1>3. sent' = sent \/ (Yield /\ client = "there" /\ Head(out).ev # "keepalive")
  BY DEF Next, Yield, StartRotation, RotationEnds, Keepalive, Answered, Refused, ReadChunk,
         Translate, OpenText, WriteText, OpenCall, WriteCall, Finish, KeepRest, LoopEnds,
         BodyBreaks, PhaseBreaks, Break, HangUp, Cancel, vars
<1> QED BY <1>1, <1>2, <1>3

LEMMA StartRefines == Init => Wire!Init
<1> SUFFICES ASSUME sent = <<>> PROVE Wire!Init
  BY DEF Init
<1>1. Told(sent) = {}
  BY DEF Told
<1>2. Blocks(sent) = [i \in {} |-> Wire!Announced]
  BY <1>1 DEF Blocks
<1>3. \A ev : {k \in DOMAIN sent : sent[k].ev = ev} = {}
  OBVIOUS
<1>4. Tally(sent, "end") = 0 /\ Tally(sent, "failed") = 0
  BY <1>3, FS_EmptySet DEF Tally
<1> QED BY <1>2, <1>4 DEF Wire!Init

\* Both generators implement EventWire: whatever the chunks are and wherever the
\* stream is cut, the client is told of the blocks 0, 1, 2, ..., is given words
\* only for open ones, sees each closed once, and gets one last event after that.
THEOREM Implements == Spec => WellFormed
BY StreamSafe, StartRefines, Refines, PTL DEF Spec, WellFormed, Wire!Spec

-----------------------------------------------------------------------------
(* Every word arrives: the invariant.                                      *)

\* The blocks of a reply, in no order.
Contents(acc) ==
  (IF acc.text = None THEN {}
   ELSE {[of |-> "text", index |-> acc.text, data |-> acc.full]})
  \cup {acc.tools[k] : k \in DOMAIN acc.tools}

\* The words of s that were translated: all but those still left of the last
\* chunk.
Due(s) ==
  {n \in DOMAIN read : Speaks(read[n], s) /\ ~(n = Len(read) /\ Speaks(todo, s))}

Begun(s) == \E x \in Contents(reply) : x.of = s

\* No two pieces fill the same call.
FillsOnce(calls) ==
  \A j, k \in DOMAIN calls :
    calls[j].args /\ calls[k].args /\ calls[j].call = calls[k].call => j = k

\* What is left of the last chunk is of it, and fills a call at most once.
Leftover ==
  /\ \A s \in Sources : /\ Speaks(todo, s) => read # <<>> /\ Speaks(read[Len(read)], s)
                        /\ Mentions(todo, s) => read # <<>> /\ Mentions(read[Len(read)], s)
  /\ FillsOnce(todo.calls)

\* The blocks are those that were mentioned, and list what was due.
Gathered ==
  /\ \A x, y \in Contents(reply) : x.of = y.of => x = y
  /\ \A x \in Contents(reply) : Mentioned(x.of) /\ Lists(x.data, Due(x.of))
  /\ \A s \in Sources : Due(s) # {} => Begun(s)
  /\ \A s \in Sources, n \in DOMAIN read :
       Mentions(read[n], s) /\ ~(n = Len(read) /\ Mentions(todo, s)) => Begun(s)
  /\ reply.text = None => reply.full = <<>>
  /\ \A k \in DOMAIN reply.tools : reply.tools[k].of # "text"

OpenOf(x) == [ev |-> "open", of |-> x.of, index |-> x.index]
DeltaOf(x, n) == [ev |-> "delta", index |-> x.index, data |-> <<n>>]
StopOf(x) ==
  [ev |-> "stop", index |-> x.index, data |-> IF api = "responses" THEN x.data ELSE <<>>]

\* What was sent or is about to be.
Given == SentEvents \cup {out[k] : k \in DOMAIN out}

\* Words of one block come in their order.
Before(d, e) ==
  d.ev = "delta" /\ e.ev = "delta" /\ d.index = e.index => d.data[1] < e.data[1]

\* What was given is what the blocks hold; what is closed was given whole.
Passed ==
  /\ \A e \in Given : e.ev = "open" => \E x \in Contents(reply) : e = OpenOf(x)
  /\ \A e \in Given : e.ev = "delta" =>
       \E x \in Contents(reply) : \E k \in DOMAIN x.data : e = DeltaOf(x, x.data[k])
  /\ \A x \in Contents(reply) :
       /\ OpenOf(x) \in Given
       /\ \A k \in DOMAIN x.data : DeltaOf(x, x.data[k]) \in Given
       /\ reply.closed => StopOf(x) \in Given
  /\ \A e \in Given : e.ev = "end" =>
       /\ pc = "last" /\ todo = Done
       /\ \A x \in Contents(reply) : StopOf(x) \in Given
       /\ api = "responses" => e.items = Items(reply)

\* Each block was given its words in their order.
InOrder ==
  /\ \A j, k \in DOMAIN sent : j < k => Before(sent[j], sent[k])
  /\ \A j \in DOMAIN sent, k \in DOMAIN out : Before(sent[j], out[k])

WordsInv ==
  /\ Leftover
  /\ Gathered
  /\ client = "there" => Passed /\ InOrder
  /\ client = "gone" => \A e \in SentEvents : e.ev # "end"

\* What the theorem asks of the chunks: the words of one chunk for one call are
\* one piece.  Two pieces would carry the same word, the chunk's number, and no
\* event could tell which of them it passes on.
OneFill == \A c \in Chunks : FillsOnce(c.calls)

-----------------------------------------------------------------------------
(* Lemmas: blocks and words.                                               *)

LEMMA ContentsType ==
  ASSUME NEW acc \in Reply
  PROVE  /\ Contents(acc) \subseteq Item
         /\ \A k \in DOMAIN Items(acc) : Items(acc)[k] \in Contents(acc)
         /\ \A x \in Contents(acc) : \E k \in DOMAIN Items(acc) : Items(acc)[k] = x
<1> DEFINE head == [of |-> "text", index |-> acc.text, data |-> acc.full]
           tools == acc.tools
<1>0. tools \in Seq(Item) /\ acc.full \in Seq(Nat) /\ acc.text \in Nat \cup {None}
  BY DEF Reply
<1>1. /\ DOMAIN tools = 1..Len(tools) /\ Len(tools) \in Nat
      /\ \A k \in DOMAIN tools : tools[k] \in Item
  BY <1>0
<1>2. CASE acc.text = None
  <2>1. Items(acc) = tools /\ Contents(acc) = {tools[k] : k \in DOMAIN tools}
    BY <1>0, <1>2 DEF Items, Contents
  <2> QED BY <1>1, <2>1
<1>3. CASE acc.text # None
  <2>1. head \in Item
    BY <1>0, <1>3 DEF Item, Sources
  <2>2. Items(acc) = <<head>> \o tools
    BY <1>3 DEF Items
  <2>3. Contents(acc) = {head} \cup {tools[k] : k \in DOMAIN tools}
    BY <1>3 DEF Contents
  <2> HIDE DEF head, tools
  <2> DEFINE all == <<head>> \o tools
  <2>4. /\ Len(all) = Len(tools) + 1 /\ all \in Seq(Item)
        /\ all[1] = head
        /\ \A k \in 1..Len(tools) : all[k + 1] = tools[k]
    BY <1>0, <2>1
  <2>5. DOMAIN all = 1..(Len(tools) + 1)
    BY <2>4
  <2> HIDE DEF all
  <2>6. \A k \in DOMAIN all : k = 1 \/ (k - 1 \in 1..Len(tools) /\ (k - 1) + 1 = k)
    BY <1>1, <2>5
  <2>7. 1 \in DOMAIN all /\ \A k \in DOMAIN tools : k + 1 \in DOMAIN all
    BY <1>1, <2>5
  <2>8. \A k \in DOMAIN all : all[k] = head \/ \E j \in DOMAIN tools : all[k] = tools[j]
    BY <1>1, <2>4, <2>6
  <2>9. \A x \in Contents(acc) : \E k \in DOMAIN all : all[k] = x
    BY <1>1, <2>3, <2>4, <2>7
  <2> QED BY <1>1, <2>1, <2>2, <2>3, <2>8, <2>9 DEF all
<1> QED BY <1>2, <1>3

\* Indexes tell the blocks apart, and are those handed out.
LEMMA ContentsNumbered ==
  ASSUME NEW acc \in Reply, Numbered(acc)
  PROVE  /\ \A x, y \in Contents(acc) : x.index = y.index => x = y
         /\ \A x \in Contents(acc) : x.index < acc.next
<1>1. \A x \in Contents(acc) : \E k \in DOMAIN Items(acc) : Items(acc)[k] = x
  BY ContentsType
<1>2. /\ \A k \in DOMAIN Items(acc) : Items(acc)[k].index < acc.next
      /\ \A j, k \in DOMAIN Items(acc) : Items(acc)[j].index = Items(acc)[k].index => j = k
  BY ItemsNumbered
<1> QED BY <1>1, <1>2

\* The events that close all blocks.
LEMMA StopsOfContents ==
  ASSUME NEW acc \in Reply
  PROVE  /\ \A x \in Contents(acc) : \E k \in DOMAIN Stops(acc) : Stops(acc)[k] = StopOf(x)
         /\ \A k \in DOMAIN Stops(acc) : Stops(acc)[k].ev = "stop"
<1>1. \A x \in Contents(acc) : \E k \in DOMAIN Items(acc) : Items(acc)[k] = x
  BY ContentsType
<1>2. /\ DOMAIN Stops(acc) = DOMAIN Items(acc)
      /\ \A k \in DOMAIN Items(acc) : Stops(acc)[k] = StopOf(Items(acc)[k])
  BY DEF Stops, StopOf
<1> QED BY <1>1, <1>2 DEF StopOf

LEMMA ListsNothing == Lists(<<>>, {})
BY DEF Lists

\* A word that comes after all others is listed last.
LEMMA ListsMore ==
  ASSUME NEW q \in Seq(Nat), NEW S \in SUBSET Nat, NEW n \in Nat, Lists(q, S),
         \A m \in S : m < n
  PROVE  Lists(Append(q, n), S \cup {n})
<1> DEFINE r == Append(q, n)
<1>1. /\ r \in Seq(Nat) /\ Len(q) \in Nat /\ Len(r) = Len(q) + 1
      /\ r[Len(q) + 1] = n /\ \A k \in 1..Len(q) : r[k] = q[k]
  OBVIOUS
<1>2. /\ DOMAIN r = DOMAIN q \cup {Len(q) + 1} /\ Len(q) + 1 \notin DOMAIN q
      /\ \A k \in DOMAIN q : k < Len(q) + 1 /\ r[k] = q[k]
      /\ \A k \in DOMAIN r : ~(Len(q) + 1 < k)
  BY <1>1
<1> HIDE DEF r
<1>3. {r[k] : k \in DOMAIN r} = S \cup {n}
  <2>1. S = {q[k] : k \in DOMAIN q}
    BY DEF Lists
  <2>2. \A k \in DOMAIN r : r[k] \in S \cup {n}
    BY <1>1, <1>2, <2>1
  <2>3. \A m \in S : \E k \in DOMAIN r : r[k] = m
    BY <1>2, <2>1
  <2>4. \E k \in DOMAIN r : r[k] = n
    BY <1>1, <1>2
  <2> QED BY <2>2, <2>3, <2>4
<1>4. \A j, k \in DOMAIN r : j < k => r[j] < r[k]
  <2> SUFFICES ASSUME NEW j \in DOMAIN r, NEW k \in DOMAIN r, j < k PROVE r[j] < r[k]
    OBVIOUS
  <2>1. j \in DOMAIN q
    BY <1>2
  <2>2. CASE k \in DOMAIN q
    BY <1>2, <2>1, <2>2 DEF Lists
  <2>3. CASE k = Len(q) + 1
    BY <1>1, <1>2, <2>1, <2>3 DEF Lists
  <2> QED BY <1>2, <2>2, <2>3
<1> QED BY <1>3, <1>4 DEF Lists, r

\* What a chunk has of a source it mentions.
LEMMA SpeaksMentions ==
  ASSUME NEW c, NEW s
  PROVE  Speaks(c, s) => Mentions(c, s)
BY DEF Speaks, Mentions

LEMMA DueType ==
  ASSUME TypeOK, NEW s
  PROVE  /\ Len(read) \in Nat /\ DOMAIN read = 1..Len(read)
         /\ Due(s) \in SUBSET Nat
         /\ \A n \in Due(s) : n <= Len(read)
         /\ Speaks(todo, s) => \A n \in Due(s) : n < Len(read)
<1>0. read \in Seq(Chunks)
  BY DEF TypeOK
<1>1. Len(read) \in Nat /\ DOMAIN read = 1..Len(read)
  BY <1>0
<1>2. \A n \in Due(s) : n \in 1..Len(read) /\ (Speaks(todo, s) => n # Len(read))
  BY <1>1 DEF Due
<1>3. \A m \in Nat : \A n \in 1..m : n \in Nat /\ n <= m /\ (n # m => n < m)
  OBVIOUS
<1>4. \A n \in Due(s) : n \in Nat /\ n <= Len(read) /\ (Speaks(todo, s) => n < Len(read))
  BY <1>1, <1>2, <1>3
<1> QED BY <1>1, <1>4

-----------------------------------------------------------------------------
(* Lemmas: what a step of the loop does to the blocks.                     *)

Translates ==
  /\ pc = "reading" /\ out = <<>> /\ ~reply.closed /\ ~reply'.closed
  /\ UNCHANGED <<api, pc, read, sent, client>>
  /\ reply'.text = None => reply'.full = <<>>
  /\ \A k \in DOMAIN reply'.tools : reply'.tools[k].of # "text"

\* A block is opened: it is new, and empty.
Opens(x) ==
  /\ x \in Item /\ x.data = <<>> /\ x.index = reply.next
  /\ ~Begun(x.of) /\ Mentions(todo, x.of)
  /\ Contents(reply') = Contents(reply) \cup {x}
  /\ out' = <<OpenOf(x)>>
  /\ todo' = todo

LEMMA OpenTextOpens ==
  ASSUME TypeOK, StreamInv, Gathered, OpenText
  PROVE  Translates /\ \E x : Opens(x)
<1> DEFINE x == [of |-> "text", index |-> reply.next, data |-> <<>>]
<1>1. /\ pc = "reading" /\ out = <<>> /\ todo.text /\ reply.text = None
      /\ reply' = [reply EXCEPT !.text = reply.next, !.next = reply.next + 1]
      /\ out' = Opened("text", reply.next)
      /\ UNCHANGED <<todo, api, pc, read, sent, client>>
  BY DEF OpenText, Reading, KeepRest
<1>2. reply \in Reply /\ reply.next \in Nat /\ None \notin Nat
  BY StreamConstants DEF TypeOK, Reply
<1>3. /\ reply'.text = reply.next /\ reply'.full = <<>>
      /\ reply'.tools = reply.tools /\ reply'.closed = reply.closed
      /\ \A k \in DOMAIN reply.tools : reply.tools[k].of # "text"
  BY <1>1, <1>2 DEF Reply, Gathered
<1>4. ~reply.closed
  BY <1>1 DEF StreamInv, Phases
<1>5. Translates
  BY <1>1, <1>2, <1>3, <1>4 DEF Translates
<1>6. x \in Item
  <2>1. <<>> \in Seq(Nat)
    OBVIOUS
  <2> QED BY <1>2, <2>1 DEF Item, Sources
<1>7. Contents(reply') = Contents(reply) \cup {x}
  <2>1. Contents(reply) = {reply.tools[k] : k \in DOMAIN reply.tools}
    BY <1>1 DEF Contents
  <2>2. Contents(reply') = {x} \cup {reply.tools[k] : k \in DOMAIN reply.tools}
    BY <1>2, <1>3 DEF Contents
  <2> QED BY <2>1, <2>2
<1>8. ~Begun("text")
  BY <1>1, <1>3 DEF Begun, Contents
<1>9. Mentions(todo, "text")
  BY <1>1 DEF Mentions
<1>10. out' = <<OpenOf(x)>>
  BY <1>1 DEF Opened, OpenOf
<1> QED BY <1>1, <1>5, <1>6, <1>7, <1>8, <1>9, <1>10 DEF Opens

LEMMA OpenCallOpens ==
  ASSUME TypeOK, StreamInv, Gathered, OpenCall
  PROVE  Translates /\ \E x : Opens(x)
<1> DEFINE call == Head(todo.calls).call
           x == [of |-> call, index |-> reply.next, data |-> <<>>]
<1>1. /\ pc = "reading" /\ out = <<>> /\ ~todo.text /\ todo.calls # <<>>
      /\ \A k \in DOMAIN reply.tools : reply.tools[k].of # call
      /\ reply' = [reply EXCEPT !.tools = Append(reply.tools, x), !.next = reply.next + 1]
      /\ out' = Opened(call, reply.next)
      /\ UNCHANGED <<todo, api, pc, read, sent, client>>
  BY DEF OpenCall, Calling, IsOf, Reading, KeepRest
<1>2. reply \in Reply /\ reply.next \in Nat /\ reply.tools \in Seq(Item)
  BY DEF TypeOK, Reply
<1>3. 1 \in DOMAIN todo.calls /\ Head(todo.calls) = todo.calls[1] /\ todo.calls[1] \in Pieces
  <2>1. todo.calls \in Seq(Pieces)
    BY DEF TypeOK, Todo
  <2> QED BY <1>1, <2>1
<1>4. call \in Call /\ call # "text" /\ x.of = call
  BY <1>3, StreamConstants DEF Pieces
<1>5. Mentions(todo, call)
  BY <1>3, <1>4 DEF Mentions
<1>6. x \in Item
  <2>1. <<>> \in Seq(Nat)
    OBVIOUS
  <2> QED BY <1>2, <1>4, <2>1 DEF Item, Sources
<1>7. out' = <<OpenOf(x)>>
  BY <1>1 DEF Opened, OpenOf
<1>8. x.data = <<>> /\ x.index = reply.next
  OBVIOUS
<1> HIDE DEF x, call
<1>9. /\ reply'.text = reply.text /\ reply'.full = reply.full
      /\ reply'.tools = Append(reply.tools, x) /\ reply'.closed = reply.closed
  BY <1>1, <1>2 DEF Reply
<1>10. /\ DOMAIN Append(reply.tools, x) = DOMAIN reply.tools \cup {Len(reply.tools) + 1}
       /\ Append(reply.tools, x)[Len(reply.tools) + 1] = x
       /\ \A k \in DOMAIN reply.tools : Append(reply.tools, x)[k] = reply.tools[k]
  BY <1>2, <1>6
<1>11. ~reply.closed
  BY <1>1 DEF StreamInv, Phases
<1>12. Translates
  <2>1. \A k \in DOMAIN reply'.tools : reply'.tools[k].of # "text"
    BY <1>4, <1>9, <1>10 DEF Gathered
  <2>2. reply'.text = None => reply'.full = <<>>
    BY <1>9 DEF Gathered
  <2> QED BY <1>1, <1>9, <1>11, <2>1, <2>2 DEF Translates
<1>13. Contents(reply') = Contents(reply) \cup {x}
  <2>1. {reply'.tools[k] : k \in DOMAIN reply'.tools}
          = {reply.tools[k] : k \in DOMAIN reply.tools} \cup {x}
    BY <1>9, <1>10
  <2> QED BY <1>9, <2>1 DEF Contents
<1>14. ~Begun(call)
  BY <1>1, <1>4 DEF Begun, Contents
<1> QED BY <1>1, <1>4, <1>5, <1>6, <1>7, <1>8, <1>12, <1>13, <1>14 DEF Opens

\* The pieces that are left after the first one.
LEMMA Rest ==
  ASSUME NEW q \in Seq(Pieces), q # <<>>, FillsOnce(q)
  PROVE  /\ Head(q) \in Pieces /\ FillsOnce(Tail(q))
         /\ \A s : /\ (\E k \in DOMAIN q : q[k].call = s)
                        <=> Head(q).call = s \/ \E k \in DOMAIN Tail(q) : Tail(q)[k].call = s
                   /\ (\E k \in DOMAIN q : q[k].call = s /\ q[k].args)
                        <=> \/ Head(q).call = s /\ Head(q).args
                            \/ \E k \in DOMAIN Tail(q) : Tail(q)[k].call = s /\ Tail(q)[k].args
         /\ Head(q).args => \A k \in DOMAIN Tail(q) :
                              ~(Tail(q)[k].call = Head(q).call /\ Tail(q)[k].args)
<1> DEFINE t == Tail(q)
           h == Head(q)
<1>1. /\ h \in Pieces /\ t \in Seq(Pieces) /\ h = q[1]
      /\ Len(q) \in Nat /\ Len(q) # 0 /\ Len(t) = Len(q) - 1
      /\ \A k \in 1..Len(t) : t[k] = q[k + 1]
  OBVIOUS
<1>2. DOMAIN t = 1..(Len(q) - 1) /\ DOMAIN q = 1..Len(q)
  BY <1>1
<1> HIDE DEF t, h
<1>3. \A k \in DOMAIN t : k \in Nat /\ k # 0 /\ k + 1 # 1 /\ k + 1 \in DOMAIN q /\ t[k] = q[k + 1]
  BY <1>1, <1>2
<1>4. 1 \in DOMAIN q /\ \A k \in DOMAIN q : k # 1 => k - 1 \in DOMAIN t /\ t[k - 1] = q[k]
  BY <1>1, <1>2
<1>5. FillsOnce(t)
  <2> SUFFICES ASSUME NEW j \in DOMAIN t, NEW k \in DOMAIN t, t[j].args, t[k].args,
                      t[j].call = t[k].call
               PROVE  j = k
    BY DEF FillsOnce
  <2>1. j + 1 = k + 1
    BY <1>3 DEF FillsOnce
  <2> QED BY <1>3, <2>1
<1>6. ASSUME h.args, NEW k \in DOMAIN t, t[k].call = h.call, t[k].args PROVE FALSE
  <2>1. k + 1 = 1
    BY <1>1, <1>3, <1>4, <1>6 DEF FillsOnce
  <2> QED BY <1>3, <2>1
<1>7. ASSUME NEW s
      PROVE  /\ (\E k \in DOMAIN q : q[k].call = s)
                  <=> h.call = s \/ \E k \in DOMAIN t : t[k].call = s
             /\ (\E k \in DOMAIN q : q[k].call = s /\ q[k].args)
                  <=> (h.call = s /\ h.args) \/ \E k \in DOMAIN t : t[k].call = s /\ t[k].args
  <2>1. \A k \in DOMAIN q : q[k] = h \/ \E j \in DOMAIN t : q[k] = t[j]
    BY <1>1, <1>4
  <2>2. \A j \in DOMAIN t : \E k \in DOMAIN q : q[k] = t[j]
    BY <1>3
  <2>3. \E k \in DOMAIN q : q[k] = h
    BY <1>1, <1>4
  <2> QED BY <2>1, <2>2, <2>3
<1> QED BY <1>1, <1>5, <1>6, <1>7 DEF t, h

\* The next piece of the chunk goes to the block x.
Takes(x) ==
  /\ x \in Contents(reply) /\ Mentions(todo, x.of)
  /\ Mentions(todo', x.of) => Mentions(todo, x.of)
  /\ \A s \in Sources : s # x.of => /\ Speaks(todo', s) <=> Speaks(todo, s)
                                    /\ Mentions(todo', s) <=> Mentions(todo, s)
  /\ FillsOnce(todo'.calls)

Longer(x) == [of |-> x.of, index |-> x.index, data |-> Append(x.data, Len(read))]

\* It has words, which are the last of the block's.
Writes(x) ==
  /\ Takes(x)
  /\ Speaks(todo, x.of) /\ ~Speaks(todo', x.of)
  /\ Contents(reply') = (Contents(reply) \ {x}) \cup {Longer(x)}
  /\ out' = <<DeltaOf(x, Len(read))>>

\* It has none.
Skips(x) ==
  /\ Takes(x)
  /\ Speaks(todo', x.of) <=> Speaks(todo, x.of)
  /\ UNCHANGED <<reply, out>>

LEMMA WriteTextWrites ==
  ASSUME TypeOK, StreamInv, Leftover, Gathered, WriteText
  PROVE  Translates /\ \E x : Writes(x)
<1> DEFINE x == [of |-> "text", index |-> reply.text, data |-> reply.full]
<1>1. /\ pc = "reading" /\ out = <<>> /\ todo.text /\ reply.text # None
      /\ reply' = [reply EXCEPT !.full = Append(reply.full, Len(read))]
      /\ out' = Delta(reply.text, Len(read))
      /\ todo' = [todo EXCEPT !.text = FALSE]
      /\ UNCHANGED <<api, pc, read, sent, client>>
  BY DEF WriteText, Reading, KeepRest
<1>2. reply \in Reply /\ todo \in Todo
  BY DEF TypeOK, Reply, Todo
<1>3. /\ reply'.text = reply.text /\ reply'.full = Append(reply.full, Len(read))
      /\ reply'.tools = reply.tools /\ reply'.closed = reply.closed
      /\ \A k \in DOMAIN reply.tools : reply.tools[k].of # "text"
  BY <1>1, <1>2 DEF Reply, Gathered
<1>4. ~todo'.text /\ todo'.calls = todo.calls
  BY <1>1, <1>2 DEF Todo
<1>5. ~reply.closed
  BY <1>1 DEF StreamInv, Phases
<1>6. Translates
  BY <1>1, <1>3, <1>5 DEF Translates
<1>7. x.of = "text" /\ x \in Contents(reply)
  BY <1>1 DEF Contents
<1>8. Longer(x) = [of |-> "text", index |-> reply.text, data |-> Append(reply.full, Len(read))]
  BY DEF Longer
<1>9. out' = <<DeltaOf(x, Len(read))>>
  BY <1>1 DEF Delta, DeltaOf
<1>10. Contents(reply') = (Contents(reply) \ {x}) \cup {Longer(x)}
  <2> DEFINE tools == {reply.tools[k] : k \in DOMAIN reply.tools}
  <2>1. Contents(reply) = {x} \cup tools /\ Contents(reply') = {Longer(x)} \cup tools
    BY <1>1, <1>3, <1>8 DEF Contents
  <2>2. x \notin tools
    BY <1>3, <1>7
  <2> QED BY <2>1, <2>2
<1> HIDE DEF x
<1>11. Takes(x)
  BY <1>1, <1>4, <1>7 DEF Takes, Speaks, Mentions, Leftover
<1>12. Speaks(todo, x.of) /\ ~Speaks(todo', x.of)
  BY <1>1, <1>4, <1>7 DEF Speaks
<1> QED BY <1>6, <1>9, <1>10, <1>11, <1>12 DEF Writes

LEMMA WriteCallWrites ==
  ASSUME TypeOK, StreamInv, Leftover, Gathered, WriteCall
  PROVE  Translates /\ \E x : Writes(x) \/ Skips(x)
<1> DEFINE piece == Head(todo.calls)
<1>1. /\ pc = "reading" /\ out = <<>> /\ ~todo.text /\ todo.calls # <<>>
      /\ todo' = [todo EXCEPT !.calls = Tail(todo.calls)]
      /\ UNCHANGED <<api, pc, read, sent, client>>
  BY DEF WriteCall, Calling, Reading, KeepRest
<1>2. PICK k \in DOMAIN reply.tools :
        /\ reply.tools[k].of = piece.call
        /\ IF piece.args
           THEN /\ reply' = [reply EXCEPT !.tools[k].data = Append(@, Len(read))]
                /\ out' = Delta(reply.tools[k].index, Len(read))
           ELSE UNCHANGED <<reply, out>>
  BY DEF WriteCall, IsOf
<1>3. /\ reply \in Reply /\ reply.tools \in Seq(Item) /\ todo \in Todo
      /\ todo.calls \in Seq(Pieces)
  BY DEF TypeOK, Reply, Todo
<1> DEFINE x == reply.tools[k]
           others == {reply.tools[j] : j \in DOMAIN reply.tools \ {k}}
<1>4. x \in Item /\ x \in Contents(reply)
  BY <1>2, <1>3 DEF Contents
<1>5. todo'.text = todo.text /\ todo'.calls = Tail(todo.calls)
  BY <1>1, <1>3 DEF Todo
<1>6. ~reply.closed /\ Numbered(reply)
  BY <1>1 DEF StreamInv, Phases
<1>7. piece \in Pieces /\ piece.call # "text" /\ x.of = piece.call
  BY <1>1, <1>2, <1>3, Rest, StreamConstants DEF Leftover, Pieces
<1>12. /\ \A s : /\ (\E j \in DOMAIN todo.calls : todo.calls[j].call = s)
                        <=> piece.call = s
                              \/ \E j \in DOMAIN Tail(todo.calls) : Tail(todo.calls)[j].call = s
                 /\ (\E j \in DOMAIN todo.calls : todo.calls[j].call = s /\ todo.calls[j].args)
                        <=> \/ piece.call = s /\ piece.args
                            \/ \E j \in DOMAIN Tail(todo.calls) :
                                 Tail(todo.calls)[j].call = s /\ Tail(todo.calls)[j].args
       /\ piece.args => \A j \in DOMAIN Tail(todo.calls) :
                          ~(Tail(todo.calls)[j].call = piece.call /\ Tail(todo.calls)[j].args)
  <2>1. FillsOnce(todo.calls)
    BY DEF Leftover
  <2> QED BY <1>1, <1>3, <2>1, Rest
<1>8. \A s : /\ Mentions(todo, s) <=> Mentions(todo', s) \/ s = piece.call
             /\ Speaks(todo, s) <=> Speaks(todo', s) \/ (s = piece.call /\ piece.args)
  <2> TAKE s
  <2>1. CASE s = "text"
    BY <1>5, <1>7, <2>1 DEF Mentions, Speaks
  <2>2. CASE s # "text"
    <3> HIDE DEF piece
    <3>1. /\ (\E j \in DOMAIN todo.calls : todo.calls[j].call = s)
               <=> piece.call = s \/ \E j \in DOMAIN Tail(todo.calls) : Tail(todo.calls)[j].call = s
          /\ (\E j \in DOMAIN todo.calls : todo.calls[j].call = s /\ todo.calls[j].args)
               <=> \/ piece.call = s /\ piece.args
                   \/ \E j \in DOMAIN Tail(todo.calls) :
                        Tail(todo.calls)[j].call = s /\ Tail(todo.calls)[j].args
      BY <1>12
    <3> QED BY <1>5, <2>2, <3>1 DEF Mentions, Speaks
  <2> QED BY <2>1, <2>2
<1>9. Takes(x)
  <2>1. FillsOnce(todo'.calls)
    BY <1>1, <1>3, <1>5, Rest DEF Leftover
  <2>2. \A s \in Sources : s # x.of => /\ Speaks(todo', s) <=> Speaks(todo, s)
                                       /\ Mentions(todo', s) <=> Mentions(todo, s)
    BY <1>7, <1>8
  <2> HIDE DEF x, piece
  <2> QED BY <1>4, <1>7, <1>8, <2>1, <2>2 DEF Takes
<1>10. CASE ~piece.args
  <2>1. UNCHANGED <<reply, out>>
    BY <1>2, <1>10
  <2>2. Speaks(todo', x.of) <=> Speaks(todo, x.of)
    BY <1>7, <1>8, <1>10
  <2>3. Translates
    BY <1>1, <1>6, <2>1 DEF Translates, Gathered
  <2> HIDE DEF x
  <2> QED BY <1>9, <2>1, <2>2, <2>3 DEF Skips
<1>11. CASE piece.args
  <2>1. /\ reply' = [reply EXCEPT !.tools[k].data = Append(@, Len(read))]
        /\ out' = Delta(reply.tools[k].index, Len(read))
    BY <1>2, <1>11
  <2>2. reply' = [reply EXCEPT !.tools = [reply.tools EXCEPT ![k] = Longer(x)]]
    <3>1. [x EXCEPT !.data = Append(x.data, Len(read))] = Longer(x)
      <4>1. \A d : \A y \in Item :
              [y EXCEPT !.data = d] = [of |-> y.of, index |-> y.index, data |-> d]
        BY DEF Item
      <4> HIDE DEF x
      <4> QED BY <1>4, <4>1 DEF Longer
    <3> QED BY <2>1, <3>1
  <2>3. out' = <<DeltaOf(x, Len(read))>>
    BY <2>1 DEF Delta, DeltaOf
  <2>4. Longer(x).of = x.of
    BY <1>4 DEF Longer, Item
  <2>5. \A j \in DOMAIN reply.tools : j # k => reply.tools[j] # x
    BY <1>6 DEF Numbered
  <2>6. /\ reply'.text = reply.text /\ reply'.full = reply.full /\ reply'.closed = reply.closed
        /\ reply'.tools = [reply.tools EXCEPT ![k] = Longer(x)]
    BY <1>3, <2>2 DEF Reply
  <2>7. /\ DOMAIN reply'.tools = DOMAIN reply.tools
        /\ reply'.tools[k] = Longer(x)
        /\ \A j \in DOMAIN reply.tools : j # k => reply'.tools[j] = reply.tools[j]
    BY <1>2, <1>3, <2>6
  <2>8. \A j \in DOMAIN reply.tools : reply.tools[j].of # "text"
    BY DEF Gathered
  <2>9. \A j \in DOMAIN reply'.tools : reply'.tools[j].of # "text"
    BY <1>2, <2>4, <2>7, <2>8
  <2>10. Translates
    BY <1>1, <1>6, <2>6, <2>9 DEF Translates, Gathered
  <2>11. Speaks(todo, x.of) /\ ~Speaks(todo', x.of)
    <3>1. Speaks(todo, x.of)
      BY <1>7, <1>8, <1>11
    <3>2. ~\E j \in DOMAIN todo'.calls : todo'.calls[j].call = x.of /\ todo'.calls[j].args
      BY <1>5, <1>7, <1>11, <1>12
    <3> QED BY <1>7, <3>1, <3>2 DEF Speaks
  <2>12. Contents(reply') = (Contents(reply) \ {x}) \cup {Longer(x)}
    <3> DEFINE text == IF reply.text = None THEN {}
                       ELSE {[of |-> "text", index |-> reply.text, data |-> reply.full]}
    <3>1. {reply.tools[j] : j \in DOMAIN reply.tools} = others \cup {x}
      BY <1>2
    <3>2. {reply'.tools[j] : j \in DOMAIN reply'.tools} = others \cup {Longer(x)}
      BY <1>2, <2>7
    <3>3. x \notin others /\ x \notin text
      <4>1. x \notin others
        BY <2>5
      <4>2. x \notin text
        BY <1>7
      <4> QED BY <4>1, <4>2
    <3>4. Contents(reply) = text \cup (others \cup {x})
      BY <3>1 DEF Contents
    <3>5. Contents(reply') = text \cup (others \cup {Longer(x)})
      BY <2>6, <3>2 DEF Contents
    <3> HIDE DEF text, others, x
    <3> QED BY <3>3, <3>4, <3>5
  <2> HIDE DEF x
  <2> QED BY <1>9, <2>3, <2>10, <2>11, <2>12 DEF Writes
<1> QED BY <1>10, <1>11

-----------------------------------------------------------------------------
(* What the blocks hold.                                                   *)

LEMMA LastRead ==
  ASSUME TypeOK, Leftover, NEW s \in Sources, Mentions(todo, s)
  PROVE  Len(read) \in DOMAIN read /\ Mentions(read[Len(read)], s) /\ Mentioned(s)
<1>1. read \in Seq(Chunks) /\ read # <<>>
  BY DEF TypeOK, Leftover
<1>2. Len(read) \in DOMAIN read
  BY <1>1
<1> QED BY <1>2 DEF Leftover, Mentioned

LEMMA OpensGathers ==
  ASSUME TypeOK, Leftover, Gathered, Translates, NEW x, Opens(x)
  PROVE  (Leftover /\ Gathered)'
<1>1. UNCHANGED <<read, todo>> /\ Contents(reply') = Contents(reply) \cup {x}
  BY DEF Translates, Opens
<1>2. x \in Item /\ x.of \in Sources /\ x.data = <<>> /\ ~Begun(x.of) /\ Mentions(todo, x.of)
  BY DEF Opens, Item
<1>3. \A s : Due(s)' = Due(s) /\ (Mentioned(s)' <=> Mentioned(s))
  BY <1>1 DEF Due, Mentioned
<1>4. \A s : Begun(s)' <=> Begun(s) \/ s = x.of
  BY <1>1 DEF Begun
<1>5. Mentioned(x.of)
  BY <1>2, LastRead
<1>6. Due(x.of) = {}
  BY <1>2 DEF Gathered
<1>7. \A y, z \in Contents(reply') : y.of = z.of => y = z
  BY <1>1, <1>2 DEF Gathered, Begun
<1>8. \A y \in Contents(reply') : Mentioned(y.of)' /\ Lists(y.data, Due(y.of)')
  BY <1>1, <1>2, <1>3, <1>5, <1>6, ListsNothing DEF Gathered
<1>9. \A s \in Sources : (Due(s) # {})' => Begun(s)'
  BY <1>3, <1>4 DEF Gathered
<1>10. \A s \in Sources, n \in DOMAIN read :
         Mentions(read[n], s) /\ ~(n = Len(read) /\ Mentions(todo, s)) => Begun(s)'
  BY <1>4 DEF Gathered
<1>11. Leftover'
  BY <1>1 DEF Leftover
<1> QED BY <1>1, <1>7, <1>8, <1>9, <1>10, <1>11 DEF Gathered, Translates

LEMMA WritesGathers ==
  ASSUME TypeOK, Leftover, Gathered, Translates, NEW x, Writes(x)
  PROVE  (Leftover /\ Gathered)'
<1> DEFINE n == Len(read)
           y == Longer(x)
<1>1. /\ UNCHANGED read /\ Contents(reply') = (Contents(reply) \ {x}) \cup {y}
      /\ x \in Contents(reply) /\ Speaks(todo, x.of) /\ ~Speaks(todo', x.of)
      /\ Mentions(todo, x.of) /\ FillsOnce(todo'.calls)
      /\ \A s \in Sources : s # x.of => /\ Speaks(todo', s) <=> Speaks(todo, s)
                                        /\ Mentions(todo', s) <=> Mentions(todo, s)
  BY DEF Translates, Writes, Takes
<1>2. x \in Item
  BY <1>1, ContentsType DEF TypeOK, Reply
<1>3. x.of \in Sources /\ x.data \in Seq(Nat)
  BY <1>2 DEF Item
<1>4. y.of = x.of /\ y.data = Append(x.data, n)
  BY DEF Longer
<1> HIDE DEF y
<1>5. n \in DOMAIN read /\ n \in Nat /\ Speaks(read[n], x.of)
  BY <1>1, <1>3, LastRead, DueType DEF Leftover
<1>6. Due(x.of)' = Due(x.of) \cup {n}
  BY <1>1, <1>5 DEF Due
<1>7. \A s \in Sources : s # x.of => Due(s)' = Due(s)
  BY <1>1 DEF Due
<1>8. \A s : Mentioned(s)' <=> Mentioned(s)
  BY <1>1 DEF Mentioned
<1>9. \A s : Begun(s)' <=> Begun(s)
  BY <1>1, <1>4 DEF Begun
<1>10. Begun(x.of)
  BY <1>1 DEF Begun
<1>11. Lists(y.data, Due(x.of)')
  <2>1. Due(x.of) \in SUBSET Nat /\ \A m \in Due(x.of) : m < n
    BY <1>1, DueType
  <2>2. Lists(x.data, Due(x.of))
    BY <1>1 DEF Gathered
  <2> HIDE DEF n
  <2> QED BY <1>3, <1>4, <1>5, <1>6, <2>1, <2>2, ListsMore
<1>12. \A u, v \in Contents(reply') : u.of = v.of => u = v
  BY <1>1, <1>4 DEF Gathered
<1>13. \A u \in Contents(reply') : Mentioned(u.of)' /\ Lists(u.data, Due(u.of)')
  <2> SUFFICES ASSUME NEW u \in Contents(reply') PROVE Mentioned(u.of)' /\ Lists(u.data, Due(u.of)')
    OBVIOUS
  <2>1. CASE u = y
    BY <1>1, <1>4, <1>8, <1>11, <2>1 DEF Gathered
  <2>2. CASE u # y
    <3>1. u \in Contents(reply) /\ u # x
      BY <1>1, <2>2
    <3>2. u.of # x.of
      BY <1>1, <3>1 DEF Gathered
    <3>3. u.of \in Sources
      BY <3>1, ContentsType DEF TypeOK, Reply, Item
    <3> QED BY <1>7, <1>8, <3>1, <3>2, <3>3 DEF Gathered
  <2> QED BY <2>1, <2>2
<1>14. \A s \in Sources : (Due(s) # {})' => Begun(s)'
  <2> TAKE s \in Sources
  <2>1. CASE s = x.of
    BY <1>9, <1>10, <2>1
  <2>2. CASE s # x.of
    BY <1>7, <1>9, <2>2 DEF Gathered
  <2> QED BY <2>1, <2>2
<1>15. \A s \in Sources, m \in DOMAIN read :
         Mentions(read[m], s) /\ ~(m = Len(read) /\ Mentions(todo', s)) => Begun(s)'
  <2> TAKE s \in Sources, m \in DOMAIN read
  <2>1. CASE s = x.of
    BY <1>9, <1>10, <2>1
  <2>2. CASE s # x.of
    BY <1>1, <1>9, <2>2 DEF Gathered
  <2> QED BY <2>1, <2>2
<1>16. Leftover'
  <2> SUFFICES ASSUME NEW s \in Sources
               PROVE  /\ Speaks(todo', s) => read # <<>> /\ Speaks(read[Len(read)], s)
                      /\ Mentions(todo', s) => read # <<>> /\ Mentions(read[Len(read)], s)
    BY <1>1 DEF Leftover
  <2>1. CASE s = x.of
    BY <1>1, <2>1 DEF Leftover
  <2>2. CASE s # x.of
    BY <1>1, <2>2 DEF Leftover
  <2> QED BY <2>1, <2>2
<1> HIDE DEF n
<1> QED BY <1>1, <1>12, <1>13, <1>14, <1>15, <1>16 DEF Gathered, Translates

LEMMA SkipsGathers ==
  ASSUME TypeOK, Leftover, Gathered, Translates, NEW x, Skips(x)
  PROVE  (Leftover /\ Gathered)'
<1>1. /\ UNCHANGED <<read, reply>> /\ x \in Contents(reply) /\ Mentions(todo, x.of)
      /\ FillsOnce(todo'.calls)
      /\ \A s \in Sources : /\ Speaks(todo', s) <=> Speaks(todo, s)
                            /\ s # x.of => (Mentions(todo', s) <=> Mentions(todo, s))
  BY DEF Translates, Skips, Takes
<1>2. Begun(x.of)
  BY <1>1 DEF Begun
<1>3. \A s \in Sources : Due(s)' = Due(s)
  BY <1>1 DEF Due
<1>4. \A s : /\ Mentioned(s)' <=> Mentioned(s)
             /\ Begun(s)' <=> Begun(s)
  BY <1>1 DEF Mentioned, Begun
<1>5. \A u \in Contents(reply') : Mentioned(u.of)' /\ Lists(u.data, Due(u.of)')
  <2> SUFFICES ASSUME NEW u \in Contents(reply) PROVE Mentioned(u.of)' /\ Lists(u.data, Due(u.of)')
    BY <1>1
  <2>1. u.of \in Sources
    BY ContentsType DEF TypeOK, Reply, Item
  <2> QED BY <1>3, <1>4, <2>1 DEF Gathered
<1>6. \A s \in Sources : (Due(s) # {})' => Begun(s)'
  BY <1>3, <1>4 DEF Gathered
<1>7. \A s \in Sources, m \in DOMAIN read :
        Mentions(read[m], s) /\ ~(m = Len(read) /\ Mentions(todo', s)) => Begun(s)'
  BY <1>1, <1>2, <1>4 DEF Gathered
<1>8. Leftover'
  BY <1>1 DEF Leftover
<1> QED BY <1>1, <1>5, <1>6, <1>7, <1>8 DEF Gathered, Translates

\* Nothing of a chunk is left when its finish_reason is looked at, and after.
LEMMA NothingLeft ==
  ASSUME NEW t, ~t.text, t.calls = <<>>
  PROVE  (\A s : ~Speaks(t, s) /\ ~Mentions(t, s)) /\ FillsOnce(t.calls)
BY DEF Speaks, Mentions, FillsOnce

LEMMA DoneIsNothing == ~Done.text /\ Done.calls = <<>>
BY DEF Done

LEMMA FinishGathers ==
  ASSUME TypeOK, Leftover, Gathered, Finish
  PROVE  (Leftover /\ Gathered)' /\ Contents(reply') = Contents(reply)
<1>1. ~todo.text /\ todo.calls = <<>> /\ todo' = Done /\ UNCHANGED read
  BY DEF Finish, KeepRest
<1>2. /\ \A s : ~Speaks(todo, s) /\ ~Mentions(todo, s)
      /\ \A s : ~Speaks(todo', s) /\ ~Mentions(todo', s)
      /\ FillsOnce(todo'.calls)
  BY <1>1, NothingLeft, DoneIsNothing
<1>3. /\ reply'.text = reply.text /\ reply'.full = reply.full /\ reply'.tools = reply.tools
  BY DEF Finish, TypeOK, Reply
<1>4. Contents(reply') = Contents(reply)
  BY <1>3 DEF Contents
<1>5. \A s : /\ Due(s)' = Due(s)
             /\ Mentioned(s)' <=> Mentioned(s)
             /\ Begun(s)' <=> Begun(s)
  BY <1>1, <1>2, <1>4 DEF Due, Mentioned, Begun
<1>6. Leftover'
  BY <1>2 DEF Leftover
<1>7. Gathered'
  <2>1. \A s \in Sources, n \in DOMAIN read : Mentions(read[n], s) => Begun(s)'
    BY <1>2, <1>5 DEF Gathered
  <2> QED BY <1>1, <1>3, <1>4, <1>5, <2>1 DEF Gathered
<1> QED BY <1>4, <1>6, <1>7

LEMMA ReadGathers ==
  ASSUME TypeOK, Leftover, Gathered, ReadChunk, OneFill
  PROVE  (Leftover /\ Gathered)' /\ Contents(reply') = Contents(reply)
<1>1. PICK c \in Chunks :
        /\ todo' = [text |-> c.text, calls |-> c.calls, finish |-> c.finish]
        /\ reply' = Usage(reply, c)
        /\ read' = Append(read, c)
  BY DEF ReadChunk
<1>2. todo = Done /\ read \in Seq(Chunks)
  BY DEF ReadChunk, TypeOK
<1>3. \A s : ~Speaks(todo, s) /\ ~Mentions(todo, s)
  BY <1>2, NothingLeft, DoneIsNothing
<1>4. \A s : /\ Speaks(todo', s) <=> Speaks(c, s)
             /\ Mentions(todo', s) <=> Mentions(c, s)
  BY <1>1 DEF Speaks, Mentions
<1>5. FillsOnce(todo'.calls)
  BY <1>1 DEF OneFill
<1>6. /\ Len(read') = Len(read) + 1 /\ Len(read') \notin DOMAIN read
      /\ DOMAIN read' = DOMAIN read \cup {Len(read')}
      /\ read'[Len(read')] = c /\ read' # <<>>
      /\ \A n \in DOMAIN read : read'[n] = read[n]
  BY <1>1, <1>2
<1>7. /\ reply'.text = reply.text /\ reply'.full = reply.full /\ reply'.tools = reply.tools
  BY <1>1 DEF Usage, TypeOK, Reply
<1>8. Contents(reply') = Contents(reply)
  BY <1>7 DEF Contents
<1>9. \A s : Due(s)' = Due(s)
  <2> TAKE s
  <2>1. Due(s) = {n \in DOMAIN read : Speaks(read[n], s)}
    BY <1>3 DEF Due
  <2>2. Due(s)' = {n \in DOMAIN read' :
                     Speaks(read'[n], s) /\ ~(n = Len(read') /\ Speaks(todo', s))}
    BY DEF Due
  <2>3. \A n \in Due(s) : n \in Due(s)'
    BY <1>6, <2>1, <2>2
  <2>4. \A n \in Due(s)' : n \in Due(s)
    BY <1>4, <1>6, <2>1, <2>2
  <2> QED BY <2>3, <2>4
<1>10. \A s : /\ Mentioned(s) => Mentioned(s)'
              /\ Begun(s)' <=> Begun(s)
  BY <1>6, <1>8 DEF Mentioned, Begun
<1>11. Leftover'
  BY <1>4, <1>5, <1>6 DEF Leftover
<1>12. Gathered'
  <2>1. \A s \in Sources, n \in DOMAIN read' :
          Mentions(read'[n], s) /\ ~(n = Len(read') /\ Mentions(todo', s)) => Begun(s)'
    BY <1>3, <1>4, <1>6, <1>10 DEF Gathered
  <2> QED BY <1>7, <1>8, <1>9, <1>10, <2>1 DEF Gathered
<1> QED BY <1>8, <1>11, <1>12

-----------------------------------------------------------------------------
(* What the client is given.                                               *)

LEMMA NothingGiven ==
  ASSUME Passed, UNCHANGED <<reply, todo, api>>, pc = "last" => pc' = "last",
         \A e : e.ev \in {"open", "delta", "stop", "end"} => (e \in Given' <=> e \in Given)
  PROVE  Passed'
<1>1. \A x : /\ OpenOf(x).ev = "open" /\ StopOf(x).ev = "stop" /\ StopOf(x)' = StopOf(x)
             /\ \A n : DeltaOf(x, n).ev = "delta"
  BY DEF OpenOf, StopOf, DeltaOf
<1>2. \A e \in Given' : e.ev \in {"open", "delta", "end"} => e \in Given
  OBVIOUS
<1>3. \A x \in Contents(reply) : StopOf(x) \in Given => StopOf(x)' \in Given'
  BY <1>1
<1>4. \A x \in Contents(reply) :
        /\ OpenOf(x) \in Given'
        /\ \A k \in DOMAIN x.data : DeltaOf(x, x.data[k]) \in Given'
        /\ reply.closed => StopOf(x)' \in Given'
  BY <1>1, <1>3 DEF Passed
<1>5. \A e \in Given' : e.ev = "end" =>
        /\ pc' = "last" /\ todo = Done
        /\ \A x \in Contents(reply) : StopOf(x)' \in Given'
        /\ api = "responses" => e.items = Items(reply)
  BY <1>2, <1>3 DEF Passed
<1>6. \A e \in Given' : e.ev = "open" => \E x \in Contents(reply) : e = OpenOf(x)
  BY <1>2 DEF Passed
<1>7. \A e \in Given' : e.ev = "delta" =>
        \E x \in Contents(reply) : \E k \in DOMAIN x.data : e = DeltaOf(x, x.data[k])
  BY <1>2 DEF Passed
<1> QED BY <1>4, <1>5, <1>6, <1>7 DEF Passed

\* What is queued alone.
LEMMA OneGiven ==
  ASSUME out = <<>>, NEW e, out' = <<e>>, UNCHANGED sent
  PROVE  Given' = Given \cup {e}
<1>1. DOMAIN <<e>> = {1} /\ <<e>>[1] = e
  OBVIOUS
<1>2. {<<e>>[k] : k \in DOMAIN <<e>>} = {e}
  BY <1>1
<1>3. {out[k] : k \in DOMAIN out} = {}
  OBVIOUS
<1> QED BY <1>2, <1>3 DEF Given, SentEvents

LEMMA OpensPasses ==
  ASSUME Passed, Translates, NEW x, Opens(x)
  PROVE  Passed'
<1>1. /\ Contents(reply') = Contents(reply) \cup {x} /\ x.data = <<>>
      /\ Given' = Given \cup {OpenOf(x)} /\ pc = "reading" /\ ~reply'.closed
  BY OneGiven DEF Opens, Translates
<1>2. OpenOf(x).ev = "open"
  BY DEF OpenOf
<1>3. \A e \in Given' : e.ev = "open" => \E y \in Contents(reply') : e = OpenOf(y)
  BY <1>1 DEF Passed
<1>4. \A e \in Given' : e.ev = "delta" =>
        \E y \in Contents(reply') : \E k \in DOMAIN y.data : e = DeltaOf(y, y.data[k])
  BY <1>1, <1>2 DEF Passed
<1>5. \A y \in Contents(reply') : /\ OpenOf(y) \in Given'
                                  /\ \A k \in DOMAIN y.data : DeltaOf(y, y.data[k]) \in Given'
  BY <1>1 DEF Passed
<1>6. \A e \in Given' : e.ev # "end"
  BY <1>1, <1>2 DEF Passed
<1> QED BY <1>1, <1>3, <1>4, <1>5, <1>6 DEF Passed

LEMMA WritesPasses ==
  ASSUME TypeOK, Passed, Translates, NEW x, Writes(x)
  PROVE  Passed'
<1> DEFINE n == Len(read)
           y == Longer(x)
<1>1. /\ Contents(reply') = (Contents(reply) \ {x}) \cup {y} /\ x \in Contents(reply)
      /\ Given' = Given \cup {DeltaOf(x, n)} /\ pc = "reading" /\ ~reply'.closed
  BY OneGiven DEF Writes, Takes, Translates
<1>2. x.data \in Seq(Nat) /\ n \in Nat
  BY <1>1, ContentsType, DueType DEF TypeOK, Reply, Item
<1>3. /\ OpenOf(y) = OpenOf(x) /\ y.data = Append(x.data, n)
      /\ \A m : DeltaOf(y, m) = DeltaOf(x, m)
      /\ \A m : DeltaOf(x, m).ev = "delta"
  BY DEF Longer, OpenOf, DeltaOf
<1> HIDE DEF y, n
<1>4. /\ DOMAIN y.data = DOMAIN x.data \cup {Len(x.data) + 1}
      /\ y.data[Len(x.data) + 1] = n
      /\ \A k \in DOMAIN x.data : y.data[k] = x.data[k]
  BY <1>2, <1>3
<1>5. \A e \in Given' : e.ev = "open" => \E z \in Contents(reply') : e = OpenOf(z)
  BY <1>1, <1>3 DEF Passed
<1>6. \A e \in Given' : e.ev = "delta" =>
        \E z \in Contents(reply') : \E k \in DOMAIN z.data : e = DeltaOf(z, z.data[k])
  <2> SUFFICES ASSUME NEW e \in Given', e.ev = "delta"
               PROVE  \E z \in Contents(reply') : \E k \in DOMAIN z.data : e = DeltaOf(z, z.data[k])
    OBVIOUS
  <2>1. CASE e = DeltaOf(x, n)
    <3>1. y \in Contents(reply') /\ Len(x.data) + 1 \in DOMAIN y.data
      BY <1>1, <1>4
    <3>2. e = DeltaOf(y, y.data[Len(x.data) + 1])
      BY <1>3, <1>4, <2>1
    <3> QED BY <3>1, <3>2
  <2>2. CASE e \in Given
    <3>1. PICK z \in Contents(reply) : \E k \in DOMAIN z.data : e = DeltaOf(z, z.data[k])
      BY <2>2 DEF Passed
    <3>2. CASE z = x
      <4>1. PICK k \in DOMAIN x.data : e = DeltaOf(x, x.data[k])
        BY <3>1, <3>2
      <4>2. k \in DOMAIN y.data /\ e = DeltaOf(y, y.data[k]) /\ y \in Contents(reply')
        BY <1>1, <1>3, <1>4, <4>1
      <4> QED BY <4>2
    <3>3. CASE z # x
      BY <1>1, <3>1, <3>3
    <3> QED BY <3>2, <3>3
  <2> QED BY <1>1, <2>1, <2>2
<1>7. \A z \in Contents(reply') : /\ OpenOf(z) \in Given'
                                  /\ \A k \in DOMAIN z.data : DeltaOf(z, z.data[k]) \in Given'
  <2> TAKE z \in Contents(reply')
  <2>1. CASE z = y
    BY <1>1, <1>3, <1>4, <2>1 DEF Passed
  <2>2. CASE z # y
    BY <1>1, <2>2 DEF Passed
  <2> QED BY <2>1, <2>2
<1>8. \A e \in Given' : e.ev # "end"
  BY <1>1, <1>3 DEF Passed
<1> QED BY <1>1, <1>5, <1>6, <1>7, <1>8 DEF Passed

LEMMA SkipsPasses ==
  ASSUME Passed, Translates, NEW x, Skips(x)
  PROVE  Passed'
<1>1. UNCHANGED <<reply, api>> /\ Given' = Given /\ pc = "reading" /\ pc' = pc
  BY DEF Skips, Translates, Given, SentEvents
<1>2. \A e \in Given' : e.ev # "end"
  BY <1>1 DEF Passed
<1>3. \A x1 : StopOf(x1)' = StopOf(x1)
  BY <1>1 DEF StopOf
<1> QED BY <1>1, <1>2, <1>3 DEF Passed

LEMMA FarewellEvents ==
  ASSUME NEW acc \in Reply
  PROVE  \A k \in DOMAIN Farewell(acc) :
           Farewell(acc)[k].ev = "stop" \/ Farewell(acc)[k] = Completed(acc)
<1>1. CASE acc.closed
  BY <1>1, FarewellType
<1>2. CASE ~acc.closed
  <2> DEFINE n == Len(Items(acc))
             all == Farewell(acc)
  <2>1. /\ all \in Seq(Event) /\ Len(all) = n + 1
        /\ \A k \in 1..n : all[k].ev = "stop"
        /\ all[n + 1] = Completed(acc)
    BY <1>2, FarewellType, StopsType
  <2>2. n \in Nat
    BY ItemsType
  <2> HIDE DEF n, all
  <2>3. \A k \in DOMAIN all : k \in 1..n \/ k = n + 1
    BY <2>1, <2>2
  <2> QED BY <2>1, <2>3 DEF all
<1> QED BY <1>1, <1>2

\* What is queued to close all blocks.
LEMMA ClosingGiven ==
  ASSUME NEW acc \in Reply, out = <<>>, UNCHANGED sent
  PROVE  /\ out' = Stops(acc) => /\ Given \subseteq Given'
                                 /\ \A e \in Given' : e \in Given \/ e.ev = "stop"
                                 /\ \A x \in Contents(acc) : StopOf(x) \in Given'
         /\ out' = Farewell(acc) => /\ Given \subseteq Given'
                                    /\ \A e \in Given' : \/ e \in Given \/ e.ev = "stop"
                                                         \/ e = Completed(acc)
                                    /\ ~acc.closed => \A x \in Contents(acc) : StopOf(x) \in Given'
<1>1. \A e : /\ e \in Given <=> e \in SentEvents
             /\ e \in Given' <=> e \in SentEvents \/ \E k \in DOMAIN out' : out'[k] = e
  <2>1. {out[k] : k \in DOMAIN out} = {}
    OBVIOUS
  <2> QED BY <2>1 DEF Given, SentEvents
<1>2. /\ \A x \in Contents(acc) : \E k \in DOMAIN Stops(acc) : Stops(acc)[k] = StopOf(x)
      /\ \A k \in DOMAIN Stops(acc) : Stops(acc)[k].ev = "stop"
  BY StopsOfContents
<1>3. \A k \in DOMAIN Farewell(acc) :
        Farewell(acc)[k].ev = "stop" \/ Farewell(acc)[k] = Completed(acc)
  BY FarewellEvents
<1>4. ~acc.closed =>
        \A x \in Contents(acc) : \E k \in DOMAIN Farewell(acc) : Farewell(acc)[k] = StopOf(x)
  <2> SUFFICES ASSUME ~acc.closed, NEW x \in Contents(acc)
               PROVE  \E k \in DOMAIN Farewell(acc) : Farewell(acc)[k] = StopOf(x)
    OBVIOUS
  <2>1. PICK k \in DOMAIN Stops(acc) : Stops(acc)[k] = StopOf(x)
    BY <1>2
  <2> DEFINE n == Len(Items(acc))
             all == Farewell(acc)
             stops == Stops(acc)
  <2>2. /\ all \in Seq(Event) /\ Len(all) = n + 1
        /\ stops \in Seq(Event) /\ Len(stops) = n
        /\ \A j \in 1..n : all[j] = stops[j]
    BY FarewellType, StopsType
  <2> HIDE DEF n, all, stops
  <2>3. n \in Nat /\ DOMAIN stops = 1..n /\ DOMAIN all = 1..(n + 1)
    BY <2>2
  <2>4. k \in 1..n
    BY <2>1, <2>3 DEF stops
  <2>5. k \in DOMAIN all /\ all[k] = stops[k]
    BY <2>2, <2>3, <2>4
  <2> QED BY <2>1, <2>5 DEF all, stops
<1>5. ASSUME out' = Stops(acc)
      PROVE  /\ Given \subseteq Given'
             /\ \A e \in Given' : e \in Given \/ e.ev = "stop"
             /\ \A x \in Contents(acc) : StopOf(x) \in Given'
  BY <1>1, <1>2, <1>5
<1>6. ASSUME out' = Farewell(acc)
      PROVE  /\ Given \subseteq Given'
             /\ \A e \in Given' : e \in Given \/ e.ev = "stop" \/ e = Completed(acc)
             /\ ~acc.closed => \A x \in Contents(acc) : StopOf(x) \in Given'
  BY <1>1, <1>3, <1>4, <1>6
<1> QED BY <1>5, <1>6

LEMMA FinishPasses ==
  ASSUME TypeOK, Passed, Finish, Contents(reply') = Contents(reply)
  PROVE  Passed'
<1>1. /\ out = <<>> /\ pc = "reading" /\ UNCHANGED <<sent, api, pc>> /\ reply \in Reply
  BY DEF Finish, Reading, KeepRest, TypeOK, Reply
<1>2. \A x : /\ StopOf(x)' = StopOf(x)
             /\ OpenOf(x).ev = "open"
             /\ \A n : DeltaOf(x, n).ev = "delta"
  BY <1>1 DEF StopOf, OpenOf, DeltaOf
<1>3. \A e \in Given : e.ev # "end"
  BY <1>1 DEF Passed
<1>4. CASE reply.closed
  <2>1. UNCHANGED <<reply, out>>
    BY <1>4 DEF Finish
  <2>2. Given' = Given
    BY <1>1, <2>1 DEF Given, SentEvents
  <2> QED BY <1>1, <1>2, <1>3, <2>1, <2>2 DEF Passed
<1>5. CASE ~reply.closed
  <2>1. /\ Given \subseteq Given'
        /\ \A e \in Given' : e \in Given \/ e.ev = "stop"
        /\ \A x \in Contents(reply) : StopOf(x) \in Given'
    BY <1>1, <1>5, ClosingGiven DEF Finish
  <2>2. \A e \in Given' : e.ev \in {"open", "delta"} => e \in Given
    BY <2>1
  <2>3. \A e \in Given' : e.ev # "end"
    BY <1>3, <2>1
  <2>4. \A e \in Given' : e.ev = "open" => \E x \in Contents(reply) : e = OpenOf(x)
    BY <2>2 DEF Passed
  <2>5. \A e \in Given' : e.ev = "delta" =>
          \E x \in Contents(reply) : \E k \in DOMAIN x.data : e = DeltaOf(x, x.data[k])
    BY <2>2 DEF Passed
  <2>6. \A x \in Contents(reply) : /\ OpenOf(x) \in Given'
                                   /\ \A k \in DOMAIN x.data : DeltaOf(x, x.data[k]) \in Given'
                                   /\ StopOf(x)' \in Given'
    BY <1>2, <2>1 DEF Passed
  <2> QED BY <2>3, <2>4, <2>5, <2>6 DEF Passed
<1> QED BY <1>4, <1>5

LEMMA LoopEndsPasses ==
  ASSUME TypeOK, Passed, LoopEnds
  PROVE  Passed'
<1>1. /\ out = <<>> /\ pc = "reading" /\ pc' = "last" /\ todo = Done
      /\ UNCHANGED <<sent, api, todo, reply>> /\ out' = Farewell(reply)
      /\ reply \in Reply
  BY DEF LoopEnds, Reading, Untranslated, TypeOK, Reply
<1>2. \A x : StopOf(x)' = StopOf(x)
  BY <1>1 DEF StopOf
<1>3. \A e \in Given : e.ev # "end"
  BY <1>1 DEF Passed
<1>4. /\ Given \subseteq Given'
      /\ \A e \in Given' : e \in Given \/ e.ev = "stop" \/ e = Completed(reply)
      /\ ~reply.closed => \A x \in Contents(reply) : StopOf(x) \in Given'
  BY <1>1, ClosingGiven
<1>5. Completed(reply).ev = "end" /\ (api = "responses" => Completed(reply).items = Items(reply))
  BY DEF Completed
<1>6. \A x \in Contents(reply) : StopOf(x)' \in Given'
  BY <1>2, <1>4 DEF Passed
<1>7. \A e \in Given' : e.ev \in {"open", "delta"} => e \in Given
  BY <1>4, <1>5
<1>8. \A e \in Given' : e.ev = "end" => e = Completed(reply)
  BY <1>3, <1>4
<1>9. \A e \in Given' : e.ev = "open" => \E x \in Contents(reply) : e = OpenOf(x)
  BY <1>7 DEF Passed
<1>10. \A e \in Given' : e.ev = "delta" =>
         \E x \in Contents(reply) : \E k \in DOMAIN x.data : e = DeltaOf(x, x.data[k])
  BY <1>7 DEF Passed
<1>11. \A x \in Contents(reply) : /\ OpenOf(x) \in Given'
                                  /\ \A k \in DOMAIN x.data : DeltaOf(x, x.data[k]) \in Given'
  BY <1>4 DEF Passed
<1> QED BY <1>1, <1>5, <1>6, <1>8, <1>9, <1>10, <1>11 DEF Passed

LEMMA YieldPasses ==
  ASSUME TypeOK, StreamInv, Passed, InOrder, Yield, client = "there"
  PROVE  (Passed /\ InOrder)'
<1> DEFINE h == Head(out)
           t == Tail(out)
<1>1. /\ sent \in Seq(Event) /\ out \in Seq(Event) /\ out # <<>> /\ out' = t
      /\ UNCHANGED <<todo, reply, api, pc>>
      /\ sent' = IF h.ev # "keepalive" THEN Append(sent, h) ELSE sent
  BY DEF TypeOK, Yield, Untranslated
<1>2. /\ h \in Event /\ t \in Seq(Event) /\ h = out[1] /\ 1 \in DOMAIN out
      /\ Len(out) \in Nat /\ Len(t) = Len(out) - 1
      /\ \A k \in DOMAIN t : k + 1 \in DOMAIN out /\ t[k] = out[k + 1]
  BY <1>1, HeadAndTail
<1>3. \A k \in DOMAIN out : k = 1 \/ (k - 1 \in DOMAIN t /\ t[k - 1] = out[k])
  <2>1. DOMAIN t = 1..(Len(out) - 1) /\ DOMAIN out = 1..Len(out)
    BY <1>1, <1>2
  <2>2. \A k \in 1..(Len(out) - 1) : t[k] = out[k + 1]
    BY <1>2, <2>1
  <2> HIDE DEF t, h
  <2> TAKE k \in DOMAIN out
  <2>3. k # 1 => k - 1 \in 1..(Len(out) - 1) /\ (k - 1) + 1 = k
    BY <1>2, <2>1
  <2> QED BY <2>1, <2>2, <2>3
<1>4. /\ DOMAIN Append(sent, h) = DOMAIN sent \cup {Len(sent) + 1}
      /\ Append(sent, h)[Len(sent) + 1] = h
      /\ \A k \in DOMAIN sent : /\ Append(sent, h)[k] = sent[k]
                                /\ ~(Len(sent) + 1 < k)
      /\ ~(Len(sent) + 1 < Len(sent) + 1)
  <2> HIDE DEF h, t
  <2> QED BY <1>1, <1>2
<1>5. Continues(sent, out)
  BY DEF StreamInv, Heard
<1>6. \A k \in DOMAIN t : t[k].ev # "delta"
  <2> SUFFICES ASSUME NEW k \in DOMAIN t PROVE t[k].ev # "delta"
    OBVIOUS
  <2>1. Len(out) # 1
    <3>1. DOMAIN t = 1..(Len(out) - 1)
      BY <1>2
    <3> HIDE DEF t
    <3> QED BY <1>2, <3>1
  <2>2. Follows(sent, out, k + 1) /\ t[k] = out[k + 1]
    BY <1>2, <1>5 DEF Continues
  <2> QED BY <2>1, <2>2 DEF Follows
<1> HIDE DEF h, t
<1>7. \A e : e.ev \in {"open", "delta", "stop", "end"} => (e \in Given' <=> e \in Given)
  <2> SUFFICES ASSUME NEW e, e.ev \in {"open", "delta", "stop", "end"}
               PROVE  e \in Given' <=> e \in Given
    OBVIOUS
  <2>1. e \in Given <=> e \in SentEvents \/ e = h \/ \E k \in DOMAIN t : e = t[k]
    <3>1. (\E k \in DOMAIN out : e = out[k]) <=> e = h \/ \E k \in DOMAIN t : e = t[k]
      BY <1>2, <1>3
    <3> QED BY <3>1 DEF Given
  <2>2. e \in Given' <=> e \in SentEvents' \/ \E k \in DOMAIN t : e = t[k]
    BY <1>1 DEF Given
  <2>3. e \in SentEvents' <=> e \in SentEvents \/ e = h
    <3>1. CASE h.ev = "keepalive"
      <4>1. sent' = sent /\ e # h
        BY <1>1, <3>1
      <4> QED BY <4>1, <3>1 DEF SentEvents
    <3>2. CASE h.ev # "keepalive"
      <4>1. sent' = Append(sent, h)
        BY <1>1, <3>2
      <4>2. e \in SentEvents' <=> \E k \in DOMAIN Append(sent, h) : e = Append(sent, h)[k]
        BY <4>1 DEF SentEvents
      <4>3. e \in SentEvents <=> \E k \in DOMAIN sent : e = sent[k]
        BY DEF SentEvents
      <4> QED BY <1>4, <4>2, <4>3
    <3> QED BY <3>1, <3>2
  <2> QED BY <2>1, <2>2, <2>3
<1>8. Passed'
  BY <1>1, <1>7, NothingGiven
<1>9. InOrder'
  <2>1. \A d : \A k \in DOMAIN t : Before(d, t[k])
    BY <1>6 DEF Before
  <2>2. \A j \in DOMAIN sent : Before(sent[j], h)
    BY <1>2 DEF InOrder
  <2>3. \A j, k \in DOMAIN sent' : j < k => Before(sent'[j], sent'[k])
    <3>1. CASE h.ev = "keepalive"
      BY <1>1, <3>1 DEF InOrder
    <3>2. CASE h.ev # "keepalive"
      <4>1. sent' = Append(sent, h)
        BY <1>1, <3>2
      <4> SUFFICES ASSUME NEW j \in DOMAIN Append(sent, h), NEW k \in DOMAIN Append(sent, h), j < k
                   PROVE  Before(Append(sent, h)[j], Append(sent, h)[k])
        BY <4>1
      <4>2. j \in DOMAIN sent
        BY <1>4
      <4>3. CASE k \in DOMAIN sent
        BY <1>4, <4>2, <4>3 DEF InOrder
      <4>4. CASE k = Len(sent) + 1
        BY <1>4, <2>2, <4>2, <4>4
      <4> QED BY <1>4, <4>3, <4>4
    <3> QED BY <3>1, <3>2
  <2> QED BY <1>1, <2>1, <2>3 DEF InOrder
<1> QED BY <1>8, <1>9

\* What is queued is not in front of words that were sent.
LEMMA InOrderKept ==
  ASSUME InOrder, UNCHANGED sent, \A k \in DOMAIN out' : out'[k].ev # "delta"
  PROVE  InOrder'
BY DEF InOrder, Before

LEMMA WritesInOrder ==
  ASSUME TypeOK, StreamInv, Gathered, Passed, InOrder, Translates, NEW x, Writes(x)
  PROVE  InOrder'
<1> DEFINE n == Len(read)
           e == DeltaOf(x, n)
<1>1. UNCHANGED sent /\ out' = <<e>> /\ x \in Contents(reply) /\ Speaks(todo, x.of)
  BY DEF Translates, Writes, Takes
<1>2. \A m \in Due(x.of) : m < n
  BY <1>1, DueType
<1>3. \A y \in Contents(reply) : y.index = x.index => y = x
  BY <1>1, ContentsNumbered DEF StreamInv, TypeOK, Reply
<1>4. \A k \in DOMAIN x.data : x.data[k] \in Due(x.of)
  <2>1. Lists(x.data, Due(x.of))
    BY <1>1 DEF Gathered
  <2> QED BY <2>1 DEF Lists
<1>5. ASSUME NEW j \in DOMAIN sent PROVE Before(sent[j], e)
  <2> SUFFICES ASSUME sent[j].ev = "delta", sent[j].index = e.index
               PROVE  sent[j].data[1] < e.data[1]
    BY DEF Before
  <2>1. sent[j] \in Given
    BY DEF Given, SentEvents
  <2>2. PICK y \in Contents(reply) : \E k \in DOMAIN y.data : sent[j] = DeltaOf(y, y.data[k])
    BY <2>1 DEF Passed
  <2>3. PICK k \in DOMAIN y.data : sent[j] = DeltaOf(y, y.data[k])
    BY <2>2
  <2>4. y = x
    BY <1>3, <2>3 DEF DeltaOf
  <2>5. sent[j].data[1] = x.data[k] /\ e.data[1] = n
    BY <2>3, <2>4 DEF DeltaOf
  <2> HIDE DEF n
  <2> QED BY <1>2, <1>4, <2>3, <2>4, <2>5
<1> HIDE DEF e
<1>6. DOMAIN <<e>> = {1} /\ <<e>>[1] = e
  OBVIOUS
<1> QED BY <1>1, <1>5, <1>6 DEF InOrder

LEMMA ReadPasses ==
  ASSUME TypeOK, Passed, InOrder, ReadChunk, Contents(reply') = Contents(reply)
  PROVE  (Passed /\ InOrder)'
<1>1. /\ UNCHANGED <<api, pc, out, sent>> /\ pc = "reading"
      /\ reply'.closed = reply.closed
  BY DEF ReadChunk, Reading, Usage, TypeOK, Reply
<1>2. Given' = Given
  BY <1>1 DEF Given, SentEvents
<1>3. \A e \in Given : e.ev # "end"
  BY <1>1 DEF Passed
<1>4. \A x : StopOf(x)' = StopOf(x)
  BY <1>1 DEF StopOf
<1>5. Passed'
  BY <1>1, <1>2, <1>3, <1>4 DEF Passed
<1> QED BY <1>1, <1>5 DEF InOrder

LEMMA TranslateWords ==
  ASSUME TypeOK, StreamInv, WordsInv, Translate
  PROVE  WordsInv'
<1>0. Leftover /\ Gathered
  BY DEF WordsInv
<1>1. UNCHANGED <<sent, client>> /\ (client = "there" => Passed /\ InOrder)
  BY DEF Translate, OpenText, WriteText, OpenCall, WriteCall, Finish, KeepRest, WordsInv
<1> SUFFICES /\ Leftover' /\ Gathered'
             /\ client = "there" => Passed' /\ InOrder'
  BY <1>1 DEF WordsInv, SentEvents
<1>2. CASE OpenText \/ OpenCall
  <2>1. PICK x : Translates /\ Opens(x)
    BY <1>0, <1>2, OpenTextOpens, OpenCallOpens
  <2>2. Leftover' /\ Gathered'
    BY <1>0, <2>1, OpensGathers
  <2>3. client = "there" => Passed'
    BY <1>1, <2>1, OpensPasses
  <2>4. InOrder => InOrder'
    <3>1. DOMAIN <<OpenOf(x)>> = {1} /\ <<OpenOf(x)>>[1] = OpenOf(x) /\ OpenOf(x).ev # "delta"
      BY DEF OpenOf
    <3>2. UNCHANGED sent /\ \A k \in DOMAIN out' : out'[k].ev # "delta"
      BY <2>1, <3>1 DEF Opens, Translates
    <3> QED BY <3>2, InOrderKept
  <2> QED BY <1>1, <2>2, <2>3, <2>4
<1>3. CASE WriteText \/ WriteCall
  <2>1. PICK x : Translates /\ (Writes(x) \/ Skips(x))
    BY <1>0, <1>3, WriteTextWrites, WriteCallWrites
  <2>2. CASE Writes(x)
    BY <1>0, <1>1, <2>1, <2>2, WritesGathers, WritesPasses, WritesInOrder
  <2>3. CASE Skips(x)
    <3>1. UNCHANGED <<sent, out>>
      BY <2>1, <2>3 DEF Translates, Skips
    <3>2. InOrder => InOrder'
      BY <3>1 DEF InOrder
    <3> QED BY <1>0, <1>1, <2>1, <2>3, <3>2, SkipsGathers, SkipsPasses
  <2> QED BY <2>1, <2>2, <2>3
<1>4. CASE Finish
  <2>1. Leftover' /\ Gathered' /\ Contents(reply') = Contents(reply)
    BY <1>0, <1>4, FinishGathers
  <2>2. client = "there" => Passed'
    BY <1>1, <1>4, <2>1, FinishPasses
  <2>3. InOrder => InOrder'
    <3>1. out = <<>> /\ (out' = out \/ out' = Stops(reply)) /\ reply \in Reply
      BY <1>4 DEF Finish, Reading, TypeOK, Reply
    <3>2. \A k \in DOMAIN out' : out'[k].ev # "delta"
      BY <3>1, StopsOfContents
    <3> QED BY <1>1, <3>2, InOrderKept
  <2> QED BY <1>1, <2>1, <2>2, <2>3
<1> QED BY <1>2, <1>3, <1>4 DEF Translate

LEMMA WordsStep ==
  ASSUME OneFill
  PROVE  TypeOK /\ StreamInv /\ WordsInv /\ [Next]_vars => WordsInv'
<1> SUFFICES ASSUME TypeOK, StreamInv, WordsInv, [Next]_vars PROVE WordsInv'
  OBVIOUS
<1>0. /\ Leftover /\ Gathered
      /\ client = "there" => Passed /\ InOrder
      /\ client = "gone" => \A e \in SentEvents : e.ev # "end"
      /\ client \in {"there", "gone"}
  BY DEF WordsInv, TypeOK
<1>1. ASSUME UNCHANGED <<read, todo, reply>> PROVE Leftover' /\ Gathered'
  <2>1. \A s : /\ Due(s)' = Due(s)
               /\ Mentioned(s)' <=> Mentioned(s)
               /\ Begun(s)' <=> Begun(s)
    BY <1>1 DEF Due, Mentioned, Begun
  <2> QED BY <1>0, <1>1, <2>1 DEF Leftover, Gathered
<1>2. CASE Yield
  <2>1. UNCHANGED <<read, todo, reply, client>> /\ (client = "gone" => sent' = sent)
    BY <1>2 DEF Yield, Untranslated
  <2>2. client = "there" => Passed' /\ InOrder'
    BY <1>0, <1>2, YieldPasses
  <2>3. client = "gone" => \A e \in SentEvents' : e.ev # "end"
    BY <1>0, <2>1 DEF SentEvents
  <2> QED BY <1>1, <2>1, <2>2, <2>3 DEF WordsInv
<1>3. CASE StartRotation \/ RotationEnds \/ Answered \/ BodyBreaks \/ PhaseBreaks
           \/ UNCHANGED vars
  <2>1. /\ UNCHANGED <<read, todo, reply, api, out, sent, client>>
        /\ pc = "last" => pc' = "last"
    BY <1>3 DEF StartRotation, RotationEnds, Answered, BodyBreaks, PhaseBreaks, Break,
                Untranslated, vars
  <2>2. Given' = Given /\ SentEvents' = SentEvents
    BY <2>1 DEF Given, SentEvents
  <2>3. Passed => Passed'
    BY <2>1, <2>2, NothingGiven
  <2>4. InOrder => InOrder'
    BY <2>1 DEF InOrder
  <2> QED BY <1>0, <1>1, <2>1, <2>2, <2>3, <2>4 DEF WordsInv
<1>4. CASE HangUp
  <2>1. /\ UNCHANGED <<read, todo, reply, sent>> /\ client = "there" /\ client' = "gone"
        /\ pc # "last" \/ out # <<>>
    BY <1>4 DEF HangUp, Untranslated, Over
  <2>2. ~Ended(sent)
    BY <2>1 DEF StreamInv, Heard, Continues, Closes
  <2>3. \A e \in SentEvents' : e.ev # "end"
    BY <2>1, <2>2 DEF SentEvents, Ended
  <2> QED BY <1>1, <2>1, <2>3 DEF WordsInv
<1>5. CASE Keepalive \/ Refused
  <2>1. /\ UNCHANGED <<read, todo, reply, api, sent, client>> /\ out = <<>> /\ pc = "rotating"
    BY <1>5 DEF Keepalive, Refused, Untranslated
  <2>2. PICK e : out' = <<e>> /\ e.ev \in {"keepalive", "failed"}
    BY <1>5 DEF Keepalive, Refused
  <2>3. Given' = Given \cup {e}
    BY <2>1, <2>2, OneGiven
  <2>4. Passed => Passed'
    BY <2>1, <2>2, <2>3, NothingGiven
  <2>5. InOrder => InOrder'
    <3>1. DOMAIN <<e>> = {1} /\ <<e>>[1] = e
      OBVIOUS
    <3>2. \A k \in DOMAIN out' : out'[k].ev # "delta"
      BY <2>2, <3>1
    <3> QED BY <2>1, <3>2, InOrderKept
  <2>6. SentEvents' = SentEvents
    BY <2>1 DEF SentEvents
  <2> QED BY <1>0, <1>1, <2>1, <2>4, <2>5, <2>6 DEF WordsInv
<1>6. CASE ReadChunk
  <2>1. Leftover' /\ Gathered' /\ Contents(reply') = Contents(reply)
    BY <1>0, <1>6, ReadGathers
  <2>2. client = "there" /\ client' = client
    BY <1>6 DEF ReadChunk
  <2>3. Passed' /\ InOrder'
    BY <1>0, <1>6, <2>1, <2>2, ReadPasses
  <2> QED BY <2>1, <2>2, <2>3 DEF WordsInv
<1>7. CASE Translate
  BY <1>7, TranslateWords
<1>8. CASE LoopEnds
  <2>1. /\ UNCHANGED <<read, todo, reply, api, sent, client>> /\ out = <<>>
        /\ out' = Farewell(reply) /\ reply \in Reply
    BY <1>8 DEF LoopEnds, Reading, Untranslated, TypeOK, Reply
  <2>2. client = "there" => Passed'
    BY <1>0, <1>8, LoopEndsPasses
  <2>3. InOrder => InOrder'
    <3>1. Completed(reply).ev = "end"
      BY DEF Completed
    <3>2. \A k \in DOMAIN Farewell(reply) : Farewell(reply)[k].ev # "delta"
      BY <2>1, <3>1, FarewellEvents
    <3> QED BY <2>1, <3>2, InOrderKept
  <2>4. SentEvents' = SentEvents
    BY <2>1 DEF SentEvents
  <2> QED BY <1>0, <1>1, <2>1, <2>2, <2>3, <2>4 DEF WordsInv
<1>9. CASE Cancel
  <2>1. UNCHANGED <<read, todo, reply, sent, client>> /\ client = "gone"
    BY <1>9 DEF Cancel, Untranslated
  <2>2. SentEvents' = SentEvents
    BY <2>1 DEF SentEvents
  <2> QED BY <1>0, <1>1, <2>1, <2>2 DEF WordsInv
<1> QED BY <1>2, <1>3, <1>4, <1>5, <1>6, <1>7, <1>8, <1>9 DEF Next

LEMMA WordsStart == Init => WordsInv
<1> SUFFICES ASSUME Init PROVE WordsInv
  OBVIOUS
<1>1. /\ reply = Empty /\ todo = Done /\ sent = <<>> /\ out = <<[ev |-> "opening"]>>
      /\ read = <<>> /\ client = "there"
  BY DEF Init
<1>2. reply.text = None /\ reply.tools = <<>> /\ reply.full = <<>>
  BY <1>1 DEF Empty
<1>3. Contents(reply) = {}
  BY <1>2 DEF Contents
<1>4. (\A s : ~Speaks(todo, s) /\ ~Mentions(todo, s)) /\ FillsOnce(todo.calls)
  BY <1>1, NothingLeft, DoneIsNothing
<1>5. \A s : Due(s) = {}
  BY <1>1 DEF Due
<1>6. Leftover
  BY <1>4 DEF Leftover
<1>7. Gathered
  BY <1>1, <1>2, <1>3, <1>5 DEF Gathered
<1>8. \A e \in Given : e.ev = "opening"
  BY <1>1 DEF Given, SentEvents
<1>9. Passed
  BY <1>3, <1>8 DEF Passed
<1>10. InOrder
  BY <1>1 DEF InOrder
<1> QED BY <1>1, <1>6, <1>7, <1>9, <1>10 DEF WordsInv

\* At the end nothing is left of the last chunk, so that all words that were
\* read are in the blocks, and all that is in the blocks was given.
LEMMA AllGiven ==
  ASSUME TypeOK, StreamInv, WordsInv
  PROVE  EveryWordArrives
<1> SUFFICES ASSUME NEW e \in SentEvents, e.ev = "end", NEW s \in Sources
             PROVE  /\ BlocksOf(s) # {} <=> Mentioned(s)
                    /\ {sent[k].data : k \in Fills(s)} = {<<n>> : n \in ChunksWith(s)}
                    /\ \A j, k \in Fills(s) : j < k => sent[j].data[1] < sent[k].data[1]
                    /\ api = "responses" /\ Mentioned(s) =>
                         /\ \E k \in DOMAIN e.items : /\ e.items[k].of = s
                                                      /\ Lists(e.items[k].data, ChunksWith(s))
                         /\ \E o \in BlocksOf(s), x \in SentEvents :
                              /\ x.ev = "stop" /\ x.index = o.index
                              /\ Lists(x.data, ChunksWith(s))
  BY DEF EveryWordArrives
<1>1. client = "there" /\ Passed /\ InOrder /\ Gathered
  BY DEF WordsInv, TypeOK
<1>2. Ended(sent)
  BY DEF SentEvents, Ended
<1>3. out = <<>>
  BY <1>1, <1>2 DEF StreamInv, Heard, Continues
<1>4. Given = SentEvents
  BY <1>3 DEF Given
<1>5. /\ todo = Done
      /\ \A x \in Contents(reply) : StopOf(x) \in SentEvents
      /\ api = "responses" => e.items = Items(reply)
  BY <1>1, <1>4 DEF Passed
<1>6. \A r : ~Speaks(todo, r) /\ ~Mentions(todo, r)
  BY <1>5, NothingLeft, DoneIsNothing
<1>7. Due(s) = ChunksWith(s)
  BY <1>6 DEF Due, ChunksWith
<1>8. Mentioned(s) <=> Begun(s)
  BY <1>1, <1>6 DEF Gathered, Mentioned, Begun
<1>9. reply \in Reply /\ Numbered(reply)
  BY DEF TypeOK, Reply, StreamInv
<1>10. \A x, y \in Contents(reply) : x.index = y.index \/ x.of = y.of => x = y
  BY <1>1, <1>9, ContentsNumbered DEF Gathered
<1>11. \A o : o \in BlocksOf(s) <=> \E x \in Contents(reply) : x.of = s /\ o = OpenOf(x)
  <2>1. \A x : OpenOf(x).ev = "open" /\ OpenOf(x).of = x.of
    BY DEF OpenOf
  <2> QED BY <1>1, <1>4, <2>1 DEF BlocksOf, Passed
<1>12. CASE ~Begun(s)
  <2>1. BlocksOf(s) = {} /\ Fills(s) = {}
    BY <1>11, <1>12 DEF Begun, Fills
  <2>2. ChunksWith(s) = {}
    BY <1>1, <1>7, <1>12 DEF Gathered
  <2> QED BY <1>8, <1>12, <2>1, <2>2
<1>13. CASE Begun(s)
  <2>1. PICK x \in Contents(reply) : x.of = s
    BY <1>13 DEF Begun
  <2>2. BlocksOf(s) = {OpenOf(x)} /\ OpenOf(x).index = x.index
    BY <1>10, <1>11, <2>1 DEF OpenOf
  <2>3. Lists(x.data, ChunksWith(s))
    BY <1>1, <1>7, <2>1 DEF Gathered
  <2>4. \A k : k \in Fills(s)
                 <=> k \in DOMAIN sent /\ sent[k].ev = "delta" /\ sent[k].index = x.index
    BY <2>2 DEF Fills
  <2>5. \A k \in Fills(s) : \E n \in ChunksWith(s) : sent[k].data = <<n>>
    <3> SUFFICES ASSUME NEW k \in Fills(s) PROVE \E n \in ChunksWith(s) : sent[k].data = <<n>>
      OBVIOUS
    <3>1. sent[k] \in Given /\ sent[k].ev = "delta" /\ sent[k].index = x.index
      BY <2>4 DEF Given, SentEvents
    <3>2. PICK y \in Contents(reply) : \E j \in DOMAIN y.data : sent[k] = DeltaOf(y, y.data[j])
      BY <1>1, <3>1 DEF Passed
    <3>3. PICK j \in DOMAIN y.data : sent[k] = DeltaOf(y, y.data[j])
      BY <3>2
    <3>4. y = x /\ sent[k].data = <<y.data[j]>>
      BY <1>10, <3>1, <3>3 DEF DeltaOf
    <3> QED BY <2>3, <3>3, <3>4 DEF Lists
  <2>6. \A n \in ChunksWith(s) : \E k \in Fills(s) : sent[k].data = <<n>>
    <3> SUFFICES ASSUME NEW n \in ChunksWith(s) PROVE \E k \in Fills(s) : sent[k].data = <<n>>
      OBVIOUS
    <3>1. PICK j \in DOMAIN x.data : x.data[j] = n
      BY <2>3 DEF Lists
    <3>2. DeltaOf(x, n) \in SentEvents
      BY <1>1, <1>4, <3>1 DEF Passed
    <3>3. PICK k \in DOMAIN sent : sent[k] = DeltaOf(x, n)
      BY <3>2 DEF SentEvents
    <3> QED BY <2>4, <3>3 DEF DeltaOf
  <2>7. {sent[k].data : k \in Fills(s)} = {<<n>> : n \in ChunksWith(s)}
    BY <2>5, <2>6
  <2>8. \A j, k \in Fills(s) : j < k => sent[j].data[1] < sent[k].data[1]
    BY <1>1, <2>4 DEF InOrder, Before
  <2>9. ASSUME api = "responses"
        PROVE  /\ \E k \in DOMAIN e.items : /\ e.items[k].of = s
                                            /\ Lists(e.items[k].data, ChunksWith(s))
               /\ \E o \in BlocksOf(s), y \in SentEvents :
                    /\ y.ev = "stop" /\ y.index = o.index
                    /\ Lists(y.data, ChunksWith(s))
    <3>1. PICK k \in DOMAIN Items(reply) : Items(reply)[k] = x
      BY <1>9, <2>1, ContentsType
    <3>2. \E j \in DOMAIN e.items : /\ e.items[j].of = s
                                    /\ Lists(e.items[j].data, ChunksWith(s))
      BY <1>5, <2>1, <2>3, <2>9, <3>1
    <3>3. StopOf(x).ev = "stop" /\ StopOf(x).index = x.index /\ StopOf(x).data = x.data
      BY <2>9 DEF StopOf
    <3>4. StopOf(x) \in SentEvents /\ OpenOf(x) \in BlocksOf(s)
      BY <1>5, <2>1, <2>2
    <3> QED BY <2>2, <2>3, <3>2, <3>3, <3>4
  <2> QED BY <1>8, <1>13, <2>2, <2>7, <2>8, <2>9
<1> QED BY <1>12, <1>13

\* A client that is told the reply is complete holds the text and each call of
\* the upstream in one block of its own, with all words, each once and in their
\* order; and /v1/responses repeats in output_text.done and in the output of
\* response.completed just what it had streamed.
THEOREM WordsArrive == ASSUME OneFill PROVE Spec => []EveryWordArrives
<1>1. TypeOK /\ StreamInv /\ WordsInv /\ [Next]_vars => (TypeOK /\ StreamInv /\ WordsInv)'
  BY TypeInv, StreamStep, WordsStep
<1> QED BY <1>1, TypeInit, StreamStart, WordsStart, AllGiven, PTL DEF Spec
=============================================================================
