---------------------------- MODULE MCReplyStream ----------------------------
(* Instances of ReplyStream and Replay for TLC.                            *)
EXTENDS Replay

Silent == [text |-> FALSE, calls |-> <<>>, finish |-> None, usage |-> 0]
Words == [Silent EXCEPT !.text = TRUE]
Calls(ds) == [Silent EXCEPT !.calls = ds]
Args(c) == [call |-> c, args |-> TRUE]
Name(c) == [call |-> c, args |-> FALSE]

\* Words, calls announced and filled apart or together, two calls in one
\* chunk, the ends of a choice with and without words, and usages.
SomeChunks ==
  { Words, Calls(<<Name("c0")>>), Calls(<<Args("c0")>>), Calls(<<Args("c1")>>),
    Calls(<<Args("c1"), Args("c0")>>),
    [Calls(<<Args("c0")>>) EXCEPT !.text = TRUE],
    [Silent EXCEPT !.finish = "tool_calls"],
    [Silent EXCEPT !.finish = "length", !.usage = 1],
    [Words EXCEPT !.finish = "stop"],
    [Words EXCEPT !.finish = "content_filter"],
    [Silent EXCEPT !.usage = 1],
    [Silent EXCEPT !.usage = 2] }
=============================================================================
