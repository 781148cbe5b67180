---------------------------- MODULE MCChatStream ----------------------------
(* Well-formed streams of text and up to three tool calls.                 *)
EXTENDS ChatStream, TLC

MCToken == {"a", "b"}
MCCallId == {"c1", "c2"}
MCName == {"f"}
MCIndex == 0..1
MCReason == {"stop", "length", "tool_calls"}
MCUsage == {"u"}

Plain == [choice |-> TRUE, content |-> None, array |-> FALSE, tools |-> <<>>,
          finish |-> None, usage |-> None]
Calls(s) == [Plain EXCEPT !.array = TRUE, !.tools = s]
New(i, c, args) == [index |-> i, id |-> <<"id", c>>, name |-> "f", args |-> args]
More(i, args) == [index |-> i, id |-> None, name |-> None, args |-> args]

\* The role-only first chunk, text, calls one by one and two at once, more
\* arguments, and a finish reason alone, with text and with a call.
MCChunks ==
  {Plain,
   [Plain EXCEPT !.content = "a"],
   [Plain EXCEPT !.content = "b"],
   Calls(<<New(0, "c1", None)>>),
   Calls(<<New(1, "c2", "b")>>),
   Calls(<<New(0, "c1", "a"), New(1, "c2", None)>>),
   Calls(<<More(0, "b"), More(0, "a")>>),
   [Plain EXCEPT !.finish = "stop"],
   [Plain EXCEPT !.content = "a", !.finish = "length", !.usage = "u"],
   [Calls(<<New(0, "c1", "b")>>) EXCEPT !.finish = "tool_calls"],
   [Plain EXCEPT !.choice = FALSE, !.usage = "u"]}
=============================================================================
