--------------------------- MODULE MCConversation ---------------------------
(* Conversations of a few items, with single and parallel tool calls.      *)
EXTENDS Conversation

MCText == {"a", "b"}
Call1 == [id |-> "c1", arguments |-> "x"]
Call2 == [id |-> "c2", arguments |-> "y"]
MCCalls == {Call1, Call2}

\* Text, a call, text with a call, parallel calls, nothing at all.
MCReplies ==
  {[content |-> <<"a">>, tool_calls |-> <<>>],
   [content |-> <<>>, tool_calls |-> <<Call1>>],
   [content |-> <<"b">>, tool_calls |-> <<Call2>>],
   [content |-> <<>>, tool_calls |-> <<Call2, Call1>>],
   [content |-> <<>>, tool_calls |-> <<>>]}

MCAdditions ==
  {Message("user", <<"a", Image, "b">>),
   Message("assistant", <<Image>>),
   Message("developer", <<"b">>),
   [type |-> "reasoning"]}
\* A tool's output, as a string and as a list of parts.
MCToolOutputs == [string : BOOLEAN, text : {<<"b">>}]
MCPrompts == {None, <<"a">>}
=============================================================================
