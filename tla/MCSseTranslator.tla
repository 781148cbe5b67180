-------------------------- MODULE MCSseTranslator --------------------------
(* The translator fed any sequence of a few telling chunks.                *)
EXTENDS SseTranslator, TLC

MCToken == {"a", "b"}
MCCallId == {"c1"}
MCName == {"f"}
MCIndex == 0..1
MCReason == {"stop", "length"}
MCUsage == {"u"}

Plain == [choice |-> TRUE, content |-> None, array |-> FALSE, tools |-> <<>>,
          finish |-> None, usage |-> None]
Calls(s) == [Plain EXCEPT !.array = TRUE, !.tools = s]
Delta(i, id, name, args) == [index |-> i, id |-> id, name |-> name, args |-> args]

\* Text; text and finish at once; a bare finish; usage; an empty tool_calls
\* array; tool calls complete, without index, without id, with an empty id,
\* without name, and two in one chunk.
MCChunks ==
  {[Plain EXCEPT !.content = "a"],
   [Plain EXCEPT !.content = "b", !.finish = "length"],
   [Plain EXCEPT !.finish = "stop"],
   [Plain EXCEPT !.choice = FALSE, !.usage = "u"],
   Calls(<<>>),
   Calls(<<Delta(1, <<"id", "c1">>, "f", "a")>>),
   Calls(<<Delta(None, None, None, "b")>>),
   Calls(<<Delta(0, <<>>, "f", "a")>>),
   Calls(<<Delta(0, <<"id", "c1">>, "", None), Delta(1, None, "f", "b")>>)}
=============================================================================
