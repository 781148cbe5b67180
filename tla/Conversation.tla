---------------------------- MODULE Conversation ----------------------------
(***************************************************************************)
(* translate_request.rs over the turns of a conversation.  The proxy keeps *)
(* nothing between requests: a client sends its whole history as Responses *)
(* input items each time, oai_to_mistral turns it into chat messages, and  *)
(* mistral_response_to_oai turns the upstream's reply into items the       *)
(* client appends.  So a reply goes through both translations before the   *)
(* upstream sees it again.                                                 *)
(*                                                                         *)
(* The client and the upstream are external: the client appends what it    *)
(* gets and answers calls it was given; the upstream answers only          *)
(* conversations that end with a user's turn or a tool's output.  A text   *)
(* is a sequence of pieces: joining the parts of a message, or the system  *)
(* texts of a conversation, keeps the pieces and their order.              *)
(***************************************************************************)
EXTENDS Integers, Sequences, FiniteSets, SequencesExt

CONSTANTS
  Text,      \* pieces of text
  Image,     \* a content part that is not text
  Calls,     \* tool calls the upstream may make: [id, arguments]
  Replies,   \* the upstream's messages: [content, tool_calls]
  Additions, \* items a client may add on its own account
  ToolOutputs, \* outputs a client may give a call: [string, text]
  Prompts,   \* what `instructions` may be: None or a text
  MaxItems,  \* bound: length of the history
  None

Role == {"user", "assistant", "system", "developer"}
Part == Text \cup {Image}

\* A client makes no calls; items of other types are anything.  An output is a
\* string, or a list of parts, whose text is then `text`.
ASSUME ConversationAssumption ==
  /\ Image \notin Text
  /\ None \notin Seq(Text) /\ None \notin Replies
  /\ Prompts \subseteq {None} \cup Seq(Text)
  /\ \A r \in Replies : r.content \in Seq(Text) /\ r.tool_calls \in Seq(Calls)
  /\ \A i \in Additions :
       /\ i.type \notin {"function_call", "function_call_output"}
       /\ i.type = "message" => i.role \in Role /\ i.content \in Seq(Part)
  /\ ToolOutputs \subseteq [string : BOOLEAN, text : Seq(Text)]
  /\ MaxItems \in Nat

VARIABLES
  items,         \* the client's history: the input of its next request
  instructions,  \* top-level instructions of its requests
  sent,          \* the messages array of the last request: [system, chat]
  reply,         \* the upstream's answer to it; None before, and if it failed
  phase          \* "client": composing; "upstream": waiting for the answer

vars == <<items, instructions, sent, reply, phase>>

\* Input items.
Message(role, parts) == [type |-> "message", role |-> role, content |-> parts]
FunctionCall(call) == [type |-> "function_call", call |-> call]
FunctionCallOutput(id, output) ==
  [type |-> "function_call_output", call_id |-> id, output |-> output]

\* Chat messages, those of tools included.
Chat(role, text, calls, id) ==
  [role |-> role, content |-> text, tool_calls |-> calls, tool_call_id |-> id]

-----------------------------------------------------------------------------
(* oai_to_mistral                                                          *)

\* extract_message_text: the text parts, joined; a message without any is "".
MessageText(item) ==
  LET texts[n \in 0..Len(item.content)] ==
        IF n = 0 THEN <<>>
        ELSE IF item.content[n] = Image THEN texts[n - 1]
        ELSE Append(texts[n - 1], item.content[n])
  IN texts[Len(item.content)]

IsSystem(item) == item.type = "message" /\ item.role \in {"system", "developer"}

\* Faulty variant of OutputText: an output is taken to be a list of parts.
OutputTextParts(item) == IF item.output.string THEN <<>> ELSE item.output.text

\* The text of a tool's output: as_str().unwrap_or(""), so that an output which
\* is not a string is sent as the empty text.
OutputText(item) == IF item.output.string THEN item.output.text ELSE <<>>

\* Faulty variant of AddItem: every function_call is a message of its own.
AddItemApart(messages, item) ==
  CASE item.type = "message" ->
         IF IsSystem(item) THEN messages
         ELSE Append(messages, Chat(item.role, MessageText(item), <<>>, None))
    [] item.type = "function_call" ->
         Append(messages, Chat("assistant", <<>>, <<item.call>>, None))
    [] item.type = "function_call_output" ->
         Append(messages, Chat("tool", OutputText(item), <<>>, item.call_id))
    [] OTHER -> messages

\* Faulty variant of AddItem: a function_call without an assistant message
\* before it is dropped.
AddItemOrphan(messages, item) ==
  CASE item.type = "message" ->
         IF IsSystem(item) THEN messages
         ELSE Append(messages, Chat(item.role, MessageText(item), <<>>, None))
    [] item.type = "function_call" ->
         IF messages # <<>> /\ Last(messages).role = "assistant"
         THEN [messages EXCEPT ![Len(messages)].tool_calls = Append(@, item.call)]
         ELSE messages
    [] item.type = "function_call_output" ->
         Append(messages, Chat("tool", OutputText(item), <<>>, item.call_id))
    [] OTHER -> messages

\* Faulty variant of AddItem: an item of an unknown type is passed on.
AddItemRaw(messages, item) ==
  IF item.type = "reasoning" THEN Append(messages, item) ELSE
  CASE item.type = "message" ->
         IF IsSystem(item) THEN messages
         ELSE Append(messages, Chat(item.role, MessageText(item), <<>>, None))
    [] item.type = "function_call" ->
         IF messages # <<>> /\ Last(messages).role = "assistant"
         THEN [messages EXCEPT ![Len(messages)].tool_calls = Append(@, item.call)]
         ELSE Append(messages, Chat("assistant", <<>>, <<item.call>>, None))
    [] OTHER ->
         Append(messages, Chat("tool", OutputText(item), <<>>, item.call_id))

\* One turn of convert_input_to_messages: a function_call joins the
\* assistant message before it; system messages go elsewhere and items of
\* other types (reasoning) are dropped.
AddItem(messages, item) ==
  CASE item.type = "message" ->
         IF IsSystem(item) THEN messages
         ELSE Append(messages, Chat(item.role, MessageText(item), <<>>, None))
    [] item.type = "function_call" ->
         IF messages # <<>> /\ Last(messages).role = "assistant"
         THEN [messages EXCEPT ![Len(messages)].tool_calls = Append(@, item.call)]
         ELSE Append(messages, Chat("assistant", <<>>, <<item.call>>, None))
    [] item.type = "function_call_output" ->
         Append(messages, Chat("tool", OutputText(item), <<>>, item.call_id))
    [] OTHER -> messages

\* What system and developer messages say, one after the other; None before
\* the first.
AddSystem(system, item) ==
  IF ~IsSystem(item) THEN system
  ELSE IF system = None THEN MessageText(item) ELSE system \o MessageText(item)

\* convert_input_to_messages: the system text and the messages, item by item.
NothingYet == [system |-> None, chat |-> <<>>]
Turn(before, item) ==
  [system |-> AddSystem(before.system, item), chat |-> AddItem(before.chat, item)]
ConvertInput(input) ==
  LET after[n \in 0..Len(input)] ==
        IF n = 0 THEN NothingYet ELSE Turn(after[n - 1], input[n])
  IN after[Len(input)]

\* Faulty variant of SystemText: the instructions come last.
SystemTextLast(prompt, found) ==
  IF prompt = None THEN found ELSE IF found = None THEN prompt ELSE found \o prompt

\* The text of the system message, None if there is none: the instructions,
\* then what was found in the input.
SystemText(prompt, found) ==
  IF prompt = None THEN found ELSE IF found = None THEN prompt ELSE prompt \o found

CallItems(calls) == [k \in DOMAIN calls |-> FunctionCall(calls[k])]

\* mistral_response_to_oai: a message item if there is text, then one item
\* per tool call.
OutputItems(r) ==
  (IF r.content = <<>> THEN <<>> ELSE <<Message("assistant", r.content)>>)
  \o CallItems(r.tool_calls)

\* Faulty variant of StreamedItems: the indices are not sorted, and the map
\* gives the last call first.
StreamedItemsUnsorted(r) ==
  (IF r.content = <<>> /\ r.tool_calls = <<>> THEN <<>>
   ELSE <<Message("assistant", r.content)>>)
  \o CallItems(Reverse(r.tool_calls))

\* The output of a streamed reply's response.completed, its calls in the order
\* of their indices: tool calls have opened a message item, be it empty.
StreamedItems(r) ==
  (IF r.content = <<>> /\ r.tool_calls = <<>> THEN <<>>
   ELSE <<Message("assistant", r.content)>>)
  \o CallItems(r.tool_calls)

-----------------------------------------------------------------------------
Init ==
  /\ items = <<>>
  /\ instructions \in Prompts
  /\ sent = NothingYet
  /\ reply = None
  /\ phase = "client"

\* The client may answer any call it was given, more than once.
Pending == {items[k].call.id : k \in {j \in DOMAIN items : items[j].type = "function_call"}}

Answers == {FunctionCallOutput(c, o) : c \in Pending, o \in ToolOutputs}

ClientAdds ==
  /\ phase = "client"
  /\ Len(items) < MaxItems
  /\ \E i \in Additions \cup Answers : items' = Append(items, i)
  /\ UNCHANGED <<instructions, sent, reply, phase>>

\* handle_responses converts the request's whole input.
OaiToMistral ==
  /\ phase = "client"
  /\ LET found == ConvertInput(items) IN
       sent' = [system |-> SystemText(instructions, found.system), chat |-> found.chat]
  /\ reply' = None
  /\ phase' = "upstream"
  /\ UNCHANGED <<items, instructions>>

Answerable == sent.chat # <<>> /\ Last(sent.chat).role \in {"user", "tool"}

\* The upstream answers, at once or as a stream, and the client appends what
\* the proxy made of it.
MistralResponseToOai(r) ==
  /\ phase = "upstream"
  /\ Answerable
  /\ items' \in {items \o OutputItems(r), items \o StreamedItems(r)}
  /\ reply' = r
  /\ phase' = "client"
  /\ UNCHANGED <<instructions, sent>>

\* The upstream refuses or fails; the client may try again.
UpstreamFails ==
  /\ phase = "upstream"
  /\ phase' = "client"
  /\ UNCHANGED <<items, instructions, sent, reply>>

Next ==
  \/ ClientAdds
  \/ OaiToMistral
  \/ \E r \in Replies : MistralResponseToOai(r)
  \/ UpstreamFails

Spec == Init /\ [][Next]_vars

-----------------------------------------------------------------------------
(* Correctness.                                                            *)

ChatMessage == [role : {"user", "assistant", "tool"}, content : Seq(Text),
                tool_calls : Seq(Calls), tool_call_id : {None} \cup {c.id : c \in Calls}]

\* What is sent is a system text and a sequence of chat messages, without
\* any part or item the upstream does not know.
TypeOK ==
  /\ sent.system \in {None} \cup Seq(Text)
  /\ sent.chat \in Seq(ChatMessage)
  /\ reply \in {None} \cup Replies
  /\ phase \in {"client", "upstream"}

\* The reply as the upstream gave it; one with neither text nor calls leaves
\* no item behind.
Echo(r) ==
  IF r = None \/ (r.content = <<>> /\ r.tool_calls = <<>>) THEN <<>>
  ELSE <<Chat("assistant", r.content, r.tool_calls, None)>>

\* A conversation only grows: each request repeats the messages of the one
\* before, then the upstream's own reply to it, text and parallel tool calls
\* in one message just as it came, streamed or not, whatever the client adds
\* afterwards (convert_input_to_messages, mistral_response_to_oai,
\* emit_completed).
ConversationGrows ==
  [][phase' = "upstream" => IsPrefix(sent.chat \o Echo(reply), sent'.chat)]_vars

\* A system text is never lost: the instructions come first, and later
\* requests only add to the system message (oai_to_mistral).
SystemGrows ==
  [][phase' = "upstream" /\ sent.system # None =>
       sent'.system # None /\ IsPrefix(sent.system, sent'.system)]_vars

\* How often t stands in a text, and in a sequence of texts.
Count(t, text) == Cardinality({k \in DOMAIN text : text[k] = t})
CountIn(t, texts) ==
  Cardinality(UNION {{k} \X {j \in DOMAIN texts[k] : texts[k][j] = t} : k \in DOMAIN texts})

\* What a client writes as text: the text parts of its messages and the tool
\* outputs that are strings.
ItemText(i) ==
  IF i.type = "message" THEN i.content
  ELSE IF i.type = "function_call_output" /\ i.output.string THEN i.output.text
  ELSE <<>>

\* Whatever a client writes as text, in instructions, messages of any role or
\* outputs of tools, reaches the upstream: each piece exactly as often as
\* written.  Nothing else does: what an output that is not a string says is
\* lost, like images and reasoning (oai_to_mistral, convert_input_to_messages,
\* extract_message_text).
NoTextLost ==
  phase = "upstream" =>
    LET prompt == IF instructions = None THEN <<>> ELSE instructions
        system == IF sent.system = None THEN <<>> ELSE sent.system
    IN \A t \in Text :
         Count(t, system) + CountIn(t, [k \in DOMAIN sent.chat |-> sent.chat[k].content])
         = Count(t, prompt) + CountIn(t, [k \in DOMAIN items |-> ItemText(items[k])])

\* Every tool output follows an assistant message that makes the call it
\* answers (convert_input_to_messages).
OutputsFollowCalls ==
  \A k \in DOMAIN sent.chat : sent.chat[k].role = "tool" =>
    \E j \in 1..(k - 1) :
      /\ sent.chat[j].role = "assistant"
      /\ \E c \in DOMAIN sent.chat[j].tool_calls :
           sent.chat[j].tool_calls[c].id = sent.chat[k].tool_call_id
=============================================================================
