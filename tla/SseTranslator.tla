--------------------------- MODULE SseTranslator ---------------------------
(***************************************************************************)
(* MistralToOaiStream: the state machine that reads the upstream's chat    *)
(* stream line by line and writes Responses events for the client.         *)
(*                                                                         *)
(* `events` is everything written so far, read by the client or not.  The  *)
(* client never sees half of what one line produces before the next line   *)
(* is read, so `process_line` is modelled as the steps of its own loops:   *)
(* the chunk, then its tool-call deltas one by one, then its finish        *)
(* reason, then one step per tool call that is closed.  No line is read in *)
(* between.  Ids are drawn from an endless supply: <<"msg", n>> and        *)
(* <<"gen", i>> are the proxy's, <<"id", c>> the upstream's, <<>> empty.   *)
(***************************************************************************)
EXTENDS Integers, Sequences, FiniteSets

CONSTANTS
  Token,     \* pieces of text or of arguments
  CallId,    \* tool call ids the upstream may send
  Name,      \* tool names the upstream may send
  Index,     \* indices of tool calls in the upstream's stream
  Reason,    \* finish reasons
  Usage,     \* token counts
  Chunks,    \* the chunks the upstream may send, a subset of Chunk
  MaxLines,  \* bound: how many lines the upstream sends
  None       \* an absent field

\* One entry of delta.tool_calls.  An id or a name may be absent or empty, and
\* a name that is null counts as empty; an absent index counts as 0.
ToolDelta ==
  [index : {None} \cup Index,
   id    : {None, <<>>} \cup {<<"id", c>> : c \in CallId},
   name  : {None, ""} \cup Name,
   args  : {None} \cup Token]

\* What process_line uses of a JSON chunk: the first choice and the usage.
\* `content` and `args` None stand for absent and for empty; `array` says
\* that delta.tool_calls is there, be it empty.
Chunk ==
  [choice  : BOOLEAN,
   content : {None} \cup Token,
   array   : BOOLEAN,
   tools   : Seq(ToolDelta),
   finish  : {None} \cup Reason,
   usage   : {None} \cup Usage]

ASSUME SseAssumption ==
  /\ Index \subseteq Nat /\ 0 \in Index
  /\ "" \notin Name /\ None \notin Name
  /\ None \notin Token /\ None \notin Index /\ None \notin Reason
  /\ None \notin Usage
  /\ None \notin {<<>>} \cup {<<"id", c>> : c \in CallId}
  /\ \A c \in Chunks : c.tools # <<>> => c.array
  /\ Chunks \subseteq Chunk
  /\ MaxLines \in Nat

VARIABLES
  seq,             \* the next sequence_number
  msg_id,          \* n: the message item's id is <<"msg", n>>; 0: none yet
  opened,          \* response.created was emitted
  msg_item_added,  \* the message item is open
  text_acc,        \* the message's text
  tool_calls,      \* ToolCallState by upstream index, NoCall where unknown
  usage,           \* the last usage seen
  finish_reason,   \* the last finish reason seen
  completed,       \* response.completed was emitted
  done,            \* the upstream ended, or reading from it failed
  tools,           \* the rest of the current chunk: its tool-call deltas ...
  finish,          \* ... and its finish reason
  closing,         \* indices handle_finish has still to close
  lines,           \* lines read so far
  events           \* everything emitted

vars == <<seq, msg_id, opened, msg_item_added, text_acc, tool_calls, usage,
          finish_reason, completed, done, tools, finish, closing, lines, events>>

Id == {<<>>} \cup {<<"id", c>> : c \in CallId} \cup {<<"gen", i>> : i \in Index}
Call == [known : BOOLEAN, oai_id : Id, name : {""} \cup Name,
         arguments : Seq(Token), announced : BOOLEAN]
NoCall == [known |-> FALSE, oai_id |-> <<>>, name |-> "", arguments |-> <<>>,
           announced |-> FALSE]

-----------------------------------------------------------------------------
\* An event: what it is about (`of`: the response, the message or the
\* upstream index of a tool call), where, and the data a client compares.
Event(type, number, of, at, id, data) ==
  [type |-> type, seq |-> number, of |-> of, index |-> at, id |-> id,
   data |-> data]

Response == -2
Message == -1

\* created, in_progress and completed carry no sequence_number.
Unnumbered == -1

MsgId(n) == <<"msg", n>>

\* The output_index of tool call i, msg_offset() included.
OutputIndex(i, msg) == i + (IF msg # 0 THEN 1 ELSE 0)

\* handle_tool_call_delta: an absent index is 0.
ToolIndex(tc) == IF tc.index = None THEN 0 ELSE tc.index

\* Faulty variant of CallAfter: a call without an id gets no generated one.
CallAfterNoFallback(call, tc) ==
  [known |-> TRUE,
   oai_id |-> IF call.known THEN call.oai_id ELSE tc.id,
   name |-> IF tc.name \notin {None, ""} THEN tc.name ELSE call.name,
   arguments |-> IF tc.args = None THEN call.arguments
                 ELSE Append(call.arguments, tc.args),
   announced |-> call.announced]

\* Faulty variant of CallAfter: a later piece replaces the arguments.
CallAfterReplaces(call, tc) ==
  LET first == IF call.known THEN call.oai_id
               ELSE IF tc.id # None THEN tc.id ELSE <<"gen", ToolIndex(tc)>>
  IN [known |-> TRUE,
      oai_id |-> IF first = <<>> /\ tc.id # None THEN tc.id ELSE first,
      name |-> IF tc.name \notin {None, ""} THEN tc.name ELSE call.name,
      arguments |-> IF tc.args = None THEN call.arguments ELSE <<tc.args>>,
      announced |-> call.announced]

\* Faulty variant of CallAfter: every delta without an id gets a new one.
CallAfterForgetsId(call, tc) ==
  [known |-> TRUE,
   oai_id |-> IF tc.id # None THEN tc.id ELSE <<"gen", ToolIndex(tc)>>,
   name |-> IF tc.name \notin {None, ""} THEN tc.name ELSE call.name,
   arguments |-> IF tc.args = None THEN call.arguments
                 ELSE Append(call.arguments, tc.args),
   announced |-> call.announced]

\* The state of a call after a delta, before it is announced.  The first id
\* sticks unless it is empty; any later name replaces the earlier one.
CallAfter(call, tc) ==
  LET first == IF call.known THEN call.oai_id
               ELSE IF tc.id # None THEN tc.id ELSE <<"gen", ToolIndex(tc)>>
  IN [known |-> TRUE,
      oai_id |-> IF first = <<>> /\ tc.id # None THEN tc.id ELSE first,
      name |-> IF tc.name \notin {None, ""} THEN tc.name ELSE call.name,
      arguments |-> IF tc.args = None THEN call.arguments
                    ELSE Append(call.arguments, tc.args),
      announced |-> call.announced]

\* Faulty variant of ShouldAnnounce: whether it was announced is not asked.
ShouldAnnounceAgain(call, tc) ==
  call.oai_id # <<>> /\ (call.name # "" \/ tc.name # None)

\* should_announce: an id, and a name or at least a name field.
ShouldAnnounce(call, tc) ==
  /\ ~call.announced
  /\ call.oai_id # <<>>
  /\ call.name # "" \/ tc.name # None

Idle == tools = <<>> /\ finish = None /\ closing = {}

Reading == ~done /\ Idle /\ lines < MaxLines

-----------------------------------------------------------------------------
Init ==
  /\ seq = 0 /\ msg_id = 0
  /\ opened = FALSE /\ msg_item_added = FALSE /\ completed = FALSE
  /\ text_acc = <<>>
  /\ tool_calls = [i \in Index |-> NoCall]
  /\ usage = None /\ finish_reason = None
  /\ done = FALSE
  /\ tools = <<>> /\ finish = None /\ closing = {}
  /\ lines = 0
  /\ events = <<>>

\* open_response
Opening ==
  IF opened THEN <<>>
  ELSE <<Event("response.created", Unnumbered, Response, 0, <<>>, <<>>),
         Event("response.in_progress", Unnumbered, Response, 0, <<>>, <<>>)>>

\* ensure_msg_item, with the number of its first event and its new id.
MessageAdded(n, m) ==
  <<Event("response.output_item.added", n, Message, 0, MsgId(m), <<>>),
    Event("response.content_part.added", n + 1, Message, 0, MsgId(m), <<>>)>>

\* Faulty variant of ChunkLine: only text opens the message item.
ChunkLineTextOnly(c) ==
  /\ Reading
  /\ c.choice
  /\ LET adds  == ~msg_item_added /\ c.content # None
         msg   == IF adds THEN msg_id + 1 ELSE msg_id
         at    == IF adds THEN seq + 2 ELSE seq
         delta == IF c.content = None THEN <<>>
                  ELSE <<Event("response.output_text.delta", at, Message, 0,
                               MsgId(msg), <<c.content>>)>>
     IN /\ events' = events \o Opening
                       \o (IF adds THEN MessageAdded(seq, msg) ELSE <<>>)
                       \o delta
        /\ seq' = at + Len(delta)
        /\ msg_id' = msg
        /\ msg_item_added' = (msg_item_added \/ adds)
  /\ opened' = TRUE
  /\ text_acc' = IF c.content = None THEN text_acc ELSE Append(text_acc, c.content)
  /\ usage' = IF c.usage = None THEN usage ELSE c.usage
  /\ tools' = c.tools
  /\ finish' = c.finish
  /\ lines' = lines + 1
  /\ UNCHANGED <<tool_calls, finish_reason, completed, done, closing>>

\* A chunk with a choice: remember its usage, open the response, open the
\* message item if there is text or a tool_calls array (even an empty one),
\* emit the text.
ChunkLine(c) ==
  /\ Reading
  /\ c.choice
  /\ LET adds  == ~msg_item_added /\ (c.content # None \/ c.array)
         msg   == IF adds THEN msg_id + 1 ELSE msg_id
         at    == IF adds THEN seq + 2 ELSE seq
         delta == IF c.content = None THEN <<>>
                  ELSE <<Event("response.output_text.delta", at, Message, 0,
                               MsgId(msg), <<c.content>>)>>
     IN /\ events' = events \o Opening
                       \o (IF adds THEN MessageAdded(seq, msg) ELSE <<>>)
                       \o delta
        /\ seq' = at + Len(delta)
        /\ msg_id' = msg
        /\ msg_item_added' = (msg_item_added \/ adds)
  /\ opened' = TRUE
  /\ text_acc' = IF c.content = None THEN text_acc ELSE Append(text_acc, c.content)
  /\ usage' = IF c.usage = None THEN usage ELSE c.usage
  /\ tools' = c.tools
  /\ finish' = c.finish
  /\ lines' = lines + 1
  /\ UNCHANGED <<tool_calls, finish_reason, completed, done, closing>>

\* Faulty variant of UsageLine: a chunk without choices is skipped whole.
UsageLineSkipped(c) ==
  /\ Reading
  /\ ~c.choice
  /\ lines' = lines + 1
  /\ UNCHANGED <<seq, msg_id, opened, msg_item_added, text_acc, tool_calls,
                 usage, finish_reason, completed, done, tools, finish, closing,
                 events>>

\* A chunk without choices, such as the final usage-only chunk.
UsageLine(c) ==
  /\ Reading
  /\ ~c.choice
  /\ usage' = IF c.usage = None THEN usage ELSE c.usage
  /\ lines' = lines + 1
  /\ UNCHANGED <<seq, msg_id, opened, msg_item_added, text_acc, tool_calls,
                 finish_reason, completed, done, tools, finish, closing, events>>

\* handle_tool_call_delta for the next delta of the chunk.
HandleToolCallDelta ==
  /\ tools # <<>>
  /\ LET tc   == Head(tools)
         i    == ToolIndex(tc)
         call == CallAfter(tool_calls[i], tc)
         ann  == ShouldAnnounce(call, tc)
         at   == OutputIndex(i, msg_id)
         item == IF ~ann THEN <<>>
                 ELSE <<Event("response.output_item.added", seq, i, at,
                              call.oai_id, <<call.name>>)>>
         args == IF tc.args = None THEN <<>>
                 ELSE <<Event("response.function_call_arguments.delta",
                              seq + Len(item), i, at, call.oai_id, <<tc.args>>)>>
     IN /\ tool_calls' = [tool_calls EXCEPT
                            ![i] = [call EXCEPT !.announced = @ \/ ann]]
        /\ events' = events \o item \o args
        /\ seq' = seq + Len(item) + Len(args)
  /\ tools' = Tail(tools)
  /\ UNCHANGED <<msg_id, opened, msg_item_added, text_acc, usage, finish_reason,
                 completed, done, finish, closing, lines>>

\* Faulty variant of HandleFinish: tool calls are closed only when the finish
\* reason is tool_calls.
HandleFinishByReason ==
  /\ tools = <<>>
  /\ finish # None
  /\ IF msg_item_added
     THEN /\ events' = events \o
               <<Event("response.output_item.done", seq, Message, 0,
                       MsgId(msg_id), text_acc)>>
          /\ seq' = seq + 1
     ELSE UNCHANGED <<events, seq>>
  /\ msg_item_added' = FALSE
  /\ closing' = IF finish = "tool_calls"
                THEN {i \in Index : tool_calls[i].known} ELSE {}
  /\ finish_reason' = finish
  /\ finish' = None
  /\ UNCHANGED <<msg_id, opened, text_acc, tool_calls, usage, completed, done,
                 tools, lines>>

\* handle_finish: close the message item if it is open, then go on to close
\* every known tool call.
HandleFinish ==
  /\ tools = <<>>
  /\ finish # None
  /\ IF msg_item_added
     THEN /\ events' = events \o
               <<Event("response.output_text.done", seq, Message, 0,
                       MsgId(msg_id), text_acc),
                 Event("response.content_part.done", seq + 1, Message, 0,
                       MsgId(msg_id), text_acc),
                 Event("response.output_item.done", seq + 2, Message, 0,
                       MsgId(msg_id), text_acc)>>
          /\ seq' = seq + 3
     ELSE UNCHANGED <<events, seq>>
  /\ msg_item_added' = FALSE
  /\ closing' = {i \in Index : tool_calls[i].known}
  /\ finish_reason' = finish
  /\ finish' = None
  /\ UNCHANGED <<msg_id, opened, text_acc, tool_calls, usage, completed, done,
                 tools, lines>>

\* Faulty variant of CloseToolCall: both events are counted as one.
CloseToolCallMiscounted(i) ==
  /\ i \in closing
  /\ LET call == tool_calls[i]
         at   == OutputIndex(i, msg_id)
         args == IF call.arguments = <<>> THEN <<>>
                 ELSE <<Event("response.function_call_arguments.done", seq, i, at,
                              call.oai_id, call.arguments)>>
     IN events' = events \o args \o
               <<Event("response.output_item.done", seq, i, at,
                       call.oai_id, call.arguments)>>
  /\ seq' = seq + 1
  /\ closing' = closing \ {i}
  /\ UNCHANGED <<msg_id, opened, msg_item_added, text_acc, tool_calls, usage,
                 finish_reason, completed, done, tools, finish, lines>>

\* One turn of handle_finish's loop over the HashMap: any order.
CloseToolCall(i) ==
  /\ i \in closing
  /\ LET call == tool_calls[i]
         at   == OutputIndex(i, msg_id)
         args == IF call.arguments = <<>> THEN <<>>
                 ELSE <<Event("response.function_call_arguments.done", seq, i, at,
                              call.oai_id, call.arguments)>>
     IN /\ events' = events \o args \o
               <<Event("response.output_item.done", seq + Len(args), i, at,
                       call.oai_id, call.arguments)>>
        /\ seq' = seq + Len(args) + 1
  /\ closing' = closing \ {i}
  /\ UNCHANGED <<msg_id, opened, msg_item_added, text_acc, tool_calls, usage,
                 finish_reason, completed, done, tools, finish, lines>>

\* The items of response.completed: the message if there ever was one, then
\* the known tool calls; where index i stands in their sorted order is left
\* to the set.
Output ==
  (IF msg_id = 0 THEN {}
   ELSE {[of |-> Message, id |-> MsgId(msg_id), data |-> text_acc]})
  \cup {[of |-> i, id |-> tool_calls[i].oai_id, data |-> tool_calls[i].arguments] :
          i \in {j \in Index : tool_calls[j].known}}

\* Faulty variant of DoneLine: every [DONE] completes the response.
DoneLineAgain ==
  /\ Reading
  /\ events' = Append(events,
                 [type |-> "response.completed", seq |-> Unnumbered,
                  of |-> Response, status |-> "completed",
                  output |-> Output, usage |-> usage])
  /\ completed' = TRUE
  /\ lines' = lines + 1
  /\ UNCHANGED <<seq, msg_id, opened, msg_item_added, text_acc, tool_calls,
                 usage, finish_reason, done, tools, finish, closing>>

\* emit_completed, on [DONE]: once.
DoneLine ==
  /\ Reading
  /\ events' = IF completed THEN events
               ELSE Append(events,
                 [type |-> "response.completed", seq |-> Unnumbered,
                  of |-> Response,
                  status |-> IF finish_reason = "length"
                             THEN "incomplete" ELSE "completed",
                  output |-> Output, usage |-> usage])
  /\ completed' = TRUE
  /\ lines' = lines + 1
  /\ UNCHANGED <<seq, msg_id, opened, msg_item_added, text_acc, tool_calls,
                 usage, finish_reason, done, tools, finish, closing>>

\* The upstream ends its stream, or reading from it fails: nothing more is
\* read and nothing is emitted for it.
EndOfStream ==
  /\ ~done /\ Idle
  /\ done' = TRUE
  /\ UNCHANGED <<seq, msg_id, opened, msg_item_added, text_acc, tool_calls,
                 usage, finish_reason, completed, tools, finish, closing, lines,
                 events>>

Line == (\E c \in Chunks : ChunkLine(c) \/ UsageLine(c)) \/ DoneLine
Finishing == HandleFinish \/ \E i \in Index : CloseToolCall(i)

Rest == done /\ UNCHANGED vars

Next == Line \/ HandleToolCallDelta \/ Finishing \/ EndOfStream \/ Rest

Spec == Init /\ [][Next]_vars

-----------------------------------------------------------------------------
(* Correctness, whatever the upstream sends                                *)

\* Every variable of the translator has its type.
TypeOK ==
  /\ seq \in Nat /\ msg_id \in Nat /\ lines \in 0..MaxLines
  /\ opened \in BOOLEAN /\ msg_item_added \in BOOLEAN
  /\ completed \in BOOLEAN /\ done \in BOOLEAN
  /\ text_acc \in Seq(Token)
  /\ tool_calls \in [Index -> Call]
  /\ usage \in {None} \cup Usage
  /\ finish_reason \in {None} \cup Reason
  /\ tools \in Seq(ToolDelta)
  /\ finish \in {None} \cup Reason
  /\ closing \subseteq Index

Emitted == 1..Len(events)

\* Numbered events carry 0, 1, 2, ... in the order they are written, up to
\* the next number, with no gap and no repetition, however lines are mixed
\* (emit_with_seq).
SequenceDense ==
  LET numbered == {k \in Emitted : events[k].seq # Unnumbered}
  IN /\ \A j, k \in numbered : j < k => events[j].seq < events[k].seq
     /\ {events[k].seq : k \in numbered} = 0..(seq - 1)

\* Events of the message item are at output_index 0, events of tool call i
\* at i + 1, from the first to the last: indices never shift mid-stream,
\* although tool calls may come before any text (process_line, msg_offset).
IndicesNeverShift ==
  \A k \in Emitted :
    LET e == events[k] IN
    /\ e.of = Message => e.index = 0
    /\ e.of \in Index => e.index = e.of + 1

\* response.created and response.in_progress come once, in this order, ahead
\* of every numbered event; response.completed comes at most once.
FramedOnce ==
  \A k \in Emitted :
    LET type == events[k].type
        first == {j \in 1..k : events[j].type = type}
    IN /\ type \in {"response.created", "response.in_progress",
                    "response.completed"} => first = {k}
       /\ type = "response.in_progress" =>
            k > 1 /\ events[k - 1].type = "response.created"
       /\ events[k].seq # Unnumbered =>
            \E j \in 1..k : events[j].type = "response.in_progress"

IsDelta(e) == e.type \in {"response.output_text.delta",
                          "response.function_call_arguments.delta"}

\* The n-th smallest of a set of positions, and the pieces that the deltas at
\* those positions of a sequence of events carry, one after the other.
Nth(at, n) == CHOOSE j \in at : Cardinality({h \in at : h <= j}) = n
Pieces(s, at) == [n \in 1..Cardinality(at) |-> s[Nth(at, n)].data[1]]

\* Where the deltas of `of` are among the first k events, and what they add
\* up to.
DeltasIn(s, of, k) == {j \in 1..k : s[j].of = of /\ IsDelta(s[j])}
Streamed(of, k) == Pieces(events, DeltasIn(events, of, k))

Sealing == {"response.output_text.done", "response.content_part.done",
            "response.function_call_arguments.done", "response.output_item.done"}

\* Every done event and the completed response repeat, in order, exactly what
\* was streamed until then: for a tool call the arguments streamed for it, for
\* a message the text streamed in the whole response (text_acc,
\* ToolCallState.arguments, handle_finish, emit_completed).  text_acc is never
\* cleared, so a message's text is its own only while it is the only message:
\* a second one, opened by text after a finish reason, is sealed with the text
\* of both.  ItemsSealed compares item by item, for streams without that.
SealedIsStreamed ==
  \A k \in Emitted :
    LET e == events[k] IN
    /\ e.type \in Sealing => e.data = Streamed(e.of, k)
    /\ e.type = "response.completed" =>
         \A o \in e.output : o.data = Streamed(o.of, k)

\* A tool call is announced at most once, never without an id, and keeps the
\* first id it was given: every later event about it carries that one,
\* whichever ids the upstream still sends (should_announce,
\* ToolCallState.announced, ToolCallState.oai_id).
AnnouncedOnce ==
  /\ \A k \in Emitted :
       events[k].of \in Index /\ events[k].type = "response.output_item.added" =>
         /\ events[k].id # <<>>
         /\ \A j \in Emitted \ {k} : ~ /\ events[j].of = events[k].of
                                       /\ events[j].type = events[k].type
  /\ \A j, k \in Emitted :
       /\ j < k /\ events[j].of \in Index /\ events[k].of = events[j].of
       /\ events[j].id # <<>>
       => events[k].id = events[j].id

\* What the comment in the unit test of translate_sse.rs says: exactly one
\* item may occupy output_index 0.
OneItemAtZero ==
  \A j, k \in Emitted :
    /\ events[j].type = "response.output_item.added" /\ events[j].index = 0
    /\ events[k].type = "response.output_item.added" /\ events[k].index = 0
    => j = k
=============================================================================
