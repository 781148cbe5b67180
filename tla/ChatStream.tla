----------------------------- MODULE ChatStream -----------------------------
(***************************************************************************)
(* The translator fed by an upstream that keeps to the chat-completions    *)
(* stream: tool calls are numbered 0, 1, ... and introduced by one delta   *)
(* with their id and name, later deltas only add arguments; exactly one    *)
(* chunk has a finish reason, and nothing but usage and [DONE] follows.    *)
(* The upstream is external; it may still break off at any point.          *)
(***************************************************************************)
EXTENDS SseTranslator

VARIABLE said  \* what the upstream has said: finish reason, usage, [DONE]

Known == {i \in Index : tool_calls[i].known}

\* The deltas of c before the k-th that mention tool call i.
Earlier(c, k, i) == {j \in 1..(k - 1) : c.tools[j].index = i}

\* The k-th delta of c introduces a call, the next in number, or adds to one.
Introduces(c, k) ==
  LET tc == c.tools[k] IN
  /\ tc.index \in Index \ Known /\ Earlier(c, k, tc.index) = {}
  /\ \A i \in Index : i < tc.index => i \in Known \/ Earlier(c, k, i) # {}
  /\ tc.name \in Name
  /\ tc.id \notin {None, <<>>}
  /\ \A i \in Known : tool_calls[i].oai_id # tc.id
  /\ \A j \in 1..(k - 1) : c.tools[j].id # tc.id

AddsTo(c, k) ==
  LET tc == c.tools[k] IN
  /\ tc.index \in Index
  /\ tc.index \in Known \/ Earlier(c, k, tc.index) # {}
  /\ tc.id = None /\ tc.name = None

WellFormed(c) ==
  IF c.choice
  THEN /\ said.finish = None
       /\ \A k \in DOMAIN c.tools : Introduces(c, k) \/ AddsTo(c, k)
  ELSE said.finish # None /\ ~said.done

Says(c) ==
  said' = [said EXCEPT !.finish = IF c.choice /\ c.finish # None THEN c.finish ELSE @,
                       !.usage = IF c.usage # None THEN c.usage ELSE @]

ChatInit == Init /\ said = [finish |-> None, usage |-> None, done |-> FALSE]

ChatNext ==
  \/ \E c \in Chunks : WellFormed(c) /\ Says(c) /\ (ChunkLine(c) \/ UsageLine(c))
  \/ /\ said.finish # None /\ ~said.done
     /\ said' = [said EXCEPT !.done = TRUE]
     /\ DoneLine
  \/ UNCHANGED said /\ (HandleToolCallDelta \/ Finishing \/ EndOfStream \/ Rest)

ChatSpec == ChatInit /\ [][ChatNext]_<<vars, said>>

-----------------------------------------------------------------------------
(* The client's view, read off the emitted events alone.                   *)

At(i, types) == {k \in Emitted : /\ events[k].type \in types
                                 /\ events[k].index = i}

SlotView(i) ==
  LET added == At(i, {"response.output_item.added"})
      ended == At(i, {"response.output_item.done"})
      deltas == {k \in Emitted : IsDelta(events[k]) /\ events[k].index = i}
  IN IF added = {} THEN [status |-> "absent", id |-> <<>>, data |-> <<>>]
     ELSE [status |-> IF ended = {} THEN "open" ELSE "done",
           id |-> events[CHOOSE k \in added : TRUE].id,
           data |-> Pieces(events, deltas)]

Slots == {0} \cup {i + 1 : i \in Index}

CompletedAt == {k \in Emitted : events[k].type = "response.completed"}

PhaseView ==
  IF CompletedAt # {} THEN "completed"
  ELSE IF \E k \in Emitted : events[k].type = "response.created" THEN "open"
  ELSE "none"

OutputView ==
  IF CompletedAt = {} THEN {}
  ELSE {[at |-> IF o.of = Message THEN 0 ELSE o.of + 1, id |-> o.id, data |-> o.data] :
          o \in events[CHOOSE k \in CompletedAt : TRUE].output}

Client == INSTANCE ResponseStream WITH
  Slot <- Slots,
  phase <- PhaseView,
  items <- [i \in Slots |-> SlotView(i)],
  output <- OutputView

\* Whatever a well-formed upstream sends, in whatever order the HashMap
\* yields the calls, the client sees what ResponseStream allows (process_line
\* and everything it calls).
StreamKept == Client!RSpec

-----------------------------------------------------------------------------
\* Every event of an item comes after the item was added under the same id
\* and before it is done; done comes once; and in a completed response every
\* item that was added is done (handle_tool_call_delta, handle_finish).
ItemsBracketed ==
  LET added(k) == events[k].type = "response.output_item.added"
      ended(k) == events[k].type = "response.output_item.done"
      same(j, k) == events[j].of = events[k].of /\ events[j].id = events[k].id
  IN /\ \A k \in Emitted : events[k].of # Response =>
          /\ \E j \in 1..k : same(j, k) /\ added(j)
          /\ \A j \in 1..(k - 1) : events[j].of = events[k].of => ~ended(j)
     /\ CompletedAt # {} =>
          \A j \in Emitted : added(j) => \E k \in Emitted : same(j, k) /\ ended(k)

\* What the deltas at one output index and under one id add up to, among the
\* first k events.
StreamedAs(at, id, k) ==
  Pieces(events, {j \in 1..k : /\ IsDelta(events[j])
                               /\ events[j].index = at /\ events[j].id = id})

\* Item by item, as a client tells items apart, by output index and id: every
\* done event and every item of the completed response repeats exactly the
\* deltas of that item, in order, nothing lost, repeated or taken from another
\* (text_acc, ToolCallState.arguments, handle_finish, emit_completed).
ItemsSealed ==
  \A k \in Emitted :
    LET e == events[k] IN
    /\ e.type \in Sealing => e.data = StreamedAs(e.index, e.id, k)
    /\ e.type = "response.completed" =>
         \A o \in e.output :
           o.data = StreamedAs(IF o.of = Message THEN 0 ELSE o.of + 1, o.id, k)

\* A completed response says incomplete exactly when the upstream stopped at
\* its token limit, and carries the usage the upstream reported, whichever
\* chunk that came with (process_line, emit_completed).
StatusAndUsage ==
  \A k \in CompletedAt :
    /\ (events[k].status = "incomplete" <=> said.finish = "length")
    /\ events[k].usage = said.usage
=============================================================================
