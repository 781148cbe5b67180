------------------------- MODULE ConversationProofs -------------------------
(***************************************************************************)
(* For any texts, calls, replies and additions: a conversation only grows, *)
(* each request repeating what the upstream was sent and said; no text is  *)
(* lost; every tool output follows the call it answers.                    *)
(*                                                                         *)
(* The invariant relates the last request to what would be sent now:       *)
(* ConvertInput(items), a loop, taken as one step per item.                *)
(***************************************************************************)
EXTENDS Conversation, LoopProofs, FiniteSetTheorems

-----------------------------------------------------------------------------
(* What the translations make of items.                                    *)

Ids == {c.id : c \in Calls}

Messages == [type : {"message"}, role : Role, content : Seq(Part)]
FunctionCalls == [type : {"function_call"}, call : Calls]
Outputs == [type : {"function_call_output"}, call_id : Ids, output : ToolOutputs]
Item == Messages \cup FunctionCalls \cup Outputs \cup Additions

Converted == [system : {None} \cup Seq(Text), chat : Seq(ChatMessage)]

\* The text of a message is built part by part.
LEMMA PartByPart ==
  ASSUME NEW item, item.content \in Seq(Part)
  PROVE  LET parts == item.content IN
         \E f \in [0..Len(parts) -> Seq(Text)] :
           /\ f[0] = <<>> /\ MessageText(item) = f[Len(parts)]
           /\ \A n \in 1..Len(parts) :
                f[n] = IF parts[n] = Image THEN f[n - 1] ELSE Append(f[n - 1], parts[n])
<1> DEFINE parts == item.content
           N == Len(parts)
           g == [n \in 1..N |-> [t \in Seq(Text) |->
                   IF parts[n] = Image THEN t ELSE Append(t, parts[n])]]
           IsText(f) == f = [n \in 0..N |->
                               IF n = 0 THEN <<>>
                               ELSE IF parts[n] = Image THEN f[n - 1]
                               ELSE Append(f[n - 1], parts[n])]
           h == CHOOSE f : IsText(f)
<1>1. N \in Nat /\ \A n \in 1..N : parts[n] = Image \/ parts[n] \in Text
  BY DEF Part
<1>2. MessageText(item) = h[N]
  BY DEF MessageText
<1>3. \A n \in 1..N, t \in Seq(Text) : g[n][t] \in Seq(Text)
  BY <1>1
<1>4. <<>> \in Seq(Text)
  OBVIOUS
<1>5. \A n \in 1..N, t \in Seq(Text) :
        g[n][t] = IF parts[n] = Image THEN t ELSE Append(t, parts[n])
  OBVIOUS
<1> HIDE DEF parts, N, g
<1>6. PICK f \in [0..N -> Seq(Text)] : f[0] = <<>> /\ \A n \in 1..N : f[n] = g[n][f[n - 1]]
  <2> DEFINE D == Seq(Text)
             base == <<>>
  <2>1. N \in Nat /\ base \in D /\ \A n \in 1..N, d \in D : g[n][d] \in D
    BY <1>1, <1>3, <1>4
  <2> HIDE DEF D, base
  <2>2. PICK f : Stepwise(f, N, D, base, g)
    BY <2>1, StepByStep
  <2>3. QED
    BY <2>2 DEF D, base, Stepwise
<1>7. \A n \in 1..N : f[n] = IF parts[n] = Image THEN f[n - 1] ELSE Append(f[n - 1], parts[n])
  <2> SUFFICES ASSUME NEW n \in 1..N
               PROVE f[n] = IF parts[n] = Image THEN f[n - 1] ELSE Append(f[n - 1], parts[n])
    OBVIOUS
  <2>1. n - 1 \in 0..N
    BY <1>1
  <2>2. f[n - 1] \in Seq(Text)
    BY <2>1
  <2>3. QED
    BY <1>5, <1>6, <2>2
<1>8. IsText(f)
  <2>1. \A n \in 0..N : f[n] = IF n = 0 THEN <<>>
                               ELSE IF parts[n] = Image THEN f[n - 1]
                               ELSE Append(f[n - 1], parts[n])
    <3>1. \A n \in 0..N : n = 0 \/ n \in 1..N
      BY <1>1
    <3>2. QED
      BY <1>6, <1>7, <3>1
  <2>2. f = [n \in 0..N |-> f[n]]
    OBVIOUS
  <2>3. QED
    BY <2>1, <2>2
<1> HIDE DEF IsText
<1>9. IsText(h)
  BY <1>8
<1> HIDE DEF h
<1>10. /\ h[0] = <<>>
       /\ \A n \in 1..N : h[n] = IF parts[n] = Image THEN h[n - 1] ELSE Append(h[n - 1], parts[n])
  <2>1. 0 \in 0..N /\ \A n \in 1..N : n \in 0..N /\ n # 0
    BY <1>1
  <2>2. QED
    BY <1>9, <2>1 DEF IsText
<1>11. h[N] = f[N]
  <2> DEFINE S == {n \in 0..N : h[n] = f[n]}
  <2>1. 0 \in S
    BY <1>1, <1>6, <1>10
  <2>2. \A n \in S : n + 1 \in 1..N => n + 1 \in S
    <3> SUFFICES ASSUME NEW n \in S, n + 1 \in 1..N PROVE n + 1 \in S
      OBVIOUS
    <3>1. n \in 0..N /\ h[n] = f[n] /\ (n + 1) - 1 = n /\ n + 1 \in 0..N
      BY <1>1
    <3>2. h[n + 1] = f[n + 1]
      BY <1>7, <1>10, <3>1
    <3>3. QED
      BY <3>1, <3>2
  <2> HIDE DEF S
  <2>3. \A n \in 0..N : n \in S
    BY <1>1, <2>1, <2>2, Induct
  <2>4. N \in 0..N
    BY <1>1
  <2>5. QED
    BY <2>3, <2>4 DEF S
<1>12. QED
  BY <1>2, <1>6, <1>7, <1>11 DEF parts, N

LEMMA TextOfMessage ==
  ASSUME NEW item, item.content \in Seq(Part)
  PROVE  MessageText(item) \in Seq(Text)
<1>1. Len(item.content) \in 0..Len(item.content)
  BY LenProperties
<1>2. QED
  BY <1>1, PartByPart

\* A text without images is itself.
LEMMA PlainText ==
  ASSUME NEW item, item.content \in Seq(Text)
  PROVE  MessageText(item) = item.content
<1> DEFINE parts == item.content
           N == Len(parts)
<1>1. N \in Nat /\ parts \in Seq(Part) /\ \A n \in 1..N : parts[n] \in Text /\ parts[n] # Image
  BY ConversationAssumption DEF Part
<1>2. PICK f \in [0..N -> Seq(Text)] :
        /\ f[0] = <<>> /\ MessageText(item) = f[N]
        /\ \A n \in 1..N :
             f[n] = IF parts[n] = Image THEN f[n - 1] ELSE Append(f[n - 1], parts[n])
  BY <1>1, PartByPart
<1> HIDE DEF N
<1> DEFINE S == {n \in 0..N : f[n] = SubSeq(parts, 1, n)}
<1>3. 0 \in S
  <2>1. SubSeq(parts, 1, 0) = <<>>
    BY <1>1, SubSeqEmpty
  <2>2. QED
    BY <1>1, <1>2, <2>1
<1>4. \A n \in S : n + 1 \in 1..N => n + 1 \in S
  <2> SUFFICES ASSUME NEW n \in S, n + 1 \in 1..N PROVE n + 1 \in S
    OBVIOUS
  <2>1. n \in 0..N /\ f[n] = SubSeq(parts, 1, n) /\ (n + 1) - 1 = n /\ n + 1 \in 0..N
    BY <1>1
  <2>2. f[n + 1] = Append(SubSeq(parts, 1, n), parts[n + 1])
    BY <1>1, <1>2, <2>1
  <2>3. SubSeq(parts, 1, n + 1) = Append(SubSeq(parts, 1, n), parts[n + 1])
    BY <1>1, <2>1, Prefix DEF N
  <2>4. QED
    BY <2>1, <2>2, <2>3
<1> HIDE DEF S
<1>5. \A n \in 0..N : n \in S
  BY <1>1, <1>3, <1>4, Induct
<1>6. N \in 0..N
  BY <1>1
<1>7. f[N] = SubSeq(parts, 1, N)
  BY <1>5, <1>6 DEF S
<1>8. SubSeq(parts, 1, N) = parts
  BY SubSeqFull DEF N
<1>9. QED
  BY <1>2, <1>7, <1>8

\* What the items of a type carry.
LEMMA ItemShape ==
  ASSUME NEW item \in Item
  PROVE  /\ item.type = "message" => (item.role \in Role /\ item.content \in Seq(Part))
         /\ item.type = "function_call" => item.call \in Calls
         /\ item.type = "function_call_output" =>
              (item.call_id \in Ids /\ item.output \in ToolOutputs)
<1>1. CASE item \in Messages
  BY <1>1 DEF Messages
<1>2. CASE item \in FunctionCalls
  BY <1>2 DEF FunctionCalls
<1>3. CASE item \in Outputs
  BY <1>3 DEF Outputs
<1>4. CASE item \in Additions
  BY <1>4, ConversationAssumption
<1>5. QED
  BY <1>1, <1>2, <1>3, <1>4 DEF Item

\* The text of an output is a text, that of the client if it is a string.
LEMMA OutputShape ==
  ASSUME NEW item \in Item, item.type = "function_call_output"
  PROVE  OutputText(item) \in Seq(Text) /\ ItemText(item) = OutputText(item)
<1>1. item.output \in [string : BOOLEAN, text : Seq(Text)]
  BY ItemShape, ConversationAssumption
<1>2. item.output.text \in Seq(Text) /\ <<>> \in Seq(Text)
  BY <1>1, EmptySeq
<1>3. item.type # "message"
  OBVIOUS
<1>4. QED
  BY <1>2, <1>3 DEF OutputText, ItemText

LEMMA ChatShape ==
  ASSUME NEW role \in {"user", "assistant", "tool"}, NEW text \in Seq(Text),
         NEW calls \in Seq(Calls), NEW id \in {None} \cup Ids
  PROVE  Chat(role, text, calls, id) \in ChatMessage
BY DEF Chat, ChatMessage, Ids

LEMMA FieldOfChat ==
  ASSUME NEW m \in ChatMessage, NEW l
  PROVE  [m EXCEPT !.tool_calls = l] = Chat(m.role, m.content, l, m.tool_call_id)
BY DEF ChatMessage, Chat

\* A call goes to the message it follows.
Called(messages, call) ==
  [messages EXCEPT ![Len(messages)].tool_calls = Append(@, call)]

LEMMA CalledShape ==
  ASSUME NEW messages \in Seq(ChatMessage), messages # <<>>, NEW call \in Calls
  PROVE  LET n == Len(messages)
             m == messages[n]
         IN /\ n \in Nat /\ n >= 1 /\ m \in ChatMessage
            /\ Called(messages, call) \in Seq(ChatMessage)
            /\ Len(Called(messages, call)) = n
            /\ \A k \in 1..n : Called(messages, call)[k] =
                 IF k = n THEN Chat(m.role, m.content, Append(m.tool_calls, call), m.tool_call_id)
                 ELSE messages[k]
<1> DEFINE n == Len(messages)
           m == messages[n]
           e == Chat(m.role, m.content, Append(m.tool_calls, call), m.tool_call_id)
<1>1. n \in Nat /\ n >= 1 /\ n \in 1..Len(messages)
  BY EmptySeq, LenProperties
<1>2. m \in ChatMessage
  BY <1>1, ElementOfSeq
<1>3. m.tool_calls \in Seq(Calls)
  BY <1>2 DEF ChatMessage
<1>4. Append(m.tool_calls, call) \in Seq(Calls)
  BY <1>3
<1>5. e \in ChatMessage
  BY <1>2, <1>4 DEF ChatMessage, Chat
<1>6. \A l : [m EXCEPT !.tool_calls = l] = Chat(m.role, m.content, l, m.tool_call_id)
  BY <1>2, FieldOfChat
<1>7. Called(messages, call) = [messages EXCEPT ![n] = e]
  <2>1. [m EXCEPT !.tool_calls = Append(m.tool_calls, call)] = e
    BY <1>6
  <2>2. Called(messages, call) =
          [messages EXCEPT ![n] = [m EXCEPT !.tool_calls = Append(m.tool_calls, call)]]
    BY DEF Called
  <2>3. QED
    BY <2>1, <2>2
<1> HIDE DEF n, e
<1>8. /\ [messages EXCEPT ![n] = e] \in Seq(ChatMessage)
      /\ Len([messages EXCEPT ![n] = e]) = Len(messages)
      /\ \A k \in 1..Len(messages) : [messages EXCEPT ![n] = e][k] = IF k = n THEN e ELSE messages[k]
  BY <1>1, <1>5, ExceptSeq
<1>9. QED
  BY <1>1, <1>2, <1>7, <1>8 DEF n, e

\* What an item adds to the messages, by its type.
LEMMA AddItemCases ==
  ASSUME NEW messages \in Seq(ChatMessage), NEW item \in Item
  PROVE  \/ /\ AddItem(messages, item) = messages
            /\ item.type \notin {"function_call", "function_call_output"}
            /\ item.type = "message" => IsSystem(item)
         \/ /\ item.type = "message" /\ ~IsSystem(item)
            /\ AddItem(messages, item) = Append(messages, Chat(item.role, MessageText(item), <<>>, None))
            /\ Chat(item.role, MessageText(item), <<>>, None) \in ChatMessage
         \/ /\ item.type = "function_call"
            /\ messages # <<>> /\ Last(messages).role = "assistant"
            /\ AddItem(messages, item) = Called(messages, item.call)
            /\ item.call \in Calls
         \/ /\ item.type = "function_call"
            /\ messages = <<>> \/ Last(messages).role # "assistant"
            /\ AddItem(messages, item) = Append(messages, Chat("assistant", <<>>, <<item.call>>, None))
            /\ Chat("assistant", <<>>, <<item.call>>, None) \in ChatMessage
         \/ /\ item.type = "function_call_output"
            /\ AddItem(messages, item) = Append(messages, Chat("tool", OutputText(item), <<>>, item.call_id))
            /\ Chat("tool", OutputText(item), <<>>, item.call_id) \in ChatMessage
<1>1. CASE item.type = "message"
  <2>1. item.role \in Role /\ item.content \in Seq(Part)
    BY <1>1, ItemShape
  <2>2. MessageText(item) \in Seq(Text)
    BY <2>1, TextOfMessage
  <2>3. CASE IsSystem(item)
    BY <1>1, <2>3 DEF AddItem
  <2>4. CASE ~IsSystem(item)
    <3>1. item.role \in {"user", "assistant"}
      BY <1>1, <2>1, <2>4 DEF IsSystem, Role
    <3>2. Chat(item.role, MessageText(item), <<>>, None) \in ChatMessage
      BY <2>2, <3>1, ChatShape, EmptySeq
    <3>3. AddItem(messages, item) = Append(messages, Chat(item.role, MessageText(item), <<>>, None))
      BY <1>1, <2>4 DEF AddItem
    <3>4. QED
      BY <1>1, <2>4, <3>2, <3>3
  <2>5. QED
    BY <2>3, <2>4
<1>2. CASE item.type = "function_call"
  <2>1. item.call \in Calls
    BY <1>2, ItemShape
  <2>2. CASE messages # <<>> /\ Last(messages).role = "assistant"
    <3>1. AddItem(messages, item) = Called(messages, item.call)
      BY <1>2, <2>2 DEF AddItem, Called
    <3>2. QED
      BY <1>2, <2>1, <2>2, <3>1
  <2>3. CASE ~(messages # <<>> /\ Last(messages).role = "assistant")
    <3>1. AddItem(messages, item) = Append(messages, Chat("assistant", <<>>, <<item.call>>, None))
      BY <1>2, <2>3 DEF AddItem
    <3>2. <<>> \in Seq(Text) /\ <<item.call>> \in Seq(Calls)
      BY <2>1
    <3>3. Chat("assistant", <<>>, <<item.call>>, None) \in ChatMessage
      BY <3>2, ChatShape
    <3>4. QED
      BY <1>2, <2>3, <3>1, <3>3
  <2>4. QED
    BY <2>2, <2>3
<1>3. CASE item.type = "function_call_output"
  <2>1. item.call_id \in Ids /\ OutputText(item) \in Seq(Text)
    BY <1>3, ItemShape, OutputShape
  <2>2. Chat("tool", OutputText(item), <<>>, item.call_id) \in ChatMessage
    BY <2>1, ChatShape, EmptySeq
  <2>3. AddItem(messages, item) = Append(messages, Chat("tool", OutputText(item), <<>>, item.call_id))
    BY <1>3 DEF AddItem
  <2>4. QED
    BY <1>3, <2>2, <2>3
<1>4. CASE item.type \notin {"message", "function_call", "function_call_output"}
  BY <1>4 DEF AddItem
<1>5. QED
  BY <1>1, <1>2, <1>3, <1>4

LEMMA AddItemShape ==
  ASSUME NEW messages \in Seq(ChatMessage), NEW item \in Item
  PROVE  AddItem(messages, item) \in Seq(ChatMessage)
<1>1. \A m \in ChatMessage : Append(messages, m) \in Seq(ChatMessage)
  BY AppendProperties
<1>2. \A c \in Calls : messages # <<>> => Called(messages, c) \in Seq(ChatMessage)
  BY CalledShape
<1>3. QED
  BY <1>1, <1>2, AddItemCases

LEMMA AddSystemShape ==
  ASSUME NEW system \in {None} \cup Seq(Text), NEW item \in Item
  PROVE  AddSystem(system, item) \in {None} \cup Seq(Text)
<1>1. CASE ~IsSystem(item)
  BY <1>1 DEF AddSystem
<1>2. CASE IsSystem(item)
  <2>1. item.content \in Seq(Part)
    BY <1>2, ItemShape DEF IsSystem
  <2>2. MessageText(item) \in Seq(Text)
    BY <2>1, TextOfMessage
  <2>3. CASE system = None
    BY <1>2, <2>2, <2>3 DEF AddSystem
  <2>4. CASE system # None
    <3>1. system \o MessageText(item) \in Seq(Text)
      BY <2>2, <2>4, ConcatProperties
    <3>2. QED
      BY <1>2, <2>4, <3>1 DEF AddSystem
  <2>5. QED
    BY <2>3, <2>4
<1>3. QED
  BY <1>1, <1>2

LEMMA TurnShape ==
  ASSUME NEW before \in Converted, NEW item \in Item
  PROVE  Turn(before, item) \in Converted
<1>1. before.system \in {None} \cup Seq(Text) /\ before.chat \in Seq(ChatMessage)
  BY DEF Converted
<1>2. AddSystem(before.system, item) \in {None} \cup Seq(Text)
  BY <1>1, AddSystemShape
<1>3. AddItem(before.chat, item) \in Seq(ChatMessage)
  BY <1>1, AddItemShape
<1>4. QED
  BY <1>2, <1>3 DEF Turn, Converted

LEMMA NothingShape == NothingYet \in Converted
BY DEF NothingYet, Converted

-----------------------------------------------------------------------------
(* ConvertInput, turn by turn.                                             *)

LEMMA TurnByTurn ==
  ASSUME NEW s \in Seq(Item)
  PROVE  \E f \in [0..Len(s) -> Converted] :
           /\ f[0] = NothingYet /\ ConvertInput(s) = f[Len(s)]
           /\ \A n \in 1..Len(s) : f[n] = Turn(f[n - 1], s[n])
<1> DEFINE N == Len(s)
           g == [n \in 1..N |-> [c \in Converted |-> Turn(c, s[n])]]
           Loops(f) == f = [n \in 0..N |->
                              IF n = 0 THEN NothingYet ELSE Turn(f[n - 1], s[n])]
           h == CHOOSE f : Loops(f)
<1>1. N \in Nat /\ \A n \in 1..N : s[n] \in Item
  BY LenProperties, ElementOfSeq
<1>2. ConvertInput(s) = h[N]
  BY DEF ConvertInput
<1>3. \A n \in 1..N, c \in Converted : g[n][c] \in Converted
  BY <1>1, TurnShape
<1>4. \A n \in 1..N, c \in Converted : g[n][c] = Turn(c, s[n])
  OBVIOUS
<1> HIDE DEF N, g
<1>5. PICK f : Stepwise(f, N, Converted, NothingYet, g)
  BY <1>1, <1>3, NothingShape, StepByStep
<1>6. f \in [0..N -> Converted] /\ f[0] = NothingYet
  BY <1>5 DEF Stepwise
<1>7. \A n \in 1..N : f[n] = Turn(f[n - 1], s[n])
  <2> SUFFICES ASSUME NEW n \in 1..N PROVE f[n] = Turn(f[n - 1], s[n])
    OBVIOUS
  <2>1. n - 1 \in 0..N
    BY <1>1
  <2>2. f[n - 1] \in Converted /\ f[n] = g[n][f[n - 1]]
    BY <1>5, <1>6, <2>1 DEF Stepwise
  <2>3. QED
    BY <1>4, <2>2
<1>8. Loops(f)
  <2>1. \A n \in 0..N : f[n] = IF n = 0 THEN NothingYet ELSE Turn(f[n - 1], s[n])
    <3>1. \A n \in 0..N : n = 0 \/ n \in 1..N
      BY <1>1
    <3>2. QED
      BY <1>6, <1>7, <3>1
  <2>2. f = [n \in 0..N |-> f[n]]
    BY <1>6
  <2>3. QED
    BY <2>1, <2>2
<1> HIDE DEF Loops
<1>9. Loops(h)
  BY <1>8
<1> HIDE DEF h
<1>10. h[0] = NothingYet /\ \A n \in 1..N : h[n] = Turn(h[n - 1], s[n])
  <2>1. 0 \in 0..N /\ \A n \in 1..N : n \in 0..N /\ n # 0
    BY <1>1
  <2>2. QED
    BY <1>9, <2>1 DEF Loops
<1>11. h[N] = f[N]
  <2> DEFINE S == {n \in 0..N : h[n] = f[n]}
  <2>1. 0 \in S
    BY <1>1, <1>6, <1>10
  <2>2. \A n \in S : n + 1 \in 1..N => n + 1 \in S
    <3> SUFFICES ASSUME NEW n \in S, n + 1 \in 1..N PROVE n + 1 \in S
      OBVIOUS
    <3>1. n \in 0..N /\ h[n] = f[n] /\ (n + 1) - 1 = n /\ n + 1 \in 0..N
      BY <1>1
    <3>2. h[n + 1] = f[n + 1]
      BY <1>7, <1>10, <3>1
    <3>3. QED
      BY <3>1, <3>2
  <2> HIDE DEF S
  <2>3. \A n \in 0..N : n \in S
    BY <1>1, <2>1, <2>2, Induct
  <2>4. N \in 0..N
    BY <1>1
  <2>5. QED
    BY <2>3, <2>4 DEF S
<1>12. QED
  BY <1>2, <1>6, <1>7, <1>11 DEF N

LEMMA ConvertShape ==
  ASSUME NEW s \in Seq(Item)
  PROVE  ConvertInput(s) \in Converted
<1>1. Len(s) \in 0..Len(s)
  BY LenProperties
<1>2. QED
  BY <1>1, TurnByTurn

LEMMA ConvertNothing == ConvertInput(<<>>) = NothingYet
<1>1. <<>> \in Seq(Item) /\ Len(<<>>) = 0
  BY EmptySeq
<1>2. QED
  BY <1>1, TurnByTurn

\* One more item is one more turn.
LEMMA ConvertMore ==
  ASSUME NEW s \in Seq(Item), NEW item \in Item
  PROVE  ConvertInput(Append(s, item)) = Turn(ConvertInput(s), item)
<1> DEFINE t == Append(s, item)
           N == Len(s)
<1>1. N \in Nat /\ t \in Seq(Item) /\ Len(t) = N + 1
  BY LenProperties, AppendProperties
<1>2. t[N + 1] = item /\ \A n \in 1..N : t[n] = s[n]
  BY AppendProperties
<1> HIDE DEF t
<1>3. PICK f \in [0..N -> Converted] :
        /\ f[0] = NothingYet /\ ConvertInput(s) = f[N]
        /\ \A n \in 1..N : f[n] = Turn(f[n - 1], s[n])
  BY TurnByTurn
<1> HIDE DEF N
<1>4. PICK h \in [0..(N + 1) -> Converted] :
        /\ h[0] = NothingYet /\ ConvertInput(t) = h[N + 1]
        /\ \A n \in 1..(N + 1) : h[n] = Turn(h[n - 1], t[n])
  <2>1. PICK h \in [0..Len(t) -> Converted] :
          /\ h[0] = NothingYet /\ ConvertInput(t) = h[Len(t)]
          /\ \A n \in 1..Len(t) : h[n] = Turn(h[n - 1], t[n])
    BY <1>1, TurnByTurn
  <2>2. QED
    BY <1>1, <2>1
<1> DEFINE S == {n \in 0..N : h[n] = f[n]}
<1>5. 0 \in S
  BY <1>1, <1>3, <1>4
<1>6. \A n \in S : n + 1 \in 1..N => n + 1 \in S
  <2> SUFFICES ASSUME NEW n \in S, n + 1 \in 1..N PROVE n + 1 \in S
    OBVIOUS
  <2>1. /\ n \in 0..N /\ h[n] = f[n] /\ (n + 1) - 1 = n
        /\ n + 1 \in 0..N /\ n + 1 \in 1..(N + 1)
    BY <1>1
  <2>2. t[n + 1] = s[n + 1]
    BY <1>2
  <2>3. h[n + 1] = f[n + 1]
    BY <1>3, <1>4, <2>1, <2>2
  <2>4. QED
    BY <2>1, <2>3
<1> HIDE DEF S
<1>7. \A n \in 0..N : n \in S
  BY <1>1, <1>5, <1>6, Induct
<1>8. N \in 0..N /\ N + 1 \in 1..(N + 1) /\ (N + 1) - 1 = N
  BY <1>1
<1>9. h[N] = f[N]
  BY <1>7, <1>8 DEF S
<1>10. h[N + 1] = Turn(h[N], item)
  BY <1>2, <1>4, <1>8
<1>11. QED
  BY <1>3, <1>4, <1>9, <1>10 DEF t

-----------------------------------------------------------------------------
(* A reply comes back as it was given.                                     *)

LEMMA OneFurther ==
  ASSUME NEW S, NEW s \in Seq(S), NEW q \in Seq(S), NEW k \in Nat, k + 1 \in 1..Len(q)
  PROVE  /\ s \o SubSeq(q, 1, k) \in Seq(S)
         /\ s \o SubSeq(q, 1, k + 1) = Append(s \o SubSeq(q, 1, k), q[k + 1])
         /\ SubSeq(q, 1, k + 1) = Append(SubSeq(q, 1, k), q[k + 1])
         /\ SubSeq(q, 1, k) \in Seq(S) /\ q[k + 1] \in S
<1> DEFINE p == SubSeq(q, 1, k)
           x == q[k + 1]
<1>1. x \in S
  BY ElementOfSeq
<1>2. p \in Seq(S)
  <2>1. Len(q) \in Nat
    BY LenProperties
  <2>2. \A n \in 1..k : q[n] \in S
    BY <2>1, ElementOfSeq
  <2>3. QED
    BY <2>2, SubSeqProperties
<1>3. SubSeq(q, 1, k + 1) = p \o <<x>>
  <2>1. Len(q) \in Nat /\ 1 \in 1..Len(q) /\ k + 1 \in 1..Len(q) /\ (k + 1) - 1 = k
    BY LenProperties
  <2>2. SubSeq(q, 1, k + 1) = SubSeq(q, 1, (k + 1) - 1) \o <<q[k + 1]>>
    BY <2>1, SubSeqRecursiveSecond
  <2>3. QED
    BY <2>1, <2>2
<1> HIDE DEF p, x
<1>4. <<x>> \in Seq(S) /\ s \o p \in Seq(S)
  BY <1>1, <1>2, ConcatProperties
<1>5. Append(p, x) = p \o <<x>> /\ Append(s \o p, x) = (s \o p) \o <<x>>
  BY <1>1, <1>2, <1>4, AppendIsConcat
<1>6. (s \o p) \o <<x>> = s \o (p \o <<x>>)
  <2> DEFINE l == <<x>>
  <2>1. l \in Seq(S)
    BY <1>4
  <2> HIDE DEF l
  <2>2. (s \o p) \o l = s \o (p \o l)
    BY <1>2, <2>1, ConcatAssociative, SMTT(30)
  <2>3. QED
    BY <2>2 DEF l
<1>7. QED
  BY <1>1, <1>2, <1>3, <1>4, <1>5, <1>6 DEF p, x

LEMMA CallItemsShape ==
  ASSUME NEW calls \in Seq(Calls)
  PROVE  /\ CallItems(calls) \in Seq(Item)
         /\ Len(CallItems(calls)) = Len(calls)
         /\ \A k \in 1..Len(calls) : CallItems(calls)[k] = FunctionCall(calls[k])
         /\ Len(calls) \in Nat
         /\ \A k \in 1..Len(calls) : calls[k] \in Calls
<1> DEFINE q == CallItems(calls)
           N == Len(calls)
<1>1. N \in Nat /\ DOMAIN calls = 1..N /\ \A k \in 1..N : calls[k] \in Calls
  BY LenProperties, ElementOfSeq
<1>2. q = [k \in 1..N |-> FunctionCall(calls[k])]
  BY <1>1 DEF CallItems
<1>3. \A k \in 1..N : FunctionCall(calls[k]) \in Item
  BY <1>1 DEF FunctionCall, FunctionCalls, Item
<1> HIDE DEF N, q
<1>4. q \in [1..N -> Item]
  BY <1>2, <1>3
<1>5. q \in Seq(Item) /\ Len(q) = N
  BY <1>1, <1>4
<1>6. QED
  BY <1>1, <1>2, <1>5 DEF N, q

LEMMA LastOfAppend ==
  ASSUME NEW S, NEW s \in Seq(S), NEW e \in S
  PROVE  Append(s, e) # <<>> /\ Last(Append(s, e)) = e
BY AppendProperties DEF Last

\* A call joins the assistant's message before it.
LEMMA CallJoins ==
  ASSUME NEW chat \in Seq(ChatMessage), NEW text \in Seq(Text),
         NEW calls \in Seq(Calls), NEW call \in Calls
  PROVE  AddItem(Append(chat, Chat("assistant", text, calls, None)), FunctionCall(call)) =
         Append(chat, Chat("assistant", text, Append(calls, call), None))
<1> DEFINE m == Chat("assistant", text, calls, None)
           e == Chat("assistant", text, Append(calls, call), None)
           t == Append(chat, m)
           n == Len(chat)
<1>1. m \in ChatMessage /\ e \in ChatMessage
  BY ChatShape, AppendProperties
<1>2. /\ m.role = "assistant" /\ m.content = text /\ m.tool_calls = calls
      /\ m.tool_call_id = None
  BY DEF Chat
<1>3. e = Chat(m.role, m.content, Append(m.tool_calls, call), m.tool_call_id)
  BY <1>2
<1> HIDE DEF m, e
<1>4. /\ t \in Seq(ChatMessage) /\ t # <<>> /\ Len(t) = n + 1 /\ n \in Nat
      /\ Last(t) = m /\ t[n + 1] = m /\ \A k \in 1..n : t[k] = chat[k]
  BY <1>1, AppendProperties, LastOfAppend, LenProperties
<1>5. /\ Append(chat, e) \in Seq(ChatMessage) /\ Len(Append(chat, e)) = n + 1
      /\ Append(chat, e)[n + 1] = e /\ \A k \in 1..n : Append(chat, e)[k] = chat[k]
  BY <1>1, AppendProperties
<1> HIDE DEF t, n
<1>6. AddItem(t, FunctionCall(call)) = Called(t, call)
  <2>1. FunctionCall(call).type = "function_call" /\ FunctionCall(call).call = call
    BY DEF FunctionCall
  <2>2. QED
    BY <1>2, <1>4, <2>1 DEF AddItem, Called
<1>7. /\ Called(t, call) \in Seq(ChatMessage) /\ Len(Called(t, call)) = n + 1
      /\ \A k \in 1..(n + 1) : Called(t, call)[k] = IF k = n + 1 THEN e ELSE t[k]
  <2> DEFINE z == t[Len(t)]
             w == Called(t, call)
  <2>1. /\ w \in Seq(ChatMessage) /\ Len(w) = Len(t)
        /\ \A k \in 1..Len(t) : w[k] =
             IF k = Len(t) THEN Chat(z.role, z.content, Append(z.tool_calls, call), z.tool_call_id)
             ELSE t[k]
    BY <1>4, CalledShape
  <2>2. z = m
    BY <1>4
  <2> HIDE DEF z, w
  <2>3. QED
    BY <1>3, <1>4, <2>1, <2>2 DEF w
<1>8. \A k \in 1..(n + 1) : Called(t, call)[k] = Append(chat, e)[k]
  <2>1. \A k \in 1..(n + 1) : k = n + 1 \/ k \in 1..n
    BY <1>4
  <2>2. QED
    BY <1>4, <1>5, <1>7, <2>1
<1>9. Called(t, call) = Append(chat, e)
  BY <1>5, <1>7, <1>8, SeqEqual
<1>10. QED
  BY <1>6, <1>9 DEF t, m, e

\* The conversation with an assistant's message at its end.
Spoken(system, chat, text, calls) ==
  [system |-> system, chat |-> Append(chat, Chat("assistant", text, calls, None))]

LEMMA NextCall ==
  ASSUME NEW s \in Seq(Item), NEW calls \in Seq(Calls), NEW k \in Nat, k + 1 \in 1..Len(calls)
  PROVE  LET q == CallItems(calls) IN
         /\ s \o SubSeq(q, 1, k) \in Seq(Item) /\ q[k + 1] \in Item
         /\ s \o SubSeq(q, 1, k + 1) = Append(s \o SubSeq(q, 1, k), q[k + 1])
         /\ q[k + 1] = FunctionCall(calls[k + 1])
<1> DEFINE q == CallItems(calls)
<1>1. q \in Seq(Item) /\ k + 1 \in 1..Len(q) /\ q[k + 1] = FunctionCall(calls[k + 1])
  BY CallItemsShape
<1> HIDE DEF q
<1>2. QED
  BY <1>1, OneFurther DEF q

\* Calls that follow each other are those of one message.
LEMMA CallsJoin ==
  ASSUME NEW s \in Seq(Item), NEW calls \in Seq(Calls), NEW start \in 0..Len(calls),
         NEW system, NEW chat \in Seq(ChatMessage), NEW text \in Seq(Text),
         ConvertInput(s \o SubSeq(CallItems(calls), 1, start)) =
           Spoken(system, chat, text, SubSeq(calls, 1, start))
  PROVE  ConvertInput(s \o CallItems(calls)) = Spoken(system, chat, text, calls)
<1> DEFINE q == CallItems(calls)
           N == Len(calls)
           Joined(k) == ConvertInput(s \o SubSeq(q, 1, k)) =
                          Spoken(system, chat, text, SubSeq(calls, 1, k))
           S == {k \in 0..N : k < start \/ Joined(k)}
<1>1. /\ q \in Seq(Item) /\ Len(q) = N /\ N \in Nat
      /\ \A k \in 1..N : q[k] = FunctionCall(calls[k]) /\ calls[k] \in Calls
  BY CallItemsShape
<1>2. Joined(start) /\ start \in 0..N
  OBVIOUS
<1> HIDE DEF q, N
<1>3. ASSUME NEW k \in 0..N, k + 1 \in 1..N, Joined(k) PROVE Joined(k + 1)
  <2>1. k \in Nat /\ k + 1 \in 1..Len(q) /\ k + 1 \in 1..Len(calls)
    BY <1>1, <1>3 DEF N
  <2>2. /\ s \o SubSeq(q, 1, k) \in Seq(Item) /\ q[k + 1] \in Item
        /\ s \o SubSeq(q, 1, k + 1) = Append(s \o SubSeq(q, 1, k), q[k + 1])
    BY <2>1, NextCall DEF q
  <2>3. /\ SubSeq(calls, 1, k) \in Seq(Calls) /\ calls[k + 1] \in Calls
        /\ SubSeq(calls, 1, k + 1) = Append(SubSeq(calls, 1, k), calls[k + 1])
    BY <2>1, OneFurther
  <2> DEFINE t == s \o SubSeq(q, 1, k)
             before == SubSeq(calls, 1, k)
             call == calls[k + 1]
  <2>4. q[k + 1] = FunctionCall(call)
    BY <1>1, <1>3
  <2> HIDE DEF t, before, call
  <2>5. ConvertInput(Append(t, q[k + 1])) = Turn(ConvertInput(t), q[k + 1])
    BY <2>2, ConvertMore DEF t
  <2>6. ConvertInput(t) = Spoken(system, chat, text, before)
    BY <1>3 DEF t, before
  <2>7. Turn(Spoken(system, chat, text, before), FunctionCall(call)) =
        Spoken(system, chat, text, Append(before, call))
    <3>1. ~IsSystem(FunctionCall(call))
      BY DEF IsSystem, FunctionCall
    <3>2. AddSystem(system, FunctionCall(call)) = system
      BY <3>1 DEF AddSystem
    <3>3. AddItem(Append(chat, Chat("assistant", text, before, None)), FunctionCall(call)) =
          Append(chat, Chat("assistant", text, Append(before, call), None))
      BY <2>3, CallJoins DEF before, call
    <3>4. QED
      BY <3>2, <3>3 DEF Turn, Spoken
  <2>8. QED
    BY <2>2, <2>3, <2>4, <2>5, <2>6, <2>7 DEF t, before, call
<1>4. 0 \in S
  <2>1. 0 \in 0..N
    BY <1>1
  <2>2. start = 0 \/ 0 < start
    BY <1>2
  <2> HIDE DEF Joined
  <2>3. QED
    BY <1>2, <2>1, <2>2
<1>5. \A k \in S : k + 1 \in 1..N => k + 1 \in S
  <2> SUFFICES ASSUME NEW k \in S, k + 1 \in 1..N PROVE k + 1 \in S
    OBVIOUS
  <2>1. k \in 0..N /\ k + 1 \in 0..N /\ (k < start \/ Joined(k))
    BY <1>1
  <2> HIDE DEF Joined
  <2>2. CASE k < start
    <3>1. k + 1 < start \/ k + 1 = start
      BY <1>2, <2>1, <2>2
    <3>2. QED
      BY <1>2, <2>1, <3>1
  <2>3. CASE ~(k < start)
    BY <1>3, <2>1, <2>3
  <2>4. QED
    BY <2>2, <2>3
<1> HIDE DEF S
<1>6. \A k \in 0..N : k \in S
  BY <1>1, <1>4, <1>5, Induct
<1>7. Joined(N)
  <2>1. N \in 0..N /\ ~(N < start)
    BY <1>1, <1>2
  <2> HIDE DEF Joined
  <2>2. QED
    BY <1>6, <2>1 DEF S
<1>8. SubSeq(q, 1, N) = q /\ SubSeq(calls, 1, N) = calls
  BY <1>1, SubSeqFull DEF N
<1>9. QED
  BY <1>7, <1>8 DEF q

\* A message and the calls after it.
LEMMA MessageAndCalls ==
  ASSUME NEW s \in Seq(Item), NEW text \in Seq(Text), NEW calls \in Seq(Calls)
  PROVE  LET out == <<Message("assistant", text)>> \o CallItems(calls) IN
         /\ out \in Seq(Item)
         /\ ConvertInput(s \o out) =
              Spoken(ConvertInput(s).system, ConvertInput(s).chat, text, calls)
<1> DEFINE m == Message("assistant", text)
           q == CallItems(calls)
           t == Append(s, m)
           c == ConvertInput(s)
<1>1. /\ m.type = "message" /\ m.role = "assistant" /\ m.content = text
      /\ text \in Seq(Part) /\ m \in Item
  <2>1. text \in Seq(Part)
    BY SeqMonotonic DEF Part
  <2>2. QED
    BY <2>1 DEF Message, Messages, Item, Role
<1>2. MessageText(m) = text /\ ~IsSystem(m)
  BY <1>1, PlainText DEF IsSystem
<1> HIDE DEF m
<1>3. q \in Seq(Item)
  BY CallItemsShape
<1>4. <<m>> \in Seq(Item) /\ t \in Seq(Item) /\ t = s \o <<m>>
  BY <1>1, AppendProperties, AppendIsConcat
<1> HIDE DEF q
<1>5. <<m>> \o q \in Seq(Item) /\ s \o (<<m>> \o q) = t \o q
  <2> DEFINE l == <<m>>
  <2>1. l \in Seq(Item)
    BY <1>4
  <2> HIDE DEF l
  <2>2. l \o q \in Seq(Item)
    BY <1>3, <2>1, ConcatProperties
  <2>3. (s \o l) \o q = s \o (l \o q)
    BY <1>3, <2>1, ConcatAssociative, SMTT(30)
  <2>4. QED
    BY <1>4, <2>2, <2>3 DEF l
<1>6. ConvertInput(t) = Turn(c, m)
  BY <1>1, ConvertMore
<1>7. Turn(c, m) = Spoken(c.system, c.chat, text, <<>>)
  <2>1. AddSystem(c.system, m) = c.system
    BY <1>2 DEF AddSystem
  <2>2. AddItem(c.chat, m) = Append(c.chat, Chat("assistant", text, <<>>, None))
    BY <1>1, <1>2 DEF AddItem
  <2> HIDE DEF c
  <2>3. QED
    BY <2>1, <2>2 DEF Turn, Spoken
<1>8. c \in Converted /\ c.chat \in Seq(ChatMessage)
  BY ConvertShape DEF Converted
<1> HIDE DEF t, c
<1> DEFINE start == 0
<1>9. start \in 0..Len(calls)
  BY LenProperties
<1>10. SubSeq(q, 1, start) = <<>> /\ SubSeq(calls, 1, start) = <<>>
  BY SubSeqEmpty
<1>11. t \o SubSeq(q, 1, start) = t
  BY <1>4, <1>10, ConcatEmptySeq
<1> HIDE DEF start
<1>12. ConvertInput(t \o SubSeq(q, 1, start)) = Spoken(c.system, c.chat, text, SubSeq(calls, 1, start))
  BY <1>6, <1>7, <1>10, <1>11
<1>13. ConvertInput(t \o q) = Spoken(c.system, c.chat, text, calls)
  <2> DEFINE system == c.system
             chat == c.chat
  <2>1. ConvertInput(t \o SubSeq(CallItems(calls), 1, start)) =
        Spoken(system, chat, text, SubSeq(calls, 1, start))
    BY <1>12 DEF q
  <2>2. chat \in Seq(ChatMessage) /\ t \in Seq(Item)
    BY <1>4, <1>8
  <2> HIDE DEF system, chat
  <2>3. ConvertInput(t \o CallItems(calls)) = Spoken(system, chat, text, calls)
    BY <1>9, <2>1, <2>2, CallsJoin
  <2>4. QED
    BY <2>3 DEF q, system, chat
<1>14. QED
  BY <1>5, <1>13 DEF m, q, c

\* Calls after a turn of the user's or a tool's.
LEMMA OnlyCalls ==
  ASSUME NEW s \in Seq(Item), NEW calls \in Seq(Calls), calls # <<>>,
         ConvertInput(s).chat = <<>> \/ Last(ConvertInput(s).chat).role # "assistant"
  PROVE  /\ CallItems(calls) \in Seq(Item)
         /\ ConvertInput(s \o CallItems(calls)) =
              Spoken(ConvertInput(s).system, ConvertInput(s).chat, <<>>, calls)
<1> DEFINE q == CallItems(calls)
           c == ConvertInput(s)
           call == calls[1]
<1>1. /\ q \in Seq(Item) /\ Len(q) = Len(calls)
      /\ 1 \in 1..Len(calls) /\ q[1] = FunctionCall(call) /\ call \in Calls
  BY CallItemsShape, EmptySeq
<1>2. c \in Converted /\ c.chat \in Seq(ChatMessage)
  BY ConvertShape DEF Converted
<1> HIDE DEF q, call
<1>3. SubSeq(q, 1, 0) = <<>> /\ SubSeq(calls, 1, 0) = <<>>
  BY SubSeqEmpty
<1>4. /\ s \o SubSeq(q, 1, 1) = Append(s, FunctionCall(call))
      /\ FunctionCall(call) \in Item
  <2>1. 0 \in Nat /\ 0 + 1 = 1 /\ 0 + 1 \in 1..Len(q)
    BY <1>1
  <2>2. s \o SubSeq(q, 1, 0 + 1) = Append(s \o SubSeq(q, 1, 0), q[0 + 1]) /\ q[0 + 1] \in Item
    BY <1>1, <2>1, OneFurther
  <2>3. s \o <<>> = s
    BY ConcatEmptySeq
  <2>4. QED
    BY <1>1, <1>3, <2>1, <2>2, <2>3
<1>5. SubSeq(calls, 1, 1) = <<call>>
  <2>1. 0 \in Nat /\ 0 + 1 = 1 /\ 0 + 1 \in 1..Len(calls)
    BY <1>1
  <2>2. SubSeq(calls, 1, 0 + 1) = Append(SubSeq(calls, 1, 0), calls[0 + 1])
    BY <2>1, OneFurther
  <2>3. Append(<<>>, call) = <<call>>
    OBVIOUS
  <2>4. QED
    BY <1>3, <2>1, <2>2, <2>3 DEF call
<1>6. ConvertInput(Append(s, FunctionCall(call))) = Turn(c, FunctionCall(call))
  BY <1>4, ConvertMore
<1>7. c.chat = <<>> \/ Last(c.chat).role # "assistant"
  OBVIOUS
<1> HIDE DEF c
<1>8. Turn(c, FunctionCall(call)) = Spoken(c.system, c.chat, <<>>, <<call>>)
  <2>1. ~IsSystem(FunctionCall(call))
    BY DEF IsSystem, FunctionCall
  <2>2. AddSystem(c.system, FunctionCall(call)) = c.system
    BY <2>1 DEF AddSystem
  <2>3. FunctionCall(call).type = "function_call" /\ FunctionCall(call).call = call
    BY DEF FunctionCall
  <2>4. AddItem(c.chat, FunctionCall(call)) =
        Append(c.chat, Chat("assistant", <<>>, <<call>>, None))
    BY <1>7, <2>3 DEF AddItem
  <2>5. QED
    BY <2>2, <2>4 DEF Turn, Spoken
<1>9. ConvertInput(s \o SubSeq(q, 1, 1)) = Spoken(c.system, c.chat, <<>>, SubSeq(calls, 1, 1))
  BY <1>4, <1>5, <1>6, <1>8
<1>10. 1 \in 0..Len(calls) /\ <<>> \in Seq(Text)
  BY <1>1
<1>11. ConvertInput(s \o q) = Spoken(c.system, c.chat, <<>>, calls)
  BY <1>2, <1>9, <1>10, CallsJoin DEF q
<1>12. QED
  BY <1>1, <1>11 DEF q, c

\* Either way of handing a reply over, the upstream would see it as it was.
LEMMA ReplyComesBack ==
  ASSUME NEW s \in Seq(Item), NEW r, r.content \in Seq(Text), r.tool_calls \in Seq(Calls),
         ConvertInput(s).chat = <<>> \/ Last(ConvertInput(s).chat).role # "assistant",
         NEW out \in {OutputItems(r), StreamedItems(r)}, r # None
  PROVE  /\ out \in Seq(Item)
         /\ ConvertInput(s \o out) = [system |-> ConvertInput(s).system,
                                      chat |-> ConvertInput(s).chat \o Echo(r)]
<1> DEFINE c == ConvertInput(s)
           e == Chat("assistant", r.content, r.tool_calls, None)
<1>1. c \in Converted /\ c.chat \in Seq(ChatMessage) /\ c = [system |-> c.system, chat |-> c.chat]
  BY ConvertShape DEF Converted
<1>2. e \in ChatMessage
  BY ChatShape
<1>3. c.chat \o <<e>> = Append(c.chat, e)
  BY <1>1, <1>2, AppendIsConcat
<1>4. CASE r.content = <<>> /\ r.tool_calls = <<>>
  <2>1. CallItems(r.tool_calls) = <<>>
    BY <1>4, CallItemsShape, EmptySeq
  <2>2. <<>> \o <<>> = <<>>
    OBVIOUS
  <2>3. out = <<>> /\ Echo(r) = <<>>
    BY <1>4, <2>1, <2>2 DEF OutputItems, StreamedItems, Echo
  <2>4. s \o <<>> = s /\ c.chat \o <<>> = c.chat
    BY <1>1, ConcatEmptySeq
  <2>5. out \in Seq(Item)
    BY <2>3, EmptySeq
  <2>6. QED
    BY <1>1, <2>3, <2>4, <2>5
<1>5. CASE ~(r.content = <<>> /\ r.tool_calls = <<>>)
  <2>1. Echo(r) = <<e>>
    BY <1>5 DEF Echo
  <2>2. Spoken(c.system, c.chat, r.content, r.tool_calls) =
        [system |-> c.system, chat |-> c.chat \o Echo(r)]
    BY <1>3, <2>1 DEF Spoken
  <2>3. CASE out = <<Message("assistant", r.content)>> \o CallItems(r.tool_calls)
    BY <2>2, <2>3, MessageAndCalls
  <2>4. CASE r.content = <<>> /\ out = <<>> \o CallItems(r.tool_calls)
    <3>1. CallItems(r.tool_calls) \in Seq(Item)
      BY CallItemsShape
    <3>2. out = CallItems(r.tool_calls) /\ r.tool_calls # <<>>
      BY <1>5, <2>4, <3>1, ConcatEmptySeq
    <3>3. QED
      BY <2>2, <2>4, <3>2, OnlyCalls
  <2>5. QED
    BY <1>5, <2>3, <2>4 DEF OutputItems, StreamedItems
<1>6. QED
  BY <1>4, <1>5 DEF c

-----------------------------------------------------------------------------
(* Beginnings.                                                             *)

Begins(s, t) == Len(s) <= Len(t) /\ \A k \in 1..Len(s) : s[k] = t[k]

LEMMA BeginsItself ==
  ASSUME NEW S, NEW s \in Seq(S)
  PROVE  Begins(s, s)
BY LenProperties DEF Begins

LEMMA BeginsTransitive ==
  ASSUME NEW S, NEW s \in Seq(S), NEW t \in Seq(S), NEW u \in Seq(S),
         Begins(s, t), Begins(t, u)
  PROVE  Begins(s, u)
<1>1. Len(s) \in Nat /\ Len(t) \in Nat /\ Len(u) \in Nat
  BY LenProperties
<1>2. Len(s) <= Len(t) /\ Len(t) <= Len(u)
  BY DEF Begins
<1>3. Len(s) <= Len(u) /\ \A k \in 1..Len(s) : k \in 1..Len(t)
  BY <1>1, <1>2
<1>4. QED
  BY <1>3 DEF Begins

LEMMA BeginsConcat ==
  ASSUME NEW S, NEW s \in Seq(S), NEW t \in Seq(S)
  PROVE  s \o t \in Seq(S) /\ Begins(s, s \o t)
<1> DEFINE u == s \o t
<1>1. Len(s) \in Nat /\ Len(t) \in Nat
  BY LenProperties
<1>2. /\ u \in Seq(S) /\ Len(u) = Len(s) + Len(t)
      /\ \A k \in 1..(Len(s) + Len(t)) : u[k] = IF k <= Len(s) THEN s[k] ELSE t[k - Len(s)]
  BY ConcatProperties
<1> HIDE DEF u
<1>3. Len(s) <= Len(u) /\ \A k \in 1..Len(s) : u[k] = s[k]
  BY <1>1, <1>2
<1>4. QED
  BY <1>2, <1>3 DEF Begins, u

LEMMA BeginsAppend ==
  ASSUME NEW S, NEW s \in Seq(S), NEW e \in S
  PROVE  Append(s, e) \in Seq(S) /\ Begins(s, Append(s, e))
<1>1. <<e>> \in Seq(S) /\ Append(s, e) = s \o <<e>>
  BY AppendIsConcat
<1>2. QED
  BY <1>1, BeginsConcat

LEMMA BeginsIsPrefix ==
  ASSUME NEW S, NEW s \in Seq(S), NEW t \in Seq(S), Begins(s, t)
  PROVE  IsPrefix(s, t)
<1> DEFINE N == Len(s)
           u == SubSeq(t, 1, N)
<1>1. N \in Nat /\ Len(t) \in Nat /\ N <= Len(t) /\ \A k \in 1..N : s[k] = t[k]
  BY LenProperties DEF Begins
<1>2. \A k \in 1..N : t[k] \in S
  <2>1. \A k \in 1..N : k \in 1..Len(t)
    BY <1>1
  <2>2. QED
    BY <2>1, ElementOfSeq
<1> HIDE DEF N
<1>3. /\ u \in Seq(S)
      /\ Len(u) = (IF 1 <= N THEN N - 1 + 1 ELSE 0)
      /\ \A k \in 1..(N - 1 + 1) : u[k] = t[1 + k - 1]
  BY <1>1, <1>2, SubSeqProperties
<1> HIDE DEF u
<1>4. Len(u) = N /\ \A k \in 1..N : s[k] = u[k]
  BY <1>1, <1>3
<1>5. s = u
  BY <1>3, <1>4, SeqEqual DEF N
<1>6. SubSeq(s, 1, N) = s
  BY SubSeqFull DEF N
<1>7. QED
  BY <1>1, <1>5, <1>6 DEF IsPrefix, u, N

\* The system text only grows with the input.
LEMMA SystemBegins ==
  ASSUME NEW prompt \in {None} \cup Seq(Text), NEW found \in {None} \cup Seq(Text),
         NEW item \in Item, SystemText(prompt, found) # None
  PROVE  LET more == SystemText(prompt, AddSystem(found, item)) IN
         more # None /\ Begins(SystemText(prompt, found), more)
<1> DEFINE old == SystemText(prompt, found)
           more == SystemText(prompt, AddSystem(found, item))
           text == MessageText(item)
<1>1. None \notin Seq(Text)
  BY ConversationAssumption
<1>2. old \in Seq(Text)
  <2>1. CASE prompt # None /\ found # None
    <3>1. prompt \o found \in Seq(Text)
      BY <2>1, ConcatProperties
    <3>2. QED
      BY <2>1, <3>1 DEF SystemText
  <2>2. CASE prompt = None \/ found = None
    BY <2>2 DEF SystemText
  <2>3. QED
    BY <2>1, <2>2
<1>3. CASE ~IsSystem(item)
  <2>1. more = old
    BY <1>3 DEF AddSystem
  <2> HIDE DEF more, old
  <2>2. QED
    BY <1>1, <1>2, <2>1, BeginsItself DEF more, old
<1>4. CASE IsSystem(item)
  <2>1. text \in Seq(Text)
    BY <1>4, ItemShape, TextOfMessage DEF IsSystem
  <2> HIDE DEF text
  <2>2. CASE found = None
    <3>1. AddSystem(found, item) = text
      BY <1>4, <2>2 DEF AddSystem, text
    <3>2. prompt # None /\ old = prompt /\ text # None
      BY <1>1, <2>1, <2>2 DEF SystemText
    <3>3. more = old \o text
      BY <3>1, <3>2 DEF SystemText
    <3> HIDE DEF more, old
    <3>4. QED
      BY <1>1, <1>2, <2>1, <3>3, BeginsConcat DEF more, old
  <2>3. CASE found # None
    <3>1. AddSystem(found, item) = found \o text
      BY <1>4, <2>3 DEF AddSystem, text
    <3>2. found \in Seq(Text) /\ found \o text \in Seq(Text)
      BY <2>1, <2>3, ConcatProperties
    <3>3. more = old \o text
      <4>1. CASE prompt = None
        BY <1>1, <2>3, <3>1, <3>2, <4>1 DEF SystemText
      <4>2. CASE prompt # None
        <5>1. old = prompt \o found /\ more = prompt \o (found \o text)
          BY <1>1, <2>3, <3>1, <3>2, <4>2 DEF SystemText
        <5>2. prompt \o (found \o text) = (prompt \o found) \o text
          <6>1. prompt \in Seq(Text) /\ found \in Seq(Text) /\ text \in Seq(Text)
            BY <2>1, <3>2, <4>2
          <6> HIDE DEF more, old
          <6>2. (prompt \o found) \o text = prompt \o (found \o text)
            BY <6>1, ConcatAssociative, SMTT(30)
          <6>3. QED
            BY <6>2
        <5>3. QED
          BY <5>1, <5>2
      <4>3. QED
        BY <4>1, <4>2
    <3> HIDE DEF more, old
    <3>4. QED
      BY <1>1, <1>2, <2>1, <3>3, BeginsConcat DEF more, old
  <2>4. QED
    BY <2>2, <2>3
<1>5. QED
  BY <1>3, <1>4

LEMMA SystemTextShape ==
  ASSUME NEW prompt \in {None} \cup Seq(Text), NEW found \in {None} \cup Seq(Text)
  PROVE  SystemText(prompt, found) \in {None} \cup Seq(Text)
<1>1. (prompt # None /\ found # None) => prompt \o found \in Seq(Text)
  BY ConcatProperties
<1>2. QED
  BY <1>1 DEF SystemText

-----------------------------------------------------------------------------
(* Calls and the outputs that answer them.                                 *)

Makes(m, id) ==
  m.role = "assistant" /\ \E c \in DOMAIN m.tool_calls : m.tool_calls[c].id = id
Made(messages, id) == \E j \in 1..Len(messages) : Makes(messages[j], id)
Answered(messages) ==
  \A k \in 1..Len(messages) : messages[k].role = "tool" =>
    \E j \in 1..(k - 1) : Makes(messages[j], messages[k].tool_call_id)

LEMMA MadeInMore ==
  ASSUME NEW messages \in Seq(ChatMessage), NEW m \in ChatMessage, NEW id, Made(messages, id)
  PROVE  Made(Append(messages, m), id)
<1> DEFINE more == Append(messages, m)
<1>1. /\ Len(messages) \in Nat /\ Len(more) = Len(messages) + 1
      /\ \A k \in 1..Len(messages) : more[k] = messages[k]
  BY LenProperties, AppendProperties
<1> HIDE DEF more
<1>2. PICK j \in 1..Len(messages) : Makes(messages[j], id)
  BY DEF Made
<1>3. j \in 1..Len(more) /\ Makes(more[j], id)
  BY <1>1, <1>2
<1>4. QED
  BY <1>3 DEF Made, more

LEMMA MadeByLast ==
  ASSUME NEW messages \in Seq(ChatMessage), NEW m \in ChatMessage, NEW id, Makes(m, id)
  PROVE  Made(Append(messages, m), id)
<1> DEFINE more == Append(messages, m)
<1>1. Len(messages) + 1 \in 1..Len(more) /\ more[Len(messages) + 1] = m
  BY LenProperties, AppendProperties
<1> HIDE DEF more
<1>2. QED
  BY <1>1 DEF Made, more

LEMMA StillAnswered ==
  ASSUME NEW messages \in Seq(ChatMessage), NEW m \in ChatMessage, Answered(messages),
         m.role = "tool" => Made(messages, m.tool_call_id)
  PROVE  Answered(Append(messages, m))
<1> DEFINE more == Append(messages, m)
           n == Len(messages)
<1>1. /\ n \in Nat /\ Len(more) = n + 1 /\ more[n + 1] = m
      /\ \A k \in 1..n : more[k] = messages[k]
  BY LenProperties, AppendProperties
<1> HIDE DEF more, n
<1>2. SUFFICES ASSUME NEW k \in 1..(n + 1), more[k].role = "tool"
               PROVE \E j \in 1..(k - 1) : Makes(more[j], more[k].tool_call_id)
  BY <1>1 DEF Answered, more
<1>3. CASE k \in 1..n
  <2>1. PICK j \in 1..(k - 1) : Makes(messages[j], messages[k].tool_call_id)
    BY <1>1, <1>2, <1>3 DEF Answered, n
  <2>2. j \in 1..n
    BY <1>1, <1>3
  <2>3. Makes(more[j], more[k].tool_call_id)
    BY <1>1, <1>3, <2>1, <2>2
  <2>4. QED
    BY <2>3
<1>4. CASE k = n + 1
  <2>1. PICK j \in 1..n : Makes(messages[j], m.tool_call_id)
    BY <1>1, <1>2, <1>4 DEF Made, n
  <2>2. Makes(more[j], more[k].tool_call_id) /\ j \in 1..(k - 1)
    BY <1>1, <1>4, <2>1
  <2>3. QED
    BY <2>2
<1>5. QED
  BY <1>1, <1>3, <1>4

\* What a message added at the end leaves true.
LEMMA AnotherMessage ==
  ASSUME NEW messages \in Seq(ChatMessage), NEW m \in ChatMessage, Answered(messages),
         m.role = "tool" => Made(messages, m.tool_call_id)
  PROVE  LET more == Append(messages, m) IN
         /\ more \in Seq(ChatMessage) /\ Begins(messages, more) /\ Answered(more)
         /\ \A id : Made(messages, id) => Made(more, id)
BY BeginsAppend, StillAnswered, MadeInMore

LEMMA ItemTurn ==
  ASSUME NEW messages \in Seq(ChatMessage), NEW item \in Item, Answered(messages),
         item.type # "function_call",
         item.type = "function_call_output" => Made(messages, item.call_id)
  PROVE  LET more == AddItem(messages, item) IN
         /\ more \in Seq(ChatMessage) /\ Begins(messages, more) /\ Answered(more)
         /\ \A id : Made(messages, id) => Made(more, id)
<1>1. CASE AddItem(messages, item) = messages
  BY <1>1, BeginsItself
<1>2. CASE /\ item.type = "message" /\ ~IsSystem(item)
           /\ AddItem(messages, item) = Append(messages, Chat(item.role, MessageText(item), <<>>, None))
           /\ Chat(item.role, MessageText(item), <<>>, None) \in ChatMessage
  <2> DEFINE m == Chat(item.role, MessageText(item), <<>>, None)
  <2>1. m.role # "tool"
    BY <1>2, ItemShape DEF Chat, Role
  <2> HIDE DEF m
  <2>2. m \in ChatMessage /\ AddItem(messages, item) = Append(messages, m)
    BY <1>2 DEF m
  <2>3. QED
    BY <2>1, <2>2, AnotherMessage
<1>3. CASE /\ item.type = "function_call_output"
           /\ AddItem(messages, item) = Append(messages, Chat("tool", OutputText(item), <<>>, item.call_id))
           /\ Chat("tool", OutputText(item), <<>>, item.call_id) \in ChatMessage
  <2> DEFINE m == Chat("tool", OutputText(item), <<>>, item.call_id)
  <2>1. m.tool_call_id = item.call_id
    BY DEF Chat
  <2> HIDE DEF m
  <2>2. m \in ChatMessage /\ AddItem(messages, item) = Append(messages, m)
    BY <1>3 DEF m
  <2>3. QED
    BY <1>3, <2>1, <2>2, AnotherMessage
<1>4. QED
  BY <1>1, <1>2, <1>3, AddItemCases

LEMMA EchoTurn ==
  ASSUME NEW messages \in Seq(ChatMessage), Answered(messages),
         NEW r, r.content \in Seq(Text), r.tool_calls \in Seq(Calls)
  PROVE  LET more == messages \o Echo(r) IN
         /\ more \in Seq(ChatMessage) /\ Begins(messages, more) /\ Answered(more)
         /\ \A id : Made(messages, id) => Made(more, id)
         /\ r # None => \A k \in 1..Len(r.tool_calls) : Made(more, r.tool_calls[k].id)
<1> DEFINE e == Chat("assistant", r.content, r.tool_calls, None)
<1>1. CASE r = None \/ (r.content = <<>> /\ r.tool_calls = <<>>)
  <2>1. messages \o Echo(r) = messages
    BY <1>1, ConcatEmptySeq DEF Echo
  <2>2. r # None => 1..Len(r.tool_calls) = {}
    BY <1>1, EmptySeq
  <2>3. QED
    BY <2>1, <2>2, BeginsItself
<1>2. CASE ~(r = None \/ (r.content = <<>> /\ r.tool_calls = <<>>))
  <2>1. e \in ChatMessage
    BY ChatShape
  <2>2. e.role = "assistant" /\ e.tool_calls = r.tool_calls
    BY DEF Chat
  <2>3. Echo(r) = <<e>>
    BY <1>2 DEF Echo
  <2> HIDE DEF e
  <2>4. messages \o Echo(r) = Append(messages, e)
    BY <2>1, <2>3, AppendIsConcat
  <2>5. \A k \in 1..Len(r.tool_calls) : Makes(e, r.tool_calls[k].id)
    BY <2>2, LenProperties DEF Makes
  <2>6. \A k \in 1..Len(r.tool_calls) : Made(Append(messages, e), r.tool_calls[k].id)
    BY <2>1, <2>5, MadeByLast
  <2>7. QED
    BY <2>1, <2>2, <2>4, <2>6, AnotherMessage
<1>3. QED
  BY <1>1, <1>2

\* The calls among the items a client gets are the reply's.
LEMMA CallsHandedOver ==
  ASSUME NEW r, r.content \in Seq(Text), r.tool_calls \in Seq(Calls),
         NEW out \in {OutputItems(r), StreamedItems(r)},
         NEW k \in 1..Len(out), out[k].type = "function_call"
  PROVE  \E j \in 1..Len(r.tool_calls) : out[k].call = r.tool_calls[j]
<1> DEFINE q == CallItems(r.tool_calls)
           m == Message("assistant", r.content)
<1>1. /\ q \in Seq(Item) /\ Len(q) = Len(r.tool_calls) /\ Len(q) \in Nat
      /\ \A j \in 1..Len(q) : q[j].call = r.tool_calls[j]
  <2>1. \A c : FunctionCall(c).call = c
    BY DEF FunctionCall
  <2>2. QED
    BY <2>1, CallItemsShape
<1>2. m \in Item /\ m.type = "message"
  BY SeqMonotonic DEF Part, Message, Messages, Item, Role
<1>3. out = <<>> \o q \/ out = <<m>> \o q
  BY DEF OutputItems, StreamedItems
<1> HIDE DEF q, m
<1>4. CASE out = <<>> \o q
  <2>1. out = q
    BY <1>1, <1>4, ConcatEmptySeq
  <2>2. QED
    BY <1>1, <2>1
<1>5. CASE out = <<m>> \o q
  <2>1. <<m>> \in Seq(Item) /\ Len(<<m>>) = 1 /\ <<m>>[1] = m
    BY <1>2
  <2> DEFINE b == <<m>>
  <2> HIDE DEF b
  <2>2. /\ Len(b \o q) = Len(b) + Len(q)
        /\ \A n \in 1..(Len(b) + Len(q)) : (b \o q)[n] = IF n <= Len(b) THEN b[n] ELSE q[n - Len(b)]
    BY <1>1, <2>1, ConcatProperties DEF b
  <2>3. Len(out) = 1 + Len(q) /\ \A n \in 1..(1 + Len(q)) : out[n] = IF n <= 1 THEN m ELSE q[n - 1]
    <3>1. Len(b) = 1 /\ b[1] = m /\ out = b \o q
      BY <1>5, <2>1 DEF b
    <3>2. \A n \in 1..(1 + Len(q)) : n <= 1 => n = 1
      BY <1>1
    <3>3. QED
      BY <2>2, <3>1, <3>2
  <2>4. k # 1
    BY <1>1, <1>2, <2>3
  <2>5. k - 1 \in 1..Len(q) /\ out[k] = q[k - 1]
    BY <1>1, <2>3, <2>4
  <2>6. QED
    BY <1>1, <2>5
<1>6. QED
  BY <1>3, <1>4, <1>5

-----------------------------------------------------------------------------
(* The invariant: what the next request would send, and what the last one  *)
(* and its reply were.                                                     *)

Found == ConvertInput(items)
System == SystemText(instructions, Found.system)

Typed ==
  /\ items \in Seq(Item)
  /\ instructions \in Prompts
  /\ sent \in Converted
  /\ reply \in {None} \cup Replies
  /\ phase \in {"client", "upstream"}

\* While the upstream works, it has what the items say.
Asked == phase = "upstream" =>
  sent.chat = Found.chat /\ sent.system = System /\ reply = None

\* Afterwards the items begin with what it was sent and said.
Kept == phase = "client" =>
  /\ Begins(sent.chat \o Echo(reply), Found.chat)
  /\ sent.system # None => (System # None /\ Begins(sent.system, System))

\* Every call the client may answer is in the messages, before its outputs.
Paired ==
  /\ Answered(Found.chat) /\ Answered(sent.chat)
  /\ \A k \in 1..Len(items) :
       items[k].type = "function_call" => Made(Found.chat, items[k].call.id)

ConversationInv == Typed /\ Asked /\ Kept /\ Paired

LEMMA FoundShape ==
  ASSUME Typed
  PROVE  /\ Found \in Converted /\ Found.chat \in Seq(ChatMessage)
         /\ Found.system \in {None} \cup Seq(Text)
         /\ instructions \in {None} \cup Seq(Text)
         /\ System \in {None} \cup Seq(Text)
         /\ sent.chat \in Seq(ChatMessage) /\ sent.system \in {None} \cup Seq(Text)
         /\ Len(items) \in Nat /\ DOMAIN items = 1..Len(items)
         /\ \A k \in 1..Len(items) : items[k] \in Item
<1>1. items \in Seq(Item) /\ sent \in Converted /\ instructions \in Prompts
  BY DEF Typed
<1>2. Found \in Converted
  BY <1>1, ConvertShape DEF Found
<1>3. instructions \in {None} \cup Seq(Text)
  BY <1>1, ConversationAssumption
<1>4. Found.chat \in Seq(ChatMessage) /\ Found.system \in {None} \cup Seq(Text)
  BY <1>2 DEF Converted
<1>5. System \in {None} \cup Seq(Text)
  BY <1>3, <1>4, SystemTextShape DEF System
<1>6. QED
  BY <1>1, <1>2, <1>3, <1>4, <1>5, LenProperties, ElementOfSeq DEF Converted

LEMMA EchoShape ==
  ASSUME Typed
  PROVE  sent.chat \o Echo(reply) \in Seq(ChatMessage)
<1>1. sent.chat \in Seq(ChatMessage) /\ reply \in {None} \cup Replies
  BY FoundShape DEF Typed
<1>2. CASE reply = None
  <2>1. Echo(reply) = <<>>
    BY <1>2 DEF Echo
  <2>2. QED
    BY <1>1, <2>1, ConcatEmptySeq
<1>3. CASE reply \in Replies
  <2>1. reply.content \in Seq(Text) /\ reply.tool_calls \in Seq(Calls)
    BY <1>3, ConversationAssumption
  <2>2. Chat("assistant", reply.content, reply.tool_calls, None) \in ChatMessage
    BY <2>1, ChatShape
  <2>3. Echo(reply) \in Seq(ChatMessage)
    BY <2>2, EmptySeq DEF Echo
  <2>4. QED
    BY <1>1, <2>3, ConcatProperties
<1>4. QED
  BY <1>1, <1>2, <1>3

LEMMA InitInv == Init => ConversationInv
<1> SUFFICES ASSUME Init PROVE ConversationInv
  OBVIOUS
<1>1. /\ items = <<>> /\ instructions \in Prompts /\ sent = NothingYet
      /\ reply = None /\ phase = "client"
  BY DEF Init
<1>2. Found = NothingYet
  BY <1>1, ConvertNothing DEF Found
<1>3. NothingYet.system = None /\ NothingYet.chat = <<>>
  BY DEF NothingYet
<1>4. Len(items) = 0 /\ items \in Seq(Item)
  BY <1>1, EmptySeq
<1>5. Typed
  BY <1>1, <1>4, NothingShape DEF Typed
<1>6. Asked
  BY <1>1 DEF Asked
<1>7. Kept
  <2>1. Echo(None) = <<>>
    BY DEF Echo
  <2>2. sent.chat \o Echo(reply) = <<>>
    BY <1>1, <1>3, <2>1, ConcatEmptySeq, EmptySeq
  <2>3. <<>> \in Seq(ChatMessage)
    BY EmptySeq
  <2>4. Begins(<<>>, <<>>)
    BY <2>3, BeginsItself
  <2>5. QED
    BY <1>1, <1>2, <1>3, <2>2, <2>4 DEF Kept
<1>8. Paired
  <2>1. Len(<<>>) = 0
    BY EmptySeq
  <2>2. Answered(<<>>)
    BY <2>1 DEF Answered
  <2>3. QED
    BY <1>1, <1>2, <1>3, <1>4, <2>2 DEF Paired
<1>9. QED
  BY <1>5, <1>6, <1>7, <1>8 DEF ConversationInv

LEMMA ClientAddsInv ==
  ASSUME ConversationInv, ClientAdds
  PROVE  ConversationInv'
<1>1. Typed /\ Asked /\ Kept /\ Paired /\ phase = "client"
  BY DEF ConversationInv, ClientAdds
<1>2. UNCHANGED <<instructions, sent, reply, phase>>
  BY DEF ClientAdds
<1>3. PICK i \in Additions \cup Answers : items' = Append(items, i)
  BY DEF ClientAdds
<1>4. \A c \in Pending : c \in Ids /\ Made(Found.chat, c)
  <2> SUFFICES ASSUME NEW c \in Pending PROVE c \in Ids /\ Made(Found.chat, c)
    OBVIOUS
  <2>1. PICK k \in DOMAIN items : items[k].type = "function_call" /\ items[k].call.id = c
    BY DEF Pending
  <2>2. k \in 1..Len(items) /\ items[k] \in Item
    BY <1>1, <2>1, FoundShape
  <2>3. items[k].call \in Calls
    BY <2>1, <2>2, ItemShape
  <2>4. QED
    BY <1>1, <2>1, <2>2, <2>3 DEF Paired, Ids
<1>5. i \in Item /\ i.type # "function_call"
      /\ (i.type = "function_call_output" => Made(Found.chat, i.call_id))
  <2>1. CASE i \in Additions
    BY <2>1, ConversationAssumption DEF Item
  <2>2. CASE i \in Answers
    <3>1. PICK c \in Pending, o \in ToolOutputs : i = FunctionCallOutput(c, o)
      BY <2>2 DEF Answers
    <3>2. i \in Outputs /\ i.type = "function_call_output" /\ i.call_id = c
      BY <1>4, <3>1 DEF FunctionCallOutput, Outputs
    <3>3. QED
      BY <1>4, <3>2 DEF Item
  <2>3. QED
    BY <2>1, <2>2
<1>6. items \in Seq(Item) /\ items' \in Seq(Item)
  BY <1>1, <1>3, <1>5, AppendProperties DEF Typed
<1>7. Found' = Turn(Found, i)
  BY <1>3, <1>5, <1>6, ConvertMore DEF Found
<1>8. Found'.chat = AddItem(Found.chat, i) /\ Found'.system = AddSystem(Found.system, i)
  BY <1>7 DEF Turn
<1>9. /\ Found'.chat \in Seq(ChatMessage) /\ Begins(Found.chat, Found'.chat)
      /\ Answered(Found'.chat) /\ \A id : Made(Found.chat, id) => Made(Found'.chat, id)
  <2>1. Found.chat \in Seq(ChatMessage) /\ Answered(Found.chat)
    BY <1>1, FoundShape DEF Paired
  <2>2. QED
    BY <1>5, <1>8, <2>1, ItemTurn
<1>10. Typed'
  BY <1>1, <1>2, <1>6 DEF Typed
<1>11. Asked'
  BY <1>1, <1>2 DEF Asked
<1>12. Kept'
  <2>1. Begins(sent.chat \o Echo(reply), Found'.chat)
    <3>1. Begins(sent.chat \o Echo(reply), Found.chat)
      BY <1>1 DEF Kept
    <3>2. sent.chat \o Echo(reply) \in Seq(ChatMessage) /\ Found.chat \in Seq(ChatMessage)
      BY <1>1, EchoShape, FoundShape
    <3> DEFINE b == sent.chat \o Echo(reply)
    <3> HIDE DEF b
    <3>3. QED
      BY <1>9, <3>1, <3>2, BeginsTransitive DEF b
  <2>2. sent.system # None => (System' # None /\ Begins(sent.system, System'))
    <3> SUFFICES ASSUME sent.system # None PROVE System' # None /\ Begins(sent.system, System')
      OBVIOUS
    <3>1. System # None /\ Begins(sent.system, System)
      BY <1>1 DEF Kept
    <3>2. /\ Found.system \in {None} \cup Seq(Text) /\ instructions \in {None} \cup Seq(Text)
          /\ System \in Seq(Text) /\ sent.system \in Seq(Text)
      BY <1>1, <3>1, FoundShape
    <3>3. System' = SystemText(instructions, AddSystem(Found.system, i))
      BY <1>2, <1>8 DEF System
    <3>4. System' # None /\ Begins(System, System')
      <4>1. SystemText(instructions, Found.system) # None
        BY <3>1 DEF System
      <4>2. QED
        BY <1>5, <3>2, <3>3, <4>1, SystemBegins DEF System
    <3>5. System' \in {None} \cup Seq(Text)
      <4>1. AddSystem(Found.system, i) \in {None} \cup Seq(Text)
        BY <1>5, <3>2, AddSystemShape
      <4>2. QED
        BY <3>2, <3>3, <4>1, SystemTextShape
    <3>6. QED
      BY <3>1, <3>2, <3>4, <3>5, BeginsTransitive
  <2>3. QED
    BY <1>2, <2>1, <2>2 DEF Kept
<1>13. Paired'
  <2>1. \A k \in 1..Len(items') : items'[k].type = "function_call" => Made(Found'.chat, items'[k].call.id)
    <3> SUFFICES ASSUME NEW k \in 1..Len(items'), items'[k].type = "function_call"
                 PROVE Made(Found'.chat, items'[k].call.id)
      OBVIOUS
    <3>1. /\ Len(items) \in Nat /\ Len(items') = Len(items) + 1 /\ items'[Len(items) + 1] = i
          /\ \A j \in 1..Len(items) : items'[j] = items[j]
      BY <1>3, <1>5, <1>6, LenProperties, AppendProperties
    <3>2. k # Len(items) + 1
      BY <1>5, <3>1
    <3>3. k \in 1..Len(items) /\ items'[k] = items[k]
      BY <3>1, <3>2
    <3>4. QED
      BY <1>1, <1>9, <3>3 DEF Paired
  <2>2. QED
    BY <1>1, <1>2, <1>9, <2>1 DEF Paired
<1>14. QED
  BY <1>10, <1>11, <1>12, <1>13 DEF ConversationInv

LEMMA OaiToMistralInv ==
  ASSUME ConversationInv, OaiToMistral
  PROVE  ConversationInv'
<1>1. Typed /\ Paired
  BY DEF ConversationInv
<1>2. /\ sent' = [system |-> System, chat |-> Found.chat] /\ reply' = None
      /\ phase' = "upstream" /\ items' = items /\ instructions' = instructions
  BY DEF OaiToMistral, Found, System
<1>3. Found' = Found /\ System' = System
  BY <1>2 DEF Found, System
<1>4. Typed'
  <2>1. sent' \in Converted
    BY <1>1, <1>2, FoundShape DEF Converted
  <2>2. QED
    BY <1>1, <1>2, <2>1 DEF Typed
<1>5. Asked'
  BY <1>2, <1>3 DEF Asked
<1>6. Kept'
  BY <1>2 DEF Kept
<1>7. Paired'
  BY <1>1, <1>2, <1>3 DEF Paired
<1>8. QED
  BY <1>4, <1>5, <1>6, <1>7 DEF ConversationInv

LEMMA ResponseInv ==
  ASSUME ConversationInv, NEW r \in Replies, MistralResponseToOai(r)
  PROVE  ConversationInv'
<1>1. Typed /\ Asked /\ Paired /\ phase = "upstream" /\ Answerable
  BY DEF ConversationInv, MistralResponseToOai
<1>2. reply' = r /\ phase' = "client" /\ sent' = sent /\ instructions' = instructions
  BY DEF MistralResponseToOai
<1>3. PICK out \in {OutputItems(r), StreamedItems(r)} : items' = items \o out
  BY DEF MistralResponseToOai
<1>4. r.content \in Seq(Text) /\ r.tool_calls \in Seq(Calls) /\ r # None
  BY ConversationAssumption
<1>5. sent.chat = Found.chat /\ sent.system = System
  BY <1>1 DEF Asked
<1>6. /\ items \in Seq(Item) /\ Found.chat \in Seq(ChatMessage) /\ Answered(Found.chat)
      /\ System \in {None} \cup Seq(Text)
  BY <1>1, FoundShape DEF Typed, Paired
<1>7. Last(Found.chat).role # "assistant"
  BY <1>1, <1>5 DEF Answerable
<1>8. /\ out \in Seq(Item)
      /\ ConvertInput(items \o out) = [system |-> Found.system, chat |-> Found.chat \o Echo(r)]
  BY <1>4, <1>6, <1>7, ReplyComesBack DEF Found
<1>9. Found'.system = Found.system /\ Found'.chat = Found.chat \o Echo(r)
  BY <1>3, <1>8 DEF Found
<1>10. System' = System
  BY <1>2, <1>9 DEF System
<1>11. /\ Found'.chat \in Seq(ChatMessage) /\ Answered(Found'.chat)
       /\ \A id : Made(Found.chat, id) => Made(Found'.chat, id)
       /\ \A k \in 1..Len(r.tool_calls) : Made(Found'.chat, r.tool_calls[k].id)
  BY <1>4, <1>6, <1>9, EchoTurn
<1>12. Typed'
  <2>1. items' \in Seq(Item)
    BY <1>3, <1>6, <1>8, ConcatProperties
  <2>2. QED
    BY <1>1, <1>2, <2>1 DEF Typed
<1>13. Asked'
  BY <1>2 DEF Asked
<1>14. Kept'
  <2>1. Begins(Found'.chat, Found'.chat)
    BY <1>11, BeginsItself
  <2>2. sent'.chat \o Echo(reply') = Found'.chat
    BY <1>2, <1>5, <1>9
  <2>3. sent'.system # None => (System' # None /\ Begins(sent'.system, System'))
    BY <1>2, <1>5, <1>6, <1>10, BeginsItself
  <2>4. QED
    BY <2>1, <2>2, <2>3 DEF Kept
<1>15. Paired'
  <2>1. \A k \in 1..Len(items') : items'[k].type = "function_call" => Made(Found'.chat, items'[k].call.id)
    <3> SUFFICES ASSUME NEW k \in 1..Len(items'), items'[k].type = "function_call"
                 PROVE Made(Found'.chat, items'[k].call.id)
      OBVIOUS
    <3>1. /\ Len(items) \in Nat /\ Len(out) \in Nat /\ Len(items') = Len(items) + Len(out)
          /\ \A j \in 1..(Len(items) + Len(out)) :
               items'[j] = IF j <= Len(items) THEN items[j] ELSE out[j - Len(items)]
      BY <1>3, <1>6, <1>8, LenProperties, ConcatProperties
    <3>2. CASE k <= Len(items)
      <4>1. k \in 1..Len(items) /\ items'[k] = items[k]
        BY <3>1, <3>2
      <4>2. QED
        BY <1>1, <1>11, <4>1 DEF Paired
    <3>3. CASE ~(k <= Len(items))
      <4> DEFINE n == k - Len(items)
      <4>1. n \in 1..Len(out) /\ items'[k] = out[n]
        BY <3>1, <3>3
      <4> HIDE DEF n
      <4>2. PICK j \in 1..Len(r.tool_calls) : out[n].call = r.tool_calls[j]
        BY <1>4, <4>1, CallsHandedOver
      <4>3. QED
        BY <1>11, <4>1, <4>2
    <3>4. QED
      BY <3>2, <3>3
  <2>2. Answered(sent'.chat)
    BY <1>2, <1>5, <1>6
  <2>3. QED
    BY <1>11, <2>1, <2>2 DEF Paired
<1>16. QED
  BY <1>12, <1>13, <1>14, <1>15 DEF ConversationInv

LEMMA UpstreamFailsInv ==
  ASSUME ConversationInv, UpstreamFails
  PROVE  ConversationInv'
<1>1. Typed /\ Asked /\ Paired /\ phase = "upstream" /\ phase' = "client"
  BY DEF ConversationInv, UpstreamFails
<1>2. /\ items' = items /\ instructions' = instructions /\ sent' = sent /\ reply' = reply
      /\ Found' = Found /\ System' = System
  BY DEF UpstreamFails, Found, System
<1>3. sent.chat = Found.chat /\ sent.system = System /\ reply = None
  BY <1>1 DEF Asked
<1>4. Typed'
  BY <1>1, <1>2 DEF Typed
<1>5. Asked'
  BY <1>1 DEF Asked
<1>6. Kept'
  <2>1. Found.chat \in Seq(ChatMessage) /\ System \in {None} \cup Seq(Text)
    BY <1>1, FoundShape
  <2>2. Echo(reply) = <<>>
    BY <1>3 DEF Echo
  <2>3. sent.chat \o Echo(reply) = Found.chat
    BY <1>3, <2>1, <2>2, ConcatEmptySeq
  <2>4. Begins(Found.chat, Found.chat)
    BY <2>1, BeginsItself
  <2>5. System # None => Begins(System, System)
    BY <2>1, BeginsItself
  <2>6. QED
    BY <1>2, <1>3, <2>3, <2>4, <2>5 DEF Kept
<1>7. Paired'
  BY <1>1, <1>2 DEF Paired
<1>8. QED
  BY <1>4, <1>5, <1>6, <1>7 DEF ConversationInv

LEMMA NextInv == ConversationInv /\ [Next]_vars => ConversationInv'
<1> SUFFICES ASSUME ConversationInv, [Next]_vars PROVE ConversationInv'
  OBVIOUS
<1>1. CASE ClientAdds
  BY <1>1, ClientAddsInv
<1>2. CASE OaiToMistral
  BY <1>2, OaiToMistralInv
<1>3. ASSUME NEW r \in Replies, MistralResponseToOai(r) PROVE ConversationInv'
  BY <1>3, ResponseInv
<1>4. CASE UpstreamFails
  BY <1>4, UpstreamFailsInv
<1>5. CASE UNCHANGED vars
  BY <1>5 DEF ConversationInv, Typed, Asked, Kept, Paired, Found, System, vars
<1>6. QED
  BY <1>1, <1>2, <1>3, <1>4, <1>5 DEF Next

\* Throughout a conversation, what was last sent, and said in answer, is the
\* beginning of what the items would send now.
THEOREM ConversationInductive == Spec => []ConversationInv
BY InitInv, NextInv, PTL DEF Spec

\* What is sent is made of what the upstream knows (oai_to_mistral).
THEOREM SentIsTyped == Spec => []TypeOK
<1>1. ConversationInv => TypeOK
  BY FoundShape DEF ConversationInv, Typed, TypeOK
<1>2. QED
  BY <1>1, ConversationInductive, PTL

\* Every tool output sent follows the message that makes its call
\* (convert_input_to_messages).
THEOREM CallsComeFirst == Spec => []OutputsFollowCalls
<1>1. ConversationInv => OutputsFollowCalls
  <2> SUFFICES ASSUME ConversationInv PROVE OutputsFollowCalls
    OBVIOUS
  <2>1. Answered(sent.chat) /\ sent.chat \in Seq(ChatMessage)
    BY FoundShape DEF ConversationInv, Paired
  <2>2. DOMAIN sent.chat = 1..Len(sent.chat)
    BY <2>1, LenProperties
  <2>3. QED
    BY <2>1, <2>2 DEF OutputsFollowCalls, Answered, Makes
<1>2. QED
  BY <1>1, ConversationInductive, PTL

\* A request goes out only when the client composes.
LEMMA Requested ==
  ASSUME ConversationInv, Next, phase' = "upstream"
  PROVE  phase = "client" /\ sent'.chat = Found.chat /\ sent'.system = System
BY DEF Next, ClientAdds, OaiToMistral, MistralResponseToOai, UpstreamFails, Found, System

\* Each request repeats the one before and the upstream's reply to it, in the
\* same messages (convert_input_to_messages, mistral_response_to_oai,
\* emit_completed).
THEOREM HistoryIsRepeated == Spec => ConversationGrows
<1>1. ASSUME ConversationInv, Next, phase' = "upstream"
      PROVE  IsPrefix(sent.chat \o Echo(reply), sent'.chat)
  <2>1. phase = "client" /\ sent'.chat = Found.chat /\ Typed
    BY <1>1, Requested DEF ConversationInv
  <2>2. Begins(sent.chat \o Echo(reply), Found.chat)
    BY <1>1, <2>1 DEF ConversationInv, Kept
  <2>3. sent.chat \o Echo(reply) \in Seq(ChatMessage) /\ Found.chat \in Seq(ChatMessage)
    BY <2>1, EchoShape, FoundShape
  <2> DEFINE b == sent.chat \o Echo(reply)
  <2> HIDE DEF b
  <2>4. QED
    BY <2>1, <2>2, <2>3, BeginsIsPrefix DEF b
<1>2. ConversationInv /\ [Next]_vars =>
        [phase' = "upstream" => IsPrefix(sent.chat \o Echo(reply), sent'.chat)]_vars
  BY <1>1
<1>3. QED
  BY <1>2, ConversationInductive, PTL DEF Spec, ConversationGrows

\* A later request's system message begins with that of an earlier one
\* (oai_to_mistral).
THEOREM SystemIsKept == Spec => SystemGrows
<1>1. ASSUME ConversationInv, Next, phase' = "upstream", sent.system # None
      PROVE  sent'.system # None /\ IsPrefix(sent.system, sent'.system)
  <2>1. phase = "client" /\ sent'.system = System /\ Typed
    BY <1>1, Requested DEF ConversationInv
  <2>2. System # None /\ Begins(sent.system, System)
    BY <1>1, <2>1 DEF ConversationInv, Kept
  <2>3. sent.system \in Seq(Text) /\ System \in Seq(Text)
    BY <1>1, <2>1, <2>2, FoundShape
  <2>4. QED
    BY <2>1, <2>2, <2>3, BeginsIsPrefix
<1>2. ConversationInv /\ [Next]_vars =>
        [(phase' = "upstream" /\ sent.system # None) =>
           (sent'.system # None /\ IsPrefix(sent.system, sent'.system))]_vars
  BY <1>1
<1>3. QED
  BY <1>2, ConversationInductive, PTL DEF Spec, SystemGrows

-----------------------------------------------------------------------------
(* Counting the pieces of a text.                                          *)

Places(t, text) == {k \in DOMAIN text : text[k] = t}

LEMMA CountShape ==
  ASSUME NEW t, NEW text \in Seq(Part)
  PROVE  /\ IsFiniteSet(Places(t, text)) /\ Count(t, text) = Cardinality(Places(t, text))
         /\ Count(t, text) \in Nat
<1>1. DOMAIN text = 1..Len(text) /\ Len(text) \in Nat
  BY LenProperties
<1>2. IsFiniteSet(1..Len(text))
  BY <1>1, FS_Interval
<1>3. Places(t, text) \subseteq 1..Len(text)
  BY <1>1 DEF Places
<1>4. IsFiniteSet(Places(t, text))
  BY <1>2, <1>3, FS_Subset
<1>5. Count(t, text) = Cardinality(Places(t, text))
  BY DEF Count, Places
<1>6. QED
  BY <1>4, <1>5, FS_CardinalityType

LEMMA CountOfNothing ==
  ASSUME NEW t
  PROVE  Count(t, <<>>) = 0
<1>1. DOMAIN <<>> = {}
  OBVIOUS
<1>2. {k \in DOMAIN <<>> : <<>>[k] = t} = {}
  BY <1>1
<1>3. QED
  BY <1>2, FS_EmptySet DEF Count

LEMMA CountOfMore ==
  ASSUME NEW t, NEW text \in Seq(Part), NEW x \in Part
  PROVE  Count(t, Append(text, x)) = Count(t, text) + (IF x = t THEN 1 ELSE 0)
<1> DEFINE more == Append(text, x)
           n == Len(text)
<1>1. n \in Nat /\ DOMAIN text = 1..n
  BY LenProperties
<1>2. /\ more \in Seq(Part) /\ Len(more) = n + 1 /\ DOMAIN more = 1..(n + 1)
      /\ more[n + 1] = x /\ \A k \in 1..n : more[k] = text[k]
  BY AppendProperties, LenProperties
<1> HIDE DEF more, n
<1>3. /\ IsFiniteSet(Places(t, text)) /\ Count(t, text) = Cardinality(Places(t, text))
      /\ Count(t, more) = Cardinality(Places(t, more)) /\ Count(t, text) \in Nat
  BY <1>2, CountShape
<1>4. n + 1 \notin Places(t, text)
  BY <1>1 DEF Places
<1>5. \A k : k \in 1..(n + 1) <=> (k \in 1..n \/ k = n + 1)
  BY <1>1
<1>6. CASE x = t
  <2>1. Places(t, more) = Places(t, text) \cup {n + 1}
    BY <1>1, <1>2, <1>5, <1>6 DEF Places
  <2>2. Cardinality(Places(t, text) \cup {n + 1}) = Cardinality(Places(t, text)) + 1
    BY <1>3, <1>4, FS_AddElement
  <2>3. QED
    BY <1>3, <1>6, <2>1, <2>2 DEF more
<1>7. CASE x # t
  <2>1. Places(t, more) = Places(t, text)
    BY <1>1, <1>2, <1>5, <1>7 DEF Places
  <2>2. QED
    BY <1>3, <1>7, <2>1 DEF more
<1>8. QED
  BY <1>6, <1>7

LEMMA CountOfBoth ==
  ASSUME NEW t, NEW a \in Seq(Part), NEW b \in Seq(Part)
  PROVE  Count(t, a \o b) = Count(t, a) + Count(t, b)
<1> DEFINE N == Len(b)
           p(k) == SubSeq(b, 1, k)
           S == {k \in 0..N : Count(t, a \o p(k)) = Count(t, a) + Count(t, p(k))}
<1>1. N \in Nat /\ 0 \in 0..N /\ N \in 0..N
  BY LenProperties
<1>2. 0 \in S
  <2>1. p(0) = <<>> /\ a \o <<>> = a
    BY SubSeqEmpty, ConcatEmptySeq
  <2>2. Count(t, a) \in Nat /\ Count(t, <<>>) = 0
    BY CountShape, CountOfNothing
  <2>3. Count(t, a \o p(0)) = Count(t, a) /\ Count(t, p(0)) = 0
    BY <2>1, <2>2, Zenon
  <2> HIDE DEF p
  <2>4. QED
    BY <1>1, <2>2, <2>3
<1>3. ASSUME NEW k \in S, k + 1 \in 1..N PROVE k + 1 \in S
  <2>1. k \in Nat /\ k + 1 \in 1..Len(b) /\ k + 1 \in 0..N
    BY <1>1, <1>3
  <2>2. Count(t, a \o p(k)) = Count(t, a) + Count(t, p(k))
    BY <1>3
  <2> DEFINE u == p(k)
             v == p(k + 1)
             x == b[k + 1]
             au == a \o u
             av == a \o v
  <2>3. /\ au \in Seq(Part) /\ av = Append(au, x)
        /\ v = Append(u, x) /\ u \in Seq(Part) /\ x \in Part
    BY <2>1, OneFurther
  <2> HIDE DEF u, v, x, au, av
  <2>4. /\ Count(t, av) = Count(t, au) + (IF x = t THEN 1 ELSE 0)
        /\ Count(t, v) = Count(t, u) + (IF x = t THEN 1 ELSE 0)
    BY <2>3, CountOfMore
  <2>5. Count(t, a) \in Nat /\ Count(t, u) \in Nat /\ Count(t, au) = Count(t, a) + Count(t, u)
    BY <2>2, <2>3, CountShape DEF u, au
  <2>6. Count(t, av) = Count(t, a) + Count(t, v)
    BY <2>4, <2>5
  <2>7. QED
    BY <2>1, <2>6 DEF av, v
<1>4. \A k \in S : k + 1 \in 1..N => k + 1 \in S
  BY <1>3
<1> HIDE DEF S, N
<1>5. \A k \in 0..N : k \in S
  BY <1>1, <1>2, <1>4, Induct
<1>6. Count(t, a \o p(N)) = Count(t, a) + Count(t, p(N))
  BY <1>1, <1>5 DEF S
<1>7. p(N) = b
  BY SubSeqFull DEF N
<1>8. QED
  BY <1>6, <1>7

\* Joining the parts of a message keeps each piece of text.
LEMMA CountOfMessage ==
  ASSUME NEW item, item.content \in Seq(Part), NEW t \in Text
  PROVE  Count(t, MessageText(item)) = Count(t, item.content)
<1> DEFINE parts == item.content
           N == Len(parts)
           p(k) == SubSeq(parts, 1, k)
<1>1. N \in Nat /\ 0 \in 0..N /\ N \in 0..N
  BY LenProperties
<1>2. parts \in Seq(Part) /\ Seq(Text) \subseteq Seq(Part) /\ t # Image
  BY SeqMonotonic, ConversationAssumption DEF Part
<1> HIDE DEF N
<1>3. PICK f \in [0..N -> Seq(Text)] :
        /\ f[0] = <<>> /\ MessageText(item) = f[N]
        /\ \A n \in 1..N :
             f[n] = IF parts[n] = Image THEN f[n - 1] ELSE Append(f[n - 1], parts[n])
  BY PartByPart DEF N
<1> HIDE DEF parts
<1> DEFINE S == {k \in 0..N : Count(t, f[k]) = Count(t, p(k))}
<1>4. 0 \in S
  <2>1. p(0) = <<>>
    BY SubSeqEmpty
  <2>2. QED
    BY <1>1, <1>3, <2>1
<1>5. ASSUME NEW k \in S, k + 1 \in 1..N PROVE k + 1 \in S
  <2>1. k \in Nat /\ k + 1 \in 1..Len(parts) /\ k + 1 \in 0..N /\ k \in 0..N /\ (k + 1) - 1 = k
    BY <1>1, <1>5 DEF N
  <2>2. Count(t, f[k]) = Count(t, p(k))
    BY <1>5
  <2> DEFINE u == p(k)
             v == p(k + 1)
             x == parts[k + 1]
  <2>3. v = Append(u, x) /\ u \in Seq(Part) /\ x \in Part
    BY <1>2, <2>1, OneFurther
  <2> HIDE DEF u, v, x
  <2>4. Count(t, v) = Count(t, u) + (IF x = t THEN 1 ELSE 0)
    BY <2>3, CountOfMore
  <2>5. /\ f[k] \in Seq(Part) /\ Count(t, u) \in Nat /\ Count(t, f[k]) = Count(t, u)
        /\ f[k + 1] = IF x = Image THEN f[k] ELSE Append(f[k], x)
    BY <1>2, <1>3, <1>5, <2>1, <2>2, <2>3, CountShape DEF u, x
  <2>6. Count(t, f[k + 1]) = Count(t, f[k]) + (IF x = t THEN 1 ELSE 0)
    <3>1. CASE x = Image
      BY <1>2, <2>5, <3>1
    <3>2. CASE x # Image
      BY <2>3, <2>5, <3>2, CountOfMore
    <3>3. QED
      BY <3>1, <3>2
  <2>7. Count(t, f[k + 1]) = Count(t, v)
    BY <2>4, <2>5, <2>6
  <2>8. QED
    BY <2>1, <2>7 DEF v
<1>6. \A k \in S : k + 1 \in 1..N => k + 1 \in S
  BY <1>5
<1> HIDE DEF S
<1>7. \A k \in 0..N : k \in S
  BY <1>1, <1>4, <1>6, Induct
<1>8. Count(t, f[N]) = Count(t, p(N))
  BY <1>1, <1>7 DEF S
<1>9. p(N) = parts
  BY <1>2, SubSeqFull DEF N
<1>10. QED
  BY <1>3, <1>8, <1>9 DEF parts

\* Where t stands in a sequence of texts.
Cells(t, texts) == UNION {{k} \X {j \in DOMAIN texts[k] : texts[k][j] = t} : k \in DOMAIN texts}

LEMMA CellsOfMore ==
  ASSUME NEW t, NEW texts \in Seq(Seq(Part)), NEW text \in Seq(Part)
  PROVE  LET n == Len(texts) IN
         /\ Cells(t, Append(texts, text)) = Cells(t, texts) \cup ({n + 1} \X Places(t, text))
         /\ Cells(t, texts) \cap ({n + 1} \X Places(t, text)) = {}
<1> DEFINE n == Len(texts)
           more == Append(texts, text)
           Row(z, k) == {k} \X {j \in DOMAIN z[k] : z[k][j] = t}
<1>1. n \in Nat /\ DOMAIN texts = 1..n
  BY LenProperties
<1>2. /\ DOMAIN more = 1..(n + 1) /\ more[n + 1] = text
      /\ \A k \in 1..n : more[k] = texts[k]
  BY AppendProperties, LenProperties
<1> HIDE DEF more, n
<1>3. \A k : k \in 1..(n + 1) <=> (k \in 1..n \/ k = n + 1)
  BY <1>1
<1>4. /\ \A k \in 1..n : Row(more, k) = Row(texts, k)
      /\ Row(more, n + 1) = {n + 1} \X Places(t, text)
  BY <1>2 DEF Places
<1>5. /\ Cells(t, texts) = UNION {Row(texts, k) : k \in 1..n}
      /\ Cells(t, more) = UNION {Row(more, k) : k \in 1..(n + 1)}
  BY <1>1, <1>2 DEF Cells
<1>6. \A k \in 1..n : Row(texts, k) \cap ({n + 1} \X Places(t, text)) = {}
  <2>1. \A k \in 1..n : k # n + 1
    BY <1>1
  <2>2. QED
    BY <2>1
<1> HIDE DEF Row
<1>7. Cells(t, more) = Cells(t, texts) \cup ({n + 1} \X Places(t, text))
  <2>1. \A c : c \in Cells(t, more) <=> (\E k \in 1..(n + 1) : c \in Row(more, k))
    BY <1>5
  <2>2. \A c : c \in Cells(t, texts) <=> (\E k \in 1..n : c \in Row(texts, k))
    BY <1>5
  <2>3. QED
    BY <1>3, <1>4, <2>1, <2>2
<1>8. Cells(t, texts) \cap ({n + 1} \X Places(t, text)) = {}
  BY <1>5, <1>6
<1>9. QED
  BY <1>7, <1>8 DEF more, n

LEMMA CellsOfNothing ==
  ASSUME NEW t
  PROVE  Cells(t, <<>>) = {}
<1>1. DOMAIN <<>> = {}
  OBVIOUS
<1>2. QED
  BY <1>1 DEF Cells

LEMMA RowShape ==
  ASSUME NEW t, NEW text \in Seq(Part), NEW n
  PROVE  /\ IsFiniteSet({n} \X Places(t, text))
         /\ Cardinality({n} \X Places(t, text)) = Count(t, text)
<1>1. IsFiniteSet({n}) /\ Cardinality({n}) = 1
  BY FS_Singleton
<1>2. /\ IsFiniteSet(Places(t, text)) /\ Count(t, text) = Cardinality(Places(t, text))
      /\ Count(t, text) \in Nat
  BY CountShape
<1>3. /\ IsFiniteSet({n} \X Places(t, text))
      /\ Cardinality({n} \X Places(t, text)) = Cardinality({n}) * Cardinality(Places(t, text))
  BY <1>1, <1>2, FS_Product
<1>4. QED
  BY <1>1, <1>2, <1>3

LEMMA CellsFinite ==
  ASSUME NEW t, NEW texts \in Seq(Seq(Part))
  PROVE  IsFiniteSet(Cells(t, texts)) /\ CountIn(t, texts) = Cardinality(Cells(t, texts))
<1> DEFINE N == Len(texts)
           p(k) == SubSeq(texts, 1, k)
           S == {k \in 0..N : IsFiniteSet(Cells(t, p(k)))}
<1>1. N \in Nat /\ 0 \in 0..N /\ N \in 0..N
  BY LenProperties
<1>2. 0 \in S
  <2>1. p(0) = <<>>
    BY SubSeqEmpty
  <2>2. QED
    BY <1>1, <2>1, CellsOfNothing, FS_EmptySet
<1>3. ASSUME NEW k \in S, k + 1 \in 1..N PROVE k + 1 \in S
  <2>1. k \in Nat /\ k + 1 \in 1..Len(texts) /\ k + 1 \in 0..N
    BY <1>1, <1>3
  <2> DEFINE u == p(k)
             v == p(k + 1)
             x == texts[k + 1]
             row == {Len(u) + 1} \X Places(t, x)
  <2>2. v = Append(u, x) /\ u \in Seq(Seq(Part)) /\ x \in Seq(Part)
    BY <2>1, OneFurther
  <2>3. IsFiniteSet(Cells(t, u))
    BY <1>3
  <2> HIDE DEF u, v, x
  <2>4. Cells(t, v) = Cells(t, u) \cup row
    BY <2>2, CellsOfMore
  <2>5. IsFiniteSet(row)
    BY <2>2, RowShape
  <2> HIDE DEF row
  <2>6. IsFiniteSet(Cells(t, v))
    BY <2>3, <2>4, <2>5, FS_Union
  <2>7. QED
    BY <2>1, <2>6 DEF v
<1>4. \A k \in S : k + 1 \in 1..N => k + 1 \in S
  BY <1>3
<1> HIDE DEF S, N
<1>5. \A k \in 0..N : k \in S
  BY <1>1, <1>2, <1>4, Induct
<1>6. IsFiniteSet(Cells(t, p(N)))
  BY <1>1, <1>5 DEF S
<1>7. p(N) = texts
  BY SubSeqFull DEF N
<1>8. CountIn(t, texts) = Cardinality(Cells(t, texts))
  BY DEF CountIn, Cells
<1>9. QED
  BY <1>6, <1>7, <1>8

LEMMA CountInMore ==
  ASSUME NEW t, NEW texts \in Seq(Seq(Part)), NEW text \in Seq(Part)
  PROVE  CountIn(t, Append(texts, text)) = CountIn(t, texts) + Count(t, text)
<1> DEFINE cells == Cells(t, texts)
           more == Append(texts, text)
           row == {Len(texts) + 1} \X Places(t, text)
<1>1. more \in Seq(Seq(Part))
  BY AppendProperties
<1>2. Cells(t, more) = cells \cup row /\ cells \cap row = {}
  BY CellsOfMore
<1> HIDE DEF more
<1>3. /\ IsFiniteSet(cells) /\ CountIn(t, texts) = Cardinality(cells)
      /\ CountIn(t, more) = Cardinality(Cells(t, more))
  BY <1>1, CellsFinite
<1>4. IsFiniteSet(row) /\ Cardinality(row) = Count(t, text)
  BY RowShape
<1> HIDE DEF cells, row
<1>5. Cardinality(cells \cup row) = Cardinality(cells) + Cardinality(row) - Cardinality(cells \cap row)
  BY <1>3, <1>4, FS_Union
<1>6. Cardinality(cells \cap row) = 0 /\ Cardinality(cells) \in Nat /\ Cardinality(row) \in Nat
  BY <1>2, <1>3, <1>4, FS_EmptySet, FS_CardinalityType
<1>7. QED
  BY <1>2, <1>3, <1>4, <1>5, <1>6 DEF more

LEMMA CountInShape ==
  ASSUME NEW t, NEW texts \in Seq(Seq(Part))
  PROVE  CountIn(t, texts) \in Nat
BY CellsFinite, FS_CardinalityType

LEMMA CountInNothing ==
  ASSUME NEW t
  PROVE  CountIn(t, <<>>) = 0
<1>1. CountIn(t, <<>>) = Cardinality(Cells(t, <<>>))
  BY DEF CountIn, Cells
<1>2. QED
  BY <1>1, CellsOfNothing, FS_EmptySet

-----------------------------------------------------------------------------
(* Every piece is sent as often as it was written.                         *)

Plain(text) == IF text = None THEN <<>> ELSE text
Contents(chat) == [k \in DOMAIN chat |-> chat[k].content]
Written(s) == [k \in DOMAIN s |-> ItemText(s[k])]

\* Piece for piece, a conversation holds what the items say.
Balanced(t, c, s) ==
  Count(t, Plain(c.system)) + CountIn(t, Contents(c.chat)) = CountIn(t, Written(s))

LEMMA PlainShape ==
  ASSUME NEW text \in {None} \cup Seq(Text)
  PROVE  Plain(text) \in Seq(Part)
<1>1. <<>> \in Seq(Part) /\ Seq(Text) \subseteq Seq(Part)
  BY EmptySeq, SeqMonotonic DEF Part
<1>2. QED
  BY <1>1 DEF Plain

LEMMA ItemTextShape ==
  ASSUME NEW item \in Item
  PROVE  ItemText(item) \in Seq(Part)
<1>1. <<>> \in Seq(Part) /\ Seq(Text) \subseteq Seq(Part)
  BY EmptySeq, SeqMonotonic DEF Part
<1>2. item.type = "function_call_output" => ItemText(item) \in Seq(Part)
  BY <1>1, OutputShape
<1>3. QED
  BY <1>1, <1>2, ItemShape DEF ItemText

LEMMA ContentsShape ==
  ASSUME NEW chat \in Seq(ChatMessage)
  PROVE  /\ Contents(chat) \in Seq(Seq(Part))
         /\ Len(Contents(chat)) = Len(chat) /\ Len(chat) \in Nat
         /\ \A k \in 1..Len(chat) : Contents(chat)[k] = chat[k].content
         /\ \A k \in 1..Len(chat) : chat[k].content \in Seq(Part)
<1> DEFINE n == Len(chat)
           q == Contents(chat)
<1>1. n \in Nat /\ DOMAIN chat = 1..n /\ \A k \in 1..n : chat[k] \in ChatMessage
  BY LenProperties, ElementOfSeq
<1>2. \A k \in 1..n : chat[k].content \in Seq(Part)
  <2>1. Seq(Text) \subseteq Seq(Part)
    BY SeqMonotonic DEF Part
  <2>2. \A m \in ChatMessage : m.content \in Seq(Text)
    BY DEF ChatMessage
  <2>3. QED
    BY <1>1, <2>1, <2>2
<1>3. q = [k \in 1..n |-> chat[k].content]
  BY <1>1 DEF Contents
<1> HIDE DEF n, q
<1>4. q \in [1..n -> Seq(Part)] /\ \A k \in 1..n : q[k] = chat[k].content
  BY <1>2, <1>3
<1> DEFINE T == Seq(Part)
<1>5. q \in [1..n -> T]
  BY <1>4
<1> HIDE DEF T
<1>6. q \in Seq(T) /\ Len(q) = n
  BY <1>1, <1>5
<1>7. QED
  BY <1>1, <1>2, <1>4, <1>6 DEF n, q, T

LEMMA WrittenShape ==
  ASSUME NEW s \in Seq(Item)
  PROVE  /\ Written(s) \in Seq(Seq(Part))
         /\ Len(Written(s)) = Len(s) /\ Len(s) \in Nat
         /\ \A k \in 1..Len(s) : Written(s)[k] = ItemText(s[k])
<1> DEFINE n == Len(s)
           q == Written(s)
<1>1. n \in Nat /\ DOMAIN s = 1..n /\ \A k \in 1..n : s[k] \in Item
  BY LenProperties, ElementOfSeq
<1>2. \A k \in 1..n : ItemText(s[k]) \in Seq(Part)
  BY <1>1, ItemTextShape
<1>3. q = [k \in 1..n |-> ItemText(s[k])]
  BY <1>1 DEF Written
<1> HIDE DEF n, q
<1>4. q \in [1..n -> Seq(Part)] /\ \A k \in 1..n : q[k] = ItemText(s[k])
  BY <1>2, <1>3
<1> DEFINE T == Seq(Part)
<1>5. q \in [1..n -> T]
  BY <1>4
<1> HIDE DEF T
<1>6. q \in Seq(T) /\ Len(q) = n
  BY <1>1, <1>5
<1>7. QED
  BY <1>1, <1>4, <1>6 DEF n, q, T

LEMMA ContentsOfMore ==
  ASSUME NEW chat \in Seq(ChatMessage), NEW m \in ChatMessage
  PROVE  Contents(Append(chat, m)) = Append(Contents(chat), m.content)
<1> DEFINE more == Append(chat, m)
           a == Contents(more)
           b == Append(Contents(chat), m.content)
           n == Len(chat)
<1>1. /\ more \in Seq(ChatMessage) /\ Len(more) = n + 1 /\ more[n + 1] = m
      /\ \A k \in 1..n : more[k] = chat[k]
  BY AppendProperties
<1>2. m.content \in Seq(Part)
  <2>1. Seq(Text) \subseteq Seq(Part)
    BY SeqMonotonic DEF Part
  <2>2. QED
    BY <2>1 DEF ChatMessage
<1>3. /\ Contents(chat) \in Seq(Seq(Part)) /\ Len(Contents(chat)) = n /\ n \in Nat
      /\ \A k \in 1..n : Contents(chat)[k] = chat[k].content
  BY ContentsShape
<1> HIDE DEF more, n
<1>4. /\ a \in Seq(Seq(Part)) /\ Len(a) = n + 1
      /\ \A k \in 1..(n + 1) : a[k] = more[k].content
  BY <1>1, ContentsShape
<1>5. /\ b \in Seq(Seq(Part)) /\ Len(b) = n + 1 /\ b[n + 1] = m.content
      /\ \A k \in 1..n : b[k] = Contents(chat)[k]
  BY <1>2, <1>3, AppendProperties
<1> HIDE DEF a, b
<1>6. \A k \in 1..(n + 1) : a[k] = b[k]
  <2> SUFFICES ASSUME NEW k \in 1..(n + 1) PROVE a[k] = b[k]
    OBVIOUS
  <2>1. CASE k = n + 1
    BY <1>1, <1>4, <1>5, <2>1
  <2>2. CASE k \in 1..n
    BY <1>1, <1>3, <1>4, <1>5, <2>2
  <2>3. QED
    BY <1>3, <2>1, <2>2
<1>7. a = b
  BY <1>4, <1>5, <1>6, SeqEqual
<1>8. QED
  BY <1>7 DEF a, b, more

LEMMA WrittenMore ==
  ASSUME NEW s \in Seq(Item), NEW item \in Item
  PROVE  Written(Append(s, item)) = Append(Written(s), ItemText(item))
<1> DEFINE more == Append(s, item)
           a == Written(more)
           b == Append(Written(s), ItemText(item))
           n == Len(s)
<1>1. /\ more \in Seq(Item) /\ Len(more) = n + 1 /\ more[n + 1] = item
      /\ \A k \in 1..n : more[k] = s[k]
  BY AppendProperties
<1>2. ItemText(item) \in Seq(Part)
  BY ItemTextShape
<1>3. /\ Written(s) \in Seq(Seq(Part)) /\ Len(Written(s)) = n /\ n \in Nat
      /\ \A k \in 1..n : Written(s)[k] = ItemText(s[k])
  BY WrittenShape
<1> HIDE DEF more, n
<1>4. /\ a \in Seq(Seq(Part)) /\ Len(a) = n + 1
      /\ \A k \in 1..(n + 1) : a[k] = ItemText(more[k])
  BY <1>1, WrittenShape
<1>5. /\ b \in Seq(Seq(Part)) /\ Len(b) = n + 1 /\ b[n + 1] = ItemText(item)
      /\ \A k \in 1..n : b[k] = Written(s)[k]
  <2> DEFINE w == Written(s)
             text == ItemText(item)
  <2>1. w \in Seq(Seq(Part)) /\ text \in Seq(Part) /\ Len(w) = n
    BY <1>2, <1>3
  <2> HIDE DEF w, text
  <2>2. /\ Append(w, text) \in Seq(Seq(Part)) /\ Len(Append(w, text)) = n + 1
        /\ Append(w, text)[n + 1] = text /\ \A k \in 1..n : Append(w, text)[k] = w[k]
    BY <2>1, AppendProperties
  <2>3. QED
    BY <2>2 DEF w, text
<1> HIDE DEF a, b
<1>6. \A k \in 1..(n + 1) : a[k] = b[k]
  <2> SUFFICES ASSUME NEW k \in 1..(n + 1) PROVE a[k] = b[k]
    OBVIOUS
  <2>1. CASE k = n + 1
    BY <1>1, <1>4, <1>5, <2>1
  <2>2. CASE k \in 1..n
    BY <1>1, <1>3, <1>4, <1>5, <2>2
  <2>3. QED
    BY <1>3, <2>1, <2>2
<1>7. a = b
  BY <1>4, <1>5, <1>6, SeqEqual
<1>8. QED
  BY <1>7 DEF a, b, more

\* A call changes no text.
LEMMA ContentsOfCalled ==
  ASSUME NEW chat \in Seq(ChatMessage), chat # <<>>, NEW call \in Calls
  PROVE  Contents(Called(chat, call)) = Contents(chat)
<1> DEFINE called == Called(chat, call)
           a == Contents(called)
           b == Contents(chat)
           n == Len(chat)
           m == chat[n]
<1>1. /\ called \in Seq(ChatMessage) /\ Len(called) = n
      /\ \A k \in 1..n : called[k] =
           IF k = n THEN Chat(m.role, m.content, Append(m.tool_calls, call), m.tool_call_id)
           ELSE chat[k]
  BY CalledShape
<1>2. \A k \in 1..n : called[k].content = chat[k].content
  <2>1. Chat(m.role, m.content, Append(m.tool_calls, call), m.tool_call_id).content = m.content
    BY DEF Chat
  <2>2. QED
    BY <1>1, <2>1
<1> HIDE DEF called, n
<1>3. /\ a \in Seq(Seq(Part)) /\ Len(a) = n /\ \A k \in 1..n : a[k] = called[k].content
  BY <1>1, ContentsShape
<1>4. /\ b \in Seq(Seq(Part)) /\ Len(b) = n /\ \A k \in 1..n : b[k] = chat[k].content
  BY ContentsShape DEF n
<1> HIDE DEF a, b
<1>5. a = b
  BY <1>2, <1>3, <1>4, SeqEqual
<1>6. QED
  BY <1>5 DEF a, b, called

LEMMA BalanceOfMore ==
  ASSUME NEW c \in Converted, NEW item \in Item, NEW t \in Text
  PROVE  Count(t, Plain(Turn(c, item).system)) + CountIn(t, Contents(Turn(c, item).chat)) =
         Count(t, Plain(c.system)) + CountIn(t, Contents(c.chat)) + Count(t, ItemText(item))
<1> DEFINE system == c.system
           chat == c.chat
           texts == Contents(chat)
<1>1. system \in {None} \cup Seq(Text) /\ chat \in Seq(ChatMessage)
  BY DEF Converted
<1>2. /\ Turn(c, item).system = AddSystem(system, item)
      /\ Turn(c, item).chat = AddItem(chat, item)
  BY DEF Turn
<1>3. texts \in Seq(Seq(Part)) /\ CountIn(t, texts) \in Nat
  BY <1>1, ContentsShape, CountInShape
<1>4. Plain(system) \in Seq(Part) /\ Count(t, Plain(system)) \in Nat
  BY <1>1, PlainShape, CountShape
<1>5. Count(t, ItemText(item)) \in Nat
  BY ItemTextShape, CountShape
<1> HIDE DEF system, chat
<1>6. \A m \in ChatMessage : CountIn(t, Contents(Append(chat, m))) = CountIn(t, texts) + Count(t, m.content)
  <2> SUFFICES ASSUME NEW m \in ChatMessage
               PROVE  CountIn(t, Contents(Append(chat, m))) = CountIn(t, texts) + Count(t, m.content)
    OBVIOUS
  <2>1. Contents(Append(chat, m)) = Append(texts, m.content)
    BY <1>1, ContentsOfMore
  <2>2. m.content \in Seq(Part)
    <3>1. Seq(Text) \subseteq Seq(Part)
      BY SeqMonotonic DEF Part
    <3>2. QED
      BY <3>1 DEF ChatMessage
  <2> HIDE DEF texts
  <2>3. CountIn(t, Append(texts, m.content)) = CountIn(t, texts) + Count(t, m.content)
    BY <1>3, <2>2, CountInMore
  <2>4. QED
    BY <2>1, <2>3
<1>7. \A role, text, calls, id : Chat(role, text, calls, id).content = text
  BY DEF Chat
<1> DEFINE more == CountIn(t, Contents(AddItem(chat, item)))
<1>8. ASSUME ~IsSystem(item),
             more = CountIn(t, texts) + Count(t, ItemText(item))
      PROVE  Count(t, Plain(AddSystem(system, item))) + more =
             Count(t, Plain(system)) + CountIn(t, texts) + Count(t, ItemText(item))
  <2>1. AddSystem(system, item) = system
    BY <1>8 DEF AddSystem
  <2> HIDE DEF more, texts
  <2>2. QED
    BY <1>3, <1>4, <1>5, <1>8, <2>1
<1>9. CASE IsSystem(item)
  <2>1. item.type = "message" /\ item.content \in Seq(Part) /\ ItemText(item) = item.content
    BY <1>9, ItemShape DEF IsSystem, ItemText
  <2>2. AddItem(chat, item) = chat
    BY <1>9, <2>1 DEF AddItem
  <2> DEFINE text == MessageText(item)
             said == Plain(AddSystem(system, item))
  <2>3. text \in Seq(Text) /\ text \in Seq(Part) /\ Count(t, text) = Count(t, ItemText(item))
    BY <2>1, TextOfMessage, CountOfMessage, SeqMonotonic DEF Part
  <2>4. Count(t, said) = Count(t, Plain(system)) + Count(t, text)
    <3>1. text # None
      BY <2>3, ConversationAssumption
    <3> HIDE DEF text
    <3>2. CASE system = None
      <4>1. said = text /\ Plain(system) = <<>>
        BY <1>9, <3>1, <3>2 DEF AddSystem, Plain, text
      <4>2. Count(t, <<>>) = 0 /\ Count(t, text) \in Nat
        BY <2>3, CountOfNothing, CountShape
      <4> HIDE DEF said
      <4>3. QED
        BY <4>1, <4>2
    <3>3. CASE system # None
      <4>1. Plain(system) = system /\ system \in Seq(Text) /\ system \in Seq(Part)
        BY <1>1, <1>4, <3>3 DEF Plain
      <4>2. system \o text \in Seq(Text)
        BY <2>3, <4>1, ConcatProperties
      <4>3. system \o text # None
        BY <4>2, ConversationAssumption
      <4>4. said = system \o text
        BY <1>9, <3>3, <4>3 DEF AddSystem, Plain, text
      <4>5. Count(t, system \o text) = Count(t, system) + Count(t, text)
        BY <2>3, <4>1, CountOfBoth
      <4> HIDE DEF said
      <4>6. QED
        BY <4>1, <4>4, <4>5
    <3>4. QED
      BY <3>2, <3>3
  <2>5. more = CountIn(t, texts)
    BY <2>2
  <2> HIDE DEF more, texts, said, text
  <2>6. Count(t, said) + more =
        Count(t, Plain(system)) + CountIn(t, texts) + Count(t, ItemText(item))
    BY <1>3, <1>4, <1>5, <2>3, <2>4, <2>5
  <2>7. QED
    BY <1>2, <2>6 DEF more, texts, said, system, chat
<1>10. CASE ~IsSystem(item)
  <2>1. more = CountIn(t, texts) + Count(t, ItemText(item))
    <3>1. CASE /\ AddItem(chat, item) = chat
               /\ item.type \notin {"function_call", "function_call_output"}
               /\ item.type = "message" => IsSystem(item)
      <4>1. ItemText(item) = <<>>
        BY <1>10, <3>1 DEF ItemText
      <4>2. Count(t, ItemText(item)) = 0
        BY <4>1, CountOfNothing
      <4>3. more = CountIn(t, texts)
        BY <3>1
      <4> HIDE DEF more, texts
      <4>4. QED
        BY <1>3, <4>2, <4>3
    <3>2. CASE /\ item.type = "message" /\ ~IsSystem(item)
               /\ AddItem(chat, item) = Append(chat, Chat(item.role, MessageText(item), <<>>, None))
               /\ Chat(item.role, MessageText(item), <<>>, None) \in ChatMessage
      <4>1. ItemText(item) = item.content /\ item.content \in Seq(Part)
        BY <3>2, ItemShape DEF ItemText
      <4>2. Count(t, MessageText(item)) = Count(t, ItemText(item))
        BY <4>1, CountOfMessage
      <4>3. more = CountIn(t, texts) + Count(t, MessageText(item))
        BY <1>6, <1>7, <3>2
      <4> HIDE DEF more, texts
      <4>4. QED
        BY <4>2, <4>3
    <3>3. CASE item.type = "function_call"
      <4>1. ItemText(item) = <<>>
        BY <3>3 DEF ItemText
      <4>2. Count(t, <<>>) = 0
        BY CountOfNothing
      <4>3. CASE chat # <<>> /\ AddItem(chat, item) = Called(chat, item.call) /\ item.call \in Calls
        <5>1. more = CountIn(t, texts)
          BY <1>1, <4>3, ContentsOfCalled
        <5> HIDE DEF more, texts
        <5>2. QED
          BY <1>3, <4>1, <4>2, <5>1
      <4>4. CASE /\ AddItem(chat, item) = Append(chat, Chat("assistant", <<>>, <<item.call>>, None))
                 /\ Chat("assistant", <<>>, <<item.call>>, None) \in ChatMessage
        <5>1. more = CountIn(t, texts) + Count(t, <<>>)
          BY <1>6, <1>7, <4>4
        <5> HIDE DEF more, texts
        <5>2. QED
          BY <4>1, <5>1
      <4>5. QED
        BY <1>1, <3>3, <4>3, <4>4, AddItemCases
    <3>4. CASE /\ item.type = "function_call_output"
               /\ AddItem(chat, item) = Append(chat, Chat("tool", OutputText(item), <<>>, item.call_id))
               /\ Chat("tool", OutputText(item), <<>>, item.call_id) \in ChatMessage
      <4>1. ItemText(item) = OutputText(item)
        BY <3>4, OutputShape
      <4>2. more = CountIn(t, texts) + Count(t, OutputText(item))
        BY <1>6, <1>7, <3>4
      <4> HIDE DEF more, texts
      <4>3. QED
        BY <4>1, <4>2
    <3>5. QED
      BY <1>1, <3>1, <3>2, <3>3, <3>4, AddItemCases
  <2>2. QED
    BY <1>2, <1>8, <1>10, <2>1 DEF system, chat
<1>11. QED
  BY <1>9, <1>10

LEMMA Balance ==
  ASSUME NEW s \in Seq(Item), NEW t \in Text
  PROVE  Balanced(t, ConvertInput(s), s)
<1> DEFINE N == Len(s)
           p(k) == SubSeq(s, 1, k)
           S == {k \in 0..N : Balanced(t, ConvertInput(p(k)), p(k))}
<1>1. N \in Nat /\ 0 \in 0..N /\ N \in 0..N
  BY LenProperties
<1>2. 0 \in S
  <2>1. p(0) = <<>>
    BY SubSeqEmpty
  <2>2. ConvertInput(<<>>) = NothingYet
    BY ConvertNothing
  <2>3. Plain(NothingYet.system) = <<>> /\ Contents(NothingYet.chat) = <<>> /\ Written(<<>>) = <<>>
    BY DEF NothingYet, Plain, Contents, Written
  <2>4. Count(t, <<>>) = 0 /\ CountIn(t, <<>>) = 0
    BY CountOfNothing, CountInNothing
  <2>5. Balanced(t, NothingYet, <<>>)
    BY <2>3, <2>4 DEF Balanced
  <2>6. QED
    BY <1>1, <2>1, <2>2, <2>5
<1>3. ASSUME NEW k \in S, k + 1 \in 1..N PROVE k + 1 \in S
  <2>1. k \in Nat /\ k + 1 \in 1..Len(s) /\ k + 1 \in 0..N
    BY <1>1, <1>3
  <2> DEFINE u == p(k)
             v == p(k + 1)
             item == s[k + 1]
             c == ConvertInput(u)
  <2>2. v = Append(u, item) /\ u \in Seq(Item) /\ item \in Item
    BY <2>1, OneFurther
  <2>3. Balanced(t, c, u)
    BY <1>3
  <2> HIDE DEF u, v, item
  <2>4. ConvertInput(v) = Turn(c, item) /\ c \in Converted
    BY <2>2, ConvertMore, ConvertShape
  <2> HIDE DEF c
  <2>5. Count(t, Plain(Turn(c, item).system)) + CountIn(t, Contents(Turn(c, item).chat)) =
        Count(t, Plain(c.system)) + CountIn(t, Contents(c.chat)) + Count(t, ItemText(item))
    BY <2>2, <2>4, BalanceOfMore
  <2>6. CountIn(t, Written(v)) = CountIn(t, Written(u)) + Count(t, ItemText(item))
    <3>1. Written(v) = Append(Written(u), ItemText(item))
      BY <2>2, WrittenMore
    <3>2. Written(u) \in Seq(Seq(Part)) /\ ItemText(item) \in Seq(Part)
      BY <2>2, WrittenShape, ItemTextShape
    <3> DEFINE w == Written(u)
               text == ItemText(item)
    <3> HIDE DEF w, text
    <3>3. CountIn(t, Append(w, text)) = CountIn(t, w) + Count(t, text)
      BY <3>2, CountInMore DEF w, text
    <3>4. QED
      BY <3>1, <3>3 DEF w, text
  <2>7. Balanced(t, Turn(c, item), v)
    BY <2>3, <2>5, <2>6 DEF Balanced
  <2>8. QED
    BY <2>1, <2>4, <2>7 DEF v
<1>4. \A k \in S : k + 1 \in 1..N => k + 1 \in S
  BY <1>3
<1> HIDE DEF S, N
<1>5. \A k \in 0..N : k \in S
  BY <1>1, <1>2, <1>4, Induct
<1>6. Balanced(t, ConvertInput(p(N)), p(N))
  BY <1>1, <1>5 DEF S
<1>7. p(N) = s
  BY SubSeqFull DEF N
<1>8. QED
  BY <1>6, <1>7

LEMMA BalanceOfSystem ==
  ASSUME NEW prompt \in {None} \cup Seq(Text), NEW found \in {None} \cup Seq(Text), NEW t
  PROVE  Count(t, Plain(SystemText(prompt, found))) = Count(t, Plain(prompt)) + Count(t, Plain(found))
<1>1. /\ Plain(prompt) \in Seq(Part) /\ Plain(found) \in Seq(Part)
      /\ Count(t, Plain(prompt)) \in Nat /\ Count(t, Plain(found)) \in Nat
  BY PlainShape, CountShape
<1>2. Plain(None) = <<>> /\ Count(t, <<>>) = 0
  BY CountOfNothing DEF Plain
<1>3. CASE prompt = None
  <2>1. SystemText(prompt, found) = found
    BY <1>3 DEF SystemText
  <2>2. QED
    BY <1>1, <1>2, <1>3, <2>1
<1>4. CASE prompt # None /\ found = None
  <2>1. SystemText(prompt, found) = prompt
    BY <1>4 DEF SystemText
  <2>2. QED
    BY <1>1, <1>2, <1>4, <2>1
<1>5. CASE prompt # None /\ found # None
  <2>1. SystemText(prompt, found) = prompt \o found
    BY <1>5 DEF SystemText
  <2>2. prompt \o found \in Seq(Text)
    BY <1>5, ConcatProperties
  <2>3. prompt \o found # None
    BY <2>2, ConversationAssumption
  <2>4. /\ Plain(prompt) = prompt /\ Plain(found) = found
        /\ Plain(SystemText(prompt, found)) = prompt \o found
    BY <1>5, <2>1, <2>3 DEF Plain
  <2>5. Count(t, prompt \o found) = Count(t, prompt) + Count(t, found)
    BY <1>1, <2>4, CountOfBoth
  <2>6. QED
    BY <2>4, <2>5
<1>6. QED
  BY <1>3, <1>4, <1>5

\* Whatever a client writes as text, in messages or as a tool's output, reaches
\* the upstream, each piece exactly as often as written (oai_to_mistral,
\* convert_input_to_messages, extract_message_text).
THEOREM TextIsKept == Spec => []NoTextLost
<1>1. ConversationInv => NoTextLost
  <2> SUFFICES ASSUME ConversationInv, phase = "upstream", NEW t \in Text
               PROVE Count(t, Plain(sent.system)) + CountIn(t, Contents(sent.chat)) =
                     Count(t, Plain(instructions)) + CountIn(t, Written(items))
    BY DEF NoTextLost, Plain, Contents, Written
  <2>1. Typed /\ sent.chat = Found.chat /\ sent.system = System
    BY DEF ConversationInv, Asked
  <2>2. /\ instructions \in {None} \cup Seq(Text) /\ Found.system \in {None} \cup Seq(Text)
        /\ Found.chat \in Seq(ChatMessage) /\ items \in Seq(Item)
    BY <2>1, FoundShape DEF Typed
  <2>3. Count(t, Plain(Found.system)) + CountIn(t, Contents(Found.chat)) = CountIn(t, Written(items))
    BY <2>2, Balance DEF Balanced, Found
  <2>4. Count(t, Plain(System)) = Count(t, Plain(instructions)) + Count(t, Plain(Found.system))
    BY <2>2, BalanceOfSystem DEF System
  <2>5. /\ Count(t, Plain(instructions)) \in Nat /\ Count(t, Plain(Found.system)) \in Nat
        /\ CountIn(t, Contents(Found.chat)) \in Nat
    BY <2>2, PlainShape, CountShape, ContentsShape, CountInShape
  <2>6. QED
    BY <2>1, <2>3, <2>4, <2>5
<1>2. QED
  BY <1>1, ConversationInductive, PTL
=============================================================================
