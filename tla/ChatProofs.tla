----------------------------- MODULE ChatProofs -----------------------------
(***************************************************************************)
(* For any well-formed upstream: every item is bracketed and sealed with   *)
(* its own deltas, the completed response says what the upstream said, and *)
(* the client's view implements ResponseStream.                            *)
(*                                                                         *)
(* The invariant tells each item's story from the state: whether it is     *)
(* there, under which id, whether it is over; the events tell the same.    *)
(***************************************************************************)
EXTENDS ChatStream, SseProofs

Items == {Message} \cup Index

\* The upstream's finish reason has been handled.
Ending == said.finish # None /\ finish = None

\* Item by item: its status, as a client sees it, and its id.
IsThere(of) == IF of = Message THEN msg_id # 0 ELSE tool_calls[of].known
Status ==
  [of \in Items |-> IF ~IsThere(of) THEN "absent"
                   ELSE IF Ending /\ of \notin closing THEN "done" ELSE "open"]
IdOf == [of \in Items |-> IF of = Message THEN MsgId(msg_id) ELSE tool_calls[of].oai_id]

Adds(e, of) == e.of = of /\ e.type = "response.output_item.added"
Ends(e, of) == e.of = of /\ e.type = "response.output_item.done"

\* The events of one item: under one id, first added, at last done.
Tells(s, of, status, id) ==
  /\ \A k \in 1..Len(s) : s[k].of = of => status # "absent" /\ s[k].id = id
  /\ status # "absent" => \E k \in 1..Len(s) : Adds(s[k], of)
  /\ (status = "done" <=> \E k \in 1..Len(s) : Ends(s[k], of))
  /\ \A k \in 1..Len(s) : s[k].of = of =>
       /\ \E j \in 1..k : Adds(s[j], of)
       /\ \A j \in 1..(k - 1) : ~Ends(s[j], of)

Told(s, status, id) ==
  /\ IsSeq(s)
  /\ \A of \in Items : Tells(s, of, status[of], id[of])
  /\ \A k \in 1..Len(s) :
       s[k].of \in Items \/ (s[k].of = Response /\ s[k].type \in Framing)

\* What is left of a chunk's tool calls: each introduces the next call, or
\* adds to one that is known or comes earlier.
EarlierIn(ts, k, i) == \E j \in 1..(k - 1) : ts[j].index = i
Expected(ts, k, calls) ==
  LET tc == ts[k]
      known(i) == calls[i].known \/ EarlierIn(ts, k, i)
  IN /\ tc.index \in Index
     /\ \/ /\ ~known(tc.index)
           /\ \A i \in Index : i < tc.index => known(i)
           /\ tc.id \notin {None, <<>>} /\ tc.name \in Name
        \/ known(tc.index) /\ tc.id = None /\ tc.name = None

AllExpected(ts, calls) == \A k \in 1..Len(ts) : Expected(ts, k, calls)

\* How far the upstream and the translator are.
Progress ==
  /\ said \in [finish : {None} \cup Reason, usage : {None} \cup Usage, done : BOOLEAN]
  /\ said.finish = None => finish = None
  /\ finish # None => finish = said.finish
  /\ ~Ending => finish_reason = None /\ closing = {} /\ (msg_item_added <=> msg_id # 0)
  /\ Ending => finish_reason = said.finish /\ tools = <<>> /\ ~msg_item_added
  /\ said.finish # None => opened
  /\ said.done => Ending /\ closing = {}
  /\ said.done = completed
  /\ usage = said.usage

Introduced ==
  /\ \A i \in Index : (tool_calls[i].announced <=> tool_calls[i].known)
  /\ \A i \in Index : tool_calls[i].known => tool_calls[i].oai_id # <<>>
  /\ AllExpected(tools, tool_calls)

\* The completed response repeats the state, which no longer changes.
Completion ==
  /\ completed => \E k \in 1..Len(events) : events[k].type = "response.completed"
  /\ \A k \in 1..Len(events) : events[k].type = "response.completed" =>
       /\ events[k].status = IF finish_reason = "length" THEN "incomplete" ELSE "completed"
       /\ events[k].output = Output /\ events[k].usage = usage

ChatInv ==
  TextInv /\ Progress /\ Introduced /\ Completion /\ Told(events, Status, IdOf)

-----------------------------------------------------------------------------
(* Stories.                                                                *)

LEMMA TellsOther ==
  ASSUME NEW s, NEW e, NEW of, NEW status, NEW id,
         IsSeq(s), Tells(s, of, status, id), e.of # of
  PROVE  Tells(s \o <<e>>, of, status, id)
<1> DEFINE u == s \o <<e>>
           v == Len(s)
<1>1. v \in Nat /\ Len(u) = v + 1 /\ (\A k \in 1..v : u[k] = s[k]) /\ u[v + 1] = e
  BY OneMore
<1> HIDE DEF u
<1>2. \A k \in 1..Len(u) : (k \in 1..v /\ u[k] = s[k]) \/ u[k].of # of
  BY <1>1
<1>3. \A k \in 1..v : k \in 1..Len(u) /\ \A j \in 1..k : j \in 1..v
  BY <1>1
<1>4. status # "absent" => \E k \in 1..Len(u) : Adds(u[k], of)
  BY <1>1, <1>3 DEF Tells
<1>5. status = "done" <=> \E k \in 1..Len(u) : Ends(u[k], of)
  BY <1>1, <1>2, <1>3 DEF Tells, Ends
<1>6. ASSUME NEW k \in 1..Len(u), u[k].of = of
      PROVE  /\ status # "absent" /\ u[k].id = id /\ \E j \in 1..k : Adds(u[j], of)
             /\ \A j \in 1..(k - 1) : ~Ends(u[j], of)
  <2>1. k \in 1..v /\ u[k] = s[k]
    BY <1>2, <1>6
  <2>2. \A j \in 1..(k - 1) : j \in 1..k
    BY <2>1
  <2>3. QED
    BY <1>1, <1>3, <1>6, <2>1, <2>2 DEF Tells
<1>7. QED
  BY <1>4, <1>5, <1>6 DEF Tells, u

\* The next event of an item that is open, or its first.
StatusAfter(e) == IF e.type = "response.output_item.done" THEN "done" ELSE "open"

LEMMA TellsNext ==
  ASSUME NEW s, NEW e, NEW status, NEW id, IsSeq(s), Tells(s, e.of, status, id),
         \/ status = "open" /\ e.id = id
         \/ status = "absent" /\ e.type = "response.output_item.added"
  PROVE  Tells(s \o <<e>>, e.of, StatusAfter(e), e.id)
<1> DEFINE u == s \o <<e>>
           v == Len(s)
           of == e.of
<1>1. v \in Nat /\ Len(u) = v + 1 /\ (\A k \in 1..v : u[k] = s[k]) /\ u[v + 1] = e
  BY OneMore
<1> HIDE DEF u
<1>2. /\ \A k \in 1..Len(u) : (k \in 1..v /\ u[k] = s[k]) \/ (k = v + 1 /\ u[k] = e)
      /\ v + 1 \in 1..Len(u)
  BY <1>1
<1>3. \A k \in 1..v : k \in 1..Len(u) /\ k \in 1..(v + 1) /\ \A j \in 1..k : j \in 1..v
  BY <1>1
<1>4. \A k \in 1..v : ~Ends(s[k], of)
  BY DEF Tells
<1>5. \E k \in 1..(v + 1) : Adds(u[k], of)
  <2>1. CASE status = "open"
    <3>1. PICK k \in 1..v : Adds(s[k], of)
      BY <2>1 DEF Tells
    <3>2. QED
      BY <1>1, <1>3, <3>1
  <2>2. CASE status = "absent"
    BY <1>1, <1>2, <2>2 DEF Adds
  <2>3. QED
    BY <2>1, <2>2
<1>6. StatusAfter(e) = "done" <=> \E k \in 1..Len(u) : Ends(u[k], of)
  <2>1. CASE e.type = "response.output_item.done"
    BY <1>1, <1>2, <2>1 DEF Ends, StatusAfter
  <2>2. CASE e.type # "response.output_item.done"
    BY <1>2, <1>4, <2>2 DEF Ends, StatusAfter
  <2>3. QED
    BY <2>1, <2>2
<1>7. ASSUME NEW k \in 1..Len(u), u[k].of = of
      PROVE  /\ u[k].id = e.id /\ \E j \in 1..k : Adds(u[j], of)
             /\ \A j \in 1..(k - 1) : ~Ends(u[j], of)
  <2>1. CASE k \in 1..v /\ u[k] = s[k]
    <3>1. \A j \in 1..(k - 1) : j \in 1..k
      BY <2>1
    <3>2. status = "open" /\ s[k].id = id /\ \E j \in 1..k : Adds(s[j], of)
      BY <1>7, <2>1 DEF Tells
    <3>3. QED
      BY <1>1, <1>3, <1>4, <2>1, <3>1, <3>2
  <2>2. CASE k = v + 1 /\ u[k] = e
    <3>1. \A j \in 1..(k - 1) : j \in 1..v
      BY <1>1, <2>2
    <3>2. QED
      BY <1>1, <1>4, <1>5, <2>2, <3>1
  <2>3. QED
    BY <1>2, <2>1, <2>2
<1>8. Len(u) = v + 1 /\ StatusAfter(e) # "absent"
  BY <1>1 DEF StatusAfter
<1>9. QED
  BY <1>5, <1>6, <1>7, <1>8 DEF Tells, u

LEMMA ToldNext ==
  ASSUME NEW s, NEW e, NEW status, NEW id, NEW status2, NEW id2,
         Told(s, status, id), e.of \in Items,
         \/ status[e.of] = "open" /\ e.id = id[e.of]
         \/ status[e.of] = "absent" /\ e.type = "response.output_item.added",
         status2[e.of] = StatusAfter(e), id2[e.of] = e.id,
         \A of \in Items \ {e.of} : status2[of] = status[of] /\ id2[of] = id[of]
  PROVE  Told(s \o <<e>>, status2, id2)
<1> DEFINE u == s \o <<e>>
           v == Len(s)
<1>1. IsSeq(s)
  BY DEF Told
<1>2. /\ IsSeq(u) /\ v \in Nat /\ Len(u) = v + 1 /\ (\A k \in 1..v : u[k] = s[k])
      /\ u[v + 1] = e
  BY <1>1, OneMore
<1>3. ASSUME NEW of \in Items PROVE Tells(u, of, status2[of], id2[of])
  <2>1. Tells(s, of, status[of], id[of])
    BY DEF Told
  <2>2. CASE of = e.of
    <3>1. Tells(s, e.of, status[e.of], id[e.of])
      BY <2>1, <2>2
    <3>2. Tells(u, e.of, StatusAfter(e), e.id)
      BY <1>1, <3>1, TellsNext
    <3>3. QED
      BY <2>2, <3>2
  <2>3. CASE of # e.of
    <3>1. Tells(u, of, status[of], id[of])
      BY <1>1, <2>1, <2>3, TellsOther
    <3>2. status2[of] = status[of] /\ id2[of] = id[of]
      BY <2>3
    <3>3. QED
      BY <3>1, <3>2
  <2>4. QED
    BY <2>2, <2>3
<1> HIDE DEF u, v
<1>4. ASSUME NEW k \in 1..Len(u)
      PROVE  u[k].of \in Items \/ (u[k].of = Response /\ u[k].type \in Framing)
  <2>1. k \in 1..v \/ k = v + 1
    BY <1>2
  <2>2. QED
    BY <1>2, <2>1 DEF Told, v
<1>5. QED
  BY <1>2, <1>3, <1>4 DEF Told, u

\* Events of the response are of no item.
LEMMA ToldFraming ==
  ASSUME NEW s, NEW e, NEW status, NEW id,
         Told(s, status, id), e.of = Response, e.type \in Framing
  PROVE  Told(s \o <<e>>, status, id)
<1> DEFINE u == s \o <<e>>
           v == Len(s)
<1>1. IsSeq(s)
  BY DEF Told
<1>2. /\ IsSeq(u) /\ v \in Nat /\ Len(u) = v + 1 /\ (\A k \in 1..v : u[k] = s[k])
      /\ u[v + 1] = e
  BY <1>1, OneMore
<1>3. ASSUME NEW of \in Items PROVE Tells(u, of, status[of], id[of])
  <2>1. Tells(s, of, status[of], id[of])
    BY DEF Told
  <2>2. e.of # of
    BY NoIndex DEF Items
  <2>3. QED
    BY <1>1, <2>1, <2>2, TellsOther
<1> HIDE DEF u, v
<1>4. ASSUME NEW k \in 1..Len(u)
      PROVE  u[k].of \in Items \/ (u[k].of = Response /\ u[k].type \in Framing)
  <2>1. k \in 1..v \/ k = v + 1
    BY <1>2
  <2>2. QED
    BY <1>2, <2>1 DEF Told, v
<1>5. QED
  BY <1>2, <1>3, <1>4 DEF Told, u

\* What the functions say, item by item, before and after a step.
StateSays ==
  /\ Status[Message] = IF msg_id = 0 THEN "absent"
                       ELSE IF Ending /\ Message \notin closing THEN "done" ELSE "open"
  /\ IdOf[Message] = MsgId(msg_id)
  /\ \A i \in Index :
       /\ Status[i] = IF ~tool_calls[i].known THEN "absent"
                      ELSE IF Ending /\ i \notin closing THEN "done" ELSE "open"
       /\ IdOf[i] = tool_calls[i].oai_id

LEMMA StateOf == StateSays /\ StateSays'
<1>1. Message \in Items /\ Message \notin Index /\ \A i \in Index : i \in Items /\ i # Message
  BY NoIndex DEF Items
<1>2. StateSays
  BY <1>1 DEF StateSays, Status, IdOf, IsThere
<1>3. StateSays'
  BY <1>1 DEF StateSays, Status, IdOf, IsThere
<1>4. QED
  BY <1>2, <1>3

\* Nothing is told of the state but this.
LEMMA ToldSame ==
  ASSUME NEW s, NEW status, NEW id, NEW status2, NEW id2, Told(s, status, id),
         \A of \in Items : status2[of] = status[of] /\ id2[of] = id[of]
  PROVE  Told(s, status2, id2)
BY DEF Told

\* Events one after the other.
LEMMA Pair ==
  ASSUME NEW a, NEW b, NEW S, NEW t \in Seq(S), Len(t) = 2, t[1] = a, t[2] = b
  PROVE  t = <<a, b>>
OBVIOUS

LEMMA Triple ==
  ASSUME NEW a, NEW b, NEW c, NEW S, NEW t \in Seq(S), Len(t) = 3,
         t[1] = a, t[2] = b, t[3] = c
  PROVE  t = <<a, b, c>>
OBVIOUS

LEMMA NoneMore ==
  ASSUME NEW s, IsSeq(s)
  PROVE  s \o <<>> = s
BY ConcatEmptySeq DEF IsSeq

LEMMA TwoMore ==
  ASSUME NEW s, IsSeq(s), NEW a, NEW b
  PROVE  s \o <<a, b>> = (s \o <<a>>) \o <<b>>
<1>1. PICK T : s \in Seq(T)
  BY DEF IsSeq
<1> DEFINE S == T \cup {a, b}
           x == <<a>>
           y == <<b>>
<1>2. s \in Seq(S) /\ x \in Seq(S) /\ y \in Seq(S)
  BY <1>1
<1>3. Len(x) = 1 /\ Len(y) = 1 /\ x[1] = a /\ y[1] = b
  OBVIOUS
<1> HIDE DEF S, x, y
<1>4. x \o y \in Seq(S) /\ Len(x \o y) = 2 /\ (x \o y)[1] = a /\ (x \o y)[2] = b
  <2> DEFINE z == x \o y
  <2>1. /\ z \in Seq(S) /\ Len(z) = Len(x) + Len(y)
        /\ \A i \in 1..(Len(x) + Len(y)) : z[i] = IF i <= Len(x) THEN x[i] ELSE y[i - Len(x)]
    BY <1>2, ConcatProperties
  <2> HIDE DEF z
  <2>2. QED
    BY <1>3, <2>1 DEF z
<1>5. x \o y = <<a, b>>
  BY <1>4, Pair
<1>6. (s \o x) \o y = s \o (x \o y)
  BY <1>2, ConcatAssociative
<1>7. QED
  BY <1>5, <1>6 DEF x, y

LEMMA ThreeMore ==
  ASSUME NEW s, IsSeq(s), NEW a, NEW b, NEW c
  PROVE  s \o <<a, b, c>> = ((s \o <<a>>) \o <<b>>) \o <<c>>
<1>1. PICK T : s \in Seq(T)
  BY DEF IsSeq
<1> DEFINE S == T \cup {a, b, c}
           x == <<a, b>>
           y == <<c>>
<1>2. s \in Seq(S) /\ x \in Seq(S) /\ y \in Seq(S)
  BY <1>1
<1>3. Len(x) = 2 /\ Len(y) = 1 /\ x[1] = a /\ x[2] = b /\ y[1] = c
  OBVIOUS
<1> HIDE DEF S, x, y
<1>4. /\ x \o y \in Seq(S) /\ Len(x \o y) = 3
      /\ (x \o y)[1] = a /\ (x \o y)[2] = b /\ (x \o y)[3] = c
  <2> DEFINE z == x \o y
  <2>1. /\ z \in Seq(S) /\ Len(z) = Len(x) + Len(y)
        /\ \A i \in 1..(Len(x) + Len(y)) : z[i] = IF i <= Len(x) THEN x[i] ELSE y[i - Len(x)]
    BY <1>2, ConcatProperties
  <2> HIDE DEF z
  <2>2. QED
    BY <1>3, <2>1 DEF z
<1>5. x \o y = <<a, b, c>>
  BY <1>4, Triple
<1>6. (s \o x) \o y = s \o (x \o y)
  BY <1>2, ConcatAssociative
<1>7. s \o x = (s \o <<a>>) \o <<b>>
  BY TwoMore DEF x
<1>8. QED
  BY <1>5, <1>6, <1>7 DEF y

-----------------------------------------------------------------------------
(* The steps.                                                              *)

LEMMA ChatIsNext == [ChatNext]_<<vars, said>> => [Next]_vars
BY DEF ChatNext, Next, Line, Finishing

LEMMA InitChat == ChatInit => ChatInv
<1> SUFFICES ASSUME ChatInit PROVE ChatInv
  OBVIOUS
<1>1. TextInv
  BY InitText DEF ChatInit
<1>2. Progress
  BY DEF ChatInit, Init, Progress, Ending
<1>3. Len(<<>>) = 0 /\ IsSeq(<<>>)
  BY Short
<1>4. \A i \in Index : ~tool_calls[i].known /\ ~tool_calls[i].announced
  <2>1. ~NoCall.known /\ ~NoCall.announced
    BY DEF NoCall
  <2>2. QED
    BY <2>1 DEF ChatInit, Init
<1>5. Introduced
  <2>1. \A i \in Index : ~tool_calls[i].known /\ ~tool_calls[i].announced
    BY <1>4
  <2>2. tools = <<>> /\ Len(tools) = 0
    BY <1>3 DEF ChatInit, Init
  <2>3. AllExpected(tools, tool_calls)
    BY <2>2 DEF AllExpected
  <2>4. QED
    BY <2>1, <2>3 DEF Introduced
<1>6. Completion
  BY <1>3 DEF ChatInit, Init, Completion
<1>7. Told(events, Status, IdOf)
  <2>1. \A of \in Items : Status[of] = "absent"
    BY <1>4, StateOf DEF ChatInit, Init, Items, StateSays
  <2>2. events = <<>>
    BY DEF ChatInit, Init
  <2>3. QED
    BY <1>3, <2>1, <2>2 DEF Told, Tells
<1>8. QED
  BY <1>1, <1>2, <1>5, <1>6, <1>7 DEF ChatInv

\* A chunk with a choice.
LEMMA ChunkChat ==
  ASSUME ChatInv, TextInv', NEW c \in Chunks, WellFormed(c), Says(c), ChunkLine(c)
  PROVE  ChatInv'
<1> DEFINE adds  == ~msg_item_added /\ (c.content # None \/ c.array)
           msg   == IF adds THEN msg_id + 1 ELSE msg_id
           at    == IF adds THEN seq + 2 ELSE seq
           d     == Event("response.output_text.delta", at, Message, 0,
                          MsgId(msg), <<c.content>>)
           delta == IF c.content = None THEN <<>> ELSE <<d>>
           a     == Event("response.output_item.added", seq, Message, 0, MsgId(msg), <<>>)
           b     == Event("response.content_part.added", seq + 1, Message, 0, MsgId(msg), <<>>)
           added == IF adds THEN <<a, b>> ELSE <<>>
           x     == Event("response.created", Unnumbered, Response, 0, <<>>, <<>>)
           y     == Event("response.in_progress", Unnumbered, Response, 0, <<>>, <<>>)
           s     == events \o Opening
           r     == s \o added
<1>1. /\ Reading /\ c.choice /\ events' = r \o delta /\ msg_id' = msg
      /\ msg_item_added' = (msg_item_added \/ adds) /\ opened' = TRUE
      /\ usage' = IF c.usage = None THEN usage ELSE c.usage
      /\ tools' = c.tools /\ finish' = c.finish
      /\ UNCHANGED <<tool_calls, finish_reason, completed, done, closing>>
  BY DEF ChunkLine, MessageAdded
<1>2. /\ TextInv /\ Progress /\ Introduced /\ Told(events, Status, IdOf)
      /\ TypeOK /\ MessageFirst
  BY DEF ChatInv, TextInv, ShapeInv
<1>3. /\ said.finish = None /\ ~Ending /\ closing = {} /\ finish_reason = None
      /\ ~said.done /\ ~completed /\ (msg_item_added <=> msg_id # 0)
      /\ \A k \in DOMAIN c.tools : Introduces(c, k) \/ AddsTo(c, k)
  BY <1>1, <1>2 DEF WellFormed, Progress, Ending
<1>4. /\ c.finish \in {None} \cup Reason /\ c.usage \in {None} \cup Usage
      /\ c.tools \in Seq(ToolDelta) /\ (c.content # None => c.content \in Token)
  BY SseAssumption DEF Chunk
<1>5. said' = [said EXCEPT !.finish = IF c.finish # None THEN c.finish ELSE @,
                           !.usage = IF c.usage # None THEN c.usage ELSE @]
  BY <1>1 DEF Says
<1>6. /\ said' \in [finish : {None} \cup Reason, usage : {None} \cup Usage, done : BOOLEAN]
      /\ said'.finish = c.finish /\ said'.done = said.done
      /\ said'.usage = IF c.usage # None THEN c.usage ELSE said.usage
  BY <1>2, <1>3, <1>4, <1>5 DEF Progress
<1>7. msg_id \in Nat
  BY <1>2 DEF TypeOK
<1>8. Progress'
  <2>1. msg_item_added' <=> msg_id' # 0
    <3>1. CASE adds
      <4>1. msg # 0
        BY <1>7, <3>1
      <4> HIDE DEF adds, msg
      <4>2. QED
        BY <1>1, <3>1, <4>1
    <3>2. CASE ~adds
      BY <1>1, <1>3, <3>2
    <3>3. QED
      BY <3>1, <3>2
  <2>2. ~Ending'
    BY <1>1, <1>6 DEF Ending
  <2>3. QED
    BY <1>1, <1>2, <1>3, <1>6, <2>1, <2>2 DEF Progress, Ending
<1>9. Introduced'
  <2>1. \A k \in 1..Len(c.tools) : Expected(c.tools, k, tool_calls)
    <3> SUFFICES ASSUME NEW k \in 1..Len(c.tools) PROVE Expected(c.tools, k, tool_calls)
      OBVIOUS
    <3>1. Introduces(c, k) \/ AddsTo(c, k)
      BY <1>3, <1>4
    <3>2. \A i \in Index : i \in Known <=> tool_calls[i].known
      BY DEF Known
    <3>3. \A i : Earlier(c, k, i) # {} <=> EarlierIn(c.tools, k, i)
      BY DEF Earlier, EarlierIn
    <3>4. CASE Introduces(c, k)
      BY <3>2, <3>3, <3>4 DEF Introduces, Expected
    <3>5. CASE AddsTo(c, k)
      BY <3>2, <3>3, <3>5 DEF AddsTo, Expected
    <3>6. QED
      BY <3>1, <3>4, <3>5
  <2>2. QED
    BY <1>1, <1>2, <2>1 DEF Introduced, AllExpected
<1>10. Completion'
  <2>1. ~completed' /\ FramedIn(events', opened', completed')
    BY <1>1, <1>3 DEF TextInv, ShapeInv, GoodIn
  <2>2. \A k \in 1..Len(events') : events'[k].type # "response.completed"
    BY <2>1 DEF FramedIn
  <2>3. QED
    BY <2>1, <2>2 DEF Completion
<1>11. Told(events', Status', IdOf')
  <2>1. /\ x.of = Response /\ x.type \in Framing /\ y.of = Response /\ y.type \in Framing
    BY DEF Event, Framing
  <2>2. /\ a.of = Message /\ a.type = "response.output_item.added" /\ a.id = MsgId(msg)
        /\ b.of = Message /\ b.type # "response.output_item.done" /\ b.id = MsgId(msg)
        /\ d.of = Message /\ d.type # "response.output_item.done" /\ d.id = MsgId(msg)
    BY DEF Event
  <2>3. Opening = <<>> \/ Opening = <<x, y>>
    BY DEF Opening
  <2> HIDE DEF a, b, d, x, y
  <2>4. Told(s, Status, IdOf) /\ IsSeq(s)
    <3>1. Told(events \o <<x>>, Status, IdOf)
      BY <1>2, <2>1, ToldFraming
    <3>2. Told((events \o <<x>>) \o <<y>>, Status, IdOf)
      BY <2>1, <3>1, ToldFraming
    <3>3. IsSeq(events)
      BY <1>2 DEF Told
    <3>4. events \o <<>> = events /\ events \o <<x, y>> = (events \o <<x>>) \o <<y>>
      BY <3>3, NoneMore, TwoMore
    <3>5. Told(s, Status, IdOf)
      BY <1>2, <2>3, <3>2, <3>4
    <3>6. QED
      BY <3>5 DEF Told
  <2> HIDE DEF s
  <2>5. /\ Status[Message] = IF msg_id = 0 THEN "absent" ELSE "open"
        /\ IdOf[Message] = MsgId(msg_id) /\ IdOf'[Message] = MsgId(msg)
        /\ Status'[Message] = IF msg = 0 THEN "absent" ELSE "open"
        /\ Message \in Items
        /\ \A of \in Items \ {Message} : Status'[of] = Status[of] /\ IdOf'[of] = IdOf[of]
    <3>1. ~Ending /\ ~Ending'
      BY <1>1, <1>3, <1>6 DEF Ending
    <3>2. Message \in Items /\ \A of \in Items \ {Message} : of \in Index
      BY DEF Items
    <3>3. QED
      BY <1>1, <3>1, <3>2, StateOf DEF StateSays
  <2>6. Told(r, Status', IdOf') /\ IsSeq(r)
    <3>1. CASE adds
      <4>1. msg_id = 0 /\ msg # 0 /\ r = s \o <<a, b>>
        BY <1>3, <1>7, <3>1
      <4> HIDE DEF msg, adds
      <4>2. StatusAfter(a) = "open" /\ StatusAfter(b) = "open"
        BY <2>2 DEF StatusAfter
      <4>3. Told(s \o <<a>>, Status', IdOf')
        BY <2>2, <2>4, <2>5, <4>1, <4>2, ToldNext
      <4>4. Told((s \o <<a>>) \o <<b>>, Status', IdOf')
        BY <2>2, <2>5, <4>1, <4>2, <4>3, ToldNext
      <4>5. r = (s \o <<a>>) \o <<b>>
        BY <2>4, <4>1, TwoMore
      <4>6. QED
        BY <4>4, <4>5 DEF Told
    <3>2. CASE ~adds
      <4>1. r = s /\ msg = msg_id
        BY <2>4, <3>2, NoneMore
      <4>2. \A of \in Items : Status'[of] = Status[of] /\ IdOf'[of] = IdOf[of]
        BY <2>5, <4>1
      <4>3. Told(s, Status', IdOf')
        BY <2>4, <4>2, ToldSame
      <4>4. QED
        BY <2>4, <4>1, <4>3
    <3>3. QED
      BY <3>1, <3>2
  <2>7. c.content # None => msg # 0
    BY <1>3, <1>7
  <2> HIDE DEF r, msg
  <2>8. CASE c.content = None
    BY <1>1, <2>6, <2>8, NoneMore
  <2>9. CASE c.content # None
    <3>1. StatusAfter(d) = "open"
      BY <2>2 DEF StatusAfter
    <3>2. Told(r \o <<d>>, Status', IdOf')
      BY <2>2, <2>5, <2>6, <2>7, <2>9, <3>1, ToldNext
    <3>3. QED
      BY <1>1, <2>9, <3>2
  <2>10. QED
    BY <2>8, <2>9
<1>12. QED
  BY <1>8, <1>9, <1>10, <1>11 DEF ChatInv

\* A step that leaves the items alone.
LEMMA SameStory ==
  ASSUME Told(events, Status, IdOf),
         UNCHANGED <<events, msg_id, tool_calls, closing>>, Ending' <=> Ending
  PROVE  Told(events', Status', IdOf')
<1>1. \A of \in Items : Status'[of] = Status[of] /\ IdOf'[of] = IdOf[of]
  BY DEF Status, IdOf, IsThere
<1>2. Told(events, Status', IdOf')
  BY <1>1, ToldSame
<1>3. QED
  BY <1>2

\* A chunk without a choice.
LEMMA UsageChat ==
  ASSUME ChatInv, TextInv', NEW c \in Chunks, WellFormed(c), Says(c), UsageLine(c)
  PROVE  ChatInv'
<1>1. /\ ~c.choice /\ usage' = IF c.usage = None THEN usage ELSE c.usage
      /\ UNCHANGED <<msg_id, opened, msg_item_added, text_acc, tool_calls, finish_reason,
                     completed, done, tools, finish, closing, events>>
  BY DEF UsageLine
<1>2. Progress /\ Introduced /\ Completion /\ Told(events, Status, IdOf) /\ TextInv
  BY DEF ChatInv
<1>3. said.finish # None /\ ~said.done
  BY <1>1 DEF WellFormed
<1>4. c.usage \in {None} \cup Usage
  BY SseAssumption DEF Chunk
<1>5. /\ said' \in [finish : {None} \cup Reason, usage : {None} \cup Usage, done : BOOLEAN]
      /\ said'.finish = said.finish /\ said'.done = said.done
      /\ said'.usage = IF c.usage # None THEN c.usage ELSE said.usage
  BY <1>1, <1>2, <1>4 DEF Progress, Says
<1>6. Ending' <=> Ending
  BY <1>1, <1>5 DEF Ending
<1>7. Progress'
  BY <1>1, <1>2, <1>5, <1>6 DEF Progress
<1>8. Introduced'
  BY <1>1, <1>2 DEF Introduced
<1>9. Completion'
  <2>1. ~completed' /\ FramedIn(events', opened', completed')
    BY <1>1, <1>2, <1>3 DEF Progress, TextInv, ShapeInv, GoodIn
  <2>2. \A k \in 1..Len(events') : events'[k].type # "response.completed"
    BY <2>1 DEF FramedIn
  <2>3. QED
    BY <2>1, <2>2 DEF Completion
<1>10. Told(events', Status', IdOf')
  BY <1>1, <1>2, <1>6, SameStory
<1>11. QED
  BY <1>7, <1>8, <1>9, <1>10 DEF ChatInv

\* The one [DONE] repeats the state.
LEMMA DoneChat ==
  ASSUME ChatInv, TextInv', said.finish # None, ~said.done,
         said' = [said EXCEPT !.done = TRUE], DoneLine
  PROVE  ChatInv'
<1> DEFINE e == [type |-> "response.completed", seq |-> Unnumbered, of |-> Response,
                 status |-> IF finish_reason = "length" THEN "incomplete" ELSE "completed",
                 output |-> Output, usage |-> usage]
<1>1. Progress /\ Introduced /\ Completion /\ Told(events, Status, IdOf) /\ TextInv
  BY DEF ChatInv
<1>2. /\ said' \in [finish : {None} \cup Reason, usage : {None} \cup Usage, done : BOOLEAN]
      /\ said'.finish = said.finish /\ said'.usage = said.usage /\ said'.done
  BY <1>1 DEF Progress
<1>3. ~completed
  BY <1>1 DEF Progress
<1>4. /\ Reading /\ events' = Append(events, e) /\ completed' = TRUE
      /\ UNCHANGED <<seq, msg_id, opened, msg_item_added, text_acc, tool_calls,
                     usage, finish_reason, done, tools, finish, closing>>
  BY <1>3 DEF DoneLine
<1>5. /\ e.type = "response.completed" /\ e.of = Response
      /\ e.status = IF finish_reason = "length" THEN "incomplete" ELSE "completed"
      /\ e.output = Output /\ e.usage = usage
  OBVIOUS
<1> HIDE DEF e
<1>6. events' = events \o <<e>> /\ IsSeq(events)
  <2>1. PICK S : events \in Seq(S)
    BY <1>1 DEF IsSeq, Told
  <2>2. events \in Seq(S \cup {e}) /\ e \in S \cup {e}
    BY <2>1
  <2>3. QED
    BY <1>4, <2>1, <2>2, AppendIsConcat DEF IsSeq
<1>7. Ending /\ closing = {} /\ (Ending' <=> Ending)
  BY <1>2, <1>4 DEF Ending, Reading, Idle
<1>8. Progress'
  BY <1>1, <1>2, <1>4, <1>7 DEF Progress
<1>9. Introduced'
  BY <1>1, <1>4 DEF Introduced
<1>10. Completion'
  <2>1. \A k \in 1..Len(events) : events[k].type # "response.completed"
    BY <1>1, <1>3 DEF TextInv, ShapeInv, GoodIn, FramedIn
  <2>2. /\ Len(events) \in Nat /\ Len(events') = Len(events) + 1
        /\ \A k \in 1..Len(events) : events'[k] = events[k]
        /\ events'[Len(events) + 1] = e
    BY <1>6, OneMore
  <2>3. /\ Len(events) + 1 \in 1..Len(events')
        /\ \A k \in 1..Len(events') : k \in 1..Len(events) \/ k = Len(events) + 1
    BY <2>2
  <2>4. Output' = Output
    BY <1>4 DEF Output
  <2>5. \A k \in 1..Len(events') : events'[k].type = "response.completed" => events'[k] = e
    BY <2>1, <2>2, <2>3
  <2>6. QED
    BY <1>4, <1>5, <2>2, <2>3, <2>4, <2>5 DEF Completion
<1>11. Told(events', Status', IdOf')
  <2>1. Told(events \o <<e>>, Status, IdOf)
    BY <1>1, <1>5, ToldFraming DEF Framing
  <2>2. \A of \in Items : Status'[of] = Status[of] /\ IdOf'[of] = IdOf[of]
    BY <1>4, <1>7 DEF Status, IdOf, IsThere
  <2>3. Told(events \o <<e>>, Status', IdOf')
    BY <2>1, <2>2, ToldSame
  <2>4. QED
    BY <1>6, <2>3
<1>12. QED
  BY <1>8, <1>9, <1>10, <1>11 DEF ChatInv

\* What the next delta of a chunk does to its call.
NextDelta == Head(tools)
NextIndex == ToolIndex(NextDelta)
NextCall  == CallAfter(tool_calls[NextIndex], NextDelta)
NextCalls ==
  [tool_calls EXCEPT
     ![NextIndex] = [NextCall EXCEPT !.announced = @ \/ ShouldAnnounce(NextCall, NextDelta)]]

\* It announces a new call at once, and a known one not again.
LEMMA NextOfChunk ==
  ASSUME TypeOK, Introduced, tools # <<>>
  PROVE  LET i == NextIndex
             new == ShouldAnnounce(NextCall, NextDelta)
         IN /\ i \in Index /\ NextCalls[i].known /\ NextCalls[i].announced
            /\ NextCalls[i].oai_id = NextCall.oai_id /\ NextCall.oai_id # <<>>
            /\ (new <=> ~tool_calls[i].known)
            /\ new => \A j \in Index : j < i => tool_calls[j].known
            /\ ~new => NextCall.oai_id = tool_calls[i].oai_id
            /\ \A j \in Index \ {i} : NextCalls[j] = tool_calls[j]
<1> DEFINE tc   == NextDelta
           i    == NextIndex
           old  == tool_calls[i]
           call == NextCall
           ann  == ShouldAnnounce(NextCall, NextDelta)
<1>1. tools \in Seq(ToolDelta) /\ tool_calls \in [Index -> Call]
  BY DEF TypeOK
<1>2. Len(tools) \in Nat /\ 1 \in 1..Len(tools) /\ tc = tools[1] /\ tc \in ToolDelta
  BY <1>1, HeadTailProperties DEF NextDelta
<1>3. i \in Index /\ old \in Call /\ call \in Call /\ call.known
      /\ call.announced = old.announced
  <2>1. i \in Index
    BY <1>2, SseAssumption DEF NextIndex, ToolIndex, ToolDelta
  <2>2. old \in Call
    BY <1>1, <2>1
  <2>3. call = CallAfter(old, tc)
    BY DEF NextCall
  <2> HIDE DEF call, old, tc, i
  <2>4. QED
    BY <1>2, <2>1, <2>2, <2>3, CallType
<1>4. ~EarlierIn(tools, 1, tc.index)
  BY DEF EarlierIn
<1>5. Expected(tools, 1, tool_calls)
  BY <1>2 DEF Introduced, AllExpected
<1>6. tc.index = i
  <2>1. tc.index \in Index
    BY <1>2, <1>5 DEF Expected
  <2>2. tc.index # None
    BY <2>1, SseAssumption
  <2>3. QED
    BY <2>2 DEF NextIndex, ToolIndex
<1>7. \/ /\ ~old.known /\ (\A j \in Index : j < i => tool_calls[j].known)
         /\ tc.id \notin {None, <<>>} /\ tc.name \in Name
      \/ old.known /\ tc.id = None /\ tc.name = None
  <2>1. \A j : ~EarlierIn(tools, 1, j)
    BY DEF EarlierIn
  <2>2. QED
    BY <1>2, <1>5, <1>6, <2>1 DEF Expected
<1>8. (old.announced <=> old.known) /\ (old.known => old.oai_id # <<>>)
  BY <1>3 DEF Introduced
<1>9. /\ call.oai_id = LET first == IF old.known THEN old.oai_id
                                    ELSE IF tc.id # None THEN tc.id ELSE <<"gen", ToolIndex(tc)>>
                       IN IF first = <<>> /\ tc.id # None THEN tc.id ELSE first
      /\ call.name = IF tc.name \notin {None, ""} THEN tc.name ELSE old.name
  BY DEF NextCall, CallAfter
<1>10. None \notin Name /\ "" \notin Name
  BY SseAssumption
<1> HIDE DEF tc, i, call, old
<1>11. ann <=> ~old.announced /\ call.oai_id # <<>> /\ (call.name # "" \/ tc.name # None)
  BY <1>3 DEF ShouldAnnounce, call, tc
<1>12. /\ call.oai_id # <<>>
       /\ (ann <=> ~old.known)
       /\ ann => \A j \in Index : j < i => tool_calls[j].known
       /\ ~ann => call.oai_id = old.oai_id
  <2>1. CASE ~old.known
    <3>1. call.oai_id = tc.id /\ call.oai_id # <<>> /\ call.name # ""
      BY <1>7, <1>9, <1>10, <2>1
    <3>2. QED
      BY <1>7, <1>8, <1>11, <2>1, <3>1
  <2>2. CASE old.known
    <3>1. call.oai_id = old.oai_id /\ call.oai_id # <<>>
      BY <1>7, <1>8, <1>9, <2>2
    <3>2. QED
      BY <1>7, <1>8, <1>11, <2>2, <3>1
  <2>3. QED
    BY <2>1, <2>2
<1>13. /\ NextCalls[i] = [call EXCEPT !.announced = @ \/ ann]
       /\ \A j \in Index \ {i} : NextCalls[j] = tool_calls[j]
  BY <1>1, <1>3 DEF NextCalls, call, i
<1>14. /\ NextCalls[i].known = call.known /\ NextCalls[i].oai_id = call.oai_id
       /\ NextCalls[i].announced = (call.announced \/ ann)
  BY <1>3, <1>13 DEF Call
<1>15. NextCalls[i].announced
  BY <1>3, <1>8, <1>12, <1>14
<1>16. QED
  BY <1>3, <1>12, <1>13, <1>14, <1>15 DEF call, i, old

LEMMA RestOfChunk ==
  ASSUME TypeOK, Introduced, tools # <<>>
  PROVE  AllExpected(Tail(tools), NextCalls)
<1> DEFINE ts == Tail(tools)
           i  == NextIndex
<1>1. tools \in Seq(ToolDelta)
  BY DEF TypeOK
<1>2. /\ ts \in Seq(ToolDelta) /\ Len(tools) \in Nat /\ Len(ts) = Len(tools) - 1
      /\ \A k \in 1..Len(ts) : ts[k] = tools[k + 1]
      /\ 1 \in 1..Len(tools) /\ tools[1] = NextDelta
  BY <1>1, HeadTailProperties DEF NextDelta
<1>3. Expected(tools, 1, tool_calls)
  BY <1>2 DEF Introduced, AllExpected
<1>4. tools[1].index = i
  <2>1. tools[1].index \in Index
    BY <1>3 DEF Expected
  <2>2. tools[1].index # None
    BY <2>1, SseAssumption
  <2>3. QED
    BY <1>2, <2>2 DEF NextIndex, ToolIndex
<1>5. i \in Index /\ NextCalls[i].known /\ \A j \in Index \ {i} : NextCalls[j] = tool_calls[j]
  BY NextOfChunk
<1> HIDE DEF ts, i
<1> SUFFICES ASSUME NEW k \in 1..Len(ts) PROVE Expected(ts, k, NextCalls)
  BY DEF AllExpected, ts
<1>6. ts[k] = tools[k + 1] /\ k + 1 \in 1..Len(tools) /\ Expected(tools, k + 1, tool_calls)
  BY <1>2 DEF Introduced, AllExpected
<1>7. \A h : EarlierIn(tools, k + 1, h) <=> i = h \/ EarlierIn(ts, k, h)
  <2> SUFFICES ASSUME NEW h
               PROVE EarlierIn(tools, k + 1, h) <=> i = h \/ EarlierIn(ts, k, h)
    OBVIOUS
  <2>1. ASSUME EarlierIn(tools, k + 1, h) PROVE i = h \/ EarlierIn(ts, k, h)
    <3>1. PICK j \in 1..k : tools[j].index = h
      BY <1>2, <2>1 DEF EarlierIn
    <3>2. CASE j = 1
      BY <1>4, <3>1, <3>2
    <3>3. CASE j # 1
      <4>1. j - 1 \in 1..(k - 1) /\ j - 1 \in 1..Len(ts) /\ (j - 1) + 1 = j
        BY <1>2, <3>3
      <4>2. ts[j - 1] = tools[j]
        BY <1>2, <4>1
      <4>3. QED
        BY <3>1, <4>1, <4>2 DEF EarlierIn
    <3>4. QED
      BY <3>2, <3>3
  <2>2. ASSUME EarlierIn(ts, k, h) PROVE EarlierIn(tools, k + 1, h)
    <3>1. PICK j \in 1..(k - 1) : ts[j].index = h
      BY <2>2 DEF EarlierIn
    <3>2. j \in 1..Len(ts) /\ j + 1 \in 1..((k + 1) - 1)
      BY <1>2
    <3>3. tools[j + 1].index = h
      BY <1>2, <3>1, <3>2
    <3>4. QED
      BY <3>2, <3>3 DEF EarlierIn
  <2>3. ASSUME i = h PROVE EarlierIn(tools, k + 1, h)
    <3>1. 1 \in 1..((k + 1) - 1)
      BY <1>2
    <3>2. QED
      BY <1>4, <2>3, <3>1 DEF EarlierIn
  <2>4. QED
    BY <2>1, <2>2, <2>3
<1>8. \A h \in Index : NextCalls[h].known \/ EarlierIn(ts, k, h)
                         <=> tool_calls[h].known \/ EarlierIn(tools, k + 1, h)
  <2> SUFFICES ASSUME NEW h \in Index
               PROVE NextCalls[h].known \/ EarlierIn(ts, k, h)
                         <=> tool_calls[h].known \/ EarlierIn(tools, k + 1, h)
    OBVIOUS
  <2>1. CASE h = i
    BY <1>5, <1>7, <2>1
  <2>2. CASE h # i
    BY <1>5, <1>7, <2>2
  <2>3. QED
    BY <2>1, <2>2
<1>9. tools[k + 1].index \in Index
  BY <1>6 DEF Expected
<1>10. QED
  BY <1>6, <1>8, <1>9 DEF Expected

\* The next delta of the chunk.
LEMMA DeltaChat ==
  ASSUME ChatInv, TextInv', UNCHANGED said, HandleToolCallDelta
  PROVE  ChatInv'
<1> DEFINE tc   == NextDelta
           i    == NextIndex
           call == NextCall
           ann  == ShouldAnnounce(NextCall, NextDelta)
           at   == OutputIndex(i, msg_id)
           a    == Event("response.output_item.added", seq, i, at, call.oai_id, <<call.name>>)
           item == IF ~ann THEN <<>> ELSE <<a>>
           d    == Event("response.function_call_arguments.delta",
                         seq + Len(item), i, at, call.oai_id, <<tc.args>>)
           args == IF tc.args = None THEN <<>> ELSE <<d>>
           r    == events \o item
<1>1. /\ tools # <<>> /\ tool_calls' = NextCalls /\ tools' = Tail(tools)
      /\ events' = r \o args
      /\ UNCHANGED <<msg_id, opened, msg_item_added, text_acc, usage, finish_reason,
                     completed, done, finish, closing>>
  BY DEF HandleToolCallDelta, NextCalls, NextCall, NextIndex, NextDelta
<1>2. Progress /\ Introduced /\ Told(events, Status, IdOf) /\ TypeOK
  BY DEF ChatInv, TextInv, ShapeInv
<1>3. ~Ending /\ ~Ending' /\ ~completed
  BY <1>1, <1>2 DEF Progress, Ending
<1>4. /\ i \in Index /\ NextCalls[i].known /\ NextCalls[i].announced
      /\ NextCalls[i].oai_id = call.oai_id /\ call.oai_id # <<>>
      /\ (ann <=> ~tool_calls[i].known)
      /\ ~ann => call.oai_id = tool_calls[i].oai_id
      /\ \A j \in Index \ {i} : NextCalls[j] = tool_calls[j]
  BY <1>1, <1>2, NextOfChunk
<1>5. Progress'
  BY <1>1, <1>2, <1>3 DEF Progress, Ending
<1>6. Introduced'
  <2>1. AllExpected(Tail(tools), NextCalls)
    BY <1>1, <1>2, RestOfChunk
  <2>2. ASSUME NEW j \in Index
        PROVE  /\ (NextCalls[j].announced <=> NextCalls[j].known)
               /\ NextCalls[j].known => NextCalls[j].oai_id # <<>>
    <3>1. CASE j = i
      BY <1>4, <3>1
    <3>2. CASE j # i
      BY <1>2, <1>4, <3>2 DEF Introduced
    <3>3. QED
      BY <3>1, <3>2
  <2>3. QED
    BY <1>1, <2>1, <2>2 DEF Introduced
<1>7. Completion'
  <2>1. ~completed' /\ FramedIn(events', opened', completed')
    BY <1>1, <1>3 DEF TextInv, ShapeInv, GoodIn
  <2>2. \A k \in 1..Len(events') : events'[k].type # "response.completed"
    BY <2>1 DEF FramedIn
  <2>3. QED
    BY <2>1, <2>2 DEF Completion
<1>8. Told(events', Status', IdOf')
  <2>1. /\ a.of = i /\ a.type = "response.output_item.added" /\ a.id = call.oai_id
        /\ d.of = i /\ d.id = call.oai_id /\ StatusAfter(a) = "open" /\ StatusAfter(d) = "open"
    BY DEF Event, StatusAfter
  <2>2. /\ Status[i] = IF ~tool_calls[i].known THEN "absent" ELSE "open"
        /\ IdOf[i] = tool_calls[i].oai_id
        /\ Status'[i] = "open" /\ IdOf'[i] = call.oai_id
        /\ i \in Items
        /\ \A of \in Items \ {i} : Status'[of] = Status[of] /\ IdOf'[of] = IdOf[of]
    <3>1. i \in Items
      BY <1>4 DEF Items
    <3>2. /\ Status[i] = IF ~tool_calls[i].known THEN "absent" ELSE "open"
          /\ IdOf[i] = tool_calls[i].oai_id
      BY <1>3, <1>4, StateOf DEF StateSays
    <3>3. Status'[i] = "open" /\ IdOf'[i] = call.oai_id
      BY <1>1, <1>3, <1>4, StateOf DEF StateSays
    <3>4. ASSUME NEW of \in Items \ {i}
          PROVE  Status'[of] = Status[of] /\ IdOf'[of] = IdOf[of]
      <4>1. CASE of = Message
        BY <1>1, <1>3, <4>1, StateOf DEF StateSays
      <4>2. CASE of # Message
        <5>1. of \in Index /\ NextCalls[of] = tool_calls[of]
          BY <1>4, <4>2 DEF Items
        <5>2. QED
          BY <1>1, <1>3, <5>1, StateOf DEF StateSays
      <4>3. QED
        BY <4>1, <4>2
    <3>5. QED
      BY <3>1, <3>2, <3>3, <3>4
  <2> HIDE DEF a, d, ann, call, i, tc
  <2>3. Told(r, Status', IdOf')
    <3>1. CASE ann
      <4>1. Told(events \o <<a>>, Status', IdOf')
        BY <1>2, <1>4, <2>1, <2>2, <3>1, ToldNext
      <4>2. QED
        BY <3>1, <4>1
    <3>2. CASE ~ann
      <4>1. r = events
        BY <1>2, <3>2, NoneMore DEF Told
      <4>2. \A of \in Items : Status'[of] = Status[of] /\ IdOf'[of] = IdOf[of]
        BY <1>4, <2>2, <3>2
      <4>3. Told(events, Status', IdOf')
        BY <1>2, <4>2, ToldSame
      <4>4. QED
        BY <4>1, <4>3
    <3>3. QED
      BY <3>1, <3>2
  <2> HIDE DEF r
  <2>4. CASE tc.args = None
    BY <1>1, <2>3, <2>4, NoneMore DEF Told
  <2>5. CASE tc.args # None
    <3>1. Told(r \o <<d>>, Status', IdOf')
      BY <2>1, <2>2, <2>3, ToldNext
    <3>2. QED
      BY <1>1, <2>5, <3>1
  <2>6. QED
    BY <2>4, <2>5
<1>9. QED
  BY <1>5, <1>6, <1>7, <1>8 DEF ChatInv

\* The message item is done, and the calls are about to be.
LEMMA FinishChat ==
  ASSUME ChatInv, TextInv', UNCHANGED said, HandleFinish
  PROVE  ChatInv'
<1> DEFINE a == Event("response.output_text.done", seq, Message, 0, MsgId(msg_id), text_acc)
           b == Event("response.content_part.done", seq + 1, Message, 0,
                      MsgId(msg_id), text_acc)
           c == Event("response.output_item.done", seq + 2, Message, 0,
                      MsgId(msg_id), text_acc)
<1>1. /\ tools = <<>> /\ finish # None
      /\ msg_item_added => events' = events \o <<a, b, c>>
      /\ ~msg_item_added => events' = events
      /\ msg_item_added' = FALSE /\ closing' = {j \in Index : tool_calls[j].known}
      /\ finish_reason' = finish /\ finish' = None
      /\ UNCHANGED <<msg_id, opened, text_acc, tool_calls, usage, completed, done, tools>>
  BY DEF HandleFinish
<1>2. Progress /\ Introduced /\ Told(events, Status, IdOf)
  BY DEF ChatInv
<1>3. /\ said.finish = finish /\ said.finish # None /\ ~Ending /\ Ending' /\ ~completed
      /\ ~said.done /\ (msg_item_added <=> msg_id # 0)
  BY <1>1, <1>2 DEF Progress, Ending
<1>4. Progress'
  BY <1>1, <1>2, <1>3 DEF Progress, Ending
<1>5. Introduced'
  BY <1>1, <1>2 DEF Introduced
<1>6. Completion'
  <2>1. ~completed' /\ FramedIn(events', opened', completed')
    BY <1>1, <1>3 DEF TextInv, ShapeInv, GoodIn
  <2>2. \A k \in 1..Len(events') : events'[k].type # "response.completed"
    BY <2>1 DEF FramedIn
  <2>3. QED
    BY <2>1, <2>2 DEF Completion
<1>7. Told(events', Status', IdOf')
  <2>1. /\ a.of = Message /\ a.id = MsgId(msg_id) /\ StatusAfter(a) = "open"
        /\ b.of = Message /\ b.id = MsgId(msg_id) /\ StatusAfter(b) = "open"
        /\ c.of = Message /\ c.id = MsgId(msg_id) /\ StatusAfter(c) = "done"
    BY DEF Event, StatusAfter
  <2>2. /\ Message \in Items /\ \A of \in Items \ {Message} : of \in Index
        /\ Status[Message] = IF msg_id = 0 THEN "absent" ELSE "open"
        /\ Status'[Message] = IF msg_id = 0 THEN "absent" ELSE "done"
        /\ IdOf[Message] = MsgId(msg_id) /\ IdOf'[Message] = MsgId(msg_id)
    <3>1. Message \notin closing'
      BY <1>1, NoIndex
    <3>2. QED
      BY <1>1, <1>3, <3>1, StateOf DEF StateSays, Items
  <2>3. \A of \in Items \ {Message} : Status'[of] = Status[of] /\ IdOf'[of] = IdOf[of]
    <3>1. \A j \in Index : tool_calls[j].known <=> j \in closing'
      BY <1>1
    <3>2. QED
      BY <1>1, <1>3, <2>2, <3>1, StateOf DEF StateSays
  <2> HIDE DEF a, b, c
  <2>4. CASE msg_item_added
    <3>1. Status[Message] = "open" /\ Status'[Message] = "done"
      BY <1>3, <2>2, <2>4
    <3>2. Told(events \o <<a>>, Status, IdOf)
      BY <1>2, <2>1, <2>2, <3>1, ToldNext
    <3>3. Told((events \o <<a>>) \o <<b>>, Status, IdOf)
      BY <2>1, <2>2, <3>1, <3>2, ToldNext
    <3>4. Told(((events \o <<a>>) \o <<b>>) \o <<c>>, Status', IdOf')
      BY <2>1, <2>2, <2>3, <3>1, <3>3, ToldNext
    <3>5. IsSeq(events)
      BY <1>2 DEF Told
    <3>6. events \o <<a, b, c>> = ((events \o <<a>>) \o <<b>>) \o <<c>>
      BY <3>5, ThreeMore
    <3>7. events' = ((events \o <<a>>) \o <<b>>) \o <<c>>
      BY <1>1, <2>4, <3>6
    <3>8. QED
      BY <3>4, <3>7
  <2>5. CASE ~msg_item_added
    <3>1. \A of \in Items : Status'[of] = Status[of] /\ IdOf'[of] = IdOf[of]
      BY <1>3, <2>2, <2>3, <2>5
    <3>2. QED
      BY <1>1, <1>2, <2>5, <3>1, ToldSame
  <2>6. QED
    BY <2>4, <2>5
<1>8. QED
  BY <1>4, <1>5, <1>6, <1>7 DEF ChatInv

\* One call is done.
LEMMA CloseChat ==
  ASSUME ChatInv, TextInv', UNCHANGED said, NEW i \in Index, CloseToolCall(i)
  PROVE  ChatInv'
<1> DEFINE call == tool_calls[i]
           at   == OutputIndex(i, msg_id)
           e    == Event("response.function_call_arguments.done", seq, i, at,
                         call.oai_id, call.arguments)
           args == IF call.arguments = <<>> THEN <<>> ELSE <<e>>
           d    == Event("response.output_item.done", seq + Len(args), i, at,
                         call.oai_id, call.arguments)
           r    == events \o args
<1>1. /\ i \in closing /\ events' = r \o <<d>> /\ closing' = closing \ {i}
      /\ UNCHANGED <<msg_id, opened, msg_item_added, text_acc, tool_calls, usage,
                     finish_reason, completed, done, tools, finish>>
  BY DEF CloseToolCall
<1>2. Progress /\ Introduced /\ Told(events, Status, IdOf) /\ MessageFirst
  BY DEF ChatInv, TextInv, ShapeInv
<1>3. Ending /\ Ending' /\ ~said.done /\ ~completed
  BY <1>1, <1>2 DEF Progress, Ending
<1>4. Progress'
  BY <1>1, <1>2, <1>3 DEF Progress
<1>5. Introduced'
  BY <1>1, <1>2 DEF Introduced
<1>6. Completion'
  <2>1. ~completed' /\ FramedIn(events', opened', completed')
    BY <1>1, <1>3 DEF TextInv, ShapeInv, GoodIn
  <2>2. \A k \in 1..Len(events') : events'[k].type # "response.completed"
    BY <2>1 DEF FramedIn
  <2>3. QED
    BY <2>1, <2>2 DEF Completion
<1>7. Told(events', Status', IdOf')
  <2>1. /\ e.of = i /\ e.id = call.oai_id /\ StatusAfter(e) = "open"
        /\ d.of = i /\ d.id = call.oai_id /\ StatusAfter(d) = "done"
    BY DEF Event, StatusAfter
  <2>2. call.known
    BY <1>1, <1>2 DEF MessageFirst
  <2>3. /\ i \in Items /\ Status[i] = "open" /\ Status'[i] = "done"
        /\ IdOf[i] = call.oai_id /\ IdOf'[i] = call.oai_id
    BY <1>1, <1>3, <2>2, StateOf DEF StateSays, Items
  <2>4. \A of \in Items \ {i} : Status'[of] = Status[of] /\ IdOf'[of] = IdOf[of]
    <3>1. \A of \in Items \ {i} : of \in closing <=> of \in closing'
      BY <1>1
    <3>2. Message # i /\ Message \in Items /\ \A of \in Items : of = Message \/ of \in Index
      BY NoIndex DEF Items
    <3>3. QED
      BY <1>1, <1>3, <3>1, <3>2, StateOf DEF StateSays
  <2> HIDE DEF e, d, call
  <2>5. Told(r, Status, IdOf)
    <3>1. Told(events \o <<e>>, Status, IdOf)
      BY <1>2, <2>1, <2>3, ToldNext
    <3>2. events \o <<>> = events
      BY <1>2, NoneMore DEF Told
    <3>3. QED
      BY <1>2, <3>1, <3>2
  <2> HIDE DEF r
  <2>6. Told(r \o <<d>>, Status', IdOf')
    BY <2>1, <2>3, <2>4, <2>5, ToldNext
  <2>7. QED
    BY <1>1, <2>6
<1>8. QED
  BY <1>4, <1>5, <1>6, <1>7 DEF ChatInv

\* The end of the upstream's stream, and nothing at all.
LEMMA SameChat ==
  ASSUME ChatInv, TextInv',
         UNCHANGED <<seq, msg_id, opened, msg_item_added, text_acc, tool_calls,
                     usage, finish_reason, completed, tools, finish, closing, events, said>>
  PROVE  ChatInv'
<1>1. Progress /\ Introduced /\ Completion /\ Told(events, Status, IdOf)
  BY DEF ChatInv
<1>2. Ending' <=> Ending
  BY DEF Ending
<1>3. Progress'
  BY <1>1, <1>2 DEF Progress
<1>4. Introduced'
  BY <1>1 DEF Introduced
<1>5. Completion'
  BY <1>1 DEF Completion, Output
<1>6. Told(events', Status', IdOf')
  BY <1>1, <1>2, SameStory
<1>7. QED
  BY <1>3, <1>4, <1>5, <1>6 DEF ChatInv

LEMMA StepChat == ChatInv /\ [ChatNext]_<<vars, said>> => ChatInv'
<1> SUFFICES ASSUME ChatInv, [ChatNext]_<<vars, said>> PROVE ChatInv'
  OBVIOUS
<1>1. TextInv'
  BY ChatIsNext, StepText DEF ChatInv
<1>2. ASSUME NEW c \in Chunks, WellFormed(c), Says(c), ChunkLine(c) \/ UsageLine(c)
      PROVE  ChatInv'
  BY <1>1, <1>2, ChunkChat, UsageChat
<1>3. ASSUME said.finish # None, ~said.done, said' = [said EXCEPT !.done = TRUE], DoneLine
      PROVE  ChatInv'
  BY <1>1, <1>3, DoneChat
<1>4. ASSUME UNCHANGED said, HandleToolCallDelta PROVE ChatInv'
  BY <1>1, <1>4, DeltaChat
<1>5. ASSUME UNCHANGED said, HandleFinish PROVE ChatInv'
  BY <1>1, <1>5, FinishChat
<1>6. ASSUME UNCHANGED said, NEW i \in Index, CloseToolCall(i) PROVE ChatInv'
  BY <1>1, <1>6, CloseChat
<1>7. ASSUME UNCHANGED said, EndOfStream PROVE ChatInv'
  BY <1>1, <1>7, SameChat DEF EndOfStream
<1>8. ASSUME UNCHANGED said, UNCHANGED vars PROVE ChatInv'
  BY <1>1, <1>8, SameChat DEF vars
<1>9. QED
  BY <1>2, <1>3, <1>4, <1>5, <1>6, <1>7, <1>8 DEF ChatNext, Finishing, Rest

\* What the upstream said, item by item, and what was emitted agree at every
\* moment.
THEOREM ChatInductive == ChatSpec => []ChatInv
<1>1. ChatInit => ChatInv
  BY InitChat
<1>2. QED
  BY <1>1, StepChat, PTL DEF ChatSpec

\* Every event of an item comes after the item was added under the same id
\* and before it is done; done comes once; a completed response has no item
\* that was added and is not done.
THEOREM ItemsAreBracketed == ChatSpec => []ItemsBracketed
<1>1. ASSUME ChatInv, NEW k \in Emitted, events[k].of # Response
      PROVE  /\ \E j \in 1..k : /\ events[j].of = events[k].of
                                /\ events[j].id = events[k].id
                                /\ events[j].type = "response.output_item.added"
             /\ \A j \in 1..(k - 1) : events[j].of = events[k].of =>
                  events[j].type # "response.output_item.done"
  <2> DEFINE of == events[k].of
  <2>1. of \in Items /\ k \in 1..Len(events)
    BY <1>1 DEF ChatInv, Told, Emitted
  <2>2. Tells(events, of, Status[of], IdOf[of])
    BY <1>1, <2>1 DEF ChatInv, Told
  <2>3. PICK j \in 1..k : Adds(events[j], of)
    BY <2>1, <2>2 DEF Tells
  <2>4. j \in 1..Len(events)
    BY <2>1
  <2>5. events[j].id = IdOf[of] /\ events[k].id = IdOf[of]
    BY <2>1, <2>2, <2>3, <2>4 DEF Tells, Adds
  <2>6. \A h \in 1..(k - 1) : ~Ends(events[h], of)
    BY <2>1, <2>2 DEF Tells
  <2>7. QED
    BY <2>3, <2>5, <2>6 DEF Adds, Ends
<1>2. ASSUME ChatInv, CompletedAt # {}, NEW j \in Emitted,
             events[j].type = "response.output_item.added"
      PROVE  \E k \in Emitted : /\ events[j].of = events[k].of
                                /\ events[j].id = events[k].id
                                /\ events[k].type = "response.output_item.done"
  <2> DEFINE of == events[j].of
  <2>1. j \in 1..Len(events) /\ of \in Items
    BY <1>2 DEF ChatInv, Told, Emitted, Framing
  <2>2. Tells(events, of, Status[of], IdOf[of])
    BY <1>2, <2>1 DEF ChatInv, Told
  <2>3. completed
    BY <1>2 DEF CompletedAt, Emitted, ChatInv, TextInv, ShapeInv, GoodIn, FramedIn
  <2>4. Ending /\ closing = {}
    BY <1>2, <2>3 DEF ChatInv, Progress
  <2>5. Status[of] = "done"
    BY <2>1, <2>2, <2>4 DEF Tells, Status
  <2>6. PICK k \in 1..Len(events) : Ends(events[k], of)
    BY <2>2, <2>5 DEF Tells
  <2>7. events[j].id = IdOf[of] /\ events[k].id = IdOf[of]
    BY <2>1, <2>2, <2>6 DEF Tells, Ends
  <2>8. QED
    BY <2>6, <2>7 DEF Ends, Emitted
<1>3. ChatInv => ItemsBracketed
  BY <1>1, <1>2 DEF ItemsBracketed
<1>4. QED
  BY <1>3, ChatInductive, PTL

\* The deltas at the place and under the id of an item are the item's own.
LEMMA OwnDeltas ==
  ASSUME ChatInv, NEW of \in Items, NEW k \in Emitted
  PROVE  StreamedAs(IF of = Message THEN 0 ELSE of + 1, IdOf[of], k)
           = Pieces(events, DeltasIn(events, of, k))
<1> DEFINE at == IF of = Message THEN 0 ELSE of + 1
<1>1. \A j \in 1..k : j \in 1..Len(events)
  <2>1. Len(events) \in Nat
    BY DEF ChatInv, TextInv, ShapeInv, GoodIn, IsSeq
  <2>2. QED
    BY <2>1 DEF Emitted
<1>2. \A j \in 1..Len(events) : IsDelta(events[j]) => events[j].of \in Items
  BY DEF ChatInv, Told, IsDelta, Framing
<1>3. \A j \in 1..Len(events) : events[j].of = of => events[j].id = IdOf[of]
  BY DEF ChatInv, Told, Tells
<1>4. \A j \in 1..Len(events) : /\ events[j].of = Message => events[j].index = 0
                                /\ events[j].of \in Index => events[j].index = events[j].of + 1
  BY DEF ChatInv, TextInv, ShapeInv, GoodIn, PlacedIn, Placed
<1>5. \A x, y \in Items : (IF x = Message THEN 0 ELSE x + 1)
                            = (IF y = Message THEN 0 ELSE y + 1) => x = y
  BY NoIndex DEF Items
<1>6. \A j \in 1..Len(events) : IsDelta(events[j]) =>
        (events[j].of = of <=> events[j].index = at)
  BY <1>2, <1>4, <1>5 DEF Items
<1>7. {j \in 1..k : IsDelta(events[j]) /\ events[j].index = at /\ events[j].id = IdOf[of]}
        = DeltasIn(events, of, k)
  BY <1>1, <1>3, <1>6 DEF DeltasIn
<1>8. QED
  BY <1>7, Zenon DEF StreamedAs

\* Item by item, every done event and the completed response repeat exactly
\* the deltas of that item, in order.
THEOREM ItemsAreSealed == ChatSpec => []ItemsSealed
<1>1. ASSUME ChatInv, NEW k \in Emitted, events[k].type \in Sealing
      PROVE  events[k].data = StreamedAs(events[k].index, events[k].id, k)
  <2> DEFINE of == events[k].of
  <2>1. k \in 1..Len(events) /\ of \in Items
    BY <1>1 DEF ChatInv, Told, Emitted, Framing, Sealing
  <2>2. events[k].id = IdOf[of]
    BY <1>1, <2>1 DEF ChatInv, Told, Tells
  <2>3. events[k].index = IF of = Message THEN 0 ELSE of + 1
    BY <1>1, <2>1 DEF ChatInv, TextInv, ShapeInv, GoodIn, PlacedIn, Placed, Items
  <2>4. events[k].data = Pieces(events, DeltasIn(events, of, k))
    BY <1>1, <2>1 DEF ChatInv, TextInv, RepeatedIn, Repeats
  <2>5. QED
    <3>1. StreamedAs(IF of = Message THEN 0 ELSE of + 1, IdOf[of], k)
            = Pieces(events, DeltasIn(events, of, k))
      BY <1>1, <2>1, OwnDeltas
    <3> HIDE DEF of
    <3>2. QED
      BY <2>2, <2>3, <2>4, <3>1
<1>2. ASSUME ChatInv, NEW k \in Emitted, events[k].type = "response.completed",
             NEW o \in events[k].output
      PROVE  o.data = StreamedAs(IF o.of = Message THEN 0 ELSE o.of + 1, o.id, k)
  <2>1. k \in 1..Len(events)
    BY DEF Emitted
  <2>2. o \in Output
    BY <1>2, <2>1 DEF ChatInv, Completion
  <2>3. o.of \in Items /\ o.id = IdOf[o.of]
    BY <2>2, NoIndex DEF Output, Items, IdOf
  <2>4. o.data = Pieces(events, DeltasIn(events, o.of, k))
    BY <1>2, <2>1 DEF ChatInv, TextInv, RepeatedIn, Repeats
  <2>5. QED
    <3>1. StreamedAs(IF o.of = Message THEN 0 ELSE o.of + 1, IdOf[o.of], k)
            = Pieces(events, DeltasIn(events, o.of, k))
      BY <1>2, <2>3, OwnDeltas
    <3>2. QED
      BY <2>3, <2>4, <3>1
<1>3. ChatInv => ItemsSealed
  BY <1>1, <1>2 DEF ItemsSealed
<1>4. QED
  BY <1>3, ChatInductive, PTL

\* The completed response says incomplete exactly when the upstream stopped at
\* its token limit, and carries the usage the upstream reported.
THEOREM CompletedTells == ChatSpec => []StatusAndUsage
<1>1. ChatInv => StatusAndUsage
  <2> SUFFICES ASSUME ChatInv, NEW k \in CompletedAt
               PROVE  /\ (events[k].status = "incomplete" <=> said.finish = "length")
                      /\ events[k].usage = said.usage
    BY DEF StatusAndUsage
  <2>1. k \in 1..Len(events) /\ events[k].type = "response.completed"
    BY DEF CompletedAt, Emitted
  <2>2. completed
    BY <2>1 DEF ChatInv, TextInv, ShapeInv, GoodIn, FramedIn
  <2>3. finish_reason = said.finish /\ usage = said.usage
    BY <2>2 DEF ChatInv, Progress
  <2>4. /\ events[k].status = IF finish_reason = "length" THEN "incomplete" ELSE "completed"
        /\ events[k].usage = usage
    BY <2>1 DEF ChatInv, Completion
  <2>5. QED
    BY <2>3, <2>4
<1>2. QED
  BY <1>1, ChatInductive, PTL

-----------------------------------------------------------------------------
(* What the client sees.                                                   *)

\* An item's place, its text or arguments, and what the client sees of it.
SlotOf(of) == IF of = Message THEN 0 ELSE of + 1
DataOf == [of \in Items |-> IF of = Message THEN text_acc ELSE tool_calls[of].arguments]
View(status, id, data) ==
  IF status = "absent" THEN [status |-> "absent", id |-> <<>>, data |-> <<>>]
  ELSE [status |-> status, id |-> id, data |-> data]

SeenAs(of) == SlotView(SlotOf(of)) = View(Status[of], IdOf[of], DataOf[of])

LEMMA PlaceOf ==
  /\ Slots = {SlotOf(of) : of \in Items}
  /\ \A a, b \in Items : SlotOf(a) = SlotOf(b) => a = b
  /\ \A i \in Index, of \in Items : SlotOf(of) < SlotOf(i) => of = Message \/ (of \in Index /\ of < i)
  /\ \A of \in Items : ~(SlotOf(of) < SlotOf(Message))
<1>1. \A i \in Index : i \in Nat /\ i # Message /\ SlotOf(i) = i + 1 /\ i \in Items
  BY NoIndex DEF SlotOf, Items
<1>2. SlotOf(Message) = 0 /\ Message \in Items
  BY DEF SlotOf, Items
<1>3. \A of \in Items : of = Message \/ of \in Index
  BY DEF Items
<1>4. QED
  BY <1>1, <1>2, <1>3 DEF Slots

LEMMA SlotSeen == ChatInv => \A of \in Items : SeenAs(of)
<1> SUFFICES ASSUME ChatInv, NEW of \in Items PROVE SeenAs(of)
  OBVIOUS
<1> DEFINE at     == SlotOf(of)
           v      == Len(events)
           added  == At(at, {"response.output_item.added"})
           ended  == At(at, {"response.output_item.done"})
           deltas == {k \in Emitted : IsDelta(events[k]) /\ events[k].index = at}
<1>1. /\ IsSeq(events) /\ PlacedIn(events) /\ Told(events, Status, IdOf)
      /\ AccumulatedIn(events, text_acc, tool_calls)
  BY DEF ChatInv, TextInv, ShapeInv, GoodIn
<1>2. Tells(events, of, Status[of], IdOf[of])
  BY <1>1 DEF Told
<1>3. \A k \in 1..v : events[k].type \notin Framing => events[k].of \in Items
  BY <1>1 DEF Told
<1>4. \A k \in 1..v : events[k].of \in Items => events[k].index = SlotOf(events[k].of)
  BY <1>1, NoIndex DEF PlacedIn, Placed, Items, SlotOf
<1>5. \A k \in 1..v : events[k].type \notin Framing =>
                        (events[k].index = at <=> events[k].of = of)
  BY <1>3, <1>4, PlaceOf
<1>6. added = {k \in 1..v : Adds(events[k], of)}
  BY <1>5 DEF At, Emitted, Adds, Framing
<1>7. ended = {k \in 1..v : Ends(events[k], of)}
  BY <1>5 DEF At, Emitted, Ends, Framing
<1>8. deltas = DeltasIn(events, of, v)
  BY <1>5 DEF Emitted, DeltasIn, IsDelta, Framing
<1>9. Pieces(events, deltas) = DataOf[of]
  <2>1. Pieces(events, deltas) = Content(events, of)
    BY <1>8 DEF Content
  <2>2. QED
    BY <1>1, <2>1, NoIndex DEF AccumulatedIn, DataOf, Items
<1>10. added = {} <=> Status[of] = "absent"
  BY <1>2, <1>6 DEF Tells, Adds
<1>11. Status[of] # "absent" => Status[of] = IF ended = {} THEN "open" ELSE "done"
  <2>1. Status[of] \in {"absent", "open", "done"}
    BY DEF Status
  <2>2. QED
    BY <1>2, <1>7, <2>1 DEF Tells
<1>12. added # {} => events[CHOOSE k \in added : TRUE].id = IdOf[of]
  <2>1. \A k \in added : events[k].id = IdOf[of]
    BY <1>2, <1>6 DEF Tells, Adds
  <2>2. QED
    BY <2>1
<1>13. SlotView(at) = IF added = {} THEN [status |-> "absent", id |-> <<>>, data |-> <<>>]
                      ELSE [status |-> IF ended = {} THEN "open" ELSE "done",
                            id |-> events[CHOOSE k \in added : TRUE].id,
                            data |-> Pieces(events, deltas)]
  BY DEF SlotView
<1> HIDE DEF added, ended, deltas
<1>14. QED
  BY <1>9, <1>10, <1>11, <1>12, <1>13 DEF SeenAs, View

LEMMA SlotSeenNext == (ChatInv => \A of \in Items : SeenAs(of))'
BY SlotSeen, PTL

PhaseOf == IF completed THEN "completed" ELSE IF opened THEN "open" ELSE "none"
There == {of \in Items : IsThere(of)}

LEMMA PhaseSeen == ChatInv => PhaseView = PhaseOf
<1> SUFFICES ASSUME ChatInv PROVE PhaseView = PhaseOf
  OBVIOUS
<1> DEFINE v == Len(events)
<1>1. FramedIn(events, opened, completed) /\ Completion /\ IsSeq(events)
  BY DEF ChatInv, TextInv, ShapeInv, GoodIn
<1>2. CompletedAt # {} <=> completed
  BY <1>1 DEF CompletedAt, Emitted, FramedIn, Completion
<1>3. (\E k \in 1..v : events[k].type = "response.created") => opened
  <2>1. ~opened => \A k \in 1..v : events[k].type = "response.completed"
    BY <1>1 DEF FramedIn
  <2>2. QED
    BY <2>1
<1>4. opened => \E k \in 1..v : events[k].type = "response.created"
  <2> SUFFICES ASSUME opened PROVE \E k \in 1..v : events[k].type = "response.created"
    OBVIOUS
  <2>1. PICK j \in 1..v : events[j].type = "response.in_progress"
    BY <1>1 DEF FramedIn
  <2>2. j > 1 /\ events[j - 1].type = "response.created"
    BY <1>1, <2>1 DEF FramedIn
  <2>3. j - 1 \in 1..v
    <3>1. v \in Nat
      <4>1. PICK S : events \in Seq(S)
        BY <1>1 DEF IsSeq
      <4>2. QED
        BY <4>1
    <3> HIDE DEF v
    <3>2. QED
      BY <2>2, <3>1
  <2>4. QED
    BY <2>2, <2>3
<1>5. QED
  BY <1>2, <1>3, <1>4 DEF PhaseView, PhaseOf, Emitted

LEMMA PhaseSeenNext == (ChatInv => PhaseView = PhaseOf)'
BY PhaseSeen, PTL

LEMMA OutputSeen ==
  ChatInv => OutputView = IF ~completed THEN {}
                          ELSE {[at |-> SlotOf(of), id |-> IdOf[of], data |-> DataOf[of]] :
                                  of \in There}
<1> DEFINE repeated == {[at |-> SlotOf(of), id |-> IdOf[of], data |-> DataOf[of]] : of \in There}
<1> SUFFICES ASSUME ChatInv PROVE OutputView = IF ~completed THEN {} ELSE repeated
  OBVIOUS
<1>1. FramedIn(events, opened, completed) /\ Completion /\ TypeOK
  BY DEF ChatInv, TextInv, ShapeInv, GoodIn
<1>2. CompletedAt # {} <=> completed
  BY <1>1 DEF CompletedAt, Emitted, FramedIn, Completion
<1>3. \A k \in CompletedAt : events[k].output = Output
  BY <1>1 DEF CompletedAt, Emitted, Completion
<1>4. completed => events[CHOOSE k \in CompletedAt : TRUE].output = Output
  BY <1>2, <1>3
<1> DEFINE told == {[at |-> IF o.of = Message THEN 0 ELSE o.of + 1, id |-> o.id, data |-> o.data] :
                      o \in Output}
<1>5. told = repeated
  <2> DEFINE item(of) == [of |-> of, id |-> IdOf[of], data |-> DataOf[of]]
  <2>1. \A of \in Items : item(of).of = of /\ item(of).id = IdOf[of] /\ item(of).data = DataOf[of]
    OBVIOUS
  <2>2. Output = {item(of) : of \in There}
    <3>1. \A i \in Index : i # Message /\ i \in Items
      BY NoIndex DEF Items
    <3>2. Message \in Items /\ \A of \in Items : of = Message \/ of \in Index
      BY DEF Items
    <3>3. \A o \in Output : \E of \in There : o = item(of)
      BY <3>1, <3>2 DEF Output, There, IsThere, IdOf, DataOf
    <3>4. \A of \in There : item(of) \in Output
      <4> SUFFICES ASSUME NEW of \in There PROVE item(of) \in Output
        OBVIOUS
      <4>1. CASE of = Message
        BY <3>2, <4>1 DEF Output, There, IsThere, IdOf, DataOf
      <4>2. CASE of # Message
        BY <3>1, <3>2, <4>2 DEF Output, There, IsThere, IdOf, DataOf
      <4>3. QED
        BY <4>1, <4>2
    <3> HIDE DEF item
    <3>5. QED
      BY <3>3, <3>4
  <2>3. told = {[at |-> IF item(of).of = Message THEN 0 ELSE item(of).of + 1,
                 id |-> item(of).id, data |-> item(of).data] : of \in There}
    <3> HIDE DEF item
    <3>1. QED
      BY <2>2
  <2>4. \A of \in There : of \in Items
    BY DEF There
  <2> HIDE DEF item
  <2>5. QED
    BY <2>1, <2>3, <2>4 DEF SlotOf
<1> HIDE DEF repeated
<1>6. QED
  BY <1>2, <1>4, <1>5 DEF OutputView

LEMMA OutputSeenNext ==
  (ChatInv => OutputView = IF ~completed THEN {}
                           ELSE {[at |-> SlotOf(of), id |-> IdOf[of], data |-> DataOf[of]] :
                                   of \in There})'
BY OutputSeen, PTL

Views == [i \in Slots |-> SlotView(i)]

LEMMA ViewsSeen ==
  ChatInv => \A of \in Items : Views[SlotOf(of)] = View(Status[of], IdOf[of], DataOf[of])
<1>1. \A of \in Items : SlotOf(of) \in Slots
  BY PlaceOf
<1>2. QED
  BY <1>1, SlotSeen DEF SeenAs, Views

LEMMA ViewsSeenNext ==
  (ChatInv => \A of \in Items : Views[SlotOf(of)] = View(Status[of], IdOf[of], DataOf[of]))'
BY ViewsSeen, PTL

\* What may happen to an item in one step.
Stays(of) ==
  /\ Status'[of] = Status[of]
  /\ Status[of] # "absent" => IdOf'[of] = IdOf[of] /\ DataOf'[of] = DataOf[of]
Appears(of) ==
  /\ Status[of] = "absent" /\ Status'[of] = "open" /\ IdOf'[of] # <<>>
  /\ \A other \in Items : SlotOf(other) < SlotOf(of) => Status'[other] # "absent"
Grows(of) ==
  /\ Status[of] = "open" /\ Status'[of] = "open" /\ IdOf'[of] = IdOf[of]
  /\ Client!Extends(DataOf'[of], DataOf[of])
IsEnded(of) ==
  /\ Status[of] = "open" /\ Status'[of] = "done"
  /\ IdOf'[of] = IdOf[of] /\ DataOf'[of] = DataOf[of]

LEMMA ItemMoves ==
  ASSUME ChatInv, ChatInv',
         \A of \in Items : Stays(of) \/ Appears(of) \/ Grows(of) \/ IsEnded(of)
  PROVE  \A i \in Slots : Views'[i] # Views[i] =>
           Client!AddItem(i) \/ Client!Grow(i) \/ Client!FinishItem(i)
<1> SUFFICES ASSUME NEW i \in Slots, Views'[i] # Views[i]
             PROVE Client!AddItem(i) \/ Client!Grow(i) \/ Client!FinishItem(i)
  OBVIOUS
<1>1. PICK of \in Items : i = SlotOf(of)
  BY PlaceOf
<1>2. \A o \in Items : /\ Views[SlotOf(o)] = View(Status[o], IdOf[o], DataOf[o])
                       /\ Views'[SlotOf(o)] = View(Status'[o], IdOf'[o], DataOf'[o])
  BY ViewsSeen, ViewsSeenNext
<1>3. /\ Views[i] = View(Status[of], IdOf[of], DataOf[of])
      /\ Views'[i] = View(Status'[of], IdOf'[of], DataOf'[of])
  BY <1>1, <1>2
<1>4. \A o \in Items : Views'[SlotOf(o)].status = Status'[o]
  <2>1. \A status, id, data : View(status, id, data).status = status
    BY DEF View
  <2>2. QED
    BY <1>2, <2>1
<1>5. CASE Stays(of)
  BY <1>3, <1>5 DEF Stays, View
<1>6. CASE Appears(of)
  <2>1. /\ Views[i].status = "absent" /\ Views'[i].status = "open"
        /\ Views'[i].id # <<>>
    BY <1>3, <1>6 DEF Appears, View
  <2>2. \A j \in Slots : j < i => Views'[j].status # "absent"
    <3> SUFFICES ASSUME NEW j \in Slots, j < i PROVE Views'[j].status # "absent"
      OBVIOUS
    <3>1. PICK other \in Items : j = SlotOf(other)
      BY PlaceOf
    <3>2. QED
      BY <1>1, <1>4, <1>6, <3>1 DEF Appears
  <2>3. Client!AddItem(i)
    BY <2>1, <2>2 DEF Client!AddItem, Views
  <2>4. QED
    BY <2>3
<1>7. CASE Grows(of)
  <2>1. /\ Views[i].status = "open" /\ Views'[i].status = "open"
        /\ Views'[i].id = Views[i].id
        /\ Client!Extends(Views'[i].data, Views[i].data)
    BY <1>3, <1>7 DEF Grows, View
  <2>2. Client!Grow(i)
    BY <2>1 DEF Client!Grow, Views
  <2>3. QED
    BY <2>2
<1>8. CASE IsEnded(of)
  <2>1. Views[i].status = "open" /\ Views'[i] = [Views[i] EXCEPT !.status = "done"]
    BY <1>3, <1>8 DEF IsEnded, View
  <2>2. Client!FinishItem(i)
    BY <2>1 DEF Client!FinishItem, Views
  <2>3. QED
    BY <2>2
<1>9. QED
  BY <1>5, <1>6, <1>7, <1>8

\* A sequence extends itself, and so does one with one more element.
LEMMA OneLonger ==
  ASSUME NEW S, NEW s \in Seq(S)
  PROVE  Client!Extends(s, s) /\ \A x \in S : Client!Extends(Append(s, x), s)
<1>1. Len(s) \in Nat /\ SubSeq(s, 1, Len(s)) = s
  BY LenProperties, SubSeqFull
<1>2. ASSUME NEW x \in S PROVE Client!Extends(Append(s, x), s)
  <2>1. Len(Append(s, x)) = Len(s) + 1
    BY AppendProperties
  <2>2. Append(s, x) = s \o <<x>> /\ <<x>> \in Seq(S)
    BY AppendIsConcat
  <2>3. SubSeq(s \o <<x>>, 1, Len(s)) = SubSeq(s, 1, Len(s))
    BY <1>1, <2>2, SubSeqOfConcat1
  <2>4. QED
    BY <1>1, <2>1, <2>2, <2>3 DEF Client!Extends
<1>3. QED
  BY <1>1, <1>2 DEF Client!Extends

\* A step of the translator that completes nothing fills the response.
LEMMA Filling ==
  ASSUME ChatInv, ChatInv', ~completed, ~completed', opened',
         \A of \in Items : Stays(of) \/ Appears(of) \/ Grows(of) \/ IsEnded(of)
  PROVE  Client!Fill
<1>1. PhaseView = PhaseOf /\ PhaseView' = PhaseOf'
  BY PhaseSeen, PhaseSeenNext
<1>2. PhaseView \in {"none", "open"} /\ PhaseView' = "open"
  BY <1>1 DEF PhaseOf
<1>3. OutputView = {} /\ OutputView' = {}
  BY OutputSeen, OutputSeenNext
<1>4. \A i \in Slots : Views'[i] # Views[i] =>
        Client!AddItem(i) \/ Client!Grow(i) \/ Client!FinishItem(i)
  BY ItemMoves
<1>5. QED
  BY <1>2, <1>3, <1>4 DEF Client!Fill, Views

\* A step that emits nothing is not seen.
LEMMA Unseen ==
  ASSUME UNCHANGED events
  PROVE  UNCHANGED Client!rvars
<1>1. PhaseView' = PhaseView
  BY DEF PhaseView, CompletedAt, Emitted
<1>2. OutputView' = OutputView
  BY DEF OutputView, CompletedAt, Emitted
<1>3. Views' = Views
  BY DEF Views, SlotView, At, Emitted, Pieces, Nth, IsDelta
<1>4. QED
  BY <1>1, <1>2, <1>3 DEF Client!rvars, Views

\* A chunk opens the response, perhaps the message item, and adds its text.
LEMMA ChunkSeen ==
  ASSUME ChatInv, ChatInv', NEW c \in Chunks, WellFormed(c), Says(c), ChunkLine(c)
  PROVE  Client!Fill
<1>1. /\ c.choice /\ opened' = TRUE
      /\ text_acc' = IF c.content = None THEN text_acc ELSE Append(text_acc, c.content)
      /\ UNCHANGED <<tool_calls, completed, closing>>
      /\ finish' = c.finish
  BY DEF ChunkLine
<1>2. msg_id' = IF ~msg_item_added /\ (c.content # None \/ c.array)
                THEN msg_id + 1 ELSE msg_id
  BY DEF ChunkLine
<1>3. /\ Progress /\ TypeOK
  BY DEF ChatInv, TextInv, ShapeInv
<1>4. said.finish = None /\ ~Ending /\ ~completed
  BY <1>1, <1>3 DEF WellFormed, Progress, Ending
<1>5. ~Ending'
  <2>1. said'.finish = c.finish
    BY <1>1, <1>3, <1>4 DEF Says, Progress
  <2>2. QED
    BY <1>1, <2>1 DEF Ending
<1>6. msg_id \in Nat /\ (msg_item_added <=> msg_id # 0)
  BY <1>3, <1>4 DEF TypeOK, Progress
<1>7. text_acc \in Seq(Token) /\ (c.content # None => c.content \in Token)
  BY <1>3, SseAssumption DEF TypeOK, Chunk
<1>8. /\ Message \in Items /\ DataOf[Message] = text_acc /\ DataOf'[Message] = text_acc'
      /\ \A of \in Items \ {Message} : of \in Index /\ DataOf'[of] = DataOf[of]
  BY <1>1 DEF Items, DataOf
<1>9. \A of \in Items \ {Message} : Stays(of)
  BY <1>1, <1>4, <1>5, <1>8, StateOf DEF StateSays, Stays
<1>10. /\ Status[Message] = IF msg_id = 0 THEN "absent" ELSE "open"
       /\ Status'[Message] = IF msg_id' = 0 THEN "absent" ELSE "open"
       /\ IdOf[Message] = MsgId(msg_id) /\ IdOf'[Message] = MsgId(msg_id')
  BY <1>4, <1>5, StateOf DEF StateSays
<1>11. Stays(Message) \/ Appears(Message) \/ Grows(Message)
  <2>1. CASE msg_id # 0
    <3>1. msg_id' = msg_id
      BY <1>2, <1>6, <2>1
    <3>2. Client!Extends(text_acc', text_acc)
      <4>1. CASE c.content = None
        BY <1>1, <1>7, <4>1, OneLonger
      <4>2. CASE c.content # None
        BY <1>1, <1>7, <4>2, OneLonger
      <4>3. QED
        BY <4>1, <4>2
    <3>3. QED
      BY <1>8, <1>10, <2>1, <3>1, <3>2 DEF Grows
  <2>2. CASE msg_id = 0 /\ msg_id' = 0
    BY <1>10, <2>2 DEF Stays
  <2>3. CASE msg_id = 0 /\ msg_id' # 0
    <3>1. IdOf'[Message] # <<>>
      BY <1>10 DEF MsgId
    <3>2. \A other \in Items : ~(SlotOf(other) < SlotOf(Message))
      BY PlaceOf
    <3>3. QED
      BY <1>10, <2>3, <3>1, <3>2 DEF Appears
  <2>4. QED
    BY <2>1, <2>2, <2>3
<1>12. \A of \in Items : Stays(of) \/ Appears(of) \/ Grows(of) \/ IsEnded(of)
  BY <1>9, <1>11
<1>13. QED
  BY <1>1, <1>4, <1>12, Filling

\* A tool-call delta adds the next item, or adds to one that is open.
LEMMA DeltaSeen ==
  ASSUME ChatInv, ChatInv', UNCHANGED said, HandleToolCallDelta
  PROVE  Client!Fill
<1> DEFINE tc   == NextDelta
           i    == NextIndex
           call == NextCall
           ann  == ShouldAnnounce(NextCall, NextDelta)
<1>1. /\ tools # <<>> /\ tool_calls' = NextCalls
      /\ UNCHANGED <<msg_id, opened, text_acc, completed, finish, closing>>
  BY DEF HandleToolCallDelta, NextCalls, NextCall, NextIndex, NextDelta
<1>2. Progress /\ Introduced /\ TypeOK /\ MessageFirst
  BY DEF ChatInv, TextInv, ShapeInv
<1>3. ~Ending /\ ~Ending' /\ ~completed /\ msg_id # 0 /\ opened
  BY <1>1, <1>2 DEF Progress, Ending, MessageFirst
<1>4. /\ i \in Index /\ NextCalls[i].known /\ NextCalls[i].oai_id = call.oai_id
      /\ call.oai_id # <<>>
      /\ (ann <=> ~tool_calls[i].known)
      /\ ann => \A j \in Index : j < i => tool_calls[j].known
      /\ ~ann => call.oai_id = tool_calls[i].oai_id
      /\ \A j \in Index \ {i} : NextCalls[j] = tool_calls[j]
  BY <1>1, <1>2, NextOfChunk
<1>5. /\ tool_calls[i].arguments \in Seq(Token)
      /\ \/ NextCalls[i].arguments = tool_calls[i].arguments
         \/ \E x \in Token : NextCalls[i].arguments = Append(tool_calls[i].arguments, x)
  <2>1. tools \in Seq(ToolDelta) /\ tool_calls \in [Index -> Call]
    BY <1>2 DEF TypeOK
  <2>2. tc \in ToolDelta
    BY <1>1, <2>1, HeadTailProperties DEF NextDelta
  <2>3. tool_calls[i] \in Call /\ call = CallAfter(tool_calls[i], tc)
    BY <1>4, <2>1 DEF NextCall
  <2> HIDE DEF tc, i, call
  <2>4. /\ call \in Call
        /\ call.arguments = IF tc.args = None THEN tool_calls[i].arguments
                            ELSE Append(tool_calls[i].arguments, tc.args)
    BY <2>2, <2>3, CallType DEF CallAfter
  <2>5. NextCalls[i] = [call EXCEPT !.announced = @ \/ ShouldAnnounce(NextCall, NextDelta)]
    BY <1>4, <2>1 DEF NextCalls, call, i
  <2>6. NextCalls[i].arguments = call.arguments
    BY <2>4, <2>5 DEF Call
  <2>7. tc.args # None => tc.args \in Token
    BY <2>2 DEF ToolDelta
  <2>8. QED
    BY <2>3, <2>4, <2>6, <2>7 DEF Call
<1> HIDE DEF tc, i, call, ann
<1>6. /\ i \in Items /\ i # Message
      /\ DataOf[i] = tool_calls[i].arguments /\ DataOf'[i] = NextCalls[i].arguments
  BY <1>1, <1>4, NoIndex DEF Items, DataOf
<1>7. ASSUME NEW of \in Items \ {i} PROVE Stays(of)
  <2>1. CASE of = Message
    <3>1. DataOf'[of] = DataOf[of]
      BY <1>1, <2>1 DEF DataOf
    <3>2. QED
      BY <1>1, <1>3, <2>1, <3>1, StateOf DEF StateSays, Stays
  <2>2. CASE of # Message
    <3>1. of \in Index /\ NextCalls[of] = tool_calls[of]
      BY <1>4, <2>2 DEF Items
    <3>2. DataOf'[of] = DataOf[of]
      BY <1>1, <2>2, <3>1 DEF DataOf
    <3>3. QED
      BY <1>1, <1>3, <3>1, <3>2, StateOf DEF StateSays, Stays
  <2>3. QED
    BY <2>1, <2>2
<1>8. /\ Status[i] = IF ~tool_calls[i].known THEN "absent" ELSE "open"
      /\ IdOf[i] = tool_calls[i].oai_id
      /\ Status'[i] = "open" /\ IdOf'[i] = call.oai_id
  <2>1. /\ Status[i] = IF ~tool_calls[i].known THEN "absent" ELSE "open"
        /\ IdOf[i] = tool_calls[i].oai_id
    BY <1>3, <1>4, StateOf DEF StateSays
  <2>2. Status'[i] = "open" /\ IdOf'[i] = call.oai_id
    BY <1>1, <1>3, <1>4, StateOf DEF StateSays
  <2>3. QED
    BY <2>1, <2>2
<1>9. CASE ann
  <2>1. \A j \in Index : NextCalls[j].known \/ ~tool_calls[j].known
    BY <1>4
  <2>2. ASSUME NEW other \in Items, SlotOf(other) < SlotOf(i)
        PROVE  Status'[other] # "absent"
    <3>1. other = Message \/ (other \in Index /\ other < i)
      BY <1>4, <2>2, PlaceOf
    <3>2. CASE other = Message
      BY <1>1, <1>3, <3>2, StateOf DEF StateSays
    <3>3. CASE other \in Index /\ other < i
      <4>1. NextCalls[other].known
        BY <1>4, <1>9, <2>1, <3>3
      <4>2. QED
        BY <1>1, <1>3, <3>3, <4>1, StateOf DEF StateSays
    <3>4. QED
      BY <3>1, <3>2, <3>3
  <2>3. Appears(i)
    BY <1>4, <1>8, <1>9, <2>2 DEF Appears
  <2>4. \A of \in Items : Stays(of) \/ Appears(of) \/ Grows(of) \/ IsEnded(of)
    BY <1>7, <2>3
  <2>5. QED
    BY <1>1, <1>3, <2>4, Filling
<1>10. CASE ~ann
  <2>1. Client!Extends(NextCalls[i].arguments, tool_calls[i].arguments)
    <3>1. CASE NextCalls[i].arguments = tool_calls[i].arguments
      BY <1>5, <3>1, OneLonger
    <3>2. CASE \E x \in Token : NextCalls[i].arguments = Append(tool_calls[i].arguments, x)
      BY <1>5, <3>2, OneLonger
    <3>3. QED
      BY <1>5, <3>1, <3>2
  <2>2. Grows(i)
    BY <1>4, <1>6, <1>8, <1>10, <2>1 DEF Grows
  <2>3. \A of \in Items : Stays(of) \/ Appears(of) \/ Grows(of) \/ IsEnded(of)
    BY <1>7, <2>2
  <2>4. QED
    BY <1>1, <1>3, <2>3, Filling
<1>11. QED
  BY <1>9, <1>10

\* The message item is done when the finish reason comes.
LEMMA FinishSeen ==
  ASSUME ChatInv, ChatInv', UNCHANGED said, HandleFinish
  PROVE  Client!Fill
<1>1. /\ finish # None /\ finish' = None
      /\ closing' = {j \in Index : tool_calls[j].known}
      /\ UNCHANGED <<msg_id, opened, text_acc, tool_calls, completed>>
  BY DEF HandleFinish
<1>2. Progress
  BY DEF ChatInv
<1>3. ~Ending /\ Ending' /\ ~completed /\ opened
  BY <1>1, <1>2 DEF Progress, Ending
<1>4. Message \notin closing' /\ DataOf' = DataOf
  BY <1>1, NoIndex DEF DataOf
<1>5. Stays(Message) \/ IsEnded(Message)
  BY <1>1, <1>3, <1>4, StateOf DEF StateSays, Stays, IsEnded
<1>6. ASSUME NEW i \in Index PROVE Stays(i)
  <2>1. i \in closing' <=> tool_calls[i].known
    BY <1>1
  <2>2. QED
    BY <1>1, <1>3, <1>4, <2>1, StateOf DEF StateSays, Stays
<1>7. \A of \in Items : Stays(of) \/ Appears(of) \/ Grows(of) \/ IsEnded(of)
  BY <1>5, <1>6 DEF Items
<1>8. QED
  BY <1>1, <1>3, <1>7, Filling

\* A tool call is done when it is closed.
LEMMA CloseSeen ==
  ASSUME ChatInv, ChatInv', UNCHANGED said, NEW i \in Index, CloseToolCall(i)
  PROVE  Client!Fill
<1>1. /\ i \in closing /\ closing' = closing \ {i}
      /\ UNCHANGED <<msg_id, opened, text_acc, tool_calls, completed, finish>>
  BY DEF CloseToolCall
<1>2. Progress /\ MessageFirst
  BY DEF ChatInv, TextInv, ShapeInv
<1>3. Ending /\ Ending' /\ ~completed /\ opened /\ tool_calls[i].known
  BY <1>1, <1>2 DEF Progress, Ending, MessageFirst
<1>4. DataOf' = DataOf
  BY <1>1 DEF DataOf
<1>5. IsEnded(i)
  BY <1>1, <1>3, <1>4, StateOf DEF StateSays, IsEnded
<1>6. ASSUME NEW of \in Items, of # i PROVE Stays(of)
  <2>1. of \in closing' <=> of \in closing
    BY <1>1, <1>6
  <2>2. of = Message \/ of \in Index
    BY DEF Items
  <2>3. QED
    BY <1>1, <1>3, <1>4, <2>1, <2>2, StateOf DEF StateSays, Stays
<1>7. \A of \in Items : Stays(of) \/ Appears(of) \/ Grows(of) \/ IsEnded(of)
  BY <1>5, <1>6
<1>8. QED
  BY <1>1, <1>3, <1>7, Filling

\* [DONE] completes the response: every item is done, and is repeated.
LEMMA DoneSeen ==
  ASSUME ChatInv, ChatInv', said.finish # None, ~said.done,
         said' = [said EXCEPT !.done = TRUE], DoneLine
  PROVE  Client!Complete
<1>1. /\ completed' = TRUE /\ finish = None /\ closing = {}
      /\ UNCHANGED <<msg_id, opened, text_acc, tool_calls, finish, closing>>
  BY DEF DoneLine, Reading, Idle
<1>2. Progress
  BY DEF ChatInv
<1>3. Ending /\ Ending' /\ ~completed /\ opened
  BY <1>1, <1>2 DEF Progress, Ending
<1>4. PhaseView = "open" /\ PhaseView' = "completed"
  BY <1>1, <1>3, PhaseSeen, PhaseSeenNext DEF PhaseOf
<1>5. Status' = Status /\ IdOf' = IdOf /\ DataOf' = DataOf
  BY <1>1, <1>3 DEF Status, IdOf, DataOf, IsThere
<1>6. \A of \in Items : /\ Views[SlotOf(of)] = View(Status[of], IdOf[of], DataOf[of])
                        /\ Views'[SlotOf(of)] = Views[SlotOf(of)]
  BY <1>5, ViewsSeen, ViewsSeenNext
<1>7. \A of \in Items : Status[of] = IF IsThere(of) THEN "done" ELSE "absent"
  BY <1>1, <1>3 DEF Status
<1>8. \A of \in Items : /\ Views[SlotOf(of)].status = Status[of]
                        /\ IsThere(of) => /\ Views[SlotOf(of)].id = IdOf[of]
                                          /\ Views[SlotOf(of)].data = DataOf[of]
  <2>1. \A status, id, data :
          /\ View(status, id, data).status = status
          /\ status # "absent" => View(status, id, data).id = id /\ View(status, id, data).data = data
    BY DEF View
  <2>2. QED
    BY <1>6, <1>7, <2>1
<1>9. \A i \in Slots : Views[i].status # "open"
  BY <1>7, <1>8, PlaceOf
<1>10. Views' = Views
  <2>1. \A i \in Slots : Views'[i] = Views[i]
    BY <1>6, PlaceOf
  <2>2. DOMAIN Views = Slots /\ DOMAIN Views' = Slots
    BY DEF Views
  <2>3. Views = [i \in Slots |-> Views[i]] /\ Views' = [i \in Slots |-> Views'[i]]
    BY DEF Views
  <2>4. QED
    BY <2>1, <2>3
<1> DEFINE repeated == {[at |-> SlotOf(of), id |-> IdOf[of], data |-> DataOf[of]] : of \in There}
           seen == {[at |-> i, id |-> Views[i].id, data |-> Views[i].data] :
                      i \in {j \in Slots : Views[j].status = "done"}}
<1>11. OutputView' = repeated
  <2>1. There' = There
    BY <1>1 DEF There, IsThere
  <2>2. OutputView' = {[at |-> SlotOf(of), id |-> IdOf'[of], data |-> DataOf'[of]] : of \in There'}
    BY <1>1, OutputSeenNext
  <2>3. QED
    BY <1>5, <2>1, <2>2
<1>12. repeated = seen
  <2>1. \A of \in There : of \in Items /\ IsThere(of)
    BY DEF There
  <2>2. \A of \in There : /\ SlotOf(of) \in Slots /\ Views[SlotOf(of)].status = "done"
                          /\ Views[SlotOf(of)].id = IdOf[of] /\ Views[SlotOf(of)].data = DataOf[of]
    BY <1>7, <1>8, <2>1, PlaceOf
  <2>3. \A i \in Slots : Views[i].status = "done" => \E of \in There : i = SlotOf(of)
    <3> SUFFICES ASSUME NEW i \in Slots, Views[i].status = "done"
                 PROVE \E of \in There : i = SlotOf(of)
      OBVIOUS
    <3>1. PICK of \in Items : i = SlotOf(of)
      BY PlaceOf
    <3>2. IsThere(of)
      BY <1>7, <1>8, <3>1
    <3>3. QED
      BY <3>1, <3>2 DEF There
  <2>4. repeated \subseteq seen
    BY <2>2
  <2>5. seen \subseteq repeated
    BY <2>2, <2>3
  <2>6. QED
    BY <2>4, <2>5
<1>13. OutputView' = seen
  BY <1>11, <1>12
<1>14. QED
  BY <1>4, <1>9, <1>10, <1>13 DEF Client!Complete, Views

LEMMA ClientStep ==
  ChatInv /\ ChatInv' /\ [ChatNext]_<<vars, said>>
    => Client!Fill \/ Client!Complete \/ UNCHANGED Client!rvars
<1> SUFFICES ASSUME ChatInv, ChatInv', [ChatNext]_<<vars, said>>
             PROVE Client!Fill \/ Client!Complete \/ UNCHANGED Client!rvars
  OBVIOUS
<1>1. ASSUME NEW c \in Chunks, WellFormed(c), Says(c), ChunkLine(c)
      PROVE  Client!Fill
  BY <1>1, ChunkSeen
<1>2. ASSUME NEW c \in Chunks, UsageLine(c) PROVE UNCHANGED Client!rvars
  BY <1>2, Unseen DEF UsageLine
<1>3. ASSUME said.finish # None, ~said.done, said' = [said EXCEPT !.done = TRUE], DoneLine
      PROVE  Client!Complete
  BY <1>3, DoneSeen
<1>4. ASSUME UNCHANGED said, HandleToolCallDelta PROVE Client!Fill
  BY <1>4, DeltaSeen
<1>5. ASSUME UNCHANGED said, HandleFinish PROVE Client!Fill
  BY <1>5, FinishSeen
<1>6. ASSUME UNCHANGED said, NEW i \in Index, CloseToolCall(i) PROVE Client!Fill
  BY <1>6, CloseSeen
<1>7. ASSUME EndOfStream PROVE UNCHANGED Client!rvars
  BY <1>7, Unseen DEF EndOfStream
<1>8. ASSUME UNCHANGED vars PROVE UNCHANGED Client!rvars
  BY <1>8, Unseen DEF vars
<1>9. QED
  BY <1>1, <1>2, <1>3, <1>4, <1>5, <1>6, <1>7, <1>8 DEF ChatNext, Finishing, Rest

LEMMA ClientInit == ChatInit => Client!RInit
<1> SUFFICES ASSUME ChatInit PROVE Client!RInit
  OBVIOUS
<1>1. events = <<>> /\ Len(events) = 0
  BY Short DEF ChatInit, Init
<1>2. Emitted = {}
  BY <1>1 DEF Emitted
<1>3. PhaseView = "none" /\ OutputView = {}
  BY <1>2 DEF PhaseView, OutputView, CompletedAt
<1>4. \A i \in Slots : SlotView(i) = [status |-> "absent", id |-> <<>>, data |-> <<>>]
  BY <1>2 DEF SlotView, At
<1>5. QED
  BY <1>3, <1>4 DEF Client!RInit

\* Whatever a well-formed upstream sends, and in whatever order the calls are
\* closed, what the client sees is what ResponseStream allows.
THEOREM ClientSeesResponse == ChatSpec => StreamKept
<1>1. ChatInit => Client!RInit
  BY ClientInit
<1>2. QED
  BY <1>1, ClientStep, ChatInductive, PTL DEF ChatSpec, StreamKept, Client!RSpec
=============================================================================
