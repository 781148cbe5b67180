----------------------------- MODULE SseProofs -----------------------------
(***************************************************************************)
(* For any set of chunks, in any order and number: every event is at the   *)
(* index of its item, every tool call is announced at most once, under an  *)
(* id it keeps, the response is opened once, ahead of everything numbered, *)
(* and completed at most once, and the numbers are dense.                  *)
(***************************************************************************)
EXTENDS SseTranslator, SequenceTheorems, FiniteSetTheorems, TLAPS

Framing == {"response.created", "response.in_progress", "response.completed"}
Announces(e) == e.of \in Index /\ e.type = "response.output_item.added"

\* The properties, of any sequence of events: it was opened if `open` and
\* completed only if `comp`; the calls announced are those `calls` says.
IsSeq(s) == \E S : s \in Seq(S)

Placed(e) == /\ e.of = Message => e.index = 0
             /\ e.of \in Index => e.index = e.of + 1

PlacedIn(s) == \A k \in 1..Len(s) : Placed(s[k])

AnnouncedIn(s, calls) ==
  /\ \A k \in 1..Len(s) : Announces(s[k]) => s[k].id # <<>> /\ calls[s[k].of].announced
  /\ \A j, k \in 1..Len(s) :
       Announces(s[j]) /\ Announces(s[k]) /\ s[j].of = s[k].of => j = k

FramedIn(s, open, comp) ==
  /\ \A k \in 1..Len(s) : s[k].type = "response.completed" => comp
  /\ \A k \in 1..Len(s) :
       ~open => s[k].type = "response.completed" /\ s[k].seq = Unnumbered
  /\ open => \E j \in 1..Len(s) : s[j].type = "response.in_progress"
  /\ \A j, k \in 1..Len(s) : s[j].type = s[k].type /\ s[k].type \in Framing => j = k
  /\ \A k \in 1..Len(s) :
       s[k].type = "response.in_progress" => k > 1 /\ s[k - 1].type = "response.created"
  /\ \A k \in 1..Len(s) :
       s[k].seq # Unnumbered => \E j \in 1..k : s[j].type = "response.in_progress"

GoodIn(s, open, comp, calls) ==
  IsSeq(s) /\ PlacedIn(s) /\ AnnouncedIn(s, calls) /\ FramedIn(s, open, comp)

\* Events that announce nothing and neither open nor complete the response.
Quiet(e) == Placed(e) /\ ~Announces(e) /\ e.type \notin Framing
QuietIn(t) == IsSeq(t) /\ \A k \in 1..Len(t) : Quiet(t[k])

\* The message item is there before anything of a tool call, and the response
\* before the message item.
MessageFirst ==
  /\ msg_item_added => msg_id # 0
  /\ tools # <<>> => msg_id # 0
  /\ \A i \in Index : tool_calls[i].known => msg_id # 0
  /\ \A i \in closing : tool_calls[i].known
  /\ msg_id # 0 => opened

ShapeInv == TypeOK /\ MessageFirst /\ GoodIn(events, opened, completed, tool_calls)

\* The numbers of a sequence of events are those below n, in order.
NumberedIn(s, n) ==
  /\ \A k \in 1..Len(s) : s[k].seq = Unnumbered \/ s[k].seq \in 0..(n - 1)
  /\ \A j, k \in 1..Len(s) :
       s[j].seq # Unnumbered /\ s[k].seq # Unnumbered /\ j < k => s[j].seq < s[k].seq
  /\ \A m \in 0..(n - 1) : \E k \in 1..Len(s) : s[k].seq = m

IInv == ShapeInv /\ NumberedIn(events, seq)

\* The marks of response and message are no index.
LEMMA NoIndex ==
  /\ Response \notin Index /\ Message \notin Index /\ Response # Message
  /\ \A i \in Index : i \in Nat
<1>1. Index \subseteq Nat
  BY SseAssumption
<1>2. QED
  BY <1>1 DEF Response, Message

-----------------------------------------------------------------------------
(* Sequences of events.                                                    *)

\* Where the elements of a concatenation come from.
LEMMA Concat ==
  ASSUME NEW s, NEW t, IsSeq(s), IsSeq(t)
  PROVE  /\ IsSeq(s \o t) /\ Len(s) \in Nat /\ Len(t) \in Nat
         /\ Len(s \o t) = Len(s) + Len(t)
         /\ \A k \in 1..Len(s) : k \in 1..Len(s \o t) /\ (s \o t)[k] = s[k]
         /\ \A k \in 1..Len(t) : /\ Len(s) + k \in 1..Len(s \o t)
                                 /\ (s \o t)[Len(s) + k] = t[k]
         /\ \A k \in 1..Len(s \o t) :
              \/ k \in 1..Len(s)
              \/ k > Len(s) /\ k - Len(s) \in 1..Len(t) /\ (s \o t)[k] = t[k - Len(s)]
<1>1. PICK S : s \in Seq(S)
  BY DEF IsSeq
<1>2. PICK T : t \in Seq(T)
  BY DEF IsSeq
<1> DEFINE U == S \cup T
<1>3. s \in Seq(U) /\ t \in Seq(U)
  BY <1>1, <1>2
<1> HIDE DEF U
<1>4. Len(s) \in Nat /\ Len(t) \in Nat
  BY <1>3, LenProperties
<1>5. /\ s \o t \in Seq(U) /\ Len(s \o t) = Len(s) + Len(t)
      /\ \A k \in 1..(Len(s) + Len(t)) :
           (s \o t)[k] = IF k <= Len(s) THEN s[k] ELSE t[k - Len(s)]
  BY <1>3, ConcatProperties
<1>6. IsSeq(s \o t)
  BY <1>5 DEF IsSeq
<1>7. QED
  BY <1>4, <1>5, <1>6

\* Sequences as short as the code writes them.
LEMMA Short ==
  ASSUME NEW a, NEW b, NEW c
  PROVE  /\ IsSeq(<<>>) /\ IsSeq(<<a>>) /\ IsSeq(<<a, b>>) /\ IsSeq(<<a, b, c>>)
         /\ Len(<<>>) = 0 /\ Len(<<a>>) = 1 /\ Len(<<a, b>>) = 2 /\ Len(<<a, b, c>>) = 3
<1>1. <<>> \in Seq({a}) /\ <<a>> \in Seq({a}) /\ <<a, b>> \in Seq({a, b})
  OBVIOUS
<1>2. <<a, b, c>> \in Seq({a, b, c})
  OBVIOUS
<1>3. QED
  BY <1>1, <1>2 DEF IsSeq

\* Events that open or complete nothing leave an open response as it was.
LEMMA FramedStep ==
  ASSUME NEW s, NEW t, NEW comp, IsSeq(s), IsSeq(t), FramedIn(s, TRUE, comp),
         \A k \in 1..Len(t) : t[k].type \notin Framing
  PROVE  FramedIn(s \o t, TRUE, comp)
<1> DEFINE u == s \o t
<1>1. /\ Len(s) \in Nat /\ Len(t) \in Nat /\ Len(u) = Len(s) + Len(t)
      /\ \A k \in 1..Len(s) : k \in 1..Len(u) /\ u[k] = s[k]
      /\ \A k \in 1..Len(u) : k \in 1..Len(s) \/ (u[k].type \notin Framing /\ k > Len(s))
  BY Concat
<1> HIDE DEF u
<1>2. PICK o \in 1..Len(s) : s[o].type = "response.in_progress"
  BY DEF FramedIn
<1>3. \A k \in 1..Len(u) : u[k].type = "response.completed" => comp
  BY <1>1 DEF FramedIn, Framing
<1>4. \A j, k \in 1..Len(u) : u[j].type = u[k].type /\ u[k].type \in Framing => j = k
  BY <1>1 DEF FramedIn
<1>5. ASSUME NEW k \in 1..Len(u), u[k].type = "response.in_progress"
      PROVE  k > 1 /\ u[k - 1].type = "response.created"
  <2>1. k \in 1..Len(s) /\ s[k].type = "response.in_progress"
    BY <1>1, <1>5 DEF Framing
  <2>2. k > 1 /\ s[k - 1].type = "response.created" /\ k - 1 \in 1..Len(s)
    BY <1>1, <2>1 DEF FramedIn
  <2>3. QED
    BY <1>1, <2>2
<1>6. ASSUME NEW k \in 1..Len(u), u[k].seq # Unnumbered
      PROVE  \E j \in 1..k : u[j].type = "response.in_progress"
  <2>1. CASE k \in 1..Len(s)
    <3>1. PICK j \in 1..k : s[j].type = "response.in_progress"
      BY <1>1, <1>6, <2>1 DEF FramedIn
    <3>2. QED
      BY <1>1, <2>1, <3>1
  <2>2. CASE k > Len(s)
    BY <1>1, <1>2, <2>2
  <2>3. QED
    BY <1>1, <2>1, <2>2
<1>7. \E j \in 1..Len(u) : u[j].type = "response.in_progress"
  BY <1>1, <1>2
<1>8. QED
  BY <1>3, <1>4, <1>5, <1>6, <1>7 DEF FramedIn, u

\* Events of no special kind change nothing once the response is open.
LEMMA Harmless ==
  ASSUME NEW s, NEW t, NEW comp, NEW calls,
         GoodIn(s, TRUE, comp, calls), QuietIn(t)
  PROVE  GoodIn(s \o t, TRUE, comp, calls)
<1> DEFINE u == s \o t
<1>1. /\ IsSeq(s) /\ FramedIn(s, TRUE, comp) /\ IsSeq(t)
      /\ \A k \in 1..Len(t) : Placed(t[k]) /\ ~Announces(t[k]) /\ t[k].type \notin Framing
  BY DEF GoodIn, QuietIn, Quiet
<1>2. /\ IsSeq(u)
      /\ \A k \in 1..Len(u) :
           (k \in 1..Len(s) /\ u[k] = s[k]) \/ (Placed(u[k]) /\ ~Announces(u[k]))
  BY <1>1, Concat
<1>3. FramedIn(u, TRUE, comp)
  BY <1>1, FramedStep
<1> HIDE DEF u
<1>4. PlacedIn(u)
  BY <1>2 DEF PlacedIn, GoodIn
<1>5. AnnouncedIn(u, calls)
  BY <1>2 DEF AnnouncedIn, GoodIn
<1>6. QED
  BY <1>2, <1>3, <1>4, <1>5 DEF GoodIn, u

\* open_response puts its two events ahead of everything but a completion.
LEMMA OpeningGood ==
  ASSUME TypeOK, NEW comp, NEW calls, GoodIn(events, opened, comp, calls)
  PROVE  GoodIn(events \o Opening, TRUE, comp, calls)
<1> DEFINE c == Event("response.created", Unnumbered, Response, 0, <<>>, <<>>)
           p == Event("response.in_progress", Unnumbered, Response, 0, <<>>, <<>>)
           u == events \o Opening
<1>1. Response \notin Index /\ Response # Message
  BY NoIndex
<1>2. /\ c.type = "response.created" /\ p.type = "response.in_progress"
      /\ c.seq = Unnumbered /\ p.seq = Unnumbered /\ c.of = Response /\ p.of = Response
  BY DEF Event
<1> HIDE DEF c, p
<1>3. CASE opened
  <2>1. Opening = <<>> /\ IsSeq(<<>>) /\ Len(<<>>) = 0
    BY <1>3, Short DEF Opening
  <2>2. QuietIn(<<>>)
    BY <2>1 DEF QuietIn
  <2>3. QED
    BY <1>3, <2>1, <2>2, Harmless
<1>4. CASE ~opened
  <2>1. Opening = <<c, p>> /\ IsSeq(<<c, p>>) /\ Len(<<c, p>>) = 2
    BY <1>4, Short DEF Opening, c, p
  <2>2. IsSeq(events)
    BY DEF GoodIn
  <2>3. /\ IsSeq(u) /\ Len(events) \in Nat /\ Len(u) = Len(events) + 2
        /\ \A k \in 1..Len(events) : k \in 1..Len(u) /\ u[k] = events[k]
        /\ u[Len(events) + 1] = c /\ u[Len(events) + 2] = p
    <3>1. /\ \A k \in 1..2 : Len(events) + k \in 1..Len(u) /\ u[Len(events) + k] = <<c, p>>[k]
          /\ IsSeq(u) /\ Len(events) \in Nat /\ Len(u) = Len(events) + 2
          /\ \A k \in 1..Len(events) : k \in 1..Len(u) /\ u[k] = events[k]
      BY <2>1, <2>2, Concat
    <3>2. <<c, p>>[1] = c /\ <<c, p>>[2] = p
      OBVIOUS
    <3>3. QED
      BY <3>1, <3>2
  <2> HIDE DEF u
  <2>4. \A k \in 1..Len(u) : \/ k \in 1..Len(events) /\ u[k] = events[k]
                             \/ k = Len(events) + 1 /\ u[k] = c
                             \/ k = Len(events) + 2 /\ u[k] = p
    BY <2>3
  <2>5. PlacedIn(u)
    BY <1>1, <1>2, <2>4 DEF PlacedIn, Placed, GoodIn
  <2>6. AnnouncedIn(u, calls)
    BY <1>1, <1>2, <2>4 DEF AnnouncedIn, Announces, GoodIn
  <2>7. FramedIn(u, TRUE, comp)
    <3>1. \A k \in 1..Len(events) : /\ events[k].type = "response.completed"
                                    /\ events[k].seq = Unnumbered /\ comp
      BY <1>4 DEF GoodIn, FramedIn
    <3>2. \A j, k \in 1..Len(events) : events[j].type = events[k].type => j = k
      BY <3>1 DEF GoodIn, FramedIn, Framing
    <3>3. \A j, k \in 1..Len(u) : u[j].type = u[k].type => j = k
      BY <1>2, <2>3, <2>4, <3>1, <3>2
    <3>4. \A k \in 1..Len(u) : /\ u[k].seq = Unnumbered
                               /\ u[k].type = "response.completed" => comp
                               /\ u[k].type = "response.in_progress" => k = Len(events) + 2
      BY <1>2, <2>4, <3>1
    <3>5. /\ Len(events) + 2 \in 1..Len(u) /\ u[Len(events) + 2].type = "response.in_progress"
          /\ (Len(events) + 2) - 1 = Len(events) + 1 /\ Len(events) + 2 > 1
          /\ u[Len(events) + 1].type = "response.created"
      BY <1>2, <2>3
    <3>6. QED
      BY <3>3, <3>4, <3>5 DEF FramedIn
  <2>8. QED
    BY <2>3, <2>5, <2>6, <2>7 DEF GoodIn, u
<1>5. QED
  BY <1>3, <1>4

\* A call that was not announced is, under an id.
LEMMA AnnounceGood ==
  ASSUME NEW s, NEW comp, NEW calls, NEW after, NEW e, NEW i \in Index,
         GoodIn(s, TRUE, comp, calls), Placed(e), Announces(e), e.of = i, e.id # <<>>,
         ~calls[i].announced, after[i].announced,
         \A j \in Index \ {i} : after[j] = calls[j]
  PROVE  GoodIn(s \o <<e>>, TRUE, comp, after)
<1> DEFINE u == s \o <<e>>
<1>1. IsSeq(s) /\ IsSeq(<<e>>) /\ Len(<<e>>) = 1 /\ <<e>>[1] = e
  BY Short DEF GoodIn
<1>2. /\ IsSeq(u) /\ Len(s) \in Nat /\ Len(u) = Len(s) + 1
      /\ \A k \in 1..Len(s) : k \in 1..Len(u) /\ u[k] = s[k]
      /\ \A k \in 1..1 : u[Len(s) + k] = <<e>>[k]
  BY <1>1, Concat
<1>3. \A k \in 1..Len(u) : \/ k \in 1..Len(s) /\ u[k] = s[k]
                           \/ k = Len(s) + 1 /\ u[k] = e
  BY <1>1, <1>2
<1> HIDE DEF u
<1>4. e.type \notin Framing
  BY DEF Announces, Framing
<1>5. PlacedIn(u)
  BY <1>3 DEF PlacedIn, GoodIn
<1>6. AnnouncedIn(u, after)
  <2>1. \A k \in 1..Len(s) : Announces(s[k]) => /\ s[k].of # i /\ s[k].of \in Index
                                                /\ s[k].id # <<>> /\ after[s[k].of].announced
    BY DEF GoodIn, AnnouncedIn, Announces
  <2>2. \A k \in 1..Len(u) : Announces(u[k]) => u[k].id # <<>> /\ after[u[k].of].announced
    BY <1>3, <2>1
  <2>3. \A j, k \in 1..Len(u) :
          Announces(u[j]) /\ Announces(u[k]) /\ u[j].of = u[k].of => j = k
    BY <1>3, <2>1 DEF GoodIn, AnnouncedIn
  <2>4. QED
    BY <2>2, <2>3 DEF AnnouncedIn
<1>7. FramedIn(u, TRUE, comp)
  <2>1. \A k \in 1..Len(<<e>>) : <<e>>[k].type \notin Framing
    BY <1>1, <1>4
  <2>2. FramedIn(s, TRUE, comp)
    BY DEF GoodIn
  <2>3. QED
    BY <1>1, <2>1, <2>2, FramedStep DEF u
<1>8. QED
  BY <1>2, <1>5, <1>6, <1>7 DEF GoodIn, u

\* The first completion is the only one.
LEMMA CompletedGood ==
  ASSUME NEW s, NEW open, NEW calls, NEW e, GoodIn(s, open, FALSE, calls),
         e.type = "response.completed", e.seq = Unnumbered, e.of = Response
  PROVE  GoodIn(Append(s, e), open, TRUE, calls)
<1> DEFINE u == Append(s, e)
<1>1. PICK S : s \in Seq(S)
  BY DEF GoodIn, IsSeq
<1>2. s \in Seq(S \cup {e}) /\ e \in S \cup {e}
  BY <1>1
<1>3. /\ u \in Seq(S \cup {e}) /\ Len(s) \in Nat /\ Len(u) = Len(s) + 1
      /\ \A k \in 1..Len(s) : u[k] = s[k]
      /\ u[Len(s) + 1] = e
  BY <1>2, AppendProperties, LenProperties
<1> HIDE DEF u
<1>4. \A k \in 1..Len(u) : \/ k \in 1..Len(s) /\ u[k] = s[k]
                           \/ k = Len(s) + 1 /\ u[k] = e
  BY <1>3
<1>5. IsSeq(u)
  BY <1>3 DEF IsSeq
<1>6. PlacedIn(u)
  BY <1>4, NoIndex DEF GoodIn, PlacedIn, Placed
<1>7. AnnouncedIn(u, calls)
  BY <1>4, NoIndex DEF GoodIn, AnnouncedIn, Announces
<1>8. FramedIn(u, open, TRUE)
  <2>1. FramedIn(s, open, FALSE)
    BY DEF GoodIn
  <2>2. \A k \in 1..Len(s) : s[k].type # "response.completed" /\ k \in 1..Len(u)
    BY <1>3, <2>1 DEF FramedIn
  <2>3. \A k \in 1..Len(u) : ~open => u[k].type = "response.completed" /\ u[k].seq = Unnumbered
    BY <1>4, <2>1 DEF FramedIn
  <2>4. open => \E j \in 1..Len(u) : u[j].type = "response.in_progress"
    BY <1>3, <2>1, <2>2 DEF FramedIn
  <2>5. \A j, k \in 1..Len(u) : u[j].type = u[k].type /\ u[k].type \in Framing => j = k
    BY <1>4, <2>1, <2>2 DEF FramedIn
  <2>6. ASSUME NEW k \in 1..Len(u), u[k].type = "response.in_progress"
        PROVE  k > 1 /\ u[k - 1].type = "response.created"
    <3>1. k \in 1..Len(s) /\ s[k].type = "response.in_progress"
      BY <1>4, <2>6
    <3>2. k > 1 /\ s[k - 1].type = "response.created" /\ k - 1 \in 1..Len(s)
      BY <1>3, <2>1, <3>1 DEF FramedIn
    <3>3. QED
      BY <1>3, <3>2
  <2>7. ASSUME NEW k \in 1..Len(u), u[k].seq # Unnumbered
        PROVE  \E j \in 1..k : u[j].type = "response.in_progress"
    <3>1. k \in 1..Len(s) /\ s[k].seq # Unnumbered
      BY <1>4, <2>7
    <3>2. PICK j \in 1..k : s[j].type = "response.in_progress"
      BY <2>1, <3>1 DEF FramedIn
    <3>3. QED
      BY <1>3, <3>1, <3>2
  <2>8. QED
    BY <2>3, <2>4, <2>5, <2>6, <2>7 DEF FramedIn
<1>9. QED
  BY <1>5, <1>6, <1>7, <1>8 DEF GoodIn, u

\* A call after a delta has its type, keeps what was announced, and has an id
\* once it is announced.
LEMMA CallType ==
  ASSUME NEW call \in Call, NEW tc \in ToolDelta
  PROVE  /\ CallAfter(call, tc) \in Call /\ CallAfter(call, tc).known
         /\ CallAfter(call, tc).announced = call.announced
         /\ ToolIndex(tc) \in Index
<1>1. ToolIndex(tc) \in Index
  BY SseAssumption DEF ToolIndex, ToolDelta
<1> DEFINE first == IF call.known THEN call.oai_id
                    ELSE IF tc.id # None THEN tc.id ELSE <<"gen", ToolIndex(tc)>>
<1>2. tc.id # None => tc.id \in Id
  BY DEF ToolDelta, Id
<1>3. call.oai_id \in Id /\ <<"gen", ToolIndex(tc)>> \in Id
  BY <1>1 DEF Call, Id
<1>4. first \in Id
  BY <1>2, <1>3
<1>5. (IF first = <<>> /\ tc.id # None THEN tc.id ELSE first) \in Id
  BY <1>2, <1>4
<1>6. (IF tc.name \notin {None, ""} THEN tc.name ELSE call.name) \in {""} \cup Name
  BY DEF ToolDelta, Call
<1>7. (IF tc.args = None THEN call.arguments ELSE Append(call.arguments, tc.args)) \in Seq(Token)
  <2>1. call.arguments \in Seq(Token) /\ (tc.args # None => tc.args \in Token)
    BY DEF ToolDelta, Call
  <2>2. QED
    BY <2>1, AppendProperties
<1>8. call.announced \in BOOLEAN
  BY DEF Call
<1>9. CallAfter(call, tc) \in Call
  BY <1>5, <1>6, <1>7, <1>8 DEF CallAfter, Call
<1>10. QED
  BY <1>1, <1>9 DEF CallAfter

\* One to three quiet events, as the actions write them.
LEMMA QuietShort ==
  ASSUME NEW a, NEW b, NEW c, Quiet(a), Quiet(b), Quiet(c)
  PROVE  QuietIn(<<>>) /\ QuietIn(<<a>>) /\ QuietIn(<<a, b>>) /\ QuietIn(<<a, b, c>>)
<1>1. /\ IsSeq(<<>>) /\ IsSeq(<<a>>) /\ IsSeq(<<a, b>>) /\ IsSeq(<<a, b, c>>)
      /\ Len(<<>>) = 0 /\ Len(<<a>>) = 1 /\ Len(<<a, b>>) = 2 /\ Len(<<a, b, c>>) = 3
  BY Short
<1>2. \A k \in 1..1 : <<a>>[k] = a
  OBVIOUS
<1>3. \A k \in 1..2 : <<a, b>>[k] \in {a, b}
  OBVIOUS
<1>4. \A k \in 1..3 : <<a, b, c>>[k] \in {a, b, c}
  OBVIOUS
<1>5. QuietIn(<<>>)
  BY <1>1 DEF QuietIn
<1>6. QuietIn(<<a>>)
  BY <1>1, <1>2 DEF QuietIn
<1>7. QuietIn(<<a, b>>)
  BY <1>1, <1>3 DEF QuietIn
<1>8. QuietIn(<<a, b, c>>)
  BY <1>1, <1>4 DEF QuietIn
<1>9. QED
  BY <1>5, <1>6, <1>7, <1>8

\* An event of the message item at index 0 is quiet.
LEMMA QuietMessage ==
  ASSUME NEW type, NEW n, NEW id, NEW data, type \notin Framing
  PROVE  Quiet(Event(type, n, Message, 0, id, data))
BY NoIndex DEF Quiet, Placed, Announces, Event

\* So is an event of a tool call that does not announce it, once the message
\* item has taken index 0.
LEMMA QuietCall ==
  ASSUME NEW type, NEW n, NEW i \in Index, NEW msg, NEW id, NEW data, msg # 0,
         type \notin Framing \cup {"response.output_item.added"}
  PROVE  Quiet(Event(type, n, i, OutputIndex(i, msg), id, data))
BY NoIndex DEF Quiet, Placed, Announces, Event, OutputIndex

\* What was announced is all that GoodIn asks of the calls.
LEMMA SameAnnounced ==
  ASSUME NEW s, NEW open, NEW comp, NEW calls, NEW after,
         GoodIn(s, open, comp, calls),
         \A j \in Index : after[j].announced = calls[j].announced
  PROVE  GoodIn(s, open, comp, after)
<1>1. AnnouncedIn(s, calls)
  BY DEF GoodIn
<1>2. AnnouncedIn(s, after)
  BY <1>1 DEF AnnouncedIn, Announces
<1>3. QED
  BY <1>2 DEF GoodIn

\* Events that take the next numbers, and events that take none.
LEMMA NumberedNext ==
  ASSUME NEW s, NEW t, NEW n \in Nat, IsSeq(s), IsSeq(t), NumberedIn(s, n),
         \A k \in 1..Len(t) : t[k].seq = n + k - 1
  PROVE  NumberedIn(s \o t, n + Len(t))
<1> DEFINE u == s \o t
           w == Len(t)
           v == Len(s)
<1>1. /\ v \in Nat /\ w \in Nat /\ Len(u) = v + w
      /\ \A k \in 1..v : k \in 1..Len(u) /\ u[k] = s[k]
      /\ \A k \in 1..w : v + k \in 1..Len(u) /\ u[v + k] = t[k]
      /\ \A k \in 1..Len(u) :
           k \in 1..v \/ (k > v /\ k - v \in 1..w /\ u[k] = t[k - v])
  BY Concat, SMTT(15)
<1> HIDE DEF u, v, w
<1>2. \A k \in 1..w : t[k].seq = n + k - 1
  BY DEF w
<1>3. ASSUME NEW k \in 1..Len(u), k \notin 1..v
      PROVE  k > v /\ k - v \in 1..w /\ u[k].seq = n + (k - v) - 1
  <2>1. k > v /\ k - v \in 1..w /\ u[k] = t[k - v]
    BY <1>1, <1>3
  <2>2. t[k - v].seq = n + (k - v) - 1
    BY <1>2, <2>1
  <2>3. QED
    BY <2>1, <2>2
<1>4. \A k \in 1..Len(u) : u[k].seq = Unnumbered \/ u[k].seq \in 0..((n + w) - 1)
  BY <1>1, <1>3 DEF NumberedIn, v
<1>5. \A k \in 1..v : s[k].seq = Unnumbered \/ s[k].seq \in 0..(n - 1)
  BY DEF NumberedIn, v
<1>6. ASSUME NEW j \in 1..Len(u), NEW k \in 1..Len(u), j < k,
             u[j].seq # Unnumbered, u[k].seq # Unnumbered
      PROVE  u[j].seq < u[k].seq
  <2>1. CASE k \in 1..v
    <3>1. j \in 1..v
      BY <1>1, <1>6, <2>1
    <3>2. s[j].seq < s[k].seq
      BY <1>1, <1>6, <2>1, <3>1 DEF NumberedIn, v
    <3>3. QED
      BY <1>1, <2>1, <3>1, <3>2
  <2>2. CASE k > v /\ j \in 1..v
    <3>1. u[j] = s[j] /\ u[j].seq \in 0..(n - 1)
      BY <1>1, <1>5, <1>6, <2>2
    <3>2. k \notin 1..v /\ k \in Int /\ v \in Int
      BY <1>1, <2>2
    <3>3. k - v \in 1..w /\ u[k].seq = n + (k - v) - 1
      BY <1>3, <3>2
    <3> DEFINE x == u[j].seq
               d == k - v
               y == u[k].seq
    <3>4. x \in 0..(n - 1) /\ d \in 1..w /\ y = n + d - 1
      BY <3>1, <3>3
    <3>5. n \in Nat /\ w \in Nat
      BY <1>1
    <3> HIDE DEF x, d, y
    <3>6. x < y
      BY <3>4, <3>5
    <3>7. QED
      BY <3>6 DEF x, y
  <2>3. CASE k > v /\ j > v
    <3>1. k \notin 1..v /\ j \notin 1..v
      BY <1>1, <2>3
    <3>2. u[k].seq = n + (k - v) - 1 /\ u[j].seq = n + (j - v) - 1
      BY <1>3, <3>1
    <3>3. j \in Int /\ k \in Int /\ v \in Int
      BY <1>1
    <3>4. QED
      BY <1>6, <3>2, <3>3
  <2>4. QED
    BY <1>1, <2>1, <2>2, <2>3
<1>7. ASSUME NEW m \in 0..((n + w) - 1)
      PROVE  \E k \in 1..Len(u) : u[k].seq = m
  <2>1. CASE m < n
    <3>1. m \in 0..(n - 1)
      BY <1>7, <2>1
    <3>2. PICK k \in 1..v : s[k].seq = m
      BY <3>1 DEF NumberedIn, v
    <3>3. QED
      BY <1>1, <3>2
  <2>2. CASE m >= n
    <3> DEFINE k == m - n + 1
    <3>1. k \in 1..w /\ n + k - 1 = m
      BY <1>1, <1>7, <2>2
    <3> HIDE DEF k
    <3>2. v + k \in 1..Len(u) /\ u[v + k].seq = m
      BY <1>1, <1>2, <3>1
    <3>3. QED
      BY <3>2
  <2>3. m < n \/ m >= n
    BY <1>7
  <2>4. QED
    BY <2>1, <2>2, <2>3
<1>8. QED
  BY <1>4, <1>6, <1>7 DEF NumberedIn, u, w

LEMMA NumberedSame ==
  ASSUME NEW s, NEW t, NEW n \in Nat, IsSeq(s), IsSeq(t), NumberedIn(s, n),
         \A k \in 1..Len(t) : t[k].seq = Unnumbered
  PROVE  NumberedIn(s \o t, n)
<1> DEFINE u == s \o t
           v == Len(s)
<1>1. /\ v \in Nat
      /\ \A k \in 1..v : k \in 1..Len(u) /\ u[k] = s[k]
      /\ \A k \in 1..Len(u) :
           k \in 1..v \/ (k > v /\ k - v \in 1..Len(t) /\ u[k] = t[k - v])
  BY Concat
<1> HIDE DEF u
<1>2. \A k \in 1..Len(u) : \/ k \in 1..v /\ u[k] = s[k]
                          \/ u[k].seq = Unnumbered
  BY <1>1
<1>3. \A m \in 0..(n - 1) : \E k \in 1..Len(u) : u[k].seq = m
  BY <1>1 DEF NumberedIn
<1>4. \A k \in 1..Len(u) : u[k].seq = Unnumbered \/ u[k].seq \in 0..(n - 1)
  BY <1>2 DEF NumberedIn, v
<1>5. \A j, k \in 1..Len(u) :
        u[j].seq # Unnumbered /\ u[k].seq # Unnumbered /\ j < k => u[j].seq < u[k].seq
  BY <1>2 DEF NumberedIn, v
<1>6. QED
  BY <1>3, <1>4, <1>5 DEF NumberedIn, u

\* One, two or three events with the next numbers.
LEMMA NumberedShort ==
  ASSUME NEW s, NEW n \in Nat, IsSeq(s), NumberedIn(s, n), NEW a, NEW b, NEW c,
         a.seq = n, b.seq = n + 1, c.seq = n + 2
  PROVE  /\ NumberedIn(s \o <<>>, n)
         /\ NumberedIn(s \o <<a>>, n + 1)
         /\ NumberedIn(s \o <<a, b>>, n + 2)
         /\ NumberedIn(s \o <<a, b, c>>, n + 3)
<1>1. /\ IsSeq(<<>>) /\ IsSeq(<<a>>) /\ IsSeq(<<a, b>>) /\ IsSeq(<<a, b, c>>)
      /\ Len(<<>>) = 0 /\ Len(<<a>>) = 1 /\ Len(<<a, b>>) = 2 /\ Len(<<a, b, c>>) = 3
  BY Short
<1>2. NumberedIn(s \o <<>>, n)
  <2>1. \A k \in 1..Len(<<>>) : <<>>[k].seq = Unnumbered
    BY <1>1
  <2>2. QED
    BY <1>1, <2>1, NumberedSame
<1>3. \A k \in 1..1 : <<a>>[k].seq = n + k - 1
  <2>1. \A k \in 1..1 : k = 1
    OBVIOUS
  <2>2. <<a>>[1] = a
    OBVIOUS
  <2>3. QED
    BY <2>1, <2>2
<1>4. \A k \in 1..2 : <<a, b>>[k].seq = n + k - 1
  <2>1. \A k \in 1..2 : k = 1 \/ k = 2
    OBVIOUS
  <2>2. <<a, b>>[1] = a /\ <<a, b>>[2] = b
    OBVIOUS
  <2>3. QED
    BY <2>1, <2>2
<1>5. \A k \in 1..3 : <<a, b, c>>[k].seq = n + k - 1
  <2>1. \A k \in 1..3 : k = 1 \/ k = 2 \/ k = 3
    OBVIOUS
  <2>2. <<a, b, c>>[1] = a /\ <<a, b, c>>[2] = b /\ <<a, b, c>>[3] = c
    OBVIOUS
  <2>3. QED
    BY <2>1, <2>2
<1>6. NumberedIn(s \o <<a>>, n + 1)
  BY <1>1, <1>3, NumberedNext
<1>7. NumberedIn(s \o <<a, b>>, n + 2)
  BY <1>1, <1>4, NumberedNext
<1>8. NumberedIn(s \o <<a, b, c>>, n + 3)
  BY <1>1, <1>5, NumberedNext
<1>9. QED
  BY <1>2, <1>6, <1>7, <1>8

-----------------------------------------------------------------------------
(* The steps.                                                              *)

LEMMA Bounded == MaxLines \in Nat
BY SseAssumption

LEMMA InitInv == Init => ShapeInv
<1> SUFFICES ASSUME Init PROVE ShapeInv
  OBVIOUS
<1>1. TypeOK
  <2>1. NoCall \in Call
    BY DEF NoCall, Call, Id
  <2>2. tool_calls \in [Index -> Call]
    BY <2>1 DEF Init
  <2>3. lines \in 0..MaxLines
    BY Bounded DEF Init
  <2>4. /\ text_acc \in Seq(Token) /\ tools \in Seq(ToolDelta)
    BY DEF Init
  <2>5. QED
    BY <2>2, <2>3, <2>4 DEF Init, TypeOK
<1>2. MessageFirst
  BY DEF Init, MessageFirst, NoCall
<1>3. IsSeq(<<>>) /\ Len(<<>>) = 0
  BY Short
<1>4. GoodIn(events, opened, completed, tool_calls)
  BY <1>3 DEF Init, GoodIn, PlacedIn, AnnouncedIn, FramedIn
<1>5. QED
  BY <1>1, <1>2, <1>4 DEF ShapeInv

\* Text and the opening of items: the response first, then the message.
LEMMA ChunkInv ==
  ASSUME ShapeInv, NEW c \in Chunks, ChunkLine(c)
  PROVE  ShapeInv'
<1> DEFINE adds  == ~msg_item_added /\ (c.content # None \/ c.array)
           msg   == IF adds THEN msg_id + 1 ELSE msg_id
           at    == IF adds THEN seq + 2 ELSE seq
           delta == IF c.content = None THEN <<>>
                    ELSE <<Event("response.output_text.delta", at, Message, 0,
                                 MsgId(msg), <<c.content>>)>>
           added == IF adds THEN MessageAdded(seq, msg) ELSE <<>>
<1>1. /\ Reading /\ events' = ((events \o Opening) \o added) \o delta
      /\ seq' = at + Len(delta) /\ msg_id' = msg
      /\ msg_item_added' = (msg_item_added \/ adds)
      /\ opened' = TRUE
      /\ text_acc' = IF c.content = None THEN text_acc ELSE Append(text_acc, c.content)
      /\ usage' = IF c.usage = None THEN usage ELSE c.usage
      /\ tools' = c.tools /\ finish' = c.finish /\ lines' = lines + 1
      /\ UNCHANGED <<tool_calls, finish_reason, completed, done, closing>>
  BY DEF ChunkLine
<1>2. TypeOK /\ MessageFirst /\ GoodIn(events, opened, completed, tool_calls)
  BY DEF ShapeInv
<1>3. /\ c \in Chunk /\ (c.tools # <<>> => c.array)
  BY SseAssumption
<1>4. /\ c.content \in {None} \cup Token /\ c.tools \in Seq(ToolDelta)
      /\ c.finish \in {None} \cup Reason /\ c.usage \in {None} \cup Usage
  BY <1>3 DEF Chunk
<1>5. GoodIn(events \o Opening, TRUE, completed, tool_calls)
  BY <1>2, OpeningGood
<1>6. QuietIn(added) /\ QuietIn(delta) /\ Len(delta) \in Nat
  <2>1. /\ "response.output_item.added" \notin Framing
        /\ "response.content_part.added" \notin Framing
        /\ "response.output_text.delta" \notin Framing
    BY DEF Framing
  <2>2. QuietIn(MessageAdded(seq, msg))
    BY <2>1, QuietMessage, QuietShort DEF MessageAdded
  <2>3. QuietIn(<<Event("response.output_text.delta", at, Message, 0, MsgId(msg), <<c.content>>)>>)
    BY <2>1, QuietMessage, QuietShort
  <2>4. QuietIn(<<>>)
    BY <2>1, QuietMessage, QuietShort
  <2>5. QuietIn(added) /\ QuietIn(delta)
    BY <2>2, <2>3, <2>4
  <2>6. Len(delta) \in Nat
    BY Short
  <2>7. QED
    BY <2>5, <2>6
<1> HIDE DEF added, delta
<1>7. GoodIn(((events \o Opening) \o added) \o delta, TRUE, completed, tool_calls)
  BY <1>5, <1>6, Harmless
<1>8. GoodIn(events', opened', completed', tool_calls')
  BY <1>1, <1>7
<1>9. MessageFirst'
  <2>1. msg_id \in Nat
    BY <1>2 DEF TypeOK
  <2>2. (msg_id # 0 => msg # 0) /\ (adds => msg # 0)
    BY <2>1
  <2>3. c.tools # <<>> => adds \/ msg_item_added
    BY <1>3
  <2> HIDE DEF adds, msg
  <2>4. QED
    BY <1>1, <1>2, <2>2, <2>3 DEF MessageFirst
<1>10. TypeOK'
  <2>1. text_acc' \in Seq(Token)
    BY <1>1, <1>2, <1>4 DEF TypeOK
  <2>2. seq' \in Nat /\ msg_id' \in Nat /\ msg_item_added' \in BOOLEAN /\ opened' \in BOOLEAN
    BY <1>1, <1>2, <1>6 DEF TypeOK
  <2>3. lines' \in 0..MaxLines
    BY <1>1, <1>2, Bounded DEF TypeOK, Reading
  <2>4. usage' \in {None} \cup Usage /\ tools' \in Seq(ToolDelta) /\ finish' \in {None} \cup Reason
    BY <1>1, <1>2, <1>4 DEF TypeOK
  <2>5. QED
    BY <1>1, <1>2, <2>1, <2>2, <2>3, <2>4 DEF TypeOK
<1>11. QED
  BY <1>8, <1>9, <1>10 DEF ShapeInv

LEMMA UsageInv ==
  ASSUME ShapeInv, NEW c \in Chunks, UsageLine(c)
  PROVE  ShapeInv'
<1>1. c.usage \in {None} \cup Usage
  BY SseAssumption DEF Chunk
<1>2. TypeOK'
  BY <1>1, Bounded DEF ShapeInv, TypeOK, UsageLine, Reading
<1>3. MessageFirst'
  BY DEF ShapeInv, MessageFirst, UsageLine
<1>4. GoodIn(events', opened', completed', tool_calls')
  BY DEF ShapeInv, UsageLine
<1>5. QED
  BY <1>2, <1>3, <1>4 DEF ShapeInv

\* A delta announces its call at most once, under the call's id, and the
\* message item has index 0 by then.
LEMMA DeltaInv ==
  ASSUME ShapeInv, HandleToolCallDelta
  PROVE  ShapeInv'
<1> DEFINE tc   == Head(tools)
           i    == ToolIndex(tc)
           call == CallAfter(tool_calls[i], tc)
           ann  == ShouldAnnounce(call, tc)
           at   == OutputIndex(i, msg_id)
           new  == Event("response.output_item.added", seq, i, at,
                         call.oai_id, <<call.name>>)
           item == IF ~ann THEN <<>> ELSE <<new>>
           args == IF tc.args = None THEN <<>>
                   ELSE <<Event("response.function_call_arguments.delta",
                                seq + Len(item), i, at, call.oai_id, <<tc.args>>)>>
           after == [tool_calls EXCEPT ![i] = [call EXCEPT !.announced = @ \/ ann]]
<1>1. /\ tools # <<>> /\ tool_calls' = after
      /\ events' = (events \o item) \o args
      /\ seq' = seq + Len(item) + Len(args)
      /\ tools' = Tail(tools)
      /\ UNCHANGED <<msg_id, opened, msg_item_added, text_acc, usage, finish_reason,
                     completed, done, finish, closing, lines>>
  BY DEF HandleToolCallDelta
<1>2. TypeOK /\ MessageFirst /\ GoodIn(events, opened, completed, tool_calls)
  BY DEF ShapeInv
<1>3. msg_id # 0 /\ opened
  BY <1>1, <1>2 DEF MessageFirst
<1>4. tc \in ToolDelta /\ Tail(tools) \in Seq(ToolDelta)
  BY <1>1, <1>2, HeadTailProperties DEF TypeOK
<1>5. i \in Index
  BY <1>4, SseAssumption DEF ToolIndex, ToolDelta
<1>6. /\ tool_calls[i] \in Call /\ call \in Call /\ call.known
      /\ call.announced = tool_calls[i].announced
  BY <1>2, <1>4, <1>5, CallType DEF TypeOK
<1>7. ann \in BOOLEAN /\ (ann => ~call.announced /\ call.oai_id # <<>>)
  BY DEF ShouldAnnounce
<1> HIDE DEF tc, i, call, ann
<1>8. [call EXCEPT !.announced = @ \/ ann] \in Call
  BY <1>6, <1>7 DEF Call
<1>9. /\ after \in [Index -> Call] /\ after[i].known
      /\ after[i].announced = (tool_calls[i].announced \/ ann)
      /\ \A j \in Index \ {i} : after[j] = tool_calls[j]
  <2>1. tool_calls \in [Index -> Call]
    BY <1>2 DEF TypeOK
  <2>2. after[i] = [call EXCEPT !.announced = @ \/ ann]
    BY <1>5, <2>1
  <2>3. after[i].known = call.known /\ after[i].announced = (call.announced \/ ann)
    BY <1>6, <2>2 DEF Call
  <2>4. after \in [Index -> Call] /\ \A j \in Index \ {i} : after[j] = tool_calls[j]
    BY <1>5, <1>8, <2>1
  <2>5. QED
    BY <1>6, <2>3, <2>4
<1> HIDE DEF after
<1>10. GoodIn(events \o item, TRUE, completed, after)
  <2>1. GoodIn(events, TRUE, completed, tool_calls)
    BY <1>2, <1>3
  <2>2. CASE ann
    <3>1. Placed(new) /\ Announces(new) /\ new.of = i /\ new.id # <<>>
      BY <1>3, <1>5, <1>7, <2>2, NoIndex DEF Placed, Announces, Event, OutputIndex
    <3>2. ~tool_calls[i].announced /\ after[i].announced
      BY <1>6, <1>7, <1>9, <2>2
    <3> HIDE DEF new
    <3>3. GoodIn(events \o <<new>>, TRUE, completed, after)
      BY <1>5, <1>9, <2>1, <3>1, <3>2, AnnounceGood
    <3>4. QED
      BY <2>2, <3>3
  <2>3. CASE ~ann
    <3>1. \A j \in Index : after[j].announced = tool_calls[j].announced
      <4>1. tool_calls[i].announced \in BOOLEAN
        BY <1>6 DEF Call
      <4>2. after[i].announced = tool_calls[i].announced
        BY <1>9, <2>3, <4>1
      <4>3. QED
        BY <1>9, <4>2
    <3>2. GoodIn(events, TRUE, completed, after)
      BY <2>1, <3>1, SameAnnounced
    <3>3. QuietIn(<<>>)
      <4>1. IsSeq(<<>>) /\ Len(<<>>) = 0
        BY Short
      <4>2. QED
        BY <4>1 DEF QuietIn
    <3>4. GoodIn(events \o <<>>, TRUE, completed, after)
      BY <3>2, <3>3, Harmless
    <3>5. QED
      BY <2>3, <3>4
  <2>4. QED
    BY <2>2, <2>3
<1>11. QuietIn(args) /\ Len(args) \in Nat /\ Len(item) \in Nat
  <2>1. "response.function_call_arguments.delta"
          \notin Framing \cup {"response.output_item.added"}
    BY DEF Framing
  <2>2. Quiet(Event("response.function_call_arguments.delta", seq + Len(item), i, at,
                    call.oai_id, <<tc.args>>))
    BY <1>3, <1>5, <2>1, QuietCall
  <2>3. QuietIn(args)
    BY <2>2, QuietShort
  <2>4. QED
    BY <2>3, Short
<1> HIDE DEF item, args
<1>12. GoodIn(events', opened', completed', tool_calls')
  BY <1>1, <1>3, <1>10, <1>11, Harmless
<1>13. MessageFirst'
  <2>1. \A j \in Index : tool_calls[j].known => after[j].known
    BY <1>9
  <2>2. closing \subseteq Index
    BY <1>2 DEF TypeOK
  <2>3. QED
    BY <1>1, <1>2, <1>3, <2>1, <2>2 DEF MessageFirst
<1>14. TypeOK'
  BY <1>1, <1>2, <1>4, <1>9, <1>11 DEF TypeOK
<1>15. QED
  BY <1>12, <1>13, <1>14 DEF ShapeInv

\* Closing the message item and looking for the calls to close.
LEMMA FinishInv ==
  ASSUME ShapeInv, HandleFinish
  PROVE  ShapeInv'
<1> DEFINE a == Event("response.output_text.done", seq, Message, 0, MsgId(msg_id), text_acc)
           b == Event("response.content_part.done", seq + 1, Message, 0,
                      MsgId(msg_id), text_acc)
           c == Event("response.output_item.done", seq + 2, Message, 0,
                      MsgId(msg_id), text_acc)
<1>1. /\ tools = <<>> /\ finish # None
      /\ msg_item_added => events' = events \o <<a, b, c>> /\ seq' = seq + 3
      /\ ~msg_item_added => UNCHANGED <<events, seq>>
      /\ msg_item_added' = FALSE
      /\ closing' = {i \in Index : tool_calls[i].known}
      /\ finish_reason' = finish /\ finish' = None
      /\ UNCHANGED <<msg_id, opened, text_acc, tool_calls, usage, completed, done,
                     tools, lines>>
  BY DEF HandleFinish
<1>2. TypeOK /\ MessageFirst /\ GoodIn(events, opened, completed, tool_calls)
  BY DEF ShapeInv
<1>3. QuietIn(<<a, b, c>>)
  <2>1. /\ "response.output_text.done" \notin Framing
        /\ "response.content_part.done" \notin Framing
        /\ "response.output_item.done" \notin Framing
    BY DEF Framing
  <2>2. Quiet(a) /\ Quiet(b) /\ Quiet(c)
    BY <2>1, QuietMessage
  <2>3. QED
    BY <2>2, QuietShort
<1> HIDE DEF a, b, c
<1>4. GoodIn(events', opened', completed', tool_calls')
  <2>1. CASE msg_item_added
    <3>1. opened
      BY <1>2, <2>1 DEF MessageFirst
    <3>2. GoodIn(events, TRUE, completed, tool_calls)
      BY <1>2, <3>1
    <3>3. GoodIn(events \o <<a, b, c>>, TRUE, completed, tool_calls)
      BY <1>3, <3>2, Harmless
    <3>4. QED
      BY <1>1, <2>1, <3>1, <3>3
  <2>2. CASE ~msg_item_added
    BY <1>1, <1>2, <2>2
  <2>3. QED
    BY <2>1, <2>2
<1>5. MessageFirst'
  BY <1>1, <1>2 DEF MessageFirst
<1>6. TypeOK'
  <2>1. seq' \in Nat
    BY <1>1, <1>2 DEF TypeOK
  <2>2. finish_reason' \in {None} \cup Reason /\ closing' \subseteq Index
    BY <1>1, <1>2 DEF TypeOK
  <2>3. QED
    BY <1>1, <1>2, <2>1, <2>2 DEF TypeOK
<1>7. QED
  BY <1>4, <1>5, <1>6 DEF ShapeInv

\* Closing one call.
LEMMA CloseInv ==
  ASSUME ShapeInv, NEW i \in Index, CloseToolCall(i)
  PROVE  ShapeInv'
<1> DEFINE call == tool_calls[i]
           at   == OutputIndex(i, msg_id)
           e    == Event("response.function_call_arguments.done", seq, i, at,
                         call.oai_id, call.arguments)
           args == IF call.arguments = <<>> THEN <<>> ELSE <<e>>
           d    == Event("response.output_item.done", seq + Len(args), i, at,
                         call.oai_id, call.arguments)
<1>1. /\ i \in closing
      /\ events' = (events \o args) \o <<d>> /\ seq' = seq + Len(args) + 1
      /\ closing' = closing \ {i}
      /\ UNCHANGED <<msg_id, opened, msg_item_added, text_acc, tool_calls, usage,
                     finish_reason, completed, done, tools, finish, lines>>
  BY DEF CloseToolCall
<1>2. TypeOK /\ MessageFirst /\ GoodIn(events, opened, completed, tool_calls)
  BY DEF ShapeInv
<1>3. msg_id # 0 /\ opened
  BY <1>1, <1>2 DEF MessageFirst
<1>4. QuietIn(args) /\ QuietIn(<<d>>) /\ Len(args) \in Nat
  <2>1. /\ "response.function_call_arguments.done"
              \notin Framing \cup {"response.output_item.added"}
        /\ "response.output_item.done" \notin Framing \cup {"response.output_item.added"}
    BY DEF Framing
  <2>2. Quiet(e) /\ Quiet(d)
    BY <1>3, <2>1, QuietCall
  <2> HIDE DEF e, d
  <2>3. QuietIn(<<e>>) /\ QuietIn(<<d>>) /\ QuietIn(<<>>)
    BY <2>2, QuietShort
  <2>4. QED
    BY <2>3, Short
<1> HIDE DEF args, d
<1>5. GoodIn(events', opened', completed', tool_calls')
  <2>1. GoodIn(events, TRUE, completed, tool_calls)
    BY <1>2, <1>3
  <2>2. GoodIn(events \o args, TRUE, completed, tool_calls)
    BY <1>4, <2>1, Harmless
  <2>3. GoodIn((events \o args) \o <<d>>, TRUE, completed, tool_calls)
    BY <1>4, <2>2, Harmless
  <2>4. QED
    BY <1>1, <1>3, <2>3
<1>6. MessageFirst'
  BY <1>1, <1>2 DEF MessageFirst
<1>7. TypeOK'
  BY <1>1, <1>2, <1>4 DEF TypeOK
<1>8. QED
  BY <1>5, <1>6, <1>7 DEF ShapeInv

\* [DONE]: only the first one completes.
LEMMA DoneInv ==
  ASSUME ShapeInv, DoneLine
  PROVE  ShapeInv'
<1> DEFINE e == [type |-> "response.completed", seq |-> Unnumbered, of |-> Response,
                 status |-> IF finish_reason = "length" THEN "incomplete" ELSE "completed",
                 output |-> Output, usage |-> usage]
<1>1. /\ Reading
      /\ completed => events' = events
      /\ ~completed => events' = Append(events, e)
      /\ completed' = TRUE /\ lines' = lines + 1
      /\ UNCHANGED <<seq, msg_id, opened, msg_item_added, text_acc, tool_calls,
                     usage, finish_reason, done, tools, finish, closing>>
  BY DEF DoneLine
<1>2. TypeOK /\ MessageFirst /\ GoodIn(events, opened, completed, tool_calls)
  BY DEF ShapeInv
<1>3. e.type = "response.completed" /\ e.seq = Unnumbered /\ e.of = Response
  OBVIOUS
<1> HIDE DEF e
<1>4. GoodIn(events', opened', completed', tool_calls')
  <2>1. CASE completed
    BY <1>1, <1>2, <2>1 DEF TypeOK
  <2>2. CASE ~completed
    <3>1. GoodIn(events, opened, FALSE, tool_calls)
      BY <1>2, <2>2 DEF TypeOK
    <3>2. GoodIn(Append(events, e), opened, TRUE, tool_calls)
      BY <1>3, <3>1, CompletedGood
    <3>3. QED
      BY <1>1, <2>2, <3>2
  <2>3. QED
    BY <2>1, <2>2
<1>5. MessageFirst'
  BY <1>1, <1>2 DEF MessageFirst
<1>6. TypeOK'
  BY <1>1, <1>2, Bounded DEF TypeOK, Reading
<1>7. QED
  BY <1>4, <1>5, <1>6 DEF ShapeInv

LEMMA StepInv == ShapeInv /\ [Next]_vars => ShapeInv'
<1> SUFFICES ASSUME ShapeInv, [Next]_vars PROVE ShapeInv'
  OBVIOUS
<1>1. ASSUME NEW c \in Chunks, ChunkLine(c) PROVE ShapeInv'
  BY <1>1, ChunkInv
<1>2. ASSUME NEW c \in Chunks, UsageLine(c) PROVE ShapeInv'
  BY <1>2, UsageInv
<1>3. CASE DoneLine
  BY <1>3, DoneInv
<1>4. CASE HandleToolCallDelta
  BY <1>4, DeltaInv
<1>5. CASE HandleFinish
  BY <1>5, FinishInv
<1>6. ASSUME NEW i \in Index, CloseToolCall(i) PROVE ShapeInv'
  BY <1>6, CloseInv
<1>7. CASE EndOfStream
  BY <1>7 DEF EndOfStream, ShapeInv, TypeOK, MessageFirst
<1>8. CASE UNCHANGED vars
  BY <1>8 DEF vars, ShapeInv, TypeOK, MessageFirst
<1>9. QED
  BY <1>1, <1>2, <1>3, <1>4, <1>5, <1>6, <1>7, <1>8 DEF Next, Line, Finishing, Rest

-----------------------------------------------------------------------------
(* The numbers.                                                            *)

LEMMA InitNumbered == Init => NumberedIn(events, seq)
<1> SUFFICES ASSUME Init PROVE NumberedIn(events, seq)
  OBVIOUS
<1>1. events = <<>> /\ Len(<<>>) = 0 /\ seq = 0
  BY Short DEF Init
<1>2. QED
  BY <1>1 DEF NumberedIn

LEMMA NumberedOne ==
  ASSUME NEW s, NEW n \in Nat, IsSeq(s), NumberedIn(s, n), NEW a, a.seq = n
  PROVE  NumberedIn(s \o <<>>, n) /\ NumberedIn(s \o <<a>>, n + 1)
<1> DEFINE y == [seq |-> n + 1]
           z == [seq |-> n + 2]
<1>1. y.seq = n + 1 /\ z.seq = n + 2
  OBVIOUS
<1> HIDE DEF y, z
<1>2. QED
  BY <1>1, NumberedShort

LEMMA ChunkNumbered ==
  ASSUME IInv, NEW c \in Chunks, ChunkLine(c)
  PROVE  NumberedIn(events', seq')
<1> DEFINE adds  == ~msg_item_added /\ (c.content # None \/ c.array)
           msg   == IF adds THEN msg_id + 1 ELSE msg_id
           at    == IF adds THEN seq + 2 ELSE seq
           d     == Event("response.output_text.delta", at, Message, 0,
                          MsgId(msg), <<c.content>>)
           delta == IF c.content = None THEN <<>> ELSE <<d>>
           a     == Event("response.output_item.added", seq, Message, 0, MsgId(msg), <<>>)
           b     == Event("response.content_part.added", seq + 1, Message, 0, MsgId(msg), <<>>)
           added == IF adds THEN <<a, b>> ELSE <<>>
           s     == events \o Opening
           r     == s \o added
<1>1. events' = r \o delta /\ seq' = at + Len(delta)
  BY DEF ChunkLine, MessageAdded
<1>2. IsSeq(events) /\ seq \in Nat /\ NumberedIn(events, seq)
  BY DEF IInv, ShapeInv, GoodIn, TypeOK
<1>3. IsSeq(s) /\ NumberedIn(s, seq)
  <2> DEFINE x == Event("response.created", Unnumbered, Response, 0, <<>>, <<>>)
             y == Event("response.in_progress", Unnumbered, Response, 0, <<>>, <<>>)
  <2>1. x.seq = Unnumbered /\ y.seq = Unnumbered
    BY DEF Event
  <2>2. Opening = <<>> \/ Opening = <<x, y>>
    BY DEF Opening
  <2> HIDE DEF x, y
  <2>3. IsSeq(Opening)
    BY <2>2, Short
  <2>4. \A k \in 1..Len(Opening) : Opening[k].seq = Unnumbered
    <3>1. CASE Opening = <<>>
      <4>1. Len(Opening) = 0
        BY <3>1, Short
      <4>2. QED
        BY <4>1
    <3>2. CASE Opening = <<x, y>>
      <4>1. Len(Opening) = 2 /\ Opening[1] = x /\ Opening[2] = y
        BY <3>2
      <4>2. \A k \in 1..2 : k = 1 \/ k = 2
        OBVIOUS
      <4>3. QED
        BY <2>1, <4>1, <4>2
    <3>3. QED
      BY <2>2, <3>1, <3>2
  <2>5. QED
    BY <1>2, <2>3, <2>4, Concat, NumberedSame
<1>4. a.seq = seq /\ b.seq = seq + 1 /\ d.seq = at
  BY DEF Event
<1> HIDE DEF s, a, b, d
<1>5. IsSeq(r) /\ NumberedIn(r, at) /\ at \in Nat
  <2> DEFINE z == [seq |-> seq + 2]
  <2>1. z.seq = seq + 2
    OBVIOUS
  <2> HIDE DEF z
  <2>2. NumberedIn(s \o <<>>, seq) /\ NumberedIn(s \o <<a, b>>, seq + 2)
    BY <1>2, <1>3, <1>4, <2>1, NumberedShort
  <2>3. IsSeq(s \o <<>>) /\ IsSeq(s \o <<a, b>>)
    BY <1>3, Short, Concat
  <2>4. CASE adds
    <3>1. r = s \o <<a, b>> /\ at = seq + 2
      BY <2>4
    <3>2. QED
      BY <1>2, <2>2, <2>3, <3>1
  <2>5. CASE ~adds
    <3>1. r = s \o <<>> /\ at = seq
      BY <2>5
    <3>2. QED
      BY <1>2, <2>2, <2>3, <3>1
  <2>6. QED
    BY <2>4, <2>5
<1> HIDE DEF r, at
<1>6. NumberedIn(r \o <<>>, at) /\ NumberedIn(r \o <<d>>, at + 1)
  BY <1>4, <1>5, NumberedOne
<1>7. Len(<<>>) = 0 /\ Len(<<d>>) = 1
  BY Short
<1>8. CASE c.content = None
  BY <1>1, <1>5, <1>6, <1>7, <1>8
<1>9. CASE c.content # None
  BY <1>1, <1>5, <1>6, <1>7, <1>9
<1>10. QED
  BY <1>8, <1>9

\* One event or none, then one event or none.
LEMMA NumberedTwice ==
  ASSUME NEW s, NEW n \in Nat, IsSeq(s), NumberedIn(s, n), NEW a, NEW b, NEW t, NEW w,
         t \in {<<>>, <<a>>}, w \in {<<>>, <<b>>}, a.seq = n, b.seq = n + Len(t)
  PROVE  NumberedIn((s \o t) \o w, n + Len(t) + Len(w)) /\ Len(t) \in Nat /\ Len(w) \in Nat
<1>1. Len(<<>>) = 0 /\ Len(<<a>>) = 1 /\ Len(<<b>>) = 1 /\ IsSeq(<<>>) /\ IsSeq(<<a>>)
  BY Short
<1>2. NumberedIn(s \o <<>>, n) /\ NumberedIn(s \o <<a>>, n + 1)
  BY NumberedOne
<1>3. NumberedIn(s \o t, n + Len(t)) /\ IsSeq(s \o t) /\ n + Len(t) \in Nat
  <2>1. IsSeq(s \o t)
    BY <1>1, Concat
  <2>2. CASE t = <<>>
    BY <1>1, <1>2, <2>1, <2>2
  <2>3. CASE t = <<a>>
    BY <1>1, <1>2, <2>1, <2>3
  <2>4. QED
    BY <2>2, <2>3
<1> DEFINE r == s \o t
           m == n + Len(t)
<1>4. NumberedIn(r, m) /\ IsSeq(r) /\ m \in Nat /\ b.seq = m
  BY <1>3
<1> HIDE DEF r, m
<1>5. NumberedIn(r \o <<>>, m) /\ NumberedIn(r \o <<b>>, m + 1)
  BY <1>4, NumberedOne
<1>6. NumberedIn(r \o w, m + Len(w))
  <2>1. CASE w = <<>>
    BY <1>1, <1>4, <1>5, <2>1
  <2>2. CASE w = <<b>>
    BY <1>1, <1>4, <1>5, <2>2
  <2>3. QED
    BY <2>1, <2>2
<1>7. QED
  BY <1>1, <1>6 DEF r, m

LEMMA DeltaNumbered ==
  ASSUME IInv, HandleToolCallDelta
  PROVE  NumberedIn(events', seq')
<1> DEFINE tc   == Head(tools)
           i    == ToolIndex(tc)
           call == CallAfter(tool_calls[i], tc)
           ann  == ShouldAnnounce(call, tc)
           at   == OutputIndex(i, msg_id)
           a    == Event("response.output_item.added", seq, i, at,
                         call.oai_id, <<call.name>>)
           item == IF ~ann THEN <<>> ELSE <<a>>
           b    == Event("response.function_call_arguments.delta",
                         seq + Len(item), i, at, call.oai_id, <<tc.args>>)
           args == IF tc.args = None THEN <<>> ELSE <<b>>
<1>1. events' = (events \o item) \o args /\ seq' = seq + Len(item) + Len(args)
  BY DEF HandleToolCallDelta
<1>2. a.seq = seq /\ b.seq = seq + Len(item)
  BY DEF Event
<1>3. item \in {<<>>, <<a>>} /\ args \in {<<>>, <<b>>}
  OBVIOUS
<1>4. IsSeq(events) /\ seq \in Nat /\ NumberedIn(events, seq)
  BY DEF IInv, ShapeInv, GoodIn, TypeOK
<1> HIDE DEF a, b, item, args
<1>5. NumberedIn((events \o item) \o args, seq + Len(item) + Len(args))
  BY <1>2, <1>3, <1>4, NumberedTwice
<1>6. QED
  BY <1>1, <1>5

LEMMA CloseNumbered ==
  ASSUME IInv, NEW i \in Index, CloseToolCall(i)
  PROVE  NumberedIn(events', seq')
<1> DEFINE call == tool_calls[i]
           at   == OutputIndex(i, msg_id)
           a    == Event("response.function_call_arguments.done", seq, i, at,
                         call.oai_id, call.arguments)
           args == IF call.arguments = <<>> THEN <<>> ELSE <<a>>
           b    == Event("response.output_item.done", seq + Len(args), i, at,
                         call.oai_id, call.arguments)
           item == <<b>>
<1>1. events' = (events \o args) \o item /\ seq' = seq + Len(args) + 1
  BY DEF CloseToolCall
<1>2. a.seq = seq /\ b.seq = seq + Len(args)
  BY DEF Event
<1>3. args \in {<<>>, <<a>>} /\ item \in {<<>>, <<b>>}
  OBVIOUS
<1>4. IsSeq(events) /\ seq \in Nat /\ NumberedIn(events, seq)
  BY DEF IInv, ShapeInv, GoodIn, TypeOK
<1> HIDE DEF a, b, args
<1>5. Len(item) = 1
  BY Short
<1> HIDE DEF item
<1>6. NumberedIn((events \o args) \o item, seq + Len(args) + Len(item))
  BY <1>2, <1>3, <1>4, NumberedTwice
<1>7. QED
  BY <1>1, <1>5, <1>6

LEMMA FinishNumbered ==
  ASSUME IInv, HandleFinish
  PROVE  NumberedIn(events', seq')
<1> DEFINE a == Event("response.output_text.done", seq, Message, 0, MsgId(msg_id), text_acc)
           b == Event("response.content_part.done", seq + 1, Message, 0,
                      MsgId(msg_id), text_acc)
           c == Event("response.output_item.done", seq + 2, Message, 0,
                      MsgId(msg_id), text_acc)
<1>1. IF msg_item_added THEN events' = events \o <<a, b, c>> /\ seq' = seq + 3
                        ELSE UNCHANGED <<events, seq>>
  BY DEF HandleFinish
<1>2. a.seq = seq /\ b.seq = seq + 1 /\ c.seq = seq + 2
  BY DEF Event
<1> HIDE DEF a, b, c
<1>3. IsSeq(events) /\ seq \in Nat /\ NumberedIn(events, seq)
  BY DEF IInv, ShapeInv, GoodIn, TypeOK
<1>4. NumberedIn(events \o <<a, b, c>>, seq + 3)
  BY <1>2, <1>3, NumberedShort
<1>5. QED
  BY <1>1, <1>3, <1>4

LEMMA DoneNumbered ==
  ASSUME IInv, DoneLine
  PROVE  NumberedIn(events', seq')
<1> DEFINE e == [type |-> "response.completed", seq |-> Unnumbered, of |-> Response,
                 status |-> IF finish_reason = "length" THEN "incomplete" ELSE "completed",
                 output |-> Output, usage |-> usage]
<1>1. events' \in {events, Append(events, e)} /\ seq' = seq
  BY DEF DoneLine
<1>2. e.seq = Unnumbered
  OBVIOUS
<1> HIDE DEF e
<1>3. seq \in Nat /\ NumberedIn(events, seq)
  BY DEF IInv, ShapeInv, TypeOK
<1>4. PICK S : events \in Seq(S)
  BY DEF IInv, ShapeInv, GoodIn, IsSeq
<1>5. /\ Len(events) \in Nat /\ Len(Append(events, e)) = Len(events) + 1
      /\ \A k \in 1..Len(events) : Append(events, e)[k] = events[k]
      /\ Append(events, e)[Len(events) + 1] = e
  BY <1>4, AppendProperties, LenProperties
<1>6. CASE events' = Append(events, e)
  <2>1. \A k \in 1..Len(events') : \/ k \in 1..Len(events) /\ events'[k] = events[k]
                                   \/ events'[k].seq = Unnumbered
    BY <1>2, <1>5, <1>6
  <2>2. \A m \in 0..(seq - 1) : \E k \in 1..Len(events') : events'[k].seq = m
    <3> SUFFICES ASSUME NEW m \in 0..(seq - 1)
                 PROVE  \E k \in 1..Len(events') : events'[k].seq = m
      OBVIOUS
    <3>1. PICK k \in 1..Len(events) : events[k].seq = m
      BY <1>3 DEF NumberedIn
    <3>2. k \in 1..Len(events') /\ events'[k] = events[k]
      BY <1>5, <1>6
    <3>3. QED
      BY <3>1, <3>2
  <2>3. \A k \in 1..Len(events') : events'[k].seq = Unnumbered \/ events'[k].seq \in 0..(seq - 1)
    BY <1>3, <2>1 DEF NumberedIn
  <2>4. \A j, k \in 1..Len(events') :
          events'[j].seq # Unnumbered /\ events'[k].seq # Unnumbered /\ j < k
          => events'[j].seq < events'[k].seq
    BY <1>3, <2>1 DEF NumberedIn
  <2>5. QED
    BY <1>1, <2>2, <2>3, <2>4 DEF NumberedIn
<1>7. CASE events' = events
  BY <1>1, <1>3, <1>7
<1>8. QED
  BY <1>1, <1>6, <1>7

LEMMA StepNumbered == IInv /\ [Next]_vars => NumberedIn(events', seq')
<1> SUFFICES ASSUME IInv, [Next]_vars PROVE NumberedIn(events', seq')
  OBVIOUS
<1>1. ASSUME NEW c \in Chunks, ChunkLine(c) PROVE NumberedIn(events', seq')
  BY <1>1, ChunkNumbered
<1>2. CASE HandleToolCallDelta
  BY <1>2, DeltaNumbered
<1>3. CASE HandleFinish
  BY <1>3, FinishNumbered
<1>4. ASSUME NEW i \in Index, CloseToolCall(i) PROVE NumberedIn(events', seq')
  BY <1>4, CloseNumbered
<1>5. CASE DoneLine
  BY <1>5, DoneNumbered
<1>6. CASE UNCHANGED <<events, seq>>
  BY <1>6 DEF IInv
<1>7. ASSUME NEW c \in Chunks, UsageLine(c) PROVE UNCHANGED <<events, seq>>
  BY <1>7 DEF UsageLine
<1>8. EndOfStream \/ UNCHANGED vars => UNCHANGED <<events, seq>>
  BY DEF EndOfStream, vars
<1>9. QED
  BY <1>1, <1>2, <1>3, <1>4, <1>5, <1>6, <1>7, <1>8 DEF Next, Line, Finishing, Rest

-----------------------------------------------------------------------------
(* The results.                                                            *)

\* Whatever chunks the upstream sends, the invariant holds in every state of
\* the translator.
THEOREM Inductive == Spec => []IInv
<1>1. Init => IInv
  BY InitInv, InitNumbered DEF IInv
<1>2. IInv /\ [Next]_vars => IInv'
  BY StepInv, StepNumbered DEF IInv
<1>3. QED
  BY <1>1, <1>2, PTL DEF Spec

\* Every variable keeps its type.
THEOREM TypeCorrect == Spec => []TypeOK
<1>1. IInv => TypeOK
  BY DEF IInv, ShapeInv
<1>2. QED
  BY <1>1, Inductive, PTL

\* Indices never shift mid-stream: no tool call is written about before the
\* message item has taken index 0 (process_line, msg_offset).
THEOREM IndicesStay == Spec => []IndicesNeverShift
<1>1. IInv => IndicesNeverShift
  BY DEF IInv, ShapeInv, GoodIn, PlacedIn, Placed, IndicesNeverShift, Emitted
<1>2. QED
  BY <1>1, Inductive, PTL

\* The response is opened once, ahead of every numbered event, and completed
\* at most once (open_response, emit_completed).
THEOREM FramedAtMostOnce == Spec => []FramedOnce
<1>1. ASSUME FramedIn(events, opened, completed), Len(events) \in Nat
      PROVE  FramedOnce
  <2> SUFFICES ASSUME NEW k \in Emitted
               PROVE  LET type == events[k].type
                          first == {j \in 1..k : events[j].type = type}
                      IN /\ type \in Framing => first = {k}
                         /\ type = "response.in_progress" =>
                              k > 1 /\ events[k - 1].type = "response.created"
                         /\ events[k].seq # Unnumbered =>
                              \E j \in 1..k : events[j].type = "response.in_progress"
    BY DEF FramedOnce, Framing
  <2>1. k \in 1..Len(events) /\ \A j \in 1..k : j \in 1..Len(events)
    BY <1>1 DEF Emitted
  <2>2. events[k].type \in Framing => {j \in 1..k : events[j].type = events[k].type} = {k}
    BY <1>1, <2>1 DEF FramedIn
  <2>3. QED
    BY <1>1, <2>1, <2>2 DEF FramedIn
<1>2. IInv => FramedOnce
  <2> SUFFICES ASSUME IInv PROVE FramedOnce
    OBVIOUS
  <2>1. PICK S : events \in Seq(S)
    BY DEF IInv, ShapeInv, GoodIn, IsSeq
  <2>2. Len(events) \in Nat
    BY <2>1, LenProperties
  <2>3. QED
    BY <1>1, <2>2 DEF IInv, ShapeInv, GoodIn
<1>3. QED
  BY <1>2, Inductive, PTL

\* However lines are mixed, numbered events carry 0, 1, 2, ... in the order
\* they are written (emit_with_seq).
THEOREM NumbersAreDense == Spec => []SequenceDense
<1>1. IInv => SequenceDense
  <2> SUFFICES ASSUME IInv PROVE SequenceDense
    OBVIOUS
  <2> DEFINE numbered == {k \in Emitted : events[k].seq # Unnumbered}
  <2>1. NumberedIn(events, seq) /\ seq \in Nat
    BY DEF IInv, ShapeInv, TypeOK
  <2>2. \A j, k \in numbered : j < k => events[j].seq < events[k].seq
    BY <2>1 DEF NumberedIn, Emitted
  <2>3. \A k \in numbered : events[k].seq \in 0..(seq - 1)
    BY <2>1 DEF NumberedIn, Emitted
  <2>4. \A m \in 0..(seq - 1) : m # Unnumbered
    BY <2>1 DEF Unnumbered
  <2>5. \A m \in 0..(seq - 1) : \E k \in numbered : events[k].seq = m
    BY <2>1, <2>4 DEF NumberedIn, Emitted
  <2> HIDE DEF numbered
  <2>6. {events[k].seq : k \in numbered} = 0..(seq - 1)
    BY <2>3, <2>5
  <2>7. QED
    BY <2>2, <2>6 DEF SequenceDense, numbered
<1>2. QED
  BY <1>1, Inductive, PTL

-----------------------------------------------------------------------------
(* A tool call keeps the first id it was given.                            *)

\* An event about a tool call carries the id the call has.
Carries(e, calls) == e.of \in Index => e.id = calls[e.of].oai_id

\* Events about a call carry the id it has now, or none; once one carries an
\* id, all later ones do.
IdsIn(s, calls) ==
  /\ \A k \in 1..Len(s) : s[k].of \in Index => s[k].id \in {<<>>, calls[s[k].of].oai_id}
  /\ \A j, k \in 1..Len(s) :
       j < k /\ s[j].of \in Index /\ s[k].of = s[j].of /\ s[j].id # <<>> =>
         s[k].id = s[j].id

IdInv ==
  /\ ShapeInv
  /\ IdsIn(events, tool_calls)
  /\ \A i \in Index : ~tool_calls[i].known => tool_calls[i].oai_id = <<>>

\* Ids only change from none to some.
Keeps(calls, after) ==
  \A i \in Index : calls[i].oai_id # <<>> => after[i].oai_id = calls[i].oai_id

LEMMA IdsNext ==
  ASSUME NEW s, NEW t, NEW calls, NEW after, IsSeq(s), IsSeq(t), IdsIn(s, calls),
         Keeps(calls, after), \A k \in 1..Len(t) : Carries(t[k], after)
  PROVE  IdsIn(s \o t, after)
<1> DEFINE u == s \o t
           v == Len(s)
<1>1. /\ v \in Nat
      /\ \A k \in 1..Len(u) : \/ k \in 1..v /\ u[k] = s[k]
                              \/ k > v /\ k - v \in 1..Len(t) /\ u[k] = t[k - v]
  <2>1. /\ v \in Nat /\ (\A k \in 1..v : u[k] = s[k])
        /\ \A k \in 1..Len(u) : \/ k \in 1..v
                                \/ k > v /\ k - v \in 1..Len(t) /\ u[k] = t[k - v]
    BY Concat
  <2> HIDE DEF u, v
  <2>2. QED
    BY <2>1
<1> HIDE DEF u
<1>2. \A k \in 1..Len(u) : \/ k \in 1..v /\ u[k] = s[k]
                           \/ k > v /\ Carries(u[k], after)
  BY <1>1
<1>3. \A k \in 1..v : s[k].of \in Index => \/ s[k].id = <<>>
                                           \/ s[k].id = after[s[k].of].oai_id
  BY DEF IdsIn, Keeps
<1>4. \A k \in 1..Len(u) : u[k].of \in Index => u[k].id \in {<<>>, after[u[k].of].oai_id}
  BY <1>2, <1>3 DEF Carries
<1>5. ASSUME NEW j \in 1..Len(u), NEW k \in 1..Len(u), j < k, u[j].of \in Index,
             u[k].of = u[j].of, u[j].id # <<>>
      PROVE  u[k].id = u[j].id
  <2>1. CASE k \in 1..v /\ u[k] = s[k]
    <3>1. j \in 1..v /\ u[j] = s[j]
      BY <1>1, <1>2, <1>5, <2>1
    <3>2. QED
      BY <1>5, <2>1, <3>1 DEF IdsIn
  <2>2. CASE Carries(u[k], after)
    <3>1. u[j].id = after[u[j].of].oai_id
      BY <1>4, <1>5
    <3>2. QED
      BY <1>5, <2>2, <3>1 DEF Carries
  <2>3. QED
    BY <1>2, <2>1, <2>2
<1>6. QED
  BY <1>4, <1>5 DEF IdsIn, u

\* One to three events, as the actions write them.
LEMMA IdsShort ==
  ASSUME NEW s, NEW calls, NEW after, IsSeq(s), IdsIn(s, calls), Keeps(calls, after),
         NEW a, NEW b, NEW c, Carries(a, after), Carries(b, after), Carries(c, after),
         NEW t, t \in {<<>>, <<a>>, <<a, b>>, <<a, b, c>>}
  PROVE  IsSeq(s \o t) /\ IdsIn(s \o t, after)
<1>1. IsSeq(t)
  <2>1. IsSeq(<<>>) /\ IsSeq(<<a>>) /\ IsSeq(<<a, b>>) /\ IsSeq(<<a, b, c>>)
    BY Short
  <2>2. QED
    BY <2>1
<1>2. \A k \in 1..Len(t) : t[k] \in {a, b, c}
  <2>1. CASE t = <<>>
    <3>1. Len(t) = 0
      BY <2>1
    <3>2. QED
      BY <3>1
  <2>2. CASE t = <<a>>
    BY <2>2
  <2>3. CASE t = <<a, b>>
    BY <2>3
  <2>4. CASE t = <<a, b, c>>
    BY <2>4
  <2>5. QED
    BY <2>1, <2>2, <2>3, <2>4
<1>3. IsSeq(s \o t)
  BY <1>1, Concat
<1>4. QED
  BY <1>1, <1>2, <1>3, IdsNext

LEMMA InitIds == Init => IdInv
<1> SUFFICES ASSUME Init PROVE IdInv
  OBVIOUS
<1>1. events = <<>> /\ Len(<<>>) = 0
  BY Short DEF Init
<1>2. IdsIn(events, tool_calls)
  BY <1>1 DEF IdsIn
<1>3. \A i \in Index : tool_calls[i].oai_id = <<>>
  BY DEF Init, NoCall
<1>4. QED
  BY <1>2, <1>3, InitInv DEF IdInv

\* The events of a chunk's text are about no tool call.
LEMMA ChunkIds ==
  ASSUME IdInv, NEW c \in Chunks, ChunkLine(c)
  PROVE  IdsIn(events', tool_calls')
<1> DEFINE adds  == ~msg_item_added /\ (c.content # None \/ c.array)
           msg   == IF adds THEN msg_id + 1 ELSE msg_id
           at    == IF adds THEN seq + 2 ELSE seq
           d     == Event("response.output_text.delta", at, Message, 0,
                          MsgId(msg), <<c.content>>)
           delta == IF c.content = None THEN <<>> ELSE <<d>>
           a     == Event("response.output_item.added", seq, Message, 0, MsgId(msg), <<>>)
           b     == Event("response.content_part.added", seq + 1, Message, 0, MsgId(msg), <<>>)
           added == IF adds THEN <<a, b>> ELSE <<>>
           x     == Event("response.created", Unnumbered, Response, 0, <<>>, <<>>)
           y     == Event("response.in_progress", Unnumbered, Response, 0, <<>>, <<>>)
           s     == events \o Opening
           r     == s \o added
<1>1. events' = r \o delta /\ tool_calls' = tool_calls
  BY DEF ChunkLine, MessageAdded
<1>2. IsSeq(events) /\ IdsIn(events, tool_calls) /\ Keeps(tool_calls, tool_calls)
  BY DEF IdInv, ShapeInv, GoodIn, Keeps
<1>3. /\ Carries(x, tool_calls) /\ Carries(y, tool_calls) /\ Carries(a, tool_calls)
      /\ Carries(b, tool_calls) /\ Carries(d, tool_calls)
  BY NoIndex DEF Carries, Event
<1>4. /\ Opening \in {<<>>, <<x>>, <<x, y>>, <<x, y, x>>}
      /\ added \in {<<>>, <<a>>, <<a, b>>, <<a, b, a>>}
      /\ delta \in {<<>>, <<d>>, <<d, d>>, <<d, d, d>>}
  BY DEF Opening
<1> HIDE DEF a, b, d, x, y, added, delta
<1>5. IsSeq(s) /\ IdsIn(s, tool_calls)
  BY <1>2, <1>3, <1>4, IdsShort
<1> HIDE DEF s
<1>6. IsSeq(r) /\ IdsIn(r, tool_calls)
  BY <1>2, <1>3, <1>4, <1>5, IdsShort
<1> HIDE DEF r
<1>7. IdsIn(r \o delta, tool_calls)
  BY <1>2, <1>3, <1>4, <1>6, IdsShort
<1>8. QED
  BY <1>1, <1>7

\* A delta may give a call its id, and changes none; its events carry the id
\* the call then has.
LEMMA DeltaIds ==
  ASSUME IdInv, HandleToolCallDelta
  PROVE  /\ IdsIn(events', tool_calls')
         /\ \A i \in Index : ~tool_calls'[i].known => tool_calls'[i].oai_id = <<>>
<1> DEFINE tc   == Head(tools)
           i    == ToolIndex(tc)
           call == CallAfter(tool_calls[i], tc)
           ann  == ShouldAnnounce(call, tc)
           at   == OutputIndex(i, msg_id)
           new  == Event("response.output_item.added", seq, i, at,
                         call.oai_id, <<call.name>>)
           item == IF ~ann THEN <<>> ELSE <<new>>
           d    == Event("response.function_call_arguments.delta",
                         seq + Len(item), i, at, call.oai_id, <<tc.args>>)
           args == IF tc.args = None THEN <<>> ELSE <<d>>
           after == [tool_calls EXCEPT ![i] = [call EXCEPT !.announced = @ \/ ann]]
           r    == events \o item
<1>1. tools # <<>> /\ tool_calls' = after /\ events' = r \o args
  BY DEF HandleToolCallDelta
<1>2. /\ IsSeq(events) /\ IdsIn(events, tool_calls) /\ TypeOK
      /\ \A j \in Index : ~tool_calls[j].known => tool_calls[j].oai_id = <<>>
  BY DEF IdInv, ShapeInv, GoodIn
<1>3. tc \in ToolDelta
  BY <1>1, <1>2, HeadTailProperties DEF TypeOK
<1>4. i \in Index
  BY <1>3, SseAssumption DEF ToolIndex, ToolDelta
<1>5. tool_calls[i] \in Call /\ tool_calls \in [Index -> Call]
  BY <1>2, <1>4 DEF TypeOK
<1>6. call \in Call /\ call.known
  BY <1>3, <1>5, CallType
<1>7. tool_calls[i].oai_id # <<>> => call.oai_id = tool_calls[i].oai_id
  <2>1. tool_calls[i].oai_id # <<>> => tool_calls[i].known
    BY <1>2, <1>4
  <2>2. QED
    BY <2>1 DEF CallAfter
<1>8. /\ new.of = i /\ new.id = call.oai_id /\ d.of = i /\ d.id = call.oai_id
  BY DEF Event
<1>9. /\ item \in {<<>>, <<new>>, <<new, new>>, <<new, new, new>>}
      /\ args \in {<<>>, <<d>>, <<d, d>>, <<d, d, d>>}
  OBVIOUS
<1> HIDE DEF tc, i, call, ann, new, item, d, args
<1>10. /\ after[i].oai_id = call.oai_id /\ after[i].known
       /\ \A j \in Index \ {i} : after[j] = tool_calls[j]
  <2>1. after[i] = [call EXCEPT !.announced = @ \/ ann]
    BY <1>4, <1>5
  <2>2. after[i].oai_id = call.oai_id /\ after[i].known = call.known
    BY <1>6, <2>1 DEF Call
  <2>3. QED
    BY <1>4, <1>5, <1>6, <2>2
<1> HIDE DEF after
<1>11. Keeps(tool_calls, after) /\ Keeps(after, after)
  BY <1>7, <1>10 DEF Keeps
<1>12. Carries(new, after) /\ Carries(d, after)
  BY <1>8, <1>10 DEF Carries
<1>13. IsSeq(r) /\ IdsIn(r, after)
  BY <1>2, <1>9, <1>11, <1>12, IdsShort
<1> HIDE DEF r
<1>14. IdsIn(r \o args, after)
  BY <1>9, <1>11, <1>12, <1>13, IdsShort
<1>15. \A j \in Index : ~after[j].known => after[j].oai_id = <<>>
  BY <1>2, <1>10
<1>16. QED
  BY <1>1, <1>14, <1>15

LEMMA FinishIds ==
  ASSUME IdInv, HandleFinish
  PROVE  IdsIn(events', tool_calls')
<1> DEFINE a == Event("response.output_text.done", seq, Message, 0, MsgId(msg_id), text_acc)
           b == Event("response.content_part.done", seq + 1, Message, 0,
                      MsgId(msg_id), text_acc)
           c == Event("response.output_item.done", seq + 2, Message, 0,
                      MsgId(msg_id), text_acc)
<1>1. /\ msg_item_added => events' = events \o <<a, b, c>>
      /\ ~msg_item_added => events' = events
      /\ tool_calls' = tool_calls
  BY DEF HandleFinish
<1>2. IsSeq(events) /\ IdsIn(events, tool_calls) /\ Keeps(tool_calls, tool_calls)
  BY DEF IdInv, ShapeInv, GoodIn, Keeps
<1>3. Carries(a, tool_calls) /\ Carries(b, tool_calls) /\ Carries(c, tool_calls)
  BY NoIndex DEF Carries, Event
<1> HIDE DEF a, b, c
<1>4. IdsIn(events \o <<a, b, c>>, tool_calls)
  BY <1>2, <1>3, IdsShort
<1>5. QED
  BY <1>1, <1>2, <1>4

LEMMA CloseIds ==
  ASSUME IdInv, NEW i \in Index, CloseToolCall(i)
  PROVE  IdsIn(events', tool_calls')
<1> DEFINE call == tool_calls[i]
           at   == OutputIndex(i, msg_id)
           e    == Event("response.function_call_arguments.done", seq, i, at,
                         call.oai_id, call.arguments)
           args == IF call.arguments = <<>> THEN <<>> ELSE <<e>>
           d    == Event("response.output_item.done", seq + Len(args), i, at,
                         call.oai_id, call.arguments)
           r    == events \o args
<1>1. events' = r \o <<d>> /\ tool_calls' = tool_calls
  BY DEF CloseToolCall
<1>2. IsSeq(events) /\ IdsIn(events, tool_calls) /\ Keeps(tool_calls, tool_calls)
  BY DEF IdInv, ShapeInv, GoodIn, Keeps
<1>3. Carries(e, tool_calls) /\ Carries(d, tool_calls)
  BY DEF Carries, Event
<1>4. args \in {<<>>, <<e>>, <<e, e>>, <<e, e, e>>}
  OBVIOUS
<1> HIDE DEF e, args, d
<1>5. IsSeq(r) /\ IdsIn(r, tool_calls)
  BY <1>2, <1>3, <1>4, IdsShort
<1> HIDE DEF r
<1>6. IdsIn(r \o <<d>>, tool_calls)
  BY <1>2, <1>3, <1>5, IdsShort
<1>7. QED
  BY <1>1, <1>6

LEMMA DoneIds ==
  ASSUME IdInv, DoneLine
  PROVE  IdsIn(events', tool_calls')
<1> DEFINE e == [type |-> "response.completed", seq |-> Unnumbered, of |-> Response,
                 status |-> IF finish_reason = "length" THEN "incomplete" ELSE "completed",
                 output |-> Output, usage |-> usage]
<1>1. /\ completed => events' = events
      /\ ~completed => events' = Append(events, e)
      /\ tool_calls' = tool_calls
  BY DEF DoneLine
<1>2. /\ IsSeq(events) /\ TypeOK /\ IdsIn(events, tool_calls)
      /\ Keeps(tool_calls, tool_calls)
  BY DEF IdInv, ShapeInv, GoodIn, Keeps
<1>3. Carries(e, tool_calls)
  BY NoIndex DEF Carries
<1> HIDE DEF e
<1>4. Append(events, e) = events \o <<e>>
  <2>1. PICK S : events \in Seq(S)
    BY <1>2 DEF IsSeq
  <2>2. events \in Seq(S \cup {e}) /\ e \in S \cup {e}
    BY <2>1
  <2>3. QED
    BY <2>2, AppendIsConcat
<1>5. IdsIn(events \o <<e>>, tool_calls)
  BY <1>2, <1>3, IdsShort
<1>6. QED
  BY <1>1, <1>2, <1>4, <1>5 DEF TypeOK

LEMMA StepIds == IdInv /\ [Next]_vars => IdInv'
<1> DEFINE Kept == /\ IdsIn(events', tool_calls')
                   /\ \A i \in Index : ~tool_calls'[i].known => tool_calls'[i].oai_id = <<>>
<1> SUFFICES ASSUME IdInv, [Next]_vars PROVE ShapeInv' /\ Kept
  BY DEF IdInv
<1>1. ShapeInv'
  BY StepInv DEF IdInv
<1>2. ASSUME NEW c \in Chunks, ChunkLine(c) PROVE Kept
  BY <1>2, ChunkIds DEF ChunkLine, IdInv
<1>3. ASSUME NEW c \in Chunks, UsageLine(c) PROVE Kept
  BY <1>3 DEF UsageLine, IdInv
<1>4. ASSUME DoneLine PROVE Kept
  BY <1>4, DoneIds DEF DoneLine, IdInv
<1>5. ASSUME HandleToolCallDelta PROVE Kept
  BY <1>5, DeltaIds
<1>6. ASSUME HandleFinish PROVE Kept
  BY <1>6, FinishIds DEF HandleFinish, IdInv
<1>7. ASSUME NEW i \in Index, CloseToolCall(i) PROVE Kept
  BY <1>7, CloseIds DEF CloseToolCall, IdInv
<1>8. ASSUME EndOfStream PROVE Kept
  BY <1>8 DEF EndOfStream, IdInv
<1>9. ASSUME UNCHANGED vars PROVE Kept
  BY <1>9 DEF vars, IdInv
<1> HIDE DEF Kept
<1>10. Kept
  BY <1>2, <1>3, <1>4, <1>5, <1>6, <1>7, <1>8, <1>9 DEF Next, Line, Finishing, Rest
<1>11. QED
  BY <1>1, <1>10

\* A tool call is announced at most once, never without an id, and keeps the
\* first id it was given, in however many pieces and under however many ids it
\* comes (should_announce, handle_tool_call_delta).
THEOREM AnnouncedAtMostOnce == Spec => []AnnouncedOnce
<1>1. Init => IdInv
  BY InitIds
<1>2. IdInv => AnnouncedOnce
  BY DEF IdInv, IdsIn, ShapeInv, GoodIn, AnnouncedIn, Announces, AnnouncedOnce, Emitted
<1>3. QED
  BY <1>1, <1>2, StepIds, PTL DEF Spec

-----------------------------------------------------------------------------
(* text_acc and the arguments of each call are, at every moment, the       *)
(* pieces of the deltas emitted for messages and for that call.            *)

Rank(at, j) == Cardinality({h \in at : h <= j})

\* All that was streamed of `of`.
Content(s, of) == Pieces(s, DeltasIn(s, of, Len(s)))

\* The k-th event repeats what the events before it streamed.
Repeats(s, k) ==
  /\ s[k].type \in Sealing => s[k].data = Pieces(s, DeltasIn(s, s[k].of, k))
  /\ s[k].type = "response.completed" =>
       \A o \in s[k].output : o.data = Pieces(s, DeltasIn(s, o.of, k))

RepeatedIn(s) == \A k \in 1..Len(s) : Repeats(s, k)

AccumulatedIn(s, text, calls) ==
  /\ Content(s, Message) = text
  /\ \A i \in Index : Content(s, i) = calls[i].arguments

TextInv == ShapeInv /\ RepeatedIn(events) /\ AccumulatedIn(events, text_acc, tool_calls)

-----------------------------------------------------------------------------
(* Positions and pieces.                                                   *)

\* Ranks count the members of a finite set of numbers from 1 on.
LEMMA Ranks ==
  ASSUME NEW at, IsFiniteSet(at), at \subseteq Nat
  PROVE  /\ Cardinality(at) \in Nat
         /\ \A j \in at : Rank(at, j) \in 1..Cardinality(at)
         /\ \A i, j \in at : i < j => Rank(at, i) < Rank(at, j)
         /\ \A n \in 1..Cardinality(at) : \E j \in at : Rank(at, j) = n
<1> DEFINE below(j) == {h \in at : h <= j}
           c == Cardinality(at)
<1>1. c \in Nat
  BY FS_CardinalityType
<1>2. ASSUME NEW j \in at
      PROVE  /\ IsFiniteSet(below(j)) /\ Rank(at, j) = Cardinality(below(j))
             /\ Rank(at, j) \in 1..c
  <2>1. below(j) \in SUBSET at /\ j \in below(j)
    BY <1>2
  <2>2. IsFiniteSet(below(j)) /\ Cardinality(below(j)) <= c
    BY <2>1, FS_Subset
  <2>3. Cardinality(below(j)) \in Nat /\ Cardinality(below(j)) # 0
    BY <2>1, <2>2, FS_CardinalityType, FS_EmptySet
  <2>4. QED
    BY <1>1, <2>2, <2>3 DEF Rank
<1>3. ASSUME NEW i \in at, NEW j \in at, i < j
      PROVE  Rank(at, i) < Rank(at, j)
  <2>1. below(i) \in SUBSET below(j) /\ below(i) # below(j)
    <3>1. j \in below(j) /\ ~(j \in below(i))
      BY <1>3
    <3>2. \A h \in at : h <= i => h <= j
      BY <1>3
    <3>3. QED
      BY <3>1, <3>2
  <2>2. IsFiniteSet(below(j)) /\ IsFiniteSet(below(i))
    BY <1>2
  <2>3. Cardinality(below(i)) <= Cardinality(below(j))
        /\ Cardinality(below(i)) # Cardinality(below(j))
    BY <2>1, <2>2, FS_Subset
  <2>4. Cardinality(below(i)) \in Nat /\ Cardinality(below(j)) \in Nat
    BY <2>2, FS_CardinalityType
  <2>5. QED
    BY <1>2, <2>3, <2>4
<1>4. \A n \in 1..c : \E j \in at : Rank(at, j) = n
  <2> DEFINE r == [j \in at |-> Rank(at, j)]
  <2>1. r \in [at -> 1..c]
    BY <1>2
  <2>2. \A i, j \in at : r[i] = r[j] => i = j
    <3> SUFFICES ASSUME NEW i \in at, NEW j \in at, i # j PROVE r[i] # r[j]
      OBVIOUS
    <3>1. i < j \/ j < i
      OBVIOUS
    <3>2. r[i] \in 1..c /\ r[j] \in 1..c
      BY <2>1
    <3>3. r[i] < r[j] \/ r[j] < r[i]
      BY <1>3, <3>1
    <3> HIDE DEF r
    <3>4. QED
      BY <1>1, <3>2, <3>3
  <2>3. r \in Injection(at, 1..c)
    BY <2>1, <2>2 DEF Injection, IsInjective
  <2>4. IsFiniteSet(1..c) /\ Cardinality(1..c) = c
    BY <1>1, FS_Interval
  <2>5. r \in Surjection(at, 1..c)
    BY <2>3, <2>4, FS_Injection
  <2>6. QED
    BY <2>5 DEF Surjection
<1>5. QED
  BY <1>1, <1>2, <1>3, <1>4

LEMMA NthRank ==
  ASSUME NEW at, IsFiniteSet(at), at \subseteq Nat
  PROVE  /\ \A n \in 1..Cardinality(at) : Nth(at, n) \in at /\ Rank(at, Nth(at, n)) = n
         /\ \A j \in at : Nth(at, Rank(at, j)) = j
<1>1. ASSUME NEW n \in 1..Cardinality(at)
      PROVE  Nth(at, n) \in at /\ Rank(at, Nth(at, n)) = n
  <2>1. \E j \in at : Cardinality({h \in at : h <= j}) = n
    BY Ranks DEF Rank
  <2>2. QED
    BY <2>1 DEF Nth, Rank
<1>2. ASSUME NEW j \in at PROVE Nth(at, Rank(at, j)) = j
  <2> DEFINE i == Nth(at, Rank(at, j))
  <2>1. Rank(at, j) \in 1..Cardinality(at)
    BY Ranks
  <2>2. i \in at /\ Rank(at, i) = Rank(at, j)
    BY <1>1, <2>1
  <2> HIDE DEF i
  <2>3. i \in Nat /\ j \in Nat
    BY <2>2
  <2>4. ~(i < j) /\ ~(j < i)
    <3>1. /\ Cardinality(at) \in Nat
          /\ i < j => Rank(at, i) < Rank(at, j)
          /\ j < i => Rank(at, j) < Rank(at, i)
      BY <2>2, Ranks
    <3>2. QED
      BY <2>1, <2>2, <3>1
  <2>5. QED
    BY <2>3, <2>4 DEF i
<1>3. QED
  BY <1>1, <1>2

\* Pieces are a sequence, told by the events at the positions alone.
LEMMA PiecesSame ==
  ASSUME NEW s, NEW t, NEW at, IsFiniteSet(at), at \subseteq Nat,
         \A j \in at : s[j] = t[j]
  PROVE  Pieces(s, at) = Pieces(t, at)
<1>1. \A n \in 1..Cardinality(at) : s[Nth(at, n)] = t[Nth(at, n)]
  BY NthRank
<1>2. QED
  BY <1>1 DEF Pieces

LEMMA PiecesNone ==
  ASSUME NEW s
  PROVE  Pieces(s, {}) = <<>>
<1>1. Cardinality({}) = 0
  BY FS_EmptySet
<1>2. 1..0 = {}
  OBVIOUS
<1>3. Pieces(s, {}) = [n \in 1..0 |-> s[Nth({}, n)].data[1]]
  BY <1>1 DEF Pieces
<1>4. QED
  BY <1>2, <1>3

\* A later position adds its piece at the end.
LEMMA PiecesMore ==
  ASSUME NEW s, NEW at, IsFiniteSet(at), at \subseteq Nat,
         NEW x \in Nat, \A j \in at : j < x
  PROVE  Pieces(s, at \cup {x}) = Append(Pieces(s, at), s[x].data[1])
<1> DEFINE more == at \cup {x}
           c == Cardinality(at)
           p == Pieces(s, at)
           q == Pieces(s, more)
           d == s[x].data[1]
<1>1. x \notin at /\ more \subseteq Nat
  OBVIOUS
<1>2. c \in Nat /\ IsFiniteSet(more) /\ Cardinality(more) = c + 1
  BY <1>1, FS_CardinalityType, FS_AddElement
<1>3. Rank(more, x) = c + 1
  <2>1. {h \in more : h <= x} = more
    <3>1. \A h \in more : h <= x
      OBVIOUS
    <3>2. QED
      BY <3>1
  <2>2. QED
    BY <1>2, <2>1 DEF Rank
<1>4. ASSUME NEW j \in at PROVE Rank(more, j) = Rank(at, j)
  <2>1. ~(x <= j)
    BY <1>4
  <2>2. {h \in more : h <= j} = {h \in at : h <= j}
    BY <2>1
  <2>3. QED
    BY <2>2 DEF Rank
<1> HIDE DEF more
<1>5. Nth(more, c + 1) = x
  <2>1. x \in more
    BY DEF more
  <2>2. QED
    BY <1>1, <1>2, <1>3, <2>1, NthRank
<1>6. ASSUME NEW n \in 1..c PROVE Nth(more, n) = Nth(at, n)
  <2>1. Nth(at, n) \in at /\ Rank(at, Nth(at, n)) = n
    BY NthRank
  <2>2. Rank(more, Nth(at, n)) = n /\ Nth(at, n) \in more
    BY <1>4, <2>1 DEF more
  <2>3. Nth(more, Rank(more, Nth(at, n))) = Nth(at, n)
    BY <1>1, <1>2, <2>2, NthRank
  <2>4. QED
    BY <2>2, <2>3
<1>7. /\ q = [n \in 1..(c + 1) |-> s[Nth(more, n)].data[1]]
      /\ p = [n \in 1..c |-> s[Nth(at, n)].data[1]]
  BY <1>2 DEF Pieces
<1>8. q[c + 1] = d /\ \A n \in 1..c : q[n] = p[n]
  BY <1>2, <1>5, <1>6, <1>7
<1> DEFINE S == {p[n] : n \in 1..c} \cup {d}
<1>9. p \in Seq(S) /\ Len(p) = c
  <2>1. p \in [1..c -> S]
    BY <1>7
  <2>2. QED
    BY <1>2, <2>1
<1>10. d \in S
  OBVIOUS
<1>11. DOMAIN q = 1..(c + 1) /\ q = [n \in 1..(c + 1) |-> q[n]]
  BY <1>7
<1> HIDE DEF p, q, d, S
<1>12. /\ Append(p, d) \in Seq(S) /\ Len(Append(p, d)) = c + 1
       /\ \A n \in 1..c : Append(p, d)[n] = p[n]
       /\ Append(p, d)[c + 1] = d
  BY <1>9, <1>10, AppendProperties
<1>13. \A n \in 1..(c + 1) : Append(p, d)[n] = q[n]
  <2>1. \A n \in 1..(c + 1) : n \in 1..c \/ n = c + 1
    BY <1>2
  <2>2. QED
    BY <1>8, <1>12, <2>1
<1>14. Append(p, d) = [n \in 1..(c + 1) |-> Append(p, d)[n]]
  <2> DEFINE w == Append(p, d)
  <2>1. w \in Seq(S) /\ Len(w) = c + 1
    BY <1>12
  <2> HIDE DEF w
  <2>2. w \in [1..(c + 1) -> S]
    BY <2>1
  <2>3. QED
    BY <2>2 DEF w
<1>15. q = Append(p, d)
  BY <1>11, <1>13, <1>14
<1>16. QED
  BY <1>15 DEF p, q, d, more

-----------------------------------------------------------------------------
(* What a sequence of events has streamed.                                 *)

LEMMA DeltasAt ==
  ASSUME NEW s, NEW of, NEW k \in Nat
  PROVE  IsFiniteSet(DeltasIn(s, of, k)) /\ DeltasIn(s, of, k) \subseteq 1..k
<1>1. IsFiniteSet(1..k)
  BY FS_Interval
<1>2. DeltasIn(s, of, k) \in SUBSET (1..k)
  BY DEF DeltasIn
<1>3. QED
  BY <1>1, <1>2, FS_Subset

\* Later events do not change what was streamed up to an earlier one.
LEMMA PrefixKept ==
  ASSUME NEW s, NEW t, IsSeq(s), IsSeq(t), NEW of, NEW k \in 0..Len(s)
  PROVE  /\ DeltasIn(s \o t, of, k) = DeltasIn(s, of, k)
         /\ Pieces(s \o t, DeltasIn(s \o t, of, k)) = Pieces(s, DeltasIn(s, of, k))
<1> DEFINE u == s \o t
<1>1. Len(s) \in Nat /\ \A j \in 1..Len(s) : u[j] = s[j]
  BY Concat
<1> HIDE DEF u
<1>2. k \in Nat /\ \A j \in 1..k : u[j] = s[j]
  BY <1>1
<1>3. DeltasIn(u, of, k) = DeltasIn(s, of, k)
  BY <1>2 DEF DeltasIn
<1>4. IsFiniteSet(DeltasIn(s, of, k)) /\ DeltasIn(s, of, k) \subseteq 1..k
  BY <1>2, DeltasAt
<1>5. DeltasIn(s, of, k) \subseteq Nat /\ \A j \in DeltasIn(s, of, k) : u[j] = s[j]
  BY <1>2, <1>4
<1>6. Pieces(u, DeltasIn(s, of, k)) = Pieces(s, DeltasIn(s, of, k))
  BY <1>4, <1>5, PiecesSame
<1>7. QED
  BY <1>3, <1>6 DEF u

\* Events without deltas of an item add nothing to it, up to any of them.
LEMMA NothingAdded ==
  ASSUME NEW s, NEW t, IsSeq(s), IsSeq(t), NEW of,
         \A k \in 1..Len(t) : ~(t[k].of = of /\ IsDelta(t[k])),
         NEW k \in Len(s)..Len(s \o t)
  PROVE  Pieces(s \o t, DeltasIn(s \o t, of, k)) = Content(s, of)
<1> DEFINE u == s \o t
           v == Len(s)
<1>1. /\ v \in Nat /\ Len(u) \in Nat /\ v \in 0..v /\ v <= Len(u)
      /\ \A j \in 1..Len(u) : \/ j \in 1..v
                              \/ j > v /\ j - v \in 1..Len(t) /\ u[j] = t[j - v]
  <2>1. /\ v \in Nat /\ Len(t) \in Nat /\ Len(u) = v + Len(t)
        /\ \A j \in 1..Len(u) : \/ j \in 1..v
                                \/ j > v /\ j - v \in 1..Len(t) /\ u[j] = t[j - v]
    BY Concat
  <2> HIDE DEF u, v
  <2>2. QED
    BY <2>1
<1>2. /\ DeltasIn(u, of, v) = DeltasIn(s, of, v)
      /\ Pieces(u, DeltasIn(u, of, v)) = Content(s, of)
  BY <1>1, PrefixKept DEF Content
<1> HIDE DEF u
<1>3. k \in Nat /\ v <= k /\ k <= Len(u)
  BY <1>1 DEF u
<1>4. DeltasIn(u, of, k) = DeltasIn(u, of, v)
  <2>1. \A j \in 1..k : j \in 1..v \/ ~(u[j].of = of /\ IsDelta(u[j]))
    BY <1>1, <1>3
  <2>2. \A j \in 1..v : j \in 1..k
    BY <1>1, <1>3
  <2>3. QED
    BY <2>1, <2>2 DEF DeltasIn
<1>5. QED
  BY <1>2, <1>4 DEF u

LEMMA OneMore ==
  ASSUME NEW s, NEW e, IsSeq(s)
  PROVE  /\ IsSeq(s \o <<e>>) /\ Len(s) \in Nat /\ Len(s \o <<e>>) = Len(s) + 1
         /\ \A k \in 1..Len(s) : (s \o <<e>>)[k] = s[k]
         /\ (s \o <<e>>)[Len(s) + 1] = e
<1> DEFINE u == s \o <<e>>
           v == Len(s)
<1>1. IsSeq(<<e>>) /\ Len(<<e>>) = 1 /\ <<e>>[1] = e
  BY Short
<1>2. /\ IsSeq(u) /\ v \in Nat /\ Len(u) = v + 1 /\ \A j \in 1..v : u[j] = s[j]
      /\ \A j \in 1..1 : u[v + j] = <<e>>[j]
  BY <1>1, Concat
<1> HIDE DEF u, v
<1>3. u[v + 1] = e
  BY <1>1, <1>2
<1>4. QED
  BY <1>2, <1>3 DEF u, v

\* A delta adds its piece.
LEMMA PieceAdded ==
  ASSUME NEW s, NEW e, IsSeq(s), IsDelta(e)
  PROVE  Content(s \o <<e>>, e.of) = Append(Content(s, e.of), e.data[1])
<1> DEFINE u == s \o <<e>>
           v == Len(s)
           at == DeltasIn(s, e.of, v)
           x == v + 1
<1>1. IsSeq(<<e>>)
  BY Short
<1>2. v \in Nat /\ Len(u) = x /\ \A j \in 1..v : u[j] = s[j]
  BY OneMore
<1>3. u[x] = e
  BY OneMore
<1>4. DeltasIn(u, e.of, v) = at /\ Pieces(u, DeltasIn(u, e.of, v)) = Pieces(s, at)
  BY <1>1, <1>2, PrefixKept
<1>5. IsFiniteSet(at) /\ at \subseteq 1..v
  BY <1>2, DeltasAt
<1> HIDE DEF u, v
<1>6. DeltasIn(u, e.of, x) = at \cup {x}
  <2>1. \A j \in 1..x : j \in 1..v \/ j = x
    BY <1>2
  <2>2. x \in 1..x /\ \A j \in 1..v : j \in 1..x
    BY <1>2
  <2> HIDE DEF x
  <2>3. DeltasIn(u, e.of, x) = DeltasIn(u, e.of, v) \cup {x}
    BY <1>3, <2>1, <2>2 DEF DeltasIn
  <2>4. QED
    BY <1>4, <2>3
<1> HIDE DEF at
<1>7. at \subseteq Nat /\ x \in Nat /\ \A j \in at : j < x
  <2>1. x \in Nat /\ \A j \in 1..v : j \in Nat /\ j < x
    BY <1>2
  <2> HIDE DEF x
  <2>2. QED
    BY <1>5, <2>1
<1> HIDE DEF x
<1>8. Pieces(u, at \cup {x}) = Append(Pieces(u, at), u[x].data[1])
  BY <1>5, <1>7, PiecesMore
<1>9. Pieces(u, at) = Pieces(s, at)
  BY <1>4
<1>10. Content(u, e.of) = Append(Content(s, e.of), e.data[1])
  BY <1>2, <1>3, <1>6, <1>8, <1>9 DEF Content, at, v
<1>11. QED
  BY <1>10 DEF u

\* Events that stream nothing and quote, if anything, what was streamed.
Quotes(s, e) ==
  /\ ~IsDelta(e)
  /\ e.type \in Sealing => e.data = Content(s, e.of)
  /\ e.type = "response.completed" => \A o \in e.output : o.data = Content(s, o.of)

LEMMA Quoting ==
  ASSUME NEW s, NEW t, IsSeq(s), IsSeq(t), RepeatedIn(s),
         \A k \in 1..Len(t) : Quotes(s, t[k])
  PROVE  RepeatedIn(s \o t) /\ \A of : Content(s \o t, of) = Content(s, of)
<1> DEFINE u == s \o t
           v == Len(s)
<1>1. /\ v \in Nat /\ Len(u) \in Nat /\ v <= Len(u)
      /\ \A k \in 1..v : u[k] = s[k]
      /\ \A k \in 1..Len(u) : \/ k \in 1..v
                              \/ k > v /\ k - v \in 1..Len(t) /\ u[k] = t[k - v]
  <2>1. /\ v \in Nat /\ Len(t) \in Nat /\ Len(u) = v + Len(t)
        /\ \A k \in 1..v : u[k] = s[k]
        /\ \A k \in 1..Len(u) : \/ k \in 1..v
                                \/ k > v /\ k - v \in 1..Len(t) /\ u[k] = t[k - v]
    BY Concat
  <2> HIDE DEF u, v
  <2>2. QED
    BY <2>1
<1>2. \A of : \A k \in v..Len(u) : Pieces(u, DeltasIn(u, of, k)) = Content(s, of)
  BY NothingAdded DEF Quotes
<1>3. \A of : \A k \in 0..v : Pieces(u, DeltasIn(u, of, k)) = Pieces(s, DeltasIn(s, of, k))
  BY PrefixKept
<1> HIDE DEF u, v
<1>4. \A of : Content(u, of) = Content(s, of)
  <2>1. Len(u) \in v..Len(u)
    BY <1>1
  <2>2. QED
    BY <1>2, <2>1 DEF Content
<1>5. ASSUME NEW k \in 1..Len(u) PROVE Repeats(u, k)
  <2>1. CASE k \in 1..v
    <3>1. u[k] = s[k] /\ k \in 0..v /\ Repeats(s, k)
      BY <1>1, <2>1 DEF RepeatedIn, v
    <3>2. QED
      BY <1>3, <3>1 DEF Repeats
  <2>2. CASE k > v
    <3>1. Quotes(s, u[k]) /\ k \in v..Len(u)
      BY <1>1, <2>2
    <3>2. \A of : Pieces(u, DeltasIn(u, of, k)) = Content(s, of)
      BY <1>2, <3>1
    <3>3. QED
      BY <3>1, <3>2 DEF Quotes, Repeats
  <2>3. QED
    BY <1>1, <2>1, <2>2
<1>6. QED
  BY <1>4, <1>5 DEF RepeatedIn, u

\* One to three such events, as the actions write them.
LEMMA QuotingShort ==
  ASSUME NEW s, IsSeq(s), RepeatedIn(s), NEW a, NEW b, NEW c,
         Quotes(s, a), Quotes(s, b), Quotes(s, c), NEW t,
         t \in {<<>>, <<a>>, <<a, b>>, <<a, b, c>>}
  PROVE  /\ IsSeq(s \o t) /\ RepeatedIn(s \o t)
         /\ \A of : Content(s \o t, of) = Content(s, of)
<1>1. IsSeq(t)
  <2>1. IsSeq(<<>>) /\ IsSeq(<<a>>) /\ IsSeq(<<a, b>>) /\ IsSeq(<<a, b, c>>)
    BY Short
  <2>2. QED
    BY <2>1
<1>2. \A k \in 1..Len(t) : t[k] \in {a, b, c}
  <2>1. CASE t = <<>>
    <3>1. Len(t) = 0
      BY <2>1
    <3>2. QED
      BY <3>1
  <2>2. CASE t = <<a>>
    BY <2>2
  <2>3. CASE t = <<a, b>>
    BY <2>3
  <2>4. CASE t = <<a, b, c>>
    BY <2>4
  <2>5. QED
    BY <2>1, <2>2, <2>3, <2>4
<1>3. IsSeq(s \o t)
  BY <1>1, Concat
<1>4. QED
  BY <1>1, <1>2, <1>3, Quoting

\* A delta: its item has more content, the others have what they had.
LEMMA Adding ==
  ASSUME NEW s, NEW e, IsSeq(s), RepeatedIn(s), IsDelta(e)
  PROVE  /\ IsSeq(s \o <<e>>) /\ RepeatedIn(s \o <<e>>)
         /\ Content(s \o <<e>>, e.of) = Append(Content(s, e.of), e.data[1])
         /\ \A of : of # e.of => Content(s \o <<e>>, of) = Content(s, of)
<1> DEFINE t == <<e>>
           u == s \o t
           v == Len(s)
<1>1. IsSeq(t) /\ Len(t) = 1 /\ t[1] = e
  BY Short
<1> HIDE DEF t
<1>2. /\ IsSeq(u) /\ v \in Nat /\ Len(u) = v + 1
      /\ \A k \in 1..v : u[k] = s[k]
      /\ u[v + 1] = e
  BY OneMore DEF t
<1>3. Content(u, e.of) = Append(Content(s, e.of), e.data[1])
  BY PieceAdded DEF t
<1>4. ASSUME NEW of, of # e.of PROVE Content(u, of) = Content(s, of)
  <2>1. Len(u) \in v..Len(u) /\ \A k \in 1..Len(t) : t[k].of # of
    BY <1>1, <1>2, <1>4
  <2>2. QED
    BY <1>1, <2>1, NothingAdded DEF Content
<1>5. \A of : \A k \in 0..v : Pieces(u, DeltasIn(u, of, k)) = Pieces(s, DeltasIn(s, of, k))
  BY <1>1, PrefixKept
<1> HIDE DEF u, v
<1>6. ASSUME NEW k \in 1..Len(u) PROVE Repeats(u, k)
  <2>1. CASE k \in 1..v
    <3>1. u[k] = s[k] /\ k \in 0..v /\ Repeats(s, k)
      BY <1>2, <2>1 DEF RepeatedIn, v
    <3>2. QED
      BY <1>5, <3>1 DEF Repeats
  <2>2. CASE k = v + 1
    <3>1. u[k].type \notin Sealing /\ u[k].type # "response.completed"
      BY <1>2, <2>2 DEF IsDelta, Sealing
    <3>2. QED
      BY <3>1 DEF Repeats
  <2>3. QED
    BY <1>2, <2>1, <2>2
<1>7. QED
  BY <1>2, <1>3, <1>4, <1>6 DEF RepeatedIn, u, t

-----------------------------------------------------------------------------
(* The steps.                                                              *)

LEMMA InitText == Init => TextInv
<1> SUFFICES ASSUME Init PROVE TextInv
  OBVIOUS
<1>1. events = <<>> /\ Len(<<>>) = 0
  BY Short DEF Init
<1>2. ASSUME NEW of PROVE Content(events, of) = <<>>
  <2>1. DeltasIn(events, of, 0) = {}
    <3>1. 1..0 = {}
      OBVIOUS
    <3>2. QED
      BY <3>1 DEF DeltasIn
  <2>2. QED
    BY <1>1, <2>1, PiecesNone DEF Content
<1>3. RepeatedIn(events)
  BY <1>1 DEF RepeatedIn
<1>4. text_acc = <<>> /\ \A i \in Index : tool_calls[i].arguments = <<>>
  BY DEF Init, NoCall
<1>5. QED
  BY <1>2, <1>3, <1>4, InitInv DEF TextInv, AccumulatedIn

LEMMA ChunkText ==
  ASSUME TextInv, NEW c \in Chunks, ChunkLine(c)
  PROVE  RepeatedIn(events') /\ AccumulatedIn(events', text_acc', tool_calls')
<1> DEFINE adds  == ~msg_item_added /\ (c.content # None \/ c.array)
           msg   == IF adds THEN msg_id + 1 ELSE msg_id
           at    == IF adds THEN seq + 2 ELSE seq
           d     == Event("response.output_text.delta", at, Message, 0,
                          MsgId(msg), <<c.content>>)
           delta == IF c.content = None THEN <<>> ELSE <<d>>
           a     == Event("response.output_item.added", seq, Message, 0, MsgId(msg), <<>>)
           b     == Event("response.content_part.added", seq + 1, Message, 0, MsgId(msg), <<>>)
           added == IF adds THEN <<a, b>> ELSE <<>>
           x     == Event("response.created", Unnumbered, Response, 0, <<>>, <<>>)
           y     == Event("response.in_progress", Unnumbered, Response, 0, <<>>, <<>>)
           s     == events \o Opening
           r     == s \o added
<1>1. /\ events' = r \o delta /\ tool_calls' = tool_calls
      /\ text_acc' = IF c.content = None THEN text_acc ELSE Append(text_acc, c.content)
  BY DEF ChunkLine, MessageAdded
<1>2. IsSeq(events) /\ RepeatedIn(events) /\ AccumulatedIn(events, text_acc, tool_calls)
  BY DEF TextInv, ShapeInv, GoodIn
<1>3. \A z : Quotes(z, x) /\ Quotes(z, y) /\ Quotes(z, a) /\ Quotes(z, b)
  BY DEF Quotes, IsDelta, Sealing, Event
<1>4. IsDelta(d) /\ d.of = Message /\ d.data[1] = c.content
  BY DEF IsDelta, Event
<1>5. Opening \in {<<>>, <<x>>, <<x, y>>, <<x, y, x>>}
  BY DEF Opening
<1>6. added \in {<<>>, <<a>>, <<a, b>>, <<a, b, a>>}
  OBVIOUS
<1> HIDE DEF a, b, d, x, y, added
<1>7. IsSeq(s) /\ RepeatedIn(s) /\ \A of : Content(s, of) = Content(events, of)
  BY <1>2, <1>3, <1>5, QuotingShort
<1> HIDE DEF s
<1>8. IsSeq(r) /\ RepeatedIn(r) /\ \A of : Content(r, of) = Content(s, of)
  BY <1>3, <1>6, <1>7, QuotingShort
<1> HIDE DEF r
<1>9. AccumulatedIn(r, text_acc, tool_calls)
  BY <1>2, <1>7, <1>8 DEF AccumulatedIn
<1>10. CASE c.content = None
  <2>1. \A of : Content(r \o <<>>, of) = Content(r, of)
    BY <1>3, <1>8, QuotingShort
  <2>2. RepeatedIn(r \o <<>>)
    BY <1>3, <1>8, QuotingShort
  <2>3. QED
    BY <1>1, <1>9, <1>10, <2>1, <2>2 DEF AccumulatedIn
<1>11. CASE c.content # None
  <2>1. /\ RepeatedIn(r \o <<d>>)
        /\ Content(r \o <<d>>, Message) = Append(Content(r, Message), c.content)
        /\ \A of : of # Message => Content(r \o <<d>>, of) = Content(r, of)
    BY <1>4, <1>8, Adding
  <2>2. \A i \in Index : i # Message
    BY NoIndex
  <2>3. QED
    BY <1>1, <1>9, <1>11, <2>1, <2>2 DEF AccumulatedIn
<1>12. QED
  BY <1>10, <1>11

\* A delta of arguments is streamed and accumulated at once.
LEMMA DeltaText ==
  ASSUME TextInv, HandleToolCallDelta
  PROVE  RepeatedIn(events') /\ AccumulatedIn(events', text_acc', tool_calls')
<1> DEFINE tc   == Head(tools)
           i    == ToolIndex(tc)
           call == CallAfter(tool_calls[i], tc)
           ann  == ShouldAnnounce(call, tc)
           at   == OutputIndex(i, msg_id)
           new  == Event("response.output_item.added", seq, i, at,
                         call.oai_id, <<call.name>>)
           item == IF ~ann THEN <<>> ELSE <<new>>
           d    == Event("response.function_call_arguments.delta",
                         seq + Len(item), i, at, call.oai_id, <<tc.args>>)
           args == IF tc.args = None THEN <<>> ELSE <<d>>
           after == [tool_calls EXCEPT ![i] = [call EXCEPT !.announced = @ \/ ann]]
           r    == events \o item
<1>1. /\ tools # <<>> /\ tool_calls' = after /\ events' = r \o args
      /\ text_acc' = text_acc
  BY DEF HandleToolCallDelta
<1>2. /\ IsSeq(events) /\ RepeatedIn(events) /\ TypeOK
      /\ AccumulatedIn(events, text_acc, tool_calls)
  BY DEF TextInv, ShapeInv, GoodIn
<1>3. tc \in ToolDelta
  BY <1>1, <1>2, HeadTailProperties DEF TypeOK
<1>4. i \in Index /\ tool_calls[i] \in Call
  <2>1. i \in Index
    BY <1>3, SseAssumption DEF ToolIndex, ToolDelta
  <2>2. QED
    BY <1>2, <2>1 DEF TypeOK
<1>5. /\ call \in Call
      /\ call.arguments = IF tc.args = None THEN tool_calls[i].arguments
                          ELSE Append(tool_calls[i].arguments, tc.args)
  BY <1>3, <1>4, CallType DEF CallAfter
<1>6. \A z : Quotes(z, new)
  BY DEF Quotes, IsDelta, Sealing, Event
<1>7. IsDelta(d) /\ d.of = i /\ d.data[1] = tc.args
  BY DEF IsDelta, Event
<1>8. item \in {<<>>, <<new>>, <<new, new>>, <<new, new, new>>}
  OBVIOUS
<1> HIDE DEF tc, i, call, ann, new, item, d
<1>9. /\ after[i].arguments = call.arguments
      /\ \A j \in Index \ {i} : after[j] = tool_calls[j]
  <2>1. tool_calls \in [Index -> Call]
    BY <1>2 DEF TypeOK
  <2>2. after[i] = [call EXCEPT !.announced = @ \/ ann]
    BY <1>4, <2>1
  <2>3. after[i].arguments = call.arguments
    BY <1>5, <2>2 DEF Call
  <2>4. QED
    BY <1>4, <2>1, <2>3
<1> HIDE DEF after
<1>10. IsSeq(r) /\ RepeatedIn(r) /\ \A of : Content(r, of) = Content(events, of)
  BY <1>2, <1>6, <1>8, QuotingShort
<1> HIDE DEF r
<1>11. AccumulatedIn(r, text_acc, tool_calls)
  BY <1>2, <1>10 DEF AccumulatedIn
<1>12. CASE tc.args = None
  <2>1. \A of : Content(r \o <<>>, of) = Content(r, of)
    BY <1>6, <1>10, QuotingShort
  <2>2. RepeatedIn(r \o <<>>)
    BY <1>6, <1>10, QuotingShort
  <2>3. \A j \in Index : after[j].arguments = tool_calls[j].arguments
    BY <1>5, <1>9, <1>12
  <2>4. QED
    BY <1>1, <1>11, <1>12, <2>1, <2>2, <2>3 DEF AccumulatedIn
<1>13. CASE tc.args # None
  <2>1. /\ RepeatedIn(r \o <<d>>)
        /\ Content(r \o <<d>>, i) = Append(Content(r, i), tc.args)
        /\ \A of : of # i => Content(r \o <<d>>, of) = Content(r, of)
    BY <1>7, <1>10, Adding
  <2>2. i # Message
    BY <1>4, NoIndex
  <2>3. after[i].arguments = Append(tool_calls[i].arguments, tc.args)
    BY <1>5, <1>9, <1>13
  <2>4. QED
    BY <1>1, <1>4, <1>9, <1>11, <1>13, <2>1, <2>2, <2>3 DEF AccumulatedIn
<1>14. QED
  BY <1>12, <1>13

\* What the done events repeat is what was accumulated.
LEMMA FinishText ==
  ASSUME TextInv, HandleFinish
  PROVE  RepeatedIn(events') /\ AccumulatedIn(events', text_acc', tool_calls')
<1> DEFINE a == Event("response.output_text.done", seq, Message, 0, MsgId(msg_id), text_acc)
           b == Event("response.content_part.done", seq + 1, Message, 0,
                      MsgId(msg_id), text_acc)
           c == Event("response.output_item.done", seq + 2, Message, 0,
                      MsgId(msg_id), text_acc)
<1>1. /\ msg_item_added => events' = events \o <<a, b, c>>
      /\ ~msg_item_added => events' = events
      /\ text_acc' = text_acc /\ tool_calls' = tool_calls
  BY DEF HandleFinish
<1>2. IsSeq(events) /\ RepeatedIn(events) /\ AccumulatedIn(events, text_acc, tool_calls)
  BY DEF TextInv, ShapeInv, GoodIn
<1>3. Quotes(events, a) /\ Quotes(events, b) /\ Quotes(events, c)
  BY <1>2 DEF Quotes, IsDelta, Event, AccumulatedIn
<1> HIDE DEF a, b, c
<1>4. /\ RepeatedIn(events \o <<a, b, c>>)
      /\ \A of : Content(events \o <<a, b, c>>, of) = Content(events, of)
  BY <1>2, <1>3, QuotingShort
<1>5. QED
  BY <1>1, <1>2, <1>4 DEF AccumulatedIn

LEMMA CloseText ==
  ASSUME TextInv, NEW i \in Index, CloseToolCall(i)
  PROVE  RepeatedIn(events') /\ AccumulatedIn(events', text_acc', tool_calls')
<1> DEFINE call == tool_calls[i]
           at   == OutputIndex(i, msg_id)
           e    == Event("response.function_call_arguments.done", seq, i, at,
                         call.oai_id, call.arguments)
           args == IF call.arguments = <<>> THEN <<>> ELSE <<e>>
           d    == Event("response.output_item.done", seq + Len(args), i, at,
                         call.oai_id, call.arguments)
           r    == events \o args
<1>1. events' = r \o <<d>> /\ text_acc' = text_acc /\ tool_calls' = tool_calls
  BY DEF CloseToolCall
<1>2. IsSeq(events) /\ RepeatedIn(events) /\ AccumulatedIn(events, text_acc, tool_calls)
  BY DEF TextInv, ShapeInv, GoodIn
<1>3. \A z : Content(z, i) = Content(events, i) => Quotes(z, e) /\ Quotes(z, d)
  BY <1>2 DEF Quotes, IsDelta, Event, AccumulatedIn
<1>4. args \in {<<>>, <<e>>, <<e, e>>, <<e, e, e>>}
  OBVIOUS
<1> HIDE DEF e, args, d
<1>5. IsSeq(r) /\ RepeatedIn(r) /\ \A of : Content(r, of) = Content(events, of)
  BY <1>2, <1>3, <1>4, QuotingShort
<1> HIDE DEF r
<1>6. RepeatedIn(r \o <<d>>) /\ \A of : Content(r \o <<d>>, of) = Content(r, of)
  BY <1>3, <1>5, QuotingShort
<1>7. QED
  BY <1>1, <1>2, <1>5, <1>6 DEF AccumulatedIn

\* So is what the completed response repeats.
LEMMA DoneText ==
  ASSUME TextInv, DoneLine
  PROVE  RepeatedIn(events') /\ AccumulatedIn(events', text_acc', tool_calls')
<1> DEFINE e == [type |-> "response.completed", seq |-> Unnumbered, of |-> Response,
                 status |-> IF finish_reason = "length" THEN "incomplete" ELSE "completed",
                 output |-> Output, usage |-> usage]
<1>1. /\ completed => events' = events
      /\ ~completed => events' = Append(events, e)
      /\ text_acc' = text_acc /\ tool_calls' = tool_calls
  BY DEF DoneLine
<1>2. /\ IsSeq(events) /\ RepeatedIn(events) /\ TypeOK
      /\ AccumulatedIn(events, text_acc, tool_calls)
  BY DEF TextInv, ShapeInv, GoodIn
<1>3. \A o \in Output : o.data = Content(events, o.of)
  BY <1>2 DEF Output, AccumulatedIn
<1>4. Quotes(events, e)
  <2>1. e.type = "response.completed" /\ e.output = Output
    OBVIOUS
  <2> HIDE DEF e
  <2>2. QED
    BY <1>3, <2>1 DEF Quotes, IsDelta, Sealing
<1> HIDE DEF e
<1>5. Append(events, e) = events \o <<e>>
  <2>1. PICK S : events \in Seq(S)
    BY <1>2 DEF IsSeq
  <2>2. events \in Seq(S \cup {e}) /\ e \in S \cup {e}
    BY <2>1
  <2>3. QED
    BY <2>2, AppendIsConcat
<1>6. /\ RepeatedIn(events \o <<e>>)
      /\ \A of : Content(events \o <<e>>, of) = Content(events, of)
  BY <1>2, <1>4, QuotingShort
<1>7. QED
  BY <1>1, <1>2, <1>5, <1>6 DEF AccumulatedIn, TypeOK

LEMMA StepText == TextInv /\ [Next]_vars => TextInv'
<1> DEFINE Kept == RepeatedIn(events') /\ AccumulatedIn(events', text_acc', tool_calls')
<1> SUFFICES ASSUME TextInv, [Next]_vars PROVE ShapeInv' /\ Kept
  BY DEF TextInv
<1>1. ShapeInv'
  BY StepInv DEF TextInv
<1>2. ASSUME NEW c \in Chunks, ChunkLine(c) PROVE Kept
  BY <1>2, ChunkText
<1>3. ASSUME NEW c \in Chunks, UsageLine(c) PROVE Kept
  BY <1>3 DEF UsageLine, TextInv
<1>4. ASSUME DoneLine PROVE Kept
  BY <1>4, DoneText
<1>5. ASSUME HandleToolCallDelta PROVE Kept
  BY <1>5, DeltaText
<1>6. ASSUME HandleFinish PROVE Kept
  BY <1>6, FinishText
<1>7. ASSUME NEW i \in Index, CloseToolCall(i) PROVE Kept
  BY <1>7, CloseText
<1>8. ASSUME EndOfStream PROVE Kept
  BY <1>8 DEF EndOfStream, TextInv
<1>9. ASSUME UNCHANGED vars PROVE Kept
  BY <1>9 DEF vars, TextInv
<1> HIDE DEF Kept
<1>10. Kept
  BY <1>2, <1>3, <1>4, <1>5, <1>6, <1>7, <1>8, <1>9 DEF Next, Line, Finishing, Rest
<1>11. QED
  BY <1>1, <1>10

\* At every moment the accumulated text and arguments are what was streamed.
THEOREM TextInductive == Spec => []TextInv
<1>1. Init => TextInv
  BY InitText
<1>2. QED
  BY <1>1, StepText, PTL DEF Spec

\* Every done event and the completed response repeat, in order, exactly what
\* was streamed until then, for a message the text of the whole response.
THEOREM SealedRepeats == Spec => []SealedIsStreamed
<1>1. TextInv => SealedIsStreamed
  BY DEF TextInv, RepeatedIn, Repeats, SealedIsStreamed, Streamed, Emitted
<1>2. QED
  BY <1>1, TextInductive, PTL
=============================================================================
