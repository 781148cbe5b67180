----------------------------- MODULE LineProofs -----------------------------
(***************************************************************************)
(* For every upstream stream, every way it may be split into reads and     *)
(* every room the client offers: lines are processed as they were sent and *)
(* bytes are delivered in order, to the last one.                          *)
(***************************************************************************)
EXTENDS LineReader, SequenceTheorems, FiniteSetTheorems, TLAPS

Symbol == Byte \cup {"wide", "rest", "torn"}

\* Concatenation from the right is concatenation from the left.
LEMMA Regrouped ==
  ASSUME NEW S, NEW s \in Seq(S), NEW t \in Seq(S), NEW u \in Seq(S)
  PROVE  s \o (t \o u) = (s \o t) \o u
BY ConcatAssociative, SMTT(30)

\* Trimming a text leaves a text that is a prefix of it.
LEMMA TrimType ==
  ASSUME NEW s \in Seq(Symbol)
  PROVE  /\ TrimEnd(s) \in Seq(Symbol)
         /\ Len(TrimEnd(s)) <= Len(s)
         /\ \A j \in 1..Len(TrimEnd(s)) : TrimEnd(s)[j] = s[j]
<1> DEFINE kept == {k \in 1..Len(s) : \E j \in k..Len(s) : s[j] \notin {NL, Space}}
           m == Cardinality(kept)
<1>1. m \in 0..Len(s)
  <2>1. Len(s) \in Nat /\ kept \subseteq 1..Len(s)
    OBVIOUS
  <2>2. IsFiniteSet(1..Len(s)) /\ Cardinality(1..Len(s)) = Len(s)
    <3> DEFINE b == Len(s)
    <3>1. b \in Int /\ b \in Nat
      BY <2>1
    <3> HIDE DEF b
    <3>2. IsFiniteSet(1..b) /\ Cardinality(1..b) = IF 1 > b THEN 0 ELSE b - 1 + 1
      BY <3>1, FS_Interval
    <3>3. Cardinality(1..b) = b
      BY <3>1, <3>2
    <3>4. QED
      BY <3>2, <3>3 DEF b
  <2> HIDE DEF kept
  <2>3. IsFiniteSet(kept) /\ m <= Len(s)
    BY <2>1, <2>2, FS_Subset
  <2>4. QED
    BY <2>1, <2>3, FS_CardinalityType
<1>2. TrimEnd(s) = SubSeq(s, 1, m)
  BY DEF TrimEnd
<1> HIDE DEF m
<1>3. QED
  BY <1>1, <1>2, SubSeqProperties, ElementOfSeq, LenProperties

\* The text of bytes is one symbol for each of them, less the trailing ones.
LEMMA TextType ==
  ASSUME NEW b \in Seq(Byte)
  PROVE  /\ Text(b) \in Seq(Symbol)
         /\ Len(Text(b)) <= Len(b)
         /\ \A j \in 1..Len(Text(b)) : Text(b)[j] = Decoded(b, j)
<1>1. Len(b) \in Nat /\ \A j \in 1..Len(b) : b[j] \in Byte
  BY ElementOfSeq, LenProperties
<1>2. \A j \in 1..Len(b) : Decoded(b, j) \in Symbol
  BY <1>1 DEF Decoded, Symbol
<1>3. /\ Characters(b) \in Seq(Symbol)
      /\ Len(Characters(b)) = Len(b)
      /\ \A j \in 1..Len(b) : Characters(b)[j] = Decoded(b, j)
  BY <1>1, <1>2 DEF Characters
<1> HIDE DEF Symbol
<1>4. QED
  BY <1>1, <1>3, TrimType DEF Text

-----------------------------------------------------------------------------
\* What the invariant says of the bytes held and of the line they continue.
LEMMA HeldBytes ==
  ASSUME TypeOK, Held
  PROVE  /\ stream \in Seq(Byte) /\ Len(stream) \in Nat /\ got \in 0..Len(stream)
         /\ Cut \in 0..got
         /\ Len(line_buf) = got - Cut
         /\ \A j \in 1..Len(line_buf) : line_buf[j] = stream[Cut + j]
<1>1. stream \in Seq(Byte) /\ Len(stream) \in Nat /\ got \in 0..Len(stream)
  BY LineAssumption DEF TypeOK
<1>2. Cut \in 0..got /\ line_buf = SubSeq(stream, Cut + 1, got)
  BY DEF Held
<1>3. \A j \in 1..Len(stream) : stream[j] \in Byte
  BY <1>1, ElementOfSeq
<1>4. \A j \in (Cut + 1)..got : stream[j] \in Byte
  BY <1>1, <1>2, <1>3
<1> DEFINE m == Cut + 1
<1>5. m \in Int /\ got \in Int
  BY <1>1, <1>2
<1>6. /\ Len(line_buf) = IF m <= got THEN got - m + 1 ELSE 0
      /\ \A j \in 1..(got - m + 1) : line_buf[j] = stream[m + j - 1]
  <2> HIDE DEF m
  <2>1. line_buf = SubSeq(stream, m, got) /\ \A j \in m..got : stream[j] \in Byte
    BY <1>2, <1>4 DEF m
  <2>2. QED
    BY <1>5, <2>1, SubSeqProperties
<1>7. QED
  BY <1>1, <1>2, <1>5, <1>6

\* Bytes made of a line go to the end of buf and of emitted alike.
LEMMA Translated ==
  ASSUME TypeOK, BytesInOrder, NEW n \in Nat, ProcessLine(n), UNCHANGED delivered
  PROVE  /\ buf' \in Seq(Emitted) /\ emitted' \in Seq(Emitted)
         /\ BytesInOrder'
<1>1. PICK w \in Nat :
        LET out == [j \in 1..w |-> <<Len(lines) + 1, j>>]
        IN buf' = buf \o out /\ emitted' = emitted \o out
  BY LineAssumption DEF ProcessLine
<1> DEFINE out == [j \in 1..w |-> <<Len(lines) + 1, j>>]
<1>2. Len(lines) + 1 \in Nat
  BY DEF TypeOK
<1>3. out \in Seq(Emitted)
  BY <1>2 DEF Emitted
<1> HIDE DEF out
<1>4. delivered \in Seq(Emitted) /\ buf \in Seq(Emitted) /\ emitted \in Seq(Emitted)
  BY DEF TypeOK
<1>5. buf' = buf \o out /\ emitted' = emitted \o out /\ delivered \o buf = emitted
  BY <1>1 DEF out, BytesInOrder
<1>6. buf' \in Seq(Emitted) /\ emitted' \in Seq(Emitted)
  BY <1>3, <1>4, <1>5, ConcatProperties
<1>7. delivered \o (buf \o out) = (delivered \o buf) \o out
  BY <1>3, <1>4, Regrouped, SMTT(30)
<1>8. QED
  BY <1>5, <1>6, <1>7 DEF BytesInOrder

\* Cutting the next line off, complete or the last one, keeps the invariant.
LEMMA CutStep ==
  ASSUME IInv, NEW n \in 1..Len(line_buf), NeedsLine, ProcessLine(n),
         \A j \in 1..(n - 1) : line_buf[j] # NL,
         line_buf[n] = NL \/ (n = Len(line_buf) /\ got = Len(stream)),
         line_buf' = SubSeq(line_buf, n + 1, Len(line_buf)),
         UNCHANGED <<stream, got, done, pc, room, delivered>>
  PROVE  IInv'
<1> USE DEF IInv
<1>1. /\ stream \in Seq(Byte) /\ Len(stream) \in Nat /\ got \in 0..Len(stream)
      /\ Cut \in 0..got /\ Len(line_buf) = got - Cut
      /\ \A j \in 1..Len(line_buf) : line_buf[j] = stream[Cut + j]
  BY HeldBytes
<1>2. n \in 1..(got - Cut) /\ n \in Nat /\ Cut + n \in Nat
  BY <1>1
<1> DEFINE text == Text(SubSeq(line_buf, 1, n))
           line == [from |-> Cut + 1, to |-> Cut + n, text |-> text]
<1>3. SubSeq(line_buf, 1, n) = SubSeq(stream, Cut + 1, Cut + n)
  <2>1. line_buf \in Seq(Byte) /\ line_buf = SubSeq(stream, Cut + 1, got)
    BY DEF TypeOK, Held
  <2>2. /\ Cut + 1 \in 1..Len(stream) /\ got \in 1..Len(stream)
        /\ 1 \in 1..(got - (Cut + 1) + 1) /\ n \in 1..(got - (Cut + 1) + 1)
        /\ (Cut + 1) + 1 - 1 = Cut + 1 /\ (Cut + 1) + n - 1 = Cut + n
    BY <1>1, <1>2
  <2> DEFINE i == Cut + 1
  <2> HIDE DEF i
  <2>3. SubSeq(SubSeq(stream, i, got), 1, n) = SubSeq(stream, i + 1 - 1, i + n - 1)
    BY <1>1, <2>2, SubSeqOfSubSeq DEF i
  <2>4. QED
    BY <2>1, <2>2, <2>3 DEF i
<1>4. SubSeq(line_buf, 1, n) \in Seq(Byte)
  <2>1. line_buf \in Seq(Byte)
    BY DEF TypeOK
  <2>2. \A j \in 1..n : line_buf[j] \in Byte
    BY <1>1, <1>2, <2>1, ElementOfSeq
  <2>3. QED
    BY <1>2, <2>2, SubSeqProperties
<1>5. line \in Line
  <2>1. text \in Seq(Symbol)
    BY <1>4, TextType
  <2>2. QED
    BY <1>1, <1>2, <2>1 DEF Line, Symbol
<1>6. lines' = Append(lines, line) /\ lines \in Seq(Line)
  BY DEF ProcessLine, TypeOK
<1> HIDE DEF line, text
<1>7. /\ lines' \in Seq(Line) /\ Len(lines) \in Nat /\ Len(lines') = Len(lines) + 1
      /\ \A k \in 1..Len(lines) : lines'[k] = lines[k]
      /\ lines'[Len(lines) + 1] = line
  BY <1>5, <1>6, AppendProperties, LenProperties
<1>8. Cut' = Cut + n
  <2>1. lines' # <<>>
    BY <1>5, <1>6, AppendProperties
  <2>2. QED
    BY <1>7, <2>1 DEF Cut, line
<1>9. line_buf' \in Seq(Byte) /\ line_buf' = SubSeq(stream, Cut' + 1, got)
  <2>1. line_buf \in Seq(Byte) /\ line_buf = SubSeq(stream, Cut + 1, got)
    BY DEF TypeOK, Held
  <2>2. CASE n = Len(line_buf)
    <3>1. line_buf' = <<>>
      BY <1>2, <2>2, SubSeqEmpty
    <3>2. SubSeq(stream, Cut' + 1, got) = <<>>
      BY <1>1, <1>2, <1>8, <2>2, SubSeqEmpty
    <3>3. <<>> \in Seq(Byte)
      BY EmptySeq
    <3>4. QED
      BY <3>1, <3>2, <3>3
  <2>3. CASE n # Len(line_buf)
    <3> DEFINE i == Cut + 1  p == n + 1  q == got - Cut
    <3>1. /\ i \in 1..Len(stream) /\ got \in 1..Len(stream)
          /\ p \in 1..(got - i + 1) /\ q \in 1..(got - i + 1)
          /\ i + p - 1 = (Cut + n) + 1 /\ i + q - 1 = got
      <4>1. /\ Cut \in Int /\ got \in Int /\ n \in Int /\ 0 <= Cut /\ got <= Len(stream)
            /\ 1 <= n /\ n < got - Cut
        BY <1>1, <1>2, <2>3
      <4>2. QED
        BY <1>1, <4>1, SMTT(30)
    <3>2. line_buf' = SubSeq(SubSeq(stream, i, got), p, q)
      BY <1>1, <2>1
    <3>3. SubSeq(SubSeq(stream, i, got), p, q) = SubSeq(stream, i + p - 1, i + q - 1)
      <4> HIDE DEF i, p, q
      <4>1. QED
        BY <1>1, <3>1, SubSeqOfSubSeq
    <3>4. line_buf' = SubSeq(stream, Cut' + 1, got)
      BY <1>8, <3>1, <3>2, <3>3
    <3>5. \A j \in p..q : line_buf[j] \in Byte
      BY <1>1, <1>2, <2>1, ElementOfSeq
    <3>6. line_buf' \in Seq(Byte)
      <4>1. p \in Int /\ q \in Int /\ line_buf' = SubSeq(line_buf, p, q)
        BY <1>1, <1>2
      <4> HIDE DEF p, q
      <4>2. SubSeq(line_buf, p, q) \in Seq(Byte)
        BY <3>5, <4>1, SubSeqProperties
      <4>3. QED
        BY <4>1, <4>2
    <3>7. QED
      BY <3>4, <3>6
  <2>4. QED
    BY <2>2, <2>3
<1>10. buf' \in Seq(Emitted) /\ emitted' \in Seq(Emitted) /\ BytesInOrder'
  BY <1>2, Translated
<1>11. TypeOK'
  BY <1>7, <1>9, <1>10 DEF TypeOK
<1>12. Held'
  BY <1>1, <1>2, <1>8, <1>9 DEF Held, NeedsLine
<1>13. LinesAsSent'
  <2> SUFFICES ASSUME NEW k \in 1..(Len(lines) + 1)
               PROVE  AsSent(k)'
    BY <1>7 DEF LinesAsSent
  <2>1. CASE k \in 1..Len(lines)
    <3>1. AsSent(k)
      BY <2>1 DEF LinesAsSent
    <3>2. lines'[k] = lines[k] /\ (k # 1 => lines'[k - 1] = lines[k - 1])
      BY <1>7, <2>1, SMTT(30)
    <3>3. QED
      BY <3>1, <3>2 DEF AsSent
  <2>2. CASE k = Len(lines) + 1
    <3>1. /\ line.from = Cut + 1 /\ line.to = Cut + n
          /\ line.text = Text(SubSeq(stream, Cut + 1, Cut + n))
      BY <1>3 DEF line, text
    <3>2. line.from = (IF k = 1 THEN 1 ELSE lines'[k - 1].to + 1)
      <4>1. lines = <<>> <=> Len(lines) = 0
        BY <1>6
      <4>2. k # 1 => lines'[k - 1] = lines[Len(lines)]
        BY <1>7, <2>2, SMTT(30)
      <4>3. QED
        BY <1>7, <2>2, <3>1, <4>1, <4>2 DEF Cut
    <3>3. \A j \in (Cut + 1)..(Cut + n - 1) : stream[j] # NL
      <4> SUFFICES ASSUME NEW j \in (Cut + 1)..(Cut + n - 1)
                   PROVE  stream[j] # NL
        OBVIOUS
      <4>1. j - Cut \in 1..(n - 1) /\ j - Cut \in 1..Len(line_buf) /\ Cut + (j - Cut) = j
        BY <1>1, <1>2
      <4>2. QED
        BY <1>1, <4>1
    <3>4. stream[Cut + n] = NL \/ Cut + n = Len(stream)
      BY <1>1, <1>2, SMTT(30)
    <3>5. lines'[k] = line
      BY <1>7, <2>2
    <3>6. line.from <= line.to /\ line.to <= Len(stream)
      BY <1>1, <1>2, <3>1
    <3>7. /\ \A j \in line.from..(line.to - 1) : stream[j] # NL
          /\ stream[line.to] = NL \/ line.to = Len(stream)
          /\ line.text = Text(SubSeq(stream, line.from, line.to))
      <4> DEFINE f == line.from  t == line.to
      <4>1. f = Cut + 1 /\ t = Cut + n
        BY <3>1
      <4> HIDE DEF f, t
      <4>2. \A j \in f..(t - 1) : stream[j] # NL
        <5>1. t - 1 = Cut + n - 1
          BY <1>1, <1>2, <4>1
        <5>2. QED
          BY <3>3, <4>1, <5>1
      <4>3. stream[t] = NL \/ t = Len(stream)
        BY <3>4, <4>1
      <4>4. line.text = Text(SubSeq(stream, f, t))
        BY <3>1, <4>1
      <4>5. QED
        BY <4>2, <4>3, <4>4 DEF f, t
    <3>8. stream' = stream
      OBVIOUS
    <3>9. QED
      BY <3>2, <3>5, <3>6, <3>7, <3>8 DEF AsSent
  <2>3. QED
    BY <1>7, <2>1, <2>2
<1>14. QED
  BY <1>10, <1>11, <1>12, <1>13

\* Reading more from the upstream extends the bytes held.
LEMMA ReadStep ==
  ASSUME IInv, NEW n \in 1..MaxRead, ReadUpstream(n)
  PROVE  IInv'
<1> USE DEF IInv
<1>1. /\ stream \in Seq(Byte) /\ Len(stream) \in Nat /\ got \in 0..Len(stream)
      /\ Cut \in 0..got
  BY HeldBytes
<1>2. n \in Nat \ {0} /\ got + n <= Len(stream) /\ got' = got + n
  BY LineAssumption DEF ReadUpstream
<1>3. /\ line_buf' = SubSeq(stream, Cut + 1, got) \o SubSeq(stream, got + 1, got + n)
      /\ UNCHANGED <<stream, buf, done, pc, room, delivered, lines, emitted>>
      /\ pc = "read"
  BY DEF ReadUpstream, Held, NeedsLine
<1>4. Cut' = Cut
  BY <1>3 DEF Cut
<1>5. line_buf' = SubSeq(stream, Cut + 1, got')
  <2> DEFINE m == Cut + 1  e == got + n
  <2>1. m \in 1..(Len(stream) + 1) /\ got \in (m - 1)..Len(stream) /\ e \in got..Len(stream)
    BY <1>1, <1>2
  <2> HIDE DEF m, e
  <2>2. SubSeq(stream, m, got) \o SubSeq(stream, got + 1, e) = SubSeq(stream, m, e)
    BY <1>1, <2>1, ConcatAdjacentSubSeq
  <2>3. QED
    BY <1>2, <1>3, <2>2 DEF m, e
<1>6. line_buf' \in Seq(Byte)
  <2> DEFINE m == Cut + 1  e == got'
  <2>1. m \in Int /\ e \in Int /\ \A j \in m..e : j \in 1..Len(stream)
    BY <1>1, <1>2
  <2>2. \A j \in m..e : stream[j] \in Byte
    BY <1>1, <2>1, ElementOfSeq
  <2> HIDE DEF m, e
  <2>3. SubSeq(stream, m, e) \in Seq(Byte)
    BY <2>1, <2>2, SubSeqProperties
  <2>4. QED
    BY <1>5, <2>3 DEF m, e
<1>7. TypeOK'
  BY <1>1, <1>2, <1>3, <1>6 DEF TypeOK
<1>8. Held'
  <2>1. Cut' \in 0..got' /\ pc' # "end"
    BY <1>1, <1>2, <1>3, <1>4
  <2>2. QED
    BY <1>3, <1>4, <1>5, <2>1 DEF Held
<1>9. LinesAsSent' /\ BytesInOrder'
  BY <1>3 DEF LinesAsSent, AsSent, BytesInOrder
<1>10. QED
  BY <1>7, <1>8, <1>9

\* Handing buffered bytes to the client keeps the invariant.
LEMMA ServeStep ==
  ASSUME IInv, ServeBuffer
  PROVE  IInv'
<1> USE DEF IInv
<1> DEFINE n == Fitting(Len(buf))
<1>1. buf \in Seq(Emitted) /\ delivered \in Seq(Emitted) /\ Len(buf) \in Nat
  BY DEF TypeOK
<1>2. n \in Nat /\ n <= Len(buf)
  BY <1>1 DEF Fitting, TypeOK
<1>3. /\ delivered' = delivered \o SubSeq(buf, 1, n)
      /\ buf' = SubSeq(buf, n + 1, Len(buf))
      /\ pc' = "idle"
      /\ UNCHANGED <<stream, got, line_buf, done, room, lines, emitted>>
  BY DEF ServeBuffer
<1> HIDE DEF n
<1>4. \A j \in 1..Len(buf) : buf[j] \in Emitted
  BY <1>1, ElementOfSeq
<1> DEFINE m == n + 1  e == Len(buf)
<1>5. SubSeq(buf, 1, n) \in Seq(Emitted)
  <2>1. \A j \in 1..n : buf[j] \in Emitted
    BY <1>1, <1>2, <1>4
  <2>2. QED
    BY <1>2, <2>1, SubSeqProperties
<1>6. SubSeq(buf, m, e) \in Seq(Emitted)
  <2>1. m \in Int /\ e \in Int /\ \A j \in m..e : buf[j] \in Emitted
    BY <1>1, <1>2, <1>4
  <2> HIDE DEF m, e
  <2>2. QED
    BY <2>1, SubSeqProperties
<1>7. SubSeq(buf, 1, n) \o SubSeq(buf, n + 1, Len(buf)) = buf
  <2>1. 1 \in 1..(Len(buf) + 1) /\ n \in (1 - 1)..Len(buf) /\ Len(buf) \in n..Len(buf)
    BY <1>1, <1>2
  <2>2. SubSeq(buf, 1, n) \o SubSeq(buf, n + 1, Len(buf)) = SubSeq(buf, 1, Len(buf))
    BY <1>1, <2>1, ConcatAdjacentSubSeq
  <2>3. QED
    BY <1>1, <2>2, SubSeqFull
<1>8. delivered' \in Seq(Emitted) /\ buf' \in Seq(Emitted)
  BY <1>1, <1>3, <1>5, <1>6, ConcatProperties
<1>9. BytesInOrder'
  <2> DEFINE x == SubSeq(buf, 1, n)  y == SubSeq(buf, m, e)
  <2>1. /\ x \in Seq(Emitted) /\ y \in Seq(Emitted) /\ x \o y = buf
        /\ delivered' = delivered \o x /\ buf' = y /\ emitted' = emitted
    BY <1>3, <1>5, <1>6, <1>7
  <2> HIDE DEF x, y
  <2>2. \A r, s, t \in Seq(Emitted) : (r \o s) \o t = r \o (s \o t)
    BY ConcatAssociative
  <2>3. QED
    BY <1>1, <2>1, <2>2 DEF BytesInOrder
<1>10. TypeOK' /\ Held' /\ LinesAsSent'
  BY <1>3, <1>8 DEF TypeOK, Held, Cut, LinesAsSent, AsSent
<1>11. QED
  BY <1>9, <1>10

-----------------------------------------------------------------------------
\* Nothing is read in an initial state.
LEMMA InitInv == Init => IInv
<1> SUFFICES ASSUME Init PROVE IInv
  OBVIOUS
<1>1. stream \in Seq(Byte) /\ Len(stream) \in Nat
  BY LineAssumption DEF Init
<1>2. Cut = 0 /\ line_buf = SubSeq(stream, Cut + 1, got)
  BY <1>1, SubSeqEmpty DEF Init, Cut
<1>3. TypeOK
  <2>1. \A S : <<>> \in Seq(S)
    BY EmptySeq
  <2>2. stream \in Streams /\ got \in 0..Len(stream) /\ room \in Nat
    BY <1>1 DEF Init
  <2>3. QED
    BY <2>1, <2>2 DEF Init, TypeOK
<1>4. Held
  BY <1>1, <1>2 DEF Held, Init
<1>5. LinesAsSent
  BY DEF LinesAsSent, Init
<1>6. BytesInOrder
  BY ConcatEmptySeq, EmptySeq DEF BytesInOrder, Init
<1>7. QED
  BY <1>3, <1>4, <1>5, <1>6 DEF IInv

\* Every step keeps the invariant.
LEMMA StepInv == IInv /\ [Next]_vars => IInv'
<1> SUFFICES ASSUME IInv, [Next]_vars PROVE IInv'
  OBVIOUS
<1> USE DEF IInv
<1>1. Len(line_buf) \in Nat
  BY DEF TypeOK
<1>2. CASE ClientReads
  BY <1>2, LineAssumption
  DEF ClientReads, TypeOK, Held, Cut, LinesAsSent, AsSent, BytesInOrder
<1>3. CASE ClientLeaves
  BY <1>3 DEF ClientLeaves, TypeOK, Held, Cut, LinesAsSent, AsSent, BytesInOrder
<1>4. CASE ServeBuffer
  BY <1>4, ServeStep
<1>5. CASE TakeLine
  <2>1. PICK p \in 1..Len(line_buf) :
          /\ FirstNewline(p) /\ ProcessLine(p)
          /\ line_buf' = SubSeq(line_buf, p + 1, Len(line_buf))
    BY <1>5 DEF TakeLine
  <2>2. NeedsLine /\ UNCHANGED <<stream, got, done, pc, room, delivered>>
    BY <1>5 DEF TakeLine
  <2>3. line_buf[p] = NL /\ \A j \in 1..(p - 1) : line_buf[j] # NL
    BY <2>1 DEF FirstNewline
  <2>4. QED
    BY <2>1, <2>2, <2>3, CutStep
<1>6. CASE LastLine
  <2> DEFINE n == Len(line_buf)
  <2>1. /\ NeedsLine /\ NoNewline /\ got = Len(stream) /\ ProcessLine(n)
        /\ line_buf' = <<>> /\ UNCHANGED <<stream, got, done, pc, room, delivered>>
    BY <1>6 DEF LastLine
  <2>2. n \in 1..Len(line_buf)
    BY <1>1, <1>6, EmptySeq DEF LastLine, TypeOK
  <2>3. line_buf' = SubSeq(line_buf, n + 1, Len(line_buf))
    BY <1>1, <2>1, SubSeqEmpty
  <2>4. \A j \in 1..(n - 1) : line_buf[j] # NL
    BY <1>1, <2>1 DEF NoNewline
  <2> HIDE DEF n
  <2>5. QED
    BY <2>1, <2>2, <2>3, <2>4, CutStep DEF n
<1>7. CASE UpstreamEnds
  BY <1>7 DEF UpstreamEnds, NeedsLine, TypeOK, Held, Cut, LinesAsSent, AsSent, BytesInOrder
<1>8. CASE Upstream
  BY <1>8, ReadStep DEF Upstream
<1>9. CASE UpstreamFails
  BY <1>9 DEF UpstreamFails, TypeOK, Held, Cut, LinesAsSent, AsSent, BytesInOrder
<1>10. CASE UNCHANGED vars
  BY <1>10 DEF vars, TypeOK, Held, Cut, LinesAsSent, AsSent, BytesInOrder
<1>11. QED
  BY <1>2, <1>3, <1>4, <1>5, <1>6, <1>7, <1>8, <1>9, <1>10 DEF Next, Reader, Rest

-----------------------------------------------------------------------------
\* The inductive invariant: line_buf is the stretch of the stream between the
\* last line processed and the last byte read, the lines before it are as
\* sent, and every translated byte is delivered or in buf (Read::read).
THEOREM Inductive == Spec => []IInv
BY InitInv, StepInv, PTL DEF Spec

\* Every variable keeps its type and next_line never counts a byte that was
\* not sent, whatever the stream and the sizes.
THEOREM TypeCorrect == Spec => []TypeOK
<1>1. IInv => TypeOK
  BY DEF IInv
<1>2. QED
  BY <1>1, Inductive, PTL

\* Every line processed is a line of the stream, in order, none left out
\* (next_line), for every split into reads.
THEOREM LinesStayWhole == Spec => []LinesAsSent
<1>1. IInv => LinesAsSent
  BY DEF IInv
<1>2. QED
  BY <1>1, Inductive, PTL

\* The client receives the translated bytes in order and without a gap
\* (Read::read), for every room it offers.
THEOREM BytesStayInOrder == Spec => []BytesInOrder
<1>1. IInv => BytesInOrder
  BY DEF IInv
<1>2. QED
  BY <1>1, Inductive, PTL

\* The end is reported after everything is delivered (Read::read).
THEOREM EndIsTheEnd == Spec => []EndIsEnd
<1>1. IInv => EndIsEnd
  <2> SUFFICES ASSUME IInv, pc = "end"
               PROVE  delivered = emitted /\ got = Len(stream) /\ Cut = Len(stream)
    BY DEF EndIsEnd
  <2>1. line_buf = <<>> /\ buf = <<>> /\ got = Len(stream)
    BY DEF IInv, Held
  <2>2. delivered \in Seq(Emitted) /\ delivered \o buf = emitted
    BY DEF IInv, TypeOK, BytesInOrder
  <2>3. delivered = emitted
    BY <2>1, <2>2, ConcatEmptySeq
  <2>4. Cut \in 0..got /\ Len(line_buf) = got - Cut /\ got \in Nat
    BY HeldBytes DEF IInv
  <2>5. Len(line_buf) = 0
    BY <2>1, EmptySeq
  <2>6. QED
    BY <2>1, <2>3, <2>4, <2>5
<1>2. QED
  BY <1>1, Inductive, PTL

\* The upstream is asked for more only with nothing left to hand on
\* (Read::read, next_line).
THEOREM NothingIsHeldBack == Spec => NothingHeldBack
<1> DEFINE P == /\ delivered = emitted
                /\ \A j \in (Cut + 1)..got : stream[j] # NL
<1>1. IInv /\ [Next]_vars => [got' # got => P]_vars
  <2> SUFFICES ASSUME IInv, Next, got' # got PROVE P
    OBVIOUS
  <2>1. PICK n \in 1..MaxRead : ReadUpstream(n)
    BY DEF Next, Reader, Rest, Upstream, vars, ClientReads, ClientLeaves, ServeBuffer,
       TakeLine, LastLine, UpstreamEnds, UpstreamFails
  <2>2. NoNewline /\ buf = <<>>
    BY <2>1 DEF ReadUpstream, NeedsLine
  <2>3. delivered \in Seq(Emitted) /\ delivered \o buf = emitted
    BY DEF IInv, TypeOK, BytesInOrder
  <2>4. delivered = emitted
    BY <2>2, <2>3, ConcatEmptySeq
  <2>5. /\ got \in Nat /\ Cut \in Nat /\ Len(line_buf) = got - Cut
        /\ \A j \in 1..Len(line_buf) : line_buf[j] = stream[Cut + j]
    BY HeldBytes DEF IInv
  <2>6. ASSUME NEW j \in (Cut + 1)..got PROVE stream[j] # NL
    <3>1. j - Cut \in 1..Len(line_buf) /\ Cut + (j - Cut) = j
      BY <2>5
    <3>2. QED
      BY <2>2, <2>5, <3>1 DEF NoNewline
  <2>7. QED
    BY <2>4, <2>6
<1>2. QED
  BY <1>1, Inductive, PTL DEF Spec, NothingHeldBack

\* A line of a well-formed text is well-formed: a character that ends outside
\* the line would have its newline, or the end of the stream, in the middle.
THEOREM NothingTorn == Spec => []NoTornText
<1>1. IInv => NoTornText
  <2> SUFFICES ASSUME IInv,
                      \A j \in 1..Len(stream) : Decoded(stream, j) # "torn",
                      NEW k \in 1..Len(lines), NEW j \in 1..Len(lines[k].text)
               PROVE  lines[k].text[j] # "torn"
    BY DEF NoTornText
  <2> DEFINE f == lines[k].from  t == lines[k].to  b == SubSeq(stream, f, t)
  <2>1. stream \in Seq(Byte) /\ Len(stream) \in Nat
    BY HeldBytes DEF IInv
  <2>2. \A i \in 1..Len(lines) : AsSent(i) /\ lines[i] \in Line
    BY ElementOfSeq DEF IInv, LinesAsSent, TypeOK
  <2>3. f \in Nat /\ t \in Nat /\ lines[k].text = Text(b)
    BY <2>2 DEF AsSent, Line
  <2>4. f <= t /\ t <= Len(stream) /\ (stream[t] = NL \/ t = Len(stream))
    BY <2>2 DEF AsSent
  <2>5. 1 <= f /\ (f # 1 => stream[f - 1] = NL)
    <3>1. CASE k = 1
      BY <2>2, <3>1 DEF AsSent
    <3>2. CASE k # 1
      <4>1. k - 1 \in 1..Len(lines)
        BY <3>2
      <4> DEFINE e == lines[k - 1].to
      <4>2. f = e + 1 /\ e \in Nat /\ (stream[e] = NL \/ e = Len(stream))
        BY <2>2, <3>2, <4>1 DEF AsSent, Line
      <4> HIDE DEF e
      <4>3. QED
        BY <2>1, <2>3, <2>4, <4>2
    <3>3. QED
      BY <3>1, <3>2
  <2> HIDE DEF f, t
  <2>6. \A i \in f..t : stream[i] \in Byte
    BY <2>1, <2>3, <2>4, <2>5, ElementOfSeq
  <2>7. /\ b \in Seq(Byte) /\ Len(b) = t - f + 1
        /\ \A i \in 1..(t - f + 1) : b[i] = stream[f + i - 1]
    BY <2>3, <2>4, <2>6, SubSeqProperties, SMTT(30)
  <2> HIDE DEF b
  <2>8. j \in 1..Len(b) /\ lines[k].text[j] = Decoded(b, j)
    BY <2>3, <2>7, TextType
  <2> DEFINE i == f + j - 1
  <2>9. /\ i \in f..t /\ i \in 1..Len(stream) /\ b[j] = stream[i]
        /\ (j < Len(b) => i < t /\ b[j + 1] = stream[i + 1])
        /\ (j > 1 => i > f /\ b[j - 1] = stream[i - 1])
        /\ (j = 1 => i = f) /\ (j = Len(b) => i = t)
    <3>1. /\ j \in Int /\ f \in Int /\ t \in Int /\ 1 <= j /\ j <= t - f + 1 /\ Len(b) = t - f + 1
      BY <2>3, <2>4, <2>7, <2>8
    <3>2. /\ i \in f..t /\ i \in 1..Len(stream) /\ b[j] = stream[i]
          /\ (j = 1 => i = f) /\ (j = Len(b) => i = t)
      BY <2>1, <2>4, <2>5, <2>7, <3>1
    <3>3. j < Len(b) => i < t /\ b[j + 1] = stream[i + 1]
      <4>1. j < Len(b) => j + 1 \in 1..(t - f + 1) /\ f + (j + 1) - 1 = i + 1
        BY <3>1
      <4>2. QED
        BY <2>7, <3>1, <4>1, SMTT(30)
    <3>4. j > 1 => i > f /\ b[j - 1] = stream[i - 1]
      <4>1. j > 1 => j - 1 \in 1..(t - f + 1) /\ f + (j - 1) - 1 = i - 1
        BY <3>1
      <4>2. QED
        BY <2>7, <3>1, <4>1
    <3>5. QED
      BY <3>2, <3>3, <3>4
  <2> HIDE DEF i
  <2>a. Lead # Cont /\ NL # Lead /\ NL # Cont
    BY LineAssumption
  <2>10. Decoded(stream, i) # "torn"
    BY <2>9
  <2>11. CASE b[j] = Lead
    <3>1. i < Len(stream) /\ stream[i + 1] = Cont
      BY <2>9, <2>10, <2>11, <2>a DEF Decoded
    <3>2. i # t
      <4>1. stream[i] = Lead /\ i # Len(stream)
        BY <2>1, <2>9, <2>11, <3>1
      <4>2. QED
        BY <2>4, <2>a, <4>1
    <3>3. j < Len(b) /\ b[j + 1] = Cont
      BY <2>7, <2>8, <2>9, <3>1, <3>2
    <3>4. QED
      BY <2>8, <2>11, <2>a, <3>3 DEF Decoded
  <2>12. CASE b[j] = Cont /\ b[j] # Lead
    <3>1. i > 1 /\ stream[i - 1] = Lead
      BY <2>9, <2>10, <2>12 DEF Decoded
    <3>2. i # f
      BY <2>5, <2>a, <3>1
    <3>3. j > 1 /\ b[j - 1] = Lead
      BY <2>8, <2>9, <3>1, <3>2
    <3>4. QED
      BY <2>8, <2>12, <3>3 DEF Decoded
  <2>13. CASE b[j] # Cont /\ b[j] # Lead
    <3>1. b[j] \in Byte
      BY <2>7, <2>8, ElementOfSeq
    <3>2. b[j] # "torn"
      BY <3>1, LineAssumption
    <3>3. QED
      BY <2>8, <2>13, <3>2 DEF Decoded
  <2>14. QED
    BY <2>11, <2>12, <2>13
<1>2. QED
  BY <1>1, Inductive, PTL
=============================================================================
