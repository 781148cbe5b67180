----------------------------- MODULE LineReader -----------------------------
(***************************************************************************)
(* The two ends of MistralToOaiStream: next_line cuts the upstream's bytes *)
(* into lines, whatever pieces they arrive in, and Read::read hands the    *)
(* translated bytes to the client's connection, whatever room it offers.   *)
(*                                                                         *)
(* `stream` is all the upstream will ever send.  What process_line makes   *)
(* of a line is SseTranslator's subject; here it is any number of bytes    *)
(* out of Widths, tagged with the line and their place, and none for a     *)
(* blank line.  `lines` and `emitted` are history: everything handed to    *)
(* process_line and everything it wrote to buf.                            *)
(***************************************************************************)
EXTENDS Integers, Sequences, FiniteSets

CONSTANTS
  Char,        \* one-byte characters that are not white space
  NL, Space,   \* \n, and any other white space, \r included
  Lead, Cont,  \* the two bytes of a longer character
  Streams,     \* what the upstream may send
  MaxRead,     \* the length of tmp: most bytes one upstream read returns
  Sizes,       \* lengths of the slices the client reads into
  Widths       \* how many bytes a line may be translated to

Byte == Char \cup {NL, Space, Lead, Cont}

ASSUME LineAssumption ==
  /\ NL \notin Char \cup {Space, Lead, Cont}
  /\ {Space, Lead, Cont} \cap Char = {}
  /\ Lead # Cont /\ Space \notin {Lead, Cont}
  /\ {"wide", "rest", "torn"} \cap Byte = {}
  /\ Streams \subseteq Seq(Byte)
  /\ MaxRead \in Nat \ {0} /\ Sizes \subseteq Nat \ {0} /\ Widths \subseteq Nat

VARIABLES
  stream,     \* all the upstream sends before its end
  got,        \* how many bytes of it were read
  line_buf,   \* bytes read and not yet cut into lines
  buf,        \* translated bytes not yet read by the client
  done,       \* next_line has reported the end
  pc,         \* "idle", "read" (inside Read::read), "end", "failed" or "left"
  room,       \* out.len() of the read under way
  delivered,  \* what the client has received
  lines,      \* lines processed: where they were in stream, and their text
  emitted     \* everything process_line wrote

vars == <<stream, got, line_buf, buf, done, pc, room, delivered, lines, emitted>>

-----------------------------------------------------------------------------
(* String::from_utf8_lossy(..).trim_end()                                  *)

\* What byte k of b becomes: the bytes of a complete character stand for that
\* character, half a character is replaced.
Decoded(b, k) ==
  CASE b[k] = Lead -> IF k < Len(b) /\ b[k + 1] = Cont THEN "wide" ELSE "torn"
    [] b[k] = Cont -> IF k > 1 /\ b[k - 1] = Lead THEN "rest" ELSE "torn"
    [] OTHER -> b[k]

Characters(b) == [k \in 1..Len(b) |-> Decoded(b, k)]

\* Without the white space at its end: what white space alone follows goes.
TrimEnd(s) ==
  LET kept == {k \in 1..Len(s) : \E j \in k..Len(s) : s[j] \notin {NL, Space}}
  IN SubSeq(s, 1, Cardinality(kept))

Text(b) == TrimEnd(Characters(b))

-----------------------------------------------------------------------------
Init ==
  /\ stream \in Streams
  /\ got = 0
  /\ line_buf = <<>> /\ buf = <<>>
  /\ done = FALSE
  /\ pc = "idle" /\ room = 0
  /\ delivered = <<>> /\ lines = <<>> /\ emitted = <<>>

\* The HTTP server asks for more, as long as it did not see the end.
ClientReads ==
  /\ pc = "idle"
  /\ room' \in Sizes
  /\ pc' = "read"
  /\ UNCHANGED <<stream, got, line_buf, buf, done, delivered, lines, emitted>>

\* The client's connection is gone: the stream is dropped.
ClientLeaves ==
  /\ pc = "idle"
  /\ pc' = "left"
  /\ UNCHANGED <<stream, got, line_buf, buf, done, room, delivered, lines, emitted>>

Fitting(n) == IF n < room THEN n ELSE room

\* Faulty variant of ServeBuffer: the buffer is cleared, not drained.
ServeBufferCleared ==
  /\ pc = "read" /\ buf # <<>>
  /\ delivered' = delivered \o SubSeq(buf, 1, Fitting(Len(buf)))
  /\ buf' = <<>>
  /\ pc' = "idle"
  /\ UNCHANGED <<stream, got, line_buf, done, room, lines, emitted>>

\* Bytes that are there are returned, as many as fit, before anything else
\* is done.
ServeBuffer ==
  /\ pc = "read" /\ buf # <<>>
  /\ LET n == Fitting(Len(buf)) IN
       /\ delivered' = delivered \o SubSeq(buf, 1, n)
       /\ buf' = SubSeq(buf, n + 1, Len(buf))
  /\ pc' = "idle"
  /\ UNCHANGED <<stream, got, line_buf, done, room, lines, emitted>>

\* read is inside next_line.
NeedsLine == pc = "read" /\ buf = <<>> /\ ~done

\* The first newline in line_buf is at p.
FirstNewline(p) ==
  /\ p \in 1..Len(line_buf) /\ line_buf[p] = NL
  /\ \A j \in 1..(p - 1) : line_buf[j] # NL

NoNewline == \A j \in 1..Len(line_buf) : line_buf[j] # NL

\* Where the last line processed ends in stream.
Cut == IF lines = <<>> THEN 0 ELSE lines[Len(lines)].to

\* process_line for the first n bytes of line_buf.
ProcessLine(n) ==
  LET text == Text(SubSeq(line_buf, 1, n))
  IN \E w \in IF text = <<>> THEN {0} ELSE Widths :
       LET out == [j \in 1..w |-> <<Len(lines) + 1, j>>]
       IN /\ lines' = Append(lines, [from |-> Cut + 1, to |-> Cut + n, text |-> text])
          /\ buf' = buf \o out
          /\ emitted' = emitted \o out

\* Faulty variant of TakeLine: the newline stays in the buffer.
TakeLineKeepsNewline ==
  /\ NeedsLine
  /\ \E p \in 1..Len(line_buf) :
       /\ FirstNewline(p)
       /\ ProcessLine(p)
       /\ line_buf' = SubSeq(line_buf, p, Len(line_buf))
  /\ UNCHANGED <<stream, got, done, pc, room, delivered>>

\* A complete line is cut off, its newline included, and processed; read
\* goes on.
TakeLine ==
  /\ NeedsLine
  /\ \E p \in 1..Len(line_buf) :
       /\ FirstNewline(p)
       /\ ProcessLine(p)
       /\ line_buf' = SubSeq(line_buf, p + 1, Len(line_buf))
  /\ UNCHANGED <<stream, got, done, pc, room, delivered>>

\* Faulty variant of ReadUpstream: it reads ahead although it has a line.
ReadUpstreamAhead(n) ==
  /\ NeedsLine
  /\ n \in 1..MaxRead /\ got + n <= Len(stream)
  /\ line_buf' = line_buf \o SubSeq(stream, got + 1, got + n)
  /\ got' = got + n
  /\ UNCHANGED <<stream, buf, done, pc, room, delivered, lines, emitted>>

\* Faulty variant of ReadUpstream: all of tmp is taken, however little was read.
ReadUpstreamWholeBuffer(n) ==
  /\ NeedsLine /\ NoNewline
  /\ n \in 1..MaxRead /\ got + n <= Len(stream)
  /\ line_buf' = line_buf \o SubSeq(stream, got + 1, got + n)
                          \o [j \in 1..(MaxRead - n) |-> "zero"]
  /\ got' = got + n
  /\ UNCHANGED <<stream, buf, done, pc, room, delivered, lines, emitted>>

\* No complete line: the next n bytes are read.
ReadUpstream(n) ==
  /\ NeedsLine /\ NoNewline
  /\ n \in 1..MaxRead /\ got + n <= Len(stream)
  /\ line_buf' = line_buf \o SubSeq(stream, got + 1, got + n)
  /\ got' = got + n
  /\ UNCHANGED <<stream, buf, done, pc, room, delivered, lines, emitted>>

\* Faulty variant of LastLine: it waits for the newline.
LastLineWaits ==
  /\ NeedsLine /\ ~NoNewline
  /\ got = Len(stream)
  /\ ProcessLine(Len(line_buf))
  /\ line_buf' = <<>>
  /\ UNCHANGED <<stream, got, done, pc, room, delivered>>

\* Faulty variant of LastLine: whatever a read leaves without newline counts.
LastLineTooSoon ==
  /\ NeedsLine /\ NoNewline
  /\ line_buf # <<>>
  /\ ProcessLine(Len(line_buf))
  /\ line_buf' = <<>>
  /\ UNCHANGED <<stream, got, done, pc, room, delivered>>

\* The upstream has ended and a line without newline is left: it counts.
LastLine ==
  /\ NeedsLine /\ NoNewline
  /\ got = Len(stream) /\ line_buf # <<>>
  /\ ProcessLine(Len(line_buf))
  /\ line_buf' = <<>>
  /\ UNCHANGED <<stream, got, done, pc, room, delivered>>

\* Faulty variant of UpstreamEnds: a line without newline is forgotten.
UpstreamEndsEarly ==
  /\ NeedsLine /\ NoNewline
  /\ got = Len(stream)
  /\ done' = TRUE
  /\ pc' = "end"
  /\ UNCHANGED <<stream, got, line_buf, buf, room, delivered, lines, emitted>>

\* Nothing is left: the client reads 0 bytes, which ends its response.
UpstreamEnds ==
  /\ NeedsLine /\ NoNewline
  /\ got = Len(stream) /\ line_buf = <<>>
  /\ done' = TRUE
  /\ pc' = "end"
  /\ UNCHANGED <<stream, got, line_buf, buf, room, delivered, lines, emitted>>

\* Reading from the upstream fails, and so does the client's read.
UpstreamFails ==
  /\ NeedsLine /\ NoNewline
  /\ pc' = "failed"
  /\ UNCHANGED <<stream, got, line_buf, buf, done, room, delivered, lines, emitted>>

Over == pc \in {"end", "failed", "left"}
Rest == Over /\ UNCHANGED vars

Upstream == \E n \in 1..MaxRead : ReadUpstream(n)
Reader == ServeBuffer \/ TakeLine \/ LastLine \/ UpstreamEnds

Next == ClientReads \/ ClientLeaves \/ Reader \/ Upstream \/ UpstreamFails \/ Rest

Spec == Init /\ [][Next]_vars

\* The thread runs, the upstream sends what it has, the client keeps asking.
FairSpec == Spec /\ WF_vars(Reader) /\ WF_vars(Upstream) /\ WF_vars(ClientReads)

-----------------------------------------------------------------------------
(* Correctness.                                                            *)

Line == [from : Nat, to : Nat, text : Seq(Byte \cup {"wide", "rest", "torn"})]
Emitted == Nat \X Nat

\* Every variable has its type, and no more is read than is sent.
TypeOK ==
  /\ stream \in Streams /\ got \in 0..Len(stream)
  /\ line_buf \in Seq(Byte)
  /\ buf \in Seq(Emitted) /\ delivered \in Seq(Emitted) /\ emitted \in Seq(Emitted)
  /\ done \in BOOLEAN
  /\ pc \in {"idle", "read", "end", "failed", "left"}
  /\ room \in Nat
  /\ lines \in Seq(Line)

\* Line k as it stands in the stream: it begins where the one before ended,
\* has no newline but at its end, and ends with one or with the stream.
AsSent(k) ==
  LET l == lines[k] IN
  /\ l.from = (IF k = 1 THEN 1 ELSE lines[k - 1].to + 1)
  /\ l.from <= l.to /\ l.to <= Len(stream)
  /\ \A j \in (l.from)..(l.to - 1) : stream[j] # NL
  /\ stream[l.to] = NL \/ l.to = Len(stream)
  /\ l.text = Text(SubSeq(stream, l.from, l.to))

\* However the upstream's bytes are split into reads, the lines processed are
\* the lines it sent: none torn, joined, skipped or repeated (next_line).
LinesAsSent == \A k \in 1..Len(lines) : AsSent(k)

\* A stream that is well-formed text stays so: no character is torn by the
\* end of a read (next_line decodes whole lines only).
NoTornText ==
  (\A j \in 1..Len(stream) : Decoded(stream, j) # "torn")
  => \A k \in 1..Len(lines) : \A j \in 1..Len(lines[k].text) : lines[k].text[j] # "torn"

\* Whatever room the client offers, it has received what was translated, in
\* order and without a gap, and the rest is still to come (Read::read).
BytesInOrder == delivered \o buf = emitted

\* The client is told the end only after it has received everything made of
\* everything the upstream sent, a last line without newline included
\* (Read::read, next_line).
EndIsEnd == pc = "end" => delivered = emitted /\ got = Len(stream) /\ Cut = Len(stream)

\* The upstream is asked for more only when every line it has completed is
\* processed and every byte made of them is delivered: a stream that pauses
\* holds nothing back (Read::read, next_line).
NothingHeldBack ==
  [][got' # got => /\ delivered = emitted
                   /\ \A j \in (Cut + 1)..got : stream[j] # NL]_vars

\* A response comes to its end, unless reading fails or the client leaves: no
\* read waits for a line that has come or goes round without end (Read::read).
ResponseEnds == <>Over

-----------------------------------------------------------------------------
(* Why they hold.                                                          *)

\* line_buf is the part of the stream between the last line and what was read.
Held ==
  /\ Cut \in 0..got
  /\ line_buf = SubSeq(stream, Cut + 1, got)
  /\ pc = "end" => line_buf = <<>> /\ buf = <<>> /\ got = Len(stream)

IInv == TypeOK /\ Held /\ LinesAsSent /\ BytesInOrder
=============================================================================
