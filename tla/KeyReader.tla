----------------------------- MODULE KeyReader -----------------------------
(***************************************************************************)
(* read_auth_header: where the API key comes from at startup.  The         *)
(* environment is asked first; otherwise one line is read from stdin into  *)
(* a fixed buffer, in whatever pieces read(2) delivers it.                 *)
(*                                                                         *)
(* `input` is all that stdin will ever deliver.  The buffer behind the     *)
(* "Bearer " prefix then holds the first `got` bytes of input, of which    *)
(* the first `total` count (the code's total less prefix_len).  A read     *)
(* interrupted by a signal is repeated inside read_from_unix_stdin and     *)
(* changes nothing.  mlock is best effort and left out, and so is the      *)
(* environment block itself, which belongs to the process's start.         *)
(***************************************************************************)
EXTENDS Integers, Sequences

CONSTANTS
  Byte,     \* what stdin may deliver
  KeyByte,  \* ASCII letters, digits, '-' and '_'
  NL, CR,   \* the bytes \n and \r
  Inputs,   \* the inputs considered
  Room      \* BUFFER_SIZE less the length of the prefix

ASSUME KeyAssumption ==
  /\ KeyByte \subseteq Byte
  /\ {NL, CR} \subseteq Byte \ KeyByte
  /\ NL # CR
  /\ Inputs \subseteq Seq(Byte)
  /\ Room \in Nat \ {0}

VARIABLES
  env,          \* what the environment variable holds
  input,        \* what stdin delivers before its end
  got,          \* bytes read into the buffer
  total,        \* bytes of it that count
  saw_newline,  \* a newline was read
  saw_eof,      \* read returned 0
  pc,           \* "start", "reading", "ok" or "error"
  error,        \* why reading failed
  held          \* what holds bytes of a key, in use or dropped unwiped

vars == <<env, input, got, total, saw_newline, saw_eof, pc, error, held>>

\* The variable may be absent, not Unicode (std::env::var is an Err), blank, a
\* key, or invalid as a key.
Environment == {"absent", "not_unicode", "blank", "key", "invalid"}
\* The copy std::env::var makes of the variable, the read buffer, the vector a
\* header is built in, the header value.
Places == {"env_val", "buf", "header", "value"}
Errors == {"none", "io", "too_long", "empty", "invalid"}

\* The value is used if it can be read and is not blank; whatever else is in
\* the variable, the key comes from stdin.
FromEnvironment == env \in {"key", "invalid"}

\* The copy of the variable is dropped as it is.
EnvVal == IF env \in {"not_unicode", "key", "invalid"} THEN {"env_val"} ELSE {}

Init ==
  /\ env \in Environment
  /\ input \in Inputs
  /\ got = 0 /\ total = 0
  /\ saw_newline = FALSE /\ saw_eof = FALSE
  /\ pc = "start" /\ error = "none"
  /\ held = {}

-----------------------------------------------------------------------------
\* auth_header_from_key: a key from the environment is validated, never
\* replaced by stdin; on failure the header is wiped, on success the vector
\* the header was built in is dropped as it is.
AuthHeaderFromKey ==
  /\ pc = "start"
  /\ FromEnvironment
  /\ IF env = "key"
     THEN pc' = "ok" /\ error' = "none" /\ held' = EnvVal \cup {"header", "value"}
     ELSE pc' = "error" /\ error' = "invalid" /\ held' = EnvVal
  /\ UNCHANGED <<env, input, got, total, saw_newline, saw_eof>>

\* Faulty variant of FallBackToStdin: any unusable value falls back.
FallBackAlways ==
  /\ pc = "start"
  /\ env # "key"
  /\ pc' = "reading"
  /\ held' = EnvVal
  /\ UNCHANGED <<env, input, got, total, saw_newline, saw_eof, error>>

\* read_auth_header_with starts with an empty buffer.
FallBackToStdin ==
  /\ pc = "start"
  /\ ~FromEnvironment
  /\ pc' = "reading"
  /\ held' = EnvVal
  /\ UNCHANGED <<env, input, got, total, saw_newline, saw_eof, error>>

\* The loop goes on: room left, no newline, no end of file.
Looping == pc = "reading" /\ total < Room /\ ~saw_newline /\ ~saw_eof

\* Faulty variant of Readable: the bytes already read are not subtracted.
ReadableUnbounded == {n \in 1..Room : got + n <= Len(input)}

\* The sizes a read may return: what is there, up to the rest of the buffer.
Readable == {n \in 1..(Room - total) : got + n <= Len(input)}

\* A piece without a newline.
ReadMore(n) ==
  /\ Looping
  /\ n \in Readable
  /\ \A j \in 1..n : input[got + j] # NL
  /\ got' = got + n
  /\ total' = total + n
  /\ held' = held \cup {"buf"}
  /\ UNCHANGED <<env, input, saw_newline, saw_eof, pc, error>>

\* Faulty variant of ReadNewline: everything read counts.
ReadNewlineCountsAll(n) ==
  /\ Looping
  /\ n \in Readable
  /\ \E k \in 1..n : input[got + k] = NL
  /\ got' = got + n
  /\ total' = total + n
  /\ saw_newline' = TRUE
  /\ held' = held \cup {"buf"}
  /\ UNCHANGED <<env, input, saw_eof, pc, error>>

\* A piece whose k-th byte is its first newline: what follows is in the
\* buffer but does not count.
ReadNewline(n) ==
  /\ Looping
  /\ n \in Readable
  /\ \E k \in 1..n :
       /\ input[got + k] = NL
       /\ \A j \in 1..(k - 1) : input[got + j] # NL
       /\ total' = total + k
  /\ got' = got + n
  /\ saw_newline' = TRUE
  /\ held' = held \cup {"buf"}
  /\ UNCHANGED <<env, input, saw_eof, pc, error>>

ReadEof ==
  /\ Looping
  /\ got = Len(input)
  /\ saw_eof' = TRUE
  /\ UNCHANGED <<env, input, got, total, saw_newline, pc, error, held>>

\* Every failure wipes the buffer.
Fail(why) == pc' = "error" /\ error' = why /\ held' = held \ {"buf"}

\* So does success, once the header value is made.
Accept == pc' = "ok" /\ held' = (held \ {"buf"}) \cup {"value"} /\ UNCHANGED error

\* Faulty variant of ReadFails: the error is passed on with `?`.
ReadFailsUnwiped ==
  /\ Looping
  /\ pc' = "error" /\ error' = "io"
  /\ UNCHANGED <<env, input, got, total, saw_newline, saw_eof, held>>

ReadFails ==
  /\ Looping
  /\ Fail("io")
  /\ UNCHANGED <<env, input, got, total, saw_newline, saw_eof>>

\* Faulty variant of TooLong: what fits in the buffer is taken for the key.
TooLongKept ==
  /\ pc = "reading" /\ ~Looping
  /\ total = Room /\ ~saw_newline /\ ~saw_eof
  /\ Accept
  /\ UNCHANGED <<env, input, got, total, saw_newline, saw_eof>>

\* The buffer is full and no newline was seen.
TooLong ==
  /\ pc = "reading" /\ ~Looping
  /\ total = Room /\ ~saw_newline /\ ~saw_eof
  /\ Fail("too_long")
  /\ UNCHANGED <<env, input, got, total, saw_newline, saw_eof>>

\* The first k of n bytes are left when trailing \n and \r are stripped.
Stripped(k, n) ==
  /\ k > 0 => input[k] \notin {NL, CR}
  /\ \A j \in (k + 1)..n : input[j] \in {NL, CR}

\* validate_auth_header_bytes
Valid(k) == \A j \in 1..k : input[j] \in KeyByte

\* The line is complete: strip it, refuse it if empty or invalid, else copy
\* it and wipe the buffer.
TakeLine ==
  /\ pc = "reading" /\ ~Looping
  /\ saw_newline \/ saw_eof
  /\ \E k \in 0..total :
       /\ Stripped(k, total)
       /\ total' = k
       /\ IF k = 0 THEN Fail("empty")
          ELSE IF ~Valid(k) THEN Fail("invalid")
          ELSE Accept
  /\ UNCHANGED <<env, input, got, saw_newline, saw_eof>>

ReadSome == \E n \in 1..Room : ReadMore(n) \/ ReadNewline(n)

Settled == pc \in {"ok", "error"}
Rest == Settled /\ UNCHANGED vars

Next ==
  \/ AuthHeaderFromKey
  \/ FallBackToStdin
  \/ ReadSome
  \/ ReadEof
  \/ ReadFails
  \/ TooLong
  \/ TakeLine
  \/ Rest

Spec == Init /\ [][Next]_vars

-----------------------------------------------------------------------------
(* Correctness.                                                            *)

\* Every variable has its type and the buffer is never overrun.
TypeOK ==
  /\ env \in Environment
  /\ input \in Inputs
  /\ got \in 0..Room /\ total \in 0..got /\ got <= Len(input)
  /\ saw_newline \in BOOLEAN /\ saw_eof \in BOOLEAN
  /\ pc \in {"start", "reading", "ok", "error"}
  /\ error \in Errors
  /\ held \subseteq Places

\* The first line of stdin is the first e bytes, its newline included; the
\* last line may have none.
FirstLine(e) ==
  /\ \A j \in 1..(e - 1) : input[j] # NL
  /\ e = Len(input) \/ (e > 0 /\ input[e] = NL)

\* Of stdin, an accepted key is the whole first line, stripped, valid and not
\* empty.
KeyIsFirstLine ==
  pc = "ok" /\ ~FromEnvironment =>
    /\ total > 0 /\ Valid(total)
    /\ \E e \in total..Len(input) : FirstLine(e) /\ Stripped(total, e)

\* Stdin is read only if the environment has no value to use.
EnvironmentFirst == FromEnvironment => got = 0 /\ pc # "reading"

\* Where the key comes from: a value of the variable that can be read and is
\* not blank is used or refused, and stdin is left alone; otherwise, also when
\* the variable is set to a value that is not Unicode, the key is stdin's.
\* However stdin is split into reads, nothing of its first line is cut off and
\* nothing of a second one is taken in (read_auth_header,
\* read_auth_header_with).
KeySource == EnvironmentFirst /\ KeyIsFirstLine

\* However stdin is split, a key is refused only for a reason its first line
\* gives: it does not fit, it is empty, or it has a foreign byte.
RefusedForCause ==
  pc = "error" /\ ~FromEnvironment =>
    /\ error = "too_long" =>
         Room <= Len(input) /\ \A j \in 1..Room : input[j] # NL
    /\ error \in {"empty", "invalid"} =>
         \E e \in total..Len(input) :
           /\ FirstLine(e) /\ Stripped(total, e)
           /\ IF error = "empty" THEN total = 0 ELSE ~Valid(total)

\* However reading ends, what the reader itself wrote is wiped: of a key from
\* stdin the header value alone is left, and of a refused key nothing but the
\* copy std::env::var made (read_auth_header_with, auth_header_from_key).
BuffersWiped ==
  Settled =>
    /\ pc = "error" => held \subseteq {"env_val"}
    /\ ~FromEnvironment => held \ {"env_val"} = IF pc = "ok" THEN {"value"} ELSE {}

\* What docs/hardening.md and the head of secrets.rs say: exactly one copy of
\* the key is in memory, the header value.
SingleCopy == pc = "ok" => held = {"value"}

-----------------------------------------------------------------------------
(* Why they hold: what a read in progress knows.                           *)

\* Until a newline comes every byte read counts, and none is a newline; then
\* exactly the bytes up to the first newline count.
Progress ==
  pc = "reading" =>
    /\ held \subseteq {"buf", "env_val"}
    /\ ~saw_newline => total = got /\ \A j \in 1..got : input[j] # NL
    /\ saw_newline =>
         /\ ~saw_eof
         /\ total > 0 /\ input[total] = NL
         /\ \A j \in 1..(total - 1) : input[j] # NL
    /\ saw_eof => got = Len(input)

NotYet ==
  pc = "start" => got = 0 /\ total = 0 /\ ~saw_newline /\ ~saw_eof /\ held = {}

IInv ==
  TypeOK /\ NotYet /\ Progress /\ EnvironmentFirst /\ BuffersWiped
  /\ KeyIsFirstLine /\ RefusedForCause
=============================================================================
