----------------------------- MODULE KeyProofs -----------------------------
(***************************************************************************)
(* For every input, every way read(2) may split it and every buffer size:  *)
(* the key is the first line, and a refusal has its cause in that line.    *)
(***************************************************************************)
EXTENDS KeyReader, TLAPS

\* Nothing is read in the initial state.
LEMMA InitInv == Init => IInv
<1> USE KeyAssumption
<1> SUFFICES ASSUME Init PROVE IInv
  OBVIOUS
<1>1. input \in Seq(Byte) /\ Len(input) \in Nat
  BY DEF Init
<1>2. TypeOK
  <2>1. got \in 0..Room /\ total \in 0..got /\ got <= Len(input)
    BY <1>1 DEF Init
  <2>2. QED
    BY <2>1 DEF Init, TypeOK, Errors
<1>3. NotYet /\ Progress /\ EnvironmentFirst /\ BuffersWiped
      /\ KeyIsFirstLine /\ RefusedForCause
  BY DEF Init, NotYet, Progress, EnvironmentFirst, BuffersWiped, Settled,
         KeyIsFirstLine, RefusedForCause
<1>4. QED
  BY <1>2, <1>3 DEF IInv

\* What a state that is neither "ok" nor "error" has to show.
LEMMA Unsettled ==
  ASSUME TypeOK, ~Settled, NotYet, Progress, EnvironmentFirst
  PROVE  IInv
BY DEF IInv, Settled, BuffersWiped, KeyIsFirstLine, RefusedForCause, TypeOK

\* One read of n bytes keeps the invariant.
LEMMA ReadStep ==
  ASSUME IInv, NEW n \in 1..Room, ReadMore(n) \/ ReadNewline(n)
  PROVE  IInv'
<1> USE KeyAssumption
<1>1. /\ TypeOK /\ Progress /\ pc = "reading" /\ ~FromEnvironment
      /\ total = got /\ total < Room /\ ~saw_newline /\ ~saw_eof
      /\ \A j \in 1..got : input[j] # NL
  BY DEF IInv, ReadMore, ReadNewline, Looping, Progress, EnvironmentFirst
<1>2. input \in Seq(Byte) /\ Len(input) \in Nat /\ got \in Nat /\ total \in Nat
      /\ n \in Nat
  BY <1>1 DEF TypeOK
<1>3. /\ got' = got + n /\ got' <= Room /\ got' <= Len(input)
      /\ UNCHANGED <<env, input, saw_eof, pc, error>>
      /\ held' = held \cup {"buf"}
  BY <1>1, <1>2 DEF ReadMore, ReadNewline, Readable
<1>4. CASE ReadMore(n)
  <2>1. total' = got' /\ saw_newline' = FALSE
    BY <1>1, <1>3, <1>4 DEF ReadMore
  <2>2. \A j \in 1..(got + n) : input[j] # NL
    <3> SUFFICES ASSUME NEW j \in 1..(got + n) PROVE input[j] # NL
      OBVIOUS
    <3>1. CASE j <= got
      BY <1>1, <1>2, <3>1
    <3>2. CASE j > got
      <4>1. j - got \in 1..n /\ got + (j - got) = j
        BY <1>2, <3>2
      <4>2. QED
        BY <1>4, <4>1 DEF ReadMore
    <3>3. QED
      BY <1>2, <3>1, <3>2
  <2>3. TypeOK'
    <3>1. got' \in 0..Room /\ total' \in 0..got' /\ got' <= Len(input')
      BY <1>2, <1>3, <2>1
    <3>2. held' \subseteq Places
      BY <1>1, <1>3 DEF TypeOK, Places
    <3>3. QED
      BY <1>1, <1>3, <2>1, <3>1, <3>2 DEF TypeOK
  <2>4. Progress'
    BY <1>1, <1>3, <2>1, <2>2 DEF Progress
  <2>5. NotYet' /\ EnvironmentFirst' /\ ~Settled'
    BY <1>1, <1>3 DEF NotYet, EnvironmentFirst, Settled, FromEnvironment
  <2>6. QED
    BY <2>3, <2>4, <2>5, Unsettled
       DEF IInv, Settled, BuffersWiped, KeyIsFirstLine, RefusedForCause, TypeOK
<1>5. CASE ReadNewline(n)
  <2>1. PICK k \in 1..n : /\ input[got + k] = NL
                          /\ \A j \in 1..(k - 1) : input[got + j] # NL
                          /\ total' = total + k
    BY <1>5 DEF ReadNewline
  <2>2. saw_newline' = TRUE
    BY <1>5 DEF ReadNewline
  <2>3. total' > 0 /\ total' \in 0..got' /\ input[total'] = NL
    BY <1>1, <1>2, <1>3, <2>1
  <2>4. \A j \in 1..(total' - 1) : input[j] # NL
    <3> SUFFICES ASSUME NEW j \in 1..(total' - 1) PROVE input[j] # NL
      OBVIOUS
    <3>1. CASE j <= got
      BY <1>1, <1>2, <2>1, <3>1
    <3>2. CASE j > got
      <4>1. j - got \in 1..(k - 1) /\ got + (j - got) = j
        BY <1>1, <1>2, <2>1, <3>2
      <4>2. QED
        BY <2>1, <4>1
    <3>3. QED
      BY <1>1, <1>2, <2>1, <3>1, <3>2
  <2>5. TypeOK'
    <3>1. held' \subseteq Places
      BY <1>1, <1>3 DEF TypeOK, Places
    <3>2. QED
      BY <1>1, <1>2, <1>3, <2>2, <2>3, <3>1 DEF TypeOK
  <2>6. Progress'
    BY <1>1, <1>3, <2>2, <2>3, <2>4 DEF Progress
  <2>7. NotYet' /\ EnvironmentFirst' /\ ~Settled'
    BY <1>1, <1>3 DEF NotYet, EnvironmentFirst, Settled, FromEnvironment
  <2>8. QED
    BY <2>5, <2>6, <2>7
       DEF IInv, Settled, BuffersWiped, KeyIsFirstLine, RefusedForCause, TypeOK
<1>6. QED
  BY <1>4, <1>5

\* The step that ends reading: the counted bytes are the first line.
LEMMA TakeLineStep ==
  ASSUME IInv, TakeLine
  PROVE  IInv'
<1> USE KeyAssumption
<1>1. /\ TypeOK /\ Progress /\ pc = "reading" /\ ~FromEnvironment
      /\ saw_newline \/ saw_eof
      /\ UNCHANGED <<env, input, got, saw_newline, saw_eof>>
  BY DEF IInv, TakeLine, EnvironmentFirst
<1>2. input \in Seq(Byte) /\ Len(input) \in Nat /\ got \in Nat /\ total \in Nat
      /\ total <= got /\ got <= Len(input)
  BY <1>1 DEF TypeOK
<1>3. PICK k \in 0..total :
        /\ Stripped(k, total)
        /\ total' = k
        /\ IF k = 0 THEN Fail("empty")
           ELSE IF ~Valid(k) THEN Fail("invalid")
           ELSE Accept
  BY DEF TakeLine
<1>4. FirstLine(total)
  <2>1. CASE saw_newline
    BY <1>1, <1>2, <2>1 DEF Progress, FirstLine
  <2>2. CASE ~saw_newline
    BY <1>1, <1>2, <2>2 DEF Progress, FirstLine
  <2>3. QED
    BY <2>1, <2>2
<1>5. total \in (total')..Len(input')
  BY <1>1, <1>2, <1>3
<1>6. /\ pc' = "error" => held' \subseteq {"env_val"}
      /\ held' \ {"env_val"} = IF pc' = "ok" THEN {"value"} ELSE {}
      /\ held' \subseteq {"env_val", "value"}
      /\ pc' \in {"ok", "error"}
      /\ error' \in Errors
  <2>1. held \ {"buf"} \subseteq {"env_val"} /\ error \in Errors
    BY <1>1 DEF Progress, TypeOK
  <2>2. CASE pc' = "error" /\ held' = held \ {"buf"} /\ error' \in {"empty", "invalid"}
    BY <2>1, <2>2 DEF Errors
  <2>3. CASE pc' = "ok" /\ held' = (held \ {"buf"}) \cup {"value"} /\ error' = error
    BY <2>1, <2>3
  <2>4. QED
    BY <1>3, <2>2, <2>3 DEF Fail, Accept
<1>7. TypeOK'
  <2>1. held' \subseteq Places
    BY <1>6 DEF Places
  <2>2. pc' \in {"start", "reading", "ok", "error"} /\ total' \in 0..got'
    BY <1>1, <1>2, <1>3, <1>6
  <2>3. QED
    BY <1>1, <1>6, <2>1, <2>2 DEF TypeOK
<1>8. pc' \in {"ok", "error"} /\ NotYet' /\ Progress' /\ EnvironmentFirst'
  BY <1>1, <1>6 DEF NotYet, Progress, EnvironmentFirst, FromEnvironment
<1>9. BuffersWiped'
  BY <1>6 DEF BuffersWiped, Settled
<1>10. KeyIsFirstLine'
  BY <1>1, <1>2, <1>3, <1>4, <1>5
     DEF KeyIsFirstLine, FirstLine, Stripped, Valid, Fail, Accept
<1>11. RefusedForCause'
  BY <1>1, <1>2, <1>3, <1>4, <1>5
     DEF RefusedForCause, FirstLine, Stripped, Valid, Fail, Accept
<1>12. QED
  BY <1>7, <1>8, <1>9, <1>10, <1>11 DEF IInv

\* Failing and the steps that do not read keep the invariant.
LEMMA OtherStep ==
  ASSUME IInv,
         \/ AuthHeaderFromKey \/ FallBackToStdin \/ ReadEof \/ ReadFails
         \/ TooLong \/ UNCHANGED vars
  PROVE  IInv'
<1> USE KeyAssumption
<1>1. TypeOK /\ NotYet /\ Progress /\ EnvironmentFirst /\ BuffersWiped
      /\ KeyIsFirstLine /\ RefusedForCause
  BY DEF IInv
<1>2. input \in Seq(Byte) /\ Len(input) \in Nat /\ got \in Nat /\ total \in Nat
  BY <1>1 DEF TypeOK
<1>3. CASE AuthHeaderFromKey
  BY <1>1, <1>3
     DEF AuthHeaderFromKey, EnvVal, Places, IInv, TypeOK, NotYet, Progress, EnvironmentFirst,
         BuffersWiped, Settled, KeyIsFirstLine, RefusedForCause,
         FromEnvironment, Errors
<1>4. CASE FallBackToStdin
  <2>1. NotYet' /\ Progress' /\ EnvironmentFirst' /\ ~Settled'
    BY <1>1, <1>2, <1>4
       DEF FallBackToStdin, EnvVal, NotYet, Progress, EnvironmentFirst, Settled,
           FromEnvironment
  <2>2. TypeOK'
    BY <1>1, <1>4 DEF FallBackToStdin, EnvVal, Places, TypeOK
  <2>3. QED
    BY <2>1, <2>2
       DEF IInv, Settled, BuffersWiped, KeyIsFirstLine, RefusedForCause, TypeOK
<1>5. CASE ReadEof
  <2>1. NotYet' /\ Progress' /\ EnvironmentFirst' /\ ~Settled'
    BY <1>1, <1>2, <1>5
       DEF ReadEof, Looping, NotYet, Progress, EnvironmentFirst, Settled,
           FromEnvironment
  <2>2. TypeOK'
    BY <1>1, <1>5 DEF ReadEof, TypeOK
  <2>3. QED
    BY <2>1, <2>2
       DEF IInv, Settled, BuffersWiped, KeyIsFirstLine, RefusedForCause, TypeOK
<1>6. CASE ReadFails
  BY <1>1, <1>6
     DEF ReadFails, Places, Looping, Fail, IInv, TypeOK, NotYet, Progress,
         EnvironmentFirst, BuffersWiped, Settled, KeyIsFirstLine,
         RefusedForCause, FromEnvironment, Errors
<1>7. CASE TooLong
  <2>1. got = Room /\ \A j \in 1..Room : input[j] # NL
    BY <1>1, <1>2, <1>7 DEF TooLong, Progress
  <2>2. RefusedForCause'
    BY <1>1, <1>2, <1>7, <2>1 DEF TooLong, Fail, RefusedForCause, TypeOK
  <2>3. QED
    BY <1>1, <1>7, <2>2
       DEF TooLong, Places, Looping, Fail, IInv, TypeOK, NotYet, Progress,
           EnvironmentFirst, BuffersWiped, Settled, KeyIsFirstLine,
           FromEnvironment, Errors
<1>8. CASE UNCHANGED vars
  BY <1>1, <1>8
     DEF vars, IInv, TypeOK, NotYet, Progress, EnvironmentFirst,
         BuffersWiped, Settled, KeyIsFirstLine, RefusedForCause,
         FromEnvironment, FirstLine, Stripped, Valid
<1>9. QED
  BY <1>3, <1>4, <1>5, <1>6, <1>7, <1>8

\* The invariant of KeyReader is inductive.
THEOREM Inductive == Spec => []IInv
<1>1. IInv /\ [Next]_vars => IInv'
  BY ReadStep, TakeLineStep, OtherStep DEF Next, ReadSome, Rest
<1>2. QED
  BY <1>1, InitInv, PTL DEF Spec

\* The buffer is never overrun (read_auth_header_with).
THEOREM TypeCorrect == Spec => []TypeOK
<1>1. IInv => TypeOK
  BY DEF IInv
<1>2. QED
  BY <1>1, Inductive, PTL

\* The key is the environment's, if its value can be read and is not blank, or
\* else the whole first line of stdin, however stdin is split
\* (read_auth_header, read_auth_header_with).
THEOREM WholeLine == Spec => []KeySource
<1>1. IInv => KeySource
  BY DEF IInv, KeySource
<1>2. QED
  BY <1>1, Inductive, PTL

\* A refused key has the fault it is refused for, however stdin is split
\* (read_auth_header_with, validate_auth_header_bytes).
THEOREM JustRefusals == Spec => []RefusedForCause
<1>1. IInv => RefusedForCause
  BY DEF IInv
<1>2. QED
  BY <1>1, Inductive, PTL

\* What the reader wrote of a key from stdin, or of a refused one, is wiped
\* however reading ends; the copy of the environment variable is not
\* (read_auth_header_with, auth_header_from_key).
THEOREM KeyHygiene == Spec => []BuffersWiped
<1>1. IInv => BuffersWiped
  BY DEF IInv
<1>2. QED
  BY <1>1, Inductive, PTL
=============================================================================
