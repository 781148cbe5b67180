----------------------------- MODULE LoopProofs -----------------------------
(***************************************************************************)
(* Loops over a sequence: induction on numbers and on sequences, functions *)
(* defined step by step, and what of a sequence is Among a set.            *)
(***************************************************************************)
EXTENDS Selection, SequenceTheorems, WellFoundedInduction, TLAPS

-----------------------------------------------------------------------------
(* Induction, and functions defined step by step.                          *)

LEMMA Induct ==
  ASSUME NEW N \in Nat, NEW S, 0 \in S, \A n \in S : n + 1 \in 1..N => n + 1 \in S
  PROVE  \A n \in 0..N : n \in S
<1> DEFINE R == {ss \in Nat \X Nat : ss[1] < ss[2]}
           T == {n \in 0..N : n \notin S}
<1> SUFFICES ASSUME T # {} PROVE FALSE
  OBVIOUS
<1>1. IsWellFoundedOn(R, Nat)
  BY NatLessThanWellFounded DEF OpToRel
<1>2. \A m, n \in Nat : m < n => <<m, n>> \in R
  OBVIOUS
<1>3. T \subseteq Nat
  OBVIOUS
<1> HIDE DEF R, T
<1>4. PICK n \in T : \A m \in T : ~ (<<m, n>> \in R)
  BY <1>1, <1>3, WFMin
<1>5. n \in 0..N /\ n \notin S /\ n # 0
  BY <1>4 DEF T
<1>6. n - 1 \in 0..N /\ n - 1 < n /\ (n - 1) + 1 \in 1..N /\ (n - 1) + 1 = n
  BY <1>5
<1>7. n - 1 \notin T
  <2>1. n \in Nat /\ n - 1 \in Nat
    BY <1>5
  <2>2. <<n - 1, n>> \in R
    BY <1>2, <1>6, <2>1
  <2>3. QED
    BY <1>4, <2>2
<1>8. n - 1 \in S
  BY <1>6, <1>7 DEF T
<1>9. QED
  BY <1>5, <1>6, <1>8

\* A function with a first value and a step for each number.
Stepwise(f, N, D, base, g) ==
  /\ f \in [0..N -> D]
  /\ f[0] = base
  /\ \A n \in 1..N : f[n] = g[n][f[n - 1]]

LEMMA StepByStep ==
  ASSUME NEW N \in Nat, NEW D, NEW base \in D, NEW g,
         \A n \in 1..N, d \in D : g[n][d] \in D
  PROVE  \E f : Stepwise(f, N, D, base, g)
<1> DEFINE Upto(n, f) == f[0] = base /\ \A k \in 1..n : f[k] = g[k][f[k - 1]]
           S == {n \in 0..N : \E f \in [0..N -> D] : Upto(n, f)}
<1>1. 0 \in S
  <2> DEFINE f == [k \in 0..N |-> base]
  <2>1. f \in [0..N -> D] /\ f[0] = base
    OBVIOUS
  <2>2. Upto(0, f)
    BY <2>1
  <2> HIDE DEF f, Upto
  <2>3. \E z \in [0..N -> D] : Upto(0, z)
    BY <2>1, <2>2
  <2>4. QED
    BY <2>3
<1>2. ASSUME NEW n \in S, n + 1 \in 1..N PROVE n + 1 \in S
  <2>1. n \in 0..N
    OBVIOUS
  <2>2. PICK f \in [0..N -> D] : Upto(n, f)
    BY <2>1
  <2> DEFINE h == [f EXCEPT ![n + 1] = g[n + 1][f[n]]]
  <2>3. f[n] \in D /\ n + 1 \in 1..N
    BY <1>2, <2>1
  <2>4. g[n + 1][f[n]] \in D
    BY <2>3
  <2>5. /\ h \in [0..N -> D] /\ h[n + 1] = g[n + 1][f[n]]
        /\ \A k \in 0..N : k # n + 1 => h[k] = f[k]
    BY <1>2, <2>4
  <2> HIDE DEF h
  <2>6. h[0] = base
    BY <2>1, <2>2, <2>5
  <2>7. ASSUME NEW k \in 1..(n + 1) PROVE h[k] = g[k][h[k - 1]]
    <3>1. k - 1 \in 0..N /\ k \in 0..N /\ k - 1 # n + 1
      BY <1>2, <2>1
    <3>2. CASE k = n + 1
      <4>1. k - 1 = n
        BY <2>1, <3>2
      <4>2. QED
        BY <2>5, <3>1, <3>2, <4>1
    <3>3. CASE k # n + 1
      <4>1. k \in 1..n
        BY <2>1, <3>3
      <4>2. QED
        BY <2>2, <2>5, <3>1, <3>3, <4>1
    <3>4. QED
      BY <3>2, <3>3
  <2>8. Upto(n + 1, h)
    BY <2>6, <2>7
  <2> HIDE DEF Upto
  <2>9. \E z \in [0..N -> D] : Upto(n + 1, z)
    BY <2>5, <2>8
  <2>10. QED
    BY <1>2, <2>1, <2>9
<1>3. N \in S
  <2>1. \A n \in S : n + 1 \in 1..N => n + 1 \in S
    BY <1>2
  <2> HIDE DEF S
  <2>2. \A n \in 0..N : n \in S
    BY <1>1, <2>1, Induct
  <2>3. QED
    BY <2>2
<1>4. PICK f \in [0..N -> D] : Upto(N, f)
  BY <1>3
<1>5. Stepwise(f, N, D, base, g)
  BY <1>4 DEF Stepwise
<1>6. QED
  BY <1>5

\* A prefix is the next shorter one and an element.
LEMMA Prefix ==
  ASSUME NEW T, NEW s \in Seq(T), NEW k \in 1..Len(s)
  PROVE  /\ SubSeq(s, 1, k - 1) \in Seq(T) /\ s[k] \in T
         /\ SubSeq(s, 1, k) = Append(SubSeq(s, 1, k - 1), s[k])
<1> DEFINE N == Len(s)
           n == k - 1
           p == SubSeq(s, 1, n)
           q == SubSeq(s, 1, k)
           x == s[k]
<1>1. N \in Nat /\ n \in 0..N /\ k \in 1..N /\ k = n + 1 /\ x \in T
  BY LenProperties
<1>2. p \in Seq(T) /\ Len(p) = n /\ \A i \in 1..n : p[i] = s[i]
  BY <1>1
<1>3. q \in Seq(T) /\ Len(q) = n + 1 /\ \A i \in 1..(n + 1) : q[i] = s[i]
  BY <1>1
<1> HIDE DEF n, p, q
<1>4. /\ Append(p, x) \in Seq(T) /\ Len(Append(p, x)) = n + 1
      /\ \A i \in 1..(n + 1) : Append(p, x)[i] = q[i]
  BY <1>1, <1>2, <1>3
<1>5. Append(p, x) = q
  BY <1>3, <1>4, SeqEqual
<1>6. QED
  BY <1>1, <1>2, <1>5 DEF n, p, q

\* What holds of the empty sequence, and of a longer one if it holds of the one
\* before its last element, holds of all.
LEMMA SeqInduct ==
  ASSUME NEW T, NEW s \in Seq(T), NEW P, <<>> \in P,
         \A t \in Seq(T), x \in T : t \in P => Append(t, x) \in P
  PROVE  s \in P
<1> DEFINE N == Len(s)
           S == {n \in 0..N : SubSeq(s, 1, n) \in P}
<1>1. N \in Nat /\ \A n \in 1..N : s[n] \in T
  OBVIOUS
<1>2. 0 \in S
  <2>1. SubSeq(s, 1, 0) = <<>>
    BY SubSeqEmpty
  <2>2. SubSeq(s, 1, 0) \in P
    BY <2>1, Zenon
  <2>3. 0 \in 0..N
    BY <1>1
  <2>4. QED
    BY <2>2, <2>3
<1>3. \A n \in S : n + 1 \in 1..N => n + 1 \in S
  <2> SUFFICES ASSUME NEW n \in S, n + 1 \in 1..N PROVE n + 1 \in S
    OBVIOUS
  <2>1. n \in 0..N /\ SubSeq(s, 1, n) \in P /\ (n + 1) - 1 = n /\ n + 1 \in 0..N
    BY <1>1
  <2>2. /\ SubSeq(s, 1, n) \in Seq(T) /\ s[n + 1] \in T
        /\ SubSeq(s, 1, n + 1) = Append(SubSeq(s, 1, n), s[n + 1])
    BY <2>1, Prefix
  <2>3. SubSeq(s, 1, n + 1) \in P
    BY <2>1, <2>2
  <2>4. QED
    BY <2>1, <2>3
<1> HIDE DEF S
<1>4. \A n \in 0..N : n \in S
  BY <1>1, <1>2, <1>3, Induct
<1>5. N \in S
  BY <1>1, <1>4
<1>6. SubSeq(s, 1, N) = s
  BY SubSeqFull
<1>7. QED
  BY <1>5, <1>6 DEF S

-----------------------------------------------------------------------------
(* What of a sequence is Among a set.                                      *)

\* f tells what is chosen of the first n elements.
Chosen(f, s, S) ==
  /\ f[0] = <<>> /\ Among(s, S) = f[Len(s)]
  /\ \A n \in 1..Len(s) :
       f[n] = IF s[n] \in S THEN Append(f[n - 1], s[n]) ELSE f[n - 1]

\* Among looks at one element after the other.
LEMMA OneByOne ==
  ASSUME NEW T, NEW s \in Seq(T), NEW S
  PROVE  \E f \in [0..Len(s) -> Seq(T)] : Chosen(f, s, S)
<1> DEFINE N == Len(s)
           g == [n \in 1..N |-> [t \in Seq(T) |-> IF s[n] \in S THEN Append(t, s[n]) ELSE t]]
           IsIt(f) == f = [n \in 0..N |->
                             IF n = 0 THEN <<>>
                             ELSE IF s[n] \in S THEN Append(f[n - 1], s[n]) ELSE f[n - 1]]
           h == CHOOSE f : IsIt(f)
<1>1. N \in Nat /\ \A n \in 1..N : s[n] \in T
  OBVIOUS
<1>2. Among(s, S) = h[N]
  BY DEF Among
<1>3. \A n \in 1..N, t \in Seq(T) : g[n][t] \in Seq(T)
  BY <1>1
<1>4. \A n \in 1..N, t \in Seq(T) :
        g[n][t] = IF s[n] \in S THEN Append(t, s[n]) ELSE t
  OBVIOUS
<1> HIDE DEF N, g
<1>5. PICK f \in [0..N -> Seq(T)] : f[0] = <<>> /\ \A n \in 1..N : f[n] = g[n][f[n - 1]]
  <2> DEFINE D == Seq(T)
             base == <<>>
  <2>1. N \in Nat /\ base \in D /\ \A n \in 1..N, d \in D : g[n][d] \in D
    BY <1>1, <1>3, EmptySeq
  <2> HIDE DEF D, base
  <2>2. PICK f : Stepwise(f, N, D, base, g)
    BY <2>1, StepByStep
  <2>3. QED
    BY <2>2 DEF D, base, Stepwise
<1>6. \A n \in 1..N : f[n] = IF s[n] \in S THEN Append(f[n - 1], s[n]) ELSE f[n - 1]
  <2> SUFFICES ASSUME NEW n \in 1..N
               PROVE f[n] = IF s[n] \in S THEN Append(f[n - 1], s[n]) ELSE f[n - 1]
    OBVIOUS
  <2>1. n - 1 \in 0..N
    BY <1>1
  <2>2. f[n - 1] \in Seq(T)
    BY <2>1
  <2>3. QED
    BY <1>4, <1>5, <2>2
<1>7. IsIt(f)
  <2>1. \A n \in 0..N : n = 0 \/ n \in 1..N
    BY <1>1
  <2>2. \A n \in 0..N : f[n] = IF n = 0 THEN <<>>
                               ELSE IF s[n] \in S THEN Append(f[n - 1], s[n]) ELSE f[n - 1]
    BY <1>5, <1>6, <2>1
  <2>3. f = [n \in 0..N |-> f[n]]
    OBVIOUS
  <2>4. QED
    BY <2>2, <2>3
<1> HIDE DEF IsIt
<1>8. IsIt(h)
  BY <1>7
<1> HIDE DEF h
<1>9. /\ h[0] = <<>>
      /\ \A n \in 1..N : h[n] = IF s[n] \in S THEN Append(h[n - 1], s[n]) ELSE h[n - 1]
  <2>1. 0 \in 0..N /\ \A n \in 1..N : n \in 0..N /\ n # 0
    BY <1>1
  <2>2. QED
    BY <1>8, <2>1 DEF IsIt
<1>10. h[N] = f[N]
  <2> DEFINE E == {n \in 0..N : h[n] = f[n]}
  <2>1. 0 \in E
    BY <1>1, <1>5, <1>9
  <2>2. \A n \in E : n + 1 \in 1..N => n + 1 \in E
    <3> SUFFICES ASSUME NEW n \in E, n + 1 \in 1..N PROVE n + 1 \in E
      OBVIOUS
    <3>1. n \in 0..N /\ h[n] = f[n] /\ (n + 1) - 1 = n /\ n + 1 \in 0..N
      BY <1>1
    <3>2. h[n + 1] = f[n + 1]
      BY <1>6, <1>9, <3>1
    <3>3. QED
      BY <3>1, <3>2
  <2> HIDE DEF E
  <2>3. \A n \in 0..N : n \in E
    BY <1>1, <2>1, <2>2, Induct
  <2>4. N \in 0..N
    BY <1>1
  <2>5. QED
    BY <2>3, <2>4 DEF E
<1>11. QED
  BY <1>2, <1>5, <1>6, <1>10 DEF N, Chosen

LEMMA AmongEmpty ==
  ASSUME NEW S
  PROVE  Among(<<>>, S) = <<>>
<1> DEFINE s == <<>>
           T == {}
<1>1. s \in Seq(T) /\ Len(s) = 0
  OBVIOUS
<1> HIDE DEF s, T
<1>2. \E f : Chosen(f, s, S)
  BY <1>1, OneByOne
<1>3. Among(s, S) = <<>>
  BY <1>1, <1>2 DEF Chosen
<1>4. QED
  BY <1>3 DEF s

LEMMA AmongType ==
  ASSUME NEW T, NEW s \in Seq(T), NEW S
  PROVE  Among(s, S) \in Seq(T)
<1>1. Len(s) \in 0..Len(s)
  BY LenProperties
<1>2. PICK f \in [0..Len(s) -> Seq(T)] : Chosen(f, s, S)
  BY OneByOne
<1>3. QED
  BY <1>1, <1>2 DEF Chosen

\* The last element is looked at last.
LEMMA AmongAppend ==
  ASSUME NEW T, NEW s \in Seq(T), NEW x \in T, NEW S
  PROVE  Among(Append(s, x), S) = IF x \in S THEN Append(Among(s, S), x) ELSE Among(s, S)
<1> DEFINE N == Len(s)
           t == Append(s, x)
<1>1. /\ N \in Nat /\ t \in Seq(T) /\ Len(t) = N + 1
      /\ \A n \in 1..N : t[n] = s[n]
      /\ t[N + 1] = x
  OBVIOUS
<1> HIDE DEF t
<1>2. PICK f : /\ f[0] = <<>> /\ Among(s, S) = f[N]
               /\ \A n \in 1..N : f[n] = IF s[n] \in S THEN Append(f[n - 1], s[n]) ELSE f[n - 1]
  <2>1. PICK f : Chosen(f, s, S)
    BY OneByOne
  <2>2. QED
    BY <2>1 DEF Chosen, N
<1>3. PICK h : /\ h[0] = <<>> /\ Among(t, S) = h[N + 1]
               /\ \A n \in 1..(N + 1) :
                    h[n] = IF t[n] \in S THEN Append(h[n - 1], t[n]) ELSE h[n - 1]
  <2>1. PICK h : Chosen(h, t, S)
    BY <1>1, OneByOne
  <2>2. QED
    BY <1>1, <2>1 DEF Chosen
<1> HIDE DEF N
<1> DEFINE E == {n \in 0..N : h[n] = f[n]}
<1>4. 0 \in E
  BY <1>1, <1>2, <1>3
<1>5. \A n \in E : n + 1 \in 1..N => n + 1 \in E
  <2> SUFFICES ASSUME NEW n \in E, n + 1 \in 1..N PROVE n + 1 \in E
    OBVIOUS
  <2>1. n \in 0..N /\ h[n] = f[n] /\ (n + 1) - 1 = n /\ n + 1 \in 0..N /\ n + 1 \in 1..(N + 1)
    BY <1>1
  <2>2. h[n + 1] = f[n + 1]
    BY <1>1, <1>2, <1>3, <2>1
  <2>3. QED
    BY <2>1, <2>2
<1> HIDE DEF E
<1>6. \A n \in 0..N : n \in E
  BY <1>1, <1>4, <1>5, Induct
<1>7. h[N] = f[N]
  <2>1. N \in 0..N
    BY <1>1
  <2>2. QED
    BY <1>6, <2>1 DEF E
<1>8. h[N + 1] = IF x \in S THEN Append(h[N], x) ELSE h[N]
  <2>1. N + 1 \in 1..(N + 1) /\ (N + 1) - 1 = N
    BY <1>1
  <2>2. QED
    BY <1>1, <1>3, <2>1
<1>9. QED
  BY <1>2, <1>3, <1>7, <1>8 DEF t

\* To choose twice is to choose once.
LEMMA AmongAmong ==
  ASSUME NEW T, NEW s \in Seq(T), NEW S, NEW U
  PROVE  Among(Among(s, S), U) = Among(s, S \cap U)
<1> DEFINE V == S \cap U
           P == {t \in Seq(T) : Among(Among(t, S), U) = Among(t, V)}
<1>0. \A x : x \in V <=> x \in S /\ x \in U
  OBVIOUS
<1> HIDE DEF V
<1>1. <<>> \in P
  BY AmongEmpty, EmptySeq
<1>2. ASSUME NEW t \in Seq(T), NEW x \in T, t \in P
      PROVE  Append(t, x) \in P
  <2>1. /\ Among(Append(t, x), S) = IF x \in S THEN Append(Among(t, S), x) ELSE Among(t, S)
        /\ Among(Append(t, x), V) =
             IF x \in V THEN Append(Among(t, V), x) ELSE Among(t, V)
    BY AmongAppend
  <2>2. Among(t, S) \in Seq(T) /\ Append(t, x) \in Seq(T)
    BY AmongType
  <2>3. Among(Append(Among(t, S), x), U) =
          IF x \in U THEN Append(Among(Among(t, S), U), x) ELSE Among(Among(t, S), U)
    BY <2>2, AmongAppend
  <2>4. Among(Among(t, S), U) = Among(t, V)
    BY <1>2
  <2>5. Among(Among(Append(t, x), S), U) = Among(Append(t, x), V)
    <3>1. CASE x \in S
      BY <1>0, <2>1, <2>3, <2>4, <3>1
    <3>2. CASE x \notin S
      BY <1>0, <2>1, <2>4, <3>2
    <3>3. QED
      BY <3>1, <3>2
  <2>6. QED
    BY <2>2, <2>5
<1> HIDE DEF P
<1>3. s \in P
  BY <1>1, <1>2, SeqInduct
<1>4. QED
  BY <1>3 DEF P, V

LEMMA AmongNothing ==
  ASSUME NEW T, NEW s \in Seq(T)
  PROVE  Among(s, {}) = <<>>
<1> DEFINE P == {t \in Seq(T) : Among(t, {}) = <<>>}
<1>1. <<>> \in P
  BY AmongEmpty, EmptySeq
<1>2. ASSUME NEW t \in Seq(T), NEW x \in T, t \in P
      PROVE  Append(t, x) \in P
  <2>1. Among(Append(t, x), {}) = Among(t, {})
    BY AmongAppend
  <2>2. QED
    BY <1>2, <2>1
<1> HIDE DEF P
<1>3. s \in P
  BY <1>1, <1>2, SeqInduct
<1>4. QED
  BY <1>3 DEF P

Elements(s) == {s[i] : i \in 1..Len(s)}

\* What is chosen is what is there and in the set.
LEMMA AmongRange ==
  ASSUME NEW T, NEW s \in Seq(T), NEW S
  PROVE  Elements(Among(s, S)) = Elements(s) \cap S
<1> DEFINE P == {t \in Seq(T) : Elements(Among(t, S)) = Elements(t) \cap S}
<1>1. <<>> \in P
  <2>1. Elements(<<>>) = {}
    BY DEF Elements
  <2>2. QED
    BY <2>1, AmongEmpty, EmptySeq
<1>2. ASSUME NEW t \in Seq(T), NEW x \in T
      PROVE  Elements(Append(t, x)) = Elements(t) \cup {x}
  <2> DEFINE u == Append(t, x)
             N == Len(t)
  <2>1. /\ N \in Nat /\ Len(u) = N + 1 /\ u[N + 1] = x
        /\ \A n \in 1..N : u[n] = t[n]
    OBVIOUS
  <2> HIDE DEF u, N
  <2>2. \A n \in 1..(N + 1) : n \in 1..N \/ n = N + 1
    BY <2>1
  <2>3. N + 1 \in 1..(N + 1) /\ \A n \in 1..N : n \in 1..(N + 1)
    BY <2>1
  <2>4. Elements(u) \subseteq {t[n] : n \in 1..N} \cup {x}
    BY <2>1, <2>2 DEF Elements
  <2>5. {t[n] : n \in 1..N} \cup {x} \subseteq Elements(u)
    BY <2>1, <2>3 DEF Elements
  <2>6. QED
    BY <2>4, <2>5 DEF u, N, Elements
<1>3. ASSUME NEW t \in Seq(T), NEW x \in T, t \in P
      PROVE  Append(t, x) \in P
  <2>1. Among(t, S) \in Seq(T) /\ Append(t, x) \in Seq(T)
    BY AmongType
  <2>2. /\ Elements(Append(t, x)) = Elements(t) \cup {x}
        /\ Elements(Append(Among(t, S), x)) = Elements(Among(t, S)) \cup {x}
    BY <1>2, <2>1
  <2>3. Elements(Among(t, S)) = Elements(t) \cap S
    BY <1>3
  <2>4. Among(Append(t, x), S) = IF x \in S THEN Append(Among(t, S), x) ELSE Among(t, S)
    BY AmongAppend
  <2>5. CASE x \in S
    BY <2>1, <2>2, <2>3, <2>4, <2>5
  <2>6. CASE x \notin S
    BY <2>1, <2>2, <2>3, <2>4, <2>6
  <2>7. QED
    BY <2>5, <2>6
<1> HIDE DEF P
<1>4. s \in P
  BY <1>1, <1>3, SeqInduct
<1>5. QED
  BY <1>4 DEF P
=============================================================================
