--------------------------- MODULE SequenceFacts ---------------------------
(***************************************************************************)
(* Facts about data that the proofs of several components need and the     *)
(* library does not state: induction over the natural numbers for a SET of *)
(* numbers (the library's principles take an operator, which the provers   *)
(* cannot instantiate), and what FlattenSeq computes, by that induction.   *)
(***************************************************************************)
EXTENDS Integers, SequencesExt, SequenceTheorems, FiniteSetTheorems, TLAPS

(***************************************************************************)
(* Induction                                                               *)
(***************************************************************************)

\* Every set of natural numbers that is not empty has a least element.
LEMMA LeastNumber ==
    ASSUME NEW T \in SUBSET Nat, T # {}
    PROVE  \E x \in T : \A y \in T : x <= y
<1> DEFINE R == {ss \in Nat \X Nat : ss[1] < ss[2]}
<1>1. IsWellFoundedOn(R, Nat)
  BY NatLessThanWellFounded DEF OpToRel
<1> HIDE DEF R
<1>2. PICK x \in T : \A y \in T : ~(<<y, x>> \in R)
  BY <1>1, WFMin
<1>3. ASSUME NEW y \in T
      PROVE  x <= y
  <2>1. <<y, x>> \in Nat \X Nat /\ <<y, x>>[1] = y /\ <<y, x>>[2] = x
    OBVIOUS
  <2>2. <<y, x>> \notin R
    BY <1>2
  <2>3. ~(y < x)
    BY <2>1, <2>2 DEF R
  <2> QED
    BY <2>3
<1> QED
  BY <1>3

\* A set that has 0, and n + 1 with every n, has all natural numbers.
LEMMA SetInduction ==
    ASSUME NEW S, 0 \in S, \A n \in Nat : n \in S => n + 1 \in S
    PROVE  \A n \in Nat : n \in S
<1> DEFINE T == {n \in Nat : n \notin S}
<1>1. SUFFICES ASSUME T # {} PROVE FALSE
  OBVIOUS
<1>2. PICK x \in T : \A y \in T : x <= y
  BY <1>1, LeastNumber
<1>3. x # 0
  OBVIOUS
<1>4. x - 1 \in Nat /\ x - 1 \notin T
  BY <1>2, <1>3
<1> QED
  BY <1>4

(***************************************************************************)
(* Sequences                                                               *)
(***************************************************************************)

\* A function on 1 .. n is a sequence.
LEMMA FunctionIsSeq ==
    ASSUME NEW T, NEW n \in Nat, NEW d \in [1 .. n -> T]
    PROVE  d \in Seq(T) /\ Len(d) = n
<1>1. d \in Seq(T)
  BY SeqDef
<1>2. DOMAIN d = 1 .. Len(d) /\ Len(d) \in Nat
  BY <1>1, LenProperties
<1>3. 1 .. n = 1 .. Len(d)
  BY <1>2
<1> QED
  BY <1>1, <1>2, <1>3

LEMMA HeadTailType ==
    ASSUME NEW S, NEW s \in Seq(S), s # <<>>
    PROVE  Head(s) \in S /\ Tail(s) \in Seq(S)
OBVIOUS

LEMMA TailIs ==
    ASSUME NEW S, NEW s \in Seq(S), s # <<>>
    PROVE  Tail(s) = [i \in 1 .. Len(s) - 1 |-> s[i + 1]]
<1>1. /\ Tail(s) \in Seq(S) /\ Len(Tail(s)) = Len(s) - 1
      /\ \A i \in 1 .. Len(s) - 1 : Tail(s)[i] = s[i + 1]
  OBVIOUS
<1>2. Tail(s) \in [1 .. Len(s) - 1 -> S]
  BY <1>1, LenProperties
<1> QED
  BY <1>1, <1>2

(***************************************************************************)
(* FlattenSeq                                                              *)
(***************************************************************************)

\* The recursive function by which FlattenSeq is defined, as a predicate: f[i]
\* is the concatenation of the first i sequences.
IsFlattening(f, seqs) ==
    f = [i \in 1 .. Len(seqs) |-> IF i = 1 THEN seqs[i] ELSE f[i - 1] \o seqs[i]]

\* It exists.
LEMMA PrefixesExist ==
    ASSUME NEW S, NEW seqs \in Seq(Seq(S))
    PROVE  \E f \in [1 .. Len(seqs) -> Seq(S)] : IsFlattening(f, seqs)
<1> DEFINE Good(f, n) ==
      \A i \in 1 .. n : f[i] = IF i = 1 THEN seqs[i] ELSE f[i - 1] \o seqs[i]
<1> DEFINE N == {n \in Nat : n <= Len(seqs) =>
                    \E f \in [1 .. n -> Seq(S)] : Good(f, n)}
<1>0. Len(seqs) \in Nat /\ \A i \in 1 .. Len(seqs) : seqs[i] \in Seq(S)
  OBVIOUS
<1>1. 0 \in N
  <2> DEFINE e == [i \in 1 .. 0 |-> <<>>]
  <2>1. e \in [1 .. 0 -> Seq(S)] /\ Good(e, 0)
    OBVIOUS
  <2> QED
    BY <2>1
<1>2. ASSUME NEW n \in Nat, n + 1 <= Len(seqs),
             NEW f \in [1 .. n -> Seq(S)], Good(f, n)
      PROVE  \E g \in [1 .. n + 1 -> Seq(S)] : Good(g, n + 1)
  <2> DEFINE last == IF n = 0 THEN seqs[1] ELSE f[n] \o seqs[n + 1]
             g == [i \in 1 .. n + 1 |-> IF i <= n THEN f[i] ELSE last]
  <2>3. last \in Seq(S)
    <3>1. CASE n = 0
      BY <1>0, <1>2, <3>1
    <3>2. CASE n # 0
      <4>1. f[n] \in Seq(S) /\ seqs[n + 1] \in Seq(S)
        BY <1>0, <1>2, <3>2
      <4> QED
        BY <4>1, <3>2
    <3> QED
      BY <3>1, <3>2
  <2> HIDE DEF last
  <2>4. g \in [1 .. n + 1 -> Seq(S)]
    BY <2>3
  <2>5. ASSUME NEW i \in 1 .. n + 1
        PROVE  g[i] = IF i = 1 THEN seqs[i] ELSE g[i - 1] \o seqs[i]
    <3>1. CASE i <= n
      <4>1. g[i] = f[i] /\ (i # 1 => i - 1 \in 1 .. n /\ g[i - 1] = f[i - 1])
        BY <3>1
      <4>2. f[i] = IF i = 1 THEN seqs[i] ELSE f[i - 1] \o seqs[i]
        <5>1. i \in 1 .. n
          BY <3>1
        <5> QED
          BY <1>2, <5>1, Zenon
      <4> QED
        BY <4>1, <4>2
    <3>2. CASE i = n + 1 /\ n = 0
      BY <3>2 DEF last
    <3>3. CASE i = n + 1 /\ n # 0
      <4>1. g[i] = last /\ g[i - 1] = f[n] /\ i # 1
        BY <3>3
      <4> QED
        BY <4>1, <3>3 DEF last
    <3> QED
      BY <3>1, <3>2, <3>3
  <2> QED
    BY <2>4, <2>5
<1>3. ASSUME NEW n \in Nat, n \in N
      PROVE  n + 1 \in N
  <2> HIDE DEF Good
  <2>1. SUFFICES ASSUME n + 1 <= Len(seqs)
                 PROVE  \E g \in [1 .. n + 1 -> Seq(S)] : Good(g, n + 1)
    <3>1. n + 1 \in Nat
      OBVIOUS
    <3> QED
      BY <3>1, Zenon
  <2>2. n <= Len(seqs)
    BY <1>0, <2>1
  <2>3. PICK f \in [1 .. n -> Seq(S)] : Good(f, n)
    BY <1>3, <2>2
  <2> QED
    BY <1>2, <2>1, <2>3
<1> HIDE DEF N
<1>4. Len(seqs) \in N
  BY <1>0, <1>1, <1>3, SetInduction
<1>5. PICK f \in [1 .. Len(seqs) -> Seq(S)] : Good(f, Len(seqs))
  BY <1>0, <1>4 DEF N
<1>6. IsFlattening(f, seqs)
  BY <1>5 DEF IsFlattening
<1> QED
  BY <1>6

\* What FlattenSeq is, for sequences that are not empty.
LEMMA FlattenPrefixes ==
    ASSUME NEW S, NEW seqs \in Seq(Seq(S)), seqs # <<>>
    PROVE  \E f : IsFlattening(f, seqs) /\ FlattenSeq(seqs) = f[Len(seqs)]
<1> DEFINE f == CHOOSE f : IsFlattening(f, seqs)
<1>1. IsFlattening(f, seqs)
  BY PrefixesExist
<1>2. Len(seqs) # 0
  OBVIOUS
<1>3. FlattenSeq(seqs) = f[Len(seqs)]
  BY <1>2 DEF FlattenSeq, IsFlattening
<1> QED
  BY <1>1, <1>3

LEMMA FlattenEmpty == FlattenSeq(<<>>) = <<>>
BY DEF FlattenSeq

\* What the prefixes are at a position, and that they are sequences.
LEMMA PrefixesAt ==
    ASSUME NEW S, NEW seqs \in Seq(Seq(S)), NEW f, IsFlattening(f, seqs), seqs # <<>>
    PROVE  /\ f[1] = seqs[1]
           /\ \A i \in 1 .. Len(seqs) - 1 : f[i + 1] = f[i] \o seqs[i + 1]
           /\ \A i \in 1 .. Len(seqs) : f[i] \in Seq(S)
<1> DEFINE n == Len(seqs)
           N == {i \in Nat : i + 1 \in 1 .. n => f[i + 1] \in Seq(S)}
<1>0. n \in Nat /\ n > 0 /\ \A i \in 1 .. n : seqs[i] \in Seq(S)
  OBVIOUS
<1>1. \A i \in 1 .. n : f[i] = IF i = 1 THEN seqs[i] ELSE f[i - 1] \o seqs[i]
  BY Zenon DEF IsFlattening
<1> HIDE DEF n
<1>2. f[1] = seqs[1]
  <2>1. 1 \in 1 .. n
    BY <1>0
  <2> QED
    BY <1>1, <2>1, Zenon
<1>3. ASSUME NEW i \in 1 .. n - 1
      PROVE  f[i + 1] = f[i] \o seqs[i + 1]
  <2> DEFINE k == i + 1
  <2>1. k \in 1 .. n /\ k # 1 /\ k - 1 = i
    BY <1>0
  <2> HIDE DEF k
  <2>2. f[k] = f[k - 1] \o seqs[k]
    BY <1>1, <2>1, Zenon
  <2>3. f[k] = f[i] \o seqs[k]
    BY <2>1, <2>2, Zenon
  <2> QED
    BY <2>3 DEF k
<1>4. 0 \in N
  BY <1>0, <1>2
<1>5. ASSUME NEW i \in Nat, i \in N
      PROVE  i + 1 \in N
  <2>1. SUFFICES ASSUME i + 1 + 1 \in 1 .. n
                 PROVE  f[i + 1 + 1] \in Seq(S)
    OBVIOUS
  <2>2. i + 1 \in 1 .. n - 1 /\ i + 1 \in 1 .. n
    BY <1>0, <2>1
  <2>3. f[i + 1] \in Seq(S) /\ seqs[i + 1 + 1] \in Seq(S)
    BY <1>0, <1>5, <2>1, <2>2
  <2>4. f[i + 1 + 1] = f[i + 1] \o seqs[i + 1 + 1]
    BY <1>3, <2>2, Zenon
  <2> QED
    BY <2>3, <2>4, ConcatProperties
<1> HIDE DEF N
<1>6. \A i \in Nat : i \in N
  BY <1>4, <1>5, SetInduction
<1>7. ASSUME NEW i \in 1 .. n
      PROVE  f[i] \in Seq(S)
  <2>1. i - 1 \in N /\ i - 1 + 1 = i
    BY <1>6
  <2> QED
    BY <2>1 DEF N
<1> QED
  BY <1>2, <1>3, <1>7, Zenon DEF n

\* FlattenSeq puts the first sequence before the others.
LEMMA FlattenCons ==
    ASSUME NEW S, NEW seqs \in Seq(Seq(S)), seqs # <<>>
    PROVE  /\ FlattenSeq(seqs) = Head(seqs) \o FlattenSeq(Tail(seqs))
           /\ FlattenSeq(seqs) \in Seq(S)
<1> DEFINE n == Len(seqs)
           t == Tail(seqs)
<1>1. /\ n \in Nat \ {0} /\ t \in Seq(Seq(S)) /\ Len(t) = n - 1
      /\ Head(seqs) = seqs[1] /\ \A i \in 1 .. n : seqs[i] \in Seq(S)
      /\ \A i \in 1 .. n - 1 : t[i] = seqs[i + 1]
  OBVIOUS
<1>2. PICK f : IsFlattening(f, seqs) /\ FlattenSeq(seqs) = f[n]
  BY FlattenPrefixes
<1>3. /\ f[1] = seqs[1]
      /\ \A i \in 1 .. n - 1 : f[i + 1] = f[i] \o seqs[i + 1]
      /\ \A i \in 1 .. n : f[i] \in Seq(S)
  BY <1>2, PrefixesAt
<1> HIDE DEF n, t
<1>4. CASE n = 1
  <2>1. t = <<>>
    BY <1>1, <1>4
  <2>2. FlattenSeq(t) = <<>>
    BY <2>1, FlattenEmpty
  <2>3. f[1] = seqs[1] /\ seqs[1] \in Seq(S)
    BY <1>1, <1>3, <1>4
  <2> QED
    BY <1>1, <1>2, <1>4, <2>2, <2>3 DEF t
<1>5. CASE n # 1
  <2>1. t # <<>>
    BY <1>1, <1>5
  <2>2. PICK g : IsFlattening(g, t) /\ FlattenSeq(t) = g[n - 1]
    BY <1>1, <2>1, FlattenPrefixes
  <2>3. /\ g[1] = t[1]
        /\ \A i \in 1 .. n - 1 - 1 : g[i + 1] = g[i] \o t[i + 1]
        /\ \A i \in 1 .. n - 1 : g[i] \in Seq(S)
    <3>1. /\ g[1] = t[1]
          /\ \A i \in 1 .. Len(t) - 1 : g[i + 1] = g[i] \o t[i + 1]
          /\ \A i \in 1 .. Len(t) : g[i] \in Seq(S)
      <4>1. t \in Seq(Seq(S))
        BY <1>1
      <4> QED
        BY <2>1, <2>2, <4>1, PrefixesAt
    <3>2. Len(t) = n - 1
      BY <1>1
    <3> QED
      BY <3>1, <3>2, Zenon
  <2> DEFINE N == {i \in Nat : i + 1 \in 1 .. n - 1 =>
                                  f[i + 1 + 1] = seqs[1] \o g[i + 1]}
  <2>4. 0 \in N
    <3>1. 1 \in 1 .. n - 1
      BY <1>1, <1>5
    <3>2. f[1 + 1] = f[1] \o seqs[1 + 1] /\ t[1] = seqs[1 + 1]
      BY <1>1, <1>3, <3>1, Zenon
    <3>3. f[1 + 1] = seqs[1] \o g[1]
      BY <1>3, <2>3, <3>2, Zenon
    <3>4. 0 + 1 = 1
      OBVIOUS
    <3> QED
      BY <3>3, <3>4, Zenon
  <2>5. ASSUME NEW i \in Nat, i \in N
        PROVE  i + 1 \in N
    <3> DEFINE j == i + 1
    <3>1. SUFFICES ASSUME j + 1 \in 1 .. n - 1
                   PROVE  f[j + 1 + 1] = seqs[1] \o g[j + 1]
      <4>1. j \in Nat
        OBVIOUS
      <4> QED
        BY <4>1, Zenon
    <3>2. j \in 1 .. n - 1 - 1 /\ j \in 1 .. n - 1
      BY <1>1, <3>1
    <3>3. f[j + 1] = seqs[1] \o g[j]
      BY <2>5, <3>2
    <3> HIDE DEF N, j
    <3>4. f[j + 1 + 1] = f[j + 1] \o seqs[j + 1 + 1]
      BY <1>3, <3>1, Zenon
    <3>5. g[j + 1] = g[j] \o t[j + 1] /\ t[j + 1] = seqs[j + 1 + 1]
      BY <1>1, <2>3, <3>1, <3>2, Zenon
    <3>6. seqs[1] \in Seq(S) /\ g[j] \in Seq(S) /\ t[j + 1] \in Seq(S)
      <4>1. 1 \in 1 .. n
        BY <1>1
      <4>2. t[j + 1] \in Seq(S)
        BY <1>1, <3>1
      <4> QED
        BY <1>1, <2>3, <3>2, <4>1, <4>2, Zenon
    <3>7. (seqs[1] \o g[j]) \o t[j + 1] = seqs[1] \o (g[j] \o t[j + 1])
      <4> DEFINE a == seqs[1] b == g[j] d == t[j + 1]
      <4> HIDE DEF a, b, d
      <4>1. (a \o b) \o d = a \o (b \o d)
        <5>1. a \in Seq(S) /\ b \in Seq(S) /\ d \in Seq(S)
          BY <3>6 DEF a, b, d
        <5> QED
          BY <5>1, ConcatAssociative
      <4> QED
        BY <4>1 DEF a, b, d
    <3> QED
      BY <3>3, <3>4, <3>5, <3>7, Zenon
  <2> HIDE DEF N
  <2>6. n - 2 \in N
    <3>1. n - 2 \in Nat
      BY <1>1, <1>5
    <3>2. \A i \in Nat : i \in N
      BY <2>4, <2>5, SetInduction
    <3> QED
      BY <3>1, <3>2
  <2>7. f[n] = seqs[1] \o g[n - 1]
    <3>1. n - 2 + 1 + 1 = n /\ n - 2 + 1 = n - 1 /\ n - 1 \in 1 .. n - 1
      BY <1>1, <1>5
    <3> QED
      BY <2>6, <3>1 DEF N
  <2>8. f[n] \in Seq(S)
    BY <1>1, <1>3
  <2> QED
    BY <1>1, <1>2, <2>2, <2>7, <2>8 DEF t
<1> QED
  BY <1>4, <1>5
(***************************************************************************)
(* Counting the elements of a sequence that are in a set.                  *)
(***************************************************************************)
Positions(s, S) == {i \in 1 .. Len(s) : s[i] \in S}
Tally(s, S)     == Cardinality(Positions(s, S))

LEMMA PositionsFinite ==
    ASSUME NEW T, NEW s \in Seq(T), NEW S
    PROVE  IsFiniteSet(Positions(s, S)) /\ Tally(s, S) \in Nat
<1>1. IsFiniteSet(1 .. Len(s))
  BY FS_Interval
<1>2. IsFiniteSet(Positions(s, S))
  BY <1>1, FS_Subset DEF Positions
<1> QED
  BY <1>2, FS_CardinalityType DEF Tally

LEMMA TallyEmpty == ASSUME NEW S PROVE Tally(<<>>, S) = 0
<1>1. Positions(<<>>, S) = {}
  BY DEF Positions
<1> QED
  BY <1>1, FS_EmptySet DEF Tally

LEMMA TallyAppend ==
    ASSUME NEW T, NEW s \in Seq(T), NEW x \in T, NEW S
    PROVE  Tally(Append(s, x), S) =
              IF x \in S THEN Tally(s, S) + 1 ELSE Tally(s, S)
<1> DEFINE k == Len(s)
           u == Append(s, x)
<1>1. k \in Nat /\ Len(u) = k + 1 /\ u[k + 1] = x /\ \A i \in 1 .. k : u[i] = s[i]
  BY AppendProperties, LenProperties
<1>2. IsFiniteSet(Positions(s, S))
  BY PositionsFinite
<1>8. k + 1 \notin Positions(s, S)
  BY <1>1 DEF Positions
<1>3. \A i : i \in 1 .. k + 1 <=> i \in 1 .. k \/ i = k + 1
  BY <1>1
<1> HIDE DEF k, u
<1>4. Positions(u, S) = {i \in 1 .. k + 1 : u[i] \in S}
  BY <1>1 DEF Positions
<1>5. Positions(s, S) = {i \in 1 .. k : s[i] \in S}
  BY DEF Positions, k
<1>6. CASE x \in S
  <2>1. Positions(u, S) = Positions(s, S) \cup {k + 1}
    BY <1>1, <1>3, <1>4, <1>5, <1>6
  <2> QED
    BY <1>2, <1>8, <1>6, <2>1, FS_AddElement DEF Tally, u
<1>7. CASE x \notin S
  <2>1. Positions(u, S) = Positions(s, S)
    BY <1>1, <1>3, <1>4, <1>5, <1>7
  <2> QED
    BY <1>7, <2>1 DEF Tally, u
<1> QED
  BY <1>6, <1>7

LEMMA TallyConcat ==
    ASSUME NEW T, NEW s \in Seq(T), NEW t \in Seq(T), NEW S
    PROVE  Tally(s \o t, S) = Tally(s, S) + Tally(t, S)
<1> DEFINE k == Len(s)
           m == Len(t)
           u == s \o t
           A == Positions(s, S)
           B == Positions(t, S)
           C == {k + i : i \in B}
           f == [i \in B |-> k + i]
<1>1. /\ k \in Nat /\ m \in Nat /\ Len(u) = k + m
      /\ \A i \in 1 .. k + m : u[i] = IF i <= k THEN s[i] ELSE t[i - k]
  BY ConcatProperties, LenProperties
<1>2. IsFiniteSet(A) /\ IsFiniteSet(B) /\ A \subseteq 1 .. k /\ B \subseteq 1 .. m
  BY PositionsFinite DEF Positions
<1> HIDE DEF k, m, u
<1>3. /\ Positions(u, S) = {i \in 1 .. k + m : u[i] \in S}
      /\ A = {i \in 1 .. k : s[i] \in S} /\ B = {i \in 1 .. m : t[i] \in S}
  BY <1>1 DEF Positions, k, m
<1> HIDE DEF A, B
<1>4. Positions(u, S) = A \cup C
  <2>1. ASSUME NEW i \in Positions(u, S) PROVE i \in A \cup C
    <3>1. i \in 1 .. k + m /\ u[i] \in S
      BY <1>3
    <3>2. CASE i <= k
      <4>1. i \in 1 .. k /\ u[i] = s[i]
        BY <1>1, <3>1, <3>2
      <4> QED
        BY <1>3, <3>1, <4>1
    <3>3. CASE ~(i <= k)
      <4>1. i - k \in 1 .. m /\ k + (i - k) = i /\ u[i] = t[i - k]
        BY <1>1, <3>1, <3>3
      <4>2. i - k \in B
        BY <1>3, <3>1, <4>1
      <4> QED
        BY <4>1, <4>2
    <3> QED
      BY <3>2, <3>3
  <2>2. ASSUME NEW i \in A PROVE i \in Positions(u, S)
    <3>1. i \in 1 .. k /\ s[i] \in S
      BY <1>3
    <3>2. i \in 1 .. k + m /\ i <= k
      BY <1>1, <3>1
    <3> QED
      BY <1>1, <1>3, <3>1, <3>2
  <2>3. ASSUME NEW j \in B PROVE k + j \in Positions(u, S)
    <3>1. j \in 1 .. m /\ t[j] \in S
      BY <1>3
    <3>2. k + j \in 1 .. k + m /\ ~(k + j <= k) /\ (k + j) - k = j
      BY <1>1, <3>1
    <3> QED
      BY <1>1, <1>3, <3>1, <3>2
  <2> QED
    BY <2>1, <2>2, <2>3
<1>5. ExistsBijection(B, C)
  <2>1. f \in [B -> C]
    OBVIOUS
  <2>2. ASSUME NEW i \in B, NEW j \in B, f[i] = f[j] PROVE i = j
    <3>1. i \in Int /\ j \in Int /\ k + i = k + j
      BY <1>2, <2>2
    <3> QED
      BY <1>1, <3>1
  <2>3. \A c \in C : \E i \in B : f[i] = c
    OBVIOUS
  <2> HIDE DEF f, C
  <2>4. IsInjective(f)
    BY <2>1, <2>2 DEF IsInjective
  <2>5. f \in Bijection(B, C)
    BY <2>1, <2>3, <2>4 DEF Bijection, Injection, Surjection
  <2> QED
    BY <2>5 DEF ExistsBijection
<1>6. IsFiniteSet(C) /\ Cardinality(C) = Cardinality(B)
  BY <1>2, <1>5, FS_Bijection
<1>7. A \cap C = {}
  BY <1>1, <1>2
<1>8. Cardinality(A \cup C) = Cardinality(A) + Cardinality(C) - Cardinality(A \cap C)
  BY <1>2, <1>6, FS_Union
<1>9. Cardinality(A) \in Nat /\ Cardinality(B) \in Nat /\ Cardinality({}) = 0
  BY <1>2, FS_CardinalityType, FS_EmptySet
<1> HIDE DEF C, f
<1>10. Cardinality(A \cup C) = Cardinality(A) + Cardinality(B)
  <2>1. Cardinality(A \cup C) = Cardinality(A) + Cardinality(B) - 0
    BY <1>6, <1>7, <1>8, <1>9
  <2> QED
    BY <1>9, <2>1
<1> QED
  BY <1>4, <1>10 DEF Tally, u, A, B

=============================================================================
