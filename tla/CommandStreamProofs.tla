------------------------ MODULE CommandStreamProofs ------------------------
(***************************************************************************)
(* Proofs about CommandStream, RequestReader, CommandArgs and Bufio: every *)
(* command that a client sends is read back, for requests of any length    *)
(* and number, a buffer of any size and segments of any length.            *)
(*                                                                         *)
(* In order: sequences; the methods of bufioR, each by what its results    *)
(* have in common for any bytes; RequestReader's methods likewise; the     *)
(* recycled Command; the types of the whole specification.  Then, for      *)
(* bytes that arrive in whole lines: what bufioR does to a line and to a   *)
(* bulk, the bytes of a sequence of requests, what RequestReader's methods *)
(* do to a request, the invariant IInv with one lemma per action, and the  *)
(* properties that follow from it.                                         *)
(***************************************************************************)
EXTENDS CommandStream, SequenceFacts

(***************************************************************************)
(* Sequences: the rest of one after its first n elements                   *)
(***************************************************************************)
LEMMA AfterIs ==
    ASSUME NEW S, NEW u \in Seq(S), NEW n \in 0 .. Len(u)
    PROVE  /\ After(u, n) \in Seq(S) /\ Len(After(u, n)) = Len(u) - n
           /\ \A i \in 1 .. Len(u) - n : After(u, n)[i] = u[n + i]
<1> DEFINE l == Len(u)
<1>1. l \in Nat /\ n \in Nat /\ n <= l /\ \A i \in 1 .. l : u[i] \in S
  BY LenProperties, ElementOfSeq
<1>2. After(u, n) = SubSeq(u, n + 1, l)
  BY DEF After
<1> HIDE DEF l
<1>3. n + 1 \in Int /\ l \in Int /\ \A i \in n + 1 .. l : u[i] \in S
  BY <1>1
<1>4. /\ SubSeq(u, n + 1, l) \in Seq(S)
      /\ Len(SubSeq(u, n + 1, l)) = IF n + 1 <= l THEN l - (n + 1) + 1 ELSE 0
      /\ \A i \in 1 .. l - (n + 1) + 1 : SubSeq(u, n + 1, l)[i] = u[(n + 1) + i - 1]
  BY <1>3, SubSeqProperties
<1>5. Len(After(u, n)) = l - n
  BY <1>1, <1>2, <1>4
<1>6. ASSUME NEW i \in 1 .. l - n PROVE After(u, n)[i] = u[n + i]
  <2>1. i \in 1 .. l - (n + 1) + 1 /\ (n + 1) + i - 1 = n + i
    BY <1>1
  <2> QED
    BY <1>2, <1>4, <2>1
<1> QED
  BY <1>2, <1>4, <1>5, <1>6 DEF l

LEMMA UptoIs ==
    ASSUME NEW S, NEW u \in Seq(S), NEW n \in 0 .. Len(u)
    PROVE  /\ SubSeq(u, 1, n) \in Seq(S) /\ Len(SubSeq(u, 1, n)) = n
           /\ \A i \in 1 .. n : SubSeq(u, 1, n)[i] = u[i]
<1> DEFINE l == Len(u)
<1>1. l \in Nat /\ n \in Nat /\ n <= l /\ \A i \in 1 .. l : u[i] \in S
  BY LenProperties, ElementOfSeq
<1> HIDE DEF l
<1>3. 1 \in Int /\ n \in Int /\ \A i \in 1 .. n : u[i] \in S
  BY <1>1
<1>4. /\ SubSeq(u, 1, n) \in Seq(S)
      /\ Len(SubSeq(u, 1, n)) = IF 1 <= n THEN n - 1 + 1 ELSE 0
      /\ \A i \in 1 .. n - 1 + 1 : SubSeq(u, 1, n)[i] = u[1 + i - 1]
  BY <1>3, SubSeqProperties
<1>5. Len(SubSeq(u, 1, n)) = n
  BY <1>1, <1>4
<1>6. ASSUME NEW i \in 1 .. n PROVE SubSeq(u, 1, n)[i] = u[i]
  <2>1. i \in 1 .. n - 1 + 1 /\ 1 + i - 1 = i
    BY <1>1
  <2> QED
    BY <1>4, <2>1
<1> QED
  BY <1>4, <1>5, <1>6

LEMMA UptoAfter ==
    ASSUME NEW S, NEW u \in Seq(S), NEW n \in 0 .. Len(u)
    PROVE  SubSeq(u, 1, n) \o After(u, n) = u
<1> DEFINE a == SubSeq(u, 1, n)
           b == After(u, n)
           l == Len(u)
<1>1. l \in Nat /\ n \in Nat /\ n <= l
  BY LenProperties
<1>2. a \in Seq(S) /\ Len(a) = n /\ \A i \in 1 .. n : a[i] = u[i]
  BY UptoIs
<1>3. b \in Seq(S) /\ Len(b) = l - n /\ \A i \in 1 .. l - n : b[i] = u[n + i]
  BY AfterIs
<1> HIDE DEF a, b
<1>4. /\ a \o b \in Seq(S) /\ Len(a \o b) = Len(a) + Len(b)
      /\ \A i \in 1 .. Len(a) + Len(b) : (a \o b)[i] = IF i <= Len(a) THEN a[i] ELSE b[i - Len(a)]
  BY <1>2, <1>3, ConcatProperties
<1> HIDE DEF l
<1>5. Len(a) + Len(b) = l
  BY <1>1, <1>2, <1>3
<1>6. ASSUME NEW i \in 1 .. l PROVE (a \o b)[i] = u[i]
  <2>1. CASE i <= n
    BY <1>1, <1>2, <1>4, <1>5, <2>1
  <2>2. CASE ~(i <= n)
    <3>1. i - n \in 1 .. l - n /\ n + (i - n) = i
      BY <1>1, <2>2
    <3>2. b[i - n] = u[i]
      BY <1>3, <3>1
    <3> QED
      BY <1>1, <1>2, <1>4, <1>5, <2>2, <3>2
  <2> QED
    BY <2>1, <2>2
<1>7. a \o b = u
  BY <1>4, <1>5, <1>6, SeqEqual DEF l
<1> QED
  BY <1>7 DEF a, b

LEMMA AfterConcat ==
    ASSUME NEW S, NEW x \in Seq(S), NEW y \in Seq(S), NEW n \in 0 .. Len(x)
    PROVE  After(x \o y, n) = After(x, n) \o y
<1> DEFINE u == x \o y
           a == After(u, n)
           c == After(x, n)
           b == c \o y
           l == Len(x)
           m == Len(y)
<1>1. l \in Nat /\ m \in Nat /\ n \in Nat /\ n <= l
  BY LenProperties
<1>2. /\ u \in Seq(S) /\ Len(u) = l + m
      /\ \A i \in 1 .. l + m : u[i] = IF i <= l THEN x[i] ELSE y[i - l]
  BY ConcatProperties
<1>3. c \in Seq(S) /\ Len(c) = l - n /\ \A i \in 1 .. l - n : c[i] = x[n + i]
  BY AfterIs
<1> HIDE DEF u, c
<1>4. /\ b \in Seq(S) /\ Len(b) = Len(c) + m
      /\ \A i \in 1 .. Len(c) + m : b[i] = IF i <= Len(c) THEN c[i] ELSE y[i - Len(c)]
  BY <1>3, ConcatProperties
<1>5. a \in Seq(S) /\ Len(a) = Len(u) - n /\ \A i \in 1 .. Len(u) - n : a[i] = u[n + i]
  <2>1. n \in 0 .. Len(u)
    <3> HIDE DEF l, m
    <3> QED BY <1>1, <1>2
  <2> QED BY <1>2, <2>1, AfterIs, ZenonT(60)
<1> HIDE DEF a, b, l, m
<1>6. Len(a) = Len(b) /\ Len(a) = l + m - n
  BY <1>1, <1>2, <1>3, <1>4, <1>5
<1>7. ASSUME NEW i \in 1 .. l + m - n PROVE a[i] = b[i]
  <2>0. n + i \in 1 .. l + m /\ a[i] = u[n + i]
    BY <1>1, <1>2, <1>5
  <2>1. CASE n + i <= l
    <3>1. i \in 1 .. l - n
      BY <1>1, <2>1
    <3> QED BY <1>1, <1>2, <1>3, <1>4, <2>0, <2>1, <3>1
  <2>2. CASE ~(n + i <= l)
    <3>1. (n + i) - l = i - (l - n) /\ ~(i <= l - n) /\ i \in 1 .. (l - n) + m
      BY <1>1, <2>2
    <3>2. u[n + i] = y[(n + i) - l]
      BY <1>2, <2>0, <2>2
    <3>3. b[i] = y[i - (l - n)]
      BY <1>3, <1>4, <3>1
    <3> QED BY <2>0, <3>1, <3>2, <3>3
  <2> QED
    BY <2>1, <2>2
<1>8. a = b
  BY <1>4, <1>5, <1>6, <1>7, SeqEqual
<1> QED
  BY <1>8 DEF a, b, u, c

LEMMA AfterNone ==
    ASSUME NEW S, NEW u \in Seq(S)
    PROVE  After(u, 0) = u
BY SubSeqFull DEF After

LEMMA AfterAll ==
    ASSUME NEW S, NEW u \in Seq(S)
    PROVE  After(u, Len(u)) = <<>>
<1>1. Len(u) + 1 \in Int /\ Len(u) \in Int /\ Len(u) < Len(u) + 1
  BY LenProperties
<1> QED
  BY <1>1, SubSeqEmpty DEF After

LEMMA AfterFirst ==
    ASSUME NEW S, NEW x \in Seq(S), NEW y \in Seq(S)
    PROVE  After(x \o y, Len(x)) = y
<1>1. Len(x) \in 0 .. Len(x)
  BY LenProperties
<1>2. After(x \o y, Len(x)) = After(x, Len(x)) \o y
  BY <1>1, AfterConcat
<1> QED
  BY <1>2, AfterAll, ConcatEmptySeq

LEMMA AfterAfter ==
    ASSUME NEW S, NEW u \in Seq(S), NEW n \in 0 .. Len(u), NEW m \in 0 .. Len(u) - n
    PROVE  After(After(u, n), m) = After(u, n + m)
<1> DEFINE v == After(u, n)
           a == After(v, m)
           b == After(u, n + m)
           l == Len(u)
<1>1. l \in Nat /\ n \in Nat /\ m \in Nat /\ n + m <= l
  BY LenProperties
<1>2. v \in Seq(S) /\ Len(v) = l - n /\ \A i \in 1 .. l - n : v[i] = u[n + i]
  BY AfterIs
<1> HIDE DEF v
<1>3. a \in Seq(S) /\ Len(a) = Len(v) - m /\ \A i \in 1 .. Len(v) - m : a[i] = v[m + i]
  <2>1. m \in 0 .. Len(v)
    BY <1>2 DEF l
  <2> QED BY <1>2, <2>1, AfterIs, SMTT(60)
<1>4. n + m \in 0 .. Len(u)
  <2> HIDE DEF l
  <2>1. n + m \in 0 .. l
    BY <1>1
  <2> QED BY <2>1 DEF l
<1>5. b \in Seq(S) /\ Len(b) = l - (n + m) /\ \A i \in 1 .. l - (n + m) : b[i] = u[(n + m) + i]
  BY <1>4, AfterIs
<1> HIDE DEF a, b, l
<1>6. Len(a) = Len(b) /\ Len(a) = l - n - m
  BY <1>1, <1>2, <1>3, <1>5
<1>7. ASSUME NEW i \in 1 .. l - n - m PROVE a[i] = b[i]
  <2>1. m + i \in 1 .. l - n /\ n + (m + i) = (n + m) + i
    BY <1>1
  <2>2. a[i] = v[m + i]
    BY <1>1, <1>2, <1>3
  <2>3. b[i] = u[(n + m) + i]
    BY <1>1, <1>5
  <2> QED BY <1>2, <2>1, <2>2, <2>3
<1>8. a = b
  BY <1>3, <1>5, <1>6, <1>7, SeqEqual
<1> QED
  BY <1>8 DEF a, b, v

(***************************************************************************)
(* bufioR                                                                  *)
(***************************************************************************)
RawReaders ==
    [net : Seq(ArgBytes), buf : Seq(ArgBytes), r : Nat, over : 0 .. 1, cap : Nat,
     whole : BOOLEAN]

Readers ==
    {s \in RawReaders : /\ s.r + Len(s.buf) - s.over <= s.cap
                        /\ s.over = 1 => s.buf = <<>>}

\* A reader that has got whole lines.
Tidy(s) ==
    s.over = 0 /\ s.whole /\ (s.buf # <<>> => s.buf[Len(s.buf)].end)

LEMMA MinOfTwo ==
    ASSUME NEW x \in Int, NEW y \in Int
    PROVE  Min({x, y}) = IF x <= y THEN x ELSE y
<1> DEFINE m == IF x <= y THEN x ELSE y
<1>1. m \in {x, y} /\ \A z \in {x, y} : m <= z
  OBVIOUS
<1>2. \A a \in {x, y} : (\A z \in {x, y} : a <= z) => a = m
  OBVIOUS
<1> QED
  BY <1>1, <1>2 DEF Min

LEMMA MaxOfTwo ==
    ASSUME NEW x \in Int, NEW y \in Int
    PROVE  Max({x, y}) = IF x >= y THEN x ELSE y
<1> DEFINE m == IF x >= y THEN x ELSE y
<1>1. m \in {x, y} /\ \A z \in {x, y} : m >= z
  OBVIOUS
<1>2. \A a \in {x, y} : (\A z \in {x, y} : a >= z) => a = m
  OBVIOUS
<1> QED
  BY <1>1, <1>2 DEF Max

LEMMA ReaderIs ==
    ASSUME NEW s \in Readers
    PROVE  /\ s \in RawReaders
           /\ s.net \in Seq(ArgBytes) /\ s.buf \in Seq(ArgBytes)
           /\ Len(s.net) \in Nat /\ Len(s.buf) \in Nat
           /\ s.r \in Nat /\ s.over \in 0 .. 1 /\ s.cap \in Nat
           /\ s.r + Len(s.buf) - s.over <= s.cap
           /\ s.over = 1 => s.buf = <<>>
<1>1. /\ s \in RawReaders /\ s.net \in Seq(ArgBytes) /\ s.buf \in Seq(ArgBytes)
      /\ s.r \in Nat /\ s.over \in 0 .. 1 /\ s.cap \in Nat
      /\ s.r + Len(s.buf) - s.over <= s.cap /\ (s.over = 1 => s.buf = <<>>)
  BY DEF Readers, RawReaders
<1> QED
  BY <1>1, LenProperties

LEMMA UnreadIs ==
    ASSUME NEW s \in Readers
    PROVE  /\ Unread(s) \in Seq(ArgBytes) /\ Len(Unread(s)) = Len(s.buf) + Len(s.net)
           /\ \A i \in 1 .. Len(s.buf) : Unread(s)[i] = s.buf[i]
           /\ \A i \in 1 .. Len(s.net) : Unread(s)[Len(s.buf) + i] = s.net[i]
<1>1. s.net \in Seq(ArgBytes) /\ s.buf \in Seq(ArgBytes)
  BY ReaderIs
<1> DEFINE b == s.buf
           n == s.net
<1>2. b \in Seq(ArgBytes) /\ n \in Seq(ArgBytes) /\ Unread(s) = b \o n
  BY <1>1 DEF Unread
<1> HIDE DEF b, n
<1>3. /\ b \o n \in Seq(ArgBytes) /\ Len(b \o n) = Len(b) + Len(n)
      /\ \A i \in 1 .. Len(b) + Len(n) : (b \o n)[i] = IF i <= Len(b) THEN b[i] ELSE n[i - Len(b)]
      /\ Len(b) \in Nat /\ Len(n) \in Nat
  BY <1>2, ConcatProperties, LenProperties
<1>4. \A i \in 1 .. Len(b) : (b \o n)[i] = b[i]
  BY <1>3
<1>5. ASSUME NEW i \in 1 .. Len(n) PROVE (b \o n)[Len(b) + i] = n[i]
  <2>1. Len(b) + i \in 1 .. Len(b) + Len(n) /\ ~(Len(b) + i <= Len(b)) /\ (Len(b) + i) - Len(b) = i
    BY <1>3
  <2> QED BY <1>3, <2>1
<1> QED
  BY <1>2, <1>3, <1>4, <1>5 DEF b, n

LEMMA DeliverIs ==
    ASSUME NEW s \in Readers, s.over = 0, NEW n \in 0 .. Len(s.net),
           s.r + Len(s.buf) + n <= s.cap
    PROVE  LET d == Deliver(s, n)
           IN  /\ d \in Readers
               /\ d.buf = s.buf \o SubSeq(s.net, 1, n) /\ d.net = After(s.net, n)
               /\ d.r = s.r /\ d.cap = s.cap /\ d.over = 0
               /\ Len(d.buf) = Len(s.buf) + n
               /\ Unread(d) = Unread(s)
               /\ d.whole => s.whole /\ (n > 0 => s.net[n].end)
               /\ Tidy(s) /\ d.whole => Tidy(d)
<1> DEFINE d == Deliver(s, n)
           a == SubSeq(s.net, 1, n)
           b == s.buf
           c == After(s.net, n)
<1>1. /\ s \in RawReaders /\ s.net \in Seq(ArgBytes) /\ b \in Seq(ArgBytes)
      /\ Len(s.net) \in Nat /\ Len(b) \in Nat /\ n \in Nat
      /\ s.r \in Nat /\ s.cap \in Nat
  <2>1. /\ s \in RawReaders /\ s.net \in Seq(ArgBytes) /\ b \in Seq(ArgBytes)
        /\ Len(s.net) \in Nat /\ Len(b) \in Nat /\ s.r \in Nat /\ s.cap \in Nat
    BY ReaderIs
  <2> QED BY <2>1
<1>2. a \in Seq(ArgBytes) /\ Len(a) = n /\ \A i \in 1 .. n : a[i] = s.net[i]
  BY <1>1, UptoIs
<1>3. c \in Seq(ArgBytes)
  BY <1>1, AfterIs
<1>4. /\ b \o a \in Seq(ArgBytes) /\ Len(b \o a) = Len(b) + n
      /\ \A i \in 1 .. Len(b) + n : (b \o a)[i] = IF i <= Len(b) THEN b[i] ELSE a[i - Len(b)]
  <2> HIDE DEF a, b
  <2> QED BY <1>1, <1>2, ConcatProperties
<1>5. (s.whole /\ (n > 0 => s.net[n].end)) \in BOOLEAN
  OBVIOUS
<1>6. d = [s EXCEPT !.buf = b \o a, !.net = c, !.whole = s.whole /\ (n > 0 => s.net[n].end)]
  BY DEF Deliver, After
<1>7. /\ d \in RawReaders /\ d.buf = b \o a /\ d.net = c /\ d.r = s.r /\ d.cap = s.cap
      /\ d.over = s.over
  <2> HIDE DEF a, b, c, d
  <2> QED BY <1>1, <1>3, <1>4, <1>5, <1>6 DEF RawReaders
<1>8. d.whole = (s.whole /\ (n > 0 => s.net[n].end))
  <2> HIDE DEF a, b, c, d
  <2> QED BY <1>1, <1>6 DEF RawReaders
<1>9. d \in Readers
  <2> HIDE DEF a, c, d
  <2>1. d.r + Len(d.buf) - d.over <= d.cap
    BY <1>1, <1>4, <1>7
  <2>2. d.over = 1 => d.buf = <<>>
    BY <1>7
  <2>3. d \in RawReaders
    BY <1>7
  <2> QED BY <2>1, <2>2, <2>3, Zenon DEF Readers
<1>10. Unread(d) = Unread(s)
  <2>1. Unread(d) = (b \o a) \o c
    BY <1>7 DEF Unread
  <2>2. (b \o a) \o c = b \o (a \o c)
    <3>1. a \in Seq(ArgBytes) /\ b \in Seq(ArgBytes) /\ c \in Seq(ArgBytes)
      BY <1>1, <1>2, <1>3
    <3> HIDE DEF a, b, c
    <3> QED BY <3>1, ConcatAssociative, SMTT(60)
  <2>3. a \o c = s.net
    BY <1>1, UptoAfter
  <2> QED BY <2>1, <2>2, <2>3 DEF Unread
<1>11. ASSUME Tidy(s), d.whole PROVE Tidy(d)
  <2>1. CASE n = 0
    <3>1. Len(d.buf) = Len(b) /\ (b # <<>> => Len(b) \in Nat /\ Len(b) # 0)
      BY <1>1, <1>4, <1>7, <2>1, EmptySeq
    <3>2. d.buf # <<>> => d.buf[Len(d.buf)] = b[Len(b)] /\ b # <<>>
      <4> HIDE DEF d, b, a
      <4>1. ASSUME d.buf # <<>> PROVE b # <<>>
        <5>1. Len(d.buf) # 0
          BY <1>4, <1>7, <4>1, EmptySeq
        <5> QED BY <3>1, <5>1
      <4>2. b # <<>> => Len(b) \in 1 .. Len(b) + n
        BY <1>1, <3>1
      <4> QED BY <1>1, <1>4, <1>7, <3>1, <4>1, <4>2
    <3> QED BY <1>7, <1>11, <3>1, <3>2 DEF Tidy
  <2>2. CASE n > 0
    <3>1. s.net[n].end
      BY <1>8, <1>11, <2>2
    <3>2. d.buf[Len(d.buf)] = s.net[n]
      <4> HIDE DEF d, a, b
      <4>1. Len(b) + n \in 1 .. Len(b) + n /\ ~(Len(b) + n <= Len(b)) /\ (Len(b) + n) - Len(b) = n /\ n \in 1 .. n
        BY <1>1, <2>2
      <4> QED BY <1>2, <1>4, <1>7, <4>1
    <3> QED BY <1>7, <1>11, <3>1, <3>2 DEF Tidy
  <2> QED BY <1>1, <2>1, <2>2
<1> HIDE DEF d
<1>12. Len(d.buf) = Len(s.buf) + n
  BY <1>4, <1>7
<1>13. d.whole => s.whole /\ (n > 0 => s.net[n].end)
  BY <1>8
<1>14. d.over = 0
  BY <1>7
<1> QED
  BY <1>7, <1>9, <1>10, <1>11, <1>12, <1>13, <1>14 DEF d

LEMMA AdvanceIs ==
    ASSUME NEW s \in Readers, s.over = 0, NEW n \in 0 .. Len(s.buf)
    PROVE  LET d == Advance(s, n)
           IN  /\ d \in Readers
               /\ d.buf = After(s.buf, n) /\ d.net = s.net /\ d.over = 0
               /\ d.whole = s.whole
               /\ Unread(d) = After(Unread(s), n)
               /\ Tidy(s) => Tidy(d)
<1> DEFINE d == Advance(s, n)
           b == s.buf
           c == After(b, n)
<1>1. /\ s \in RawReaders /\ s.net \in Seq(ArgBytes) /\ b \in Seq(ArgBytes)
      /\ Len(b) \in Nat /\ n \in Nat /\ n <= Len(b) /\ s.r \in Nat /\ s.cap \in Nat
      /\ s.r + Len(b) <= s.cap
  <2>1. /\ s \in RawReaders /\ s.net \in Seq(ArgBytes) /\ b \in Seq(ArgBytes)
        /\ Len(b) \in Nat /\ s.r \in Nat /\ s.cap \in Nat /\ s.r + Len(b) - s.over <= s.cap
    BY ReaderIs
  <2> HIDE DEF b
  <2> QED BY <2>1 DEF b
<1>2. c \in Seq(ArgBytes) /\ Len(c) = Len(b) - n /\ \A i \in 1 .. Len(b) - n : c[i] = b[n + i]
  <2> HIDE DEF b
  <2>1. n \in 0 .. Len(b)
    BY <1>1
  <2> QED BY <1>1, <2>1, AfterIs, ZenonT(60)
<1> DEFINE x == IF n > Len(b) THEN n - Len(b) ELSE 0
<1>3. d = [s EXCEPT !.r = s.r + n, !.buf = c, !.over = s.over + x] /\ s.over + x = 0
  <2>1. d = [s EXCEPT !.r = s.r + n, !.buf = c, !.over = s.over + x]
    BY Zenon DEF Advance, After
  <2> HIDE DEF b
  <2> QED BY <1>1, <2>1
<1> HIDE DEF x
<1>4. /\ d \in RawReaders /\ d.buf = c /\ d.net = s.net /\ d.r = s.r + n /\ d.cap = s.cap
      /\ d.over = 0 /\ d.whole = s.whole
  <2> HIDE DEF b, c, d
  <2>0. d = [s EXCEPT !.r = s.r + n, !.buf = c, !.over = 0]
    BY <1>3, Zenon
  <2>1. d = [s EXCEPT !.r = s.r + n, !.buf = c, !.over = 0] /\ s.r + n \in Nat /\ 0 \in 0 .. 1
    BY <1>1, <2>0
  <2>2. d \in RawReaders
    BY <1>1, <1>2, <2>1 DEF RawReaders
  <2>3. d.buf = c /\ d.net = s.net /\ d.r = s.r + n /\ d.cap = s.cap /\ d.over = 0
    BY <1>1, <2>1 DEF RawReaders
  <2>4. d.whole = s.whole
    BY <1>1, <2>1, Zenon DEF RawReaders
  <2> QED BY <2>2, <2>3, <2>4
<1>5. d \in Readers
  <2> HIDE DEF b, c, d
  <2> QED BY <1>1, <1>2, <1>4 DEF Readers
<1>6. Unread(d) = After(Unread(s), n)
  <2>1. Unread(d) = c \o s.net /\ Unread(s) = b \o s.net
    BY <1>4 DEF Unread
  <2>2. After(b \o s.net, n) = c \o s.net
    BY <1>1, AfterConcat
  <2> QED BY <2>1, <2>2
<1>7. ASSUME Tidy(s) PROVE Tidy(d)
  <2>1. ASSUME d.buf # <<>> PROVE d.buf[Len(d.buf)].end
    <3>1. Len(c) \in Nat /\ Len(c) # 0
      BY <1>2, <1>4, <2>1, EmptySeq
    <3> HIDE DEF b, c, d
    <3>2. Len(b) - n \in 1 .. Len(b) - n /\ n + (Len(b) - n) = Len(b)
      BY <1>1, <1>2, <3>1
    <3>3. c[Len(c)] = b[Len(b)]
      BY <1>2, <3>2
    <3>4. b # <<>>
      BY <1>1, <1>2, <3>1, EmptySeq
    <3> QED BY <1>4, <1>7, <3>3, <3>4 DEF Tidy, b
  <2> QED BY <1>4, <1>7, <2>1 DEF Tidy
<1> QED
  BY <1>4, <1>5, <1>6, <1>7

LEMMA MinOfSet ==
    ASSUME NEW T \in SUBSET Nat, T # {}
    PROVE  Min(T) \in T /\ \A y \in T : Min(T) <= y
<1>1. \E x \in T : \A y \in T : x <= y
  BY LeastNumber
<1> QED
  BY <1>1 DEF Min

\* compact
LEMMA CompactedIs ==
    ASSUME NEW s \in Readers
    PROVE  LET c == [s EXCEPT !.r = 0]
           IN  /\ c \in Readers /\ c.buf = s.buf /\ c.net = s.net /\ c.r = 0
               /\ c.over = s.over /\ c.cap = s.cap /\ c.whole = s.whole
               /\ Unread(c) = Unread(s)
               /\ Tidy(c) = Tidy(s)
<1> DEFINE c == [s EXCEPT !.r = 0]
<1>1. /\ s \in RawReaders /\ s.r \in Nat /\ Len(s.buf) \in Nat /\ s.over \in 0 .. 1
      /\ s.cap \in Nat /\ s.r + Len(s.buf) - s.over <= s.cap
      /\ s.over = 1 => s.buf = <<>>
  BY ReaderIs
<1>2. c \in RawReaders
  BY <1>1 DEF RawReaders
<1>3. c.buf = s.buf /\ c.net = s.net /\ c.r = 0 /\ c.over = s.over /\ c.cap = s.cap
  BY <1>1 DEF RawReaders
<1>4. c.whole = s.whole
  BY <1>1, Zenon DEF RawReaders
<1> HIDE DEF c
<1>5. c.r + Len(c.buf) - c.over <= c.cap
  BY <1>1, <1>3
<1>6. c \in Readers
  BY <1>1, <1>2, <1>3, <1>5, Zenon DEF Readers
<1>7. Unread(c) = Unread(s)
  BY <1>3 DEF Unread
<1>8. Tidy(c) = Tidy(s)
  BY <1>3, <1>4, Zenon DEF Tidy
<1> QED
  BY <1>3, <1>4, <1>6, <1>7, <1>8 DEF c

LEMMA compactIs ==
    ASSUME NEW s \in Readers, NEW o \in compact(s)
    PROVE  IF s.over = 0 THEN o = Res([s EXCEPT !.r = 0], <<>>, "ok")
                         ELSE o = Res(s, <<>>, "panic")
<1>1. s.over \in 0 .. 1
  BY ReaderIs
<1> QED
  BY <1>1 DEF compact

LEMMA ResIs ==
    ASSUME NEW s, NEW v, NEW e
    PROVE  Res(s, v, e).s = s /\ Res(s, v, e).v = v /\ Res(s, v, e).e = e
BY DEF Res

LEMMA ReadsIs ==
    ASSUME NEW s \in Readers, NEW least \in Nat, NEW room \in Int, NEW n \in Reads(s, least, room)
    PROVE  n \in Nat /\ least <= n /\ n <= room /\ n <= Len(s.net)
<1>1. Len(s.net) \in Int /\ Len(s.net) \in Nat
  BY ReaderIs
<1>2. Min({room, Len(s.net)}) = IF room <= Len(s.net) THEN room ELSE Len(s.net)
  BY <1>1, MinOfTwo
<1>3. n \in least .. Min({room, Len(s.net)})
  BY DEF Reads
<1> QED
  BY <1>1, <1>2, <1>3

\* The three ways in which fill may end.
LEMMA fillCases ==
    ASSUME NEW s \in Readers, s.over = 0, NEW o \in fill(s)
    PROVE  LET c == [s EXCEPT !.r = 0]
               room == c.cap - Len(c.buf)
           IN  \/ room <= 0 /\ o = Res([c EXCEPT !.whole = FALSE], <<>>, "ok")
               \/ room > 0 /\ c.net = <<>> /\ o = Res(c, <<>>, "EOF")
               \/ room > 0 /\ c.net # <<>> /\ \E n \in Reads(c, 1, room) : o = Res(Deliver(c, n), <<>>, "ok")
<1> DEFINE c == [s EXCEPT !.r = 0]
           room == c.cap - Len(c.buf)
           x == Res(c, <<>>, "ok")
<1>1. compact(s) = {x}
  BY DEF compact
<1>2. x.e = "ok" /\ x.s = c
  BY ResIs
<1>3. o \in IF x.s.cap - Len(x.s.buf) <= 0 THEN {Res([x.s EXCEPT !.whole = FALSE], <<>>, "ok")}
            ELSE IF x.s.net = <<>> THEN {Res(x.s, <<>>, "EOF")}
            ELSE {Res(Deliver(x.s, n), <<>>, "ok") : n \in Reads(x.s, 1, x.s.cap - Len(x.s.buf))}
  <2> HIDE DEF x, c
  <2> QED BY <1>1, <1>2, Zenon DEF fill, Then
<1>4. room \in Int
  BY CompactedIs, ReaderIs
<1> HIDE DEF x, c
<1>5. room <= 0 \/ (~(room <= 0) /\ room > 0)
  BY <1>4
<1> HIDE DEF room
<1>6. o \in IF room <= 0 THEN {Res([c EXCEPT !.whole = FALSE], <<>>, "ok")}
            ELSE IF c.net = <<>> THEN {Res(c, <<>>, "EOF")}
            ELSE {Res(Deliver(c, n), <<>>, "ok") : n \in Reads(c, 1, room)}
  BY <1>2, <1>3, Zenon DEF room
<1> QED
  BY <1>5, <1>6, Zenon DEF room, c

\* fill loses no byte; it only fails at the end of the input, or once r has run
\* past w.
LEMMA fillIs ==
    ASSUME NEW s \in Readers, s.over = 0, NEW o \in fill(s)
    PROVE  /\ o.s \in Readers /\ o.s.over = 0 /\ o.e \in {"ok", "EOF"}
           /\ Unread(o.s) = Unread(s)
           /\ o.s.whole => s.whole
           /\ o.e = "EOF" => s.net = <<>>
           /\ Tidy(s) /\ o.s.whole => Tidy(o.s)
           /\ o.s.whole /\ o.e = "ok" =>
                 \E n \in 1 .. Len(s.net) :
                    o.s.buf = s.buf \o SubSeq(s.net, 1, n) /\ s.net[n].end
<1> DEFINE c == [s EXCEPT !.r = 0]
           room == c.cap - Len(c.buf)
<1>1. /\ c \in Readers /\ c.buf = s.buf /\ c.net = s.net /\ c.r = 0
      /\ c.over = 0 /\ c.cap = s.cap /\ c.whole = s.whole
      /\ Unread(c) = Unread(s) /\ Tidy(c) = Tidy(s)
  BY CompactedIs
<1>2. \/ room <= 0 /\ o = Res([c EXCEPT !.whole = FALSE], <<>>, "ok")
      \/ room > 0 /\ c.net = <<>> /\ o = Res(c, <<>>, "EOF")
      \/ room > 0 /\ c.net # <<>> /\ \E n \in Reads(c, 1, room) : o = Res(Deliver(c, n), <<>>, "ok")
  BY fillCases
<1> HIDE DEF c
<1>3. c \in RawReaders /\ Len(c.buf) \in Nat /\ Len(c.net) \in Nat /\ c.cap \in Nat /\ room \in Int
  BY <1>1, ReaderIs
<1>4. CASE o = Res([c EXCEPT !.whole = FALSE], <<>>, "ok")
  <2> DEFINE d == [c EXCEPT !.whole = FALSE]
  <2>1. d \in RawReaders /\ d.buf = c.buf /\ d.net = c.net /\ d.r = c.r /\ d.over = c.over /\ d.cap = c.cap
    BY <1>3 DEF RawReaders
  <2>2. d.whole = FALSE
    BY <1>3, Zenon DEF RawReaders
  <2> HIDE DEF d
  <2>3. /\ c.r + Len(c.buf) - c.over <= c.cap
        /\ c.over = 1 => c.buf = <<>>
    BY <1>1, ReaderIs
  <2>4. d \in Readers
    BY <2>1, <2>3, Zenon DEF Readers
  <2>5. o.s = d /\ o.e = "ok"
    BY <1>4, ResIs DEF d
  <2>6. Unread(d) = Unread(s)
    BY <1>1, <2>1 DEF Unread
  <2> QED
    BY <1>1, <2>1, <2>2, <2>4, <2>5, <2>6
<1>5. CASE c.net = <<>> /\ o = Res(c, <<>>, "EOF")
  <2>1. o.s = c /\ o.e = "EOF"
    BY <1>5, ResIs
  <2> QED
    BY <1>1, <1>5, <2>1
<1>6. ASSUME room > 0, NEW n \in Reads(c, 1, room), o = Res(Deliver(c, n), <<>>, "ok")
      PROVE  /\ o.s \in Readers /\ o.s.over = 0 /\ o.e = "ok" /\ Unread(o.s) = Unread(s)
             /\ o.s.whole => s.whole
             /\ Tidy(s) /\ o.s.whole => Tidy(o.s)
             /\ o.s.whole => \E m \in 1 .. Len(s.net) :
                    o.s.buf = s.buf \o SubSeq(s.net, 1, m) /\ s.net[m].end
  <2> DEFINE d == Deliver(c, n)
  <2>1. n \in Nat /\ 1 <= n /\ n <= room /\ n <= Len(c.net)
    BY <1>1, <1>3, ReadsIs
  <2>2. n \in 0 .. Len(c.net) /\ c.r + Len(c.buf) + n <= c.cap /\ n \in 1 .. Len(c.net) /\ n > 0
    BY <1>1, <1>3, <2>1
  <2>3. /\ d \in Readers /\ d.buf = c.buf \o SubSeq(c.net, 1, n) /\ d.over = 0
        /\ Unread(d) = Unread(c)
        /\ d.whole => c.whole /\ (n > 0 => c.net[n].end)
        /\ Tidy(c) /\ d.whole => Tidy(d)
    BY <1>1, <2>2, DeliverIs
  <2> HIDE DEF d
  <2>4. o.s = d /\ o.e = "ok"
    BY <1>6, ResIs DEF d
  <2>5. d.whole => /\ n \in 1 .. Len(s.net)
                   /\ d.buf = s.buf \o SubSeq(s.net, 1, n) /\ s.net[n].end
    BY <1>1, <2>2, <2>3
  <2> QED
    BY <1>1, <2>3, <2>4, <2>5
<1> QED
  BY <1>2, <1>4, <1>5, <1>6

LEMMA fillPanics ==
    ASSUME NEW s \in Readers, s.over # 0, NEW o \in fill(s)
    PROVE  o.s = s /\ o.e = "panic"
<1> DEFINE x == Res(s, <<>>, "panic")
<1>1. compact(s) = {x}
  <2>1. s.over \in 0 .. 1
    BY ReaderIs
  <2>2. s.over > 0
    BY <2>1
  <2> QED BY <2>2 DEF compact
<1>2. x.e # "ok" /\ x.e = "panic" /\ x.s = s
  BY ResIs
<1> HIDE DEF x
<1>3. o = x
  BY <1>1, <1>2, Zenon DEF fill, Then
<1> QED
  BY <1>2, <1>3

\* require
LEMMA requireCases ==
    ASSUME NEW s \in Readers, NEW sz \in Nat, NEW o \in require(s, sz)
    PROVE  LET extra == sz - (Len(s.buf) - s.over)
               c == [s EXCEPT !.r = 0]
               w == Len(c.buf)
               g == [c EXCEPT !.cap = Max({c.cap, w + extra})]
           IN  \/ extra < 1 /\ o = Res(s, <<>>, "ok")
               \/ extra >= 1 /\ s.over # 0 /\ o = Res(s, <<>>, "panic")
               \/ extra >= 1 /\ s.over = 0 /\ Len(g.net) < extra
                    /\ o = Res(Deliver(g, Len(g.net)), <<>>, "EOF")
               \/ extra >= 1 /\ s.over = 0 /\ ~(Len(g.net) < extra)
                    /\ \E n \in Reads(g, extra, g.cap - w) : o = Res(Deliver(g, n), <<>>, "ok")
<1> DEFINE extra == sz - (Len(s.buf) - s.over)
           c == [s EXCEPT !.r = 0]
           G(x) == [x EXCEPT !.cap = Max({x.cap, Len(x.buf) + extra})]
           Body(q) == IF Len(G(q.s).net) < extra
                      THEN {Res(Deliver(G(q.s), Len(G(q.s).net)), <<>>, "EOF")}
                      ELSE {Res(Deliver(G(q.s), n), <<>>, "ok") :
                              n \in Reads(G(q.s), extra, G(q.s).cap - Len(q.s.buf))}
<1>0. s.over \in 0 .. 1 /\ Len(s.buf) \in Nat /\ extra \in Int
  BY ReaderIs
<1>1. extra < 1 \/ (~(extra < 1) /\ extra >= 1)
  BY <1>0
<1>2. o \in IF extra < 1 THEN {Res(s, <<>>, "ok")}
            ELSE UNION {IF q.e = "ok" THEN Body(q) ELSE {q} : q \in compact(s)}
  BY Zenon DEF require, Then, Buffered
<1> HIDE DEF extra
<1>3. CASE extra < 1
  BY <1>2, <1>3, Zenon DEF extra
<1>4. CASE ~(extra < 1)
  <2>1. PICK q \in compact(s) : o \in IF q.e = "ok" THEN Body(q) ELSE {q}
    BY <1>2, <1>4, Zenon
  <2>2. CASE s.over = 0
    <3>1. q = Res(c, <<>>, "ok")
      BY <2>2, compactIs
    <3>2. q.s = c /\ q.e = "ok"
      BY <3>1, ResIs
    <3>3. o \in Body(q)
      BY <2>1, <3>2, Zenon
    <3> HIDE DEF c, G
    <3>4. o \in IF Len(G(c).net) < extra
                THEN {Res(Deliver(G(c), Len(G(c).net)), <<>>, "EOF")}
                ELSE {Res(Deliver(G(c), n), <<>>, "ok") :
                        n \in Reads(G(c), extra, G(c).cap - Len(c.buf))}
      BY <3>2, <3>3, Zenon
    <3>5. \/ Len(G(c).net) < extra /\ o = Res(Deliver(G(c), Len(G(c).net)), <<>>, "EOF")
          \/ ~(Len(G(c).net) < extra) /\ \E n \in Reads(G(c), extra, G(c).cap - Len(c.buf)) :
                o = Res(Deliver(G(c), n), <<>>, "ok")
      BY <3>4, Zenon
    <3> QED
      BY <1>1, <1>4, <2>2, <3>5, Zenon DEF extra, G, c
  <2>3. CASE s.over # 0
    <3>1. q = Res(s, <<>>, "panic")
      BY <2>3, compactIs
    <3>2. q.e # "ok"
      BY <3>1, ResIs
    <3>3. o = q
      BY <2>1, <3>2, Zenon
    <3> QED
      BY <1>1, <1>4, <2>3, <3>1, <3>3, Zenon DEF extra
  <2> QED BY <2>2, <2>3
<1> QED
  BY <1>3, <1>4

\* A larger array under the same bytes.
LEMMA GrownIs ==
    ASSUME NEW s \in Readers, NEW k \in Int
    PROVE  LET g == [s EXCEPT !.cap = Max({s.cap, k})]
           IN  /\ g \in Readers /\ g.buf = s.buf /\ g.net = s.net /\ g.r = s.r
               /\ g.over = s.over /\ g.whole = s.whole
               /\ g.cap \in Nat /\ g.cap >= s.cap /\ g.cap >= k
               /\ Unread(g) = Unread(s)
               /\ Tidy(g) = Tidy(s)
<1> DEFINE m == Max({s.cap, k})
           g == [s EXCEPT !.cap = m]
<1>1. /\ s \in RawReaders /\ s.r \in Nat /\ Len(s.buf) \in Nat /\ s.over \in 0 .. 1
      /\ s.cap \in Nat /\ s.r + Len(s.buf) - s.over <= s.cap
      /\ s.over = 1 => s.buf = <<>>
  BY ReaderIs
<1>2. m \in Nat /\ m >= s.cap /\ m >= k
  <2>1. m = IF s.cap >= k THEN s.cap ELSE k
    BY <1>1, MaxOfTwo
  <2> HIDE DEF m
  <2> QED BY <1>1, <2>1
<1> HIDE DEF m
<1>3. g \in RawReaders
  BY <1>1, <1>2 DEF RawReaders
<1>4. g.buf = s.buf /\ g.net = s.net /\ g.r = s.r /\ g.over = s.over /\ g.cap = m
  BY <1>1 DEF RawReaders
<1>5. g.whole = s.whole
  BY <1>1, Zenon DEF RawReaders
<1> HIDE DEF g
<1>6. g.r + Len(g.buf) - g.over <= g.cap
  BY <1>1, <1>2, <1>4
<1>7. g \in Readers
  BY <1>1, <1>3, <1>4, <1>6, Zenon DEF Readers
<1>8. Unread(g) = Unread(s)
  BY <1>4 DEF Unread
<1>9. Tidy(g) = Tidy(s)
  BY <1>4, <1>5, Zenon DEF Tidy
<1> QED
  BY <1>2, <1>4, <1>5, <1>7, <1>8, <1>9 DEF g, m

LEMMA BelowSum ==
    ASSUME NEW a \in Nat, NEW b \in Nat, NEW x \in Int, NEW k \in Nat, b < x, k >= a + x
    PROVE  b \in 0 .. b /\ 0 + a + b <= k
OBVIOUS

LEMMA NotBelow ==
    ASSUME NEW a \in Nat, NEW b \in Nat, a < b
    PROVE  ~(b <= a)
OBVIOUS

LEMMA SumIsNat ==
    ASSUME NEW a \in Nat, NEW b \in Nat
    PROVE  a + b \in Nat
OBVIOUS

LEMMA BelowRest ==
    ASSUME NEW a \in Nat, NEW b \in Nat, NEW k \in Nat, b < k - a
    PROVE  a + b < k
OBVIOUS

\* require loses no byte, and only fails when there are too few of them, or once
\* r has run past w.
LEMMA requireIs ==
    ASSUME NEW s \in Readers, NEW sz \in Nat, sz >= 1, NEW o \in require(s, sz)
    PROVE  /\ o.s \in Readers /\ o.e \in {"ok", "EOF", "panic"}
           /\ o.s.whole => s.whole
           /\ o.e = "panic" => s.over = 1
           /\ s.over = 0 => Unread(o.s) = Unread(s) /\ o.s.over = 0 /\ o.e # "panic"
           /\ o.e = "ok" => s.over = 0 /\ sz <= Len(o.s.buf)
           /\ o.e = "EOF" => Len(Unread(s)) < sz
           /\ Tidy(s) /\ o.s.whole => Tidy(o.s)
<1> DEFINE extra == sz - (Len(s.buf) - s.over)
           c == [s EXCEPT !.r = 0]
           w == Len(c.buf)
           g == [c EXCEPT !.cap = Max({c.cap, w + extra})]
<1>1. \/ extra < 1 /\ o = Res(s, <<>>, "ok")
      \/ extra >= 1 /\ s.over # 0 /\ o = Res(s, <<>>, "panic")
      \/ extra >= 1 /\ s.over = 0 /\ Len(g.net) < extra
           /\ o = Res(Deliver(g, Len(g.net)), <<>>, "EOF")
      \/ extra >= 1 /\ s.over = 0 /\ ~(Len(g.net) < extra)
           /\ \E n \in Reads(g, extra, g.cap - w) : o = Res(Deliver(g, n), <<>>, "ok")
  BY requireCases
<1>2. /\ c \in Readers /\ c.buf = s.buf /\ c.net = s.net /\ c.r = 0
      /\ c.over = s.over /\ c.cap = s.cap /\ c.whole = s.whole
      /\ Unread(c) = Unread(s) /\ Tidy(c) = Tidy(s)
  BY CompactedIs
<1>3. s.over \in 0 .. 1 /\ Len(s.buf) \in Nat /\ Len(s.net) \in Nat /\ s.cap \in Nat
      /\ (s.over = 1 => s.buf = <<>>)
  BY ReaderIs
<1>4. Len(Unread(s)) = Len(s.buf) + Len(s.net)
  BY UnreadIs
<1>5. extra \in Int /\ w + extra \in Int
  BY <1>2, <1>3
<1> HIDE DEF c
<1>6. /\ g \in Readers /\ g.buf = s.buf /\ g.net = s.net /\ g.r = 0
      /\ g.over = s.over /\ g.whole = s.whole
      /\ g.cap \in Nat /\ g.cap >= w + extra
      /\ Unread(g) = Unread(s) /\ Tidy(g) = Tidy(s)
  BY <1>2, <1>5, GrownIs
<1> HIDE DEF g
<1>7. CASE extra < 1 /\ o = Res(s, <<>>, "ok")
  <2>1. o.s = s /\ o.e = "ok"
    BY <1>7, ResIs
  <2>2. s.over = 0 /\ sz <= Len(s.buf)
    <3>1. CASE s.over = 1
      <4>1. Len(s.buf) = 0
        BY <1>3, <3>1, EmptySeq
      <4> QED BY <1>7, <3>1, <4>1
    <3>2. CASE s.over = 0
      BY <1>3, <1>7, <3>2
    <3> QED BY <1>3, <3>1, <3>2
  <2> QED
    BY <2>1, <2>2
<1>8. CASE s.over # 0 /\ o = Res(s, <<>>, "panic")
  <2>1. o.s = s /\ o.e = "panic"
    BY <1>8, ResIs
  <2>2. s.over = 1
    BY <1>3, <1>8
  <2> QED
    BY <2>1, <2>2
<1>9. CASE extra >= 1 /\ s.over = 0 /\ Len(g.net) < extra /\ o = Res(Deliver(g, Len(g.net)), <<>>, "EOF")
  <2> DEFINE d == Deliver(g, Len(g.net))
  <2>1. Len(g.net) \in 0 .. Len(g.net) /\ g.r + Len(g.buf) + Len(g.net) <= g.cap
    <3>1. Len(g.net) = Len(s.net) /\ Len(g.buf) = Len(s.buf) /\ w = Len(s.buf)
      BY <1>2, <1>6
    <3>2. g.r = 0 /\ g.cap \in Nat /\ g.cap >= w + extra /\ Len(s.net) < extra
      BY <1>6, <1>9
    <3>3. Len(s.net) \in Nat /\ Len(s.buf) \in Nat /\ extra \in Int
      BY <1>3, <1>5
    <3>4. Len(s.net) \in 0 .. Len(s.net) /\ 0 + Len(s.buf) + Len(s.net) <= g.cap
      <4> HIDE DEF w, extra, d
      <4> QED BY <3>1, <3>2, <3>3, BelowSum
    <3> QED BY <3>1, <3>2, <3>4
  <2>2. /\ d \in Readers /\ d.over = 0 /\ Unread(d) = Unread(g)
        /\ d.whole => g.whole
        /\ Tidy(g) /\ d.whole => Tidy(d)
    BY <1>6, <1>9, <2>1, DeliverIs
  <2> HIDE DEF d
  <2>3. o.s = d /\ o.e = "EOF"
    BY <1>9, ResIs DEF d
  <2>4. Len(Unread(s)) < sz
    <3>1. Len(s.net) < extra /\ s.over = 0
      BY <1>6, <1>9
    <3>2. Len(s.net) \in Nat /\ Len(s.buf) \in Nat /\ extra \in Int
      BY <1>3, <1>5
    <3>3. extra = sz - Len(s.buf)
      BY <3>1, <3>2
    <3>4. Len(s.buf) + Len(s.net) < sz
      <4> HIDE DEF extra
      <4> QED BY <3>1, <3>2, <3>3, BelowRest
    <3> QED BY <1>4, <3>4
  <2> QED
    BY <1>6, <1>9, <2>2, <2>3, <2>4
<1>10. ASSUME extra >= 1, s.over = 0, ~(Len(g.net) < extra),
              NEW n \in Reads(g, extra, g.cap - w), o = Res(Deliver(g, n), <<>>, "ok")
       PROVE  /\ o.s \in Readers /\ o.s.over = 0 /\ o.e = "ok" /\ Unread(o.s) = Unread(s)
              /\ o.s.whole => s.whole
              /\ sz <= Len(o.s.buf)
              /\ Tidy(s) /\ o.s.whole => Tidy(o.s)
  <2> DEFINE d == Deliver(g, n)
  <2>0. extra \in Nat /\ g.cap - w \in Int
    BY <1>2, <1>3, <1>6, <1>10
  <2>1. n \in Nat /\ extra <= n /\ n <= g.cap - w /\ n <= Len(g.net)
    BY <1>6, <2>0, ReadsIs
  <2>2. n \in 0 .. Len(g.net) /\ g.r + Len(g.buf) + n <= g.cap
    BY <1>2, <1>3, <1>6, <2>1
  <2>3. /\ d \in Readers /\ d.over = 0 /\ Len(d.buf) = Len(g.buf) + n
        /\ Unread(d) = Unread(g)
        /\ d.whole => g.whole
        /\ Tidy(g) /\ d.whole => Tidy(d)
    BY <1>6, <1>10, <2>2, DeliverIs
  <2> HIDE DEF d
  <2>4. o.s = d /\ o.e = "ok"
    BY <1>10, ResIs DEF d
  <2>5. sz <= Len(d.buf)
    BY <1>3, <1>6, <1>10, <2>1, <2>3
  <2> QED
    BY <1>6, <2>3, <2>4, <2>5
<1> QED
  BY <1>1, <1>7, <1>8, <1>9, <1>10

\* Where a line ends.
LEMMA EndsIs ==
    ASSUME NEW s \in Readers, NEW off \in Nat, Ends(s, off) # {}
    PROVE  LET i == Min(Ends(s, off))
           IN  /\ i \in Nat /\ off + 1 <= i /\ i <= Len(s.buf) /\ s.buf[i].k = "r"
               /\ \A j \in off + 1 .. Len(s.buf) : s.buf[j].k = "r" => i <= j
<1>1. Len(s.buf) \in Nat
  BY ReaderIs
<1>2. Ends(s, off) \in SUBSET Nat
  BY <1>1 DEF Ends
<1>3. Min(Ends(s, off)) \in Ends(s, off) /\ \A y \in Ends(s, off) : Min(Ends(s, off)) <= y
  BY <1>2, MinOfSet
<1> DEFINE i == Min(Ends(s, off))
<1> HIDE DEF i
<1>4. i \in off + 1 .. Len(s.buf) /\ s.buf[i].k = "r"
  BY <1>3 DEF Ends, i
<1>5. \A j \in off + 1 .. Len(s.buf) : s.buf[j].k = "r" => i <= j
  BY <1>3 DEF Ends, i
<1> QED
  BY <1>1, <1>4, <1>5 DEF i

LEMMA LineToIs ==
    ASSUME NEW s \in Readers, NEW off \in Nat, Ends(s, off) # {}, NEW o \in LineTo(s, off)
    PROVE  /\ s.over = 0 /\ o.s = s /\ o.e \in {"ok", "panic"}
           /\ o.e = "ok" => /\ o.v \in Seq(ArgBytes) /\ Len(o.v) \in Nat /\ Len(o.v) >= 2
                            /\ off + Len(o.v) <= Len(s.buf) + 1
                            /\ s.r + off + Len(o.v) <= s.cap
<1> DEFINE i == Min(Ends(s, off))
           line == SubSeq(s.buf, off + 1, i)
<1>1. /\ i \in Nat /\ off + 1 <= i /\ i <= Len(s.buf)
  BY EndsIs
<1>2. /\ s.buf \in Seq(ArgBytes) /\ Len(s.buf) \in Nat /\ s.over \in 0 .. 1 /\ s.r \in Nat
      /\ s.cap \in Nat /\ s.r + Len(s.buf) - s.over <= s.cap
      /\ s.over = 1 => s.buf = <<>>
  BY ReaderIs
<1> DEFINE l == Len(s.buf)
<1> HIDE DEF i
<1>3. s.over = 0
  <2>1. CASE s.over = 1
    <3>1. Len(s.buf) = 0
      BY <1>2, <2>1, EmptySeq
    <3> QED BY <1>1, <3>1
  <2> QED BY <1>2, <2>1
<1>4. line \in Seq(ArgBytes) /\ Len(line) = i - off
  <2>1. off + 1 \in Int /\ i \in Int /\ \A j \in off + 1 .. i : s.buf[j] \in ArgBytes
    <3>1. \A j \in 1 .. l : s.buf[j] \in ArgBytes
      BY <1>2, ElementOfSeq
    <3> QED BY <1>1, <1>2, <3>1
  <2>2. /\ line \in Seq(ArgBytes)
        /\ Len(line) = IF off + 1 <= i THEN i - (off + 1) + 1 ELSE 0
    BY <2>1, SubSeqProperties
  <2> HIDE DEF line
  <2> QED BY <1>1, <2>2
<1>5. o \in IF i < Len(s.buf) THEN {Res(s, Append(line, s.buf[i + 1]), "ok")}
            ELSE IF s.r + i + 1 > s.cap THEN {Res(s, <<>>, "panic")}
            ELSE {Res(s, Append(line, b), "ok") : b \in {LF, Junk}}
  BY Zenon DEF LineTo, i
<1> HIDE DEF line
<1>6. ASSUME NEW b \in ArgBytes, o = Res(s, Append(line, b), "ok"), s.r + i + 1 <= s.cap
      PROVE  /\ o.s = s /\ o.e = "ok" /\ o.v \in Seq(ArgBytes) /\ Len(o.v) \in Nat
             /\ Len(o.v) >= 2 /\ off + Len(o.v) <= Len(s.buf) + 1
             /\ s.r + off + Len(o.v) <= s.cap
  <2>1. o.s = s /\ o.e = "ok" /\ o.v = Append(line, b)
    BY <1>6 DEF Res
  <2>2. o.v \in Seq(ArgBytes) /\ Len(o.v) = (i - off) + 1
    BY <1>4, <2>1, AppendProperties
  <2>3. Len(o.v) \in Nat /\ Len(o.v) >= 2 /\ off + Len(o.v) <= Len(s.buf) + 1 /\ s.r + off + Len(o.v) <= s.cap
    BY <1>1, <1>2, <1>6, <2>2, SMTT(30)
  <2> QED BY <2>1, <2>2, <2>3
<1>7. CASE i < Len(s.buf)
  <2>1. s.buf[i + 1] \in ArgBytes /\ s.r + i + 1 <= s.cap
    <3>1. i + 1 \in 1 .. Len(s.buf)
      BY <1>1, <1>2, <1>7
    <3>2. s.r + i + 1 <= s.cap
      BY <1>1, <1>2, <1>3, <1>7
    <3> QED BY <1>2, <3>1, <3>2, ElementOfSeq
  <2>2. o = Res(s, Append(line, s.buf[i + 1]), "ok")
    BY <1>5, <1>7, Zenon
  <2> QED BY <1>3, <1>6, <2>1, <2>2
<1>8. CASE ~(i < Len(s.buf)) /\ s.r + i + 1 > s.cap
  <2>1. o = Res(s, <<>>, "panic")
    BY <1>5, <1>8, Zenon
  <2>2. o.s = s /\ o.e = "panic"
    BY <2>1, ResIs
  <2> QED BY <1>3, <2>2
<1>9. CASE ~(i < Len(s.buf)) /\ ~(s.r + i + 1 > s.cap)
  <2>1. PICK b \in {LF, Junk} : o = Res(s, Append(line, b), "ok")
    BY <1>5, <1>9, Zenon
  <2>2. b \in ArgBytes
    BY <2>1, BytesAssumption
  <2>3. s.r + i + 1 <= s.cap
    BY <1>1, <1>2, <1>9
  <2> QED BY <1>3, <1>6, <2>1, <2>2, <2>3
<1> QED
  BY <1>7, <1>8, <1>9

Errors == {"ok", "EOF", "protocol", "toolong", "panic"}

LEMMA PeekLineCases ==
    ASSUME NEW s, NEW off, NEW o \in PeekLine(s, off)
    PROVE  \/ Ends(s, off) # {} /\ o \in LineTo(s, off)
           \/ /\ Ends(s, off) = {}
              /\ \E q \in fill(s) :
                    \/ q.e # "ok" /\ o = q
                    \/ q.e = "ok" /\ Ends(q.s, off) # {} /\ o \in LineTo(q.s, off)
                    \/ q.e = "ok" /\ Ends(q.s, off) = {} /\ o = Res(q.s, <<>>, "toolong")
<1>1. CASE Ends(s, off) # {}
  BY <1>1, Zenon DEF PeekLine
<1>2. CASE Ends(s, off) = {}
  <2>1. PICK q \in fill(s) :
           o \in IF q.e = "ok" THEN IF Ends(q.s, off) # {} THEN LineTo(q.s, off)
                                                           ELSE {Res(q.s, <<>>, "toolong")}
                 ELSE {q}
    BY <1>2, Zenon DEF PeekLine, Then
  <2> QED BY <1>2, <2>1, Zenon
<1> QED
  BY <1>1, <1>2

LEMMA PeekLineIs ==
    ASSUME NEW s \in Readers, NEW off \in Nat, NEW o \in PeekLine(s, off)
    PROVE  /\ o.s \in Readers /\ o.e \in Errors /\ o.e # "protocol"
           /\ o.s.whole => s.whole
           /\ o.e = "ok" => /\ o.s.over = 0
                            /\ o.v \in Seq(ArgBytes) /\ Len(o.v) \in Nat /\ Len(o.v) >= 2
                            /\ off + Len(o.v) <= Len(o.s.buf) + 1
                            /\ o.s.r + off + Len(o.v) <= o.s.cap
<1>1. \/ Ends(s, off) # {} /\ o \in LineTo(s, off)
      \/ /\ Ends(s, off) = {}
         /\ \E q \in fill(s) :
               \/ q.e # "ok" /\ o = q
               \/ q.e = "ok" /\ Ends(q.s, off) # {} /\ o \in LineTo(q.s, off)
               \/ q.e = "ok" /\ Ends(q.s, off) = {} /\ o = Res(q.s, <<>>, "toolong")
  BY PeekLineCases
<1>2. CASE Ends(s, off) # {} /\ o \in LineTo(s, off)
  BY <1>2, LineToIs DEF Errors
<1>3. ASSUME NEW q \in fill(s)
      PROVE  q.s \in Readers /\ (q.s.whole => s.whole) /\ q.e \in {"ok", "EOF", "panic"}
  <2>1. CASE s.over = 0
    BY <2>1, fillIs
  <2>2. CASE s.over # 0
    BY <2>2, fillPanics
  <2> QED BY <2>1, <2>2
<1>4. ASSUME NEW q \in fill(s), q.e # "ok" /\ o = q
      PROVE  o.s \in Readers /\ o.e \in {"EOF", "panic"} /\ (o.s.whole => s.whole)
  BY <1>3, <1>4
<1>5. ASSUME NEW q \in fill(s), q.e = "ok" /\ Ends(q.s, off) # {} /\ o \in LineTo(q.s, off)
      PROVE  /\ o.s \in Readers /\ o.e \in {"ok", "panic"} /\ (o.s.whole => s.whole)
             /\ o.e = "ok" => /\ o.s.over = 0
                              /\ o.v \in Seq(ArgBytes) /\ Len(o.v) \in Nat /\ Len(o.v) >= 2
                              /\ off + Len(o.v) <= Len(o.s.buf) + 1
                              /\ o.s.r + off + Len(o.v) <= o.s.cap
  <2>1. q.s \in Readers /\ (q.s.whole => s.whole)
    BY <1>3
  <2>2. /\ q.s.over = 0 /\ o.s = q.s /\ o.e \in {"ok", "panic"}
        /\ o.e = "ok" => /\ o.v \in Seq(ArgBytes) /\ Len(o.v) \in Nat /\ Len(o.v) >= 2
                         /\ off + Len(o.v) <= Len(q.s.buf) + 1
                         /\ q.s.r + off + Len(o.v) <= q.s.cap
    BY <1>5, <2>1, LineToIs
  <2> QED BY <2>1, <2>2
<1>6. ASSUME NEW q \in fill(s), o = Res(q.s, <<>>, "toolong")
      PROVE  o.s \in Readers /\ o.e = "toolong" /\ (o.s.whole => s.whole)
  <2>1. o.s = q.s /\ o.e = "toolong"
    BY <1>6, ResIs
  <2> QED BY <1>3, <2>1
<1>7. CASE \E q \in fill(s) :
            \/ q.e # "ok" /\ o = q
            \/ q.e = "ok" /\ Ends(q.s, off) # {} /\ o \in LineTo(q.s, off)
            \/ q.e = "ok" /\ Ends(q.s, off) = {} /\ o = Res(q.s, <<>>, "toolong")
  BY <1>4, <1>5, <1>6, <1>7 DEF Errors
<1> QED
  BY <1>1, <1>2, <1>7

\* b.r runs one byte past b.w when the byte after the CR has not been received.
LEMMA AdvancePast ==
    ASSUME NEW s \in Readers, s.over = 0, NEW n \in Nat, n = Len(s.buf) + 1, s.r + n <= s.cap
    PROVE  Advance(s, n) \in Readers /\ Advance(s, n).whole = s.whole
<1> DEFINE d == Advance(s, n)
           l == Len(s.buf)
           c == SubSeq(s.buf, n + 1, l)
           x == IF n > l THEN n - l ELSE 0
<1>1. /\ s \in RawReaders /\ l \in Nat /\ s.r \in Nat /\ s.cap \in Nat
  BY ReaderIs
<1>2. d = [s EXCEPT !.r = s.r + n, !.buf = c, !.over = s.over + x]
  BY Zenon DEF Advance
<1> HIDE DEF l, c, d
<1>3. c = <<>>
  <2>1. n + 1 \in Int /\ l \in Int /\ l < n + 1
    BY <1>1 DEF l
  <2> QED BY <2>1, SubSeqEmpty DEF c
<1>4. s.over + x = 1 /\ s.r + n \in Nat
  BY <1>1 DEF l
<1> HIDE DEF x
<1>5. d = [s EXCEPT !.r = s.r + n, !.buf = <<>>, !.over = 1]
  BY <1>2, <1>3, <1>4, Zenon
<1>6. d \in RawReaders
  <2>1. <<>> \in Seq(ArgBytes) /\ 1 \in 0 .. 1
    BY EmptySeq
  <2> QED BY <1>1, <1>4, <1>5, <2>1 DEF RawReaders
<1>7. d.r = s.r + n /\ d.buf = <<>> /\ d.over = 1 /\ d.cap = s.cap
  BY <1>1, <1>5 DEF RawReaders
<1>8. d.whole = s.whole
  BY <1>1, <1>5, Zenon DEF RawReaders
<1>9. d.r + Len(d.buf) - d.over <= d.cap
  <2>1. Len(d.buf) = 0
    BY <1>7, EmptySeq
  <2> QED BY <1>1, <1>7, <2>1
<1>10. d \in Readers
  BY <1>6, <1>7, <1>9, Zenon DEF Readers
<1> QED
  BY <1>8, <1>10 DEF d

LEMMA ReadLineCases ==
    ASSUME NEW s, NEW o \in ReadLine(s)
    PROVE  \E q \in PeekLine(s, 0) :
              \/ q.e = "ok" /\ o = Res(Advance(q.s, Len(q.v)), q.v, "ok")
              \/ q.e # "ok" /\ o = q
BY Zenon DEF ReadLine, Then

LEMMA ReadLineIs ==
    ASSUME NEW s \in Readers, NEW o \in ReadLine(s)
    PROVE  /\ o.s \in Readers /\ o.e \in Errors /\ o.e # "protocol"
           /\ o.s.whole => s.whole
           /\ o.e = "ok" => o.v \in Seq(ArgBytes) /\ Len(o.v) \in Nat /\ Len(o.v) >= 2
<1>1. PICK q \in PeekLine(s, 0) : \/ q.e = "ok" /\ o = Res(Advance(q.s, Len(q.v)), q.v, "ok")
                                  \/ q.e # "ok" /\ o = q
  BY ReadLineCases
<1>2. /\ q.s \in Readers /\ q.e \in Errors /\ q.e # "protocol"
      /\ q.s.whole => s.whole
      /\ q.e = "ok" => /\ q.s.over = 0
                       /\ q.v \in Seq(ArgBytes) /\ Len(q.v) \in Nat /\ Len(q.v) >= 2
                       /\ 0 + Len(q.v) <= Len(q.s.buf) + 1
                       /\ q.s.r + 0 + Len(q.v) <= q.s.cap
  BY PeekLineIs
<1>3. CASE q.e # "ok" /\ o = q
  BY <1>2, <1>3
<1>4. CASE q.e = "ok" /\ o = Res(Advance(q.s, Len(q.v)), q.v, "ok")
  <2>1. o.s = Advance(q.s, Len(q.v)) /\ o.v = q.v /\ o.e = "ok"
    BY <1>4 DEF Res
  <2>2. Len(q.s.buf) \in Nat /\ q.s.r \in Nat
    BY <1>2, ReaderIs
  <2>3. Advance(q.s, Len(q.v)) \in Readers /\ Advance(q.s, Len(q.v)).whole = q.s.whole
    <3>1. CASE Len(q.v) <= Len(q.s.buf)
      <4>1. Len(q.v) \in 0 .. Len(q.s.buf)
        BY <1>2, <1>4, <2>2, <3>1
      <4> QED BY <1>2, <1>4, <4>1, AdvanceIs
    <3>2. CASE ~(Len(q.v) <= Len(q.s.buf))
      <4>1. Len(q.v) = Len(q.s.buf) + 1 /\ q.s.r + Len(q.v) <= q.s.cap
        BY <1>2, <1>4, <2>2, <3>2
      <4> QED BY <1>2, <1>4, <4>1, AdvancePast
    <3> QED BY <3>1, <3>2
  <2> QED BY <1>2, <1>4, <2>1, <2>3 DEF Errors
<1> QED
  BY <1>1, <1>3, <1>4

LEMMA BytesTyped ==
    ASSUME NEW v \in Seq(ArgBytes), NEW i \in 1 .. Len(v)
    PROVE  v[i] \in ArgBytes /\ v[i].n \in Nat
<1>1. v[i] \in ArgBytes
  BY ElementOfSeq
<1> QED
  BY <1>1, BytesAssumption DEF Tokens

LEMMA ParseSizeIs ==
    ASSUME NEW q, q.v \in Seq(ArgBytes), Len(q.v) \in Nat, Len(q.v) >= 1, NEW prefix,
           NEW o \in ParseSize(q, prefix)
    PROVE  /\ o.s = q.s /\ o.e \in {"ok", "protocol"}
           /\ o.e = "ok" => Size(o) = q.v[1].n /\ Size(o) \in Nat
<1>1. \/ o = Res(q.s, SubSeq(q.v, 1, 1), "ok")
      \/ o = Res(q.s, <<>>, "protocol")
  BY Zenon DEF ParseSize
<1>2. CASE o = Res(q.s, SubSeq(q.v, 1, 1), "ok")
  <2>1. o.s = q.s /\ o.e = "ok" /\ o.v = SubSeq(q.v, 1, 1)
    BY <1>2 DEF Res
  <2>2. 1 \in 0 .. Len(q.v) /\ 1 \in 1 .. 1 /\ 1 \in 1 .. Len(q.v)
    OBVIOUS
  <2>3. o.v[1] = q.v[1]
    BY <2>1, <2>2, UptoIs
  <2> QED BY <2>1, <2>2, <2>3, BytesTyped DEF Size
<1>3. CASE o = Res(q.s, <<>>, "protocol")
  BY <1>3 DEF Res
<1> QED
  BY <1>1, <1>2, <1>3

LEMMA SizeLine ==
    ASSUME NEW s \in Readers, NEW q \in ReadLine(s), NEW prefix,
           NEW o \in IF q.e = "ok" THEN ParseSize(q, prefix) ELSE {q}
    PROVE  /\ o.s \in Readers /\ o.e \in Errors
           /\ o.s.whole => s.whole
           /\ o.e = "ok" => Size(o) \in Nat
<1>1. /\ q.s \in Readers /\ q.e \in Errors /\ q.e # "protocol"
      /\ q.s.whole => s.whole
      /\ q.e = "ok" => q.v \in Seq(ArgBytes) /\ Len(q.v) \in Nat /\ Len(q.v) >= 2
  BY ReadLineIs
<1>2. CASE q.e # "ok"
  BY <1>1, <1>2
<1>3. CASE q.e = "ok"
  <2>1. Len(q.v) >= 1
    BY <1>1, <1>3
  <2>2. o \in ParseSize(q, prefix)
    BY <1>3
  <2>3. o.s = q.s /\ o.e \in {"ok", "protocol"} /\ (o.e = "ok" => Size(o) \in Nat)
    BY <1>1, <1>3, <2>1, <2>2, ParseSizeIs
  <2> QED BY <1>1, <2>3 DEF Errors
<1> QED
  BY <1>2, <1>3

LEMMA ReadArrayLenCases ==
    ASSUME NEW s, NEW o \in ReadArrayLen(s)
    PROVE  \E q \in ReadLine(s) : o \in IF q.e = "ok" THEN ParseSize(q, "*") ELSE {q}
BY Zenon DEF ReadArrayLen, Then

LEMMA ReadBulkLenCases ==
    ASSUME NEW s, NEW o \in ReadBulkLen(s)
    PROVE  \E q \in ReadLine(s) : o \in IF q.e = "ok" THEN ParseSize(q, "$") ELSE {q}
BY Zenon DEF ReadBulkLen, Then

LEMMA ReadArrayLenIs ==
    ASSUME NEW s \in Readers, NEW o \in ReadArrayLen(s)
    PROVE  /\ o.s \in Readers /\ o.e \in Errors
           /\ o.s.whole => s.whole
           /\ o.e = "ok" => Size(o) \in Nat
BY ReadArrayLenCases, SizeLine

LEMMA ReadBulkLenIs ==
    ASSUME NEW s \in Readers, NEW o \in ReadBulkLen(s)
    PROVE  /\ o.s \in Readers /\ o.e \in Errors
           /\ o.s.whole => s.whole
           /\ o.e = "ok" => Size(o) \in Nat
BY ReadBulkLenCases, SizeLine

LEMMA ReadBulkCases ==
    ASSUME NEW s, NEW o \in ReadBulk(s)
    PROVE  \E l \in ReadBulkLen(s) :
              \/ l.e # "ok" /\ o = l
              \/ /\ l.e = "ok"
                 /\ \E q \in require(l.s, Size(l) + 2) :
                       \/ q.e # "ok" /\ o = q
                       \/ q.e = "ok" /\ o = Res(Advance(q.s, Size(l) + 2),
                                                SubSeq(q.s.buf, 1, Size(l)), "ok")
<1>1. PICK l \in ReadBulkLen(s) :
        o \in IF l.e = "ok"
              THEN UNION {IF q.e = "ok" THEN {Res(Advance(q.s, Size(l) + 2),
                                                  SubSeq(q.s.buf, 1, Size(l)), "ok")}
                                        ELSE {q} : q \in require(l.s, Size(l) + 2)}
              ELSE {l}
  BY Zenon DEF ReadBulk, Then
<1> QED
  BY <1>1, Zenon

LEMMA ReadBulkIs ==
    ASSUME NEW s \in Readers, NEW o \in ReadBulk(s)
    PROVE  /\ o.s \in Readers /\ o.e \in Errors
           /\ o.s.whole => s.whole
           /\ o.e = "ok" => o.v \in Seq(ArgBytes)
<1>1. PICK l \in ReadBulkLen(s) :
              \/ l.e # "ok" /\ o = l
              \/ /\ l.e = "ok"
                 /\ \E q \in require(l.s, Size(l) + 2) :
                       \/ q.e # "ok" /\ o = q
                       \/ q.e = "ok" /\ o = Res(Advance(q.s, Size(l) + 2),
                                                SubSeq(q.s.buf, 1, Size(l)), "ok")
  BY ReadBulkCases
<1>2. /\ l.s \in Readers /\ l.e \in Errors
      /\ l.s.whole => s.whole
      /\ l.e = "ok" => Size(l) \in Nat
  BY ReadBulkLenIs
<1>3. CASE l.e # "ok" /\ o = l
  BY <1>2, <1>3
<1>4. ASSUME l.e = "ok", NEW q \in require(l.s, Size(l) + 2)
      PROVE  /\ q.s \in Readers /\ q.e \in {"ok", "EOF", "panic"} /\ (q.s.whole => s.whole)
             /\ q.e = "ok" => q.s.over = 0 /\ Size(l) + 2 <= Len(q.s.buf)
  <2>1. Size(l) + 2 \in Nat /\ Size(l) + 2 >= 1
    BY <1>2, <1>4
  <2>2. /\ q.s \in Readers /\ q.e \in {"ok", "EOF", "panic"} /\ (q.s.whole => l.s.whole)
        /\ q.e = "ok" => l.s.over = 0 /\ Size(l) + 2 <= Len(q.s.buf)
        /\ l.s.over = 0 => q.s.over = 0
    BY <1>2, <1>4, <2>1, requireIs
  <2> QED BY <1>2, <2>2
<1>5. ASSUME l.e = "ok", NEW q \in require(l.s, Size(l) + 2), q.e # "ok" /\ o = q
      PROVE  o.s \in Readers /\ o.e \in {"EOF", "panic"} /\ (o.s.whole => s.whole)
  BY <1>4, <1>5
<1>6. ASSUME l.e = "ok", NEW q \in require(l.s, Size(l) + 2),
             q.e = "ok" /\ o = Res(Advance(q.s, Size(l) + 2), SubSeq(q.s.buf, 1, Size(l)), "ok")
      PROVE  o.s \in Readers /\ o.e = "ok" /\ (o.s.whole => s.whole) /\ o.v \in Seq(ArgBytes)
  <2>1. o.s = Advance(q.s, Size(l) + 2) /\ o.v = SubSeq(q.s.buf, 1, Size(l)) /\ o.e = "ok"
    BY <1>6 DEF Res
  <2>2. q.s.buf \in Seq(ArgBytes) /\ Len(q.s.buf) \in Nat
    BY <1>4, <1>6, ReaderIs
  <2>3. Size(l) + 2 \in 0 .. Len(q.s.buf) /\ Size(l) \in 0 .. Len(q.s.buf)
    BY <1>2, <1>4, <1>6, <2>2
  <2>4. Advance(q.s, Size(l) + 2) \in Readers /\ Advance(q.s, Size(l) + 2).whole = q.s.whole
    BY <1>4, <1>6, <2>3, AdvanceIs
  <2>5. SubSeq(q.s.buf, 1, Size(l)) \in Seq(ArgBytes)
    BY <2>2, <2>3, UptoIs
  <2> QED BY <1>4, <1>6, <2>1, <2>4, <2>5
<1> QED
  BY <1>1, <1>3, <1>5, <1>6 DEF Errors

LEMMA skipNCases ==
    ASSUME NEW s \in Readers, NEW sz \in Nat, NEW o \in skipN(s, sz)
    PROVE  LET extra == sz - (Len(s.buf) - s.over)
               empty == [s EXCEPT !.buf = <<>>, !.r = 0, !.over = 0]
           IN  \/ extra < 1 /\ o = Res(Advance(s, sz), <<>>, "ok")
               \/ extra >= 1 /\ Len(s.net) < extra /\ o = Res([empty EXCEPT !.net = <<>>], <<>>, "EOF")
               \/ extra >= 1 /\ ~(Len(s.net) < extra)
                    /\ o = Res([empty EXCEPT !.net = After(s.net, extra)], <<>>, "ok")
<1> DEFINE extra == sz - (Len(s.buf) - s.over)
           empty == [s EXCEPT !.buf = <<>>, !.r = 0, !.over = 0]
<1>0. s.over \in 0 .. 1 /\ Len(s.buf) \in Nat /\ extra \in Int
  BY ReaderIs
<1>1. extra < 1 \/ (~(extra < 1) /\ extra >= 1)
  BY <1>0
<1>2. empty.net = s.net
  <2>1. s \in RawReaders
    BY ReaderIs
  <2> QED BY <2>1 DEF RawReaders
<1>3. o \in IF extra < 1 THEN {Res(Advance(s, sz), <<>>, "ok")}
            ELSE IF Len(s.net) < extra
                 THEN {Res([empty EXCEPT !.net = <<>>], <<>>, "EOF")}
                 ELSE {Res([empty EXCEPT !.net = SubSeq(empty.net, extra + 1, Len(empty.net))], <<>>, "ok")}
  BY Zenon DEF skipN, Buffered
<1> HIDE DEF extra, empty
<1>4. \/ extra < 1 /\ o = Res(Advance(s, sz), <<>>, "ok")
      \/ ~(extra < 1) /\ Len(s.net) < extra /\ o = Res([empty EXCEPT !.net = <<>>], <<>>, "EOF")
      \/ ~(extra < 1) /\ ~(Len(s.net) < extra)
           /\ o = Res([empty EXCEPT !.net = SubSeq(s.net, extra + 1, Len(s.net))], <<>>, "ok")
  BY <1>2, <1>3, Zenon
<1> QED
  BY <1>1, <1>4, Zenon DEF After, extra, empty

LEMMA skipNIs ==
    ASSUME NEW s \in Readers, NEW sz \in Nat, NEW o \in skipN(s, sz)
    PROVE  /\ o.s \in Readers /\ o.e \in {"ok", "EOF"} /\ o.s.whole = s.whole
           /\ s.over = 0 /\ sz <= Len(Unread(s)) =>
                 /\ o.e = "ok" /\ Unread(o.s) = After(Unread(s), sz)
                 /\ Tidy(s) => Tidy(o.s)
<1> DEFINE extra == sz - (Len(s.buf) - s.over)
           empty == [s EXCEPT !.buf = <<>>, !.r = 0, !.over = 0]
<1>0. /\ s \in RawReaders /\ s.over \in 0 .. 1 /\ Len(s.buf) \in Nat /\ extra \in Int
      /\ s.net \in Seq(ArgBytes) /\ s.buf \in Seq(ArgBytes) /\ Len(s.net) \in Nat
      /\ s.cap \in Nat
      /\ s.over = 1 => s.buf = <<>>
  BY ReaderIs
<1>1. \/ extra < 1 /\ o = Res(Advance(s, sz), <<>>, "ok")
      \/ extra >= 1 /\ Len(s.net) < extra /\ o = Res([empty EXCEPT !.net = <<>>], <<>>, "EOF")
      \/ extra >= 1 /\ ~(Len(s.net) < extra)
           /\ o = Res([empty EXCEPT !.net = After(s.net, extra)], <<>>, "ok")
  BY skipNCases
<1>u. Len(Unread(s)) = Len(s.buf) + Len(s.net)
  BY UnreadIs
<1>2. ASSUME NEW t \in Seq(ArgBytes)
      PROVE  LET d == [empty EXCEPT !.net = t]
             IN  /\ d \in Readers /\ d.net = t /\ d.buf = <<>> /\ d.over = 0 /\ d.whole = s.whole
                 /\ Unread(d) = t
                 /\ Tidy(s) => Tidy(d)
  <2> DEFINE d == [empty EXCEPT !.net = t]
  <2>1. d = [s EXCEPT !.buf = <<>>, !.r = 0, !.over = 0, !.net = t]
    OBVIOUS
  <2> HIDE DEF d
  <2>2. <<>> \in Seq(ArgBytes) /\ Len(<<>>) = 0
    BY EmptySeq
  <2>3. d \in RawReaders
    <3>1. 0 \in Nat /\ 0 \in 0 .. 1
      OBVIOUS
    <3>2. [s EXCEPT !.buf = <<>>, !.r = 0] \in RawReaders
      BY <1>0, <2>2, <3>1 DEF RawReaders
    <3>3. [[s EXCEPT !.buf = <<>>, !.r = 0] EXCEPT !.over = 0, !.net = t] \in RawReaders
      BY <3>1, <3>2 DEF RawReaders
    <3>4. d = [[s EXCEPT !.buf = <<>>, !.r = 0] EXCEPT !.over = 0, !.net = t]
      BY <2>1
    <3> QED BY <3>3, <3>4
  <2>4. d.net = t /\ d.buf = <<>> /\ d.over = 0 /\ d.r = 0 /\ d.cap = s.cap
    BY <1>0, <2>1 DEF RawReaders
  <2>5. d.whole = s.whole
    BY <1>0, <2>1, Zenon DEF RawReaders
  <2>6. d.r + Len(d.buf) - d.over <= d.cap
    BY <1>0, <2>2, <2>4
  <2>7. d \in Readers
    BY <2>3, <2>4, <2>6, Zenon DEF Readers
  <2>8. Unread(d) = t
    BY <2>4, ConcatEmptySeq DEF Unread
  <2>9. Tidy(s) => Tidy(d)
    BY <2>4, <2>5, Zenon DEF Tidy
  <2> QED BY <2>4, <2>5, <2>7, <2>8, <2>9 DEF d
<1> HIDE DEF empty
<1>3. CASE extra < 1 /\ o = Res(Advance(s, sz), <<>>, "ok")
  <2>1. o.s = Advance(s, sz) /\ o.e = "ok"
    BY <1>3, ResIs
  <2>2. CASE s.over = 0
    <3>1. sz \in 0 .. Len(s.buf)
      BY <1>0, <1>3, <2>2
    <3>2. /\ Advance(s, sz) \in Readers /\ Advance(s, sz).whole = s.whole
          /\ Unread(Advance(s, sz)) = After(Unread(s), sz)
          /\ Tidy(s) => Tidy(Advance(s, sz))
      BY <2>2, <3>1, AdvanceIs
    <3> QED BY <2>1, <3>2
  <2>3. CASE s.over # 0
    <3>1. s.over = 1 /\ Len(s.buf) = 0
      BY <1>0, <2>3, EmptySeq
    <3> QED BY <1>3, <3>1
  <2> QED BY <2>2, <2>3
<1>4. CASE extra >= 1 /\ Len(s.net) < extra /\ o = Res([empty EXCEPT !.net = <<>>], <<>>, "EOF")
  <2>1. o.s = [empty EXCEPT !.net = <<>>] /\ o.e = "EOF"
    BY <1>4, ResIs
  <2>2. o.s \in Readers /\ o.s.whole = s.whole
    BY <1>2, <2>1, EmptySeq, ZenonT(60)
  <2>3. s.over = 0 => ~(sz <= Len(Unread(s)))
    <3>1. ASSUME s.over = 0 PROVE Len(s.buf) + Len(s.net) < sz
      <4>1. Len(s.net) < sz - Len(s.buf)
        BY <1>0, <1>4, <3>1
      <4> QED BY <1>0, <4>1, BelowRest
    <3>2. Len(s.buf) + Len(s.net) \in Nat
      BY <1>0, SumIsNat
    <3>3. Len(s.buf) + Len(s.net) < sz => ~(sz <= Len(s.buf) + Len(s.net))
      BY <3>2, NotBelow
    <3> QED BY <1>u, <3>1, <3>3
  <2> QED BY <2>1, <2>2, <2>3
<1>5. CASE extra >= 1 /\ ~(Len(s.net) < extra) /\ o = Res([empty EXCEPT !.net = After(s.net, extra)], <<>>, "ok")
  <2> DEFINE d == [empty EXCEPT !.net = After(s.net, extra)]
  <2>1. o.s = d /\ o.e = "ok"
    BY <1>5, ResIs
  <2>2. extra \in 0 .. Len(s.net)
    BY <1>0, <1>5
  <2>3. After(s.net, extra) \in Seq(ArgBytes)
    BY <1>0, <2>2, AfterIs
  <2>4. /\ d \in Readers /\ d.whole = s.whole /\ Unread(d) = After(s.net, extra)
        /\ Tidy(s) => Tidy(d)
    BY <1>2, <2>3
  <2>5. ASSUME s.over = 0 PROVE After(s.net, extra) = After(Unread(s), sz)
    <3>1. Len(s.buf) \in 0 .. Len(s.buf) + Len(s.net) /\ extra \in 0 .. (Len(s.buf) + Len(s.net)) - Len(s.buf)
          /\ Len(s.buf) + extra = sz
      <4>1. extra = sz - Len(s.buf)
        BY <1>0, <2>5
      <4> DEFINE l == Len(s.buf)
                 m == Len(s.net)
      <4>2. l \in Nat /\ m \in Nat /\ extra \in 0 .. m /\ extra = sz - l
        BY <1>0, <2>2, <4>1
      <4> HIDE DEF extra, l, m
      <4>3. l \in 0 .. l + m /\ extra \in 0 .. (l + m) - l /\ l + extra = sz
        BY <4>2
      <4> QED BY <4>3 DEF l, m
    <3>2. After(Unread(s), Len(s.buf)) = s.net
      BY <1>0, AfterFirst DEF Unread
    <3>3. Unread(s) \in Seq(ArgBytes)
      BY UnreadIs
    <3> HIDE DEF extra
    <3>4. After(After(Unread(s), Len(s.buf)), extra) = After(Unread(s), Len(s.buf) + extra)
      <4>1. Len(s.buf) \in 0 .. Len(Unread(s)) /\ extra \in 0 .. Len(Unread(s)) - Len(s.buf)
        BY <1>u, <3>1
      <4> QED BY <3>3, <4>1, AfterAfter
    <3> QED BY <3>1, <3>2, <3>4
  <2> QED BY <2>1, <2>4, <2>5
<1> QED
  BY <1>1, <1>3, <1>4, <1>5

LEMMA SkipBulkCases ==
    ASSUME NEW s, NEW o \in SkipBulk(s)
    PROVE  \E l \in ReadBulkLen(s) :
              \/ l.e # "ok" /\ o = l
              \/ l.e = "ok" /\ o \in skipN(l.s, Size(l) + 2)
<1>1. PICK l \in ReadBulkLen(s) : o \in IF l.e = "ok" THEN skipN(l.s, Size(l) + 2) ELSE {l}
  BY Zenon DEF SkipBulk, Then
<1> QED
  BY <1>1, Zenon

LEMMA SkipBulkIs ==
    ASSUME NEW s \in Readers, NEW o \in SkipBulk(s)
    PROVE  o.s \in Readers /\ o.e \in Errors /\ (o.s.whole => s.whole)
<1>1. PICK l \in ReadBulkLen(s) : \/ l.e # "ok" /\ o = l
                                  \/ l.e = "ok" /\ o \in skipN(l.s, Size(l) + 2)
  BY SkipBulkCases
<1>2. /\ l.s \in Readers /\ l.e \in Errors
      /\ l.s.whole => s.whole
      /\ l.e = "ok" => Size(l) \in Nat
  BY ReadBulkLenIs
<1>3. CASE l.e # "ok" /\ o = l
  BY <1>2, <1>3
<1>4. CASE l.e = "ok" /\ o \in skipN(l.s, Size(l) + 2)
  <2>1. Size(l) + 2 \in Nat
    BY <1>2, <1>4
  <2>2. o.s \in Readers /\ o.e \in {"ok", "EOF"} /\ o.s.whole = l.s.whole
    BY <1>2, <1>4, <2>1, skipNIs
  <2> QED BY <1>2, <2>2 DEF Errors
<1> QED
  BY <1>1, <1>3, <1>4

LEMMA PeekByteIs ==
    ASSUME NEW s \in Readers, NEW o \in PeekByte(s)
    PROVE  /\ o.s \in Readers /\ o.e \in {"ok", "EOF", "panic"}
           /\ o.s.whole => s.whole
           /\ s.over = 0 => Unread(o.s) = Unread(s) /\ o.s.over = 0 /\ o.e # "panic"
           /\ o.e = "ok" => /\ s.over = 0 /\ o.v \in Seq(ArgBytes) /\ Len(o.v) = 1
                            /\ 1 <= Len(Unread(s)) /\ o.v[1] = Unread(s)[1]
           /\ o.e = "EOF" => Len(Unread(s)) < 1
           /\ Tidy(s) /\ o.s.whole => Tidy(o.s)
<1>1. PICK q \in require(s, 1) : o \in IF q.e = "ok" THEN {Res(q.s, SubSeq(q.s.buf, 1, 1), "ok")} ELSE {q}
  BY Zenon DEF PeekByte, Then
<1>2. /\ q.s \in Readers /\ q.e \in {"ok", "EOF", "panic"}
      /\ q.s.whole => s.whole
      /\ s.over = 0 => Unread(q.s) = Unread(s) /\ q.s.over = 0 /\ q.e # "panic"
      /\ q.e = "ok" => s.over = 0 /\ 1 <= Len(q.s.buf)
      /\ q.e = "EOF" => Len(Unread(s)) < 1
      /\ Tidy(s) /\ q.s.whole => Tidy(q.s)
  BY requireIs
<1>3. CASE q.e # "ok"
  BY <1>1, <1>2, <1>3
<1>4. CASE q.e = "ok"
  <2>1. o = Res(q.s, SubSeq(q.s.buf, 1, 1), "ok")
    BY <1>1, <1>4
  <2>2. o.s = q.s /\ o.e = "ok" /\ o.v = SubSeq(q.s.buf, 1, 1)
    BY <2>1 DEF Res
  <2>3. q.s.buf \in Seq(ArgBytes) /\ Len(q.s.buf) \in Nat /\ Len(q.s.net) \in Nat
    BY <1>2, ReaderIs
  <2>4. 1 \in 0 .. Len(q.s.buf) /\ 1 \in 1 .. 1 /\ 1 \in 1 .. Len(q.s.buf)
    BY <1>2, <1>4, <2>3
  <2>5. o.v \in Seq(ArgBytes) /\ Len(o.v) = 1 /\ o.v[1] = q.s.buf[1]
    BY <2>2, <2>3, <2>4, UptoIs
  <2>6. Len(Unread(q.s)) = Len(q.s.buf) + Len(q.s.net) /\ Unread(q.s)[1] = q.s.buf[1]
    BY <1>2, <2>4, UnreadIs
  <2>7. 1 <= Len(q.s.buf) + Len(q.s.net)
    <3> DEFINE a == Len(q.s.buf)
               b == Len(q.s.net)
    <3>1. a \in Nat /\ b \in Nat /\ 1 <= a
      BY <1>2, <1>4, <2>3
    <3> HIDE DEF a, b
    <3>2. 1 <= a + b
      BY <3>1
    <3> QED BY <3>2 DEF a, b
  <2> QED BY <1>2, <1>4, <2>2, <2>5, <2>6, <2>7
<1> QED
  BY <1>3, <1>4

LEMMA PeekNIs ==
    ASSUME NEW s \in Readers, NEW off \in Nat, off >= 1, NEW n \in Nat, NEW o \in PeekN(s, off, n)
    PROVE  /\ o.s \in Readers /\ o.e \in {"ok", "EOF", "panic"}
           /\ o.s.whole => s.whole
           /\ s.over = 0 => Unread(o.s) = Unread(s) /\ o.s.over = 0 /\ o.e # "panic"
           /\ o.e = "ok" => /\ o.v \in Seq(ArgBytes) /\ Len(o.v) = n
                            /\ \A j \in 1 .. n : o.v[j] = Unread(s)[off + j]
           /\ o.e = "EOF" => Len(Unread(s)) < off + n
           /\ Tidy(s) /\ o.s.whole => Tidy(o.s)
<1>1. PICK q \in require(s, off + n) :
         o \in IF q.e = "ok" THEN {Res(q.s, SubSeq(q.s.buf, off + 1, off + n), "ok")} ELSE {q}
  BY Zenon DEF PeekN, Then
<1>0. off + n \in Nat /\ off + n >= 1
  OBVIOUS
<1>2. /\ q.s \in Readers /\ q.e \in {"ok", "EOF", "panic"}
      /\ q.s.whole => s.whole
      /\ s.over = 0 => Unread(q.s) = Unread(s) /\ q.s.over = 0 /\ q.e # "panic"
      /\ q.e = "ok" => s.over = 0 /\ off + n <= Len(q.s.buf)
      /\ q.e = "EOF" => Len(Unread(s)) < off + n
      /\ Tidy(s) /\ q.s.whole => Tidy(q.s)
  BY <1>0, requireIs
<1>3. CASE q.e # "ok"
  BY <1>1, <1>2, <1>3
<1>4. CASE q.e = "ok"
  <2>1. o = Res(q.s, SubSeq(q.s.buf, off + 1, off + n), "ok")
    BY <1>1, <1>4
  <2>2. o.s = q.s /\ o.e = "ok" /\ o.v = SubSeq(q.s.buf, off + 1, off + n)
    BY <2>1 DEF Res
  <2> DEFINE b == q.s.buf
             l == Len(b)
  <2>3. b \in Seq(ArgBytes) /\ l \in Nat /\ off + n <= l
    BY <1>2, <1>4, ReaderIs
  <2>4. \A j \in 1 .. l : b[j] \in ArgBytes
    BY <2>3, ElementOfSeq
  <2>5. \A j \in 1 .. l : Unread(q.s)[j] = b[j]
    BY <1>2, UnreadIs
  <2>6. o.v = SubSeq(b, off + 1, off + n) /\ Unread(q.s) = Unread(s)
    BY <1>2, <1>4, <2>2
  <2> HIDE DEF b, l
  <2>7. off + 1 \in Int /\ off + n \in Int /\ \A j \in off + 1 .. off + n : b[j] \in ArgBytes
    BY <2>3, <2>4
  <2>8. /\ o.v \in Seq(ArgBytes)
        /\ Len(o.v) = IF off + 1 <= off + n THEN off + n - (off + 1) + 1 ELSE 0
        /\ \A j \in 1 .. off + n - (off + 1) + 1 : o.v[j] = b[off + 1 + j - 1]
    BY <2>6, <2>7, SubSeqProperties
  <2>9. Len(o.v) = n
    BY <2>8
  <2>10. ASSUME NEW j \in 1 .. n PROVE o.v[j] = Unread(s)[off + j]
    <3>1. j \in 1 .. off + n - (off + 1) + 1 /\ off + 1 + j - 1 = off + j /\ off + j \in 1 .. l
      BY <2>3
    <3> QED BY <2>5, <2>6, <2>8, <3>1
  <2> QED BY <1>2, <1>4, <2>2, <2>8, <2>9, <2>10
<1> QED
  BY <1>3, <1>4

LEMMA bulkBytesCases ==
    ASSUME NEW s \in Readers, NEW m \in Nat, NEW o \in bulkBytes(s, m)
    PROVE  \/ s.over = 0 /\ Len(s.buf) = 0 /\ s.net = <<>> /\ o = Res(s, <<>>, "EOF")
           \/ s.over = 0 /\ Len(s.buf) = 0 /\ s.net # <<>>
                /\ \E k \in Reads(s, 1, m) :
                      o = Res([s EXCEPT !.net = After(s.net, k)], SubSeq(s.net, 1, k), "ok")
           \/ s.over = 1 /\ o = Res(s, <<>>, "panic")
           \/ s.over = 0 /\ Len(s.buf) # 0
                /\ LET k == Min({m, Len(s.buf)})
                   IN  o = Res(Advance(s, k), SubSeq(s.buf, 1, k), "ok")
<1>1. /\ s.over \in 0 .. 1 /\ Len(s.buf) \in Nat /\ (s.over = 1 => s.buf = <<>>)
  BY ReaderIs
<1>2. o \in IF Len(s.buf) - s.over = 0
            THEN IF s.net = <<>> THEN {Res(s, <<>>, "EOF")}
                 ELSE {Res([s EXCEPT !.net = SubSeq(s.net, k + 1, Len(s.net))],
                           SubSeq(s.net, 1, k), "ok") : k \in Reads(s, 1, m)}
            ELSE IF s.over > 0 THEN {Res(s, <<>>, "panic")}
            ELSE LET k == Min({m, Len(s.buf)})
                 IN  {Res(Advance(s, k), SubSeq(s.buf, 1, k), "ok")}
  BY Zenon DEF bulkBytes, Buffered
<1>3. CASE s.over = 0 /\ Len(s.buf) = 0
  <2>1. Len(s.buf) - s.over = 0
    BY <1>3
  <2> QED BY <1>2, <1>3, <2>1, Zenon DEF After
<1>4. CASE s.over = 1
  <2>1. Len(s.buf) = 0
    BY <1>1, <1>4, EmptySeq
  <2>2. Len(s.buf) - s.over # 0 /\ s.over > 0
    BY <1>4, <2>1
  <2> QED BY <1>2, <1>4, <2>2, Zenon
<1>5. CASE s.over = 0 /\ Len(s.buf) # 0
  <2>1. Len(s.buf) - s.over # 0 /\ ~(s.over > 0)
    BY <1>1, <1>5
  <2> QED BY <1>2, <1>5, <2>1, Zenon
<1> QED
  BY <1>1, <1>3, <1>4, <1>5

\* A bulkReader that gets bytes gets the next ones.
LEMMA bulkBytesIs ==
    ASSUME NEW s \in Readers, NEW m \in Nat, m >= 1, NEW o \in bulkBytes(s, m)
    PROVE  /\ o.s \in Readers /\ o.e \in {"ok", "EOF", "panic"} /\ o.s.whole = s.whole
           /\ o.v \in Seq(ArgBytes) /\ Len(o.v) <= m
           /\ s.over = 0 => o.e # "panic"
           /\ s.over = 0 /\ Len(Unread(s)) >= 1 => o.e = "ok"
           /\ o.e = "ok" =>
                 /\ Len(o.v) >= 1 /\ Len(o.v) <= Len(Unread(s))
                 /\ o.v = SubSeq(Unread(s), 1, Len(o.v))
                 /\ Unread(o.s) = After(Unread(s), Len(o.v))
                 /\ Tidy(s) => Tidy(o.s)
<1>0. /\ s \in RawReaders /\ s.over \in 0 .. 1 /\ Len(s.buf) \in Nat
      /\ s.net \in Seq(ArgBytes) /\ s.buf \in Seq(ArgBytes) /\ Len(s.net) \in Nat
      /\ s.r + Len(s.buf) - s.over <= s.cap
  BY ReaderIs
<1>u. /\ Unread(s) \in Seq(ArgBytes) /\ Len(Unread(s)) = Len(s.buf) + Len(s.net)
      /\ \A i \in 1 .. Len(s.buf) : Unread(s)[i] = s.buf[i]
  BY UnreadIs
<1>1. \/ s.over = 0 /\ Len(s.buf) = 0 /\ s.net = <<>> /\ o = Res(s, <<>>, "EOF")
      \/ s.over = 0 /\ Len(s.buf) = 0 /\ s.net # <<>>
           /\ \E k \in Reads(s, 1, m) :
                 o = Res([s EXCEPT !.net = After(s.net, k)], SubSeq(s.net, 1, k), "ok")
      \/ s.over = 1 /\ o = Res(s, <<>>, "panic")
      \/ s.over = 0 /\ Len(s.buf) # 0
           /\ LET k == Min({m, Len(s.buf)})
              IN  o = Res(Advance(s, k), SubSeq(s.buf, 1, k), "ok")
  BY bulkBytesCases
<1>e. <<>> \in Seq(ArgBytes) /\ Len(<<>>) = 0 /\ Len(<<>>) <= m
  BY EmptySeq
<1>2. CASE s.over = 0 /\ Len(s.buf) = 0 /\ s.net = <<>> /\ o = Res(s, <<>>, "EOF")
  <2>1. o.s = s /\ o.v = <<>> /\ o.e = "EOF"
    BY <1>2 DEF Res
  <2>2. ~(Len(Unread(s)) >= 1)
    <3>1. Len(s.net) = 0
      BY <1>2, EmptySeq
    <3>2. Len(Unread(s)) = 0
      BY <1>u, <1>2, <3>1
    <3> QED BY <3>2
  <2> QED BY <1>2, <1>e, <2>1, <2>2
<1>3. CASE s.over = 1 /\ o = Res(s, <<>>, "panic")
  <2>1. o.s = s /\ o.v = <<>> /\ o.e = "panic"
    BY <1>3 DEF Res
  <2>2. s.over # 0 /\ o.e # "ok"
    BY <1>3, <2>1
  <2>3. o.v \in Seq(ArgBytes) /\ Len(o.v) <= m
    BY <1>e, <2>1
  <2> QED BY <2>1, <2>2, <2>3
<1>4. ASSUME s.over = 0, Len(s.buf) = 0, NEW k \in Reads(s, 1, m),
             o = Res([s EXCEPT !.net = After(s.net, k)], SubSeq(s.net, 1, k), "ok")
      PROVE  /\ o.s \in Readers /\ o.e = "ok" /\ o.s.whole = s.whole
             /\ o.v \in Seq(ArgBytes) /\ Len(o.v) <= m
             /\ Len(o.v) >= 1 /\ Len(o.v) <= Len(Unread(s))
             /\ o.v = SubSeq(Unread(s), 1, Len(o.v))
             /\ Unread(o.s) = After(Unread(s), Len(o.v))
             /\ Tidy(s) => Tidy(o.s)
  <2> DEFINE d == [s EXCEPT !.net = After(s.net, k)]
  <2>1. o.s = d /\ o.v = SubSeq(s.net, 1, k) /\ o.e = "ok"
    BY <1>4 DEF Res
  <2>2. k \in Nat /\ 1 <= k /\ k <= m /\ k <= Len(s.net)
    BY ReadsIs
  <2>3. k \in 0 .. Len(s.net)
    BY <1>0, <2>2
  <2>4. After(s.net, k) \in Seq(ArgBytes)
    BY <1>0, <2>3, AfterIs
  <2>5. SubSeq(s.net, 1, k) \in Seq(ArgBytes) /\ Len(SubSeq(s.net, 1, k)) = k
    BY <1>0, <2>3, UptoIs
  <2>6. s.buf = <<>> /\ Unread(s) = s.net
    <3>1. s.buf = <<>>
      BY <1>0, <1>4, EmptySeq
    <3> QED BY <1>0, <3>1, ConcatEmptySeq DEF Unread
  <2>7. d \in RawReaders
    BY <1>0, <2>4 DEF RawReaders
  <2>8. d.net = After(s.net, k) /\ d.buf = s.buf /\ d.over = s.over /\ d.r = s.r /\ d.cap = s.cap
    BY <1>0 DEF RawReaders
  <2>9. d.whole = s.whole
    BY <1>0, Zenon DEF RawReaders
  <2> HIDE DEF d
  <2>10. d \in Readers
    BY <1>0, <1>4, <2>6, <2>7, <2>8, Zenon DEF Readers
  <2>11. Unread(d) = After(s.net, k)
    BY <2>4, <2>6, <2>8, ConcatEmptySeq DEF Unread
  <2>12. Tidy(s) => Tidy(d)
    BY <2>8, <2>9, Zenon DEF Tidy
  <2>13. Len(o.v) = k
    BY <2>1, <2>5
  <2> QED BY <2>1, <2>2, <2>5, <2>6, <2>9, <2>10, <2>11, <2>12, <2>13
<1>5. CASE s.over = 0 /\ Len(s.buf) # 0
           /\ LET k == Min({m, Len(s.buf)})
              IN  o = Res(Advance(s, k), SubSeq(s.buf, 1, k), "ok")
  <2> DEFINE k == Min({m, Len(s.buf)})
             l == Len(s.buf)
  <2>1. o.s = Advance(s, k) /\ o.v = SubSeq(s.buf, 1, k) /\ o.e = "ok"
    BY <1>5 DEF Res
  <2>2. k = IF m <= l THEN m ELSE l
    BY <1>0, MinOfTwo
  <2> HIDE DEF k
  <2>3. k \in 0 .. Len(s.buf) /\ k <= m /\ k >= 1
    BY <1>0, <1>5, <2>2
  <2>4. SubSeq(s.buf, 1, k) \in Seq(ArgBytes) /\ Len(SubSeq(s.buf, 1, k)) = k
        /\ \A i \in 1 .. k : SubSeq(s.buf, 1, k)[i] = s.buf[i]
    BY <1>0, <2>3, UptoIs
  <2>5. LET d == Advance(s, k)
        IN  /\ d \in Readers /\ d.whole = s.whole
            /\ Unread(d) = After(Unread(s), k)
            /\ Tidy(s) => Tidy(d)
    BY <1>5, <2>3, AdvanceIs
  <2>6. Len(o.v) = k
    BY <2>1, <2>4
  <2>7. k <= Len(Unread(s)) /\ k \in 0 .. Len(Unread(s))
    <3> DEFINE n == Len(s.net)
    <3>1. l \in Nat /\ n \in Nat /\ k \in 0 .. l /\ Len(Unread(s)) = l + n
      BY <1>0, <1>u, <2>3
    <3> HIDE DEF l, n
    <3> QED BY <3>1
  <2>8. SubSeq(s.buf, 1, k) = SubSeq(Unread(s), 1, k)
    <3> DEFINE x == SubSeq(s.buf, 1, k)
               y == SubSeq(Unread(s), 1, k)
    <3>1. y \in Seq(ArgBytes) /\ Len(y) = k /\ \A i \in 1 .. k : y[i] = Unread(s)[i]
      BY <1>u, <2>7, UptoIs
    <3>2. \A i \in 1 .. k : i \in 1 .. Len(s.buf)
      BY <1>0, <2>3
    <3>0. x \in Seq(ArgBytes) /\ Len(x) = k /\ \A i \in 1 .. k : x[i] = s.buf[i]
      BY <2>4
    <3>5. \A i \in 1 .. k : Unread(s)[i] = s.buf[i]
      BY <1>u, <3>2
    <3> HIDE DEF x, y
    <3>3. \A i \in 1 .. k : x[i] = y[i]
      BY <3>0, <3>1, <3>5
    <3>4. x = y
      BY <3>0, <3>1, <3>3, SeqEqual
    <3> QED BY <3>4 DEF x, y
  <2> QED BY <1>5, <2>1, <2>3, <2>4, <2>5, <2>6, <2>7, <2>8
<1> QED
  BY <1>1, <1>2, <1>3, <1>4, <1>5

(***************************************************************************)
(* RequestReader                                                           *)
(***************************************************************************)
LEMMA FlattenIs ==
    ASSUME NEW S, NEW seqs \in Seq(Seq(S))
    PROVE  FlattenSeq(seqs) \in Seq(S)
<1>1. CASE seqs = <<>>
  BY <1>1, FlattenEmpty, EmptySeq
<1>2. CASE seqs # <<>>
  BY <1>2, FlattenCons
<1> QED
  BY <1>1, <1>2

LEMMA WordsIs ==
    ASSUME NEW v \in Seq(ArgBytes)
    PROVE  /\ Words(v) \in Seq(ArgBytes) /\ FirstWord(v) \in Seq(ArgBytes)
           /\ Arguments(v) \in Seq(Seq(ArgBytes)) /\ Len(Arguments(v)) = Len(Words(v))
           /\ Words(v) # <<>> => Arguments(v) # <<>>
<1> DEFINE w == Words(v)
           n == Len(w)
           l == Len(v)
           f == [i \in 1 .. l |-> IF IsWord(v[i]) THEN <<v[i]>> ELSE <<>>]
<1>1. l \in Nat /\ DOMAIN v = 1 .. l /\ \A i \in 1 .. l : v[i] \in ArgBytes
  BY LenProperties, ElementOfSeq
<1>2. f \in Seq(Seq(ArgBytes))
  <2>1. \A i \in 1 .. l : (IF IsWord(v[i]) THEN <<v[i]>> ELSE <<>>) \in Seq(ArgBytes)
    BY <1>1, EmptySeq
  <2>2. f \in [1 .. l -> Seq(ArgBytes)]
    BY <2>1
  <2> HIDE DEF f, l
  <2> QED BY <1>1, <2>2, FunctionIsSeq
<1>3. w = FlattenSeq(f)
  BY <1>1 DEF Words
<1>4. w \in Seq(ArgBytes)
  <2> HIDE DEF f, w
  <2> QED BY <1>2, <1>3, FlattenIs
<1> HIDE DEF w
<1>5. n \in Nat /\ DOMAIN w = 1 .. n /\ \A i \in 1 .. n : w[i] \in ArgBytes
  BY <1>4, LenProperties, ElementOfSeq
<1>6. FirstWord(v) \in Seq(ArgBytes)
  <2>1. FirstWord(v) = SubSeq(w, 1, Min({1, n}))
    BY DEF FirstWord, w
  <2>2. Min({1, n}) = IF 1 <= n THEN 1 ELSE n
    BY <1>5, MinOfTwo
  <2> HIDE DEF n
  <2>3. Min({1, n}) \in 0 .. n
    BY <1>5, <2>2
  <2> QED BY <1>4, <2>1, <2>3, UptoIs DEF n
<1>7. Arguments(v) = [i \in 1 .. n |-> <<Unquote(w[i])>>]
  BY <1>5 DEF Arguments, w
<1>8. \A i \in 1 .. n : <<Unquote(w[i])>> \in Seq(ArgBytes)
  BY <1>5, BytesAssumption
<1>9. Arguments(v) \in [1 .. n -> Seq(ArgBytes)]
  BY <1>7, <1>8
<1>10. Arguments(v) \in Seq(Seq(ArgBytes)) /\ Len(Arguments(v)) = n
  <2> HIDE DEF n
  <2> QED BY <1>5, <1>9, FunctionIsSeq
<1>11. ASSUME w # <<>> PROVE Arguments(v) # <<>>
  <2>1. n \in Nat \ {0}
    BY <1>4, <1>11, EmptySeq
  <2>2. Len(Arguments(v)) # 0
    BY <1>10, <2>1
  <2> QED BY <2>2, EmptySeq
<1> QED
  BY <1>4, <1>6, <1>10, <1>11 DEF w

LEMMA peekCmdCases ==
    ASSUME NEW s, NEW off, NEW o \in peekCmd(s, off)
    PROVE  \E l \in PeekLine(s, off) :
              \/ l.e # "ok" /\ o = l
              \/ l.e = "ok" /\ l.v[1].k # "*" /\ o = Res(l.s, FirstWord(l.v), "ok")
              \/ /\ l.e = "ok" /\ l.v[1].k = "*"
                 /\ \E n \in ParseSize(l, "*") :
                       \/ n.e # "ok" /\ o = n
                       \/ n.e = "ok" /\ Size(n) < 1 /\ o = Res(n.s, l.v, "empty")
                       \/ /\ n.e = "ok" /\ ~(Size(n) < 1)
                          /\ \E b \in PeekLine(n.s, off + Len(l.v)) :
                                \/ b.e # "ok" /\ o = b
                                \/ /\ b.e = "ok"
                                   /\ \E m \in ParseSize(b, "$") :
                                         \/ m.e # "ok" /\ o = m
                                         \/ m.e = "ok" /\ o \in PeekN(m.s, off + Len(l.v) + Len(b.v), Size(m))
<1>1. PICK l \in PeekLine(s, off) :
        o \in IF l.e = "ok"
              THEN IF l.v[1].k # "*" THEN {Res(l.s, FirstWord(l.v), "ok")}
                   ELSE UNION {IF n.e = "ok"
                        THEN IF Size(n) < 1 THEN {Res(n.s, l.v, "empty")}
                             ELSE UNION {IF b.e = "ok"
                                  THEN UNION {IF m.e = "ok"
                                       THEN PeekN(m.s, off + Len(l.v) + Len(b.v), Size(m))
                                       ELSE {m} : m \in ParseSize(b, "$")}
                                  ELSE {b} : b \in PeekLine(n.s, off + Len(l.v))}
                        ELSE {n} : n \in ParseSize(l, "*")}
              ELSE {l}
  BY Zenon DEF peekCmd, Then
<1>2. CASE l.e # "ok"
  BY <1>1, <1>2, Zenon
<1>3. CASE l.e = "ok" /\ l.v[1].k # "*"
  BY <1>1, <1>3, Zenon
<1>4. CASE l.e = "ok" /\ l.v[1].k = "*"
  <2>1. PICK n \in ParseSize(l, "*") :
           o \in IF n.e = "ok"
                 THEN IF Size(n) < 1 THEN {Res(n.s, l.v, "empty")}
                      ELSE UNION {IF b.e = "ok"
                           THEN UNION {IF m.e = "ok"
                                THEN PeekN(m.s, off + Len(l.v) + Len(b.v), Size(m))
                                ELSE {m} : m \in ParseSize(b, "$")}
                           ELSE {b} : b \in PeekLine(n.s, off + Len(l.v))}
                 ELSE {n}
    BY <1>1, <1>4, Zenon
  <2>2. CASE n.e # "ok"
    BY <1>4, <2>1, <2>2, Zenon
  <2>3. CASE n.e = "ok" /\ Size(n) < 1
    BY <1>4, <2>1, <2>3, Zenon
  <2>4. CASE n.e = "ok" /\ ~(Size(n) < 1)
    <3>1. PICK b \in PeekLine(n.s, off + Len(l.v)) :
             o \in IF b.e = "ok"
                   THEN UNION {IF m.e = "ok"
                        THEN PeekN(m.s, off + Len(l.v) + Len(b.v), Size(m))
                        ELSE {m} : m \in ParseSize(b, "$")}
                   ELSE {b}
      BY <2>1, <2>4, Zenon
    <3>2. \/ b.e # "ok" /\ o = b
          \/ /\ b.e = "ok"
             /\ \E m \in ParseSize(b, "$") :
                   \/ m.e # "ok" /\ o = m
                   \/ m.e = "ok" /\ o \in PeekN(m.s, off + Len(l.v) + Len(b.v), Size(m))
      <4>1. CASE b.e # "ok"
        BY <3>1, <4>1, Zenon
      <4>2. CASE b.e = "ok"
        <5>1. PICK m \in ParseSize(b, "$") :
                o \in IF m.e = "ok" THEN PeekN(m.s, off + Len(l.v) + Len(b.v), Size(m)) ELSE {m}
          BY <3>1, <4>2, Zenon
        <5> QED BY <4>2, <5>1, Zenon
      <4> QED BY <4>1, <4>2
    <3> QED BY <1>4, <2>4, <3>2
  <2> QED BY <2>2, <2>3, <2>4
<1> QED
  BY <1>2, <1>3, <1>4

LEMMA peekCmdIs ==
    ASSUME NEW s \in Readers, NEW off \in Nat, NEW o \in peekCmd(s, off)
    PROVE  /\ o.s \in Readers /\ o.e \in Errors \cup {"empty"}
           /\ o.s.whole => s.whole
           /\ o.e = "ok" => o.v \in Seq(ArgBytes)
           /\ o.e = "empty" => Len(o.v) \in Nat
<1>1. PICK l \in PeekLine(s, off) :
              \/ l.e # "ok" /\ o = l
              \/ l.e = "ok" /\ l.v[1].k # "*" /\ o = Res(l.s, FirstWord(l.v), "ok")
              \/ /\ l.e = "ok" /\ l.v[1].k = "*"
                 /\ \E n \in ParseSize(l, "*") :
                       \/ n.e # "ok" /\ o = n
                       \/ n.e = "ok" /\ Size(n) < 1 /\ o = Res(n.s, l.v, "empty")
                       \/ /\ n.e = "ok" /\ ~(Size(n) < 1)
                          /\ \E b \in PeekLine(n.s, off + Len(l.v)) :
                                \/ b.e # "ok" /\ o = b
                                \/ /\ b.e = "ok"
                                   /\ \E m \in ParseSize(b, "$") :
                                         \/ m.e # "ok" /\ o = m
                                         \/ m.e = "ok" /\ o \in PeekN(m.s, off + Len(l.v) + Len(b.v), Size(m))
  BY peekCmdCases
<1>2. /\ l.s \in Readers /\ l.e \in Errors
      /\ l.s.whole => s.whole
      /\ l.e = "ok" => l.v \in Seq(ArgBytes) /\ Len(l.v) \in Nat /\ Len(l.v) >= 2
  BY PeekLineIs
<1>3. CASE l.e # "ok" /\ o = l
  <2>1. o.e # "empty"
    BY <1>2, <1>3 DEF Errors
  <2> QED BY <1>2, <1>3, <2>1
<1>4. CASE l.e = "ok" /\ o = Res(l.s, FirstWord(l.v), "ok")
  <2>1. o.s = l.s /\ o.v = FirstWord(l.v) /\ o.e = "ok"
    BY <1>4 DEF Res
  <2> QED BY <1>2, <1>4, <2>1, WordsIs DEF Errors
<1>5. ASSUME l.e = "ok", NEW n \in ParseSize(l, "*")
      PROVE  n.s = l.s /\ n.e \in {"ok", "protocol"}
  <2>1. Len(l.v) >= 1
    BY <1>2, <1>5
  <2> QED BY <1>2, <1>5, <2>1, ParseSizeIs
<1>6. ASSUME l.e = "ok", NEW n \in ParseSize(l, "*"), n.e # "ok" /\ o = n
      PROVE  /\ o.s \in Readers /\ o.e \in Errors /\ (o.s.whole => s.whole)
             /\ o.e # "ok" /\ o.e # "empty"
  <2>1. n.s = l.s /\ n.e \in {"ok", "protocol"}
    BY <1>5, <1>6
  <2> QED BY <1>2, <1>6, <2>1 DEF Errors
<1>7. ASSUME l.e = "ok", NEW n \in ParseSize(l, "*"), o = Res(n.s, l.v, "empty")
      PROVE  o.s \in Readers /\ o.e = "empty" /\ (o.s.whole => s.whole) /\ Len(o.v) \in Nat
  <2>1. n.s = l.s /\ o.s = n.s /\ o.v = l.v /\ o.e = "empty"
    BY <1>5, <1>7 DEF Res
  <2> QED BY <1>2, <1>7, <2>1
<1>8. ASSUME l.e = "ok", NEW n \in ParseSize(l, "*"), NEW b \in PeekLine(n.s, off + Len(l.v))
      PROVE  /\ b.s \in Readers /\ b.e \in Errors
             /\ b.s.whole => s.whole
             /\ b.e = "ok" => b.v \in Seq(ArgBytes) /\ Len(b.v) \in Nat /\ Len(b.v) >= 2
  <2>1. n.s = l.s /\ off + Len(l.v) \in Nat
    BY <1>2, <1>5, <1>8
  <2>2. /\ b.s \in Readers /\ b.e \in Errors
        /\ b.s.whole => n.s.whole
        /\ b.e = "ok" => b.v \in Seq(ArgBytes) /\ Len(b.v) \in Nat /\ Len(b.v) >= 2
    BY <1>2, <2>1, PeekLineIs
  <2> QED BY <1>2, <2>1, <2>2
<1>9. ASSUME l.e = "ok", NEW n \in ParseSize(l, "*"), NEW b \in PeekLine(n.s, off + Len(l.v)),
             b.e # "ok" /\ o = b
      PROVE  /\ o.s \in Readers /\ o.e \in Errors /\ (o.s.whole => s.whole)
             /\ o.e # "ok" /\ o.e # "empty"
  <2>1. b.s \in Readers /\ b.e \in Errors /\ (b.s.whole => s.whole)
    BY <1>8, <1>9
  <2> QED BY <1>9, <2>1 DEF Errors
<1>10. ASSUME l.e = "ok", NEW n \in ParseSize(l, "*"), NEW b \in PeekLine(n.s, off + Len(l.v)),
              b.e = "ok", NEW m \in ParseSize(b, "$")
       PROVE  m.s \in Readers /\ (m.s.whole => s.whole) /\ m.e \in {"ok", "protocol"}
              /\ (m.e = "ok" => Size(m) \in Nat)
  <2>1. /\ b.s \in Readers /\ (b.s.whole => s.whole)
        /\ b.v \in Seq(ArgBytes) /\ Len(b.v) \in Nat /\ Len(b.v) >= 2
    BY <1>8, <1>10
  <2>2. Len(b.v) >= 1
    BY <2>1
  <2>3. m.s = b.s /\ m.e \in {"ok", "protocol"} /\ (m.e = "ok" => Size(m) \in Nat)
    BY <1>10, <2>1, <2>2, ParseSizeIs
  <2> QED BY <2>1, <2>3
<1>11. ASSUME l.e = "ok", NEW n \in ParseSize(l, "*"), NEW b \in PeekLine(n.s, off + Len(l.v)),
              b.e = "ok", NEW m \in ParseSize(b, "$"), m.e # "ok" /\ o = m
       PROVE  /\ o.s \in Readers /\ o.e \in Errors /\ (o.s.whole => s.whole)
              /\ o.e # "ok" /\ o.e # "empty"
  <2>1. m.s \in Readers /\ (m.s.whole => s.whole) /\ m.e \in {"ok", "protocol"}
    BY <1>10, <1>11
  <2> QED BY <1>11, <2>1 DEF Errors
<1>12. ASSUME l.e = "ok", NEW n \in ParseSize(l, "*"), NEW b \in PeekLine(n.s, off + Len(l.v)),
              b.e = "ok", NEW m \in ParseSize(b, "$"), m.e = "ok",
              o \in PeekN(m.s, off + Len(l.v) + Len(b.v), Size(m))
       PROVE  /\ o.s \in Readers /\ o.e \in Errors /\ (o.s.whole => s.whole)
              /\ (o.e = "ok" => o.v \in Seq(ArgBytes)) /\ o.e # "empty"
  <2>1. m.s \in Readers /\ (m.s.whole => s.whole) /\ Size(m) \in Nat
    BY <1>10, <1>12
  <2>2. off + Len(l.v) + Len(b.v) \in Nat /\ off + Len(l.v) + Len(b.v) >= 1
    <3> DEFINE x == Len(l.v)
               y == Len(b.v)
    <3>1. x \in Nat /\ y \in Nat /\ x >= 2
      BY <1>2, <1>8, <1>12
    <3> HIDE DEF x, y
    <3>2. off + x + y \in Nat /\ off + x + y >= 1
      BY <3>1
    <3> QED BY <3>2 DEF x, y
  <2> DEFINE k == off + Len(l.v) + Len(b.v)
  <2> HIDE DEF k
  <2>3. k \in Nat /\ k >= 1 /\ o \in PeekN(m.s, k, Size(m))
    BY <1>12, <2>2 DEF k
  <2>4. /\ o.s \in Readers /\ o.e \in {"ok", "EOF", "panic"}
        /\ o.s.whole => m.s.whole
        /\ o.e = "ok" => o.v \in Seq(ArgBytes)
    BY <2>1, <2>3, PeekNIs
  <2> QED BY <2>1, <2>4 DEF Errors
<1> QED
  BY <1>1, <1>3, <1>4, <1>6, <1>7, <1>9, <1>11, <1>12 DEF Errors

\* What readCommand makes of an array's name and of a line.
ArrayRead(name, k) ==
    Res(name.s, [inline |-> FALSE, args |-> <<name.v>>, left |-> k - 1], "ok")

LineRead(l) ==
    Res(l.s, [inline |-> TRUE, args |-> Arguments(l.v), left |-> 0],
        IF Words(l.v) = <<>> THEN "blank" ELSE "ok")

LEMMA readCommandCases ==
    ASSUME NEW s, NEW o \in readCommand(s)
    PROVE  \E x \in PeekByte(s) :
              \/ x.e # "ok" /\ o = x
              \/ /\ x.e = "ok" /\ x.v[1].k = "*"
                 /\ \E n \in ReadArrayLen(x.s) :
                       \/ n.e # "ok" /\ o = n
                       \/ n.e = "ok" /\ Size(n) < 1 /\ o = Res(n.s, <<>>, "empty")
                       \/ /\ n.e = "ok" /\ ~(Size(n) < 1)
                          /\ \E name \in ReadBulk(n.s) :
                                \/ name.e # "ok" /\ o = name
                                \/ name.e = "ok" /\ o = ArrayRead(name, Size(n))
              \/ /\ x.e = "ok" /\ x.v[1].k # "*"
                 /\ \E l \in ReadLine(x.s) :
                       \/ l.e # "ok" /\ o = l
                       \/ l.e = "ok" /\ o = LineRead(l)
<1>1. PICK x \in PeekByte(s) :
        o \in IF x.e = "ok"
              THEN IF x.v[1].k = "*"
                   THEN UNION {IF n.e = "ok"
                        THEN IF Size(n) < 1 THEN {Res(n.s, <<>>, "empty")}
                             ELSE UNION {IF name.e = "ok" THEN {ArrayRead(name, Size(n))}
                                         ELSE {name} : name \in ReadBulk(n.s)}
                        ELSE {n} : n \in ReadArrayLen(x.s)}
                   ELSE UNION {IF l.e = "ok" THEN {LineRead(l)} ELSE {l} : l \in ReadLine(x.s)}
              ELSE {x}
  BY Zenon DEF readCommand, Then, ArrayRead, LineRead
<1>2. CASE x.e # "ok"
  BY <1>1, <1>2, Zenon
<1>3. CASE x.e = "ok" /\ x.v[1].k # "*"
  <2>1. PICK l \in ReadLine(x.s) : o \in IF l.e = "ok" THEN {LineRead(l)} ELSE {l}
    BY <1>1, <1>3, Zenon
  <2> QED BY <1>3, <2>1, Zenon
<1>4. CASE x.e = "ok" /\ x.v[1].k = "*"
  <2>1. PICK n \in ReadArrayLen(x.s) :
           o \in IF n.e = "ok"
                 THEN IF Size(n) < 1 THEN {Res(n.s, <<>>, "empty")}
                      ELSE UNION {IF name.e = "ok" THEN {ArrayRead(name, Size(n))}
                                  ELSE {name} : name \in ReadBulk(n.s)}
                 ELSE {n}
    BY <1>1, <1>4, Zenon
  <2>2. CASE n.e # "ok"
    BY <1>4, <2>1, <2>2, Zenon
  <2>3. CASE n.e = "ok" /\ Size(n) < 1
    BY <1>4, <2>1, <2>3, Zenon
  <2>4. CASE n.e = "ok" /\ ~(Size(n) < 1)
    <3>1. PICK name \in ReadBulk(n.s) :
             o \in IF name.e = "ok" THEN {ArrayRead(name, Size(n))} ELSE {name}
      BY <2>1, <2>4, Zenon
    <3>2. \/ name.e # "ok" /\ o = name
          \/ name.e = "ok" /\ o = ArrayRead(name, Size(n))
      BY <3>1, Zenon
    <3> QED BY <1>4, <2>4, <3>2
  <2> QED BY <2>2, <2>3, <2>4
<1> QED
  BY <1>2, <1>3, <1>4

LEMMA ArrayReadIs ==
    ASSUME NEW name, NEW k
    PROVE  LET o == ArrayRead(name, k)
           IN  /\ o.s = name.s /\ o.e = "ok" /\ o.v.inline = FALSE
               /\ o.v.args = <<name.v>> /\ o.v.left = k - 1
<1>1. ArrayRead(name, k).v = [inline |-> FALSE, args |-> <<name.v>>, left |-> k - 1]
  BY DEF ArrayRead, Res
<1> QED
  BY <1>1 DEF ArrayRead, Res

LEMMA LineReadIs ==
    ASSUME NEW l
    PROVE  LET o == LineRead(l)
           IN  /\ o.s = l.s /\ o.e = (IF Words(l.v) = <<>> THEN "blank" ELSE "ok")
               /\ o.v.inline = TRUE /\ o.v.args = Arguments(l.v) /\ o.v.left = 0
<1>1. LineRead(l).v = [inline |-> TRUE, args |-> Arguments(l.v), left |-> 0]
  BY DEF LineRead, Res
<1> QED
  BY <1>1 DEF LineRead, Res

LEMMA readCommandIs ==
    ASSUME NEW s \in Readers, NEW o \in readCommand(s)
    PROVE  /\ o.s \in Readers /\ o.e \in Errors \cup {"empty", "blank"}
           /\ o.s.whole => s.whole
           /\ o.e = "ok" => /\ o.v.inline \in BOOLEAN
                            /\ o.v.args \in Seq(Seq(ArgBytes)) /\ o.v.args # <<>>
                            /\ o.v.left \in Nat
<1>1. PICK x \in PeekByte(s) :
              \/ x.e # "ok" /\ o = x
              \/ /\ x.e = "ok" /\ x.v[1].k = "*"
                 /\ \E n \in ReadArrayLen(x.s) :
                       \/ n.e # "ok" /\ o = n
                       \/ n.e = "ok" /\ Size(n) < 1 /\ o = Res(n.s, <<>>, "empty")
                       \/ /\ n.e = "ok" /\ ~(Size(n) < 1)
                          /\ \E name \in ReadBulk(n.s) :
                                \/ name.e # "ok" /\ o = name
                                \/ name.e = "ok" /\ o = ArrayRead(name, Size(n))
              \/ /\ x.e = "ok" /\ x.v[1].k # "*"
                 /\ \E l \in ReadLine(x.s) :
                       \/ l.e # "ok" /\ o = l
                       \/ l.e = "ok" /\ o = LineRead(l)
  BY readCommandCases
<1>2. x.s \in Readers /\ x.e \in {"ok", "EOF", "panic"} /\ (x.s.whole => s.whole)
  BY PeekByteIs
<1>3. CASE x.e # "ok" /\ o = x
  BY <1>2, <1>3 DEF Errors
<1>4. ASSUME NEW n \in ReadArrayLen(x.s)
      PROVE  /\ n.s \in Readers /\ n.e \in Errors /\ (n.s.whole => s.whole)
             /\ n.e = "ok" => Size(n) \in Nat
  <2>1. /\ n.s \in Readers /\ n.e \in Errors /\ (n.s.whole => x.s.whole)
        /\ n.e = "ok" => Size(n) \in Nat
    BY <1>2, ReadArrayLenIs
  <2> QED BY <1>2, <2>1
<1>5. ASSUME NEW n \in ReadArrayLen(x.s), n.e # "ok" /\ o = n
      PROVE  o.s \in Readers /\ o.e \in Errors /\ (o.s.whole => s.whole) /\ o.e # "ok"
  BY <1>4, <1>5
<1>6. ASSUME NEW n \in ReadArrayLen(x.s), o = Res(n.s, <<>>, "empty")
      PROVE  o.s \in Readers /\ o.e = "empty" /\ (o.s.whole => s.whole)
  <2>1. o.s = n.s /\ o.e = "empty"
    BY <1>6, ResIs
  <2> QED BY <1>4, <2>1
<1>7. ASSUME NEW n \in ReadArrayLen(x.s), NEW name \in ReadBulk(n.s)
      PROVE  /\ name.s \in Readers /\ name.e \in Errors /\ (name.s.whole => s.whole)
             /\ name.e = "ok" => name.v \in Seq(ArgBytes)
  <2>1. n.s \in Readers /\ (n.s.whole => s.whole)
    BY <1>4
  <2>2. /\ name.s \in Readers /\ name.e \in Errors /\ (name.s.whole => n.s.whole)
        /\ name.e = "ok" => name.v \in Seq(ArgBytes)
    BY <2>1, ReadBulkIs
  <2> QED BY <2>1, <2>2
<1>8. ASSUME NEW n \in ReadArrayLen(x.s), NEW name \in ReadBulk(n.s), name.e # "ok" /\ o = name
      PROVE  o.s \in Readers /\ o.e \in Errors /\ (o.s.whole => s.whole) /\ o.e # "ok"
  BY <1>7, <1>8
<1>9. ASSUME NEW n \in ReadArrayLen(x.s), n.e = "ok", ~(Size(n) < 1),
             NEW name \in ReadBulk(n.s), name.e = "ok", o = ArrayRead(name, Size(n))
      PROVE  /\ o.s \in Readers /\ o.e = "ok" /\ (o.s.whole => s.whole) /\ o.v.inline \in BOOLEAN
             /\ o.v.args \in Seq(Seq(ArgBytes)) /\ o.v.args # <<>> /\ o.v.left \in Nat
  <2>1. /\ o.s = name.s /\ o.e = "ok" /\ o.v.inline = FALSE
        /\ o.v.args = <<name.v>> /\ o.v.left = Size(n) - 1
    BY <1>9, ArrayReadIs
  <2>2. Size(n) - 1 \in Nat
    <3>1. Size(n) \in Nat
      BY <1>4, <1>9
    <3> QED BY <1>9, <3>1
  <2>3. name.s \in Readers /\ (name.s.whole => s.whole) /\ name.v \in Seq(ArgBytes)
    BY <1>7, <1>9
  <2>4. <<name.v>> \in Seq(Seq(ArgBytes)) /\ <<name.v>> # <<>>
    BY <2>3
  <2> QED BY <2>1, <2>2, <2>3, <2>4
<1>10. ASSUME NEW l \in ReadLine(x.s)
       PROVE  /\ l.s \in Readers /\ l.e \in Errors /\ (l.s.whole => s.whole)
              /\ l.e = "ok" => l.v \in Seq(ArgBytes)
  <2>1. /\ l.s \in Readers /\ l.e \in Errors /\ (l.s.whole => x.s.whole)
        /\ l.e = "ok" => l.v \in Seq(ArgBytes)
    BY <1>2, ReadLineIs
  <2> QED BY <1>2, <2>1
<1>11. ASSUME NEW l \in ReadLine(x.s), l.e # "ok" /\ o = l
       PROVE  o.s \in Readers /\ o.e \in Errors /\ (o.s.whole => s.whole) /\ o.e # "ok"
  BY <1>10, <1>11
<1>12. ASSUME NEW l \in ReadLine(x.s), l.e = "ok", o = LineRead(l)
       PROVE  /\ o.s \in Readers /\ o.e \in {"ok", "blank"} /\ (o.s.whole => s.whole)
              /\ o.v.inline \in BOOLEAN
              /\ o.e = "ok" => o.v.args \in Seq(Seq(ArgBytes)) /\ o.v.args # <<>>
              /\ o.v.left \in Nat
  <2>1. /\ o.s = l.s /\ o.e = (IF Words(l.v) = <<>> THEN "blank" ELSE "ok")
        /\ o.v.inline = TRUE /\ o.v.args = Arguments(l.v) /\ o.v.left = 0
    BY <1>12, LineReadIs
  <2>2. l.s \in Readers /\ (l.s.whole => s.whole) /\ l.v \in Seq(ArgBytes)
    BY <1>10, <1>12
  <2>3. Arguments(l.v) \in Seq(Seq(ArgBytes)) /\ (Words(l.v) # <<>> => Arguments(l.v) # <<>>)
    BY <2>2, WordsIs
  <2>4. o.e \in {"ok", "blank"} /\ (o.e = "ok" => Words(l.v) # <<>>)
    BY <2>1, Zenon
  <2>5. o.v.inline \in BOOLEAN
    BY <2>1, Zenon
  <2>6. o.s \in Readers /\ (o.s.whole => s.whole)
    BY <2>1, <2>2, Zenon
  <2>7. o.e = "ok" => o.v.args \in Seq(Seq(ArgBytes)) /\ o.v.args # <<>>
    BY <2>1, <2>3, <2>4, Zenon
  <2>8. o.v.left \in Nat
    BY <2>1
  <2> QED BY <2>4, <2>5, <2>6, <2>7, <2>8, Zenon
<1> QED
  BY <1>1, <1>3, <1>5, <1>6, <1>8, <1>9, <1>11, <1>12 DEF Errors

LEMMA skipCmdCases ==
    ASSUME NEW s, NEW o \in skipCmd(s)
    PROVE  \E x \in PeekByte(s) :
              \/ x.e # "ok" /\ o = x
              \/ /\ x.e = "ok" /\ x.v[1].k # "*"
                 /\ \E l \in ReadLine(x.s) :
                       \/ l.e # "ok" /\ o = l
                       \/ l.e = "ok" /\ o = Res(l.s, 0, "ok")
              \/ /\ x.e = "ok" /\ x.v[1].k = "*"
                 /\ \E n \in ReadArrayLen(x.s) :
                       \/ n.e # "ok" /\ o = n
                       \/ n.e = "ok" /\ Size(n) < 1 /\ o = Res(n.s, 0, "empty")
                       \/ n.e = "ok" /\ ~(Size(n) < 1) /\ o = Res(n.s, Size(n), "ok")
<1>1. PICK x \in PeekByte(s) :
        o \in IF x.e = "ok"
              THEN IF x.v[1].k # "*"
                   THEN UNION {IF l.e = "ok" THEN {Res(l.s, 0, "ok")} ELSE {l} : l \in ReadLine(x.s)}
                   ELSE UNION {IF n.e = "ok"
                               THEN {IF Size(n) < 1 THEN Res(n.s, 0, "empty")
                                                    ELSE Res(n.s, Size(n), "ok")}
                               ELSE {n} : n \in ReadArrayLen(x.s)}
              ELSE {x}
  BY Zenon DEF skipCmd, Then
<1>2. CASE x.e # "ok"
  BY <1>1, <1>2, Zenon
<1>3. CASE x.e = "ok" /\ x.v[1].k # "*"
  <2>1. PICK l \in ReadLine(x.s) : o \in IF l.e = "ok" THEN {Res(l.s, 0, "ok")} ELSE {l}
    BY <1>1, <1>3, Zenon
  <2> QED BY <1>3, <2>1, Zenon
<1>4. CASE x.e = "ok" /\ x.v[1].k = "*"
  <2>1. PICK n \in ReadArrayLen(x.s) :
           o \in IF n.e = "ok" THEN {IF Size(n) < 1 THEN Res(n.s, 0, "empty")
                                                    ELSE Res(n.s, Size(n), "ok")}
                 ELSE {n}
    BY <1>1, <1>4, Zenon
  <2> QED BY <1>4, <2>1, Zenon
<1> QED
  BY <1>2, <1>3, <1>4

LEMMA skipCmdIs ==
    ASSUME NEW s \in Readers, NEW o \in skipCmd(s)
    PROVE  /\ o.s \in Readers /\ o.e \in Errors \cup {"empty"}
           /\ o.s.whole => s.whole
           /\ o.e = "ok" => o.v \in Nat
<1>1. PICK x \in PeekByte(s) :
              \/ x.e # "ok" /\ o = x
              \/ /\ x.e = "ok" /\ x.v[1].k # "*"
                 /\ \E l \in ReadLine(x.s) :
                       \/ l.e # "ok" /\ o = l
                       \/ l.e = "ok" /\ o = Res(l.s, 0, "ok")
              \/ /\ x.e = "ok" /\ x.v[1].k = "*"
                 /\ \E n \in ReadArrayLen(x.s) :
                       \/ n.e # "ok" /\ o = n
                       \/ n.e = "ok" /\ Size(n) < 1 /\ o = Res(n.s, 0, "empty")
                       \/ n.e = "ok" /\ ~(Size(n) < 1) /\ o = Res(n.s, Size(n), "ok")
  BY skipCmdCases
<1>2. x.s \in Readers /\ x.e \in {"ok", "EOF", "panic"} /\ (x.s.whole => s.whole)
  BY PeekByteIs
<1>3. CASE x.e # "ok" /\ o = x
  BY <1>2, <1>3 DEF Errors
<1>4. ASSUME NEW n \in ReadArrayLen(x.s)
      PROVE  /\ n.s \in Readers /\ n.e \in Errors /\ (n.s.whole => s.whole)
             /\ n.e = "ok" => Size(n) \in Nat
  <2>1. /\ n.s \in Readers /\ n.e \in Errors /\ (n.s.whole => x.s.whole)
        /\ n.e = "ok" => Size(n) \in Nat
    BY <1>2, ReadArrayLenIs
  <2> QED BY <1>2, <2>1
<1>5. ASSUME NEW n \in ReadArrayLen(x.s), n.e # "ok" /\ o = n
      PROVE  o.s \in Readers /\ o.e \in Errors /\ (o.s.whole => s.whole) /\ o.e # "ok"
  BY <1>4, <1>5
<1>6. ASSUME NEW n \in ReadArrayLen(x.s), o = Res(n.s, 0, "empty")
      PROVE  o.s \in Readers /\ o.e = "empty" /\ (o.s.whole => s.whole)
  <2>1. o.s = n.s /\ o.e = "empty"
    BY <1>6, ResIs
  <2> QED BY <1>4, <2>1
<1>7. ASSUME NEW n \in ReadArrayLen(x.s), n.e = "ok", o = Res(n.s, Size(n), "ok")
      PROVE  o.s \in Readers /\ o.e = "ok" /\ (o.s.whole => s.whole) /\ o.v \in Nat
  <2>1. o.s = n.s /\ o.e = "ok" /\ o.v = Size(n)
    BY <1>7 DEF Res
  <2> QED BY <1>4, <1>7, <2>1
<1>8. ASSUME NEW l \in ReadLine(x.s)
      PROVE  l.s \in Readers /\ l.e \in Errors /\ (l.s.whole => s.whole)
  <2>1. l.s \in Readers /\ l.e \in Errors /\ (l.s.whole => x.s.whole)
    BY <1>2, ReadLineIs
  <2> QED BY <1>2, <2>1
<1>9. ASSUME NEW l \in ReadLine(x.s), l.e # "ok" /\ o = l
      PROVE  o.s \in Readers /\ o.e \in Errors /\ (o.s.whole => s.whole) /\ o.e # "ok"
  BY <1>8, <1>9
<1>10. ASSUME NEW l \in ReadLine(x.s), o = Res(l.s, 0, "ok")
       PROVE  o.s \in Readers /\ o.e = "ok" /\ (o.s.whole => s.whole) /\ o.v \in Nat
  <2>1. o.s = l.s /\ o.e = "ok" /\ o.v = 0
    BY <1>10 DEF Res
  <2> QED BY <1>8, <2>1
<1> QED
  BY <1>1, <1>3, <1>5, <1>6, <1>7, <1>9, <1>10 DEF Errors

(***************************************************************************)
(* Command: a recycled one has its own arguments only, whatever commands   *)
(* came before.  What carries the proof is SpareEmpty: Reset empties what  *)
(* is inside c.Args, and what is outside was empty already.                *)
(***************************************************************************)
Contents == Seq(ArgBytes)

ArgsInv == ArgsTypeOK /\ SpareEmpty /\ ArgsOwn

\* Reset keeps the array and leaves nothing in it.
LEMMA ResetEmpties ==
    ASSUME NEW m \in Seq(Contents), NEW len \in 0 .. Len(m),
           \A i \in DOMAIN m : i > len => m[i] = <<>>
    PROVE  /\ Reset(m, len) \in Seq(Contents)
           /\ Len(Reset(m, len)) = Len(m)
           /\ \A i \in 1 .. Len(m) : Reset(m, len)[i] = <<>>
<1>1. <<>> \in Contents
  BY DEF Contents
<1>2. DOMAIN m = 1 .. Len(m) /\ Len(m) \in Nat /\ \A i \in 1 .. Len(m) : m[i] \in Contents
  OBVIOUS
<1>3. \A i \in 1 .. Len(m) : i <= len \/ m[i] = <<>>
  BY <1>2
<1>4. Reset(m, len) = [i \in 1 .. Len(m) |-> <<>>]
  BY <1>2, <1>3 DEF Reset
<1> QED
  BY <1>1, <1>2, <1>4

\* After grow there is room for k arguments, and an empty array stays empty.
LEMMA GrowEmpty ==
    ASSUME NEW m \in Seq(Contents), NEW k \in Nat, NEW spare \in Nat,
           \A i \in 1 .. Len(m) : m[i] = <<>>
    PROVE  /\ grow(m, k, spare) \in Seq(Contents)
           /\ Len(grow(m, k, spare)) >= k
           /\ \A i \in 1 .. Len(grow(m, k, spare)) : grow(m, k, spare)[i] = <<>>
<1>1. CASE k <= Len(m)
  BY <1>1 DEF grow
<1>2. CASE ~(k <= Len(m))
  <2> DEFINE d == k - Len(m) + spare
             e == [i \in 1 .. d |-> <<>>]
  <2>1. Len(m) \in Nat /\ d \in Nat /\ Len(m) + d >= k
    BY <1>2
  <2>2. <<>> \in Contents
    BY DEF Contents
  <2>3. e \in Seq(Contents) /\ Len(e) = d /\ \A i \in 1 .. d : e[i] = <<>>
    <3> HIDE DEF d
    <3> QED BY <2>1, <2>2
  <2>4. grow(m, k, spare) = m \o e
    BY <1>2 DEF grow
  <2> HIDE DEF e, d
  <2>5. /\ m \o e \in Seq(Contents)
        /\ Len(m \o e) = Len(m) + Len(e)
        /\ \A i \in 1 .. Len(m) + Len(e) :
              (m \o e)[i] = IF i <= Len(m) THEN m[i] ELSE e[i - Len(m)]
    BY <2>3, ConcatProperties
  <2>6. ASSUME NEW i \in 1 .. Len(m) + d
        PROVE  (m \o e)[i] = <<>>
    <3>1. CASE i <= Len(m)
      BY <3>1, <2>1, <2>3, <2>5
    <3>2. CASE ~(i <= Len(m))
      <4>1. i - Len(m) \in 1 .. d
        BY <3>2, <2>1
      <4> QED BY <4>1, <3>2, <2>3, <2>5
    <3> QED BY <3>1, <3>2
  <2> QED BY <2>1, <2>3, <2>4, <2>5, <2>6
<1> QED
  BY <1>1, <1>2

\* A call of ReadCmd, however far it gets, preserves the invariant.
LEMMA ReadBulksStep ==
    ASSUME ArgsInv, NEW args \in Seq(Contents), NEW k \in 0 .. Len(args),
           NEW spare \in 0 .. MaxSpare, ReadBulks(args, k, spare)
    PROVE  ArgsInv'
<1> DEFINE r == Reset(mem, argn)
           m == grow(r, Len(args), spare)
<1>1. args \in Seq(Contents) /\ Len(args) \in Nat /\ spare \in Nat
  BY SpareAssumption DEF Contents
<1>2. /\ r \in Seq(Contents) /\ \A i \in 1 .. Len(r) : r[i] = <<>>
  BY ResetEmpties DEF ArgsInv, ArgsTypeOK, SpareEmpty, Contents
<1>3. /\ m \in Seq(Contents) /\ Len(m) >= Len(args)
      /\ \A i \in 1 .. Len(m) : m[i] = <<>>
  <2> HIDE DEF r
  <2> QED BY <1>1, <1>2, GrowEmpty
<1>4. /\ mem' = [i \in DOMAIN m |-> IF i <= k THEN m[i] \o args[i] ELSE m[i]]
      /\ argn' = Len(args) /\ valid' = (k = Len(args)) /\ sentArgs' = args
  BY DEF ReadBulks
<1> HIDE DEF r, m
<1>5. DOMAIN m = 1 .. Len(m) /\ Len(m) \in Nat
  BY <1>3
<1>6. ASSUME NEW i \in 1 .. Len(args)
      PROVE  args[i] \in Contents /\ <<>> \o args[i] = args[i]
  <2>1. args[i] \in Contents
    BY <1>1
  <2> QED BY <2>1, ConcatEmptySeq DEF Contents
<1>7. mem' = [i \in 1 .. Len(m) |-> IF i <= k THEN args[i] ELSE <<>>]
  <2>1. ASSUME NEW i \in 1 .. Len(m)
        PROVE  (IF i <= k THEN m[i] \o args[i] ELSE m[i])
                   = IF i <= k THEN args[i] ELSE <<>>
    <3>1. CASE i <= k
      <4>1. i \in 1 .. Len(args) /\ m[i] = <<>>
        BY <3>1, <1>1, <1>3, <1>5
      <4>2. <<>> \o args[i] = args[i]
        BY <4>1, <1>6
      <4> QED BY <3>1, <4>1, <4>2
    <3>2. CASE ~(i <= k)
      BY <3>2, <1>3
    <3> QED BY <3>1, <3>2
  <2> QED BY <2>1, <1>4, <1>5
<1>8. \A i \in 1 .. Len(m) : (IF i <= k THEN args[i] ELSE <<>>) \in Contents
  BY <1>1, <1>3, <1>5, <1>6 DEF Contents
<1>9. mem' \in Seq(Contents) /\ Len(mem') = Len(m) /\ DOMAIN mem' = 1 .. Len(m)
  BY <1>5, <1>7, <1>8
<1>10. ArgsTypeOK'
  BY <1>1, <1>3, <1>4, <1>5, <1>9 DEF ArgsTypeOK, Contents
<1>11. SpareEmpty'
  <2>1. ASSUME NEW i \in 1 .. Len(m), i > Len(args)
        PROVE  mem'[i] = <<>>
    <3>1. ~(i <= k)
      BY <2>1, <1>1, <1>5
    <3> QED BY <3>1, <1>7
  <2> QED BY <2>1, <1>4, <1>9 DEF SpareEmpty
<1>12. ArgsOwn'
  <2>1. ASSUME k = Len(args), NEW i \in 1 .. Len(args)
        PROVE  mem'[i] = args[i]
    <3>1. i \in 1 .. Len(m) /\ i <= k
      BY <2>1, <1>1, <1>3, <1>5
    <3> QED BY <3>1, <1>7
  <2> QED BY <2>1, <1>4 DEF ArgsOwn
<1> QED
  BY <1>10, <1>11, <1>12 DEF ArgsInv

\* A call that fails before it gets to the arguments does so too.
LEMMA ReadFailsStep ==
    ASSUME ArgsInv, ReadFails
    PROVE  ArgsInv'
<1>1. /\ mem' \in Seq(Contents) /\ Len(mem') = Len(mem)
      /\ \A i \in 1 .. Len(mem) : mem'[i] = <<>>
  <2>1. mem' = Reset(mem, argn)
    BY DEF ReadFails
  <2>2. /\ mem \in Seq(Contents) /\ argn \in 0 .. Len(mem)
        /\ \A i \in DOMAIN mem : i > argn => mem[i] = <<>>
    BY DEF ArgsInv, ArgsTypeOK, SpareEmpty, Contents
  <2> QED BY <2>1, <2>2, ResetEmpties
<1>2. argn' = 0 /\ valid' = FALSE /\ sentArgs' = <<>>
  BY DEF ReadFails
<1>3. Len(mem) \in Nat /\ DOMAIN mem' = 1 .. Len(mem)
  BY <1>1 DEF ArgsInv, ArgsTypeOK
<1>4. ArgsTypeOK'
  <2>1. <<>> \in Seq(Contents)
    OBVIOUS
  <2>2. mem' \in Seq(Seq(ArgBytes)) /\ sentArgs' \in Seq(Seq(ArgBytes))
    BY <2>1, <1>1, <1>2 DEF Contents
  <2>3. argn' \in 0 .. Len(mem')
    BY <1>1, <1>2, <1>3
  <2>4. valid' \in BOOLEAN
    BY <1>2
  <2> QED BY <2>2, <2>3, <2>4 DEF ArgsTypeOK
<1>5. SpareEmpty'
  BY <1>1, <1>2, <1>3 DEF SpareEmpty
<1>6. ArgsOwn'
  BY <1>2 DEF ArgsOwn
<1> QED
  BY <1>4, <1>5, <1>6 DEF ArgsInv

\* For any commands, of any number and length: the arguments of a recycled
\* Command are those it was sent with (RequestReader.ReadCmd).
THEOREM OwnArguments == ArgsSpec => [](ArgsTypeOK /\ SpareEmpty /\ ArgsOwn)
<1>1. ArgsInit => ArgsInv
  <2> SUFFICES ASSUME ArgsInit PROVE ArgsInv
    OBVIOUS
  <2>1. ArgsTypeOK
    <3>1. <<>> \in Seq(Contents) /\ Len(<<>>) = 0
      OBVIOUS
    <3>2. mem \in Seq(Seq(ArgBytes)) /\ sentArgs \in Seq(Seq(ArgBytes)) /\ Len(mem) = 0
      BY <3>1 DEF ArgsInit, Contents
    <3>3. argn \in 0 .. 0
      BY DEF ArgsInit
    <3>4. valid \in BOOLEAN
      BY DEF ArgsInit
    <3> QED BY <3>2, <3>3, <3>4 DEF ArgsTypeOK
  <2>2. SpareEmpty /\ ArgsOwn
    BY DEF ArgsInit, SpareEmpty, ArgsOwn
  <2> QED BY <2>1, <2>2 DEF ArgsInv
<1>2. ArgsInv /\ [ArgsNext]_argVars => ArgsInv'
  <2> SUFFICES ASSUME ArgsInv, [ArgsNext]_argVars PROVE ArgsInv'
    OBVIOUS
  <2>1. CASE UNCHANGED argVars
    BY <2>1 DEF argVars, ArgsInv, ArgsTypeOK, SpareEmpty, ArgsOwn
  <2>2. CASE ReadFails
    BY <2>2, ReadFailsStep
  <2>3. ASSUME NEW args \in Seq(Contents), NEW spare \in 0 .. MaxSpare,
               NEW k \in 0 .. Len(args), ReadBulks(args, k, spare)
        PROVE  ArgsInv'
    BY <2>3, ReadBulksStep
  <2> QED BY <2>1, <2>2, <2>3 DEF ArgsNext, Contents
<1> QED
  BY <1>1, <1>2, PTL DEF ArgsSpec, ArgsInv

(***************************************************************************)
(* The types of the whole specification.  Besides TypeOK: a reader whose r *)
(* has run past w has nothing buffered; a command is read, or taken as a   *)
(* stream, once it has been peeked; a stream handler has one piece of data *)
(* per argument it has asked for, and none outside its call.               *)
(***************************************************************************)
Streams ==
    [isInline : BOOLEAN, inline : Seq(Seq(ArgBytes)), nargs : Nat, pos : Nat, arg : Nat]

Places ==
    {"peek", "perform", "bad", "read", "stream", "skip", "args", "bulks",
     "handler", "discard", "end", "panic"}

Reading ==
    /\ requests \in Inputs
    /\ rd \in Readers
    /\ pc \in Places
    /\ offset \in Nat /\ left \in Nat /\ parts \in Seq(Seq(ArgBytes))
    /\ names \in Seq(Seq(ArgBytes)) /\ got \in Seq(Seq(Seq(ArgBytes)))
    /\ Len(got) <= Len(names)
    /\ pc \in {"perform", "read", "stream", "args"} => Len(got) < Len(names)
    /\ pc = "args" => parts # <<>>
    /\ pc = "bulks" => left > 0

Streaming ==
    /\ cs \in Streams /\ cs.pos <= cs.nargs + Len(cs.inline)
    /\ data \in Seq(Seq(ArgBytes))
    /\ orderly \in BOOLEAN
    /\ cs.arg > 0 => cs.pos > 0
    /\ pc = "handler" => Len(data) = cs.pos
    /\ pc \in {"perform", "stream"} => cs.pos = 0 /\ cs.arg = 0
    /\ pc \notin {"handler", "discard", "panic"} => data = <<>>
    /\ pc \notin {"stream", "handler", "discard", "panic"} => cs = NewStream

Types == Reading /\ ArgsInv /\ Streaming

LEMMA NewStreamIs ==
    /\ NewStream \in Streams /\ NewStream.pos = 0 /\ NewStream.arg = 0 /\ NewStream.nargs = 0
    /\ NewStream.inline = <<>> /\ NewStream.isInline = FALSE
<1>1. <<>> \in Seq(Seq(ArgBytes)) /\ 0 \in Nat
  BY EmptySeq
<1> QED
  BY <1>1 DEF NewStream, Streams

LEMMA ArgsUnchanged ==
    ASSUME ArgsInv, UNCHANGED argVars
    PROVE  ArgsInv'
BY DEF argVars, ArgsInv, ArgsTypeOK, SpareEmpty, ArgsOwn

LEMMA StreamingKept ==
    ASSUME Streaming, UNCHANGED streamVars, pc \notin {"handler", "discard", "panic", "stream"},
           pc' \in {"peek", "perform", "bad", "read", "skip", "args", "bulks", "end", "panic"}
    PROVE  Streaming'
<1>1. cs' = cs /\ data' = data /\ orderly' = orderly
  BY DEF streamVars
<1>2. cs = NewStream /\ data = <<>>
  BY DEF Streaming
<1>3. cs.pos = 0 /\ cs.arg = 0
  BY <1>2, NewStreamIs
<1>4. pc' # "handler"
  OBVIOUS
<1> QED
  BY <1>1, <1>2, <1>3, <1>4 DEF Streaming

LEMMA InitTypes == Init => Types
<1> SUFFICES ASSUME Init PROVE Types
  OBVIOUS
<1>1. /\ requests \in Inputs /\ rd = NewReader(AllBytes(requests), BufferSize) /\ pc = "peek"
      /\ offset = 0 /\ parts = <<>> /\ left = 0 /\ names = <<>> /\ got = <<>> /\ ArgsInit
      /\ cs = NewStream /\ data = <<>> /\ orderly = TRUE
  BY DEF Init, ReaderInit
<1>2. rd \in Readers
  <2>1. AllBytes(requests) \in Seq(ArgBytes)
    BY <1>1, InputsAssumption
  <2>2. BufferSize \in Nat /\ <<>> \in Seq(ArgBytes) /\ Len(<<>>) = 0 /\ 0 \in Nat /\ 0 \in 0 .. 1
    BY SizeAssumption, EmptySeq
  <2>3. rd = [net |-> AllBytes(requests), buf |-> <<>>, r |-> 0, over |-> 0, cap |-> BufferSize,
              whole |-> TRUE]
    BY <1>1 DEF NewReader
  <2>4. rd \in RawReaders
    BY <2>1, <2>2, <2>3 DEF RawReaders
  <2>5. rd.buf = <<>> /\ rd.r = 0 /\ rd.over = 0 /\ rd.cap = BufferSize
    BY <2>3
  <2>6. rd.r + Len(rd.buf) - rd.over <= rd.cap
    BY <2>2, <2>5
  <2> QED BY <2>4, <2>5, <2>6, Zenon DEF Readers
<1>3. Reading
  <2>1. /\ <<>> \in Seq(Seq(ArgBytes)) /\ <<>> \in Seq(Seq(Seq(ArgBytes))) /\ 0 \in Nat
        /\ Len(<<>>) = 0 /\ Len(<<>>) <= Len(<<>>)
    BY EmptySeq
  <2> QED BY <1>1, <1>2, <2>1 DEF Reading, Places
<1>4. ArgsInv
  <2>1. <<>> \in Seq(Seq(ArgBytes)) /\ Len(<<>>) = 0
    BY EmptySeq
  <2>2. mem = <<>> /\ argn = 0 /\ valid = FALSE /\ sentArgs = <<>>
    BY <1>1 DEF ArgsInit
  <2>3. argn \in 0 .. Len(mem)
    BY <2>1, <2>2
  <2>4. ArgsTypeOK
    BY <2>1, <2>2, <2>3 DEF ArgsTypeOK
  <2>5. SpareEmpty /\ ArgsOwn
    BY <2>2 DEF SpareEmpty, ArgsOwn
  <2> QED BY <2>4, <2>5 DEF ArgsInv
<1>5. Streaming
  <2>1. <<>> \in Seq(Seq(ArgBytes)) /\ Len(<<>>) = 0
    BY EmptySeq
  <2>2. cs \in Streams /\ cs.pos = 0 /\ cs.nargs = 0 /\ cs.arg = 0 /\ Len(cs.inline) = 0
    BY <1>1, <2>1, NewStreamIs
  <2>3. cs.pos <= cs.nargs + Len(cs.inline) /\ (cs.arg > 0 => cs.pos > 0)
    BY <2>2
  <2>4. orderly \in BOOLEAN
    BY <1>1, Zenon
  <2> QED BY <1>1, <2>1, <2>2, <2>3, <2>4 DEF Streaming
<1> QED
  BY <1>3, <1>4, <1>5 DEF Types

LEMMA PeekCmdTypes ==
    ASSUME Types, PeekCmd, UNCHANGED streamVars
    PROVE  Types' /\ (rd'.whole => rd.whole)
<1>1. PICK o \in peekCmd(rd, offset) :
          /\ rd' = o.s
          /\ pc' = Resume(o.e, "bad", "peek", "perform")
          /\ offset' = IF o.e = "empty" THEN offset + Len(o.v) ELSE 0
          /\ names' = IF o.e = "ok" THEN Append(names, o.v) ELSE names
  BY DEF PeekCmd
<1>2. pc = "peek" /\ UNCHANGED <<requests, parts, left, got, argVars>>
  BY DEF PeekCmd
<1>3. Reading /\ ArgsInv /\ Streaming
  BY DEF Types
<1>4. /\ o.s \in Readers /\ o.e \in Errors \cup {"empty"}
      /\ o.s.whole => rd.whole
      /\ o.e = "ok" => o.v \in Seq(ArgBytes)
      /\ o.e = "empty" => Len(o.v) \in Nat
  BY <1>3, peekCmdIs DEF Reading
<1>5. o.e \in Errors \cup {"empty", "blank"}
  BY <1>4
<1>6. /\ o.e = "ok" => pc' = "perform"
      /\ o.e \in {"empty", "blank"} => pc' = "peek"
      /\ o.e \in {"protocol", "toolong"} => pc' = "bad"
      /\ o.e = "EOF" => pc' = "end"
      /\ o.e = "panic" => pc' = "panic"
  BY <1>1, <1>5 DEF Resume, Again, Errors
<1>7. offset' \in Nat
  BY <1>1, <1>3, <1>4 DEF Reading
<1>8. names' \in Seq(Seq(ArgBytes)) /\ Len(got') <= Len(names') /\ (pc' = "perform" => Len(got') < Len(names'))
  <2>1. names \in Seq(Seq(ArgBytes)) /\ got \in Seq(Seq(Seq(ArgBytes))) /\ Len(got) <= Len(names) /\ got' = got
    BY <1>2, <1>3 DEF Reading
  <2>2. Len(names) \in Nat /\ Len(got) \in Nat
    BY <2>1, LenProperties
  <2>3. CASE o.e = "ok"
    <3>1. names' \in Seq(Seq(ArgBytes)) /\ Len(names') = Len(names) + 1
      BY <1>1, <1>4, <2>1, <2>3, AppendProperties
    <3>2. Len(got) < Len(names) + 1 /\ Len(got) <= Len(names) + 1
      BY <2>1, <2>2
    <3> QED BY <2>1, <3>1, <3>2
  <2>4. CASE o.e # "ok"
    <3>1. pc' # "perform"
      BY <1>5, <1>6, <2>4 DEF Errors
    <3> QED BY <1>1, <2>1, <2>4, <3>1
  <2> QED BY <2>3, <2>4
<1>9. pc' \in {"peek", "perform", "bad", "end", "panic"}
  BY <1>5, <1>6 DEF Errors
<1>10. Reading'
  BY <1>1, <1>2, <1>3, <1>4, <1>7, <1>8, <1>9 DEF Reading, Places
<1>11. ArgsInv'
  BY <1>2, <1>3, ArgsUnchanged
<1>12. Streaming'
  BY <1>2, <1>3, <1>9, StreamingKept
<1> QED
  BY <1>1, <1>4, <1>10, <1>11, <1>12 DEF Types

LEMMA ReadCmdTypes ==
    ASSUME Types, ReadCmd, UNCHANGED streamVars
    PROVE  Types' /\ (rd'.whole => rd.whole)
<1>1. PICK o \in readCommand(rd) :
          /\ rd' = o.s
          /\ pc' = Resume(o.e, "peek", "read", "args")
          /\ IF o.e = "ok" THEN parts' = o.v.args /\ left' = o.v.left
                           ELSE UNCHANGED <<parts, left>>
          /\ IF o.e = "ok" \/ Again(o.e) THEN UNCHANGED argVars ELSE ReadFails
  BY DEF ReadCmd
<1>2. pc \in {"perform", "read"} /\ UNCHANGED <<requests, offset, names, got>>
  BY DEF ReadCmd
<1>3. Reading /\ ArgsInv /\ Streaming
  BY DEF Types
<1>4. /\ o.s \in Readers /\ o.e \in Errors \cup {"empty", "blank"}
      /\ o.s.whole => rd.whole
      /\ o.e = "ok" => /\ o.v.args \in Seq(Seq(ArgBytes)) /\ o.v.args # <<>>
                       /\ o.v.left \in Nat
  BY <1>3, readCommandIs DEF Reading
<1>5. /\ o.e = "ok" => pc' = "args"
      /\ o.e # "ok" => pc' \in {"read", "peek", "end", "panic"}
  BY <1>1, <1>4 DEF Resume, Again, Errors
<1>6. parts' \in Seq(Seq(ArgBytes)) /\ left' \in Nat /\ (pc' = "args" => parts' # <<>>)
  BY <1>1, <1>3, <1>4, <1>5 DEF Reading
<1>7. pc' \in {"args", "read", "peek", "end", "panic"}
  BY <1>5
<1>8. Len(got) <= Len(names) /\ Len(got) < Len(names) /\ pc' # "bulks"
  BY <1>2, <1>3, <1>7 DEF Reading
<1>9. Reading'
  BY <1>1, <1>2, <1>3, <1>4, <1>6, <1>7, <1>8 DEF Reading, Places
<1>10. ArgsInv'
  BY <1>1, <1>3, ArgsUnchanged, ReadFailsStep
<1>11. Streaming'
  BY <1>2, <1>3, <1>7, StreamingKept
<1> QED
  BY <1>1, <1>4, <1>9, <1>10, <1>11 DEF Types

LEMMA EmptySeqs ==
    ASSUME NEW n \in Nat
    PROVE  [i \in 1 .. n |-> <<>>] \in Seq(Seq(ArgBytes)) /\ Len([i \in 1 .. n |-> <<>>]) = n
<1>1. <<>> \in Seq(ArgBytes)
  BY EmptySeq
<1>2. [i \in 1 .. n |-> <<>>] \in [1 .. n -> Seq(ArgBytes)]
  BY <1>1
<1> QED
  BY <1>2, FunctionIsSeq

LEMMA ReadArgTypes ==
    ASSUME Types, ReadArg, UNCHANGED streamVars
    PROVE  Types' /\ (rd'.whole => rd.whole)
<1>1. PICK o \in ReadBulk(rd) :
          /\ rd' = o.s
          /\ pc' = Resume(o.e, "peek", "args", "args")
          /\ IF o.e = "ok"
             THEN /\ parts' = Append(parts, o.v) /\ left' = left - 1
                  /\ UNCHANGED argVars
             ELSE /\ parts' = <<>> /\ left' = 0
                  /\ \E spare \in 0 .. MaxSpare :
                        ReadBulks(Tail(parts) \o [i \in 1 .. left |-> <<>>],
                                  Len(parts) - 1, spare)
  BY DEF ReadArg
<1>2. pc = "args" /\ left > 0 /\ UNCHANGED <<requests, offset, names, got>>
  BY DEF ReadArg
<1>3. Reading /\ ArgsInv /\ Streaming
  BY DEF Types
<1>4. /\ o.s \in Readers /\ o.e \in Errors
      /\ o.s.whole => rd.whole
      /\ o.e = "ok" => o.v \in Seq(ArgBytes)
  BY <1>3, ReadBulkIs DEF Reading
<1>5. /\ o.e = "ok" => pc' = "args"
      /\ o.e # "ok" => pc' \in {"peek", "end", "panic"}
  BY <1>1, <1>4 DEF Resume, Again, Errors
<1>6. parts \in Seq(Seq(ArgBytes)) /\ left \in Nat /\ parts # <<>>
  BY <1>2, <1>3 DEF Reading
<1>7. parts' \in Seq(Seq(ArgBytes)) /\ left' \in Nat /\ (pc' = "args" => parts' # <<>>)
  <2>1. CASE o.e = "ok"
    <3>0. o.v \in Seq(ArgBytes) /\ parts' = Append(parts, o.v)
      BY <1>1, <1>4, <2>1
    <3>1. parts' \in Seq(Seq(ArgBytes)) /\ parts' # <<>>
      BY <1>6, <3>0, AppendProperties
    <3> QED BY <1>1, <1>2, <1>6, <2>1, <3>1
  <2>2. CASE o.e # "ok"
    BY <1>1, <1>5, <2>2, EmptySeq
  <2> QED BY <2>1, <2>2
<1>8. pc' \in {"args", "peek", "end", "panic"}
  BY <1>5
<1>9. Len(got) <= Len(names) /\ Len(got) < Len(names) /\ pc' # "bulks"
  BY <1>2, <1>3, <1>8 DEF Reading
<1>10. Reading'
  BY <1>1, <1>2, <1>3, <1>4, <1>7, <1>8, <1>9 DEF Reading, Places
<1>11. ArgsInv'
  <2>1. CASE o.e = "ok"
    BY <1>1, <1>3, <2>1, ArgsUnchanged
  <2>2. CASE o.e # "ok"
    <3> DEFINE t == Tail(parts)
               z == [i \in 1 .. left |-> <<>>]
    <3>1. PICK spare \in 0 .. MaxSpare : ReadBulks(t \o z, Len(parts) - 1, spare)
      BY <1>1, <2>2
    <3>2. t \in Seq(Seq(ArgBytes)) /\ Len(t) = Len(parts) - 1
      BY <1>6, HeadTailProperties
    <3>3. z \in Seq(Seq(ArgBytes)) /\ Len(z) = left
      BY <1>6, EmptySeqs
    <3>4. Len(t) \in Nat
      BY <3>2, LenProperties
    <3> HIDE DEF t, z
    <3>5. t \o z \in Seq(Seq(ArgBytes)) /\ Len(t \o z) = Len(t) + Len(z)
      BY <3>2, <3>3, ConcatProperties
    <3>6. Len(parts) - 1 \in 0 .. Len(t \o z)
      <4> DEFINE m == Len(t)
      <4>1. m \in Nat /\ Len(parts) - 1 = m /\ Len(t \o z) = m + left
        BY <3>2, <3>3, <3>4, <3>5
      <4> HIDE DEF m
      <4>2. m \in 0 .. m + left
        BY <1>6, <4>1
      <4> QED BY <4>1, <4>2
    <3> QED BY <1>3, <3>1, <3>5, <3>6, ReadBulksStep DEF Contents
  <2> QED BY <2>1, <2>2
<1>12. Streaming'
  BY <1>2, <1>3, <1>8, StreamingKept
<1> QED
  BY <1>1, <1>4, <1>10, <1>11, <1>12 DEF Types

\* What ReadDone adds to got: the name, and the arguments of the Command.
LEMMA ReadDoneGets ==
    ASSUME Types, ReadDone
    PROVE  ArgsInv' /\ <<Head(parts)>> \o SubSeq(mem', 1, argn') = parts
<1>1. pc = "args" /\ left = 0
  BY DEF ReadDone
<1>2. parts \in Seq(Seq(ArgBytes)) /\ parts # <<>> /\ ArgsInv
  BY <1>1 DEF Types, Reading
<1> DEFINE t == Tail(parts)
           h == Head(parts)
<1>3. PICK spare \in 0 .. MaxSpare : ReadBulks(t, Len(parts) - 1, spare)
  BY DEF ReadDone
<1>4. /\ t \in Seq(Seq(ArgBytes)) /\ Len(t) = Len(parts) - 1 /\ Len(t) \in Nat
      /\ h \in Seq(ArgBytes) /\ h = parts[1]
      /\ \A i \in 1 .. Len(t) : t[i] = parts[i + 1]
      /\ Len(parts) \in Nat
  <2>1. h = parts[1]
    BY <1>2
  <2> QED BY <1>2, <2>1, HeadTailProperties, LenProperties
<1>5. Len(parts) - 1 \in 0 .. Len(t)
  BY <1>4
<1>6. ArgsInv'
  <2> HIDE DEF t
  <2> QED BY <1>2, <1>3, <1>4, <1>5, ReadBulksStep DEF Contents
<1>7. argn' = Len(t) /\ sentArgs' = t /\ valid' = TRUE
  <2>1. argn' = Len(t) /\ sentArgs' = t /\ valid' = (Len(parts) - 1 = Len(t))
    BY <1>3 DEF ReadBulks
  <2> QED BY <1>4, <2>1
<1>8. \A i \in 1 .. Len(t) : mem'[i] = t[i]
  BY <1>6, <1>7 DEF ArgsInv, ArgsOwn
<1>9. mem' \in Seq(Seq(ArgBytes)) /\ argn' \in 0 .. Len(mem')
  BY <1>6 DEF ArgsInv, ArgsTypeOK
<1> DEFINE x == SubSeq(mem', 1, argn')
<1>10. x \in Seq(Seq(ArgBytes)) /\ Len(x) = argn' /\ \A i \in 1 .. argn' : x[i] = mem'[i]
  BY <1>9, UptoIs
<1> HIDE DEF x, t, h
<1>11. x = t
  <2>1. Len(x) = Len(t) /\ \A i \in 1 .. Len(x) : x[i] = t[i]
    BY <1>7, <1>8, <1>10
  <2>2. x \in Seq(Seq(ArgBytes)) /\ t \in Seq(Seq(ArgBytes))
    BY <1>4, <1>10
  <2> QED BY <2>1, <2>2, SeqEqual
<1> DEFINE y == <<h>> \o t
<1>12. <<h>> \in Seq(Seq(ArgBytes)) /\ Len(<<h>>) = 1 /\ <<h>>[1] = h
  BY <1>4
<1>13. /\ y \in Seq(Seq(ArgBytes)) /\ Len(y) = Len(<<h>>) + Len(t)
       /\ \A i \in 1 .. Len(<<h>>) + Len(t) : y[i] = IF i <= Len(<<h>>) THEN <<h>>[i] ELSE t[i - Len(<<h>>)]
  BY <1>4, <1>12, ConcatProperties
<1> HIDE DEF y
<1>14. y = parts
  <2> DEFINE n == Len(t)
  <2>1. n \in Nat /\ Len(y) = n + 1 /\ Len(parts) = n + 1
    BY <1>4, <1>12, <1>13
  <2>2. \A i \in 1 .. n + 1 : y[i] = IF i <= 1 THEN h ELSE t[i - 1]
    <3>1. \A i \in 1 .. 1 + n : y[i] = IF i <= 1 THEN <<h>>[i] ELSE t[i - 1]
      BY <1>12, <1>13
    <3> HIDE DEF n
    <3>2. ASSUME NEW i \in 1 .. n + 1 PROVE y[i] = IF i <= 1 THEN h ELSE t[i - 1]
      <4>1. i \in 1 .. 1 + n /\ (i <= 1 => i = 1)
        BY <2>1
      <4> QED BY <1>12, <3>1, <4>1
    <3> QED BY <3>2
  <2>3. \A i \in 1 .. n : t[i] = parts[i + 1]
    BY <1>4
  <2> HIDE DEF n
  <2>4. ASSUME NEW i \in 1 .. n + 1 PROVE y[i] = parts[i]
    <3>1. CASE i = 1
      BY <1>4, <2>1, <2>2, <3>1
    <3>2. CASE i # 1
      <4>1. i - 1 \in 1 .. n /\ ~(i <= 1) /\ (i - 1) + 1 = i
        BY <2>1, <3>2
      <4>2. t[i - 1] = parts[i]
        BY <2>3, <4>1
      <4> QED BY <2>2, <4>1, <4>2
    <3> QED BY <3>1, <3>2
  <2> QED BY <1>2, <1>13, <2>1, <2>4, SeqEqual
<1> QED
  BY <1>6, <1>11, <1>14 DEF x, y, h

LEMMA ReadDoneTypes ==
    ASSUME Types, ReadDone, UNCHANGED streamVars
    PROVE  Types' /\ (rd'.whole => rd.whole) /\ got' = Append(got, parts)
<1>1. /\ pc = "args" /\ left = 0 /\ pc' = "peek" /\ parts' = <<>>
      /\ got' = Append(got, <<Head(parts)>> \o SubSeq(mem', 1, argn'))
      /\ UNCHANGED <<requests, rd, offset, left, names>>
  BY DEF ReadDone
<1>2. ArgsInv' /\ got' = Append(got, parts)
  BY <1>1, ReadDoneGets
<1>3. /\ parts \in Seq(Seq(ArgBytes)) /\ got \in Seq(Seq(Seq(ArgBytes))) /\ Len(got) < Len(names)
      /\ names \in Seq(Seq(ArgBytes))
  BY <1>1 DEF Types, Reading
<1>4. got' \in Seq(Seq(Seq(ArgBytes))) /\ Len(got') <= Len(names)
  <2>1. got' \in Seq(Seq(Seq(ArgBytes))) /\ Len(got') = Len(got) + 1
    BY <1>2, <1>3, AppendProperties
  <2>2. Len(got) \in Nat /\ Len(names) \in Nat
    BY <1>3, LenProperties
  <2>3. Len(got) + 1 <= Len(names)
    BY <1>3, <2>2
  <2> QED BY <2>1, <2>3
<1>5. Reading'
  BY <1>1, <1>4, EmptySeq DEF Types, Reading, Places
<1>6. Streaming'
  BY <1>1, StreamingKept DEF Types
<1> QED
  BY <1>1, <1>2, <1>5, <1>6 DEF Types

LEMMA SkippingIs ==
    ASSUME NEW e \in Errors \cup {"empty"}, NEW n \in Nat
    PROVE  /\ Skipping(e, n) \in {"panic", "skip", "bulks", "peek"}
           /\ Skipping(e, n) = "bulks" <=> e = "ok" /\ n > 0
           /\ e = "empty" <=> Skipping(e, n) = "skip"
           /\ e = "panic" <=> Skipping(e, n) = "panic"
BY DEF Skipping, Errors

LEMMA SkipCmdTypes ==
    ASSUME Types, SkipCmd, UNCHANGED streamVars
    PROVE  Types' /\ (rd'.whole => rd.whole)
<1>1. PICK o \in skipCmd(rd) :
          /\ rd' = o.s
          /\ left' = IF o.e = "ok" THEN o.v ELSE 0
          /\ pc' = Skipping(o.e, left')
          /\ got' = IF pc = "perform" THEN Append(got, <<>>) ELSE got
  BY DEF SkipCmd
<1>2. pc \in {"perform", "bad", "skip"} /\ UNCHANGED <<requests, offset, parts, names, argVars>>
  BY DEF SkipCmd
<1>3. Reading /\ ArgsInv /\ Streaming
  BY DEF Types
<1>4. /\ o.s \in Readers /\ o.e \in Errors \cup {"empty"}
      /\ o.s.whole => rd.whole
      /\ o.e = "ok" => o.v \in Nat
  BY <1>3, skipCmdIs DEF Reading
<1>5. left' \in Nat
  BY <1>1, <1>4
<1>6. pc' \in {"panic", "skip", "bulks", "peek"} /\ (pc' = "bulks" => left' > 0)
  <2>1. /\ Skipping(o.e, left') \in {"panic", "skip", "bulks", "peek"}
        /\ Skipping(o.e, left') = "bulks" => left' > 0
    BY <1>4, <1>5, SkippingIs
  <2> QED BY <1>1, <2>1
<1>7. got' \in Seq(Seq(Seq(ArgBytes))) /\ Len(got') <= Len(names)
  <2>1. /\ got \in Seq(Seq(Seq(ArgBytes))) /\ Len(got) <= Len(names) /\ names \in Seq(Seq(ArgBytes))
        /\ pc = "perform" => Len(got) < Len(names)
    BY <1>3 DEF Reading
  <2>2. Len(got) \in Nat /\ Len(names) \in Nat /\ <<>> \in Seq(Seq(ArgBytes))
    BY <2>1, LenProperties, EmptySeq
  <2>3. CASE pc = "perform"
    <3>1. got' \in Seq(Seq(Seq(ArgBytes))) /\ Len(got') = Len(got) + 1
      BY <1>1, <2>1, <2>2, <2>3, AppendProperties
    <3>2. Len(got) + 1 <= Len(names)
      BY <2>1, <2>2, <2>3
    <3> QED BY <3>1, <3>2
  <2>4. CASE pc # "perform"
    BY <1>1, <2>1, <2>4
  <2> QED BY <2>3, <2>4
<1>8. Reading'
  BY <1>1, <1>2, <1>3, <1>4, <1>5, <1>6, <1>7 DEF Reading, Places
<1>9. ArgsInv'
  BY <1>2, <1>3, ArgsUnchanged
<1>10. Streaming'
  BY <1>2, <1>3, <1>6, StreamingKept
<1> QED
  BY <1>1, <1>4, <1>8, <1>9, <1>10 DEF Types

LEMMA SkipArgTypes ==
    ASSUME Types, SkipArg, UNCHANGED streamVars
    PROVE  Types' /\ (rd'.whole => rd.whole)
<1>1. PICK o \in SkipBulk(rd) :
          /\ rd' = o.s
          /\ left' = IF o.e = "ok" THEN left - 1 ELSE 0
          /\ pc' = Skipping(o.e, left')
  BY DEF SkipArg
<1>2. pc = "bulks" /\ UNCHANGED <<requests, offset, parts, names, got, argVars>>
  BY DEF SkipArg
<1>3. Reading /\ ArgsInv /\ Streaming
  BY DEF Types
<1>4. o.s \in Readers /\ o.e \in Errors /\ (o.s.whole => rd.whole)
  BY <1>3, SkipBulkIs DEF Reading
<1>5. left' \in Nat
  BY <1>1, <1>2, <1>3 DEF Reading
<1>6. pc' \in {"panic", "skip", "bulks", "peek"} /\ (pc' = "bulks" => left' > 0)
  <2>1. /\ Skipping(o.e, left') \in {"panic", "skip", "bulks", "peek"}
        /\ Skipping(o.e, left') = "bulks" => left' > 0
    BY <1>4, <1>5, SkippingIs
  <2> QED BY <1>1, <2>1
<1>7. Reading'
  BY <1>1, <1>2, <1>3, <1>4, <1>5, <1>6 DEF Reading, Places
<1>8. ArgsInv'
  BY <1>2, <1>3, ArgsUnchanged
<1>9. Streaming'
  BY <1>2, <1>3, <1>6, StreamingKept
<1> QED
  BY <1>1, <1>4, <1>7, <1>8, <1>9 DEF Types

LEMMA StreamIs ==
    ASSUME NEW c \in Streams, c.pos = 0, c.arg = 0, NEW o,
           o.e \in Errors \cup {"empty", "blank"},
           o.e = "ok" => /\ o.v.inline \in BOOLEAN
                         /\ o.v.args \in Seq(Seq(ArgBytes)) /\ o.v.args # <<>>
                         /\ o.v.left \in Nat
    PROVE  LET d == Stream(c, o)
           IN  /\ d \in Streams /\ d.pos = 0 /\ d.arg = 0
               /\ o.e \notin {"ok", "empty", "blank"} => d = NewStream
               /\ o.e = "empty" => d = c
               /\ o.e = "blank" => d = [c EXCEPT !.isInline = TRUE]
               /\ o.e = "ok" /\ o.v.inline => d = [c EXCEPT !.isInline = TRUE, !.inline = Tail(o.v.args)]
               /\ o.e = "ok" /\ ~o.v.inline => d = [c EXCEPT !.nargs = o.v.left]
<1> DEFINE d == Stream(c, o)
<1>1. CASE o.e = "ok" /\ o.v.inline
  <2>1. d = [c EXCEPT !.isInline = TRUE, !.inline = Tail(o.v.args)]
    BY <1>1 DEF Stream
  <2>2. Tail(o.v.args) \in Seq(Seq(ArgBytes))
    BY <1>1, HeadTailProperties
  <2> DEFINE t == Tail(o.v.args)
  <2> HIDE DEF t
  <2>3. d = [c EXCEPT !.isInline = TRUE, !.inline = t] /\ t \in Seq(Seq(ArgBytes))
    BY <2>1, <2>2 DEF t
  <2>4. d \in Streams /\ d.pos = c.pos /\ d.arg = c.arg
    <3> HIDE DEF d
    <3> QED BY <2>3 DEF Streams
  <2> QED BY <1>1, <2>1, <2>4
<1>2. CASE o.e = "ok" /\ ~o.v.inline
  <2>1. d = [c EXCEPT !.nargs = o.v.left]
    BY <1>2 DEF Stream
  <2>2. d \in Streams /\ d.pos = c.pos /\ d.arg = c.arg
    <3> HIDE DEF d
    <3> QED BY <1>2, <2>1 DEF Streams
  <2> QED BY <1>2, <2>1, <2>2
<1>3. CASE o.e = "blank"
  <2>1. d = [c EXCEPT !.isInline = TRUE]
    BY <1>3 DEF Stream
  <2>2. d \in Streams /\ d.pos = c.pos /\ d.arg = c.arg
    <3> HIDE DEF d
    <3> QED BY <2>1 DEF Streams
  <2> QED BY <1>3, <2>1, <2>2
<1>4. CASE o.e = "empty"
  BY <1>4 DEF Stream
<1>5. CASE o.e \notin {"ok", "empty", "blank"}
  <2>1. d = NewStream
    BY <1>5 DEF Stream
  <2> QED BY <1>5, <2>1, NewStreamIs
<1> QED
  BY <1>1, <1>2, <1>3, <1>4, <1>5

LEMMA StreamCmdTypes ==
    ASSUME Types, StreamCmd
    PROVE  Types' /\ (rd'.whole => rd.whole) /\ (orderly' => orderly)
<1>1. PICK o \in readCommand(rd) :
          /\ rd' = o.s
          /\ cs' = Stream(cs, o)
          /\ pc' = Resume(o.e, "peek", "stream", "handler")
          /\ got' = IF o.e = "ok" THEN Append(got, <<>>) ELSE got
  BY DEF StreamCmd
<1>2. /\ pc \in {"perform", "stream"}
      /\ UNCHANGED <<requests, offset, parts, left, names, argVars, data, orderly>>
  BY DEF StreamCmd, loopVars
<1>3. Reading /\ ArgsInv /\ Streaming
  BY DEF Types
<1>4. /\ o.s \in Readers /\ o.e \in Errors \cup {"empty", "blank"}
      /\ o.s.whole => rd.whole
      /\ o.e = "ok" => /\ o.v.inline \in BOOLEAN
                       /\ o.v.args \in Seq(Seq(ArgBytes)) /\ o.v.args # <<>>
                       /\ o.v.left \in Nat
  BY <1>3, readCommandIs DEF Reading
<1>5. /\ o.e = "ok" => pc' = "handler"
      /\ o.e \in {"empty", "blank"} => pc' = "stream"
      /\ o.e \notin {"ok", "empty", "blank"} => pc' \in {"peek", "end", "panic"}
  BY <1>1, <1>4 DEF Resume, Again, Errors
<1>6. cs \in Streams /\ cs.pos = 0 /\ cs.arg = 0 /\ data = <<>>
  BY <1>2, <1>3 DEF Streaming
<1>7. /\ cs' \in Streams /\ cs'.pos = 0 /\ cs'.arg = 0
      /\ o.e \notin {"ok", "empty", "blank"} => cs' = NewStream
  BY <1>1, <1>4, <1>6, StreamIs
<1>8. got' \in Seq(Seq(Seq(ArgBytes))) /\ Len(got') <= Len(names) /\ (pc' = "stream" => Len(got') < Len(names))
  <2>1. /\ got \in Seq(Seq(Seq(ArgBytes))) /\ names \in Seq(Seq(ArgBytes))
        /\ Len(got) < Len(names)
    BY <1>2, <1>3 DEF Reading
  <2>2. Len(got) \in Nat /\ Len(names) \in Nat /\ <<>> \in Seq(Seq(ArgBytes))
    BY <2>1, LenProperties, EmptySeq
  <2>3. CASE o.e = "ok"
    <3>1. got' \in Seq(Seq(Seq(ArgBytes))) /\ Len(got') = Len(got) + 1
      BY <1>1, <2>1, <2>2, <2>3, AppendProperties
    <3>2. Len(got) + 1 <= Len(names)
      BY <2>1, <2>2
    <3>3. pc' # "stream"
      BY <1>5, <2>3
    <3> QED BY <3>1, <3>2, <3>3
  <2>4. CASE o.e # "ok"
    <3>1. Len(got) <= Len(names)
      BY <2>1, <2>2
    <3> QED BY <1>1, <2>1, <2>4, <3>1
  <2> QED BY <2>3, <2>4
<1>9. pc' \in {"handler", "stream", "peek", "end", "panic"}
  BY <1>5
<1>10. Reading'
  BY <1>1, <1>2, <1>3, <1>4, <1>8, <1>9 DEF Reading, Places
<1>11. ArgsInv'
  BY <1>2, <1>3, ArgsUnchanged
<1>12. Streaming'
  <2>1. cs'.pos <= cs'.nargs + Len(cs'.inline)
    <3> DEFINE a == cs'.nargs
               b == Len(cs'.inline)
    <3>1. a \in Nat /\ cs'.inline \in Seq(Seq(ArgBytes))
      BY <1>7 DEF Streams
    <3>2. b \in Nat
      BY <3>1, LenProperties
    <3> HIDE DEF a, b
    <3>3. 0 <= a + b
      BY <3>1, <3>2
    <3> QED BY <1>7, <3>3 DEF a, b
  <2>2. data' = <<>> /\ Len(data') = 0
    BY <1>2, <1>6, EmptySeq
  <2>3. orderly' \in BOOLEAN
    BY <1>2, <1>3 DEF Streaming
  <2>4. pc' \notin {"stream", "handler", "discard", "panic"} => cs' = NewStream
    BY <1>5, <1>7
  <2>5. data' \in Seq(Seq(ArgBytes))
    BY <2>2, EmptySeq
  <2> QED BY <1>7, <2>1, <2>2, <2>3, <2>4, <2>5 DEF Streaming
<1> QED
  BY <1>1, <1>2, <1>4, <1>10, <1>11, <1>12 DEF Types

LEMMA HandlerTypes ==
    ASSUME Types, pc \in {"handler", "discard"}
    PROVE  /\ cs \in Streams /\ cs.pos \in Nat /\ cs.nargs \in Nat /\ cs.arg \in Nat
           /\ cs.isInline \in BOOLEAN
           /\ cs.inline \in Seq(Seq(ArgBytes)) /\ Len(cs.inline) \in Nat
           /\ cs.pos <= cs.nargs + Len(cs.inline) /\ (cs.arg > 0 => cs.pos > 0)
           /\ data \in Seq(Seq(ArgBytes)) /\ Len(data) \in Nat
           /\ pc = "handler" => Len(data) = cs.pos
           /\ rd \in Readers /\ orderly \in BOOLEAN
<1>1. /\ cs \in Streams /\ cs.pos <= cs.nargs + Len(cs.inline) /\ (cs.arg > 0 => cs.pos > 0)
      /\ data \in Seq(Seq(ArgBytes)) /\ (pc = "handler" => Len(data) = cs.pos)
      /\ rd \in Readers /\ orderly \in BOOLEAN
  BY DEF Types, Streaming, Reading
<1>2. /\ cs.pos \in Nat /\ cs.nargs \in Nat /\ cs.arg \in Nat /\ cs.isInline \in BOOLEAN
      /\ cs.inline \in Seq(Seq(ArgBytes))
  BY <1>1 DEF Streams
<1>3. Len(cs.inline) \in Nat /\ Len(data) \in Nat
  BY <1>1, <1>2, LenProperties
<1> QED
  BY <1>1, <1>2, <1>3

\* The steps of a handler and of Discard leave the rest as it was.
LEMMA HandlerKeeps ==
    ASSUME Types, pc \in {"handler", "discard"},
           UNCHANGED <<requests, loopVars, names, got, argVars>>,
           rd' \in Readers, pc' \in {"handler", "discard", "panic", "peek"}
    PROVE  Reading' /\ ArgsInv'
<1>1. Reading /\ ArgsInv
  BY DEF Types
<1>2. UNCHANGED <<requests, offset, parts, left, names, got, argVars>>
  BY DEF loopVars
<1>3. ArgsInv'
  BY <1>1, <1>2, ArgsUnchanged
<1>4. Reading'
  BY <1>1, <1>2 DEF Reading, Places
<1> QED
  BY <1>3, <1>4

LEMMA NextArgTypes ==
    ASSUME Types, NextArg
    PROVE  Types' /\ (rd'.whole => rd.whole) /\ (orderly' => orderly)
<1>1. /\ pc = "handler" /\ More /\ orderly' = (orderly /\ Drained)
      /\ UNCHANGED <<requests, loopVars, names, got, argVars>>
  BY DEF NextArg
<1>2. /\ cs \in Streams /\ cs.pos \in Nat /\ cs.nargs \in Nat /\ cs.arg \in Nat
      /\ cs.isInline \in BOOLEAN
      /\ cs.inline \in Seq(Seq(ArgBytes)) /\ Len(cs.inline) \in Nat
      /\ (cs.arg > 0 => cs.pos > 0)
      /\ data \in Seq(Seq(ArgBytes)) /\ Len(data) \in Nat
      /\ Len(data) = cs.pos /\ rd \in Readers /\ orderly \in BOOLEAN
  BY <1>1, HandlerTypes
<1> DEFINE n == Len(cs.inline)
<1>3. cs.pos + 1 \in Nat /\ cs.pos + 1 <= cs.nargs + n /\ (cs.isInline => cs.pos + 1 \in 1 .. n)
  <2>1. cs.pos < IF cs.isInline THEN n ELSE cs.nargs
    BY <1>1 DEF More, ArgN
  <2>2. n \in Nat
    BY <1>2
  <2> HIDE DEF n
  <2> QED BY <1>2, <2>1, <2>2
<1>4. orderly' \in BOOLEAN /\ (orderly' => orderly)
  BY <1>1, <1>2, Zenon
<1>5. CASE cs.isInline
  <2>1. /\ cs' = [cs EXCEPT !.pos = cs.pos + 1]
        /\ data' = Append(data, cs.inline[cs.pos + 1])
        /\ rd' = rd /\ pc' = pc
    BY <1>5 DEF NextArg
  <2>2. cs.inline[cs.pos + 1] \in Seq(ArgBytes)
    BY <1>2, <1>3, <1>5, ElementOfSeq
  <2>3. data' \in Seq(Seq(ArgBytes)) /\ Len(data') = cs.pos + 1
    BY <1>2, <2>1, <2>2, AppendProperties
  <2>4. cs' \in Streams /\ cs'.pos = cs.pos + 1 /\ cs'.nargs = cs.nargs /\ cs'.inline = cs.inline
    BY <1>2, <1>3, <2>1 DEF Streams
  <2>5. cs'.pos > 0 /\ cs'.pos <= cs'.nargs + Len(cs'.inline)
    BY <1>2, <1>3, <2>4
  <2>6. Streaming'
    BY <1>1, <1>4, <2>1, <2>3, <2>4, <2>5 DEF Streaming
  <2>7. Reading' /\ ArgsInv'
    <3>1. pc' = "handler" /\ rd' \in Readers
      BY <1>1, <1>2, <2>1
    <3> QED BY <1>1, <3>1, HandlerKeeps
  <2> QED BY <1>4, <2>1, <2>6, <2>7 DEF Types
<1>6. CASE ~cs.isInline
  <2>1. PICK o \in ReadBulkLen(rd) :
            /\ rd' = o.s
            /\ pc' = IF o.e = "panic" THEN "panic" ELSE pc
            /\ cs' = [cs EXCEPT !.pos = cs.pos + 1,
                                !.arg = IF o.e = "ok" THEN Size(o) + 2 ELSE 0]
            /\ data' = Append(data, <<>>)
    BY <1>6 DEF NextArg
  <2>2. /\ o.s \in Readers /\ o.e \in Errors
        /\ o.s.whole => rd.whole
        /\ o.e = "ok" => Size(o) \in Nat
    BY <1>2, ReadBulkLenIs
  <2> DEFINE a == IF o.e = "ok" THEN Size(o) + 2 ELSE 0
  <2>3. a \in Nat
    BY <2>2
  <2> HIDE DEF a
  <2>4. data' \in Seq(Seq(ArgBytes)) /\ Len(data') = cs.pos + 1
    BY <1>2, <2>1, EmptySeq, AppendProperties
  <2>5. cs' = [cs EXCEPT !.pos = cs.pos + 1, !.arg = a]
    BY <2>1 DEF a
  <2>6. cs' \in Streams /\ cs'.pos = cs.pos + 1 /\ cs'.nargs = cs.nargs /\ cs'.inline = cs.inline
    BY <1>2, <1>3, <2>3, <2>5 DEF Streams
  <2>7. cs'.pos > 0 /\ cs'.pos <= cs'.nargs + Len(cs'.inline)
    BY <1>2, <1>3, <2>6
  <2>8. pc' \in {"handler", "panic"}
    BY <1>1, <2>1
  <2>9. Streaming'
    BY <1>4, <2>4, <2>6, <2>7, <2>8 DEF Streaming
  <2>10. Reading' /\ ArgsInv'
    <3>1. rd' \in Readers
      BY <2>1, <2>2
    <3> QED BY <1>1, <2>8, <3>1, HandlerKeeps
  <2> QED BY <1>4, <2>1, <2>2, <2>9, <2>10 DEF Types
<1> QED
  BY <1>5, <1>6

LEMMA ConcatAt ==
    ASSUME NEW S, NEW x \in Seq(S), NEW y \in Seq(S)
    PROVE  /\ x \o y \in Seq(S) /\ Len(x \o y) = Len(x) + Len(y)
           /\ \A j \in 1 .. Len(x) : (x \o y)[j] = x[j]
           /\ \A j \in 1 .. Len(y) : (x \o y)[Len(x) + j] = y[j]
<1> DEFINE l == Len(x)
           m == Len(y)
           u == x \o y
<1>1. /\ l \in Nat /\ m \in Nat /\ u \in Seq(S) /\ Len(u) = l + m
      /\ \A j \in 1 .. l + m : u[j] = IF j <= l THEN x[j] ELSE y[j - l]
  BY ConcatProperties, LenProperties
<1> HIDE DEF l, m, u
<1>2. ASSUME NEW j \in 1 .. l PROVE u[j] = x[j]
  BY <1>1
<1>3. ASSUME NEW j \in 1 .. m PROVE u[l + j] = y[j]
  <2>1. l + j \in 1 .. l + m /\ ~(l + j <= l) /\ l + j - l = j
    BY <1>1
  <2> QED BY <1>1, <2>1
<1> QED
  BY <1>1, <1>2, <1>3 DEF l, m, u

\* The first bytes of what begins with x.
LEMMA UptoConcat ==
    ASSUME NEW S, NEW x \in Seq(S), NEW y \in Seq(S), NEW k \in 0 .. Len(x)
    PROVE  SubSeq(x \o y, 1, k) = SubSeq(x, 1, k)
<1> DEFINE u == x \o y
           l == Len(x)
           m == Len(y)
           a == SubSeq(u, 1, k)
           b == SubSeq(x, 1, k)
<1>1. /\ u \in Seq(S) /\ Len(u) = l + m /\ l \in Nat /\ m \in Nat /\ k \in 0 .. l
      /\ \A j \in 1 .. l : u[j] = x[j]
  BY ConcatAt, LenProperties
<1> HIDE DEF u
<1>2. k \in 0 .. Len(u) /\ k \in Nat /\ k <= l
  <2>1. k \in 0 .. l + m /\ k \in Nat /\ k <= l
    <3> HIDE DEF l, m
    <3> QED BY <1>1
  <2> QED BY <1>1, <2>1
<1>3. a \in Seq(S) /\ Len(a) = k /\ \A j \in 1 .. k : a[j] = u[j]
  BY <1>1, <1>2, UptoIs
<1>4. b \in Seq(S) /\ Len(b) = k /\ \A j \in 1 .. k : b[j] = x[j]
  BY UptoIs
<1> HIDE DEF a, b, l
<1>5. ASSUME NEW j \in 1 .. k PROVE a[j] = b[j]
  <2>1. j \in 1 .. l
    BY <1>1, <1>2
  <2> QED BY <1>1, <1>3, <1>4, <2>1
<1>6. Len(a) = Len(b) /\ Len(a) = k
  BY <1>3, <1>4
<1>7. a = b
  BY <1>3, <1>4, <1>5, <1>6, SeqEqual
<1> QED
  BY <1>7 DEF a, b, u

\* What a call of bulkReader.Read that has l bytes left and reads k reports: all
\* of them until it comes to the two bytes that end the bulk, and then what was
\* left without these two, which is -1 when only the LF was.
LEMMA ReportedIs ==
    ASSUME NEW l \in Nat, l > 0, NEW k \in 0 .. l
    PROVE  /\ Reported(k, l - k) \in Int
           /\ Reported(k, l - k) >= -1 /\ Reported(k, l - k) <= k
           /\ l - k >= 2 => Reported(k, l - k) = k
           /\ l - k < 2 => Reported(k, l - k) = l - 2
BY DEF Reported

\* What a handler makes of such a report: it adds to what it has got, or drops the
\* last byte of it.
LEMMA CountedIs ==
    ASSUME NEW S, NEW d \in Seq(S), NEW v \in Seq(S), NEW n \in Int, n >= -1, n <= Len(v)
    PROVE  /\ Counted(d, v, n) \in Seq(S)
           /\ n >= 0 => Counted(d, v, n) = d \o SubSeq(v, 1, n)
           /\ n = -1 => Counted(d, v, n) = SubSeq(d, 1, Len(d) - 1)
<1> DEFINE u == d \o v
           l == Len(d)
           m == Len(v)
           a == SubSeq(u, 1, l + n)
<1>1. /\ u \in Seq(S) /\ Len(u) = l + m /\ l \in Nat /\ m \in Nat /\ n <= m
      /\ \A j \in 1 .. l : u[j] = d[j]
      /\ \A j \in 1 .. m : u[l + j] = v[j]
  BY ConcatAt, LenProperties
<1>2. Counted(d, v, n) = a
  BY DEF Counted
<1>3. CASE n >= 0
  <2> DEFINE w == SubSeq(v, 1, n)
             b == d \o w
  <2>1. n \in 0 .. m /\ n \in Nat
    <3> HIDE DEF m
    <3> QED BY <1>1, <1>3
  <2>2. w \in Seq(S) /\ Len(w) = n /\ \A j \in 1 .. n : w[j] = v[j]
    BY <2>1, UptoIs
  <2>3. l + n \in 0 .. Len(u)
    <3>1. l + n \in 0 .. l + m
      <4> HIDE DEF l, m
      <4> QED BY <1>1, <2>1
    <3> QED BY <1>1, <3>1
  <2>4. a \in Seq(S) /\ Len(a) = l + n /\ \A j \in 1 .. l + n : a[j] = u[j]
    BY <1>1, <2>3, UptoIs
  <2> HIDE DEF w
  <2>5. /\ b \in Seq(S) /\ Len(b) = l + n
        /\ \A j \in 1 .. l : b[j] = d[j]
        /\ \A j \in 1 .. n : b[l + j] = w[j]
    <3>1. /\ b \in Seq(S) /\ Len(b) = Len(d) + Len(w)
          /\ \A j \in 1 .. Len(d) : b[j] = d[j]
          /\ \A j \in 1 .. Len(w) : b[Len(d) + j] = w[j]
      <4>1. d \in Seq(S) /\ w \in Seq(S)
        BY <2>2
      <4> QED BY <4>1, ConcatAt
    <3> HIDE DEF b
    <3> QED BY <2>2, <3>1
  <2> HIDE DEF a, b, u, l, m
  <2>6. ASSUME NEW j \in 1 .. l + n PROVE a[j] = b[j]
    <3>1. CASE j <= l
      <4>1. j \in 1 .. l
        BY <1>1, <2>1, <3>1
      <4> QED BY <1>1, <2>4, <2>5, <4>1
    <3>2. CASE ~(j <= l)
      <4>1. PICK i : i = j - l
        OBVIOUS
      <4>2. i \in 1 .. n /\ i \in 1 .. m /\ j = l + i
        BY <1>1, <2>1, <3>2, <4>1
      <4> QED BY <1>1, <2>2, <2>4, <2>5, <4>2
    <3> QED BY <3>1, <3>2
  <2>7. Len(a) = Len(b) /\ Len(a) = l + n
    BY <2>4, <2>5
  <2>8. a = b
    BY <2>4, <2>5, <2>6, <2>7, SeqEqual
  <2>9. ~(n = -1)
    BY <1>3
  <2> QED BY <1>2, <2>4, <2>8, <2>9 DEF b, w
<1>4. CASE n = -1 /\ l > 0
  <2>1. l - 1 \in 0 .. l /\ l + n = l - 1 /\ ~(n >= 0)
    <3> HIDE DEF l
    <3> QED BY <1>1, <1>4
  <2>2. SubSeq(u, 1, l - 1) = SubSeq(d, 1, l - 1)
    BY <2>1, UptoConcat
  <2>3. SubSeq(d, 1, l - 1) \in Seq(S)
    BY <2>1, UptoIs
  <2> QED BY <1>2, <1>4, <2>1, <2>2, <2>3
<1>5. CASE n = -1 /\ ~(l > 0)
  <2>1. l = 0 /\ l + n = -1 /\ l - 1 = -1 /\ ~(n >= 0)
    <3> HIDE DEF l
    <3> QED BY <1>1, <1>5
  <2>2. SubSeq(u, 1, -1) = <<>> /\ SubSeq(d, 1, -1) = <<>> /\ <<>> \in Seq(S)
    BY <1>1, EmptySeq
  <2> QED BY <1>2, <1>5, <2>1, <2>2
<1> QED
  <2>1. n >= 0 \/ n = -1
    OBVIOUS
  <2> QED BY <1>3, <1>4, <1>5, <2>1

LEMMA ReadTypes ==
    ASSUME Types, NEW m \in 1 .. MaxRead, Read(m)
    PROVE  Types' /\ (rd'.whole => rd.whole) /\ (orderly' => orderly)
<1> DEFINE room == Min({m, cs.arg})
<1>1. PICK o \in bulkBytes(rd, room) :
          /\ rd' = o.s
          /\ pc' = IF o.e = "panic" THEN "panic" ELSE pc
          /\ cs' = [cs EXCEPT !.arg = cs.arg - Len(o.v)]
          /\ data' = [data EXCEPT ![Len(data)] =
                        Counted(@, o.v, Reported(Len(o.v), cs.arg - Len(o.v)))]
  BY DEF Read
<1>2. /\ pc = "handler" /\ cs.arg > 0
      /\ UNCHANGED <<requests, loopVars, names, got, argVars>> /\ orderly' = orderly
  BY DEF Read
<1>3. /\ cs \in Streams /\ cs.pos \in Nat /\ cs.nargs \in Nat /\ cs.arg \in Nat
      /\ cs.inline \in Seq(Seq(ArgBytes)) /\ Len(cs.inline) \in Nat
      /\ cs.pos <= cs.nargs + Len(cs.inline) /\ (cs.arg > 0 => cs.pos > 0)
      /\ data \in Seq(Seq(ArgBytes)) /\ Len(data) \in Nat
      /\ Len(data) = cs.pos /\ rd \in Readers /\ orderly \in BOOLEAN
  BY <1>2, HandlerTypes
<1>4. room \in Nat /\ room >= 1 /\ room <= cs.arg
  <2>1. m \in Nat /\ m >= 1
    BY StreamAssumption
  <2>2. room = IF m <= cs.arg THEN m ELSE cs.arg
    <3> DEFINE a == cs.arg
    <3>1. m \in Int /\ a \in Int /\ room = Min({m, a})
      BY <1>3, <2>1
    <3> HIDE DEF a, room
    <3>2. Min({m, a}) = IF m <= a THEN m ELSE a
      BY <3>1, MinOfTwo
    <3> QED BY <3>1, <3>2 DEF a
  <2> HIDE DEF room
  <2> QED BY <1>2, <1>3, <2>1, <2>2
<1> HIDE DEF room
<1>5. /\ o.s \in Readers /\ o.e \in {"ok", "EOF", "panic"} /\ o.s.whole = rd.whole
      /\ o.v \in Seq(ArgBytes) /\ Len(o.v) <= room
  BY <1>3, <1>4, bulkBytesIs
<1> DEFINE k == Len(o.v)
           n == Reported(k, cs.arg - k)
<1>6. k \in Nat /\ cs.arg - k \in Nat /\ k \in 0 .. cs.arg
  <2>1. k \in Nat /\ k <= room
    BY <1>5, LenProperties
  <2> HIDE DEF k
  <2> QED BY <1>3, <1>4, <2>1
<1>7. n \in Int /\ n >= -1 /\ n <= k
  BY <1>2, <1>3, <1>6, ReportedIs
<1>8. data' \in Seq(Seq(ArgBytes)) /\ Len(data') = Len(data)
  <2> DEFINE i == Len(data)
             y == Counted(data[i], o.v, n)
  <2>1. data' = [data EXCEPT ![i] = y]
    BY <1>1
  <2>2. i \in 1 .. Len(data)
    BY <1>2, <1>3
  <2>3. data[i] \in Seq(ArgBytes)
    BY <1>3, <2>2, ElementOfSeq
  <2> HIDE DEF n, i
  <2>4. y \in Seq(ArgBytes)
    BY <1>5, <1>7, <2>3, CountedIs
  <2> HIDE DEF y
  <2> QED BY <1>3, <2>1, <2>2, <2>4, ExceptSeq
<1> DEFINE a == cs.arg - k
<1>9. cs' = [cs EXCEPT !.arg = a] /\ a \in Nat
  BY <1>1, <1>6
<1> HIDE DEF a
<1>10. cs' \in Streams /\ cs'.pos = cs.pos /\ cs'.nargs = cs.nargs /\ cs'.inline = cs.inline
  BY <1>3, <1>9 DEF Streams
<1>11. cs'.pos > 0 /\ cs'.pos <= cs'.nargs + Len(cs'.inline)
  BY <1>2, <1>3, <1>10
<1>12. pc' \in {"handler", "panic"}
  BY <1>1, <1>2
<1>13. Streaming'
  BY <1>2, <1>3, <1>8, <1>10, <1>11, <1>12 DEF Streaming
<1>14. Reading' /\ ArgsInv'
  <2>1. rd' \in Readers
    BY <1>1, <1>5
  <2> QED BY <1>2, <1>12, <2>1, HandlerKeeps
<1> QED
  BY <1>1, <1>2, <1>5, <1>13, <1>14 DEF Types

LEMMA DiscardTypes ==
    ASSUME Types, Discard
    PROVE  Types' /\ (rd'.whole => rd.whole) /\ (orderly' => orderly)
<1>1. /\ pc = "handler" /\ pc' = "discard"
      /\ UNCHANGED <<requests, loopVars, names, got, argVars>> /\ orderly' = orderly /\ data' = data
  BY DEF Discard
<1>2. /\ cs \in Streams /\ cs.pos \in Nat /\ cs.nargs \in Nat /\ cs.arg \in Nat
      /\ cs.isInline \in BOOLEAN
      /\ cs.inline \in Seq(Seq(ArgBytes)) /\ Len(cs.inline) \in Nat
      /\ cs.pos <= cs.nargs + Len(cs.inline) /\ (cs.arg > 0 => cs.pos > 0)
      /\ data \in Seq(Seq(ArgBytes)) /\ rd \in Readers /\ orderly \in BOOLEAN
  BY <1>1, HandlerTypes
<1>3. CASE cs.isInline /\ More
  <2> DEFINE n == Len(cs.inline)
  <2>1. cs' = [cs EXCEPT !.pos = n] /\ rd' = rd
    BY <1>3 DEF Discard, ArgN
  <2>2. n \in Nat /\ cs.pos < n
    BY <1>2, <1>3 DEF More, ArgN
  <2>3. cs' \in Streams /\ cs'.pos = n /\ cs'.nargs = cs.nargs /\ cs'.inline = cs.inline /\ cs'.arg = cs.arg
    <3> HIDE DEF n
    <3> QED BY <1>2, <2>1, <2>2 DEF Streams
  <2>4. Len(cs'.inline) = n
    BY <2>3
  <2>5. cs'.pos > 0 /\ cs'.pos <= cs'.nargs + Len(cs'.inline)
    <3> HIDE DEF n
    <3> QED BY <1>2, <2>2, <2>3, <2>4
  <2>6. Streaming'
    BY <1>1, <1>2, <2>3, <2>5 DEF Streaming
  <2>7. Reading' /\ ArgsInv'
    <3>1. rd' \in Readers
      BY <1>2, <2>1
    <3> QED BY <1>1, <3>1, HandlerKeeps
  <2> QED BY <1>1, <2>1, <2>6, <2>7 DEF Types
<1>4. CASE ~(cs.isInline /\ More)
  <2>1. /\ cs' = [cs EXCEPT !.arg = 0]
        /\ IF cs.arg > 0 THEN \E o \in skipN(rd, cs.arg) : rd' = o.s ELSE rd' = rd
    BY <1>4 DEF Discard
  <2>2. /\ cs' \in Streams /\ cs'.pos = cs.pos /\ cs'.nargs = cs.nargs /\ cs'.inline = cs.inline
        /\ cs'.arg = 0
    BY <1>2, <2>1 DEF Streams
  <2>3. rd' \in Readers /\ (rd'.whole => rd.whole)
    BY <1>2, <2>1, skipNIs
  <2>4. cs'.pos <= cs'.nargs + Len(cs'.inline) /\ ~(cs'.arg > 0)
    BY <1>2, <2>2
  <2>5. Streaming'
    BY <1>1, <1>2, <2>2, <2>4 DEF Streaming
  <2>6. Reading' /\ ArgsInv'
    BY <1>1, <2>3, HandlerKeeps
  <2> QED BY <1>1, <2>3, <2>5, <2>6 DEF Types
<1> QED
  BY <1>3, <1>4

LEMMA DiscardArgTypes ==
    ASSUME Types, DiscardArg
    PROVE  Types' /\ (rd'.whole => rd.whole) /\ (orderly' => orderly)
<1>1. /\ pc = "discard" /\ cs.pos < cs.nargs /\ cs' = [cs EXCEPT !.pos = cs.pos + 1]
      /\ UNCHANGED <<requests, loopVars, names, got, argVars>> /\ orderly' = orderly /\ data' = data
  BY DEF DiscardArg
<1>2. PICK o \in SkipBulk(rd) : rd' = o.s /\ pc' = IF o.e = "panic" THEN "panic" ELSE pc
  BY DEF DiscardArg
<1>3. /\ cs \in Streams /\ cs.pos \in Nat /\ cs.nargs \in Nat /\ cs.arg \in Nat
      /\ cs.inline \in Seq(Seq(ArgBytes)) /\ Len(cs.inline) \in Nat
      /\ data \in Seq(Seq(ArgBytes)) /\ rd \in Readers /\ orderly \in BOOLEAN
  BY <1>1, HandlerTypes
<1>4. o.s \in Readers /\ (o.s.whole => rd.whole)
  BY <1>3, SkipBulkIs
<1>5. cs' \in Streams /\ cs'.pos = cs.pos + 1 /\ cs'.nargs = cs.nargs /\ cs'.inline = cs.inline
  BY <1>1, <1>3 DEF Streams
<1>6. cs'.pos > 0 /\ cs'.pos <= cs'.nargs + Len(cs'.inline)
  BY <1>1, <1>3, <1>5
<1>7. pc' \in {"discard", "panic"}
  BY <1>1, <1>2
<1>8. Streaming'
  BY <1>1, <1>3, <1>5, <1>6, <1>7 DEF Streaming
<1>9. Reading' /\ ArgsInv'
  <2>1. rd' \in Readers
    BY <1>2, <1>4
  <2> QED BY <1>1, <1>7, <2>1, HandlerKeeps
<1> QED
  BY <1>1, <1>2, <1>4, <1>8, <1>9 DEF Types

LEMMA DiscardDoneTypes ==
    ASSUME Types, DiscardDone
    PROVE  Types' /\ (rd'.whole => rd.whole) /\ (orderly' => orderly)
<1>1. /\ pc = "discard" /\ pc' = "peek" /\ cs' = NewStream /\ data' = <<>> /\ rd' = rd
      /\ UNCHANGED <<requests, loopVars, names, got, argVars>> /\ orderly' = orderly
  BY DEF DiscardDone
<1>2. rd \in Readers /\ orderly \in BOOLEAN
  BY <1>1, HandlerTypes
<1>3. Reading' /\ ArgsInv'
  BY <1>1, <1>2, HandlerKeeps
<1>4. Streaming'
  <2>1. /\ cs' \in Streams /\ cs'.pos = 0 /\ cs'.arg = 0 /\ cs'.nargs = 0 /\ Len(cs'.inline) = 0
        /\ data' \in Seq(Seq(ArgBytes))
    BY <1>1, NewStreamIs, EmptySeq
  <2>2. cs'.pos <= cs'.nargs + Len(cs'.inline) /\ ~(cs'.arg > 0)
    BY <2>1
  <2> QED BY <1>1, <1>2, <2>1, <2>2 DEF Streaming
<1> QED
  BY <1>1, <1>3, <1>4 DEF Types

\* Every step keeps the types, and neither history becomes true again.
LEMMA NextTypes ==
    ASSUME Types, Next
    PROVE  Types' /\ (rd'.whole => rd.whole) /\ (orderly' => orderly) /\ requests' = requests
<1>1. CASE ReaderNext /\ UNCHANGED streamVars
  <2>1. orderly' = orderly
    BY <1>1 DEF streamVars
  <2>2. requests' = requests
    BY <1>1 DEF ReaderNext, PeekCmd, ReadCmd, ReadArg, ReadDone, SkipCmd, SkipArg
  <2>3. Types' /\ (rd'.whole => rd.whole)
    BY <1>1, PeekCmdTypes, ReadCmdTypes, ReadArgTypes, ReadDoneTypes, SkipCmdTypes, SkipArgTypes
       DEF ReaderNext
  <2> QED BY <2>1, <2>2, <2>3
<1>2. CASE StreamNext
  <2>1. requests' = requests
    BY <1>2 DEF StreamNext, StreamCmd, NextArg, Read, Discard, DiscardArg, DiscardDone
  <2>2. Types' /\ (rd'.whole => rd.whole) /\ (orderly' => orderly)
    BY <1>2, StreamCmdTypes, NextArgTypes, ReadTypes, DiscardTypes, DiscardArgTypes, DiscardDoneTypes
       DEF StreamNext
  <2> QED BY <2>1, <2>2
<1> QED
  BY <1>1, <1>2 DEF Next

LEMMA StutterTypes ==
    ASSUME Types, UNCHANGED vars
    PROVE  Types'
<1>1. UNCHANGED <<requests, rd, pc, offset, parts, left, names, got, argVars, cs, data, orderly>>
  BY DEF vars, readerVars, loopVars, streamVars
<1>2. ArgsInv'
  BY <1>1, ArgsUnchanged DEF Types
<1>3. Reading'
  BY <1>1 DEF Types, Reading
<1>4. Streaming'
  BY <1>1 DEF Types, Streaming
<1> QED
  BY <1>2, <1>3, <1>4 DEF Types

\* The arguments whose LF was left for a Read of its own are among those that
\* the handler has begun to read.
Apart == alone \subseteq 1 .. Len(data)

LEMMA ApartNext ==
    ASSUME Types, Types', Apart, Next
    PROVE  Apart'
<1>1. data \in Seq(Seq(ArgBytes)) /\ data' \in Seq(Seq(ArgBytes))
  BY DEF Types, Streaming
<1>2. Len(data) \in Nat /\ Len(data') \in Nat /\ DOMAIN data = 1 .. Len(data)
      /\ DOMAIN data' = 1 .. Len(data')
  BY <1>1, LenProperties
<1>3. CASE data' = data /\ alone' = alone
  BY <1>3 DEF Apart
<1>4. CASE NextArg
  <2>1. alone' = alone /\ \E x : data' = Append(data, x)
    BY <1>4 DEF NextArg
  <2>2. PICK x : data' = Append(data, x)
    BY <2>1
  <2>3. Len(data') = Len(data) + 1
    BY <1>1, <2>2
  <2>4. 1 .. Len(data) \subseteq 1 .. Len(data')
    <3>1. PICK l, m : l = Len(data) /\ m = Len(data')
      OBVIOUS
    <3>2. 1 .. l \subseteq 1 .. m
      BY <1>2, <2>3, <3>1
    <3> QED BY <3>1, <3>2
  <2> QED BY <2>1, <2>4, Zenon DEF Apart
<1>5. ASSUME NEW m \in 1 .. MaxRead, Read(m) PROVE Apart'
  <2>1. /\ pc = "handler" /\ cs.arg > 0 /\ \E x : data' = [data EXCEPT ![Len(data)] = x]
        /\ alone' = IF cs.arg = 1 THEN alone \cup {Len(data)} ELSE alone
    BY <1>5 DEF Read
  <2>2. Len(data) = cs.pos /\ cs.pos > 0
    BY <2>1 DEF Types, Streaming
  <2>3. DOMAIN data' = 1 .. Len(data) /\ Len(data) \in 1 .. Len(data)
    BY <1>2, <2>1, <2>2
  <2>4. 1 .. Len(data') = 1 .. Len(data)
    BY <1>2, <2>3
  <2> QED BY <2>1, <2>3, <2>4, Zenon DEF Apart
<1>6. CASE DiscardDone
  <2>1. alone' = {}
    BY <1>6 DEF DiscardDone
  <2> QED BY <2>1 DEF Apart
<1>7. CASE ReaderNext /\ UNCHANGED streamVars
  BY <1>3, <1>7 DEF streamVars
<1>8. CASE StreamCmd \/ Discard \/ DiscardArg
  BY <1>3, <1>8 DEF StreamCmd, Discard, DiscardArg
<1> QED
  BY <1>4, <1>5, <1>6, <1>7, <1>8 DEF Next, StreamNext

LEMMA TypesImply == Types /\ Apart => TypeOK /\ ArgsOwn
<1> SUFFICES ASSUME Types, Apart PROVE TypeOK /\ ArgsOwn
  OBVIOUS
<1>1. Reading /\ ArgsInv /\ Streaming
  BY DEF Types
<1>2. /\ rd.buf \in Seq(ArgBytes) /\ rd.net \in Seq(ArgBytes)
      /\ rd.r \in Nat /\ rd.over \in 0 .. 1 /\ rd.cap \in Nat
      /\ rd.r + Len(rd.buf) - rd.over <= rd.cap
  BY <1>1, ReaderIs DEF Reading
<1>3. cs.arg \in Nat /\ cs.pos \in 0 .. cs.nargs + Len(cs.inline) /\ orderly \in BOOLEAN
  <2> DEFINE n == cs.nargs + Len(cs.inline)
  <2>1. cs.arg \in Nat /\ cs.pos \in Nat /\ cs.pos <= n /\ n \in Nat /\ orderly \in BOOLEAN
    <3>1. /\ cs.arg \in Nat /\ cs.pos \in Nat /\ cs.nargs \in Nat /\ cs.inline \in Seq(Seq(ArgBytes))
          /\ cs.pos <= cs.nargs + Len(cs.inline) /\ orderly \in BOOLEAN
      BY <1>1 DEF Streaming, Streams
    <3>2. Len(cs.inline) \in Nat
      BY <3>1, LenProperties
    <3> QED BY <3>1, <3>2, SumIsNat
  <2> HIDE DEF n
  <2>2. cs.pos \in 0 .. n
    BY <2>1
  <2> QED BY <2>1, <2>2 DEF n
<1>4. ArgsTypeOK /\ ArgsOwn
  BY <1>1 DEF ArgsInv
<1>5. alone \subseteq 1 .. Len(data)
  BY DEF Apart
<1> QED
  BY <1>1, <1>2, <1>3, <1>4, <1>5 DEF TypeOK, Reading, Places

LEMMA StepTypes ==
    ASSUME Types, Apart, [Next]_vars
    PROVE  Types' /\ Apart'
<1>1. CASE Next
  <2>1. Types'
    BY <1>1, NextTypes
  <2> QED BY <1>1, <2>1, ApartNext
<1>2. CASE UNCHANGED vars
  <2>1. data' = data /\ alone' = alone
    BY <1>2 DEF vars, streamVars
  <2> QED BY <1>2, <2>1, StutterTypes DEF Apart
<1> QED
  BY <1>1, <1>2

LEMMA InitApart == Init => Apart
BY DEF Init, Apart

\* Whatever bytes a client sends, cut into segments in any way: the positions
\* of the reader stay those of a slice and r runs past w by one byte at most, the
\* stream counts no more arguments than its command has, and a recycled Command
\* has the arguments it was sent with (RequestReader.ReadCmd).
THEOREM ReaderTypes == Spec => [](TypeOK /\ ArgsOwn)
<1>1. Types /\ Apart /\ [Next]_vars => Types' /\ Apart'
  BY StepTypes
<1> QED
  BY InitTypes, InitApart, <1>1, TypesImply, PTL DEF Spec

(***************************************************************************)
(* Whole lines.  While every Read ends at the end of a line, a line that   *)
(* has begun to arrive is in the buffer, and a method of the reader takes  *)
(* the bytes that were written for it and no other.                        *)
(***************************************************************************)
\* A line: no CR before the one that ends it, and no segment ends inside it.
IsLine(L) ==
    /\ Len(L) >= 2
    /\ L[Len(L) - 1].k = "r"
    /\ \A j \in 1 .. Len(L) - 2 : L[j].k # "r"
    /\ \A j \in 1 .. Len(L) - 1 : ~L[j].end

HasAt(u, off, L) == off + Len(L) <= Len(u) /\ \A j \in 1 .. Len(L) : u[off + j] = L[j]

LEMMA LineToWhole ==
    ASSUME NEW s \in Readers, Tidy(s), NEW off \in Nat, off < Len(s.buf),
           NEW L \in Seq(Tokens), IsLine(L), HasAt(Unread(s), off, L)
    PROVE  /\ Ends(s, off) # {} /\ off + Len(L) <= Len(s.buf)
           /\ \A o \in LineTo(s, off) : o = Res(s, L, "ok")
<1> DEFINE b == Len(s.buf)
           n == Len(L)
           u == Unread(s)
           c == off + n - 1
<1>1. b \in Nat /\ n \in Nat /\ n >= 2 /\ off < b /\ s.buf \in Seq(ArgBytes)
  <2>1. n \in Nat
    BY LenProperties
  <2>2. n >= 2
    BY DEF IsLine
  <2> QED BY <2>1, <2>2, ReaderIs
<1>2. \A j \in 1 .. b : u[j] = s.buf[j] /\ s.buf[j] \in ArgBytes
  BY <1>1, UnreadIs, ElementOfSeq
<1>3. \A j \in 1 .. n : u[off + j] = L[j]
  BY DEF HasAt
<1>4. L[n - 1].k = "r" /\ (\A j \in 1 .. n - 2 : L[j].k # "r") /\ (\A j \in 1 .. n - 1 : ~L[j].end)
  BY DEF IsLine
<1>5. s.buf[b].end
  <2>1. s.buf # <<>>
    <3>1. b # 0
      BY <1>1
    <3> QED BY <3>1, EmptySeq
  <2> QED BY <2>1 DEF Tidy
<1> HIDE DEF b, n, u
<1>6. off + n <= b
  <2> SUFFICES ASSUME ~(off + n <= b) PROVE FALSE
    OBVIOUS
  <2>1. b - off \in 1 .. n - 1 /\ b - off \in 1 .. n /\ off + (b - off) = b /\ b \in 1 .. b
    BY <1>1
  <2>2. u[b] = L[b - off]
    BY <1>3, <2>1
  <2>3. u[b] = s.buf[b]
    BY <1>2, <2>1
  <2> QED BY <1>4, <1>5, <2>1, <2>2, <2>3
<1>7. /\ c \in Nat /\ off + 1 <= c /\ c < b /\ c \in 1 .. b /\ n - 1 \in 1 .. n
      /\ off + (n - 1) = c /\ c + 1 = off + n /\ c + 1 \in 1 .. b /\ n \in 1 .. n
  BY <1>1, <1>6
<1>8. s.buf[c].k = "r"
  <2>1. u[c] = L[n - 1]
    BY <1>3, <1>7
  <2> QED BY <1>2, <1>4, <1>7, <2>1
<1>9. Ends(s, off) # {}
  <2>1. c \in off + 1 .. Len(s.buf)
    BY <1>1, <1>7 DEF b
  <2> QED BY <1>8, <2>1 DEF Ends
<1> DEFINE i == Min(Ends(s, off))
<1>10. /\ i \in Nat /\ off + 1 <= i /\ i <= b /\ s.buf[i].k = "r"
       /\ \A j \in off + 1 .. b : s.buf[j].k = "r" => i <= j
  BY <1>9, EndsIs DEF b
<1> HIDE DEF i, c
<1>11. i = c
  <2>1. i <= c
    <3>1. c \in off + 1 .. b
      BY <1>1, <1>7
    <3> QED BY <1>8, <1>10, <3>1
  <2> SUFFICES ASSUME i < c PROVE FALSE
    BY <1>7, <1>10, <2>1
  <2>2. i - off \in 1 .. n - 2 /\ i - off \in 1 .. n /\ off + (i - off) = i /\ i \in 1 .. b
    BY <1>1, <1>7, <1>10
  <2>3. u[i] = L[i - off]
    BY <1>3, <2>2
  <2>4. u[i] = s.buf[i]
    BY <1>2, <2>2
  <2> QED BY <1>4, <1>10, <2>2, <2>3, <2>4
<1> DEFINE line == SubSeq(s.buf, off + 1, c)
           v == Append(line, s.buf[c + 1])
<1>12. v = L
  <2>1. /\ line \in Seq(ArgBytes) /\ Len(line) = n - 1
        /\ \A j \in 1 .. n - 1 : line[j] = s.buf[off + j]
    <3>1. off + 1 \in Int /\ c \in Int /\ \A j \in off + 1 .. c : s.buf[j] \in ArgBytes
      BY <1>1, <1>2, <1>7
    <3>2. /\ line \in Seq(ArgBytes)
          /\ Len(line) = IF off + 1 <= c THEN c - (off + 1) + 1 ELSE 0
          /\ \A j \in 1 .. c - (off + 1) + 1 : line[j] = s.buf[off + 1 + j - 1]
      BY <3>1, SubSeqProperties
    <3> HIDE DEF line
    <3>3. Len(line) = n - 1
      BY <1>1, <1>7, <3>2
    <3>4. ASSUME NEW j \in 1 .. n - 1 PROVE line[j] = s.buf[off + j]
      <4>1. j \in 1 .. c - (off + 1) + 1 /\ off + 1 + j - 1 = off + j
        BY <1>1, <1>7
      <4> QED BY <3>2, <4>1
    <3> QED BY <3>2, <3>3, <3>4
  <2> HIDE DEF line
  <2>2. s.buf[c + 1] \in ArgBytes /\ s.buf[c + 1] = u[off + n]
    BY <1>2, <1>7
  <2> DEFINE z == s.buf[c + 1]
  <2> HIDE DEF z
  <2>3. /\ Append(line, z) \in Seq(ArgBytes) /\ Len(Append(line, z)) = Len(line) + 1
        /\ \A j \in 1 .. Len(line) : Append(line, z)[j] = line[j]
        /\ Append(line, z)[Len(line) + 1] = z
    BY <2>1, <2>2, AppendProperties DEF z
  <2>4. /\ v \in Seq(ArgBytes) /\ Len(v) = n - 1 + 1
        /\ \A j \in 1 .. n - 1 : v[j] = line[j]
        /\ v[n - 1 + 1] = s.buf[c + 1]
    BY <2>1, <2>3 DEF z
  <2> HIDE DEF v
  <2>5. n - 1 + 1 = n
    BY <1>1
  <2>6. ASSUME NEW j \in 1 .. n PROVE v[j] = L[j]
    <3>1. CASE j = n
      BY <1>3, <1>7, <2>2, <2>4, <2>5, <3>1
    <3>2. CASE j # n
      <4>1. j \in 1 .. n - 1 /\ off + j \in 1 .. b
        BY <1>1, <1>6, <3>2
      <4>2. v[j] = s.buf[off + j]
        BY <2>1, <2>4, <4>1
      <4>3. s.buf[off + j] = u[off + j]
        BY <1>2, <4>1
      <4> QED BY <1>3, <4>2, <4>3
    <3> QED BY <3>1, <3>2
  <2>7. v \in Seq(Tokens)
    BY <2>4, BytesAssumption, SeqMonotonic
  <2>8. Len(v) = Len(L) /\ \A j \in 1 .. Len(v) : v[j] = L[j]
    BY <2>4, <2>5, <2>6 DEF n
  <2> QED BY <2>7, <2>8, SeqEqual
<1>13. ASSUME NEW o \in LineTo(s, off) PROVE o = Res(s, L, "ok")
  <2>1. o \in IF i < Len(s.buf) THEN {Res(s, Append(SubSeq(s.buf, off + 1, i), s.buf[i + 1]), "ok")}
              ELSE IF s.r + i + 1 > s.cap THEN {Res(s, <<>>, "panic")}
              ELSE {Res(s, Append(SubSeq(s.buf, off + 1, i), x), "ok") : x \in {LF, Junk}}
    BY Zenon DEF LineTo, i
  <2>2. i < Len(s.buf)
    BY <1>7, <1>11 DEF b
  <2>3. o = Res(s, Append(SubSeq(s.buf, off + 1, i), s.buf[i + 1]), "ok")
    BY <2>1, <2>2, Zenon
  <2> QED BY <1>11, <1>12, <2>3, Zenon
<1> QED
  BY <1>6, <1>9, <1>13 DEF b, n

LEMMA PeekLineWhole ==
    ASSUME NEW s \in Readers, Tidy(s), NEW off \in Nat, off <= Len(s.buf),
           NEW L \in Seq(Tokens), IsLine(L), HasAt(Unread(s), off, L),
           NEW o \in PeekLine(s, off), o.s.whole
    PROVE  /\ o.e = "ok" /\ o.v = L
           /\ o.s \in Readers /\ Tidy(o.s) /\ Unread(o.s) = Unread(s)
           /\ off + Len(L) <= Len(o.s.buf)
<1>1. \/ Ends(s, off) # {} /\ o \in LineTo(s, off)
      \/ /\ Ends(s, off) = {}
         /\ \E q \in fill(s) :
               \/ q.e # "ok" /\ o = q
               \/ q.e = "ok" /\ Ends(q.s, off) # {} /\ o \in LineTo(q.s, off)
               \/ q.e = "ok" /\ Ends(q.s, off) = {} /\ o = Res(q.s, <<>>, "toolong")
  BY PeekLineCases, SMTT(60)
<1>0. /\ Len(s.buf) \in Nat /\ Len(s.net) \in Nat /\ s.over = 0
      /\ s.buf \in Seq(ArgBytes) /\ s.net \in Seq(ArgBytes)
  BY ReaderIs DEF Tidy
<1>2. CASE Ends(s, off) # {} /\ o \in LineTo(s, off)
  <2>1. off < Len(s.buf)
    <3> DEFINE i == Min(Ends(s, off))
    <3>1. i \in Nat /\ off + 1 <= i /\ i <= Len(s.buf)
      BY <1>2, EndsIs
    <3> HIDE DEF i
    <3> QED BY <1>0, <3>1
  <2>2. off + Len(L) <= Len(s.buf) /\ o = Res(s, L, "ok")
    BY <1>2, <2>1, LineToWhole
  <2>3. o.s = s /\ o.v = L /\ o.e = "ok"
    BY <2>2 DEF Res
  <2> QED BY <2>2, <2>3
<1>3. ASSUME Ends(s, off) = {}, NEW q \in fill(s), q.s.whole
      PROVE  /\ q.e = "ok" /\ q.s \in Readers /\ Tidy(q.s) /\ Unread(q.s) = Unread(s)
             /\ off < Len(q.s.buf) /\ HasAt(Unread(q.s), off, L)
  <2>1. /\ q.s \in Readers /\ q.e \in {"ok", "EOF"} /\ Unread(q.s) = Unread(s)
        /\ q.e = "EOF" => s.net = <<>>
        /\ Tidy(q.s)
        /\ q.e = "ok" => \E m \in 1 .. Len(s.net) : q.s.buf = s.buf \o SubSeq(s.net, 1, m)
    BY <1>0, <1>3, fillIs
  <2> DEFINE l == Len(s.buf)
             k == Len(s.net)
             n == Len(L)
  <2>2. n \in Nat /\ n >= 2 /\ off + n <= l + k /\ l \in Nat /\ k \in Nat /\ off <= l
    <3>1. off + n <= Len(Unread(s))
      BY DEF HasAt
    <3>2. Len(Unread(s)) = l + k
      BY UnreadIs
    <3>3. n \in Nat /\ n >= 2
      BY LenProperties DEF IsLine
    <3> QED BY <1>0, <3>1, <3>2, <3>3
  <2>3. off = l
    <3>1. ~(off < Len(s.buf))
      BY <1>3, LineToWhole
    <3> QED BY <1>0, <3>1
  <2>4. q.e = "ok"
    <3> SUFFICES ASSUME q.e = "EOF" PROVE FALSE
      BY <2>1
    <3>1. k = 0
      BY <2>1, EmptySeq
    <3> HIDE DEF l, k, n
    <3> QED BY <2>2, <2>3, <3>1
  <2>5. off < Len(q.s.buf)
    <3>1. PICK m \in 1 .. Len(s.net) : q.s.buf = s.buf \o SubSeq(s.net, 1, m)
      BY <2>1, <2>4
    <3> DEFINE a == SubSeq(s.net, 1, m)
    <3>2. m \in 0 .. Len(s.net) /\ m \in Nat /\ m >= 1
      BY <1>0
    <3>3. a \in Seq(ArgBytes) /\ Len(a) = m
      BY <1>0, <3>2, UptoIs
    <3> HIDE DEF a
    <3>4. Len(s.buf \o a) = l + m
      BY <1>0, <3>3, ConcatProperties
    <3>5. Len(q.s.buf) = l + m
      BY <3>1, <3>4 DEF a
    <3> HIDE DEF l
    <3> QED BY <2>2, <2>3, <3>2, <3>5
  <2> QED BY <2>1, <2>4, <2>5
<1>4. ASSUME Ends(s, off) = {}, NEW q \in fill(s), q.e # "ok" /\ o = q
      PROVE  FALSE
  BY <1>3, <1>4
<1>5. ASSUME Ends(s, off) = {}, NEW q \in fill(s),
             q.e = "ok" /\ Ends(q.s, off) # {} /\ o \in LineTo(q.s, off)
      PROVE  /\ o.e = "ok" /\ o.v = L
             /\ o.s \in Readers /\ Tidy(o.s) /\ Unread(o.s) = Unread(s)
             /\ off + Len(L) <= Len(o.s.buf)
  <2>1. q.s \in Readers
    BY <1>0, fillIs
  <2>2. o.s = q.s
    BY <1>5, <2>1, LineToIs
  <2>3. /\ q.s \in Readers /\ Tidy(q.s) /\ Unread(q.s) = Unread(s)
        /\ off < Len(q.s.buf) /\ HasAt(Unread(q.s), off, L)
    BY <1>3, <1>5, <2>2
  <2>4. off + Len(L) <= Len(q.s.buf) /\ o = Res(q.s, L, "ok")
    BY <1>5, <2>3, LineToWhole
  <2>5. o.s = q.s /\ o.v = L /\ o.e = "ok"
    BY <2>4 DEF Res
  <2> QED BY <2>3, <2>4, <2>5
<1>6. ASSUME Ends(s, off) = {}, NEW q \in fill(s),
             q.e = "ok" /\ Ends(q.s, off) = {} /\ o = Res(q.s, <<>>, "toolong")
      PROVE  FALSE
  <2>1. o.s = q.s
    BY <1>6, ResIs
  <2>2. /\ q.s \in Readers /\ Tidy(q.s) /\ off < Len(q.s.buf) /\ HasAt(Unread(q.s), off, L)
    BY <1>3, <1>6, <2>1
  <2> QED BY <1>6, <2>2, LineToWhole
<1> QED
  BY <1>1, <1>2, <1>4, <1>5, <1>6

\* PeekLine after the last byte.
LEMMA PeekLineEnd ==
    ASSUME NEW s \in Readers, Tidy(s), NEW off \in Nat, off <= Len(s.buf), Len(Unread(s)) <= off,
           NEW o \in PeekLine(s, off), o.s.whole
    PROVE  o.e = "EOF" /\ o.s \in Readers /\ Tidy(o.s) /\ Unread(o.s) = Unread(s)
<1>1. \/ Ends(s, off) # {} /\ o \in LineTo(s, off)
      \/ /\ Ends(s, off) = {}
         /\ \E q \in fill(s) :
               \/ q.e # "ok" /\ o = q
               \/ q.e = "ok" /\ Ends(q.s, off) # {} /\ o \in LineTo(q.s, off)
               \/ q.e = "ok" /\ Ends(q.s, off) = {} /\ o = Res(q.s, <<>>, "toolong")
  BY PeekLineCases
<1>0. /\ Len(s.buf) \in Nat /\ Len(s.net) \in Nat /\ s.over = 0
      /\ s.buf \in Seq(ArgBytes) /\ s.net \in Seq(ArgBytes)
  BY ReaderIs DEF Tidy
<1> DEFINE l == Len(s.buf)
           k == Len(s.net)
<1>2. l = off /\ k = 0
  <2>1. l + k <= off /\ l \in Nat /\ k \in Nat /\ off <= l
    BY <1>0, UnreadIs
  <2> HIDE DEF l, k
  <2> QED BY <2>1
<1>3. Ends(s, off) = {}
  <2> SUFFICES ASSUME Ends(s, off) # {} PROVE FALSE
    OBVIOUS
  <2> DEFINE i == Min(Ends(s, off))
  <2>1. i \in Nat /\ off + 1 <= i /\ i <= l
    BY EndsIs
  <2> HIDE DEF i, l
  <2> QED BY <1>2, <2>1
<1>4. ASSUME NEW q \in fill(s), q.s.whole
      PROVE  q.e = "EOF" /\ q.s \in Readers /\ Tidy(q.s) /\ Unread(q.s) = Unread(s)
  <2>1. /\ q.s \in Readers /\ q.e \in {"ok", "EOF"} /\ Unread(q.s) = Unread(s)
        /\ Tidy(q.s)
        /\ q.e = "ok" => \E m \in 1 .. k : q.s.buf = s.buf \o SubSeq(s.net, 1, m)
    BY <1>0, <1>4, fillIs
  <2>2. ~(\E m \in 1 .. k : q.s.buf = s.buf \o SubSeq(s.net, 1, m))
    <3> HIDE DEF k
    <3> QED BY <1>2
  <2> QED BY <2>1, <2>2
<1>5. PICK q \in fill(s) :
               \/ q.e # "ok" /\ o = q
               \/ q.e = "ok" /\ Ends(q.s, off) # {} /\ o \in LineTo(q.s, off)
               \/ q.e = "ok" /\ Ends(q.s, off) = {} /\ o = Res(q.s, <<>>, "toolong")
  BY <1>1, <1>3
<1>6. q.s \in Readers
  BY <1>0, fillIs
<1>7. o.s = q.s
  BY <1>5, <1>6, LineToIs DEF Res
<1>8. q.e = "EOF" /\ Tidy(q.s) /\ Unread(q.s) = Unread(s)
  BY <1>4, <1>7
<1>9. o = q
  BY <1>5, <1>8
<1> QED
  BY <1>6, <1>8, <1>9

LEMMA UnreadTokens ==
    ASSUME NEW s \in Readers
    PROVE  Unread(s) \in Seq(Tokens)
BY UnreadIs, BytesAssumption, SeqMonotonic

\* Some bytes are x, and then y.
Begins(u, x, y) ==
    u \in Seq(Tokens) /\ x \in Seq(Tokens) /\ y \in Seq(Tokens) /\ u = x \o y

\* What is left after an offset begins with a line.
LEMMA AfterHas ==
    ASSUME NEW u \in Seq(Tokens), NEW off \in 0 .. Len(u), NEW L, NEW rest,
           Begins(After(u, off), L, rest)
    PROVE  /\ HasAt(u, off, L) /\ off + Len(L) \in 0 .. Len(u)
           /\ After(u, off + Len(L)) = rest
<1>0. L \in Seq(Tokens) /\ rest \in Seq(Tokens) /\ After(u, off) = L \o rest
  BY DEF Begins
<1> DEFINE l == Len(u)
           n == Len(L)
           m == Len(rest)
           c == L \o rest
<1>1. l \in Nat /\ n \in Nat /\ m \in Nat /\ off \in Nat /\ off <= l
  BY <1>0, LenProperties
<1>2. c \in Seq(Tokens) /\ Len(c) = n + m /\ \A j \in 1 .. n : c[j] = L[j]
  BY <1>0, ConcatAt
<1>3. Len(After(u, off)) = l - off /\ \A i \in 1 .. l - off : After(u, off)[i] = u[off + i]
  BY AfterIs
<1>4. l - off = n + m /\ \A i \in 1 .. l - off : c[i] = u[off + i]
  BY <1>0, <1>2, <1>3
<1>5. After(After(u, off), n) = rest
  BY <1>0, AfterFirst
<1> HIDE DEF l, n, m, c
<1>6. off + n <= l /\ off + n \in 0 .. l /\ n \in 0 .. l - off
  BY <1>1, <1>4
<1>7. ASSUME NEW j \in 1 .. n PROVE u[off + j] = L[j]
  <2>1. j \in 1 .. l - off
    BY <1>1, <1>6
  <2> QED BY <1>2, <1>4, <2>1
<1>8. After(After(u, off), n) = After(u, off + n)
  BY <1>6, AfterAfter DEF l
<1> QED
  BY <1>5, <1>6, <1>7, <1>8 DEF HasAt, l, n

LEMMA ReadLineWhole ==
    ASSUME NEW s \in Readers, Tidy(s), NEW L, IsLine(L), NEW rest, Begins(Unread(s), L, rest),
           NEW o \in ReadLine(s), o.s.whole
    PROVE  /\ o.e = "ok" /\ o.v = L
           /\ o.s \in Readers /\ Tidy(o.s) /\ Unread(o.s) = rest
<1>1. PICK q \in PeekLine(s, 0) : \/ q.e = "ok" /\ o = Res(Advance(q.s, Len(q.v)), q.v, "ok")
                                  \/ q.e # "ok" /\ o = q
  BY ReadLineCases
<1>2. /\ Unread(s) \in Seq(Tokens) /\ 0 \in 0 .. Len(Unread(s)) /\ Begins(After(Unread(s), 0), L, rest)
      /\ 0 \in Nat /\ 0 <= Len(s.buf) /\ Len(L) \in Nat /\ L \in Seq(Tokens)
  <2>1. Unread(s) \in Seq(Tokens)
    BY UnreadTokens
  <2>4. L \in Seq(Tokens)
    BY DEF Begins
  <2>2. Len(Unread(s)) \in Nat /\ Len(s.buf) \in Nat /\ Len(L) \in Nat
    BY <2>1, <2>4, ReaderIs, LenProperties
  <2>3. 0 \in 0 .. Len(Unread(s)) /\ 0 <= Len(s.buf)
    BY <2>2
  <2> QED BY <2>1, <2>2, <2>3, <2>4, AfterNone
<1> DEFINE z == 0
<1> HIDE DEF z
<1>3. HasAt(Unread(s), z, L) /\ z + Len(L) \in 0 .. Len(Unread(s)) /\ After(Unread(s), z + Len(L)) = rest
  <2>1. z \in 0 .. Len(Unread(s)) /\ Begins(After(Unread(s), z), L, rest)
    BY <1>2 DEF z
  <2> QED BY <1>2, <2>1, AfterHas
<1>4. q.s \in Readers /\ (q.e = "ok" => q.s.over = 0 /\ q.v \in Seq(ArgBytes))
  BY <1>2, PeekLineIs
<1>5. ASSUME q.s.whole
      PROVE  /\ q.e = "ok" /\ q.v = L /\ Tidy(q.s) /\ Unread(q.s) = Unread(s)
             /\ z + Len(L) <= Len(q.s.buf)
  <2>1. z \in Nat /\ z <= Len(s.buf) /\ q \in PeekLine(s, z)
    BY <1>2 DEF z
  <2> QED BY <1>2, <1>3, <1>5, <2>1, PeekLineWhole
<1>6. CASE q.e # "ok" /\ o = q
  BY <1>5, <1>6
<1>7. CASE q.e = "ok" /\ o = Res(Advance(q.s, Len(q.v)), q.v, "ok")
  <2>1. o.s = Advance(q.s, Len(q.v)) /\ o.v = q.v /\ o.e = "ok"
    BY <1>7, ResIs
  <2>2. Len(q.v) \in 0 .. Len(q.s.buf) \/ Len(q.v) = Len(q.s.buf) + 1
    <3> DEFINE a == Len(q.v)
               b == Len(q.s.buf)
    <3>1. a \in Nat /\ b \in Nat /\ 0 + a <= b + 1
      BY <1>2, <1>4, <1>7, PeekLineIs, ReaderIs
    <3> HIDE DEF a, b
    <3>2. a \in 0 .. b \/ a = b + 1
      BY <3>1
    <3> QED BY <3>2 DEF a, b
  <2>3. q.s.whole
    <3>1. CASE Len(q.v) \in 0 .. Len(q.s.buf)
      <4>1. Advance(q.s, Len(q.v)).whole = q.s.whole
        BY <1>4, <1>7, <3>1, AdvanceIs
      <4> QED BY <2>1, <4>1
    <3>2. CASE Len(q.v) = Len(q.s.buf) + 1
      <4>1. Len(q.v) \in Nat /\ q.s.r + 0 + Len(q.v) <= q.s.cap /\ q.s.r \in Nat
        BY <1>2, <1>4, <1>7, PeekLineIs, ReaderIs
      <4>2. q.s.r + Len(q.v) <= q.s.cap
        BY <4>1
      <4>3. Advance(q.s, Len(q.v)).whole = q.s.whole
        BY <1>4, <1>7, <3>2, <4>1, <4>2, AdvancePast
      <4> QED BY <2>1, <4>3
    <3> QED BY <2>2, <3>1, <3>2
  <2>4. q.v = L /\ Tidy(q.s) /\ Unread(q.s) = Unread(s) /\ z + Len(L) <= Len(q.s.buf)
    BY <1>5, <2>3
  <2>5. Len(L) \in 0 .. Len(q.s.buf)
    <3> DEFINE a == Len(L)
               b == Len(q.s.buf)
    <3>1. a \in Nat /\ b \in Nat /\ 0 + a <= b
      BY <1>2, <1>4, <2>4, ReaderIs DEF z
    <3> HIDE DEF a, b
    <3>2. a \in 0 .. b
      BY <3>1
    <3> QED BY <3>2 DEF a, b
  <2>6. /\ Advance(q.s, Len(L)) \in Readers /\ Unread(Advance(q.s, Len(L))) = After(Unread(q.s), Len(L))
        /\ Tidy(q.s) => Tidy(Advance(q.s, Len(L)))
    BY <1>4, <1>7, <2>5, AdvanceIs
  <2>7. After(Unread(s), Len(L)) = rest
    BY <1>2, <1>3 DEF z
  <2> QED BY <2>1, <2>4, <2>6, <2>7
<1> QED
  BY <1>1, <1>6, <1>7

LEMMA ByteIs ==
    ASSUME NEW k \in Kinds, NEW n \in Nat, NEW e \in BOOLEAN
    PROVE  Byte(k, n, e) \in Tokens
BY Zenon DEF Byte, Tokens

LEMMA SizeBytesIs ==
    ASSUME NEW p \in {"*", "$"}, NEW n \in Nat
    PROVE  LET L == SizeBytes(p, n)
           IN  /\ L \in Seq(Tokens) /\ Len(L) = 3 /\ IsLine(L)
               /\ L[1].k = p /\ L[1].n = n /\ L[2].k = "r" /\ L[3].k = "n"
<1> DEFINE a == Byte(p, n, FALSE)
           L == <<a, CR, LF>>
<1>1. SizeBytes(p, n) = L
  BY Zenon DEF SizeBytes
<1>2. a.k = p /\ a.n = n /\ a.end = FALSE /\ CR.k = "r" /\ CR.end = FALSE /\ LF.k = "n"
  BY DEF Byte, CR, LF
<1>3. a \in Tokens /\ CR \in Tokens /\ LF \in Tokens
  <2>1. p \in Kinds /\ "r" \in Kinds /\ "n" \in Kinds /\ 0 \in Nat
    BY DEF Kinds
  <2>2. TRUE \in BOOLEAN /\ FALSE \in BOOLEAN
    BY Zenon
  <2> QED BY <2>1, <2>2, ByteIs, Zenon DEF CR, LF
<1> HIDE DEF a
<1>4. L \in Seq(Tokens) /\ Len(L) = 3 /\ L[1] = a /\ L[2] = CR /\ L[3] = LF
  BY <1>3
<1> HIDE DEF L
<1>5. IsLine(L)
  BY <1>2, <1>4 DEF IsLine
<1> QED
  BY <1>1, <1>2, <1>4, <1>5

\* A line that holds a number is taken as that number.
LEMMA ParseSizeWhole ==
    ASSUME NEW p \in {"*", "$"}, NEW n \in Nat, NEW q, q.v = SizeBytes(p, n), NEW o \in ParseSize(q, p)
    PROVE  o.s = q.s /\ o.e = "ok" /\ Size(o) = n
<1> DEFINE L == SizeBytes(p, n)
<1>1. /\ L \in Seq(Tokens) /\ Len(L) = 3 /\ L[1].k = p /\ L[1].n = n /\ L[2].k = "r" /\ L[3].k = "n"
  BY SizeBytesIs
<1> HIDE DEF L
<1>2. L[1].k = p /\ \A i \in 2 .. Len(L) : L[i].k \in {"r", "n"}
  <2>1. \A i \in 2 .. Len(L) : i = 2 \/ i = 3
    BY <1>1
  <2> QED BY <1>1, <2>1
<1>3. q.v = L
  BY DEF L
<1>4. o = Res(q.s, SubSeq(q.v, 1, 1), "ok")
  BY <1>2, <1>3 DEF ParseSize
<1>5. o.s = q.s /\ o.e = "ok" /\ o.v = SubSeq(L, 1, 1)
  BY <1>3, <1>4, Zenon DEF Res
<1>6. SubSeq(L, 1, 1)[1] = L[1]
  <2>1. 1 \in 0 .. Len(L) /\ 1 \in 1 .. 1
    BY <1>1
  <2> QED BY <1>1, <2>1, UptoIs
<1> QED
  BY <1>1, <1>5, <1>6 DEF Size

LEMMA SizeLineWhole ==
    ASSUME NEW s \in Readers, Tidy(s), NEW p \in {"*", "$"}, NEW n \in Nat, NEW rest,
           Begins(Unread(s), SizeBytes(p, n), rest), NEW q \in ReadLine(s),
           NEW o \in IF q.e = "ok" THEN ParseSize(q, p) ELSE {q}, o.s.whole
    PROVE  /\ o.e = "ok" /\ Size(o) = n
           /\ o.s \in Readers /\ Tidy(o.s) /\ Unread(o.s) = rest
<1>1. IsLine(SizeBytes(p, n))
  BY SizeBytesIs
<1>2. o.s = q.s
  <2>1. CASE q.e # "ok"
    BY <2>1
  <2>2. CASE q.e = "ok"
    <3>1. q.v \in Seq(ArgBytes) /\ Len(q.v) \in Nat /\ Len(q.v) >= 1
      BY <2>2, ReadLineIs
    <3>2. o \in ParseSize(q, p)
      BY <2>2
    <3> QED BY <3>1, <3>2, ParseSizeIs
  <2> QED BY <2>1, <2>2
<1>3. /\ q.e = "ok" /\ q.v = SizeBytes(p, n)
      /\ q.s \in Readers /\ Tidy(q.s) /\ Unread(q.s) = rest
  BY <1>1, <1>2, ReadLineWhole
<1>4. o.e = "ok" /\ Size(o) = n
  BY <1>3, ParseSizeWhole
<1> QED
  BY <1>2, <1>3, <1>4

LEMMA ReadArrayLenWhole ==
    ASSUME NEW s \in Readers, Tidy(s), NEW n \in Nat, NEW rest,
           Begins(Unread(s), SizeBytes("*", n), rest), NEW o \in ReadArrayLen(s), o.s.whole
    PROVE  /\ o.e = "ok" /\ Size(o) = n
           /\ o.s \in Readers /\ Tidy(o.s) /\ Unread(o.s) = rest
<1>1. PICK q \in ReadLine(s) : o \in IF q.e = "ok" THEN ParseSize(q, "*") ELSE {q}
  BY ReadArrayLenCases
<1> QED
  BY <1>1, SizeLineWhole

LEMMA ReadBulkLenWhole ==
    ASSUME NEW s \in Readers, Tidy(s), NEW n \in Nat, NEW rest,
           Begins(Unread(s), SizeBytes("$", n), rest), NEW o \in ReadBulkLen(s), o.s.whole
    PROVE  /\ o.e = "ok" /\ Size(o) = n
           /\ o.s \in Readers /\ Tidy(o.s) /\ Unread(o.s) = rest
<1>1. PICK q \in ReadLine(s) : o \in IF q.e = "ok" THEN ParseSize(q, "$") ELSE {q}
  BY ReadBulkLenCases
<1> QED
  BY <1>1, SizeLineWhole

LEMMA BulkEndIs == BulkEnd \in Seq(Tokens) /\ Len(BulkEnd) = 2
<1> DEFINE a == Byte("r", 0, TRUE)
<1>1. "r" \in Kinds /\ "n" \in Kinds /\ 0 \in Nat
  BY DEF Kinds
<1>2. TRUE \in BOOLEAN
  BY Zenon
<1>3. a \in Tokens /\ LF \in Tokens
  BY <1>1, <1>2, ByteIs, Zenon DEF LF
<1>4. BulkEnd = <<a, LF>>
  BY Zenon DEF BulkEnd
<1> HIDE DEF a
<1> QED
  BY <1>3, <1>4

LEMMA ArgIs ==
    ASSUME NEW arg \in Seq(ArgBytes)
    PROVE  arg \in Seq(Tokens) /\ Len(arg) \in Nat
BY BytesAssumption, SeqMonotonic, LenProperties

\* A bulk: its length, its bytes and the two that end it.
LEMMA BulkIs ==
    ASSUME NEW arg \in Seq(ArgBytes)
    PROVE  /\ BulkBytes(arg) \in Seq(Tokens)
           /\ arg \o BulkEnd \in Seq(Tokens) /\ Len(arg \o BulkEnd) = Len(arg) + 2
           /\ SizeBytes("$", Len(arg)) \in Seq(Tokens)
           /\ BulkBytes(arg) = SizeBytes("$", Len(arg)) \o (arg \o BulkEnd)
<1> DEFINE z == SizeBytes("$", Len(arg))
<1>1. arg \in Seq(Tokens) /\ BulkEnd \in Seq(Tokens) /\ Len(BulkEnd) = 2 /\ Len(arg) \in Nat
  BY ArgIs, BulkEndIs
<1>2. z \in Seq(Tokens)
  BY <1>1, SizeBytesIs
<1>3. BulkBytes(arg) = (z \o arg) \o BulkEnd
  BY Zenon DEF BulkBytes
<1> HIDE DEF z
<1>4. arg \o BulkEnd \in Seq(Tokens) /\ Len(arg \o BulkEnd) = Len(arg) + Len(BulkEnd)
  BY <1>1, ConcatAt
<1>5. (z \o arg) \o BulkEnd = z \o (arg \o BulkEnd)
  BY <1>1, <1>2, ConcatAssociative
<1>6. z \o (arg \o BulkEnd) \in Seq(Tokens)
  BY <1>2, <1>4, ConcatAt
<1> QED
  BY <1>1, <1>2, <1>3, <1>4, <1>5, <1>6 DEF z

LEMMA BeginsBulk ==
    ASSUME NEW arg \in Seq(ArgBytes), NEW u, NEW rest, Begins(u, BulkBytes(arg), rest)
    PROVE  /\ Begins(u, SizeBytes("$", Len(arg)), (arg \o BulkEnd) \o rest)
           /\ Begins((arg \o BulkEnd) \o rest, arg \o BulkEnd, rest)
<1> DEFINE z == SizeBytes("$", Len(arg))
           y == arg \o BulkEnd
<1>1. u \in Seq(Tokens) /\ rest \in Seq(Tokens) /\ u = BulkBytes(arg) \o rest
  BY DEF Begins
<1>2. y \in Seq(Tokens) /\ z \in Seq(Tokens) /\ BulkBytes(arg) = z \o y
  BY BulkIs
<1> HIDE DEF z, y
<1>3. (z \o y) \o rest = z \o (y \o rest) /\ y \o rest \in Seq(Tokens)
  BY <1>1, <1>2, ConcatAssociative, ConcatAt
<1>4. u = z \o (y \o rest)
  BY <1>1, <1>2, <1>3
<1>5. Begins(u, z, y \o rest) /\ Begins(y \o rest, y, rest)
  BY <1>1, <1>2, <1>3, <1>4 DEF Begins
<1> QED
  BY <1>5 DEF z, y

LEMMA BeginsIs ==
    ASSUME NEW u, NEW x, NEW y, Begins(u, x, y)
    PROVE  /\ u \in Seq(Tokens) /\ x \in Seq(Tokens) /\ y \in Seq(Tokens)
           /\ Len(x) \in Nat /\ Len(y) \in Nat /\ Len(u) = Len(x) + Len(y)
           /\ Len(x) \in 0 .. Len(u) /\ Len(x) <= Len(u)
           /\ After(u, Len(x)) = y
           /\ \A j \in 1 .. Len(x) : u[j] = x[j]
<1>1. u \in Seq(Tokens) /\ x \in Seq(Tokens) /\ y \in Seq(Tokens) /\ u = x \o y
  BY DEF Begins
<1>2. After(u, Len(x)) = y
  BY <1>1, AfterFirst
<1>3. /\ Len(x) \in Nat /\ Len(y) \in Nat /\ Len(u) = Len(x) + Len(y)
      /\ \A j \in 1 .. Len(x) : u[j] = x[j]
  BY <1>1, ConcatAt, LenProperties
<1> DEFINE a == Len(x)
           b == Len(y)
           c == Len(u)
<1>4. a \in Nat /\ b \in Nat /\ c = a + b
  BY <1>3
<1> HIDE DEF a, b, c
<1>5. a \in 0 .. c /\ a <= c
  BY <1>4
<1> QED
  BY <1>1, <1>2, <1>3, <1>5 DEF a, c

LEMMA ReadBulkWhole ==
    ASSUME NEW s \in Readers, Tidy(s), NEW arg \in Seq(ArgBytes), NEW rest,
           Begins(Unread(s), BulkBytes(arg), rest), NEW o \in ReadBulk(s), o.s.whole
    PROVE  /\ o.e = "ok" /\ o.v = arg
           /\ o.s \in Readers /\ Tidy(o.s) /\ Unread(o.s) = rest
<1> DEFINE n == Len(arg)
           w == (arg \o BulkEnd) \o rest
           y == arg \o BulkEnd
<1>1. PICK l \in ReadBulkLen(s) :
              \/ l.e # "ok" /\ o = l
              \/ /\ l.e = "ok"
                 /\ \E q \in require(l.s, Size(l) + 2) :
                       \/ q.e # "ok" /\ o = q
                       \/ q.e = "ok" /\ o = Res(Advance(q.s, Size(l) + 2),
                                                SubSeq(q.s.buf, 1, Size(l)), "ok")
  BY ReadBulkCases
<1>2. l.s \in Readers /\ (l.e = "ok" => Size(l) \in Nat)
  BY ReadBulkLenIs
<1>3. Begins(Unread(s), SizeBytes("$", n), w) /\ Begins(w, y, rest) /\ n \in Nat
  BY BeginsBulk, ArgIs
<1>4. ASSUME l.s.whole
      PROVE  l.e = "ok" /\ Size(l) = n /\ Tidy(l.s) /\ Unread(l.s) = w
  BY <1>3, <1>4, ReadBulkLenWhole
<1>5. CASE l.e # "ok" /\ o = l
  BY <1>4, <1>5
<1>6. ASSUME l.e = "ok", NEW q \in require(l.s, Size(l) + 2),
             \/ q.e # "ok" /\ o = q
             \/ q.e = "ok" /\ o = Res(Advance(q.s, Size(l) + 2), SubSeq(q.s.buf, 1, Size(l)), "ok")
      PROVE  /\ o.e = "ok" /\ o.v = arg
             /\ o.s \in Readers /\ Tidy(o.s) /\ Unread(o.s) = rest
  <2>1. Size(l) + 2 \in Nat /\ Size(l) + 2 >= 1
    BY <1>2, <1>6
  <2>2. /\ q.s \in Readers /\ (q.s.whole => l.s.whole)
        /\ l.s.over = 0 => Unread(q.s) = Unread(l.s) /\ q.s.over = 0
        /\ q.e = "ok" => l.s.over = 0 /\ Size(l) + 2 <= Len(q.s.buf)
        /\ q.e = "EOF" => Len(Unread(l.s)) < Size(l) + 2
        /\ q.e \in {"ok", "EOF", "panic"} /\ (q.e = "panic" => l.s.over = 1)
        /\ Tidy(l.s) /\ q.s.whole => Tidy(q.s)
    BY <1>2, <2>1, requireIs
  <2>3. q.s.whole
    <3>1. CASE q.e # "ok" /\ o = q
      BY <3>1
    <3>2. CASE q.e = "ok" /\ o = Res(Advance(q.s, Size(l) + 2), SubSeq(q.s.buf, 1, Size(l)), "ok")
      <4>1. o.s = Advance(q.s, Size(l) + 2)
        BY <3>2, Zenon DEF Res
      <4>2. Size(l) + 2 \in 0 .. Len(q.s.buf) /\ q.s.over = 0
        <5> DEFINE b == Len(q.s.buf)
                   k == Size(l) + 2
        <5>1. b \in Nat /\ k \in Nat /\ k <= b /\ q.s.over = 0
          BY <2>1, <2>2, <3>2, ReaderIs
        <5> HIDE DEF b, k
        <5>2. k \in 0 .. b
          BY <5>1
        <5> QED BY <5>1, <5>2 DEF b, k
      <4>3. Advance(q.s, Size(l) + 2).whole = q.s.whole
        BY <2>2, <4>2, AdvanceIs
      <4> QED BY <4>1, <4>3
    <3> QED BY <1>6, <3>1, <3>2
  <2>4. Size(l) = n /\ Tidy(l.s) /\ Unread(l.s) = w /\ l.s.over = 0
    BY <1>4, <2>2, <2>3 DEF Tidy
  <2>5. /\ Len(y) = n + 2 /\ Len(y) \in 0 .. Len(w) /\ Len(y) <= Len(w) /\ After(w, Len(y)) = rest
        /\ \A j \in 1 .. Len(y) : w[j] = y[j]
    BY <1>3, BeginsIs, BulkIs
  <2>6. q.e = "ok"
    <3>1. q.e # "panic"
      BY <2>2, <2>4
    <3>2. q.e # "EOF"
      <4> DEFINE b == Len(w)
      <4>1. b \in Nat /\ n + 2 \in Nat /\ n + 2 <= b
        <5>1. b \in Nat
          BY <1>3, LenProperties DEF Begins
        <5> QED BY <1>3, <2>5, <5>1
      <4>2. ~(b < n + 2)
        <5> HIDE DEF b, n
        <5> QED BY <4>1
      <4> QED BY <2>2, <2>4, <4>2
    <3> QED BY <2>2, <3>1, <3>2
  <2>7. o = Res(Advance(q.s, n + 2), SubSeq(q.s.buf, 1, n), "ok")
    BY <1>6, <2>4, <2>6
  <2>8. o.s = Advance(q.s, n + 2) /\ o.v = SubSeq(q.s.buf, 1, n) /\ o.e = "ok"
    BY <2>7, Zenon DEF Res
  <2>9. n + 2 \in 0 .. Len(q.s.buf) /\ n \in 0 .. Len(q.s.buf) /\ n + 2 <= Len(q.s.buf)
    <3> DEFINE b == Len(q.s.buf)
    <3>1. b \in Nat /\ n \in Nat /\ n + 2 <= b
      BY <1>3, <2>2, <2>4, <2>6, ReaderIs
    <3> HIDE DEF b, n
    <3>2. n + 2 \in 0 .. b /\ n \in 0 .. b
      BY <3>1
    <3> QED BY <3>1, <3>2 DEF b
  <2>10. /\ o.s \in Readers /\ Unread(o.s) = After(Unread(q.s), n + 2)
         /\ Tidy(q.s) => Tidy(o.s)
    BY <2>2, <2>4, <2>8, <2>9, AdvanceIs
  <2>11. Unread(q.s) = w /\ Tidy(q.s)
    BY <2>2, <2>3, <2>4
  <2>12. Unread(o.s) = rest
    BY <2>5, <2>10, <2>11
  <2>13. o.v = arg
    <3> DEFINE v == SubSeq(q.s.buf, 1, n)
               b == q.s.buf
    <3>1. /\ v \in Seq(ArgBytes) /\ Len(v) = n /\ \A j \in 1 .. n : v[j] = b[j]
      BY <2>2, <2>9, UptoIs, ReaderIs
    <3>2. \A j \in 1 .. Len(b) : w[j] = b[j]
      <4>1. \A j \in 1 .. Len(q.s.buf) : Unread(q.s)[j] = q.s.buf[j]
        BY <2>2, UnreadIs
      <4> HIDE DEF w
      <4> QED BY <2>11, <4>1
    <3>3. \A j \in 1 .. n : y[j] = arg[j]
      BY ArgIs, BulkEndIs, ConcatAt
    <3>4. Len(b) \in Nat /\ n \in Nat /\ n + 2 <= Len(b) /\ Len(y) = n + 2
      BY <1>3, <2>2, <2>5, <2>9, ReaderIs
    <3> HIDE DEF v, b, n, y, w
    <3>5. ASSUME NEW j \in 1 .. n PROVE v[j] = arg[j]
      <4>1. j \in 1 .. Len(b) /\ j \in 1 .. Len(y)
        <5> DEFINE c == Len(b)
        <5>1. c \in Nat /\ n \in Nat /\ n + 2 <= c
          BY <3>4
        <5> HIDE DEF c
        <5>2. j \in 1 .. c /\ j \in 1 .. n + 2
          BY <5>1
        <5> QED BY <3>4, <5>2 DEF c
      <4> QED BY <2>5, <3>1, <3>2, <3>3, <4>1
    <3>6. Len(v) = Len(arg) /\ \A j \in 1 .. Len(v) : v[j] = arg[j]
      BY <3>1, <3>5 DEF n
    <3>7. v = arg
      BY <3>1, <3>6, SeqEqual
    <3> QED BY <2>8, <3>7 DEF v, b
  <2> QED BY <2>8, <2>10, <2>11, <2>12, <2>13
<1> QED
  BY <1>1, <1>5, <1>6

LEMMA SkipBulkWhole ==
    ASSUME NEW s \in Readers, Tidy(s), NEW arg \in Seq(ArgBytes), NEW rest,
           Begins(Unread(s), BulkBytes(arg), rest), NEW o \in SkipBulk(s), o.s.whole
    PROVE  /\ o.e = "ok" /\ o.s \in Readers /\ Tidy(o.s) /\ Unread(o.s) = rest
<1> DEFINE n == Len(arg)
           w == (arg \o BulkEnd) \o rest
           y == arg \o BulkEnd
<1>1. PICK l \in ReadBulkLen(s) : \/ l.e # "ok" /\ o = l
                                  \/ l.e = "ok" /\ o \in skipN(l.s, Size(l) + 2)
  BY SkipBulkCases
<1>2. l.s \in Readers /\ (l.e = "ok" => Size(l) \in Nat)
  BY ReadBulkLenIs
<1>3. Begins(Unread(s), SizeBytes("$", n), w) /\ Begins(w, y, rest) /\ n \in Nat
  BY BeginsBulk, ArgIs
<1>4. ASSUME l.s.whole
      PROVE  l.e = "ok" /\ Size(l) = n /\ Tidy(l.s) /\ Unread(l.s) = w
  BY <1>3, <1>4, ReadBulkLenWhole
<1>5. CASE l.e # "ok" /\ o = l
  BY <1>4, <1>5
<1>6. CASE l.e = "ok" /\ o \in skipN(l.s, Size(l) + 2)
  <2>1. Size(l) + 2 \in Nat
    BY <1>2, <1>6
  <2>2. o.s.whole = l.s.whole
    BY <1>2, <1>6, <2>1, skipNIs, ZenonT(60)
  <2>3. l.e = "ok" /\ Size(l) = n /\ Tidy(l.s) /\ Unread(l.s) = w /\ l.s.over = 0
    BY <1>4, <2>2 DEF Tidy
  <2>4. Len(y) = n + 2 /\ Len(y) <= Len(w) /\ After(w, Len(y)) = rest
    BY <1>3, BeginsIs, BulkIs
  <2>5. o \in skipN(l.s, n + 2) /\ n + 2 \in Nat /\ n + 2 <= Len(Unread(l.s))
    BY <1>6, <2>1, <2>3, <2>4
  <2>6. /\ o.s \in Readers /\ o.e = "ok" /\ Unread(o.s) = After(Unread(l.s), n + 2)
        /\ Tidy(l.s) => Tidy(o.s)
    BY <1>2, <2>3, <2>5, skipNIs, ZenonT(60)
  <2> QED BY <2>3, <2>4, <2>6
<1> QED
  BY <1>1, <1>5, <1>6

(***************************************************************************)
(* The bytes of the requests that are left, and the commands among them    *)
(***************************************************************************)
BulksBytes(args) == FlattenSeq([k \in DOMAIN args |-> BulkBytes(args[k])])

LEMMA BulksBytesEmpty == BulksBytes(<<>>) = <<>>
<1>1. [k \in DOMAIN <<>> |-> BulkBytes(<<>>[k])] = <<>>
  OBVIOUS
<1> QED
  BY <1>1, FlattenEmpty DEF BulksBytes

LEMMA BulksTyped ==
    ASSUME NEW args \in Seq(Seq(ArgBytes))
    PROVE  [k \in DOMAIN args |-> BulkBytes(args[k])] \in Seq(Seq(Tokens)) /\ BulksBytes(args) \in Seq(Tokens)
<1> DEFINE f == [k \in DOMAIN args |-> BulkBytes(args[k])]
<1>1. Len(args) \in Nat /\ DOMAIN args = 1 .. Len(args) /\ \A k \in 1 .. Len(args) : args[k] \in Seq(ArgBytes)
  BY LenProperties, ElementOfSeq
<1>2. \A k \in 1 .. Len(args) : BulkBytes(args[k]) \in Seq(Tokens)
  BY <1>1, BulkIs
<1>3. f \in [1 .. Len(args) -> Seq(Tokens)]
  BY <1>1, <1>2
<1>4. f \in Seq(Seq(Tokens))
  BY <1>1, <1>3, FunctionIsSeq
<1> QED
  BY <1>4, FlattenIs DEF BulksBytes

LEMMA BulksBytesCons ==
    ASSUME NEW args \in Seq(Seq(ArgBytes)), args # <<>>
    PROVE  BulksBytes(args) = BulkBytes(Head(args)) \o BulksBytes(Tail(args))
<1> DEFINE f == [k \in DOMAIN args |-> BulkBytes(args[k])]
           t == Tail(args)
           g == [k \in DOMAIN t |-> BulkBytes(t[k])]
<1>1. Len(args) \in Nat /\ DOMAIN args = 1 .. Len(args) /\ Len(args) # 0 /\ Head(args) = args[1]
  BY LenProperties
<1>2. /\ t \in Seq(Seq(ArgBytes)) /\ Len(t) = Len(args) - 1 /\ DOMAIN t = 1 .. Len(t) /\ Len(t) \in Nat
      /\ \A k \in 1 .. Len(t) : t[k] = args[k + 1]
  BY HeadTailProperties, LenProperties
<1>3. f \in Seq(Seq(Tokens)) /\ g \in Seq(Seq(Tokens))
  BY <1>2, BulksTyped
<1> HIDE DEF t
<1>4. /\ Len(f) = Len(args) /\ f[1] = BulkBytes(Head(args))
      /\ \A k \in 1 .. Len(args) : f[k] = BulkBytes(args[k])
  <2>1. DOMAIN f = 1 .. Len(args) /\ DOMAIN f = 1 .. Len(f) /\ Len(f) \in Nat
    BY <1>1, <1>3, LenProperties
  <2>2. Len(f) = Len(args)
    BY <1>1, <2>1
  <2>3. \A k \in 1 .. Len(args) : f[k] = BulkBytes(args[k])
    BY <1>1
  <2> QED BY <1>1, <2>2, <2>3
<1>5. Len(g) = Len(t) /\ \A k \in 1 .. Len(t) : g[k] = BulkBytes(t[k])
  <2>1. DOMAIN g = 1 .. Len(t) /\ DOMAIN g = 1 .. Len(g) /\ Len(g) \in Nat
    BY <1>2, <1>3, LenProperties
  <2>2. Len(g) = Len(t)
    BY <1>2, <2>1
  <2>3. \A k \in 1 .. Len(t) : g[k] = BulkBytes(t[k])
    BY <1>2
  <2> QED BY <2>2, <2>3
<1> HIDE DEF f, g
<1>6. f # <<>> /\ Head(f) = f[1]
  BY <1>1, <1>3, <1>4
<1>7. /\ Tail(f) \in Seq(Seq(Tokens)) /\ Len(Tail(f)) = Len(f) - 1
      /\ \A k \in 1 .. Len(Tail(f)) : Tail(f)[k] = f[k + 1]
  BY <1>3, <1>6, HeadTailProperties
<1>8. Tail(f) = g
  <2>1. Len(Tail(f)) = Len(g)
    BY <1>2, <1>4, <1>5, <1>7
  <2>2. ASSUME NEW k \in 1 .. Len(Tail(f)) PROVE Tail(f)[k] = g[k]
    <3>1. k \in 1 .. Len(t) /\ k + 1 \in 1 .. Len(args)
      BY <1>1, <1>2, <1>5, <2>1
    <3> QED BY <1>2, <1>4, <1>5, <1>7, <3>1
  <2> QED BY <1>3, <1>7, <2>1, <2>2, SeqEqual
<1>9. FlattenSeq(f) = Head(f) \o FlattenSeq(Tail(f))
  BY <1>3, <1>6, FlattenCons
<1> QED
  BY <1>4, <1>6, <1>8, <1>9 DEF BulksBytes, f, g, t

\* Sequences of one element each, and then empty ones.
LEMMA FlattenSingles ==
    ASSUME NEW S, NEW a \in Seq(Seq(S)), NEW m \in 0 .. Len(a),
           \A i \in 1 .. Len(a) : Len(a[i]) = IF i <= m THEN 1 ELSE 0
    PROVE  /\ FlattenSeq(a) \in Seq(S) /\ Len(FlattenSeq(a)) = m
           /\ \A i \in 1 .. m : FlattenSeq(a)[i] = a[i][1]
<1> DEFINE Singles(b, k) == \A i \in 1 .. Len(b) : Len(b[i]) = IF i <= k THEN 1 ELSE 0
           Good(b, k) == /\ FlattenSeq(b) \in Seq(S) /\ Len(FlattenSeq(b)) = k
                         /\ \A i \in 1 .. k : FlattenSeq(b)[i] = b[i][1]
           N == {n \in Nat : \A b \in Seq(Seq(S)) : \A k \in 0 .. n :
                                Len(b) = n /\ Singles(b, k) => Good(b, k)}
<1>1. 0 \in N
  <2> SUFFICES ASSUME NEW b \in Seq(Seq(S)), NEW k \in 0 .. 0, Len(b) = 0 /\ Singles(b, k)
               PROVE  Good(b, k)
    OBVIOUS
  <2>1. b = <<>> /\ k = 0
    BY EmptySeq
  <2>2. FlattenSeq(b) = <<>>
    BY <2>1, FlattenEmpty
  <2>3. <<>> \in Seq(S) /\ Len(<<>>) = 0 /\ 1 .. 0 = {}
    BY EmptySeq
  <2> QED BY <2>1, <2>2, <2>3, Zenon
<1>2. ASSUME NEW n \in Nat, n \in N PROVE n + 1 \in N
  <2> SUFFICES ASSUME NEW b \in Seq(Seq(S)), NEW k \in 0 .. n + 1, Len(b) = n + 1, Singles(b, k)
               PROVE  Good(b, k)
    OBVIOUS
  <2> DEFINE h == Head(b)
             t == Tail(b)
             j == IF k > 0 THEN k - 1 ELSE 0
             x == FlattenSeq(t)
             y == h \o x
  <2>1. b # <<>> /\ h = b[1] /\ h \in Seq(S) /\ Len(h) \in Nat
    BY EmptySeq, HeadTailProperties, LenProperties
  <2>2. /\ t \in Seq(Seq(S)) /\ Len(t) = n /\ \A i \in 1 .. n : t[i] = b[i + 1]
    BY <2>1, HeadTailProperties
  <2>3. j \in 0 .. n
    OBVIOUS
  <2> HIDE DEF t, h
  <2>4. Singles(t, j)
    <3> SUFFICES ASSUME NEW i \in 1 .. n PROVE Len(t[i]) = IF i <= j THEN 1 ELSE 0
      BY <2>2
    <3>1. i + 1 \in 1 .. n + 1 /\ (i + 1 <= k <=> i <= j)
      OBVIOUS
    <3> QED BY <2>2, <3>1
  <2>5. Good(t, j)
    <3> HIDE DEF Good, Singles
    <3> QED BY <1>2, <2>2, <2>3, <2>4
  <2>6. FlattenSeq(b) = y
    BY <2>1, FlattenCons DEF h, t
  <2>7. x \in Seq(S) /\ Len(x) = j /\ \A i \in 1 .. j : x[i] = t[i][1]
    BY <2>5
  <2>8. Len(h) = IF 1 <= k THEN 1 ELSE 0
    <3>1. 1 \in 1 .. Len(b)
      OBVIOUS
    <3> QED BY <2>1, <3>1
  <2> HIDE DEF x
  <2>9. /\ y \in Seq(S) /\ Len(y) = Len(h) + Len(x)
        /\ \A i \in 1 .. Len(h) : y[i] = h[i]
        /\ \A i \in 1 .. Len(x) : y[Len(h) + i] = x[i]
    <3>1. h \in Seq(S) /\ x \in Seq(S)
      BY <2>1, <2>7
    <3> HIDE DEF Singles, Good, N, j
    <3> QED BY <3>1, ConcatAt
  <2>10. Len(y) = k
    BY <2>3, <2>7, <2>8, <2>9
  <2>11. ASSUME NEW i \in 1 .. k PROVE y[i] = b[i][1]
    <3>1. CASE i = 1
      <4>1. 1 \in 1 .. Len(h)
        BY <2>8
      <4> QED BY <2>1, <2>9, <3>1, <4>1
    <3>2. CASE i # 1
      <4>1. i - 1 \in 1 .. j /\ Len(h) = 1 /\ i - 1 \in 1 .. n /\ (i - 1) + 1 = i /\ 1 + (i - 1) = i
        BY <2>8, <3>2
      <4>2. y[i] = x[i - 1]
        BY <2>7, <2>9, <4>1
      <4>3. x[i - 1] = t[i - 1][1] /\ t[i - 1] = b[i]
        BY <2>2, <2>7, <4>1
      <4> QED BY <4>2, <4>3
    <3> QED BY <3>1, <3>2
  <2> QED BY <2>6, <2>9, <2>10, <2>11
<1>3. \A n \in Nat : n \in N
  <2> HIDE DEF N
  <2> QED BY <1>1, <1>2, SetInduction
<1>4. Len(a) \in N /\ Len(a) \in Nat
  BY <1>3, LenProperties
<1>5. Singles(a, m)
  OBVIOUS
<1>6. Good(a, m)
  <2> HIDE DEF Good, Singles
  <2> QED BY <1>4, <1>5
<1> QED
  BY <1>6

\* The words of a line whose words come first.
LEMMA WordsFirst ==
    ASSUME NEW L \in Seq(Tokens), NEW m \in 0 .. Len(L), \A i \in 1 .. Len(L) : IsWord(L[i]) <=> i <= m
    PROVE  /\ Words(L) \in Seq(Tokens) /\ Len(Words(L)) = m
           /\ \A i \in 1 .. m : Words(L)[i] = L[i]
<1> DEFINE f == [i \in DOMAIN L |-> IF IsWord(L[i]) THEN <<L[i]>> ELSE <<>>]
<1>1. Len(L) \in Nat /\ DOMAIN L = 1 .. Len(L) /\ \A i \in 1 .. Len(L) : L[i] \in Tokens
  BY LenProperties, ElementOfSeq
<1>2. \A i \in 1 .. Len(L) : <<L[i]>> \in Seq(Tokens) /\ Len(<<L[i]>>) = 1 /\ <<L[i]>>[1] = L[i]
  BY <1>1
<1>3. <<>> \in Seq(Tokens) /\ Len(<<>>) = 0
  BY EmptySeq
<1>4. f \in [1 .. Len(L) -> Seq(Tokens)]
  BY <1>1, <1>2, <1>3
<1>5. f \in Seq(Seq(Tokens)) /\ Len(f) = Len(L)
  BY <1>1, <1>4, FunctionIsSeq
<1>6. \A i \in 1 .. Len(L) : f[i] = IF i <= m THEN <<L[i]>> ELSE <<>>
  BY <1>1
<1>7. Words(L) = FlattenSeq(f)
  BY DEF Words
<1> HIDE DEF f
<1>8. \A i \in 1 .. Len(f) : Len(f[i]) = IF i <= m THEN 1 ELSE 0
  BY <1>2, <1>3, <1>5, <1>6
<1>9. m \in 0 .. Len(f)
  BY <1>5
<1>10. /\ FlattenSeq(f) \in Seq(Tokens) /\ Len(FlattenSeq(f)) = m
       /\ \A i \in 1 .. m : FlattenSeq(f)[i] = f[i][1]
  BY <1>5, <1>8, <1>9, FlattenSingles
<1>11. ASSUME NEW i \in 1 .. m PROVE f[i][1] = L[i]
  <2>1. i \in 1 .. Len(L) /\ i <= m
    BY <1>1
  <2> QED BY <1>2, <1>6, <2>1
<1> QED
  BY <1>7, <1>10, <1>11

LEMMA CRLFIs ==
    /\ CRLF \in Seq(Tokens) /\ Len(CRLF) = 2 /\ CRLF[1].k = "r" /\ CRLF[2].k = "n"
    /\ ~CRLF[1].end /\ ~IsWord(CRLF[1]) /\ ~IsWord(CRLF[2])
<1>1. "r" \in Kinds /\ "n" \in Kinds /\ 0 \in Nat
  BY DEF Kinds
<1>2. TRUE \in BOOLEAN /\ FALSE \in BOOLEAN
  BY Zenon
<1>3. CR \in Tokens /\ LF \in Tokens
  BY <1>1, <1>2, ByteIs, Zenon DEF CR, LF
<1>4. CR.k = "r" /\ CR.end = FALSE /\ LF.k = "n"
  BY DEF Byte, CR, LF
<1>5. CRLF \in Seq(Tokens) /\ Len(CRLF) = 2 /\ CRLF[1] = CR /\ CRLF[2] = LF
  BY <1>3 DEF CRLF
<1> QED
  BY <1>4, <1>5 DEF IsWord

LEMMA BlankIs ==
    /\ IsLine(CRLF) /\ Words(CRLF) = <<>> /\ FirstWord(CRLF) = <<>>
<1>1. IsLine(CRLF)
  BY CRLFIs DEF IsLine
<1>2. Words(CRLF) \in Seq(Tokens) /\ Len(Words(CRLF)) = 0
  <2>1. 0 \in 0 .. Len(CRLF) /\ \A i \in 1 .. Len(CRLF) : IsWord(CRLF[i]) <=> i <= 0
    <3>1. \A i \in 1 .. 2 : (i = 1 \/ i = 2) /\ ~(i <= 0)
      OBVIOUS
    <3> QED BY <3>1, CRLFIs
  <2> QED BY <2>1, CRLFIs, WordsFirst
<1>3. Words(CRLF) = <<>>
  BY <1>2, EmptySeq
<1>4. Min({1, Len(Words(CRLF))}) = 0
  BY <1>2, MinOfTwo
<1>5. FirstWord(CRLF) = <<>>
  BY <1>4, SubSeqEmpty DEF FirstWord
<1> QED
  BY <1>1, <1>3, <1>5

\* The arguments of a line, without their quotes.
Unquoted(args) == [i \in DOMAIN args |-> <<Unquote(args[i][1])>>]

LEMMA UnquotedIs ==
    ASSUME NEW args \in Seq(Seq(ArgBytes)), args # <<>>, Typed(args)
    PROVE  /\ Unquoted(args) \in Seq(Seq(ArgBytes)) /\ Unquoted(args) # <<>>
           /\ Unquoted(args)[1] = args[1]
<1> DEFINE m == Len(args)
           u == Unquoted(args)
<1>1. m \in Nat /\ m # 0 /\ DOMAIN args = 1 .. m /\ \A i \in 1 .. m : args[i] \in Seq(ArgBytes)
  BY LenProperties, EmptySeq, ElementOfSeq
<1>2. /\ \A i \in 1 .. m : Len(args[i]) = 1
      /\ args[1][1].k # "quoted"
  BY <1>1 DEF Typed
<1>3. ASSUME NEW i \in 1 .. m PROVE <<Unquote(args[i][1])>> \in Seq(ArgBytes)
  <2>1. args[i] \in Seq(ArgBytes) /\ 1 \in 1 .. Len(args[i])
    BY <1>1, <1>2
  <2>2. args[i][1] \in ArgBytes
    BY <2>1, ElementOfSeq
  <2>3. Unquote(args[i][1]) \in ArgBytes
    BY <2>2, BytesAssumption
  <2>4. PICK b : b = Unquote(args[i][1])
    OBVIOUS
  <2>5. <<b>> \in Seq(ArgBytes)
    BY <2>3, <2>4
  <2> QED BY <2>4, <2>5
<1>4. u = [i \in 1 .. m |-> <<Unquote(args[i][1])>>]
  BY <1>1 DEF Unquoted
<1>5. u \in [1 .. m -> Seq(ArgBytes)]
  BY <1>3, <1>4
<1> HIDE DEF u
<1>6. u \in Seq(Seq(ArgBytes)) /\ Len(u) = m
  BY <1>1, <1>5, FunctionIsSeq
<1>7. u # <<>>
  <2> HIDE DEF m
  <2> QED BY <1>1, <1>6, EmptySeq
<1>8. u[1] = args[1]
  <2>1. 1 \in 1 .. m
    <3> HIDE DEF m
    <3> QED BY <1>1
  <2>2. u[1] = <<Unquote(args[1][1])>>
    BY <1>4, <2>1
  <2>3. Unquote(args[1][1]) = args[1][1]
    BY <1>2 DEF Unquote
  <2>4. args[1] \in Seq(ArgBytes) /\ Len(args[1]) = 1
    BY <1>1, <1>2, <2>1
  <2>5. <<(args[1][1])>> = args[1]
    BY <2>4
  <2> QED BY <2>2, <2>3, <2>5
<1> QED
  BY <1>6, <1>7, <1>8 DEF u

LEMMA InlineIs ==
    ASSUME NEW args \in Seq(Seq(ArgBytes)), args # <<>>, Typed(args)
    PROVE  LET L == FlattenSeq(args) \o CRLF
           IN  /\ L \in Seq(Tokens) /\ IsLine(L) /\ L[1].k # "*"
               /\ Words(L) # <<>> /\ FirstWord(L) = args[1] /\ Arguments(L) = Unquoted(args)
<1> DEFINE F == FlattenSeq(args)
           L == F \o CRLF
           m == Len(args)
<1>1. m \in Nat /\ m >= 1 /\ DOMAIN args = 1 .. m /\ \A i \in 1 .. m : args[i] \in Seq(ArgBytes)
  <2>1. m \in Nat /\ m # 0 /\ DOMAIN args = 1 .. m
    BY LenProperties, EmptySeq
  <2> HIDE DEF m
  <2>2. m >= 1
    BY <2>1
  <2> QED BY <2>1, <2>2, ElementOfSeq DEF m
<1>2. /\ \A i \in 1 .. m : /\ Len(args[i]) = 1 /\ IsWord(args[i][1])
                           /\ ~args[i][1].end
      /\ args[1][1].k # "*"
  BY <1>1 DEF Typed
<1>3. F \in Seq(ArgBytes) /\ Len(F) = m /\ \A i \in 1 .. m : F[i] = args[i][1]
  <2>1. m \in 0 .. Len(args) /\ \A i \in 1 .. Len(args) : Len(args[i]) = IF i <= m THEN 1 ELSE 0
    BY <1>1, <1>2
  <2> QED BY <2>1, FlattenSingles
<1> HIDE DEF F
<1>4. F \in Seq(Tokens)
  BY <1>3, ArgIs
<1>5. /\ L \in Seq(Tokens) /\ Len(L) = m + 2
      /\ \A i \in 1 .. m : L[i] = F[i]
      /\ L[m + 1] = CRLF[1] /\ L[m + 2] = CRLF[2]
  <2>1. /\ F \o CRLF \in Seq(Tokens) /\ Len(F \o CRLF) = Len(F) + Len(CRLF)
        /\ \A i \in 1 .. Len(F) : (F \o CRLF)[i] = F[i]
        /\ \A i \in 1 .. Len(CRLF) : (F \o CRLF)[Len(F) + i] = CRLF[i]
    <3>1. F \in Seq(Tokens) /\ CRLF \in Seq(Tokens)
      BY <1>4, CRLFIs
    <3> HIDE DEF m, L
    <3> QED BY <3>1, ConcatAt
  <2>2. 1 \in 1 .. Len(CRLF) /\ 2 \in 1 .. Len(CRLF) /\ Len(CRLF) = 2
    BY CRLFIs
  <2> QED BY <1>3, <2>1, <2>2
<1> HIDE DEF L, m
<1>6. \A i \in 1 .. m : IsWord(L[i]) /\ ~L[i].end /\ L[i] = args[i][1]
  BY <1>2, <1>3, <1>5
<1>7. L[1].k # "*"
  BY <1>1, <1>2, <1>6
<1>8. \A i \in 1 .. m + 2 : i \in 1 .. m \/ i = m + 1 \/ i = m + 2
  BY <1>1
<1>9. IsLine(L)
  <2>1. Len(L) >= 2 /\ Len(L) - 1 = m + 1 /\ Len(L) - 2 = m
    BY <1>1, <1>5
  <2>2. L[m + 1].k = "r" /\ ~L[m + 1].end
    BY <1>5, CRLFIs
  <2>3. \A j \in 1 .. m : L[j].k # "r"
    BY <1>6 DEF IsWord
  <2>4. \A j \in 1 .. m + 1 : j \in 1 .. m \/ j = m + 1
    BY <1>1
  <2>5. \A j \in 1 .. m + 1 : ~L[j].end
    BY <1>6, <2>2, <2>4
  <2> QED BY <2>1, <2>2, <2>3, <2>5 DEF IsLine
<1> DEFINE W == Words(L)
<1>10. W \in Seq(Tokens) /\ Len(W) = m /\ \A i \in 1 .. m : W[i] = args[i][1]
  <2>1. m \in 0 .. Len(L)
    BY <1>1, <1>5
  <2>2. ASSUME NEW i \in 1 .. Len(L) PROVE IsWord(L[i]) <=> i <= m
    <3>1. CASE i \in 1 .. m
      BY <1>1, <1>6, <3>1
    <3>2. CASE i = m + 1 \/ i = m + 2
      <4>1. ~(i <= m)
        BY <1>1, <3>2
      <4>2. ~IsWord(L[i])
        BY <1>5, <3>2, CRLFIs
      <4> QED BY <4>1, <4>2
    <3> QED BY <1>5, <1>8, <3>1, <3>2
  <2>3. /\ W \in Seq(Tokens) /\ Len(W) = m
        /\ \A i \in 1 .. m : W[i] = L[i]
    BY <1>5, <2>1, <2>2, WordsFirst
  <2> QED BY <1>6, <2>3
<1> HIDE DEF W
<1>11. ASSUME NEW i \in 1 .. m PROVE <<W[i]>> = args[i]
  <2>1. args[i] \in Seq(ArgBytes) /\ Len(args[i]) = 1
    BY <1>1, <1>2
  <2>2. W[i] = args[i][1]
    BY <1>10
  <2> QED BY <2>1, <2>2
<1>12. W # <<>>
  BY <1>1, <1>10
<1>13. FirstWord(L) = args[1]
  <2>1. Min({1, Len(W)}) = 1
    BY <1>1, <1>10, MinOfTwo
  <2>2. FirstWord(L) = SubSeq(W, 1, 1)
    BY <2>1 DEF FirstWord, W
  <2>3. 1 \in 0 .. Len(W) /\ 1 \in 1 .. m
    BY <1>1, <1>10
  <2>4. SubSeq(W, 1, 1) \in Seq(Tokens) /\ Len(SubSeq(W, 1, 1)) = 1 /\ \A i \in 1 .. 1 : SubSeq(W, 1, 1)[i] = W[i]
    BY <1>10, <2>3, UptoIs
  <2>5. SubSeq(W, 1, 1) = <<W[1]>>
    <3> DEFINE x == SubSeq(W, 1, 1)
               w == W[1]
    <3>1. w \in Tokens /\ 1 \in 1 .. 1
      BY <1>10, <2>3, ElementOfSeq
    <3>2. x \in Seq(Tokens) /\ Len(x) = 1 /\ x[1] = w
      BY <2>4, <3>1
    <3> HIDE DEF x, w
    <3>3. x = <<w>>
      BY <3>1, <3>2
    <3> QED BY <3>3 DEF x, w
  <2> QED BY <1>11, <2>2, <2>3, <2>5
<1>14. Arguments(L) = Unquoted(args)
  <2>1. Arguments(L) = [i \in DOMAIN W |-> <<Unquote(W[i])>>]
    BY DEF Arguments, W
  <2>2. DOMAIN W = 1 .. m
    BY <1>10, LenProperties
  <2>3. Arguments(L) = [i \in 1 .. m |-> <<Unquote(args[i][1])>>]
    BY <1>10, <2>1, <2>2
  <2> QED BY <1>1, <2>3 DEF Unquoted
<1> QED
  BY <1>5, <1>7, <1>9, <1>12, <1>13, <1>14 DEF F, L, W

Sent ==
    [form : {"bulks", "inline", "zero", "blank", "raw"}, args : Seq(Seq(ArgBytes))]

IsProper(q) ==
    /\ q \in Sent /\ q.form # "raw"
    /\ q.form \in {"bulks", "inline"} => q.args # <<>>
    /\ q.form = "inline" => Typed(q.args)

AreProper(qs) == qs \in Seq(Sent) /\ \A i \in 1 .. Len(qs) : IsProper(qs[i])

\* The bytes of every form of request.
LEMMA BytesAre ==
    ASSUME NEW q, IsProper(q)
    PROVE  /\ q.args \in Seq(Seq(ArgBytes)) /\ q.form \in {"bulks", "inline", "zero", "blank"}
           /\ Bytes(q) \in Seq(Tokens)
           /\ q.form = "bulks" => /\ q.args # <<>>
                                  /\ Bytes(q) = SizeBytes("*", Len(q.args)) \o BulksBytes(q.args)
           /\ q.form = "inline" => /\ q.args # <<>> /\ Typed(q.args)
                                   /\ Bytes(q) = FlattenSeq(q.args) \o CRLF
           /\ q.form = "zero" => Bytes(q) = SizeBytes("*", 0)
           /\ q.form = "blank" => Bytes(q) = CRLF
<1>1. /\ q.args \in Seq(Seq(ArgBytes)) /\ q.form \in {"bulks", "inline", "zero", "blank"}
      /\ q.form \in {"bulks", "inline"} => q.args # <<>>
      /\ q.form = "inline" => Typed(q.args)
  BY DEF IsProper, Sent
<1>2. CASE q.form = "bulks"
  <2>1. Bytes(q) = CmdBytes(q.args)
    BY <1>2 DEF Bytes
  <2>2. Bytes(q) = SizeBytes("*", Len(q.args)) \o BulksBytes(q.args)
    BY <2>1, Zenon DEF CmdBytes, BulksBytes
  <2> DEFINE a == SizeBytes("*", Len(q.args))
             b == BulksBytes(q.args)
  <2>3. a \in Seq(Tokens)
    BY <1>1, LenProperties, SizeBytesIs
  <2>4. b \in Seq(Tokens)
    BY <1>1, BulksTyped
  <2>5. a \o b \in Seq(Tokens)
    <3> HIDE DEF a, b
    <3> QED BY <2>3, <2>4, ConcatProperties
  <2>6. Bytes(q) \in Seq(Tokens)
    BY <2>2, <2>5
  <2> QED BY <1>1, <1>2, <2>2, <2>6
<1>3. CASE q.form = "inline"
  <2>1. Bytes(q) = FlattenSeq(q.args) \o CRLF
    BY <1>3 DEF Bytes
  <2>2. Bytes(q) \in Seq(Tokens)
    BY <1>1, <1>3, <2>1, InlineIs
  <2> QED BY <1>1, <1>3, <2>1, <2>2
<1>4. CASE q.form = "zero"
  <2>1. Bytes(q) = SizeBytes("*", 0)
    BY <1>4 DEF Bytes
  <2>2. Bytes(q) \in Seq(Tokens)
    BY <2>1, SizeBytesIs
  <2> QED BY <1>1, <1>4, <2>1, <2>2
<1>5. CASE q.form = "blank"
  <2>1. Bytes(q) = CRLF
    BY <1>5 DEF Bytes
  <2> QED BY <1>1, <1>5, <2>1, CRLFIs
<1> QED
  BY <1>1, <1>2, <1>3, <1>4, <1>5

LEMMA FlattenFirst ==
    ASSUME NEW S, NEW n \in Nat, NEW f \in Seq(Seq(S)), NEW g \in Seq(Seq(S)),
           Len(f) = n + 1, Len(g) = n, \A k \in 1 .. n : g[k] = f[k + 1]
    PROVE  FlattenSeq(f) = f[1] \o FlattenSeq(g) /\ FlattenSeq(f) \in Seq(S)
<1>1. f # <<>> /\ Head(f) = f[1]
  BY EmptySeq
<1>2. /\ Tail(f) \in Seq(Seq(S)) /\ Len(Tail(f)) = n
      /\ \A k \in 1 .. n : Tail(f)[k] = f[k + 1]
  BY <1>1, HeadTailProperties
<1>3. Len(Tail(f)) = Len(g) /\ \A k \in 1 .. Len(Tail(f)) : Tail(f)[k] = g[k]
  BY <1>2
<1>4. Tail(f) = g
  BY <1>2, <1>3, SeqEqual
<1> QED
  BY <1>1, <1>4, FlattenCons

\* The requests after the first i, when there are more.
LEMMA AfterStep ==
    ASSUME NEW S, NEW qs \in Seq(S), NEW i \in Nat, i < Len(qs)
    PROVE  LET a == After(qs, i)
               b == After(qs, i + 1)
               n == Len(qs) - (i + 1)
           IN  /\ n \in Nat /\ i \in 0 .. Len(qs) /\ i + 1 \in 0 .. Len(qs) /\ i + 1 \in 1 .. Len(qs)
               /\ a \in Seq(S) /\ Len(a) = n + 1 /\ DOMAIN a = 1 .. n + 1 /\ a[1] = qs[i + 1]
               /\ b \in Seq(S) /\ Len(b) = n /\ DOMAIN b = 1 .. n
               /\ \A k \in 1 .. n : b[k] = a[k + 1]
<1> DEFINE a == After(qs, i)
           b == After(qs, i + 1)
           l == Len(qs)
           n == Len(qs) - (i + 1)
<1>1. l \in Nat /\ i < l
  BY LenProperties
<1>2. n = l - (i + 1)
  OBVIOUS
<1> HIDE DEF l, n
<1>3. n \in Nat /\ i \in 0 .. l /\ i + 1 \in 0 .. l /\ i + 1 \in 1 .. l /\ l - i = n + 1 /\ l - (i + 1) = n
  BY <1>1, <1>2
<1>4. a \in Seq(S) /\ Len(a) = l - i /\ \A k \in 1 .. l - i : a[k] = qs[i + k]
  BY <1>3, AfterIs DEF l
<1>5. b \in Seq(S) /\ Len(b) = l - (i + 1) /\ \A k \in 1 .. l - (i + 1) : b[k] = qs[i + 1 + k]
  BY <1>3, AfterIs DEF l
<1> HIDE DEF a, b
<1>6. DOMAIN a = 1 .. n + 1 /\ DOMAIN b = 1 .. n
  BY <1>3, <1>4, <1>5, LenProperties
<1>7. a[1] = qs[i + 1]
  <2>1. 1 \in 1 .. l - i
    BY <1>3
  <2> QED BY <1>4, <2>1
<1>8. ASSUME NEW k \in 1 .. n PROVE b[k] = a[k + 1]
  <2>1. k + 1 \in 1 .. l - i /\ k \in 1 .. l - (i + 1) /\ i + (k + 1) = i + 1 + k
    BY <1>3
  <2> QED BY <1>4, <1>5, <2>1
<1> QED
  BY <1>3, <1>4, <1>5, <1>6, <1>7, <1>8 DEF a, b, l, n

\* The bytes of the requests after the first i, and the commands among those.
BytesLeft(qs, i)    == AllBytes(After(qs, i))
CommandsLeft(qs, i) == CommandsOf(After(qs, i))

Single(q) == IF IsCommand(q) THEN <<Meant(q)>> ELSE <<>>

\* What a request means: a line its arguments without quotes, of which its name has
\* none; any other itself.
LEMMA MeantIs ==
    ASSUME NEW q, IsProper(q)
    PROVE  /\ Meant(q) \in Sent /\ Meant(q).args \in Seq(Seq(ArgBytes))
           /\ q.form = "inline" => Meant(q).args = Unquoted(q.args)
           /\ q.form # "inline" => Meant(q) = q
           /\ q.form \in {"bulks", "inline"} => /\ Meant(q).args # <<>>
                                                /\ Meant(q).args[1] = q.args[1]
<1>1. /\ q \in Sent /\ q.args \in Seq(Seq(ArgBytes))
      /\ q.form \in {"bulks", "inline"} => q.args # <<>>
      /\ q.form = "inline" => Typed(q.args)
  BY DEF IsProper, Sent
<1>2. CASE q.form = "inline"
  <2>1. /\ Unquoted(q.args) \in Seq(Seq(ArgBytes)) /\ Unquoted(q.args) # <<>>
        /\ Unquoted(q.args)[1] = q.args[1]
    BY <1>1, <1>2, UnquotedIs
  <2>2. PICK u : u = Unquoted(q.args)
    OBVIOUS
  <2>3. Meant(q) = [q EXCEPT !.args = u]
    BY <1>2, <2>2 DEF Meant, Unquoted
  <2>4. Meant(q) \in Sent /\ Meant(q).args = u
    BY <1>1, <2>1, <2>2, <2>3 DEF Sent
  <2> QED BY <1>2, <2>1, <2>2, <2>4
<1>3. CASE q.form # "inline"
  <2>1. Meant(q) = q
    BY <1>3 DEF Meant
  <2> QED BY <1>1, <1>3, <2>1
<1> QED
  BY <1>2, <1>3

LEMMA AfterProper ==
    ASSUME NEW qs, AreProper(qs), NEW i \in 0 .. Len(qs)
    PROVE  AreProper(After(qs, i))
<1> DEFINE l == Len(qs)
           a == After(qs, i)
<1>1. l \in Nat /\ qs \in Seq(Sent) /\ \A k \in 1 .. l : IsProper(qs[k])
  BY LenProperties DEF AreProper
<1>2. a \in Seq(Sent) /\ Len(a) = l - i /\ \A k \in 1 .. l - i : a[k] = qs[i + k]
  BY <1>1, AfterIs
<1> HIDE DEF l, a
<1>3. ASSUME NEW k \in 1 .. l - i PROVE IsProper(a[k])
  <2>1. i \in Nat
    BY DEF l
  <2>2. i + k \in 1 .. l
    BY <1>1, <2>1
  <2> QED BY <1>1, <1>2, <2>2
<1>4. AreProper(a)
  BY <1>2, <1>3 DEF AreProper
<1> QED
  BY <1>4 DEF a

LEMMA AllBytesTyped ==
    ASSUME NEW qs, AreProper(qs)
    PROVE  /\ [k \in DOMAIN qs |-> Bytes(qs[k])] \in Seq(Seq(Tokens))
           /\ Len([k \in DOMAIN qs |-> Bytes(qs[k])]) = Len(qs)
           /\ AllBytes(qs) \in Seq(Tokens)
<1> DEFINE f == [k \in DOMAIN qs |-> Bytes(qs[k])]
<1>1. Len(qs) \in Nat /\ DOMAIN qs = 1 .. Len(qs) /\ \A k \in 1 .. Len(qs) : IsProper(qs[k])
  BY LenProperties DEF AreProper
<1>2. \A k \in 1 .. Len(qs) : Bytes(qs[k]) \in Seq(Tokens)
  BY <1>1, BytesAre
<1>3. f \in [1 .. Len(qs) -> Seq(Tokens)]
  BY <1>1, <1>2
<1>4. f \in Seq(Seq(Tokens)) /\ Len(f) = Len(qs)
  BY <1>1, <1>3, FunctionIsSeq
<1> QED
  BY <1>4, FlattenIs DEF AllBytes

LEMMA CommandsOfTyped ==
    ASSUME NEW qs, AreProper(qs)
    PROVE  /\ [k \in DOMAIN qs |-> Single(qs[k])] \in Seq(Seq(Sent))
           /\ Len([k \in DOMAIN qs |-> Single(qs[k])]) = Len(qs)
           /\ CommandsOf(qs) = FlattenSeq([k \in DOMAIN qs |-> Single(qs[k])])
           /\ CommandsOf(qs) \in Seq(Sent)
<1> DEFINE f == [k \in DOMAIN qs |-> Single(qs[k])]
<1>1. Len(qs) \in Nat /\ DOMAIN qs = 1 .. Len(qs) /\ \A k \in 1 .. Len(qs) : IsProper(qs[k])
  BY LenProperties DEF AreProper
<1>2. ASSUME NEW k \in 1 .. Len(qs) PROVE Single(qs[k]) \in Seq(Sent)
  <2>1. Meant(qs[k]) \in Sent
    BY <1>1, MeantIs
  <2>2. <<Meant(qs[k])>> \in Seq(Sent) /\ <<>> \in Seq(Sent)
    BY <2>1
  <2> QED BY <2>2 DEF Single
<1>3. f \in [1 .. Len(qs) -> Seq(Sent)]
  BY <1>1, <1>2
<1>4. f \in Seq(Seq(Sent)) /\ Len(f) = Len(qs)
  BY <1>1, <1>3, FunctionIsSeq
<1>5. CommandsOf(qs) = FlattenSeq(f)
  BY Zenon DEF CommandsOf, Single
<1> QED
  BY <1>4, <1>5, FlattenIs

\* Unless all requests have been read, the bytes of the next one come first.
LEMMA BytesLeftStep ==
    ASSUME NEW qs, AreProper(qs), NEW i \in Nat, i < Len(qs)
    PROVE  /\ Begins(BytesLeft(qs, i), Bytes(qs[i + 1]), BytesLeft(qs, i + 1))
           /\ IsProper(qs[i + 1])
<1> DEFINE a == After(qs, i)
           b == After(qs, i + 1)
           n == Len(qs) - (i + 1)
           f == [k \in DOMAIN a |-> Bytes(a[k])]
           g == [k \in DOMAIN b |-> Bytes(b[k])]
<1>1. /\ n \in Nat /\ i \in 0 .. Len(qs) /\ i + 1 \in 0 .. Len(qs) /\ i + 1 \in 1 .. Len(qs)
      /\ Len(a) = n + 1 /\ DOMAIN a = 1 .. n + 1 /\ a[1] = qs[i + 1]
      /\ Len(b) = n /\ DOMAIN b = 1 .. n /\ \A k \in 1 .. n : b[k] = a[k + 1]
  <2>1. qs \in Seq(Sent)
    BY DEF AreProper
  <2> HIDE DEF f, g
  <2>0. n \in Nat /\ i \in 0 .. Len(qs) /\ i + 1 \in 0 .. Len(qs) /\ i + 1 \in 1 .. Len(qs)
    BY <2>1, AfterStep
  <2>2. Len(a) = n + 1 /\ DOMAIN a = 1 .. n + 1 /\ a[1] = qs[i + 1]
    BY <2>1, AfterStep
  <2>3. Len(b) = n /\ DOMAIN b = 1 .. n
    BY <2>1, AfterStep
  <2>4. \A k \in 1 .. n : b[k] = a[k + 1]
    BY <2>1, AfterStep
  <2> QED BY <2>0, <2>2, <2>3, <2>4
<1>2. AreProper(a) /\ AreProper(b) /\ IsProper(qs[i + 1])
  BY <1>1, AfterProper DEF AreProper
<1> HIDE DEF a, b, n
<1>3. f \in Seq(Seq(Tokens)) /\ Len(f) = n + 1 /\ g \in Seq(Seq(Tokens)) /\ Len(g) = n
  BY <1>1, <1>2, AllBytesTyped
<1>4. f[1] = Bytes(qs[i + 1]) /\ \A k \in 1 .. n : g[k] = f[k + 1]
  <2>1. 1 \in 1 .. n + 1 /\ \A k \in 1 .. n : k + 1 \in 1 .. n + 1
    BY <1>1
  <2> QED BY <1>1, <2>1
<1> HIDE DEF f, g
<1>5. FlattenSeq(f) = f[1] \o FlattenSeq(g)
  BY <1>1, <1>3, <1>4, FlattenFirst
<1>6. AllBytes(a) = FlattenSeq(f) /\ AllBytes(b) = FlattenSeq(g)
  BY DEF AllBytes, f, g
<1>7. AllBytes(a) \in Seq(Tokens) /\ AllBytes(b) \in Seq(Tokens) /\ Bytes(qs[i + 1]) \in Seq(Tokens)
  BY <1>2, AllBytesTyped, BytesAre
<1>8. Begins(AllBytes(a), Bytes(qs[i + 1]), AllBytes(b))
  BY <1>4, <1>5, <1>6, <1>7 DEF Begins
<1> QED
  BY <1>2, <1>8 DEF BytesLeft, a, b

LEMMA CommandsLeftStep ==
    ASSUME NEW qs, AreProper(qs), NEW i \in Nat, i < Len(qs)
    PROVE  CommandsLeft(qs, i) = Single(qs[i + 1]) \o CommandsLeft(qs, i + 1)
<1> DEFINE a == After(qs, i)
           b == After(qs, i + 1)
           n == Len(qs) - (i + 1)
           f == [k \in DOMAIN a |-> Single(a[k])]
           g == [k \in DOMAIN b |-> Single(b[k])]
<1>1. /\ n \in Nat /\ i \in 0 .. Len(qs) /\ i + 1 \in 0 .. Len(qs)
      /\ Len(a) = n + 1 /\ DOMAIN a = 1 .. n + 1 /\ a[1] = qs[i + 1]
      /\ Len(b) = n /\ DOMAIN b = 1 .. n /\ \A k \in 1 .. n : b[k] = a[k + 1]
  <2>1. qs \in Seq(Sent)
    BY DEF AreProper
  <2> HIDE DEF f, g
  <2> QED BY <2>1, AfterStep
<1>2. AreProper(a) /\ AreProper(b)
  BY <1>1, AfterProper
<1> HIDE DEF a, b, n
<1>3. f \in Seq(Seq(Sent)) /\ Len(f) = n + 1 /\ g \in Seq(Seq(Sent)) /\ Len(g) = n
  BY <1>1, <1>2, CommandsOfTyped
<1>4. f[1] = Single(qs[i + 1]) /\ \A k \in 1 .. n : g[k] = f[k + 1]
  <2>1. 1 \in 1 .. n + 1 /\ \A k \in 1 .. n : k + 1 \in 1 .. n + 1
    BY <1>1
  <2> QED BY <1>1, <2>1
<1>6. CommandsOf(a) = FlattenSeq(f) /\ CommandsOf(b) = FlattenSeq(g)
  BY <1>1, <1>2, CommandsOfTyped
<1> HIDE DEF f, g
<1>5. FlattenSeq(f) = f[1] \o FlattenSeq(g)
  BY <1>1, <1>3, <1>4, FlattenFirst
<1> QED
  BY <1>4, <1>5, <1>6 DEF CommandsLeft, a, b

LEMMA NothingLeft ==
    ASSUME NEW qs \in Seq(Sent)
    PROVE  BytesLeft(qs, Len(qs)) = <<>> /\ CommandsLeft(qs, Len(qs)) = <<>>
<1>1. After(qs, Len(qs)) = <<>>
  BY AfterAll
<1>2. [k \in DOMAIN <<>> |-> Bytes(<<>>[k])] = <<>>
  OBVIOUS
<1>3. AllBytes(<<>>) = <<>>
  BY <1>2, FlattenEmpty DEF AllBytes
<1>4. [k \in DOMAIN <<>> |-> IF IsCommand(<<>>[k]) THEN <<Meant(<<>>[k])>> ELSE <<>>] = <<>>
  OBVIOUS
<1>5. CommandsOf(<<>>) = <<>>
  BY <1>4, FlattenEmpty DEF CommandsOf
<1> QED
  BY <1>1, <1>3, <1>5 DEF BytesLeft, CommandsLeft

(***************************************************************************)
(* RequestReader's methods on whole requests                               *)
(***************************************************************************)
LEMMA BeginsBulks ==
    ASSUME NEW args \in Seq(Seq(ArgBytes)), args # <<>>, NEW rest \in Seq(Tokens)
    PROVE  /\ Begins(BulksBytes(args) \o rest, BulkBytes(Head(args)), BulksBytes(Tail(args)) \o rest)
           /\ Head(args) \in Seq(ArgBytes) /\ Tail(args) \in Seq(Seq(ArgBytes))
           /\ Len(Tail(args)) = Len(args) - 1
<1> DEFINE h == BulkBytes(Head(args))
           t == BulksBytes(Tail(args))
<1>1. Head(args) \in Seq(ArgBytes) /\ Tail(args) \in Seq(Seq(ArgBytes)) /\ Len(Tail(args)) = Len(args) - 1
  BY HeadTailProperties
<1>2. h \in Seq(Tokens) /\ t \in Seq(Tokens)
  BY <1>1, BulkIs, BulksTyped
<1>3. BulksBytes(args) = h \o t
  BY BulksBytesCons
<1> HIDE DEF h, t
<1>4. (h \o t) \o rest = h \o (t \o rest) /\ t \o rest \in Seq(Tokens) /\ h \o (t \o rest) \in Seq(Tokens)
  BY <1>2, ConcatAssociative, ConcatAt, SMTT(60)
<1>5. BulksBytes(args) \o rest = h \o (t \o rest)
  BY <1>3, <1>4
<1>6. Begins(BulksBytes(args) \o rest, h, t \o rest)
  BY <1>2, <1>4, <1>5 DEF Begins
<1> QED
  BY <1>1, <1>6 DEF h, t

LEMMA OpensArray ==
    ASSUME NEW q, IsProper(q), q.form = "bulks", NEW u, NEW rest, Begins(u, Bytes(q), rest)
    PROVE  /\ Begins(u, SizeBytes("*", Len(q.args)), BulksBytes(q.args) \o rest)
           /\ q.args \in Seq(Seq(ArgBytes)) /\ q.args # <<>> /\ Len(q.args) \in Nat /\ Len(q.args) >= 1
           /\ rest \in Seq(Tokens)
<1> DEFINE a == SizeBytes("*", Len(q.args))
           b == BulksBytes(q.args)
<1>1. q.args \in Seq(Seq(ArgBytes)) /\ q.args # <<>> /\ Bytes(q) = a \o b
  BY BytesAre
<1>2. Len(q.args) \in Nat /\ Len(q.args) # 0
  BY <1>1, LenProperties, EmptySeq
<1>3. a \in Seq(Tokens) /\ b \in Seq(Tokens)
  BY <1>1, <1>2, SizeBytesIs, BulksTyped
<1>4. u \in Seq(Tokens) /\ rest \in Seq(Tokens) /\ u = Bytes(q) \o rest
  BY DEF Begins
<1> HIDE DEF a, b
<1>5. (a \o b) \o rest = a \o (b \o rest) /\ b \o rest \in Seq(Tokens)
  BY <1>3, <1>4, ConcatAssociative, ConcatAt, SMTT(60)
<1>6. u = a \o (b \o rest)
  BY <1>1, <1>4, <1>5
<1>7. Begins(u, a, b \o rest)
  BY <1>3, <1>4, <1>5, <1>6 DEF Begins
<1> QED
  BY <1>1, <1>2, <1>4, <1>7 DEF a, b

\* The byte that tells an array from a line.
LEMMA FirstByte ==
    ASSUME NEW q, IsProper(q), NEW u, NEW rest, Begins(u, Bytes(q), rest)
    PROVE  /\ Len(u) \in Nat /\ Len(u) >= 1
           /\ q.form \in {"bulks", "zero"} => u[1].k = "*"
           /\ q.form \in {"inline", "blank"} => u[1].k # "*" /\ IsLine(Bytes(q))
<1>1. q.form \in {"bulks", "inline", "zero", "blank"}
  BY BytesAre
<1>2. ASSUME NEW L, NEW w, Begins(u, L, w), Len(L) >= 1
      PROVE  Len(u) \in Nat /\ Len(u) >= 1 /\ u[1] = L[1]
  <2> DEFINE a == Len(L)
             b == Len(w)
             c == Len(u)
  <2>1. a \in Nat /\ b \in Nat /\ c = a + b /\ a >= 1 /\ \A j \in 1 .. a : u[j] = L[j]
    BY <1>2, BeginsIs
  <2> HIDE DEF a, b, c
  <2>2. c \in Nat /\ c >= 1 /\ 1 \in 1 .. a
    BY <2>1
  <2> QED BY <2>1, <2>2 DEF c
<1>3. CASE q.form = "bulks"
  <2>1. Begins(u, SizeBytes("*", Len(q.args)), BulksBytes(q.args) \o rest) /\ Len(q.args) \in Nat
    BY <1>3, OpensArray
  <2>2. SizeBytes("*", Len(q.args))[1].k = "*" /\ Len(SizeBytes("*", Len(q.args))) >= 1
    BY <2>1, SizeBytesIs
  <2>3. Len(u) \in Nat /\ Len(u) >= 1 /\ u[1] = SizeBytes("*", Len(q.args))[1]
    BY <1>2, <2>1, <2>2
  <2> QED BY <1>3, <2>2, <2>3
<1>4. CASE q.form = "zero"
  <2>1. Bytes(q) = SizeBytes("*", 0)
    BY <1>4, BytesAre
  <2>2. Bytes(q)[1].k = "*" /\ Len(Bytes(q)) >= 1
    BY <2>1, SizeBytesIs
  <2>3. Len(u) \in Nat /\ Len(u) >= 1 /\ u[1] = Bytes(q)[1]
    BY <1>2, <2>2
  <2> QED BY <1>4, <2>2, <2>3
<1>5. CASE q.form = "inline"
  <2>1. IsLine(Bytes(q)) /\ Bytes(q)[1].k # "*"
    BY <1>5, BytesAre, InlineIs
  <2>2. Len(Bytes(q)) >= 1
    <3>1. Len(Bytes(q)) \in Nat /\ Len(Bytes(q)) >= 2
      BY <2>1, BytesAre, LenProperties DEF IsLine
    <3> QED BY <3>1
  <2>3. Len(u) \in Nat /\ Len(u) >= 1 /\ u[1] = Bytes(q)[1]
    BY <1>2, <2>2
  <2> QED BY <1>5, <2>1, <2>3
<1>6. CASE q.form = "blank"
  <2>1. Bytes(q) = CRLF
    BY <1>6, BytesAre
  <2>2. IsLine(Bytes(q)) /\ Bytes(q)[1].k # "*" /\ Len(Bytes(q)) >= 1
    BY <2>1, BlankIs, CRLFIs
  <2>3. Len(u) \in Nat /\ Len(u) >= 1 /\ u[1] = Bytes(q)[1]
    BY <1>2, <2>2
  <2> QED BY <1>6, <2>2, <2>3
<1> QED
  BY <1>1, <1>3, <1>4, <1>5, <1>6

LEMMA PeekByteWhole ==
    ASSUME NEW s \in Readers, Tidy(s), NEW q, IsProper(q), NEW rest, Begins(Unread(s), Bytes(q), rest),
           NEW x \in PeekByte(s)
    PROVE  /\ x.s \in Readers /\ x.e = "ok" /\ Unread(x.s) = Unread(s) /\ x.s.over = 0
           /\ x.v[1].k = "*" <=> q.form \in {"bulks", "zero"}
           /\ x.s.whole => Tidy(x.s)
<1> DEFINE u == Unread(s)
<1>1. Len(u) \in Nat /\ Len(u) >= 1 /\ (u[1].k = "*" <=> q.form \in {"bulks", "zero"})
  BY FirstByte, BytesAre
<1>2. s.over = 0
  BY DEF Tidy
<1>3. /\ x.s \in Readers /\ x.e \in {"ok", "EOF", "panic"}
      /\ Unread(x.s) = Unread(s) /\ x.s.over = 0 /\ x.e # "panic"
      /\ x.e = "ok" => x.v[1] = u[1]
      /\ x.e = "EOF" => Len(u) < 1
      /\ x.s.whole => Tidy(x.s)
  BY <1>2, PeekByteIs
<1>4. x.e # "EOF"
  <2> DEFINE n == Len(u)
  <2>1. n \in Nat /\ n >= 1
    BY <1>1
  <2>2. ~(n < 1)
    <3> HIDE DEF n
    <3> QED BY <2>1
  <2> QED BY <1>3, <2>2
<1>5. x.e = "ok"
  BY <1>3, <1>4
<1> QED
  BY <1>1, <1>3, <1>5

LEMMA readCommandWhole ==
    ASSUME NEW s \in Readers, Tidy(s), NEW q, IsProper(q), NEW rest, Begins(Unread(s), Bytes(q), rest),
           NEW o \in readCommand(s), o.s.whole
    PROVE  /\ o.s \in Readers /\ Tidy(o.s)
           /\ q.form = "zero" => o.e = "empty" /\ Unread(o.s) = rest
           /\ q.form = "blank" => o.e = "blank" /\ Unread(o.s) = rest
           /\ q.form = "inline" => /\ o.e = "ok" /\ Unread(o.s) = rest
                                   /\ o.v.inline = TRUE /\ o.v.args = Meant(q).args /\ o.v.left = 0
           /\ q.form = "bulks" => /\ o.e = "ok" /\ Unread(o.s) = BulksBytes(Tail(q.args)) \o rest
                                  /\ o.v.inline = FALSE /\ o.v.args = <<Head(q.args)>>
                                  /\ o.v.left = Len(q.args) - 1
<1>1. PICK x \in PeekByte(s) :
              \/ x.e # "ok" /\ o = x
              \/ /\ x.e = "ok" /\ x.v[1].k = "*"
                 /\ \E n \in ReadArrayLen(x.s) :
                       \/ n.e # "ok" /\ o = n
                       \/ n.e = "ok" /\ Size(n) < 1 /\ o = Res(n.s, <<>>, "empty")
                       \/ /\ n.e = "ok" /\ ~(Size(n) < 1)
                          /\ \E name \in ReadBulk(n.s) :
                                \/ name.e # "ok" /\ o = name
                                \/ name.e = "ok" /\ o = ArrayRead(name, Size(n))
              \/ /\ x.e = "ok" /\ x.v[1].k # "*"
                 /\ \E l \in ReadLine(x.s) :
                       \/ l.e # "ok" /\ o = l
                       \/ l.e = "ok" /\ o = LineRead(l)
  BY readCommandCases
<1>2. /\ x.s \in Readers /\ x.e = "ok" /\ Unread(x.s) = Unread(s)
      /\ x.v[1].k = "*" <=> q.form \in {"bulks", "zero"}
      /\ x.s.whole => Tidy(x.s)
  BY PeekByteWhole
<1>3. Begins(Unread(x.s), Bytes(q), rest) /\ q.form \in {"bulks", "inline", "zero", "blank"}
  BY <1>2, BytesAre
<1>4. CASE q.form \in {"inline", "blank"}
  <2>1. PICK l \in ReadLine(x.s) : \/ l.e # "ok" /\ o = l
                                   \/ l.e = "ok" /\ o = LineRead(l)
    BY <1>1, <1>2, <1>4
  <2>2. l.s \in Readers /\ (l.s.whole => x.s.whole)
    BY <1>2, ReadLineIs
  <2>3. o.s = l.s
    BY <2>1, LineReadIs
  <2>4. IsLine(Bytes(q))
    BY <1>4, FirstByte
  <2>5. l.e = "ok" /\ l.v = Bytes(q) /\ Tidy(l.s) /\ Unread(l.s) = rest
    BY <1>2, <1>3, <2>2, <2>3, <2>4, ReadLineWhole
  <2>6. o = LineRead(l)
    BY <2>1, <2>5
  <2>7. /\ o.e = (IF Words(l.v) = <<>> THEN "blank" ELSE "ok")
        /\ o.v.inline = TRUE /\ o.v.args = Arguments(l.v) /\ o.v.left = 0
    BY <2>6, LineReadIs
  <2>8. CASE q.form = "inline"
    <3>1. Words(Bytes(q)) # <<>> /\ Arguments(Bytes(q)) = Meant(q).args
      BY <2>8, BytesAre, InlineIs, MeantIs
    <3> QED BY <2>2, <2>3, <2>5, <2>7, <2>8, <3>1
  <2>9. CASE q.form = "blank"
    <3>1. Words(Bytes(q)) = <<>>
      BY <2>9, BytesAre, BlankIs
    <3> QED BY <2>2, <2>3, <2>5, <2>7, <2>9, <3>1
  <2> QED BY <1>4, <2>8, <2>9
<1>5. CASE q.form \in {"bulks", "zero"}
  <2>1. PICK n \in ReadArrayLen(x.s) :
                       \/ n.e # "ok" /\ o = n
                       \/ n.e = "ok" /\ Size(n) < 1 /\ o = Res(n.s, <<>>, "empty")
                       \/ /\ n.e = "ok" /\ ~(Size(n) < 1)
                          /\ \E name \in ReadBulk(n.s) :
                                \/ name.e # "ok" /\ o = name
                                \/ name.e = "ok" /\ o = ArrayRead(name, Size(n))
    BY <1>1, <1>2, <1>5
  <2>2. n.s \in Readers /\ (n.s.whole => x.s.whole)
    BY <1>2, ReadArrayLenIs
  <2>3. n.s.whole
    <3>1. CASE n.e # "ok" /\ o = n
      BY <3>1
    <3>2. CASE n.e = "ok" /\ Size(n) < 1 /\ o = Res(n.s, <<>>, "empty")
      BY <3>2, ResIs
    <3>3. ASSUME NEW name \in ReadBulk(n.s),
                 \/ name.e # "ok" /\ o = name
                 \/ name.e = "ok" /\ o = ArrayRead(name, Size(n))
          PROVE  n.s.whole
      <4>1. o.s = name.s
        BY <3>3, ArrayReadIs
      <4> QED BY <2>2, <4>1, ReadBulkIs
    <3> QED BY <2>1, <3>1, <3>2, <3>3
  <2>4. Tidy(x.s)
    BY <1>2, <2>2, <2>3
  <2>5. CASE q.form = "zero"
    <3>1. Begins(Unread(x.s), SizeBytes("*", 0), rest)
      BY <1>3, <2>5, BytesAre
    <3>2. n.e = "ok" /\ Size(n) = 0 /\ Tidy(n.s) /\ Unread(n.s) = rest
      BY <1>2, <2>3, <2>4, <3>1, ReadArrayLenWhole
    <3>3. o = Res(n.s, <<>>, "empty")
      <4>1. Size(n) < 1
        BY <3>2
      <4> QED BY <2>1, <3>2, <4>1
    <3>4. o.s = n.s /\ o.e = "empty"
      BY <3>3, ResIs
    <3> QED BY <2>2, <2>5, <3>2, <3>4
  <2>6. CASE q.form = "bulks"
    <3> DEFINE k == Len(q.args)
               w == BulksBytes(q.args) \o rest
               t == BulksBytes(Tail(q.args)) \o rest
    <3>1. /\ Begins(Unread(x.s), SizeBytes("*", k), w)
          /\ q.args \in Seq(Seq(ArgBytes)) /\ q.args # <<>> /\ k \in Nat /\ k >= 1 /\ rest \in Seq(Tokens)
      BY <1>3, <2>6, OpensArray
    <3>2. n.e = "ok" /\ Size(n) = k /\ Tidy(n.s) /\ Unread(n.s) = w
      BY <1>2, <2>3, <2>4, <3>1, ReadArrayLenWhole
    <3>3. PICK name \in ReadBulk(n.s) : \/ name.e # "ok" /\ o = name
                                        \/ name.e = "ok" /\ o = ArrayRead(name, Size(n))
      <4>1. ~(Size(n) < 1)
        <5> HIDE DEF k
        <5> QED BY <3>1, <3>2
      <4> QED BY <2>1, <3>2, <4>1
    <3>4. o.s = name.s
      BY <3>3, ArrayReadIs
    <3>5. Begins(w, BulkBytes(Head(q.args)), t) /\ Head(q.args) \in Seq(ArgBytes)
      BY <3>1, BeginsBulks
    <3>6. /\ name.e = "ok" /\ name.v = Head(q.args)
          /\ name.s \in Readers /\ Tidy(name.s) /\ Unread(name.s) = t
      <4>1. Begins(Unread(n.s), BulkBytes(Head(q.args)), t) /\ name.s.whole
        BY <3>2, <3>4, <3>5
      <4>2. n.s \in Readers /\ Tidy(n.s) /\ Head(q.args) \in Seq(ArgBytes)
        BY <2>2, <3>2, <3>5
      <4> HIDE DEF t, k, w
      <4> QED BY <4>1, <4>2, ReadBulkWhole
    <3>7. o = ArrayRead(name, Size(n))
      BY <3>3, <3>6
    <3>8. o.e = "ok" /\ o.v.inline = FALSE /\ o.v.args = <<name.v>> /\ o.v.left = Size(n) - 1
      BY <3>7, ArrayReadIs
    <3> QED BY <2>6, <3>2, <3>4, <3>6, <3>8
  <2> QED BY <1>5, <2>5, <2>6
<1> QED
  BY <1>3, <1>4, <1>5

LEMMA skipCmdWhole ==
    ASSUME NEW s \in Readers, Tidy(s), NEW q, IsProper(q), NEW rest, Begins(Unread(s), Bytes(q), rest),
           NEW o \in skipCmd(s), o.s.whole
    PROVE  /\ o.s \in Readers /\ Tidy(o.s)
           /\ q.form = "zero" => o.e = "empty" /\ Unread(o.s) = rest
           /\ q.form \in {"blank", "inline"} => o.e = "ok" /\ o.v = 0 /\ Unread(o.s) = rest
           /\ q.form = "bulks" => o.e = "ok" /\ o.v = Len(q.args) /\ Unread(o.s) = BulksBytes(q.args) \o rest
<1>1. PICK x \in PeekByte(s) :
              \/ x.e # "ok" /\ o = x
              \/ /\ x.e = "ok" /\ x.v[1].k # "*"
                 /\ \E l \in ReadLine(x.s) :
                       \/ l.e # "ok" /\ o = l
                       \/ l.e = "ok" /\ o = Res(l.s, 0, "ok")
              \/ /\ x.e = "ok" /\ x.v[1].k = "*"
                 /\ \E n \in ReadArrayLen(x.s) :
                       \/ n.e # "ok" /\ o = n
                       \/ n.e = "ok" /\ Size(n) < 1 /\ o = Res(n.s, 0, "empty")
                       \/ n.e = "ok" /\ ~(Size(n) < 1) /\ o = Res(n.s, Size(n), "ok")
  BY skipCmdCases
<1>2. /\ x.s \in Readers /\ x.e = "ok" /\ Unread(x.s) = Unread(s)
      /\ x.v[1].k = "*" <=> q.form \in {"bulks", "zero"}
      /\ x.s.whole => Tidy(x.s)
  BY PeekByteWhole
<1>3. Begins(Unread(x.s), Bytes(q), rest) /\ q.form \in {"bulks", "inline", "zero", "blank"}
  BY <1>2, BytesAre
<1>4. CASE q.form \in {"inline", "blank"}
  <2>1. PICK l \in ReadLine(x.s) : \/ l.e # "ok" /\ o = l
                                   \/ l.e = "ok" /\ o = Res(l.s, 0, "ok")
    BY <1>1, <1>2, <1>4
  <2>2. l.s \in Readers /\ (l.s.whole => x.s.whole)
    BY <1>2, ReadLineIs
  <2>3. o.s = l.s
    BY <2>1, ResIs
  <2>4. IsLine(Bytes(q))
    BY <1>4, FirstByte
  <2>5. l.e = "ok" /\ l.v = Bytes(q) /\ Tidy(l.s) /\ Unread(l.s) = rest
    BY <1>2, <1>3, <2>2, <2>3, <2>4, ReadLineWhole
  <2>6. o.e = "ok" /\ o.v = 0
    BY <2>1, <2>5, ResIs
  <2> QED BY <1>4, <2>2, <2>3, <2>5, <2>6
<1>5. CASE q.form \in {"bulks", "zero"}
  <2>1. PICK n \in ReadArrayLen(x.s) :
                       \/ n.e # "ok" /\ o = n
                       \/ n.e = "ok" /\ Size(n) < 1 /\ o = Res(n.s, 0, "empty")
                       \/ n.e = "ok" /\ ~(Size(n) < 1) /\ o = Res(n.s, Size(n), "ok")
    BY <1>1, <1>2, <1>5
  <2>2. n.s \in Readers /\ (n.s.whole => x.s.whole)
    BY <1>2, ReadArrayLenIs
  <2>3. o.s = n.s
    BY <2>1, ResIs
  <2>4. Tidy(x.s)
    BY <1>2, <2>2, <2>3
  <2>5. CASE q.form = "zero"
    <3>1. Begins(Unread(x.s), SizeBytes("*", 0), rest)
      BY <1>3, <2>5, BytesAre
    <3>2. n.e = "ok" /\ Size(n) = 0 /\ Tidy(n.s) /\ Unread(n.s) = rest
      BY <1>2, <2>3, <2>4, <3>1, ReadArrayLenWhole
    <3>3. o = Res(n.s, 0, "empty")
      <4>1. Size(n) < 1
        BY <3>2
      <4> QED BY <2>1, <3>2, <4>1
    <3>4. o.e = "empty"
      BY <3>3, ResIs
    <3> QED BY <2>2, <2>3, <2>5, <3>2, <3>4
  <2>6. CASE q.form = "bulks"
    <3> DEFINE k == Len(q.args)
               w == BulksBytes(q.args) \o rest
    <3>1. Begins(Unread(x.s), SizeBytes("*", k), w) /\ k \in Nat /\ k >= 1
      BY <1>3, <2>6, OpensArray
    <3>2. n.e = "ok" /\ Size(n) = k /\ Tidy(n.s) /\ Unread(n.s) = w
      BY <1>2, <2>3, <2>4, <3>1, ReadArrayLenWhole
    <3>3. o = Res(n.s, Size(n), "ok")
      <4>1. ~(Size(n) < 1)
        <5> HIDE DEF k
        <5> QED BY <3>1, <3>2
      <4> QED BY <2>1, <3>2, <4>1
    <3>4. o.e = "ok" /\ o.v = Size(n)
      BY <3>3, ResIs
    <3> QED BY <2>2, <2>3, <2>6, <3>2, <3>4
  <2> QED BY <1>5, <2>5, <2>6
<1> QED
  BY <1>3, <1>4, <1>5

\* peekCmd only gets whole lines if its first line is whole.
LEMMA peekCmdFirst ==
    ASSUME NEW s \in Readers, NEW off \in Nat, NEW o \in peekCmd(s, off), o.s.whole
    PROVE  \E l \in PeekLine(s, off) :
              /\ l.s.whole
              /\ \/ l.e # "ok" /\ o = l
                 \/ l.e = "ok" /\ l.v[1].k # "*" /\ o = Res(l.s, FirstWord(l.v), "ok")
                 \/ /\ l.e = "ok" /\ l.v[1].k = "*"
                    /\ \E n \in ParseSize(l, "*") :
                          \/ n.e # "ok" /\ o = n
                          \/ n.e = "ok" /\ Size(n) < 1 /\ o = Res(n.s, l.v, "empty")
                          \/ /\ n.e = "ok" /\ ~(Size(n) < 1)
                             /\ \E b \in PeekLine(n.s, off + Len(l.v)) :
                                   /\ b.s.whole
                                   /\ \/ b.e # "ok" /\ o = b
                                      \/ /\ b.e = "ok"
                                         /\ \E m \in ParseSize(b, "$") :
                                              \/ m.e # "ok" /\ o = m
                                              \/ m.e = "ok" /\ o \in PeekN(m.s, off + Len(l.v) + Len(b.v), Size(m))
<1>1. PICK l \in PeekLine(s, off) :
              \/ l.e # "ok" /\ o = l
              \/ l.e = "ok" /\ l.v[1].k # "*" /\ o = Res(l.s, FirstWord(l.v), "ok")
              \/ /\ l.e = "ok" /\ l.v[1].k = "*"
                 /\ \E n \in ParseSize(l, "*") :
                       \/ n.e # "ok" /\ o = n
                       \/ n.e = "ok" /\ Size(n) < 1 /\ o = Res(n.s, l.v, "empty")
                       \/ /\ n.e = "ok" /\ ~(Size(n) < 1)
                          /\ \E b \in PeekLine(n.s, off + Len(l.v)) :
                                \/ b.e # "ok" /\ o = b
                                \/ /\ b.e = "ok"
                                   /\ \E m \in ParseSize(b, "$") :
                                         \/ m.e # "ok" /\ o = m
                                         \/ m.e = "ok" /\ o \in PeekN(m.s, off + Len(l.v) + Len(b.v), Size(m))
  BY peekCmdCases
<1>2. /\ l.s \in Readers
      /\ l.e = "ok" => l.v \in Seq(ArgBytes) /\ Len(l.v) \in Nat /\ Len(l.v) >= 2
  BY PeekLineIs
<1>3. CASE l.e # "ok" /\ o = l
  BY <1>1, <1>3
<1>4. CASE l.e = "ok" /\ l.v[1].k # "*" /\ o = Res(l.s, FirstWord(l.v), "ok")
  <2>1. o.s = l.s
    BY <1>4, Zenon DEF Res
  <2> QED BY <1>4, <2>1
<1>5. ASSUME l.e = "ok", l.v[1].k = "*", NEW n \in ParseSize(l, "*"),
             \/ n.e # "ok" /\ o = n
             \/ n.e = "ok" /\ Size(n) < 1 /\ o = Res(n.s, l.v, "empty")
             \/ /\ n.e = "ok" /\ ~(Size(n) < 1)
                /\ \E b \in PeekLine(n.s, off + Len(l.v)) :
                      \/ b.e # "ok" /\ o = b
                      \/ /\ b.e = "ok"
                         /\ \E m \in ParseSize(b, "$") :
                               \/ m.e # "ok" /\ o = m
                               \/ m.e = "ok" /\ o \in PeekN(m.s, off + Len(l.v) + Len(b.v), Size(m))
      PROVE  /\ l.s.whole
             /\ \/ n.e # "ok" /\ o = n
                \/ n.e = "ok" /\ Size(n) < 1 /\ o = Res(n.s, l.v, "empty")
                \/ /\ n.e = "ok" /\ ~(Size(n) < 1)
                   /\ \E b \in PeekLine(n.s, off + Len(l.v)) :
                         /\ b.s.whole
                         /\ \/ b.e # "ok" /\ o = b
                            \/ /\ b.e = "ok"
                               /\ \E m \in ParseSize(b, "$") :
                                     \/ m.e # "ok" /\ o = m
                                     \/ m.e = "ok" /\ o \in PeekN(m.s, off + Len(l.v) + Len(b.v), Size(m))
  <2>1. n.s = l.s
    <3>1. l.v \in Seq(ArgBytes) /\ Len(l.v) \in Nat /\ Len(l.v) >= 1
      BY <1>2, <1>5
    <3> QED BY <3>1, ParseSizeIs
  <2>2. CASE n.e # "ok" /\ o = n
    BY <2>1, <2>2
  <2>3. CASE n.e = "ok" /\ Size(n) < 1 /\ o = Res(n.s, l.v, "empty")
    <3>1. o.s = l.s
      BY <2>1, <2>3, ResIs
    <3> QED BY <2>3, <3>1
  <2>4. ASSUME n.e = "ok", ~(Size(n) < 1), NEW b \in PeekLine(n.s, off + Len(l.v)),
               \/ b.e # "ok" /\ o = b
               \/ /\ b.e = "ok"
                  /\ \E m \in ParseSize(b, "$") :
                        \/ m.e # "ok" /\ o = m
                        \/ m.e = "ok" /\ o \in PeekN(m.s, off + Len(l.v) + Len(b.v), Size(m))
        PROVE  b.s.whole /\ l.s.whole
    <3> DEFINE y == Len(l.v)
    <3>0. y \in Nat /\ y >= 2
      BY <1>2, <1>5
    <3>1. off + y \in Nat /\ off + y >= 1
      <4> HIDE DEF y
      <4> QED BY <3>0
    <3>2. /\ b.s \in Readers /\ (b.s.whole => n.s.whole)
          /\ b.e = "ok" => b.v \in Seq(ArgBytes) /\ Len(b.v) \in Nat /\ Len(b.v) >= 2
      BY <1>2, <2>1, <3>1, PeekLineIs
    <3>3. CASE b.e # "ok" /\ o = b
      BY <2>1, <3>2, <3>3
    <3>4. ASSUME b.e = "ok", NEW m \in ParseSize(b, "$"),
                 \/ m.e # "ok" /\ o = m
                 \/ m.e = "ok" /\ o \in PeekN(m.s, off + Len(l.v) + Len(b.v), Size(m))
          PROVE  b.s.whole
      <4>1. b.v \in Seq(ArgBytes) /\ Len(b.v) \in Nat /\ Len(b.v) >= 1
        BY <3>2, <3>4
      <4>2. m.s = b.s /\ (m.e = "ok" => Size(m) \in Nat)
        BY <4>1, ParseSizeIs
      <4>3. CASE m.e # "ok" /\ o = m
        BY <4>2, <4>3
      <4>4. CASE m.e = "ok" /\ o \in PeekN(m.s, off + Len(l.v) + Len(b.v), Size(m))
        <5> DEFINE z == off + Len(l.v)
                   c == Len(b.v)
        <5>1. z \in Nat /\ z >= 1 /\ c \in Nat
          BY <3>1, <4>1
        <5>2. z + c \in Nat /\ z + c >= 1
          <6> HIDE DEF z, c
          <6> QED BY <5>1
        <5>3. o.s.whole => m.s.whole
          <6> HIDE DEF z, c
          <6>1. o \in PeekN(m.s, z + c, Size(m)) /\ m.s \in Readers /\ Size(m) \in Nat
            BY <3>2, <4>2, <4>4 DEF z, c
          <6> QED BY <5>2, <6>1, PeekNIs
        <5> QED BY <4>2, <5>3
      <4> QED BY <3>4, <4>3, <4>4
    <3>5. b.s.whole
      BY <2>4, <3>3, <3>4
    <3> QED BY <2>1, <3>2, <3>5
  <2> QED BY <1>5, <2>2, <2>3, <2>4
<1> QED
  BY <1>1, <1>3, <1>4, <1>5

\* A line at an offset, and what is after it.
LEMMA PeekLineAt ==
    ASSUME NEW s \in Readers, Tidy(s), NEW off \in Nat, off <= Len(s.buf), NEW L, IsLine(L), NEW w,
           Begins(After(Unread(s), off), L, w), NEW o \in PeekLine(s, off), o.s.whole
    PROVE  /\ o.e = "ok" /\ o.v = L
           /\ o.s \in Readers /\ Tidy(o.s) /\ Unread(o.s) = Unread(s)
           /\ Len(L) \in Nat /\ off + Len(L) <= Len(o.s.buf)
           /\ After(Unread(s), off + Len(L)) = w
<1> DEFINE u == Unread(s)
<1>1. u \in Seq(Tokens) /\ L \in Seq(Tokens) /\ Len(L) \in Nat
  BY UnreadTokens, LenProperties DEF Begins
<1>2. off \in 0 .. Len(u)
  <2> DEFINE a == Len(s.buf)
             b == Len(s.net)
             c == Len(u)
  <2>1. a \in Nat /\ b \in Nat /\ c = a + b /\ off <= a
    BY ReaderIs, UnreadIs
  <2> HIDE DEF a, b, c
  <2>2. off \in 0 .. c
    BY <2>1
  <2> QED BY <2>2 DEF c
<1>3. HasAt(u, off, L) /\ After(u, off + Len(L)) = w
  BY <1>1, <1>2, AfterHas
<1> QED
  BY <1>1, <1>3, PeekLineWhole

LEMMA peekCmdWhole ==
    ASSUME NEW s \in Readers, Tidy(s), NEW off \in Nat, off <= Len(s.buf), NEW q, IsProper(q), NEW rest,
           Begins(After(Unread(s), off), Bytes(q), rest), NEW o \in peekCmd(s, off), o.s.whole
    PROVE  /\ o.s \in Readers /\ Tidy(o.s) /\ Unread(o.s) = Unread(s)
           /\ q.form = "zero" => /\ o.e = "empty" /\ Len(o.v) \in Nat /\ off + Len(o.v) <= Len(o.s.buf)
                                 /\ After(Unread(s), off + Len(o.v)) = rest
           /\ q.form # "zero" => o.e = "ok"
           /\ q.form \in {"bulks", "inline"} => o.v = q.args[1]
<1> DEFINE u == Unread(s)
           v == After(u, off)
<1>1. PICK l \in PeekLine(s, off) :
              /\ l.s.whole
              /\ \/ l.e # "ok" /\ o = l
                 \/ l.e = "ok" /\ l.v[1].k # "*" /\ o = Res(l.s, FirstWord(l.v), "ok")
                 \/ /\ l.e = "ok" /\ l.v[1].k = "*"
                    /\ \E n \in ParseSize(l, "*") :
                          \/ n.e # "ok" /\ o = n
                          \/ n.e = "ok" /\ Size(n) < 1 /\ o = Res(n.s, l.v, "empty")
                          \/ /\ n.e = "ok" /\ ~(Size(n) < 1)
                             /\ \E b \in PeekLine(n.s, off + Len(l.v)) :
                                   /\ b.s.whole
                                   /\ \/ b.e # "ok" /\ o = b
                                      \/ /\ b.e = "ok"
                                         /\ \E m \in ParseSize(b, "$") :
                                              \/ m.e # "ok" /\ o = m
                                              \/ m.e = "ok" /\ o \in PeekN(m.s, off + Len(l.v) + Len(b.v), Size(m))
  BY peekCmdFirst
<1>2. q.form \in {"bulks", "inline", "zero", "blank"} /\ q.args \in Seq(Seq(ArgBytes))
  BY BytesAre
<1>3. CASE q.form \in {"inline", "blank"}
  <2>1. IsLine(Bytes(q)) /\ v[1].k # "*"
    BY <1>3, FirstByte
  <2>2. l.e = "ok" /\ l.v = Bytes(q) /\ l.s \in Readers /\ Tidy(l.s) /\ Unread(l.s) = u
    BY <1>1, <2>1, PeekLineAt
  <2>3. Bytes(q)[1].k # "*"
    <3>1. CASE q.form = "inline"
      BY <3>1, BytesAre, InlineIs
    <3>2. CASE q.form = "blank"
      <4>1. Bytes(q) = CRLF
        BY <3>2, BytesAre
      <4> QED BY <4>1, CRLFIs
    <3> QED BY <1>3, <3>1, <3>2
  <2>4. o = Res(l.s, FirstWord(l.v), "ok")
    BY <1>1, <2>2, <2>3
  <2>5. o.s = l.s /\ o.v = FirstWord(Bytes(q)) /\ o.e = "ok"
    BY <2>2, <2>4, Zenon DEF Res
  <2>6. q.form = "inline" => FirstWord(Bytes(q)) = q.args[1]
    BY BytesAre, InlineIs
  <2> QED BY <1>3, <2>2, <2>5, <2>6
<1>4. CASE q.form = "zero"
  <2> DEFINE L == SizeBytes("*", 0)
  <2>1. Bytes(q) = L /\ IsLine(L) /\ L[1].k = "*"
    BY <1>4, BytesAre, SizeBytesIs
  <2>2. /\ l.e = "ok" /\ l.v = L /\ l.s \in Readers /\ Tidy(l.s) /\ Unread(l.s) = u
        /\ Len(L) \in Nat /\ off + Len(L) <= Len(l.s.buf) /\ After(u, off + Len(L)) = rest
    BY <1>1, <2>1, PeekLineAt
  <2>3. PICK n \in ParseSize(l, "*") :
                          \/ n.e # "ok" /\ o = n
                          \/ n.e = "ok" /\ Size(n) < 1 /\ o = Res(n.s, l.v, "empty")
                          \/ n.e = "ok" /\ ~(Size(n) < 1)
    BY <1>1, <2>1, <2>2
  <2>4. n.s = l.s /\ n.e = "ok" /\ Size(n) = 0
    BY <2>2, ParseSizeWhole
  <2>5. o = Res(n.s, l.v, "empty")
    <3>1. Size(n) < 1
      BY <2>4
    <3> QED BY <2>3, <2>4, <3>1
  <2>6. o.s = l.s /\ o.v = L /\ o.e = "empty"
    BY <2>2, <2>4, <2>5, ResIs
  <2> QED BY <1>4, <2>2, <2>6
<1>5. CASE q.form = "bulks"
  <2> DEFINE k == Len(q.args)
             L == SizeBytes("*", k)
             w == BulksBytes(q.args) \o rest
             a == Head(q.args)
             M == SizeBytes("$", Len(a))
             t == BulksBytes(Tail(q.args)) \o rest
             y == a \o BulkEnd
             i == off + 3
             j == i + 3
  <2>1. /\ Begins(v, L, w) /\ q.args # <<>> /\ k \in Nat /\ k >= 1 /\ rest \in Seq(Tokens)
    BY <1>5, OpensArray
  <2>2. Begins(w, BulkBytes(a), t) /\ a \in Seq(ArgBytes)
    BY <1>2, <2>1, BeginsBulks
  <2>3. Begins(w, M, y \o t) /\ Begins(y \o t, y, t)
    BY <2>2, BeginsBulk
  <2>4. Len(a) \in Nat /\ a \in Seq(Tokens) /\ a = q.args[1]
    BY <1>2, <2>1, <2>2, ArgIs
  <2>5. IsLine(L) /\ L[1].k = "*" /\ Len(L) = 3 /\ IsLine(M) /\ Len(M) = 3
    BY <2>1, <2>4, SizeBytesIs
  <2>6. /\ l.e = "ok" /\ l.v = L /\ l.s \in Readers /\ Tidy(l.s) /\ Unread(l.s) = u
        /\ off + Len(L) <= Len(l.s.buf) /\ After(u, off + Len(L)) = w
    <3>1. Begins(After(Unread(s), off), L, w) /\ IsLine(L) /\ l.s.whole
      BY <1>1, <2>1, <2>5
    <3> HIDE DEF L, w
    <3> QED BY <3>1, PeekLineAt
  <2>7. PICK n \in ParseSize(l, "*") :
              \/ n.e # "ok" /\ o = n
              \/ n.e = "ok" /\ Size(n) < 1 /\ o = Res(n.s, l.v, "empty")
              \/ /\ n.e = "ok" /\ ~(Size(n) < 1)
                 /\ \E b \in PeekLine(n.s, off + Len(l.v)) :
                       /\ b.s.whole
                       /\ \/ b.e # "ok" /\ o = b
                          \/ /\ b.e = "ok"
                             /\ \E m \in ParseSize(b, "$") :
                                  \/ m.e # "ok" /\ o = m
                                  \/ m.e = "ok" /\ o \in PeekN(m.s, off + Len(l.v) + Len(b.v), Size(m))
    BY <1>1, <2>5, <2>6
  <2>8. n.s = l.s /\ n.e = "ok" /\ Size(n) = k /\ ~(Size(n) < 1)
    <3>1. n.s = l.s /\ n.e = "ok" /\ Size(n) = k
      BY <2>1, <2>6, ParseSizeWhole
    <3> HIDE DEF k
    <3> QED BY <2>1, <3>1
  <2>9. Len(l.v) = 3
    BY <2>5, <2>6
  <2>10. PICK b \in PeekLine(l.s, i) :
                       /\ b.s.whole
                       /\ \/ b.e # "ok" /\ o = b
                          \/ /\ b.e = "ok"
                             /\ \E m \in ParseSize(b, "$") :
                                  \/ m.e # "ok" /\ o = m
                                  \/ m.e = "ok" /\ o \in PeekN(m.s, i + Len(b.v), Size(m))
    BY <2>7, <2>8, <2>9
  <2>11. i \in Nat /\ i <= Len(l.s.buf) /\ After(Unread(l.s), i) = w
    <3>1. i \in Nat
      OBVIOUS
    <3>2. off + Len(L) = i
      BY <2>5
    <3> HIDE DEF i, L, w, u
    <3> QED BY <2>6, <3>1, <3>2
  <2>12. /\ b.e = "ok" /\ b.v = M /\ b.s \in Readers /\ Tidy(b.s) /\ Unread(b.s) = u
         /\ After(u, i + Len(M)) = y \o t
    <3> DEFINE x == y \o t
    <3>1. Begins(After(Unread(l.s), i), M, x) /\ b \in PeekLine(l.s, i)
      BY <2>3, <2>11
    <3>2. i \in Nat /\ i <= Len(l.s.buf) /\ l.s \in Readers /\ Tidy(l.s) /\ IsLine(M)
      BY <2>5, <2>6, <2>11
    <3>5. Unread(l.s) = u
      BY <2>6
    <3>3. b.s.whole
      BY <2>10
    <3> HIDE DEF M, x, i, w, L, u, v, k, a, j
    <3>4. /\ b.e = "ok" /\ b.v = M /\ b.s \in Readers /\ Tidy(b.s) /\ Unread(b.s) = Unread(l.s)
          /\ After(Unread(l.s), i + Len(M)) = x
      BY <3>1, <3>2, <3>3, PeekLineAt
    <3> QED BY <3>4, <3>5 DEF x
  <2>13. PICK m \in ParseSize(b, "$") : \/ m.e # "ok" /\ o = m
                                        \/ m.e = "ok" /\ o \in PeekN(m.s, i + Len(b.v), Size(m))
    BY <2>10, <2>12
  <2>14. m.s = b.s /\ m.e = "ok" /\ Size(m) = Len(a)
    BY <2>4, <2>12, ParseSizeWhole
  <2>15. o \in PeekN(b.s, j, Len(a)) /\ j \in Nat /\ j >= 1
    <3>1. Len(b.v) = 3
      BY <2>5, <2>12
    <3>2. o \in PeekN(m.s, i + Len(b.v), Size(m))
      BY <2>13, <2>14
    <3>3. i \in Nat
      BY <2>11
    <3> HIDE DEF a, i
    <3>4. o \in PeekN(b.s, i + 3, Len(a))
      BY <2>14, <3>1, <3>2
    <3> QED BY <3>3, <3>4
  <2>16. b.s.over = 0
    BY <2>12 DEF Tidy
  <2>17. /\ o.s \in Readers /\ o.e \in {"ok", "EOF", "panic"}
         /\ Unread(o.s) = Unread(b.s) /\ o.e # "panic"
         /\ o.e = "ok" => /\ o.v \in Seq(ArgBytes) /\ Len(o.v) = Len(a)
                          /\ \A h \in 1 .. Len(a) : o.v[h] = Unread(b.s)[j + h]
         /\ o.e = "EOF" => Len(Unread(b.s)) < j + Len(a)
         /\ Tidy(b.s) => Tidy(o.s)
    <3> HIDE DEF a, j
    <3> QED BY <2>4, <2>12, <2>15, <2>16, PeekNIs, SMTT(30)
  <2>18. /\ j + Len(y) \in 0 .. Len(u) /\ Len(y) = Len(a) + 2
         /\ \A h \in 1 .. Len(a) : u[j + h] = a[h]
    <3>1. u \in Seq(Tokens)
      BY UnreadTokens
    <3>2. j \in 0 .. Len(u)
      <4>1. HasAt(Unread(l.s), i, M) /\ i + Len(M) \in 0 .. Len(Unread(l.s))
        <5>1. Unread(l.s) \in Seq(Tokens) /\ i \in 0 .. Len(Unread(l.s))
          <6> DEFINE c == Len(l.s.buf)
                     d == Len(l.s.net)
                     e == Len(Unread(l.s))
          <6>1. c \in Nat /\ d \in Nat /\ e = c + d
            BY <2>6, ReaderIs, UnreadIs
          <6> HIDE DEF c, d, e, i
          <6>2. i \in 0 .. e
            BY <2>11, <6>1 DEF c
          <6> QED BY <2>6, <3>1, <6>2 DEF e
        <5>2. Begins(After(Unread(l.s), i), M, y \o t)
          BY <2>3, <2>11
        <5> HIDE DEF M, y, t, i, w, L
        <5> QED BY <5>1, <5>2, AfterHas
      <4> HIDE DEF u, i
      <4>2. i + 3 \in 0 .. Len(u)
        BY <2>5, <2>6, <4>1
      <4> QED BY <4>2
    <3>3. Begins(After(u, j), y, t)
      BY <2>3, <2>5, <2>12
    <3>4. HasAt(u, j, y) /\ j + Len(y) \in 0 .. Len(u)
      <4> HIDE DEF j, y, t, u
      <4> QED BY <3>1, <3>2, <3>3, AfterHas
    <3>5. Len(y) = Len(a) + 2 /\ \A h \in 1 .. Len(a) : y[h] = a[h]
      BY <2>2, <2>4, BulkIs, BulkEndIs, ConcatAt
    <3>6. ASSUME NEW h \in 1 .. Len(a) PROVE u[j + h] = a[h]
      <4> DEFINE c == Len(a)
                 d == Len(y)
      <4>1. c \in Nat /\ d = c + 2
        BY <2>4, <3>5
      <4> HIDE DEF c, d
      <4>2. h \in 1 .. d
        BY <4>1 DEF c
      <4>3. u[j + h] = y[h]
        BY <3>4, <4>2 DEF HasAt, d
      <4> QED BY <3>5, <4>3
    <3> QED BY <3>4, <3>5, <3>6
  <2>19. o.e = "ok"
    <3> DEFINE c == Len(a)
               d == Len(u)
    <3>1. c \in Nat /\ d \in Nat /\ j \in Nat /\ j + (c + 2) \in 0 .. d
      BY <2>4, <2>15, <2>18, UnreadTokens, LenProperties
    <3>2. ~(d < j + c)
      <4> HIDE DEF c, d, j
      <4> QED BY <3>1
    <3>3. Unread(b.s) = u
      BY <2>12
    <3> QED BY <2>17, <3>2, <3>3
  <2>20. o.v = a
    <3> HIDE DEF a, j, u
    <3>1. o.v \in Seq(ArgBytes) /\ Len(o.v) = Len(a) /\ \A h \in 1 .. Len(a) : o.v[h] = u[j + h]
      BY <2>12, <2>17, <2>19
    <3>2. \A h \in 1 .. Len(o.v) : o.v[h] = a[h]
      BY <2>18, <3>1
    <3> QED BY <2>2, <3>1, <3>2, SeqEqual
  <2> QED BY <1>5, <2>4, <2>12, <2>17, <2>19, <2>20
<1> QED
  BY <1>2, <1>3, <1>4, <1>5

\* After the last byte.
LEMMA PeekByteEnd ==
    ASSUME NEW s \in Readers, Tidy(s), Len(Unread(s)) < 1, NEW x \in PeekByte(s)
    PROVE  x.s \in Readers /\ x.e = "EOF" /\ Unread(x.s) = Unread(s) /\ (x.s.whole => Tidy(x.s))
<1>1. s.over = 0
  BY DEF Tidy
<1>2. /\ x.s \in Readers /\ x.e \in {"ok", "EOF", "panic"} /\ Unread(x.s) = Unread(s) /\ x.e # "panic"
      /\ x.e = "ok" => 1 <= Len(Unread(s))
      /\ x.s.whole => Tidy(x.s)
  BY <1>1, PeekByteIs
<1>3. ~(1 <= Len(Unread(s)))
  <2> DEFINE n == Len(Unread(s))
  <2>1. n \in Nat /\ n < 1
    BY UnreadIs, LenProperties
  <2>2. ~(1 <= n)
    <3> HIDE DEF n
    <3> QED BY <2>1
  <2> QED BY <2>2
<1> QED
  BY <1>2, <1>3

LEMMA readCommandEnd ==
    ASSUME NEW s \in Readers, Tidy(s), Len(Unread(s)) < 1, NEW o \in readCommand(s)
    PROVE  o.s \in Readers /\ o.e = "EOF" /\ Unread(o.s) = Unread(s) /\ (o.s.whole => Tidy(o.s))
<1>1. PICK x \in PeekByte(s) : x.e # "ok" => o = x
  <2>1. PICK x \in PeekByte(s) :
              \/ x.e # "ok" /\ o = x
              \/ /\ x.e = "ok" /\ x.v[1].k = "*"
                 /\ \E n \in ReadArrayLen(x.s) :
                       \/ n.e # "ok" /\ o = n
                       \/ n.e = "ok" /\ Size(n) < 1 /\ o = Res(n.s, <<>>, "empty")
                       \/ /\ n.e = "ok" /\ ~(Size(n) < 1)
                          /\ \E name \in ReadBulk(n.s) :
                                \/ name.e # "ok" /\ o = name
                                \/ name.e = "ok" /\ o = ArrayRead(name, Size(n))
              \/ /\ x.e = "ok" /\ x.v[1].k # "*"
                 /\ \E l \in ReadLine(x.s) :
                       \/ l.e # "ok" /\ o = l
                       \/ l.e = "ok" /\ o = LineRead(l)
    BY readCommandCases
  <2> QED BY <2>1
<1>2. x.s \in Readers /\ x.e = "EOF" /\ Unread(x.s) = Unread(s) /\ (x.s.whole => Tidy(x.s))
  BY PeekByteEnd
<1> QED
  BY <1>1, <1>2

LEMMA skipCmdEnd ==
    ASSUME NEW s \in Readers, Tidy(s), Len(Unread(s)) < 1, NEW o \in skipCmd(s)
    PROVE  o.s \in Readers /\ o.e = "EOF" /\ Unread(o.s) = Unread(s) /\ (o.s.whole => Tidy(o.s))
<1>1. PICK x \in PeekByte(s) : x.e # "ok" => o = x
  <2>1. PICK x \in PeekByte(s) :
              \/ x.e # "ok" /\ o = x
              \/ /\ x.e = "ok" /\ x.v[1].k # "*"
                 /\ \E l \in ReadLine(x.s) :
                       \/ l.e # "ok" /\ o = l
                       \/ l.e = "ok" /\ o = Res(l.s, 0, "ok")
              \/ /\ x.e = "ok" /\ x.v[1].k = "*"
                 /\ \E n \in ReadArrayLen(x.s) :
                       \/ n.e # "ok" /\ o = n
                       \/ n.e = "ok" /\ Size(n) < 1 /\ o = Res(n.s, 0, "empty")
                       \/ n.e = "ok" /\ ~(Size(n) < 1) /\ o = Res(n.s, Size(n), "ok")
    BY skipCmdCases
  <2> QED BY <2>1
<1>2. x.s \in Readers /\ x.e = "EOF" /\ Unread(x.s) = Unread(s) /\ (x.s.whole => Tidy(x.s))
  BY PeekByteEnd
<1> QED
  BY <1>1, <1>2

LEMMA peekCmdEnd ==
    ASSUME NEW s \in Readers, Tidy(s), NEW off \in Nat, off <= Len(s.buf), Len(Unread(s)) <= off,
           NEW o \in peekCmd(s, off), o.s.whole
    PROVE  o.s \in Readers /\ o.e = "EOF" /\ Unread(o.s) = Unread(s) /\ Tidy(o.s)
<1>1. PICK l \in PeekLine(s, off) : l.s.whole /\ (l.e # "ok" => o = l)
  <2>1. PICK l \in PeekLine(s, off) :
              /\ l.s.whole
              /\ \/ l.e # "ok" /\ o = l
                 \/ l.e = "ok" /\ l.v[1].k # "*" /\ o = Res(l.s, FirstWord(l.v), "ok")
                 \/ /\ l.e = "ok" /\ l.v[1].k = "*"
                    /\ \E n \in ParseSize(l, "*") :
                          \/ n.e # "ok" /\ o = n
                          \/ n.e = "ok" /\ Size(n) < 1 /\ o = Res(n.s, l.v, "empty")
                          \/ /\ n.e = "ok" /\ ~(Size(n) < 1)
                             /\ \E b \in PeekLine(n.s, off + Len(l.v)) :
                                   /\ b.s.whole
                                   /\ \/ b.e # "ok" /\ o = b
                                      \/ /\ b.e = "ok"
                                         /\ \E m \in ParseSize(b, "$") :
                                              \/ m.e # "ok" /\ o = m
                                              \/ m.e = "ok" /\ o \in PeekN(m.s, off + Len(l.v) + Len(b.v), Size(m))
    BY peekCmdFirst
  <2> QED BY <2>1
<1>2. l.e = "EOF" /\ l.s \in Readers /\ Tidy(l.s) /\ Unread(l.s) = Unread(s)
  BY <1>1, PeekLineEnd
<1> QED
  BY <1>1, <1>2

(***************************************************************************)
(* The invariant.  While the client sends requests, in whole lines, and    *)
(* handlers go on to the next argument only at the end of one, the unread  *)
(* bytes are what is left of the request that is being performed and the   *)
(* requests after the first i, for some i.  What is left of it depends on  *)
(* where the loop is: nothing, some of its bulks bs, or the rest rem of a  *)
(* bulk and the bulks after that.  PeekCmd may have looked past the empty  *)
(* arrays up to the k-th request.  When there are no blank lines, the      *)
(* commands after the first d are those among the requests left.           *)
(***************************************************************************)
NoBlank == \A i \in DOMAIN requests : requests[i].form # "blank"

Progress(i, d) ==
    d \in 0 .. Len(Commands) /\ After(Commands, d) = CommandsLeft(requests, i)

ReadBack ==
    /\ Len(names) <= Len(Commands)
    /\ \A j \in DOMAIN names : names[j] = Commands[j].args[1]
    /\ \A j \in DOMAIN got : got[j] \in {<<>>, Commands[j].args}

Indices == 0 .. Len(requests)

AtPeek ==
    \E i, k \in Indices :
        /\ Unread(rd) = BytesLeft(requests, i)
        /\ offset <= Len(rd.buf) /\ After(Unread(rd), offset) = BytesLeft(requests, k)
        /\ NoBlank => /\ Progress(i, Len(got)) /\ Len(names) = Len(got)
                      /\ CommandsLeft(requests, k) = CommandsLeft(requests, i)

AtCommand ==
    /\ cs.nargs = 0 /\ cs.inline = <<>> /\ (NoBlank => ~cs.isInline)
    /\ \E i \in Indices :
        /\ Unread(rd) = BytesLeft(requests, i)
        /\ NoBlank => Progress(i, Len(got)) /\ Len(names) = Len(got) + 1

AtSkip ==
    \E i \in Indices :
        /\ Unread(rd) = BytesLeft(requests, i)
        /\ NoBlank => Progress(i, Len(got) - 1) /\ Len(names) = Len(got)

AtArgs ==
    \E i \in Indices, bs \in Seq(Seq(ArgBytes)) :
        /\ Unread(rd) = BulksBytes(bs) \o BytesLeft(requests, i) /\ Len(bs) = left
        /\ NoBlank => /\ Progress(i, Len(got) + 1) /\ Len(names) = Len(got) + 1
                      /\ parts \o bs = Commands[Len(got) + 1].args

AtBulks ==
    \E i \in Indices, bs \in Seq(Seq(ArgBytes)) :
        /\ Unread(rd) = BulksBytes(bs) \o BytesLeft(requests, i) /\ Len(bs) = left
        /\ NoBlank => Progress(i, Len(got)) /\ Len(names) = Len(got)

LeftOf(c) == IF c.pos < c.nargs THEN c.nargs - c.pos ELSE 0

\* An argument that was read to its end: one byte of it is missing when the LF was
\* left for a Read of its own.
ReadOut(a, lf) == IF lf THEN SubSeq(a, 1, Len(a) - 1) ELSE a

\* What a handler has got: every argument before the one it reads, and so much
\* of that one that the rest of its bulk is rem.
HasGot(args, bs, rem) ==
    IF cs.isInline THEN /\ cs.inline = args /\ cs.nargs = 0 /\ data = SubSeq(args, 1, cs.pos)
                        /\ alone = {}
    ELSE /\ args \in Seq(Seq(ArgBytes)) /\ bs = After(args, cs.pos) /\ cs.nargs = Len(args)
         /\ alone \subseteq 1 .. cs.pos /\ (cs.arg > 0 => cs.pos \notin alone)
         /\ \A j \in 1 .. cs.pos :
               j < cs.pos \/ cs.arg < 2 => data[j] = ReadOut(args[j], j \in alone)
         /\ cs.arg >= 2 => data[cs.pos] \o rem = args[cs.pos] \o BulkEnd

AtHandler ==
    /\ cs.isInline => cs.arg = 0
    /\ ~cs.isInline => cs.inline = <<>>
    /\ cs.nargs = 0 \/ cs.inline = <<>>
    /\ \E i \in Indices, bs \in Seq(Seq(ArgBytes)), rem \in Seq(Tokens) :
        /\ Unread(rd) = rem \o (BulksBytes(bs) \o BytesLeft(requests, i))
        /\ Len(bs) = LeftOf(cs) /\ Len(rem) = cs.arg
        /\ NoBlank => /\ Progress(i, Len(got)) /\ Len(names) = Len(got) /\ Len(got) >= 1
                      /\ HasGot(Tail(Commands[Len(got)].args), bs, rem)

AtDiscard ==
    \E i \in Indices, bs \in Seq(Seq(ArgBytes)) :
        /\ Unread(rd) = BulksBytes(bs) \o BytesLeft(requests, i) /\ Len(bs) = LeftOf(cs)
        /\ NoBlank => Progress(i, Len(got)) /\ Len(names) = Len(got)

Aligned ==
    /\ Tidy(rd)
    /\ pc \notin {"bad", "panic"}
    /\ pc # "peek" => offset = 0
    /\ NoBlank => ReadBack
    /\ pc = "peek" => AtPeek
    /\ pc \in {"perform", "read", "stream"} => AtCommand
    /\ pc = "skip" => AtSkip
    /\ pc = "args" => AtArgs
    /\ pc = "bulks" => AtBulks
    /\ pc = "handler" => AtHandler
    /\ pc = "discard" => AtDiscard
    /\ pc = "end" /\ NoBlank => Len(got) = Len(Commands)

IInv == Types /\ Apart /\ (WellFormed => Aligned)

LEMMA RequestsProper ==
    ASSUME Types, Requested
    PROVE  /\ AreProper(requests) /\ requests \in Seq(Sent) /\ Len(requests) \in Nat
           /\ DOMAIN requests = 1 .. Len(requests)
           /\ Commands \in Seq(Sent) /\ Len(Commands) \in Nat
<1>1. requests \in Inputs
  BY DEF Types, Reading
<1>2. /\ requests \in Seq(Sent)
      /\ \A i \in DOMAIN requests :
            /\ requests[i].form \in {"bulks", "inline", "raw"} => requests[i].args # <<>>
            /\ requests[i].form = "inline" => Typed(requests[i].args)
  BY <1>1, InputsAssumption DEF Sent
<1>3. Len(requests) \in Nat /\ DOMAIN requests = 1 .. Len(requests)
  BY <1>2, LenProperties
<1>4. ASSUME NEW i \in 1 .. Len(requests) PROVE IsProper(requests[i])
  <2>1. i \in DOMAIN requests /\ requests[i] \in Sent
    BY <1>2, <1>3, ElementOfSeq
  <2>2. requests[i].form # "raw"
    BY <2>1 DEF Requested
  <2> QED BY <1>2, <2>1, <2>2 DEF IsProper
<1>5. AreProper(requests)
  BY <1>2, <1>4 DEF AreProper
<1>6. Commands \in Seq(Sent)
  BY <1>5, CommandsOfTyped DEF Commands
<1> QED
  BY <1>2, <1>3, <1>5, <1>6, LenProperties

\* Reading the next request.
LEMMA ProgressNext ==
    ASSUME Types, Requested, NEW i \in Nat, i < Len(requests), NEW d, Progress(i, d)
    PROVE  /\ IsCommand(requests[i + 1]) =>
                 /\ d + 1 \in 1 .. Len(Commands) /\ Commands[d + 1] = Meant(requests[i + 1])
                 /\ Progress(i + 1, d + 1)
           /\ ~IsCommand(requests[i + 1]) => /\ Progress(i + 1, d)
                                             /\ CommandsLeft(requests, i + 1) = CommandsLeft(requests, i)
<1> DEFINE q == requests[i + 1]
           f == Meant(requests[i + 1])
           x == CommandsLeft(requests, i + 1)
           y == CommandsLeft(requests, i)
           c == Len(Commands)
<1>1. /\ AreProper(requests) /\ requests \in Seq(Sent) /\ Len(requests) \in Nat /\ Commands \in Seq(Sent) /\ c \in Nat
  BY RequestsProper
<1>2. y = Single(q) \o x
  BY <1>1, CommandsLeftStep
<1>3. d \in 0 .. c /\ After(Commands, d) = y
  BY DEF Progress
<1>4. x \in Seq(Sent) /\ f \in Sent /\ Single(q) = IF IsCommand(q) THEN <<f>> ELSE <<>>
  <2>1. i + 1 \in 0 .. Len(requests) /\ i + 1 \in 1 .. Len(requests)
    BY <1>1, AfterStep
  <2>2. AreProper(After(requests, i + 1)) /\ IsProper(q)
    BY <1>1, <2>1, AfterProper DEF AreProper
  <2> QED BY <2>2, CommandsOfTyped, MeantIs DEF CommandsLeft, Single
<1> HIDE DEF x, y, q, f
<1>5. CASE ~IsCommand(q)
  <2>1. y = x
    BY <1>2, <1>4, <1>5, ConcatEmptySeq
  <2> QED BY <1>3, <1>5, <2>1 DEF Progress, q, x, y
<1>6. CASE IsCommand(q)
  <2>1. y = <<f>> \o x
    BY <1>2, <1>4, <1>6
  <2>2. <<f>> \in Seq(Sent) /\ Len(<<f>>) = 1 /\ <<f>>[1] = f
    BY <1>4
  <2>3. Len(x) \in Nat /\ Len(y) = 1 + Len(x) /\ y[1] = f /\ y \in Seq(Sent)
    BY <1>4, <2>1, <2>2, ConcatAt, LenProperties
  <2>4. After(y, 1) = x
    BY <1>4, <2>1, <2>2, AfterFirst
  <2>5. Len(y) = c - d /\ \A j \in 1 .. c - d : y[j] = Commands[d + j]
    BY <1>1, <1>3, AfterIs
  <2> DEFINE e == Len(x)
  <2>6. e \in Nat /\ c - d = 1 + e
    BY <2>3, <2>5
  <2> HIDE DEF e, c
  <2>7. d + 1 \in 1 .. c /\ 1 \in 1 .. c - d /\ 1 \in 0 .. c - d /\ d + 1 \in 0 .. c
    BY <1>1, <1>3, <2>6
  <2>8. Commands[d + 1] = f
    BY <2>3, <2>5, <2>7
  <2>9. After(After(Commands, d), 1) = After(Commands, d + 1)
    BY <1>1, <1>3, <2>7, AfterAfter DEF c
  <2>10. After(Commands, d + 1) = x
    BY <1>3, <2>4, <2>9
  <2>11. Progress(i + 1, d + 1)
    BY <2>7, <2>10 DEF Progress, c, x
  <2> QED BY <1>6, <2>7, <2>8, <2>11 DEF c, q, f
<1> QED
  BY <1>5, <1>6 DEF q

LEMMA ProgressEnd ==
    ASSUME Types, Requested, NEW d, Progress(Len(requests), d)
    PROVE  d = Len(Commands)
<1> DEFINE c == Len(Commands)
<1>1. requests \in Seq(Sent) /\ Commands \in Seq(Sent) /\ c \in Nat
  BY RequestsProper
<1>2. d \in 0 .. c /\ After(Commands, d) = <<>>
  BY <1>1, NothingLeft DEF Progress
<1>3. Len(After(Commands, d)) = c - d
  BY <1>1, <1>2, AfterIs
<1>4. c - d = 0
  BY <1>2, <1>3
<1> HIDE DEF c
<1>5. d = c
  BY <1>1, <1>2, <1>4
<1> QED
  BY <1>5 DEF c

\* Where the reader is: at the next request, or at the end.
LEMMA NextIs ==
    ASSUME Types, Requested, NEW i \in Indices, NEW u, u = BytesLeft(requests, i)
    PROVE  /\ i \in Nat
           /\ i < Len(requests) => /\ Begins(u, Bytes(requests[i + 1]), BytesLeft(requests, i + 1))
                                   /\ IsProper(requests[i + 1]) /\ i + 1 \in Indices
                                   /\ i + 1 \in DOMAIN requests
           /\ ~(i < Len(requests)) => i = Len(requests) /\ Len(u) < 1
           /\ u \in Seq(Tokens)
<1> DEFINE l == Len(requests)
<1>1. AreProper(requests) /\ requests \in Seq(Sent) /\ l \in Nat /\ DOMAIN requests = 1 .. l
  BY RequestsProper
<1>2. i \in Nat /\ i \in 0 .. l
  BY <1>1 DEF Indices
<1>3. CASE i < l
  <2>1. Begins(BytesLeft(requests, i), Bytes(requests[i + 1]), BytesLeft(requests, i + 1)) /\ IsProper(requests[i + 1])
    BY <1>1, <1>2, <1>3, BytesLeftStep
  <2>2. i + 1 \in 0 .. l /\ i + 1 \in 1 .. l
    <3> HIDE DEF l
    <3> QED BY <1>1, <1>2, <1>3
  <2> QED BY <1>1, <1>2, <1>3, <2>1, <2>2 DEF Indices, Begins
<1>4. CASE ~(i < l)
  <2>1. i = l
    <3> HIDE DEF l
    <3> QED BY <1>1, <1>2, <1>4
  <2>2. u = <<>>
    BY <1>1, <2>1, NothingLeft
  <2>3. <<>> \in Seq(Tokens) /\ Len(<<>>) < 1
    BY EmptySeq
  <2> QED BY <1>2, <1>4, <2>1, <2>2, <2>3
<1> QED
  BY <1>3, <1>4

LEMMA InitAligned ==
    ASSUME Init, Types, WellFormed
    PROVE  Aligned
<1>1. /\ rd = NewReader(AllBytes(requests), BufferSize) /\ pc = "peek"
      /\ offset = 0 /\ names = <<>> /\ got = <<>>
  BY DEF Init, ReaderInit
<1>2. /\ requests \in Seq(Sent) /\ Len(requests) \in Nat /\ Commands \in Seq(Sent) /\ Len(Commands) \in Nat
  BY RequestsProper DEF WellFormed
<1>3. /\ rd.buf = <<>> /\ rd.over = 0 /\ rd.net = AllBytes(requests) /\ rd.r = 0
  BY <1>1 DEF NewReader
<1>4. Tidy(rd)
  BY <1>3, Zenon DEF Tidy, WellFormed
<1>5. After(requests, 0) = requests /\ After(Commands, 0) = Commands
  BY <1>2, AfterNone
<1>6. AllBytes(requests) \in Seq(ArgBytes)
  BY InputsAssumption DEF Types, Reading
<1>7. Unread(rd) = AllBytes(requests)
  <2>1. Unread(rd) = rd.buf \o rd.net
    BY DEF Unread
  <2> QED BY <1>3, <1>6, <2>1, ConcatEmptySeq
<1>8. BytesLeft(requests, 0) = AllBytes(requests) /\ CommandsLeft(requests, 0) = Commands
  BY <1>5 DEF BytesLeft, CommandsLeft, Commands
<1>9. After(Unread(rd), 0) = AllBytes(requests)
  BY <1>6, <1>7, AfterNone
<1>10. Len(<<>>) = 0 /\ 0 \in 0 .. Len(Commands) /\ 0 <= Len(rd.buf) /\ DOMAIN <<>> = {} /\ 0 \in Indices
  BY <1>2, <1>3 DEF Indices
<1>11. Progress(0, Len(got))
  BY <1>1, <1>5, <1>8, <1>10 DEF Progress
<1>12. Len(names) = Len(got)
  BY <1>1
<1>13. AtPeek
  BY <1>1, <1>7, <1>8, <1>9, <1>10, <1>11, <1>12, Zenon DEF AtPeek
<1>14. ReadBack
  BY <1>1, <1>2, <1>10 DEF ReadBack
<1> QED
  BY <1>1, <1>4, <1>13, <1>14 DEF Aligned

\* The history of what has been peeked and read grows with the commands.
LEMMA CommandsKept ==
    ASSUME requests' = requests
    PROVE  Commands' = Commands /\ (NoBlank' <=> NoBlank) /\ Indices' = Indices
BY DEF Commands, NoBlank, Indices

LEMMA ReadBackKept ==
    ASSUME ReadBack, requests' = requests, names' = names, got' = got
    PROVE  ReadBack'
BY CommandsKept DEF ReadBack

LEMMA ReadBackPeeked ==
    ASSUME Types, ReadBack, requests' = requests, got' = got, NEW v, names' = Append(names, v),
           NEW d, d = Len(names) + 1, d \in 1 .. Len(Commands), v = Commands[d].args[1]
    PROVE  ReadBack'
<1>1. names \in Seq(Seq(ArgBytes)) /\ Len(names) \in Nat /\ DOMAIN names = 1 .. Len(names)
  <2>1. names \in Seq(Seq(ArgBytes))
    BY DEF Types, Reading
  <2> QED BY <2>1, LenProperties
<1>2. /\ Len(names') = d /\ DOMAIN names' = 1 .. d /\ names'[d] = v
      /\ \A j \in 1 .. Len(names) : names'[j] = names[j]
  BY <1>1
<1>3. ASSUME NEW j \in DOMAIN names' PROVE names'[j] = Commands[j].args[1]
  <2>1. j = d \/ j \in 1 .. Len(names)
    BY <1>1, <1>2, <1>3
  <2>2. CASE j = d
    BY <1>2, <2>2
  <2>3. CASE j \in 1 .. Len(names)
    BY <1>1, <1>2, <2>3 DEF ReadBack
  <2> QED BY <2>1, <2>2, <2>3
<1>4. Len(names') <= Len(Commands)
  BY <1>2
<1> QED
  BY <1>3, <1>4, CommandsKept DEF ReadBack

LEMMA ReadBackGot ==
    ASSUME Types, ReadBack, requests' = requests, names' = names, NEW v, got' = Append(got, v),
           NEW d, d = Len(got) + 1, v \in {<<>>, Commands[d].args}
    PROVE  ReadBack'
<1>1. got \in Seq(Seq(Seq(ArgBytes))) /\ Len(got) \in Nat /\ DOMAIN got = 1 .. Len(got)
  <2>1. got \in Seq(Seq(Seq(ArgBytes)))
    BY DEF Types, Reading
  <2> QED BY <2>1, LenProperties
<1>2. /\ Len(got') = d /\ DOMAIN got' = 1 .. d /\ got'[d] = v
      /\ \A j \in 1 .. Len(got) : got'[j] = got[j]
  BY <1>1
<1>3. ASSUME NEW j \in DOMAIN got' PROVE got'[j] \in {<<>>, Commands[j].args}
  <2>1. j = d \/ j \in 1 .. Len(got)
    BY <1>1, <1>2, <1>3
  <2>2. CASE j = d
    BY <1>2, <2>2
  <2>3. CASE j \in 1 .. Len(got)
    BY <1>1, <1>2, <2>3 DEF ReadBack
  <2> QED BY <2>1, <2>2, <2>3
<1> QED
  BY <1>3, CommandsKept DEF ReadBack

LEMMA PeekCmdAligned ==
    ASSUME Types, WellFormed, Aligned, PeekCmd, UNCHANGED streamVars, rd'.whole
    PROVE  Aligned'
<1>1. PICK o \in peekCmd(rd, offset) :
          /\ rd' = o.s
          /\ pc' = Resume(o.e, "bad", "peek", "perform")
          /\ offset' = IF o.e = "empty" THEN offset + Len(o.v) ELSE 0
          /\ names' = IF o.e = "ok" THEN Append(names, o.v) ELSE names
  BY DEF PeekCmd
<1>2. pc = "peek" /\ requests' = requests /\ got' = got /\ cs' = cs
  BY DEF PeekCmd, streamVars
<1>3. /\ rd \in Readers /\ offset \in Nat /\ Len(got) \in Nat /\ cs = NewStream
      /\ Requested /\ Tidy(rd)
  <2>1. got \in Seq(Seq(Seq(ArgBytes)))
    BY DEF Types, Reading
  <2>2. rd \in Readers /\ offset \in Nat /\ cs = NewStream
    BY <1>2 DEF Types, Reading, Streaming
  <2> QED BY <2>1, <2>2, LenProperties DEF WellFormed, Aligned
<1>4. o.s.whole
  BY <1>1
<1>5. PICK i, k \in Indices :
        /\ Unread(rd) = BytesLeft(requests, i)
        /\ offset <= Len(rd.buf) /\ After(Unread(rd), offset) = BytesLeft(requests, k)
        /\ NoBlank => /\ Progress(i, Len(got)) /\ Len(names) = Len(got)
                      /\ CommandsLeft(requests, k) = CommandsLeft(requests, i)
  BY <1>2, Zenon DEF Aligned, AtPeek
<1>6. NoBlank => Progress(k, Len(got))
  BY <1>5 DEF Progress
<1>7. NoBlank => ReadBack
  BY DEF Aligned
<1> DEFINE u == After(Unread(rd), offset)
           q == requests[k + 1]
           rest == BytesLeft(requests, k + 1)
<1>8. u = BytesLeft(requests, k) /\ offset <= Len(rd.buf)
  BY <1>5
<1>9. /\ k \in Nat
      /\ k < Len(requests) => /\ Begins(u, Bytes(q), rest) /\ IsProper(q)
                              /\ k + 1 \in Indices /\ k + 1 \in DOMAIN requests
      /\ ~(k < Len(requests)) => k = Len(requests) /\ Len(u) < 1
  BY <1>3, <1>8, NextIs
<1>10. IsCommand(q) <=> q.form \in {"bulks", "inline"}
  BY DEF IsCommand
<1>11. Commands' = Commands /\ (NoBlank' <=> NoBlank) /\ Indices' = Indices
  BY <1>2, CommandsKept
<1> HIDE DEF q, rest
<1>12. CASE k < Len(requests)
  <2>1. /\ Begins(u, Bytes(q), rest) /\ IsProper(q) /\ k + 1 \in Indices /\ k + 1 \in DOMAIN requests
    BY <1>9, <1>12
  <2>2. /\ Tidy(o.s) /\ Unread(o.s) = Unread(rd)
        /\ q.form = "zero" => /\ o.e = "empty" /\ Len(o.v) \in Nat /\ offset + Len(o.v) <= Len(o.s.buf)
                              /\ After(Unread(rd), offset + Len(o.v)) = rest
        /\ q.form # "zero" => o.e = "ok"
        /\ q.form \in {"bulks", "inline"} => o.v = q.args[1]
    BY <1>3, <1>4, <1>8, <2>1, peekCmdWhole
  <2>3. NoBlank => /\ IsCommand(q) => Len(got) + 1 \in 1 .. Len(Commands) /\ Commands[Len(got) + 1] = Meant(q)
                   /\ ~IsCommand(q) => CommandsLeft(requests, k + 1) = CommandsLeft(requests, k)
    BY <1>3, <1>6, <1>9, <1>12, ProgressNext DEF q
  <2>4. Tidy(rd') /\ Unread(rd') = BytesLeft(requests, i)
    BY <1>1, <1>5, <2>2
  <2>5. CASE q.form = "zero"
    <3>1. /\ o.e = "empty" /\ offset + Len(o.v) <= Len(o.s.buf)
          /\ After(Unread(rd), offset + Len(o.v)) = rest /\ ~IsCommand(q)
      BY <1>10, <2>2, <2>5
    <3>2. pc' = "peek" /\ offset' = offset + Len(o.v) /\ names' = names
      BY <1>1, <3>1 DEF Resume, Again, Errors
    <3>3. offset' <= Len(rd'.buf) /\ After(Unread(rd'), offset') = BytesLeft(requests, k + 1)
      BY <1>1, <2>2, <3>1, <3>2 DEF rest
    <3>4. NoBlank => /\ Progress(i, Len(got)) /\ Len(names) = Len(got)
                     /\ CommandsLeft(requests, k + 1) = CommandsLeft(requests, i)
      BY <1>5, <2>3, <3>1
    <3>5. NoBlank => Progress(i, Len(got))'
      BY <1>2, <1>11, <3>4 DEF Progress
    <3>6. AtPeek'
      BY <1>2, <1>11, <2>1, <2>4, <3>2, <3>3, <3>4, <3>5, Zenon DEF AtPeek
    <3>7. NoBlank => ReadBack'
      BY <1>2, <1>7, <3>2, ReadBackKept
    <3> QED BY <1>11, <2>4, <3>2, <3>6, <3>7 DEF Aligned
  <2>6. CASE q.form # "zero"
    <3>1. o.e = "ok"
      BY <2>2, <2>6
    <3>2. pc' = "perform" /\ offset' = 0 /\ names' = Append(names, o.v)
      BY <1>1, <3>1 DEF Resume, Again, Errors
    <3>3. NoBlank => q.form \in {"bulks", "inline"}
      <4>1. q.form \in {"bulks", "inline", "zero", "blank"}
        BY <2>1 DEF IsProper, Sent
      <4>2. NoBlank => q.form # "blank"
        BY <2>1 DEF NoBlank, q
      <4> QED BY <2>6, <4>1, <4>2
    <3>4. NoBlank => /\ Len(names) + 1 \in 1 .. Len(Commands)
                     /\ o.v = Commands[Len(names) + 1].args[1]
      <4>1. NoBlank => /\ Len(got) + 1 \in 1 .. Len(Commands) /\ Commands[Len(got) + 1] = Meant(q)
                       /\ o.v = q.args[1] /\ Len(names) = Len(got)
        BY <1>5, <1>10, <2>2, <2>3, <3>3
      <4>2. NoBlank => Meant(q).args[1] = q.args[1]
        BY <2>1, <3>3, MeantIs
      <4> QED BY <4>1, <4>2
    <3>5. NoBlank => ReadBack'
      BY <1>2, <1>7, <3>2, <3>4, ReadBackPeeked
    <3>6. NoBlank => Progress(i, Len(got))'
      BY <1>2, <1>5, <1>11 DEF Progress
    <3>7. NoBlank => Len(names') = Len(got) + 1
      <4>1. names \in Seq(Seq(ArgBytes))
        BY DEF Types, Reading
      <4>2. Len(Append(names, o.v)) = Len(names) + 1
        BY <4>1
      <4> QED BY <1>5, <3>2, <4>2
    <3>8. cs'.nargs = 0 /\ cs'.inline = <<>> /\ ~cs'.isInline
      BY <1>2, <1>3, NewStreamIs
    <3>9. AtCommand'
      BY <1>2, <1>5, <1>11, <2>4, <3>6, <3>7, <3>8, Zenon DEF AtCommand
    <3> QED BY <1>11, <2>4, <3>2, <3>5, <3>9 DEF Aligned
  <2> QED BY <2>5, <2>6
<1>13. CASE ~(k < Len(requests))
  <2>1. k = Len(requests) /\ Len(u) < 1
    BY <1>9, <1>13
  <2>2. Len(Unread(rd)) <= offset
    <3>1. Unread(rd) \in Seq(ArgBytes) /\ Len(Unread(rd)) = Len(rd.buf) + Len(rd.net)
          /\ Len(rd.buf) \in Nat /\ Len(rd.net) \in Nat
      BY <1>3, UnreadIs, ReaderIs
    <3> DEFINE b == Len(rd.buf)
               n == Len(rd.net)
               m == Len(Unread(rd))
               l == Len(u)
    <3>2. m = b + n /\ b \in Nat /\ n \in Nat /\ offset <= b /\ l < 1
      BY <1>8, <2>1, <3>1
    <3>3. offset \in 0 .. m
      <4> HIDE DEF m, b, n, l
      <4> QED BY <1>3, <3>2
    <3>4. l = m - offset
      BY <3>1, <3>3, AfterIs
    <3> HIDE DEF m, b, n, l
    <3>5. m <= offset
      BY <1>3, <3>2, <3>4
    <3> QED BY <3>5 DEF m
  <2>3. o.e = "EOF" /\ Tidy(o.s)
    BY <1>3, <1>4, <1>8, <2>2, peekCmdEnd
  <2>4. pc' = "end" /\ offset' = 0 /\ names' = names /\ Tidy(rd')
    BY <1>1, <2>3 DEF Resume, Again, Errors
  <2>5. NoBlank => Len(got) = Len(Commands)
    BY <1>3, <1>6, <2>1, ProgressEnd
  <2>6. NoBlank => ReadBack'
    BY <1>2, <1>7, <2>4, ReadBackKept
  <2> QED BY <1>2, <1>11, <2>4, <2>5, <2>6 DEF Aligned
<1> QED
  BY <1>12, <1>13

\* What readCommand makes of the request that comes next.
NothingRead(o) ==
    /\ o.e \in {"empty", "blank"}
    /\ \E i \in Indices : /\ Unread(o.s) = BytesLeft(requests, i)
                          /\ NoBlank => o.e = "empty" /\ Progress(i, Len(got))

CommandRead(o) ==
    /\ o.e = "ok"
    /\ \E i \in Indices, args \in Seq(Seq(ArgBytes)) :
          /\ args # <<>>
          /\ NoBlank => Progress(i, Len(got) + 1) /\ Commands[Len(got) + 1].args = args
          /\ \/ /\ o.v.inline = TRUE /\ o.v.args = args /\ o.v.left = 0
                /\ Unread(o.s) = BytesLeft(requests, i)
             \/ /\ o.v.inline = FALSE /\ o.v.args = <<Head(args)>> /\ o.v.left = Len(args) - 1
                /\ Unread(o.s) = BulksBytes(Tail(args)) \o BytesLeft(requests, i)

LEMMA CommandNext ==
    ASSUME Types, WellFormed, Aligned, pc \in {"perform", "read", "stream"},
           NEW o \in readCommand(rd), o.s.whole
    PROVE  /\ Tidy(o.s)
           /\ \/ NothingRead(o)
              \/ o.e = "EOF" /\ (NoBlank => Len(got) = Len(Commands))
              \/ CommandRead(o)
<1>1. rd \in Readers /\ Requested /\ Tidy(rd)
  BY DEF Types, Reading, WellFormed, Aligned
<1>2. PICK i \in Indices : /\ Unread(rd) = BytesLeft(requests, i)
                           /\ NoBlank => Progress(i, Len(got))
  BY Zenon DEF Aligned, AtCommand
<1> DEFINE q == requests[i + 1]
           rest == BytesLeft(requests, i + 1)
<1>3. /\ i \in Nat
      /\ i < Len(requests) => /\ Begins(Unread(rd), Bytes(q), rest) /\ IsProper(q)
                              /\ i + 1 \in Indices /\ i + 1 \in DOMAIN requests
      /\ ~(i < Len(requests)) => i = Len(requests) /\ Len(Unread(rd)) < 1
  BY <1>1, <1>2, NextIs
<1> HIDE DEF q, rest
<1>4. CASE i < Len(requests)
  <2>1. /\ Begins(Unread(rd), Bytes(q), rest) /\ IsProper(q) /\ i + 1 \in Indices
        /\ i + 1 \in DOMAIN requests
    BY <1>3, <1>4
  <2>2. /\ Tidy(o.s)
        /\ q.form = "zero" => o.e = "empty" /\ Unread(o.s) = rest
        /\ q.form = "blank" => o.e = "blank" /\ Unread(o.s) = rest
        /\ q.form = "inline" => /\ o.e = "ok" /\ Unread(o.s) = rest
                                /\ o.v.inline = TRUE /\ o.v.args = Meant(q).args /\ o.v.left = 0
        /\ q.form = "bulks" => /\ o.e = "ok" /\ Unread(o.s) = BulksBytes(Tail(q.args)) \o rest
                               /\ o.v.inline = FALSE /\ o.v.args = <<Head(q.args)>>
                               /\ o.v.left = Len(q.args) - 1
    BY <1>1, <2>1, readCommandWhole
  <2>3. NoBlank => /\ IsCommand(q) => Commands[Len(got) + 1] = Meant(q) /\ Progress(i + 1, Len(got) + 1)
                   /\ ~IsCommand(q) => Progress(i + 1, Len(got))
    BY <1>1, <1>2, <1>3, <1>4, ProgressNext DEF q
  <2>4. /\ q.form \in {"bulks", "inline", "zero", "blank"} /\ q.args \in Seq(Seq(ArgBytes))
        /\ q.form \in {"bulks", "inline"} => q.args # <<>>
    BY <2>1 DEF IsProper, Sent
  <2>5. IsCommand(q) <=> q.form \in {"bulks", "inline"}
    BY DEF IsCommand
  <2>6. NoBlank => q.form # "blank"
    BY <2>1 DEF NoBlank, q
  <2>7. CASE ~IsCommand(q)
    <3>1. o.e \in {"empty", "blank"} /\ Unread(o.s) = rest
      BY <2>2, <2>4, <2>5, <2>7
    <3>2. NoBlank => o.e = "empty" /\ Progress(i + 1, Len(got))
      BY <2>2, <2>3, <2>4, <2>5, <2>6, <2>7
    <3>3. NothingRead(o)
      BY <2>1, <3>1, <3>2, Zenon DEF NothingRead, rest
    <3> QED BY <2>2, <3>3
  <2>8. CASE IsCommand(q)
    <3>0. PICK a : a = Meant(q).args
      OBVIOUS
    <3>1. a \in Seq(Seq(ArgBytes)) /\ a # <<>> /\ o.e = "ok" /\ (q.form = "bulks" => a = q.args)
      BY <2>1, <2>2, <2>4, <2>5, <2>8, <3>0, MeantIs
    <3>2. NoBlank => Progress(i + 1, Len(got) + 1) /\ Commands[Len(got) + 1].args = a
      BY <2>3, <2>8, <3>0
    <3>3. \/ /\ o.v.inline = TRUE /\ o.v.args = a /\ o.v.left = 0
             /\ Unread(o.s) = BytesLeft(requests, i + 1)
          \/ /\ o.v.inline = FALSE /\ o.v.args = <<Head(a)>> /\ o.v.left = Len(a) - 1
             /\ Unread(o.s) = BulksBytes(Tail(a)) \o BytesLeft(requests, i + 1)
      BY <2>2, <2>5, <2>8, <3>0, <3>1 DEF rest
    <3>4. CommandRead(o)
      BY <2>1, <3>1, <3>2, <3>3, Zenon DEF CommandRead
    <3> QED BY <2>2, <3>4
  <2> QED BY <2>7, <2>8
<1>5. CASE ~(i < Len(requests))
  <2>1. i = Len(requests) /\ Len(Unread(rd)) < 1
    BY <1>3, <1>5
  <2>2. o.e = "EOF" /\ Tidy(o.s)
    BY <1>1, <2>1, readCommandEnd
  <2>3. NoBlank => Len(got) = Len(Commands)
    BY <1>1, <1>2, <2>1, ProgressEnd
  <2> QED BY <2>2, <2>3
<1> QED
  BY <1>4, <1>5

LEMMA ReadCmdAligned ==
    ASSUME Types, WellFormed, Aligned, ReadCmd, UNCHANGED streamVars, rd'.whole
    PROVE  Aligned'
<1>1. PICK o \in readCommand(rd) :
          /\ rd' = o.s
          /\ pc' = Resume(o.e, "peek", "read", "args")
          /\ IF o.e = "ok" THEN parts' = o.v.args /\ left' = o.v.left
                           ELSE UNCHANGED <<parts, left>>
  BY DEF ReadCmd
<1>2. /\ pc \in {"perform", "read"} /\ requests' = requests /\ got' = got /\ names' = names
      /\ cs' = cs /\ offset' = offset
  BY DEF ReadCmd, streamVars
<1>3. /\ Tidy(o.s)
      /\ \/ NothingRead(o)
         \/ o.e = "EOF" /\ (NoBlank => Len(got) = Len(Commands))
         \/ CommandRead(o)
  BY <1>1, <1>2, CommandNext
<1>4. Commands' = Commands /\ (NoBlank' <=> NoBlank) /\ Indices' = Indices
  BY <1>2, CommandsKept
<1>5. (NoBlank => ReadBack') /\ offset' = 0 /\ AtCommand
  BY <1>2, ReadBackKept DEF Aligned
<1>6. /\ cs.nargs = 0 /\ cs.inline = <<>> /\ (NoBlank => ~cs.isInline)
      /\ NoBlank => Len(names) = Len(got) + 1
  BY <1>5, Zenon DEF AtCommand
<1>7. Tidy(rd')
  BY <1>1, <1>3
<1>8. CASE NothingRead(o)
  <2>1. o.e \in {"empty", "blank"}
    BY <1>8 DEF NothingRead
  <2>2. PICK i \in Indices : /\ Unread(o.s) = BytesLeft(requests, i)
                             /\ NoBlank => Progress(i, Len(got))
    BY <1>8, Zenon DEF NothingRead
  <2>3. pc' = "read"
    BY <1>1, <2>1 DEF Resume, Again, Errors
  <2>4. NoBlank => Progress(i, Len(got))'
    BY <1>2, <1>4, <2>2 DEF Progress
  <2>5. AtCommand'
    BY <1>1, <1>2, <1>4, <1>6, <2>2, <2>4, Zenon DEF AtCommand
  <2> QED BY <1>4, <1>5, <1>7, <2>3, <2>5 DEF Aligned
<1>9. CASE o.e = "EOF" /\ (NoBlank => Len(got) = Len(Commands))
  <2>1. pc' = "end"
    BY <1>1, <1>9 DEF Resume, Again, Errors
  <2> QED BY <1>2, <1>4, <1>5, <1>7, <1>9, <2>1 DEF Aligned
<1>10. CASE CommandRead(o)
  <2>1. o.e = "ok"
    BY <1>10 DEF CommandRead
  <2>2. PICK i \in Indices, args \in Seq(Seq(ArgBytes)) :
          /\ args # <<>>
          /\ NoBlank => Progress(i, Len(got) + 1) /\ Commands[Len(got) + 1].args = args
          /\ \/ /\ o.v.inline = TRUE /\ o.v.args = args /\ o.v.left = 0
                /\ Unread(o.s) = BytesLeft(requests, i)
             \/ /\ o.v.inline = FALSE /\ o.v.args = <<Head(args)>> /\ o.v.left = Len(args) - 1
                /\ Unread(o.s) = BulksBytes(Tail(args)) \o BytesLeft(requests, i)
    BY <1>10, Zenon DEF CommandRead
  <2>3. pc' = "args" /\ parts' = o.v.args /\ left' = o.v.left
    BY <1>1, <2>1 DEF Resume, Again, Errors
  <2>4. PICK bs \in Seq(Seq(ArgBytes)) :
          /\ Unread(rd') = BulksBytes(bs) \o BytesLeft(requests, i)
          /\ Len(bs) = left' /\ parts' \o bs = args
    <3>1. CASE /\ o.v.args = args /\ o.v.left = 0
               /\ Unread(o.s) = BytesLeft(requests, i)
      <4>1. BytesLeft(requests, i) \in Seq(Tokens)
        BY NextIs DEF WellFormed
      <4>2. <<>> \o BytesLeft(requests, i) = BytesLeft(requests, i)
        BY <4>1, ConcatEmptySeq
      <4>3. Unread(rd') = BulksBytes(<<>>) \o BytesLeft(requests, i)
        BY <1>1, <3>1, <4>2, BulksBytesEmpty
      <4>4. <<>> \in Seq(Seq(ArgBytes)) /\ Len(<<>>) = 0 /\ args \o <<>> = args
        BY EmptySeq, ConcatEmptySeq
      <4> QED BY <2>3, <3>1, <4>3, <4>4
    <3>2. CASE /\ o.v.args = <<Head(args)>> /\ o.v.left = Len(args) - 1
               /\ Unread(o.s) = BulksBytes(Tail(args)) \o BytesLeft(requests, i)
      <4>1. /\ Tail(args) \in Seq(Seq(ArgBytes)) /\ Len(Tail(args)) = Len(args) - 1
            /\ <<Head(args)>> \o Tail(args) = args
        BY <2>2, HeadTailProperties
      <4> QED BY <1>1, <2>3, <3>2, <4>1
    <3> QED BY <2>2, <3>1, <3>2
  <2>5. NoBlank => /\ Progress(i, Len(got) + 1)' /\ Len(names') = Len(got') + 1
                   /\ parts' \o bs = (Commands')[Len(got') + 1].args
    BY <1>2, <1>4, <1>6, <2>2, <2>4 DEF Progress
  <2>6. AtArgs'
    BY <1>2, <1>4, <2>4, <2>5, Zenon DEF AtArgs
  <2> QED BY <1>4, <1>5, <1>7, <2>3, <2>6 DEF Aligned
<1> QED
  BY <1>3, <1>8, <1>9, <1>10

\* The first of the bulks that are left.
LEMMA BulkNext ==
    ASSUME Types, Requested, NEW i \in Indices, NEW bs \in Seq(Seq(ArgBytes)), bs # <<>>,
           NEW u, u = BulksBytes(bs) \o BytesLeft(requests, i)
    PROVE  /\ Begins(u, BulkBytes(Head(bs)), BulksBytes(Tail(bs)) \o BytesLeft(requests, i))
           /\ Head(bs) \in Seq(ArgBytes) /\ Tail(bs) \in Seq(Seq(ArgBytes))
           /\ Len(Tail(bs)) = Len(bs) - 1
<1>1. BytesLeft(requests, i) \in Seq(Tokens)
  BY NextIs
<1> QED
  BY <1>1, BeginsBulks

LEMMA NotEmpty ==
    ASSUME NEW S, NEW s \in Seq(S)
    PROVE  Len(s) \in Nat /\ (Len(s) = 0 <=> s = <<>>)
BY EmptySeq

LEMMA MoveFirst ==
    ASSUME NEW S, NEW x \in Seq(S), NEW y \in Seq(S), y # <<>>
    PROVE  Append(x, Head(y)) \o Tail(y) = x \o y
<1> DEFINE l == Append(x, Head(y))
           t == Tail(y)
           z == x \o y
           m == Len(x)
           n == Len(y)
<1>1. /\ n \in Nat /\ m \in Nat /\ Head(y) \in S /\ Head(y) = y[1] /\ t \in Seq(S) /\ Len(t) = n - 1
      /\ n >= 1
  BY HeadTailProperties, NotEmpty
<1>2. \A j \in 1 .. n - 1 : t[j] = y[j + 1]
  BY <1>1
<1>3. l \in Seq(S) /\ Len(l) = m + 1 /\ l[m + 1] = y[1] /\ \A j \in 1 .. m : l[j] = x[j]
  BY <1>1
<1>4. z \in Seq(S) /\ Len(z) = m + n /\ \A j \in 1 .. m + n : z[j] = IF j <= m THEN x[j] ELSE y[j - m]
  BY ConcatProperties
<1>5. /\ l \o t \in Seq(S) /\ Len(l \o t) = (m + 1) + (n - 1)
      /\ \A j \in 1 .. (m + 1) + (n - 1) : (l \o t)[j] = IF j <= m + 1 THEN l[j] ELSE t[j - (m + 1)]
  <2> HIDE DEF l, t, m, n
  <2>1. l \in Seq(S) /\ t \in Seq(S)
    BY <1>1, <1>3
  <2>2. /\ l \o t \in Seq(S) /\ Len(l \o t) = Len(l) + Len(t)
        /\ \A j \in 1 .. Len(l) + Len(t) : (l \o t)[j] = IF j <= Len(l) THEN l[j] ELSE t[j - Len(l)]
    BY <2>1, ConcatProperties
  <2>3. Len(l) = m + 1 /\ Len(t) = n - 1
    BY <1>1, <1>3
  <2> QED BY <2>2, <2>3
<1> HIDE DEF l, t, z, m, n
<1>6. Len(l \o t) = Len(z) /\ Len(z) = m + n
  BY <1>1, <1>4, <1>5
<1>7. ASSUME NEW j \in 1 .. m + n PROVE (l \o t)[j] = z[j]
  <2>1. j <= m \/ j = m + 1 \/ j > m + 1
    BY <1>1
  <2>2. CASE j <= m
    BY <1>1, <1>3, <1>4, <1>5, <2>2, SMTT(60)
  <2>3. CASE j = m + 1
    <3>1. j - m = 1 /\ ~(j <= m) /\ j <= m + 1 /\ j \in 1 .. (m + 1) + (n - 1)
      BY <1>1, <2>3
    <3> QED BY <1>3, <1>4, <1>5, <2>3, <3>1
  <2>4. CASE j > m + 1
    <3>1. /\ j - (m + 1) \in 1 .. n - 1 /\ ~(j <= m + 1) /\ ~(j <= m) /\ j \in 1 .. (m + 1) + (n - 1)
          /\ (j - (m + 1)) + 1 = j - m
      BY <1>1, <2>4
    <3> QED BY <1>2, <1>4, <1>5, <3>1
  <2> QED BY <2>1, <2>2, <2>3, <2>4
<1>8. l \o t = z
  BY <1>4, <1>5, <1>6, <1>7, SeqEqual
<1> QED
  BY <1>8 DEF l, t, z

LEMMA ReadArgAligned ==
    ASSUME Types, WellFormed, Aligned, ReadArg, UNCHANGED streamVars, rd'.whole
    PROVE  Aligned'
<1>1. PICK o \in ReadBulk(rd) :
          /\ rd' = o.s
          /\ pc' = Resume(o.e, "peek", "args", "args")
          /\ o.e = "ok" => parts' = Append(parts, o.v) /\ left' = left - 1
  BY DEF ReadArg
<1>2. /\ pc = "args" /\ left > 0 /\ requests' = requests /\ got' = got /\ names' = names
      /\ offset' = offset
  BY DEF ReadArg
<1>3. /\ rd \in Readers /\ Requested /\ Tidy(rd) /\ parts \in Seq(Seq(ArgBytes)) /\ left \in Nat
      /\ offset' = 0 /\ AtArgs /\ (NoBlank => ReadBack)
  BY <1>2 DEF Types, Reading, WellFormed, Aligned
<1>4. Commands' = Commands /\ (NoBlank' <=> NoBlank) /\ Indices' = Indices
  BY <1>2, CommandsKept
<1>5. NoBlank => ReadBack'
  BY <1>2, <1>3, ReadBackKept
<1>6. PICK i \in Indices, bs \in Seq(Seq(ArgBytes)) :
        /\ Unread(rd) = BulksBytes(bs) \o BytesLeft(requests, i) /\ Len(bs) = left
        /\ NoBlank => /\ Progress(i, Len(got) + 1) /\ Len(names) = Len(got) + 1
                      /\ parts \o bs = Commands[Len(got) + 1].args
  BY <1>3, Zenon DEF AtArgs
<1>7. bs # <<>>
  BY <1>2, <1>3, <1>6, NotEmpty
<1> DEFINE rest == BulksBytes(Tail(bs)) \o BytesLeft(requests, i)
<1>8. /\ Begins(Unread(rd), BulkBytes(Head(bs)), rest)
      /\ Head(bs) \in Seq(ArgBytes) /\ Tail(bs) \in Seq(Seq(ArgBytes))
      /\ Len(Tail(bs)) = Len(bs) - 1
  BY <1>3, <1>6, <1>7, BulkNext
<1> HIDE DEF rest
<1>9. o.e = "ok" /\ o.v = Head(bs) /\ Tidy(o.s) /\ Unread(o.s) = rest
  BY <1>1, <1>3, <1>8, ReadBulkWhole
<1>10. pc' = "args" /\ parts' = Append(parts, Head(bs)) /\ left' = left - 1
  BY <1>1, <1>9 DEF Resume, Again, Errors
<1>11. parts' \o Tail(bs) = parts \o bs
  BY <1>3, <1>7, <1>10, MoveFirst
<1>12. /\ Unread(rd') = BulksBytes(Tail(bs)) \o BytesLeft(requests', i) /\ Len(Tail(bs)) = left'
       /\ Tidy(rd')
  BY <1>1, <1>2, <1>6, <1>8, <1>9, <1>10 DEF rest
<1>13. NoBlank => /\ Progress(i, Len(got) + 1)' /\ Len(names') = Len(got') + 1
                  /\ parts' \o Tail(bs) = (Commands')[Len(got') + 1].args
  BY <1>2, <1>4, <1>6, <1>11 DEF Progress
<1>14. AtArgs'
  BY <1>4, <1>8, <1>12, <1>13, Zenon DEF AtArgs
<1> QED
  BY <1>3, <1>4, <1>5, <1>10, <1>12, <1>14 DEF Aligned

\* Between two commands, nothing having been peeked.
LEMMA PeekNext ==
    ASSUME Types, Requested, NEW i \in Indices, Unread(rd') = BytesLeft(requests, i), offset' = 0,
           requests' = requests, rd' \in Readers,
           NoBlank => Progress(i, Len(got')) /\ Len(names') = Len(got')
    PROVE  AtPeek'
<1>1. Commands' = Commands /\ (NoBlank' <=> NoBlank) /\ Indices' = Indices
  BY CommandsKept
<1>2. Len(rd'.buf) \in Nat /\ offset' <= Len(rd'.buf)
  BY ReaderIs
<1>3. Unread(rd') \in Seq(ArgBytes)
  BY UnreadIs
<1>4. After(Unread(rd'), offset') = BytesLeft(requests, i)
  BY <1>3, AfterNone
<1>5. NoBlank => Progress(i, Len(got))'
  BY <1>1 DEF Progress
<1> QED
  BY <1>1, <1>2, <1>4, <1>5, Zenon DEF AtPeek

LEMMA NoBulks ==
    ASSUME Types, Requested, NEW i \in Indices, NEW bs \in Seq(Seq(ArgBytes)), Len(bs) = 0
    PROVE  bs = <<>> /\ BulksBytes(bs) \o BytesLeft(requests, i) = BytesLeft(requests, i)
<1>1. BytesLeft(requests, i) \in Seq(Tokens)
  BY NextIs
<1>2. <<>> \o BytesLeft(requests, i) = BytesLeft(requests, i)
  BY <1>1, ConcatEmptySeq
<1>3. bs = <<>>
  BY NotEmpty
<1> QED
  BY <1>2, <1>3, BulksBytesEmpty

LEMMA ReadDoneAligned ==
    ASSUME Types, WellFormed, Aligned, ReadDone, UNCHANGED streamVars
    PROVE  Aligned'
<1>1. /\ pc = "args" /\ left = 0 /\ requests' = requests /\ rd' = rd /\ names' = names
      /\ offset' = offset /\ pc' = "peek"
      /\ got' = Append(got, <<Head(parts)>> \o SubSeq(mem', 1, argn'))
  BY DEF ReadDone
<1>2. got' = Append(got, parts)
  BY <1>1, ReadDoneGets
<1>3. /\ rd \in Readers /\ Requested /\ Tidy(rd) /\ parts \in Seq(Seq(ArgBytes))
      /\ got \in Seq(Seq(Seq(ArgBytes)))
      /\ offset' = 0 /\ AtArgs /\ (NoBlank => ReadBack)
  BY <1>1 DEF Types, Reading, WellFormed, Aligned
<1>4. PICK i \in Indices, bs \in Seq(Seq(ArgBytes)) :
        /\ Unread(rd) = BulksBytes(bs) \o BytesLeft(requests, i) /\ Len(bs) = left
        /\ NoBlank => /\ Progress(i, Len(got) + 1) /\ Len(names) = Len(got) + 1
                      /\ parts \o bs = Commands[Len(got) + 1].args
  BY <1>3, Zenon DEF AtArgs
<1>5. bs = <<>> /\ BulksBytes(bs) \o BytesLeft(requests, i) = BytesLeft(requests, i)
  BY <1>1, <1>3, <1>4, NoBulks
<1>6. parts \o bs = parts
  BY <1>3, <1>5, ConcatEmptySeq
<1>7. Len(got') = Len(got) + 1
  BY <1>2, <1>3
<1>8. NoBlank => Progress(i, Len(got')) /\ Len(names') = Len(got')
  BY <1>1, <1>4, <1>7
<1>9. Unread(rd') = BytesLeft(requests, i)
  BY <1>1, <1>4, <1>5
<1>10. AtPeek'
  BY <1>1, <1>3, <1>8, <1>9, PeekNext
<1>11. NoBlank => ReadBack'
  <2>1. NoBlank => parts \in {<<>>, Commands[Len(got) + 1].args}
    BY <1>4, <1>6
  <2> QED BY <1>1, <1>2, <1>3, <2>1, ReadBackGot
<1>12. NoBlank' <=> NoBlank
  BY <1>1, CommandsKept
<1> QED
  BY <1>1, <1>3, <1>10, <1>11, <1>12 DEF Aligned

LEMMA SkipCmdAligned ==
    ASSUME Types, WellFormed, Aligned, SkipCmd, UNCHANGED streamVars, rd'.whole, rd' \in Readers
    PROVE  Aligned'
<1>1. PICK o \in skipCmd(rd) :
          /\ rd' = o.s
          /\ left' = IF o.e = "ok" THEN o.v ELSE 0
          /\ pc' = Skipping(o.e, left')
          /\ got' = IF pc = "perform" THEN Append(got, <<>>) ELSE got
  BY DEF SkipCmd
<1>2. /\ pc \in {"perform", "bad", "skip"} /\ requests' = requests /\ names' = names
      /\ offset' = offset
  BY DEF SkipCmd
<1>3. /\ rd \in Readers /\ Requested /\ Tidy(rd) /\ got \in Seq(Seq(Seq(ArgBytes))) /\ offset' = 0
      /\ pc \in {"perform", "skip"} /\ (NoBlank => ReadBack)
      /\ pc = "perform" => AtCommand
      /\ pc = "skip" => AtSkip
  BY <1>2 DEF Types, Reading, WellFormed, Aligned
<1>4. Commands' = Commands /\ (NoBlank' <=> NoBlank) /\ Indices' = Indices
  BY <1>2, CommandsKept
<1>5. Len(got) \in Nat /\ Len(got') \in Nat /\ (pc = "perform" => Len(got') = Len(got) + 1)
  BY <1>1, <1>3, LenProperties
<1>6. NoBlank => ReadBack'
  <2>1. CASE pc = "perform"
    BY <1>1, <1>2, <1>3, <2>1, ReadBackGot
  <2>2. CASE pc = "skip"
    BY <1>1, <1>2, <1>3, <2>2, ReadBackKept
  <2> QED BY <1>3, <2>1, <2>2
<1> DEFINE d == Len(got') - 1
<1>7. PICK i \in Indices : /\ Unread(rd) = BytesLeft(requests, i)
                           /\ NoBlank => Progress(i, d) /\ Len(names) = Len(got')
  <2>1. CASE pc = "perform"
    <3>1. PICK i \in Indices : /\ Unread(rd) = BytesLeft(requests, i)
                               /\ NoBlank => Progress(i, Len(got)) /\ Len(names) = Len(got) + 1
      BY <1>3, <2>1, Zenon DEF AtCommand
    <3>2. d = Len(got) /\ Len(got') = Len(got) + 1
      BY <1>5, <2>1
    <3> QED BY <3>1, <3>2
  <2>2. CASE pc = "skip"
    <3>1. PICK i \in Indices : /\ Unread(rd) = BytesLeft(requests, i)
                               /\ NoBlank => Progress(i, Len(got) - 1) /\ Len(names) = Len(got)
      BY <1>3, <2>2, Zenon DEF AtSkip
    <3>2. got' = got
      BY <1>1, <2>2
    <3> QED BY <3>1, <3>2
  <2> QED BY <1>3, <2>1, <2>2
<1>8. d + 1 = Len(got') /\ d \in Int
  BY <1>5
<1> HIDE DEF d
<1> DEFINE q == requests[i + 1]
           rest == BytesLeft(requests, i + 1)
<1>9. /\ i \in Nat
      /\ i < Len(requests) => /\ Begins(Unread(rd), Bytes(q), rest) /\ IsProper(q)
                              /\ i + 1 \in Indices /\ i + 1 \in DOMAIN requests
      /\ ~(i < Len(requests)) => i = Len(requests) /\ Len(Unread(rd)) < 1
  BY <1>3, <1>7, NextIs
<1> HIDE DEF q, rest
<1>10. CASE i < Len(requests)
  <2>1. /\ Begins(Unread(rd), Bytes(q), rest) /\ IsProper(q) /\ i + 1 \in Indices
        /\ i + 1 \in DOMAIN requests
    BY <1>9, <1>10
  <2>2. /\ Tidy(o.s)
        /\ q.form = "zero" => o.e = "empty" /\ Unread(o.s) = rest
        /\ q.form \in {"blank", "inline"} => o.e = "ok" /\ o.v = 0 /\ Unread(o.s) = rest
        /\ q.form = "bulks" => o.e = "ok" /\ o.v = Len(q.args) /\ Unread(o.s) = BulksBytes(q.args) \o rest
    BY <1>1, <1>3, <2>1, skipCmdWhole
  <2>3. NoBlank => /\ IsCommand(q) => Progress(i + 1, Len(got'))
                   /\ ~IsCommand(q) => Progress(i + 1, d)
    <3>1. NoBlank => /\ IsCommand(q) => Progress(i + 1, d + 1)
                     /\ ~IsCommand(q) => Progress(i + 1, d)
      BY <1>3, <1>7, <1>9, <1>10, ProgressNext DEF q
    <3> QED BY <1>8, <3>1
  <2>4. /\ q.form \in {"bulks", "inline", "zero", "blank"} /\ q.args \in Seq(Seq(ArgBytes))
        /\ q.form \in {"bulks", "inline"} => q.args # <<>>
    BY <2>1 DEF IsProper, Sent
  <2>5. IsCommand(q) <=> q.form \in {"bulks", "inline"}
    BY DEF IsCommand
  <2>6. NoBlank => q.form # "blank"
    BY <2>1 DEF NoBlank, q
  <2>7. Tidy(rd')
    BY <1>1, <2>2
  <2>8. CASE q.form = "zero"
    <3>1. pc' = "skip"
      BY <1>1, <2>2, <2>8 DEF Skipping
    <3>2. Unread(rd') = BytesLeft(requests', i + 1)
      BY <1>1, <1>2, <2>2, <2>8 DEF rest
    <3>3. NoBlank => Progress(i + 1, Len(got) - 1)' /\ Len(names') = Len(got')
      BY <1>2, <1>4, <1>7, <2>3, <2>5, <2>8 DEF Progress, d
    <3>4. AtSkip'
      BY <1>4, <2>1, <3>2, <3>3, Zenon DEF AtSkip
    <3> QED BY <1>3, <1>4, <1>6, <2>7, <3>1, <3>4 DEF Aligned
  <2>9. CASE q.form \in {"blank", "inline"}
    <3>1. pc' = "peek"
      <4>1. o.e = "ok" /\ left' = 0 /\ ~(0 > 0)
        BY <1>1, <2>2, <2>9
      <4> QED BY <1>1, <4>1 DEF Skipping
    <3>2. Unread(rd') = BytesLeft(requests, i + 1)
      BY <1>1, <2>2, <2>9 DEF rest
    <3>3. NoBlank => Progress(i + 1, Len(got')) /\ Len(names') = Len(got')
      BY <1>2, <1>7, <2>3, <2>5, <2>6, <2>9
    <3>4. AtPeek'
      BY <1>2, <1>3, <2>1, <3>2, <3>3, PeekNext
    <3> QED BY <1>3, <1>4, <1>6, <2>7, <3>1, <3>4 DEF Aligned
  <2>10. CASE q.form = "bulks"
    <3>1. Len(q.args) \in Nat /\ Len(q.args) > 0
      BY <2>4, <2>10, NotEmpty
    <3>2. pc' = "bulks" /\ left' = Len(q.args)
      <4>1. o.e = "ok" /\ left' = Len(q.args) /\ left' > 0
        BY <1>1, <2>2, <2>10, <3>1
      <4> QED BY <1>1, <4>1 DEF Skipping
    <3>3. Unread(rd') = BulksBytes(q.args) \o BytesLeft(requests', i + 1)
      BY <1>1, <1>2, <2>2, <2>10 DEF rest
    <3>4. NoBlank => Progress(i + 1, Len(got))' /\ Len(names') = Len(got')
      BY <1>2, <1>4, <1>7, <2>3, <2>5, <2>10 DEF Progress
    <3>5. AtBulks'
      BY <1>4, <2>1, <2>4, <3>2, <3>3, <3>4, Zenon DEF AtBulks
    <3> QED BY <1>3, <1>4, <1>6, <2>7, <3>2, <3>5 DEF Aligned
  <2> QED BY <2>4, <2>8, <2>9, <2>10
<1>11. CASE ~(i < Len(requests))
  <2>1. i = Len(requests) /\ Len(Unread(rd)) < 1
    BY <1>9, <1>11
  <2>2. o.e = "EOF" /\ Tidy(o.s) /\ Unread(o.s) = Unread(rd)
    BY <1>1, <1>3, <2>1, skipCmdEnd
  <2>3. NoBlank => d = Len(Commands)
    BY <1>3, <1>7, <2>1, ProgressEnd
  <2>4. ~NoBlank
    <3>1. NoBlank => Len(names') <= Len(Commands)
      BY <1>4, <1>6 DEF ReadBack
    <3>2. NoBlank => d + 1 <= d
      BY <1>2, <1>7, <1>8, <2>3, <3>1
    <3> QED BY <1>8, <3>2
  <2>5. pc' = "peek" /\ Tidy(rd') /\ Unread(rd') = BytesLeft(requests, i)
    BY <1>1, <1>7, <2>2 DEF Skipping
  <2>6. AtPeek'
    BY <1>2, <1>3, <2>4, <2>5, PeekNext
  <2> QED BY <1>3, <1>4, <1>6, <2>5, <2>6 DEF Aligned
<1> QED
  BY <1>10, <1>11

LEMMA SkipArgAligned ==
    ASSUME Types, WellFormed, Aligned, SkipArg, UNCHANGED streamVars, rd'.whole, rd' \in Readers
    PROVE  Aligned'
<1>1. PICK o \in SkipBulk(rd) :
          /\ rd' = o.s
          /\ left' = IF o.e = "ok" THEN left - 1 ELSE 0
          /\ pc' = Skipping(o.e, left')
  BY DEF SkipArg
<1>2. /\ pc = "bulks" /\ requests' = requests /\ got' = got /\ names' = names /\ offset' = offset
  BY DEF SkipArg
<1>3. /\ rd \in Readers /\ Requested /\ Tidy(rd) /\ left \in Nat /\ left > 0
      /\ offset' = 0 /\ AtBulks /\ (NoBlank => ReadBack)
  BY <1>2 DEF Types, Reading, WellFormed, Aligned
<1>4. Commands' = Commands /\ (NoBlank' <=> NoBlank) /\ Indices' = Indices
  BY <1>2, CommandsKept
<1>5. NoBlank => ReadBack'
  BY <1>2, <1>3, ReadBackKept
<1>6. PICK i \in Indices, bs \in Seq(Seq(ArgBytes)) :
        /\ Unread(rd) = BulksBytes(bs) \o BytesLeft(requests, i) /\ Len(bs) = left
        /\ NoBlank => Progress(i, Len(got)) /\ Len(names) = Len(got)
  BY <1>3, Zenon DEF AtBulks
<1>7. bs # <<>>
  BY <1>3, <1>6, NotEmpty
<1> DEFINE rest == BulksBytes(Tail(bs)) \o BytesLeft(requests, i)
<1>8. /\ Begins(Unread(rd), BulkBytes(Head(bs)), rest)
      /\ Head(bs) \in Seq(ArgBytes) /\ Tail(bs) \in Seq(Seq(ArgBytes))
      /\ Len(Tail(bs)) = Len(bs) - 1
  BY <1>3, <1>6, <1>7, BulkNext
<1> HIDE DEF rest
<1>9. o.e = "ok" /\ Tidy(o.s) /\ Unread(o.s) = rest
  BY <1>1, <1>3, <1>8, SkipBulkWhole
<1>10. left' = left - 1 /\ left - 1 \in Nat /\ Len(Tail(bs)) = left'
  BY <1>1, <1>3, <1>6, <1>8, <1>9
<1>11. Tidy(rd') /\ Unread(rd') = BulksBytes(Tail(bs)) \o BytesLeft(requests', i)
  BY <1>1, <1>2, <1>9 DEF rest
<1>12. CASE left' = 0
  <2>1. pc' = "peek"
    <3>1. ~(left' > 0)
      BY <1>12
    <3> QED BY <1>1, <1>9, <3>1 DEF Skipping
  <2>2. BulksBytes(Tail(bs)) \o BytesLeft(requests, i) = BytesLeft(requests, i)
    BY <1>3, <1>8, <1>10, <1>12, NoBulks
  <2>3. Unread(rd') = BytesLeft(requests, i)
    BY <1>2, <1>11, <2>2
  <2>4. AtPeek'
    BY <1>2, <1>3, <1>6, <2>3, PeekNext
  <2> QED BY <1>3, <1>4, <1>5, <1>11, <2>1, <2>4 DEF Aligned
<1>13. CASE left' # 0
  <2>1. pc' = "bulks"
    <3> DEFINE l == left'
    <3>1. l \in Nat /\ l # 0
      BY <1>10, <1>13
    <3>2. l > 0
      <4> HIDE DEF l
      <4> QED BY <3>1
    <3>3. left' > 0
      BY <3>2
    <3> QED BY <1>1, <1>9, <3>3 DEF Skipping
  <2>2. NoBlank => Progress(i, Len(got))' /\ Len(names') = Len(got')
    BY <1>2, <1>4, <1>6 DEF Progress
  <2>3. AtBulks'
    BY <1>4, <1>8, <1>10, <1>11, <2>2, Zenon DEF AtBulks
  <2> QED BY <1>3, <1>4, <1>5, <1>11, <2>1, <2>3 DEF Aligned
<1> QED
  BY <1>12, <1>13

LEMMA StreamCmdAligned ==
    ASSUME Types, Apart, WellFormed, Aligned, StreamCmd, rd'.whole
    PROVE  Aligned'
<1>1. PICK o \in readCommand(rd) :
          /\ rd' = o.s
          /\ cs' = Stream(cs, o)
          /\ pc' = Resume(o.e, "peek", "stream", "handler")
          /\ got' = IF o.e = "ok" THEN Append(got, <<>>) ELSE got
  BY DEF StreamCmd
<1>2. /\ pc \in {"perform", "stream"} /\ requests' = requests /\ names' = names
      /\ offset' = offset /\ data' = data /\ alone' = alone
  BY DEF StreamCmd, loopVars
<1>3. /\ cs \in Streams /\ cs.pos = 0 /\ cs.arg = 0 /\ data = <<>>
      /\ got \in Seq(Seq(Seq(ArgBytes))) /\ AtCommand /\ (NoBlank => ReadBack) /\ offset' = 0
      /\ Requested
  BY <1>2 DEF Types, Reading, Streaming, Aligned, WellFormed
<1>4. /\ Tidy(o.s)
      /\ \/ NothingRead(o)
         \/ o.e = "EOF" /\ (NoBlank => Len(got) = Len(Commands))
         \/ CommandRead(o)
  BY <1>1, <1>2, CommandNext
<1>5. Commands' = Commands /\ (NoBlank' <=> NoBlank) /\ Indices' = Indices
  BY <1>2, CommandsKept
<1>6. /\ cs.nargs = 0 /\ cs.inline = <<>> /\ (NoBlank => ~cs.isInline)
      /\ NoBlank => Len(names) = Len(got) + 1
  BY <1>3, Zenon DEF AtCommand
<1>7. Tidy(rd')
  BY <1>1, <1>4
<1>11. alone' = {}
  <2>1. 1 .. Len(data) = {}
    BY <1>3, EmptySeq
  <2> QED BY <1>2, <2>1 DEF Apart
<1>8. CASE NothingRead(o)
  <2>1. o.e \in {"empty", "blank"}
    BY <1>8 DEF NothingRead
  <2>2. PICK i \in Indices : /\ Unread(o.s) = BytesLeft(requests, i)
                             /\ NoBlank => o.e = "empty" /\ Progress(i, Len(got))
    BY <1>8, Zenon DEF NothingRead
  <2>3. pc' = "stream" /\ got' = got
    BY <1>1, <2>1 DEF Resume, Again, Errors
  <2>4. NoBlank => Progress(i, Len(got))'
    BY <1>2, <1>5, <2>2, <2>3 DEF Progress
  <2>5. /\ cs'.nargs = 0 /\ cs'.inline = <<>> /\ (NoBlank => ~cs'.isInline)
    <3>1. CASE o.e = "empty"
      <4>1. cs' = cs
        BY <1>1, <3>1 DEF Stream
      <4> QED BY <1>6, <4>1
    <3>2. CASE o.e = "blank"
      <4>1. cs' = [cs EXCEPT !.isInline = TRUE] /\ ~NoBlank
        BY <1>1, <2>2, <3>2 DEF Stream
      <4>2. cs'.nargs = cs.nargs /\ cs'.inline = cs.inline
        BY <1>3, <4>1 DEF Streams
      <4> QED BY <1>6, <4>1, <4>2
    <3> QED BY <2>1, <3>1, <3>2
  <2>6. AtCommand'
    BY <1>1, <1>2, <1>5, <1>6, <2>2, <2>3, <2>4, <2>5, Zenon DEF AtCommand
  <2>7. NoBlank => ReadBack'
    BY <1>2, <1>3, <2>3, ReadBackKept
  <2> QED BY <1>3, <1>5, <1>7, <2>3, <2>6, <2>7 DEF Aligned
<1>9. CASE o.e = "EOF" /\ (NoBlank => Len(got) = Len(Commands))
  <2>1. pc' = "end" /\ got' = got
    BY <1>1, <1>9 DEF Resume, Again, Errors
  <2>2. NoBlank => ReadBack'
    BY <1>2, <1>3, <2>1, ReadBackKept
  <2> QED BY <1>3, <1>5, <1>7, <1>9, <2>1, <2>2 DEF Aligned
<1>10. CASE CommandRead(o)
  <2>1. o.e = "ok"
    BY <1>10 DEF CommandRead
  <2>2. PICK i \in Indices, args \in Seq(Seq(ArgBytes)) :
          /\ args # <<>>
          /\ NoBlank => Progress(i, Len(got) + 1) /\ Commands[Len(got) + 1].args = args
          /\ \/ /\ o.v.inline = TRUE /\ o.v.args = args /\ o.v.left = 0
                /\ Unread(o.s) = BytesLeft(requests, i)
             \/ /\ o.v.inline = FALSE /\ o.v.args = <<Head(args)>> /\ o.v.left = Len(args) - 1
                /\ Unread(o.s) = BulksBytes(Tail(args)) \o BytesLeft(requests, i)
    BY <1>10, Zenon DEF CommandRead
  <2>3. pc' = "handler" /\ got' = Append(got, <<>>)
    BY <1>1, <2>1 DEF Resume, Again, Errors
  <2>4. Len(got) \in Nat /\ Len(got') = Len(got) + 1 /\ Len(got') >= 1
    BY <1>3, <2>3, LenProperties
  <2>5. NoBlank => /\ Progress(i, Len(got))' /\ Len(names') = Len(got') /\ Len(got') >= 1
                   /\ (Commands')[Len(got')].args = args
    BY <1>2, <1>5, <1>6, <2>2, <2>4 DEF Progress
  <2>6. NoBlank => ReadBack'
    BY <1>2, <1>3, <2>3, ReadBackGot
  <2>7. /\ Tail(args) \in Seq(Seq(ArgBytes)) /\ Len(Tail(args)) = Len(args) - 1
        /\ Len(args) \in Nat /\ Len(args) >= 1
    BY <2>2, HeadTailProperties, NotEmpty
  <2>8. BytesLeft(requests, i) \in Seq(Tokens) /\ <<>> \in Seq(Tokens) /\ Len(<<>>) = 0
        /\ <<>> \in Seq(Seq(ArgBytes))
    BY <1>3, NextIs, EmptySeq
  <2> DEFINE t == Tail(args)
  <2>9. t \in Seq(Seq(ArgBytes)) /\ Len(t) \in Nat
    BY <2>7, LenProperties
  <2>10. CASE /\ o.v.inline = TRUE /\ o.v.args = args
              /\ Unread(o.s) = BytesLeft(requests, i)
    <3>1. cs' = [cs EXCEPT !.isInline = TRUE, !.inline = t]
      BY <1>1, <2>1, <2>10 DEF Stream
    <3> HIDE DEF t
    <3>2. /\ cs'.isInline = TRUE /\ cs'.inline = t /\ cs'.nargs = 0 /\ cs'.pos = 0 /\ cs'.arg = 0
      BY <1>3, <1>6, <3>1 DEF Streams
    <3>3. LeftOf(cs') = 0
      BY <3>2 DEF LeftOf
    <3>4. Unread(rd') = <<>> \o (BulksBytes(<<>>) \o BytesLeft(requests', i))
      <4>1. <<>> \o (<<>> \o BytesLeft(requests, i)) = BytesLeft(requests, i)
        BY <2>8, ConcatEmptySeq
      <4> QED BY <1>1, <1>2, <2>10, <4>1, BulksBytesEmpty
    <3>5. SubSeq(t, 1, 0) = <<>>
      BY <2>9
    <3>7. NoBlank => HasGot(Tail(Commands[Len(got)].args), <<>>, <<>>)'
      <4>1. NoBlank => Tail((Commands')[Len(got')].args) = t
        BY <2>5 DEF t
      <4> QED BY <3>2, <1>2, <1>3, <1>11, <3>5, <4>1, Zenon DEF HasGot
    <3>8. AtHandler'
      <4>1. /\ cs'.isInline => cs'.arg = 0
            /\ ~cs'.isInline => cs'.inline = <<>>
            /\ cs'.nargs = 0 \/ cs'.inline = <<>>
            /\ Len(<<>>) = LeftOf(cs') /\ Len(<<>>) = cs'.arg
        BY <3>2, <3>3
      <4> QED BY <1>5, <2>5, <2>8, <3>4, <3>7, <4>1, Zenon DEF AtHandler
    <3> QED BY <1>3, <1>5, <1>7, <2>3, <2>6, <3>8 DEF Aligned
  <2>11. CASE /\ o.v.inline = FALSE /\ o.v.left = Len(args) - 1
              /\ Unread(o.s) = BulksBytes(Tail(args)) \o BytesLeft(requests, i)
    <3>1. cs' = [cs EXCEPT !.nargs = o.v.left] /\ o.v.left = Len(t)
      BY <1>1, <2>1, <2>7, <2>11 DEF Stream
    <3>2. /\ cs'.isInline = cs.isInline /\ cs'.inline = <<>> /\ cs'.nargs = Len(t) /\ cs'.pos = 0
          /\ cs'.arg = 0
      BY <1>3, <1>6, <3>1 DEF Streams
    <3> HIDE DEF t
    <3>3. LeftOf(cs') = Len(t)
      <4> DEFINE n == Len(t)
      <4>1. n \in Nat /\ cs'.nargs = n /\ cs'.pos = 0
        BY <2>9, <3>2
      <4> HIDE DEF n
      <4>2. LeftOf(cs') = n
        BY <4>1 DEF LeftOf
      <4> QED BY <4>2 DEF n
    <3>4. Unread(rd') = <<>> \o (BulksBytes(t) \o BytesLeft(requests', i))
      <4>1. BulksBytes(t) \o BytesLeft(requests, i) \in Seq(Tokens)
        <5>1. BulksBytes(t) \in Seq(Tokens)
          BY <2>9, BulksTyped
        <5> QED BY <2>8, <5>1, ConcatProperties
      <4>2. <<>> \o (BulksBytes(t) \o BytesLeft(requests, i)) = BulksBytes(t) \o BytesLeft(requests, i)
        BY <4>1, ConcatEmptySeq
      <4> QED BY <1>1, <1>2, <2>11, <4>2 DEF t
    <3>5. After(t, 0) = t
      BY <2>9, AfterNone
    <3>6. NoBlank => HasGot(Tail(Commands[Len(got)].args), t, <<>>)'
      <4>1. NoBlank => Tail((Commands')[Len(got')].args) = t
        BY <2>5 DEF t
      <4>2. /\ t = After(t, cs'.pos) /\ cs'.nargs = Len(t)
            /\ 1 .. cs'.pos = {} /\ ~(cs'.arg >= 2) /\ ~(cs'.arg > 0)
        BY <3>2, <3>5
      <4>3. NoBlank => ~cs'.isInline
        BY <1>6, <3>2
      <4> QED BY <1>11, <2>9, <4>1, <4>2, <4>3, Zenon DEF HasGot
    <3>7. AtHandler'
      <4>1. /\ cs'.isInline => cs'.arg = 0
            /\ ~cs'.isInline => cs'.inline = <<>>
            /\ cs'.nargs = 0 \/ cs'.inline = <<>>
            /\ Len(t) = LeftOf(cs') /\ Len(<<>>) = cs'.arg
        BY <3>2, <3>3
      <4> QED BY <1>5, <2>5, <2>8, <2>9, <3>4, <3>6, <4>1, Zenon DEF AtHandler
    <3> QED BY <1>3, <1>5, <1>7, <2>3, <2>6, <3>7 DEF Aligned
  <2> QED BY <2>2, <2>10, <2>11
<1> QED
  BY <1>4, <1>8, <1>9, <1>10

LEMMA UptoNext ==
    ASSUME NEW S, NEW s \in Seq(S), NEW n \in Nat, n < Len(s)
    PROVE  SubSeq(s, 1, n + 1) = Append(SubSeq(s, 1, n), s[n + 1])
<1> DEFINE l == Len(s)
           a == SubSeq(s, 1, n)
           b == SubSeq(s, 1, n + 1)
           c == Append(a, s[n + 1])
<1>1. l \in Nat /\ n < l
  BY LenProperties
<1>2. n \in 0 .. l /\ n + 1 \in 0 .. l /\ n + 1 \in 1 .. l
  <2> HIDE DEF l
  <2> QED BY <1>1
<1>3. a \in Seq(S) /\ Len(a) = n /\ \A i \in 1 .. n : a[i] = s[i]
  BY <1>2, UptoIs
<1>4. b \in Seq(S) /\ Len(b) = n + 1 /\ \A i \in 1 .. n + 1 : b[i] = s[i]
  BY <1>2, UptoIs
<1>5. s[n + 1] \in S
  BY <1>2, ElementOfSeq
<1> HIDE DEF a, b
<1>6. c \in Seq(S) /\ Len(c) = n + 1 /\ c[n + 1] = s[n + 1] /\ \A i \in 1 .. n : c[i] = a[i]
  BY <1>3, <1>5
<1> HIDE DEF c
<1>7. ASSUME NEW i \in 1 .. n + 1 PROVE b[i] = c[i]
  <2>1. i = n + 1 \/ i \in 1 .. n
    OBVIOUS
  <2> QED BY <1>3, <1>4, <1>6, <2>1
<1>8. Len(b) = Len(c) /\ Len(b) = n + 1
  BY <1>4, <1>6
<1>9. b = c
  BY <1>4, <1>6, <1>7, <1>8, SeqEqual
<1> QED
  BY <1>9 DEF a, b, c

LEMMA AfterTail ==
    ASSUME NEW S, NEW s \in Seq(S), NEW n \in Nat, n < Len(s)
    PROVE  Head(After(s, n)) = s[n + 1] /\ Tail(After(s, n)) = After(s, n + 1)
<1> DEFINE a == After(s, n)
           b == After(s, n + 1)
           m == Len(s) - (n + 1)
           t == Tail(a)
<1>1. /\ m \in Nat /\ a \in Seq(S) /\ Len(a) = m + 1 /\ a[1] = s[n + 1]
      /\ b \in Seq(S) /\ Len(b) = m /\ \A k \in 1 .. m : b[k] = a[k + 1]
  BY AfterStep
<1> HIDE DEF a, b, m
<1>2. a # <<>> /\ Head(a) = a[1]
  BY <1>1
<1>3. t \in Seq(S) /\ Len(t) = Len(a) - 1 /\ \A k \in 1 .. Len(t) : t[k] = a[k + 1]
  BY <1>1, <1>2, HeadTailProperties
<1>4. Len(t) = Len(b) /\ Len(b) = m
  BY <1>1, <1>3
<1> HIDE DEF t
<1>5. ASSUME NEW k \in 1 .. m PROVE t[k] = b[k]
  BY <1>1, <1>3, <1>4
<1>6. t = b
  BY <1>1, <1>3, <1>4, <1>5, SeqEqual
<1> QED
  BY <1>1, <1>2, <1>6 DEF a, b, t

LEMMA HandlerIs ==
    ASSUME Types, WellFormed, Aligned, pc = "handler"
    PROVE  /\ rd \in Readers /\ Tidy(rd) /\ Requested /\ offset = 0 /\ (NoBlank => ReadBack)
           /\ cs \in Streams /\ cs.pos \in Nat /\ cs.nargs \in Nat /\ cs.arg \in Nat
           /\ cs.inline \in Seq(Seq(ArgBytes)) /\ Len(cs.inline) \in Nat
           /\ data \in Seq(Seq(ArgBytes)) /\ Len(data) = cs.pos
           /\ cs.arg > 0 => cs.pos > 0
           /\ cs.isInline \in BOOLEAN
           /\ cs.isInline => cs.arg = 0
           /\ ~cs.isInline => cs.inline = <<>>
           /\ cs.nargs = 0 \/ cs.inline = <<>>
<1>1. /\ rd \in Readers /\ cs \in Streams /\ data \in Seq(Seq(ArgBytes)) /\ Len(data) = cs.pos
      /\ cs.arg > 0 => cs.pos > 0
  BY DEF Types, Reading, Streaming
<1>2. cs.pos \in Nat /\ cs.nargs \in Nat /\ cs.arg \in Nat /\ cs.inline \in Seq(Seq(ArgBytes))
  BY <1>1 DEF Streams
<1>3. cs.isInline \in BOOLEAN
  BY <1>1, Zenon DEF Streams
<1>4. Len(cs.inline) \in Nat
  BY <1>2, LenProperties
<1>5. Tidy(rd) /\ Requested /\ offset = 0 /\ (NoBlank => ReadBack) /\ AtHandler
  BY DEF Aligned, WellFormed
<1>6. /\ cs.isInline => cs.arg = 0
      /\ ~cs.isInline => cs.inline = <<>>
      /\ cs.nargs = 0 \/ cs.inline = <<>>
  BY <1>5, Zenon DEF AtHandler
<1> QED
  BY <1>1, <1>2, <1>3, <1>4, <1>5, <1>6, Zenon

LEMMA NextArgAligned ==
    ASSUME Types, WellFormed, Aligned, NextArg, rd'.whole, orderly'
    PROVE  Aligned'
<1>1. /\ pc = "handler" /\ More /\ orderly' = (orderly /\ Drained)
      /\ requests' = requests /\ got' = got /\ names' = names /\ offset' = offset
      /\ alone' = alone
  BY DEF NextArg, loopVars
<1>2. cs.arg = 0
  BY <1>1, Zenon DEF Drained
<1>3. /\ rd \in Readers /\ Tidy(rd) /\ Requested /\ offset' = 0 /\ (NoBlank => ReadBack)
      /\ cs \in Streams /\ cs.pos \in Nat /\ cs.nargs \in Nat
      /\ cs.inline \in Seq(Seq(ArgBytes)) /\ Len(cs.inline) \in Nat
      /\ data \in Seq(Seq(ArgBytes)) /\ Len(data) = cs.pos
      /\ ~cs.isInline => cs.inline = <<>>
      /\ cs.nargs = 0 \/ cs.inline = <<>>
  BY <1>1, HandlerIs
<1>4. Commands' = Commands /\ (NoBlank' <=> NoBlank) /\ Indices' = Indices
  BY <1>1, CommandsKept
<1>5. NoBlank => ReadBack'
  BY <1>1, <1>3, ReadBackKept
<1>6. PICK i \in Indices, bs \in Seq(Seq(ArgBytes)), rem \in Seq(Tokens) :
        /\ Unread(rd) = rem \o (BulksBytes(bs) \o BytesLeft(requests, i))
        /\ Len(bs) = LeftOf(cs) /\ Len(rem) = cs.arg
        /\ NoBlank => /\ Progress(i, Len(got)) /\ Len(names) = Len(got) /\ Len(got) >= 1
                      /\ HasGot(Tail(Commands[Len(got)].args), bs, rem)
  BY <1>1, Zenon DEF Aligned, AtHandler
<1>7. NoBlank => Progress(i, Len(got))' /\ Len(names') = Len(got') /\ Len(got') >= 1
  BY <1>1, <1>4, <1>6 DEF Progress
<1>0. PICK args : args = Tail(Commands[Len(got)].args)
  OBVIOUS
<1>8. Tail((Commands')[Len(got')].args) = args
  BY <1>0, <1>1, <1>4
<1>9. NoBlank => HasGot(args, bs, rem)
  BY <1>0, <1>6
<1>10. CASE cs.isInline
  <2>1. /\ cs' = [cs EXCEPT !.pos = @ + 1] /\ data' = Append(data, cs.inline[cs.pos + 1])
        /\ rd' = rd /\ pc' = pc
    BY <1>10 DEF NextArg
  <2>2. cs.pos < Len(cs.inline)
    BY <1>1, <1>10 DEF More, ArgN
  <2>3. cs.inline # <<>> /\ cs.nargs = 0
    BY <1>3, <2>2, NotEmpty
  <2>4. /\ cs'.isInline = cs.isInline /\ cs'.inline = cs.inline /\ cs'.nargs = cs.nargs
        /\ cs'.pos = cs.pos + 1 /\ cs'.arg = cs.arg
    BY <1>3, <2>1 DEF Streams
  <2>5. LeftOf(cs') = LeftOf(cs)
    <3>1. cs.nargs = 0 /\ cs'.nargs = 0 /\ ~(cs.pos < 0) /\ ~(cs'.pos < 0)
      BY <1>3, <2>3, <2>4
    <3> QED BY <3>1 DEF LeftOf
  <2>6. NoBlank => HasGot(Tail(Commands[Len(got)].args), bs, rem)'
    <3>1. NoBlank => cs.inline = args /\ data = SubSeq(args, 1, cs.pos) /\ alone = {}
      BY <1>9, <1>10 DEF HasGot
    <3>2. SubSeq(cs.inline, 1, cs.pos + 1) = Append(SubSeq(cs.inline, 1, cs.pos), cs.inline[cs.pos + 1])
      BY <1>3, <2>2, UptoNext
    <3>3. NoBlank => /\ cs'.inline = args /\ cs'.nargs = 0
                     /\ data' = SubSeq(args, 1, cs'.pos) /\ alone' = {}
      BY <1>1, <2>1, <2>3, <2>4, <3>1, <3>2
    <3> QED BY <1>8, <1>10, <2>4, <3>3, Zenon DEF HasGot
  <2>7. /\ Unread(rd') = rem \o (BulksBytes(bs) \o BytesLeft(requests', i))
        /\ Len(bs) = LeftOf(cs') /\ Len(rem) = cs'.arg
        /\ cs'.isInline => cs'.arg = 0
        /\ ~cs'.isInline => cs'.inline = <<>>
        /\ cs'.nargs = 0 \/ cs'.inline = <<>>
    BY <1>1, <1>2, <1>3, <1>6, <2>1, <2>4, <2>5
  <2>8. AtHandler'
    BY <1>4, <1>7, <2>6, <2>7, Zenon DEF AtHandler
  <2> QED BY <1>1, <1>3, <1>4, <1>5, <2>1, <2>8 DEF Aligned
<1>11. CASE ~cs.isInline
  <2>1. PICK o \in ReadBulkLen(rd) :
            /\ rd' = o.s
            /\ pc' = IF o.e = "panic" THEN "panic" ELSE pc
            /\ cs' = [cs EXCEPT !.pos = @ + 1,
                                !.arg = IF o.e = "ok" THEN Size(o) + 2 ELSE 0]
            /\ data' = Append(data, <<>>)
    BY <1>11 DEF NextArg
  <2>2. cs.pos < cs.nargs
    BY <1>1, <1>11 DEF More, ArgN
  <2>3. LeftOf(cs) = cs.nargs - cs.pos /\ LeftOf(cs) > 0 /\ LeftOf(cs) \in Nat
    BY <1>3, <2>2 DEF LeftOf
  <2>4. bs # <<>> /\ rem = <<>>
    BY <1>2, <1>6, <2>3, NotEmpty
  <2> DEFINE rest == BulksBytes(Tail(bs)) \o BytesLeft(requests, i)
             all == BulksBytes(bs) \o BytesLeft(requests, i)
             h == Head(bs)
  <2>5. /\ Begins(all, BulkBytes(h), rest)
        /\ h \in Seq(ArgBytes) /\ Tail(bs) \in Seq(Seq(ArgBytes))
        /\ Len(Tail(bs)) = Len(bs) - 1
    BY <1>3, <2>4, BulkNext
  <2>6. Unread(rd) = all
    <3>1. all \in Seq(Tokens)
      BY <2>5 DEF Begins
    <3>2. <<>> \o all = all
      BY <3>1, ConcatEmptySeq
    <3> QED BY <1>6, <2>4, <3>2
  <2> HIDE DEF rest, all, h
  <2>7. Begins(Unread(rd), SizeBytes("$", Len(h)), (h \o BulkEnd) \o rest)
    BY <2>5, <2>6, BeginsBulk
  <2>8. Len(h) \in Nat
    BY <2>5, LenProperties
  <2>9. o.e = "ok" /\ Size(o) = Len(h) /\ Tidy(o.s) /\ Unread(o.s) = (h \o BulkEnd) \o rest
    BY <1>3, <2>1, <2>7, <2>8, ReadBulkLenWhole
  <2>10. pc' = "handler" /\ Tidy(rd') /\ Unread(rd') = (h \o BulkEnd) \o rest
    BY <1>1, <2>1, <2>9
  <2>11. /\ cs'.isInline = cs.isInline /\ cs'.inline = cs.inline /\ cs'.nargs = cs.nargs
         /\ cs'.pos = cs.pos + 1 /\ cs'.arg = Len(h) + 2
    BY <1>3, <2>1, <2>9 DEF Streams
  <2> DEFINE y == h \o BulkEnd
  <2>12. y \in Seq(Tokens) /\ Len(y) = Len(h) + 2
    BY <2>5, BulkIs
  <2>13. LeftOf(cs') = Len(Tail(bs))
    <3> DEFINE l == Len(bs)
               t == Len(Tail(bs))
    <3>1. l = cs.nargs - cs.pos /\ t = l - 1 /\ cs'.nargs = cs.nargs /\ cs'.pos = cs.pos + 1
      BY <1>6, <2>3, <2>5, <2>11
    <3> HIDE DEF l, t
    <3>2. LeftOf(cs') = t
      BY <1>3, <2>2, <3>1 DEF LeftOf
    <3> QED BY <3>2 DEF t
  <2>14. PICK z : z = y
    OBVIOUS
  <2>15. NoBlank => HasGot(Tail(Commands[Len(got)].args), Tail(bs), z)'
    <3> SUFFICES ASSUME NoBlank
                 PROVE  HasGot(Tail(Commands[Len(got)].args), Tail(bs), z)'
      OBVIOUS
    <3>1. /\ bs = After(args, cs.pos) /\ cs.nargs = Len(args) /\ alone \subseteq 1 .. cs.pos
          /\ \A j \in 1 .. cs.pos :
                j < cs.pos \/ cs.arg < 2 => data[j] = ReadOut(args[j], j \in alone)
      BY <1>9, <1>11 DEF HasGot
    <3>2. \A j \in 1 .. cs.pos : data[j] = ReadOut(args[j], j \in alone)
      BY <1>2, <3>1
    <3>3. args \in Seq(Seq(ArgBytes)) /\ cs.pos < Len(args)
      BY <1>9, <1>11, <2>2 DEF HasGot
    <3>4. h = args[cs.pos + 1] /\ Tail(bs) = After(args, cs'.pos)
      BY <1>3, <2>11, <3>1, <3>3, AfterTail, ZenonT(60) DEF h
    <3> DEFINE p == cs.pos
    <3>5. data'[p + 1] = <<>> /\ \A j \in 1 .. p : data'[j] = data[j]
      <4>1. p \in Nat /\ Len(data) = p /\ data \in Seq(Seq(ArgBytes)) /\ <<>> \in Seq(ArgBytes)
        BY <1>3, EmptySeq
      <4> HIDE DEF p
      <4> QED BY <2>1, <4>1
    <3>6. p \in Nat /\ cs'.pos = p + 1 /\ cs'.arg = Len(h) + 2
      BY <1>3, <2>11
    <3>7. \A j \in 1 .. p : data[j] = ReadOut(args[j], j \in alone)
      BY <3>2
    <3>8. data'[cs'.pos] \o z = args[cs'.pos] \o BulkEnd
      <4>1. <<>> \o y = y
        BY <2>12, ConcatEmptySeq
      <4> QED BY <2>14, <3>4, <3>5, <3>6, <4>1
    <3> HIDE DEF p
    <3>9. cs'.arg >= 2
      BY <2>8, <3>6
    <3>10. ASSUME NEW j \in 1 .. cs'.pos, j < cs'.pos \/ cs'.arg < 2
           PROVE  data'[j] = ReadOut(args[j], j \in alone')
      <4>1. j \in 1 .. p
        BY <2>8, <3>6, <3>10
      <4> QED BY <1>1, <3>5, <3>7, <4>1
    <3>11. ~cs'.isInline /\ cs'.nargs = Len(args)
      BY <1>11, <2>11, <3>1
    <3>12. alone' \subseteq 1 .. cs'.pos /\ cs'.pos \notin alone'
      <4>1. 1 .. p \subseteq 1 .. p + 1 /\ p + 1 \notin 1 .. p
        BY <3>6
      <4>2. alone' \subseteq 1 .. p
        BY <1>1, <3>1 DEF p
      <4> QED BY <3>6, <4>1, <4>2
    <3> HIDE DEF y
    <3> QED BY <1>8, <3>3, <3>4, <3>8, <3>10, <3>11, <3>12, Zenon DEF HasGot
  <2>16. /\ Unread(rd') = z \o (BulksBytes(Tail(bs)) \o BytesLeft(requests', i))
         /\ Len(Tail(bs)) = LeftOf(cs') /\ Len(z) = cs'.arg
         /\ z \in Seq(Tokens)
         /\ cs'.isInline => cs'.arg = 0
         /\ ~cs'.isInline => cs'.inline = <<>>
         /\ cs'.nargs = 0 \/ cs'.inline = <<>>
    BY <1>1, <1>3, <1>11, <2>10, <2>11, <2>12, <2>13, <2>14 DEF rest
  <2> HIDE DEF y
  <2>17. AtHandler'
    BY <1>4, <1>7, <2>5, <2>15, <2>16, Zenon DEF AtHandler
  <2> QED BY <1>3, <1>4, <1>5, <2>10, <2>17 DEF Aligned
<1> QED
  BY <1>10, <1>11

\* Two sequences that end alike begin alike.
LEMMA CutEnd ==
    ASSUME NEW u, NEW x, NEW r, NEW a, NEW e, Begins(u, x, r), Begins(u, a, e),
           NEW n \in Nat, n + Len(e) = Len(r)
    PROVE  x \o SubSeq(r, 1, n) = a
<1> DEFINE p == SubSeq(r, 1, n)
           z == x \o p
           lx == Len(x)
           lr == Len(r)
           la == Len(a)
           le == Len(e)
<1>0. u \in Seq(Tokens) /\ x \in Seq(Tokens) /\ r \in Seq(Tokens) /\ a \in Seq(Tokens)
  BY BeginsIs
<1>1. /\ lx \in Nat /\ lr \in Nat /\ Len(u) = lx + lr /\ lx \in 0 .. Len(u)
      /\ \A j \in 1 .. lx : u[j] = x[j]
      /\ After(u, lx) = r
  BY BeginsIs
<1>2. /\ la \in Nat /\ le \in Nat /\ Len(u) = la + le
      /\ \A j \in 1 .. la : u[j] = a[j]
  BY BeginsIs
<1>3. n + le = lr
  OBVIOUS
<1>10. \A j \in 1 .. lr : u[lx + j] = r[j]
  <2>1. \A j \in 1 .. Len(u) - lx : After(u, lx)[j] = u[lx + j]
    BY <1>0, <1>1, AfterIs
  <2> HIDE DEF lx, lr
  <2>2. Len(u) - lx = lr
    BY <1>1
  <2> QED BY <1>1, <2>1, <2>2
<1> HIDE DEF lx, lr, la, le
<1>4. la = lx + n /\ n \in 0 .. lr
  <2>1. lx + lr = la + le
    BY <1>1, <1>2, <1>3
  <2> QED BY <1>1, <1>2, <1>3, <2>1
<1>5. p \in Seq(Tokens) /\ Len(p) = n /\ \A j \in 1 .. n : p[j] = r[j]
  BY <1>0, <1>4, UptoIs DEF lr
<1> HIDE DEF p
<1>6. /\ z \in Seq(Tokens) /\ Len(z) = lx + n
      /\ \A j \in 1 .. lx : z[j] = x[j]
      /\ \A j \in 1 .. n : z[lx + j] = p[j]
  <2>1. /\ z \in Seq(Tokens) /\ Len(z) = Len(x) + Len(p)
        /\ \A j \in 1 .. Len(x) : z[j] = x[j]
        /\ \A j \in 1 .. Len(p) : z[Len(x) + j] = p[j]
    <3>1. x \in Seq(Tokens) /\ p \in Seq(Tokens)
      BY <1>0, <1>5
    <3> QED BY <3>1, ConcatAt
  <2> HIDE DEF z
  <2> QED BY <1>5, <2>1 DEF lx
<1> HIDE DEF z
<1>7. ASSUME NEW j \in 1 .. la PROVE z[j] = a[j]
  <2>1. a[j] = u[j]
    BY <1>2, <1>3
  <2>2. CASE j <= lx
    BY <1>1, <1>6, <2>1, <2>2
  <2>3. CASE j > lx
    <3> DEFINE i == j - lx
    <3>1. i \in 1 .. n /\ i \in 1 .. lr /\ j = lx + i
      BY <1>1, <1>3, <1>4, <2>3
    <3> HIDE DEF i
    <3>2. z[j] = r[i] /\ u[j] = r[i]
      BY <1>5, <1>6, <1>10, <3>1
    <3> QED BY <2>1, <3>2
  <2> QED BY <1>1, <1>4, <2>2, <2>3
<1>8. Len(z) = Len(a) /\ Len(z) = la
  BY <1>4, <1>6 DEF la
<1>9. z = a
  BY <1>0, <1>6, <1>7, <1>8, SeqEqual
<1> QED
  BY <1>9 DEF z, p

\* A handler that reads k of the bytes r that are left of the bulk of a, having
\* got x before.
LEMMA BulkPart ==
    ASSUME NEW u, NEW x, NEW r, NEW a, Begins(u, x, r), Begins(u, a, BulkEnd), Len(r) >= 2,
           NEW k \in 0 .. Len(r)
    PROVE  LET w == SubSeq(r, 1, k)
               n == Reported(k, Len(r) - k)
           IN  /\ Len(r) - k >= 2 => Begins(u, x \o SubSeq(w, 1, n), After(r, k))
               /\ Len(r) - k < 2 => x \o SubSeq(w, 1, n) = a
<1> DEFINE l == Len(r)
           y == After(r, k)
           w == SubSeq(r, 1, k)
           n == Reported(k, Len(r) - k)
<1>0. /\ u \in Seq(Tokens) /\ x \in Seq(Tokens) /\ r \in Seq(Tokens) /\ a \in Seq(Tokens)
  BY BeginsIs
<1>1. l \in Nat /\ l >= 2 /\ l > 0 /\ k \in 0 .. l /\ k \in Nat /\ l - k \in Int
  BY <1>0, LenProperties
<1>2. /\ l - k >= 2 => n = k
      /\ l - k < 2 => n = l - 2
  BY <1>1, ReportedIs
<1>3. w \in Seq(Tokens) /\ Len(w) = k /\ y \in Seq(Tokens)
  BY <1>0, UptoIs, AfterIs
<1>4. w \o y = r
  BY <1>0, UptoAfter
<1>5. Len(BulkEnd) = 2
  BY BulkEndIs
<1> HIDE DEF y, w, n
<1>6. CASE l - k >= 2
  <2>1. SubSeq(w, 1, n) = w
    <3>1. n = k /\ n = Len(w)
      BY <1>2, <1>3, <1>6
    <3>2. SubSeq(w, 1, Len(w)) = w
      BY <1>3
    <3> QED BY <3>1, <3>2
  <2>2. (x \o w) \o y = x \o (w \o y)
    <3>1. x \in Seq(Tokens) /\ w \in Seq(Tokens) /\ y \in Seq(Tokens)
      BY <1>0, <1>3
    <3> QED BY <3>1, ConcatAssociative, SMTT(60)
  <2>3. x \o w \in Seq(Tokens)
    BY <1>0, <1>3, ConcatAt
  <2>4. u = x \o r
    BY DEF Begins
  <2>5. u = (x \o w) \o y
    BY <1>4, <2>2, <2>4
  <2>6. Begins(u, x \o SubSeq(w, 1, n), y)
    BY <1>0, <1>3, <2>1, <2>3, <2>5, Zenon DEF Begins
  <2>7. ~(l - k < 2)
    <3> HIDE DEF l
    <3> QED BY <1>1, <1>6
  <2> QED BY <2>6, <2>7 DEF y, w, n
<1>7. CASE l - k < 2
  <2>1. n = l - 2 /\ n \in Nat /\ n + 2 = l /\ n \in 0 .. k
    <3> HIDE DEF l
    <3> QED BY <1>1, <1>2, <1>7
  <2>2. SubSeq(w, 1, n) = SubSeq(r, 1, n)
    <3>1. n \in 0 .. Len(w)
      BY <1>3, <2>1
    <3>2. SubSeq(w \o y, 1, n) = SubSeq(w, 1, n)
      BY <1>3, <3>1, UptoConcat
    <3> QED BY <1>4, <3>2
  <2>3. n + Len(BulkEnd) = Len(r)
    BY <1>5, <2>1
  <2>4. x \o SubSeq(r, 1, n) = a
    <3>1. n \in Nat
      BY <2>1
    <3> QED BY <2>3, <3>1, CutEnd
  <2>5. ~(l - k >= 2)
    <3> HIDE DEF l
    <3> QED BY <1>1, <1>7
  <2> QED BY <2>2, <2>4, <2>5 DEF w, n
<1> QED
  <2>1. l - k >= 2 \/ l - k < 2
    <3> HIDE DEF l
    <3> QED BY <1>1
  <2> QED BY <1>6, <1>7, <2>1

LEMMA TakeFrom ==
    ASSUME NEW u, NEW x, NEW y, Begins(u, x, y), NEW k \in 0 .. Len(x)
    PROVE  /\ SubSeq(u, 1, k) = SubSeq(x, 1, k)
           /\ After(u, k) = After(x, k) \o y
           /\ After(x, k) \in Seq(Tokens) /\ Len(After(x, k)) = Len(x) - k
<1>1. x \in Seq(Tokens) /\ y \in Seq(Tokens)
  BY BeginsIs
<1>2. u = x \o y
  BY DEF Begins
<1>3. SubSeq(x \o y, 1, k) = SubSeq(x, 1, k)
  BY <1>1, UptoConcat
<1>4. After(x \o y, k) = After(x, k) \o y
  BY <1>1, AfterConcat
<1>5. After(x, k) \in Seq(Tokens) /\ Len(After(x, k)) = Len(x) - k
  BY <1>1, AfterIs
<1> QED
  BY <1>2, <1>3, <1>4, <1>5

\* What a handler that reads v has got then.
LEMMA ReadGets ==
    ASSUME cs \in Streams, cs'.isInline = cs.isInline, cs'.nargs = cs.nargs, cs'.pos = cs.pos,
           ~cs.isInline, NEW p, p = cs.pos, p \in Nat, p > 0, p <= cs.nargs,
           data \in Seq(Seq(ArgBytes)), Len(data) = p,
           NEW args, NEW bs, NEW rem \in Seq(Tokens), HasGot(args, bs, rem),
           NEW l \in Nat, l = cs.arg, l = Len(rem), l > 0, NEW k \in 1 .. l, cs'.arg = l - k,
           NEW v \in Seq(ArgBytes), v = SubSeq(rem, 1, k), Len(v) = k,
           data' = [data EXCEPT ![p] = Counted(@, v, Reported(k, l - k))],
           alone' = IF l = 1 THEN alone \cup {p} ELSE alone
    PROVE  HasGot(args, bs, After(rem, k))'
<1>1. /\ args \in Seq(Seq(ArgBytes)) /\ bs = After(args, p) /\ cs.nargs = Len(args)
      /\ alone \subseteq 1 .. p /\ p \notin alone
      /\ \A j \in 1 .. p : j < p \/ l < 2 => data[j] = ReadOut(args[j], j \in alone)
      /\ l >= 2 => data[p] \o rem = args[p] \o BulkEnd
  BY DEF HasGot
<1> DEFINE x == data[p]
           a == args[p]
           n == Reported(k, l - k)
           y == Counted(x, v, n)
<1>2. p \in 1 .. Len(args) /\ p \in 1 .. Len(data) /\ p \in 1 .. p
  BY <1>1
<1>3. x \in Seq(ArgBytes) /\ a \in Seq(ArgBytes) /\ x \in Seq(Tokens) /\ a \in Seq(Tokens)
  BY <1>1, <1>2, ElementOfSeq, ArgIs
<1>4. data'[p] = y /\ \A j \in 1 .. p : j < p => data'[j] = data[j]
  <2>1. data' = [data EXCEPT ![p] = y]
    OBVIOUS
  <2> HIDE DEF x, y
  <2>2. DOMAIN data = 1 .. p
    BY LenProperties
  <2>3. data'[p] = y
    BY <1>2, <2>1, <2>2
  <2>4. \A j \in 1 .. p : j # p => data'[j] = data[j]
    BY <2>1, <2>2
  <2>5. \A j \in 1 .. p : j < p => j # p
    OBVIOUS
  <2> QED BY <2>3, <2>4, <2>5
<1>5. /\ l - k \in Nat /\ k \in 0 .. l
      /\ n \in Int /\ n >= -1 /\ n <= k /\ (l - k >= 2 => n = k) /\ (l - k < 2 => n = l - 2)
  <2>1. l - k \in Nat /\ k \in 0 .. l
    OBVIOUS
  <2> QED BY <2>1, ReportedIs
<1>11. /\ n >= 0 => y = x \o SubSeq(v, 1, n)
       /\ n = -1 => y = SubSeq(x, 1, Len(x) - 1)
  <2> HIDE DEF n, x
  <2> QED BY <1>3, <1>5, CountedIs, ZenonT(60)
<1>6. l >= 2 => /\ l - k >= 2 => data'[p] \o After(rem, k) = a \o BulkEnd
                /\ l - k < 2 => data'[p] = a
  <2> SUFFICES ASSUME l >= 2
               PROVE  /\ l - k >= 2 => data'[p] \o After(rem, k) = a \o BulkEnd
                      /\ l - k < 2 => data'[p] = a
    OBVIOUS
  <2>1. PICK u : u = a \o BulkEnd
    OBVIOUS
  <2>2. u = x \o rem
    BY <1>1, <2>1
  <2>3. BulkEnd \in Seq(Tokens) /\ u \in Seq(Tokens)
    BY <1>3, <2>1, BulkIs, BulkEndIs
  <2>0. data'[p] = x \o SubSeq(v, 1, n)
    <3>1. n >= 0
      <4> HIDE DEF n
      <4> QED BY <1>5
    <3> QED BY <1>4, <1>11, <3>1
  <2> HIDE DEF x, a
  <2>4. Begins(u, x, rem) /\ Begins(u, a, BulkEnd)
    BY <1>3, <2>1, <2>2, <2>3, Zenon DEF Begins
  <2>5. Len(rem) >= 2 /\ k \in 0 .. Len(rem)
    OBVIOUS
  <2> DEFINE w == SubSeq(rem, 1, k)
             m == Reported(k, Len(rem) - k)
  <2>6. /\ Len(rem) - k >= 2 => Begins(u, x \o SubSeq(w, 1, m), After(rem, k))
        /\ Len(rem) - k < 2 => x \o SubSeq(w, 1, m) = a
    BY <2>4, <2>5, BulkPart
  <2>7. w = v /\ m = n /\ Len(rem) = l
    OBVIOUS
  <2> HIDE DEF w, m, n, y
  <2>8. /\ l - k >= 2 => Begins(u, x \o SubSeq(v, 1, n), After(rem, k))
        /\ l - k < 2 => x \o SubSeq(v, 1, n) = a
    BY <2>6, <2>7
  <2>9. /\ l - k >= 2 => Begins(u, data'[p], After(rem, k))
        /\ l - k < 2 => data'[p] = a
    BY <2>0, <2>8
  <2>10. l - k >= 2 => data'[p] \o After(rem, k) = u
    BY <2>9 DEF Begins
  <2> QED BY <2>1, <2>9, <2>10
<1>7. l < 2 => l = 1 /\ data'[p] = SubSeq(a, 1, Len(a) - 1)
  <2> SUFFICES ASSUME l < 2
               PROVE  l = 1 /\ data'[p] = SubSeq(a, 1, Len(a) - 1)
    OBVIOUS
  <2>1. x = a
    BY <1>1, <1>2 DEF ReadOut
  <2>2. l = 1 /\ n = -1
    <3> HIDE DEF n
    <3> QED BY <1>5
  <2> HIDE DEF n, y
  <2> QED BY <1>4, <1>11, <2>1, <2>2
<1> HIDE DEF x, n, y
<1>12. (l >= 2 => alone' = alone) /\ (l = 1 => alone' = alone \cup {p})
  <2>1. l >= 2 => l # 1
    <3>1. \A i \in Nat : i >= 2 => i # 1
      <4> HIDE DEF a
      <4> QED OBVIOUS
    <3> QED BY <3>1, Zenon
  <2> QED BY <2>1, Zenon
<1>8. ASSUME NEW j \in 1 .. p, j < p \/ l - k < 2
      PROVE  data'[j] = ReadOut(args[j], j \in alone')
  <2>1. CASE j < p
    <3>0. j # p
      BY <2>1
    <3>1. j # p /\ data'[j] = ReadOut(args[j], j \in alone)
      BY <1>1, <1>4, <2>1, <3>0, Zenon
    <3>2. j \in alone' <=> j \in alone
      BY <3>1
    <3> QED BY <3>1, <3>2 DEF ReadOut
  <2>2. CASE ~(j < p)
    <3>1. j = p /\ l - k < 2
      BY <1>8, <2>2
    <3>2. CASE l >= 2
      <4>1. data'[p] = a /\ p \notin alone'
        BY <1>1, <1>6, <1>12, <3>1, <3>2
      <4> QED BY <3>1, <4>1 DEF ReadOut
    <3>3. CASE l < 2
      <4>1. data'[p] = SubSeq(a, 1, Len(a) - 1) /\ p \in alone'
        BY <1>7, <1>12, <3>3
      <4> QED BY <3>1, <4>1 DEF ReadOut
    <3>4. l >= 2 \/ l < 2
      OBVIOUS
    <3> QED BY <3>2, <3>3, <3>4, Zenon
  <2> QED BY <2>1, <2>2
<1>9. l - k >= 2 => data'[p] \o After(rem, k) = args[p] \o BulkEnd
  <2>1. l - k >= 2 => l >= 2
    OBVIOUS
  <2> QED BY <1>6, <2>1
<1>10. /\ ~cs'.isInline /\ cs'.nargs = Len(args) /\ cs'.pos = p /\ cs'.arg = l - k
  BY <1>1
<1>13. alone' \subseteq 1 .. p /\ (l - k > 0 => p \notin alone')
  <2>1. l - k > 0 => l >= 2
    OBVIOUS
  <2>2. l >= 2 \/ l = 1
    OBVIOUS
  <2> QED BY <1>1, <1>2, <1>12, <2>1, <2>2
<1> HIDE DEF x, a, n, y
<1> QED
  BY <1>1, <1>8, <1>9, <1>10, <1>13, Zenon DEF HasGot

\* The bytes a handler has before it.
LEMMA HandlerBytes ==
    ASSUME Types, Requested, rd \in Readers, NEW i \in Indices, NEW bs \in Seq(Seq(ArgBytes)),
           NEW rem \in Seq(Tokens), Unread(rd) = rem \o (BulksBytes(bs) \o BytesLeft(requests, i))
    PROVE  Begins(Unread(rd), rem, BulksBytes(bs) \o BytesLeft(requests, i))
<1> DEFINE x == BulksBytes(bs) \o BytesLeft(requests, i)
<1>1. BytesLeft(requests, i) \in Seq(Tokens)
  BY NextIs
<1>2. BulksBytes(bs) \in Seq(Tokens)
  BY BulksTyped
<1>3. x \in Seq(Tokens)
  BY <1>1, <1>2, ConcatProperties
<1>4. Unread(rd) \in Seq(Tokens)
  BY UnreadTokens
<1>5. Unread(rd) = rem \o x
  OBVIOUS
<1> HIDE DEF x
<1>6. Begins(Unread(rd), rem, x)
  BY <1>3, <1>4, <1>5, Zenon DEF Begins
<1> QED
  BY <1>6 DEF x

LEMMA ReadAligned ==
    ASSUME Types, WellFormed, Aligned, NEW m \in 1 .. MaxRead, Read(m)
    PROVE  Aligned'
<1> DEFINE room == Min({m, cs.arg})
<1>1. PICK o \in bulkBytes(rd, room) :
          /\ rd' = o.s
          /\ pc' = IF o.e = "panic" THEN "panic" ELSE pc
          /\ cs' = [cs EXCEPT !.arg = cs.arg - Len(o.v)]
          /\ data' = [data EXCEPT ![Len(data)] =
                        Counted(@, o.v, Reported(Len(o.v), cs.arg - Len(o.v)))]
  BY DEF Read
<1>2. /\ pc = "handler" /\ cs.arg > 0 /\ requests' = requests /\ got' = got /\ names' = names
      /\ offset' = offset /\ alone' = IF cs.arg = 1 THEN alone \cup {Len(data)} ELSE alone
  BY DEF Read, loopVars
<1>3. /\ rd \in Readers /\ Tidy(rd) /\ Requested /\ offset' = 0 /\ (NoBlank => ReadBack)
      /\ cs \in Streams /\ cs.pos \in Nat /\ cs.nargs \in Nat /\ cs.arg \in Nat
      /\ data \in Seq(Seq(ArgBytes)) /\ Len(data) = cs.pos
      /\ cs.pos > 0
      /\ ~cs.isInline /\ cs.inline = <<>>
  <2>1. /\ rd \in Readers /\ Tidy(rd) /\ Requested /\ offset = 0 /\ (NoBlank => ReadBack)
        /\ cs \in Streams /\ cs.pos \in Nat /\ cs.nargs \in Nat /\ cs.arg \in Nat
        /\ data \in Seq(Seq(ArgBytes)) /\ Len(data) = cs.pos
        /\ cs.arg > 0 => cs.pos > 0
        /\ cs.isInline => cs.arg = 0
        /\ ~cs.isInline => cs.inline = <<>>
    BY <1>2, HandlerIs
  <2>2. cs.isInline => ~(cs.arg > 0)
    BY <2>1
  <2> QED BY <1>2, <2>1, <2>2, Zenon
<1>4. room \in Nat /\ room >= 1 /\ room <= cs.arg
  <2>1. m \in Nat /\ m >= 1
    BY StreamAssumption
  <2>2. room = IF m <= cs.arg THEN m ELSE cs.arg
    <3> DEFINE a == cs.arg
    <3>1. m \in Int /\ a \in Int /\ room = Min({m, a})
      BY <1>3, <2>1
    <3> HIDE DEF a, room
    <3>2. Min({m, a}) = IF m <= a THEN m ELSE a
      BY <3>1, MinOfTwo
    <3> QED BY <3>1, <3>2 DEF a
  <2> HIDE DEF room
  <2> QED BY <1>2, <1>3, <2>1, <2>2
<1> HIDE DEF room
<1>5. Commands' = Commands /\ (NoBlank' <=> NoBlank) /\ Indices' = Indices
  BY <1>2, CommandsKept
<1>6. NoBlank => ReadBack'
  BY <1>2, <1>3, ReadBackKept
<1>7. PICK i \in Indices, bs \in Seq(Seq(ArgBytes)), rem \in Seq(Tokens) :
        /\ Unread(rd) = rem \o (BulksBytes(bs) \o BytesLeft(requests, i))
        /\ Len(bs) = LeftOf(cs) /\ Len(rem) = cs.arg
        /\ NoBlank => /\ Progress(i, Len(got)) /\ Len(names) = Len(got) /\ Len(got) >= 1
                      /\ HasGot(Tail(Commands[Len(got)].args), bs, rem)
  BY <1>2, Zenon DEF Aligned, AtHandler
<1> DEFINE x == BulksBytes(bs) \o BytesLeft(requests, i)
<1>8. Begins(Unread(rd), rem, x)
  BY <1>3, <1>7, HandlerBytes
<1> HIDE DEF x
<1>9. PICK l, k : l = cs.arg /\ k = Len(o.v)
  OBVIOUS
<1>10. l \in Nat /\ l > 0 /\ Len(rem) = l
  BY <1>2, <1>3, <1>7, <1>9
<1>11. Len(Unread(rd)) >= 1 /\ rd.over = 0
  <2>1. Len(Unread(rd)) = Len(rem) + Len(x) /\ Len(x) \in Nat
    BY <1>8, BeginsIs
  <2> DEFINE b == Len(x)
             c == Len(Unread(rd))
  <2>2. c = l + b /\ b \in Nat
    BY <1>10, <2>1
  <2> HIDE DEF b, c
  <2>3. c >= 1
    BY <1>10, <2>2
  <2> QED BY <1>3, <2>3 DEF c, Tidy
<1>12. /\ o.e = "ok" /\ Len(o.v) <= room /\ Len(o.v) >= 1 /\ o.v \in Seq(ArgBytes)
       /\ o.v = SubSeq(Unread(rd), 1, Len(o.v))
       /\ Unread(o.s) = After(Unread(rd), Len(o.v))
       /\ Tidy(o.s)
  BY <1>3, <1>4, <1>11, bulkBytesIs
<1>13. k \in 0 .. l /\ k \in 1 .. l
  <2>1. k \in Nat /\ k >= 1 /\ k <= room /\ room <= l
    BY <1>4, <1>9, <1>12, LenProperties
  <2> QED BY <1>4, <1>10, <2>1
<1>14. k \in 0 .. Len(rem)
  BY <1>10, <1>13
<1>15. /\ SubSeq(Unread(rd), 1, k) = SubSeq(rem, 1, k)
       /\ After(Unread(rd), k) = After(rem, k) \o x
       /\ After(rem, k) \in Seq(Tokens) /\ Len(After(rem, k)) = Len(rem) - k
  BY <1>8, <1>14, TakeFrom
<1>16. o.v = SubSeq(rem, 1, k) /\ Unread(rd') = After(rem, k) \o x
  BY <1>1, <1>9, <1>12, <1>15
<1>17. /\ cs'.isInline = cs.isInline /\ cs'.inline = cs.inline /\ cs'.nargs = cs.nargs
       /\ cs'.pos = cs.pos /\ cs'.arg = l - k
  <2>1. cs' = [cs EXCEPT !.arg = l - k]
    BY <1>1, <1>9
  <2> QED BY <1>3, <2>1 DEF Streams
<1>18. cs.pos <= cs.nargs
  <2>1. cs.pos <= cs.nargs + Len(cs.inline) /\ Len(cs.inline) = 0
    BY <1>3, EmptySeq DEF Types, Streaming
  <2> QED BY <1>3, <2>1
<1>19. PICK args, p : args = Tail(Commands[Len(got)].args) /\ p = cs.pos
  OBVIOUS
<1>20. Tail((Commands')[Len(got')].args) = args
  BY <1>2, <1>5, <1>19
<1>21. /\ data' = [data EXCEPT ![p] = Counted(@, o.v, Reported(k, l - k))]
       /\ alone' = IF l = 1 THEN alone \cup {p} ELSE alone
  BY <1>1, <1>2, <1>3, <1>9, <1>19
<1>22. NoBlank => HasGot(args, bs, After(rem, k))'
  <2> SUFFICES ASSUME NoBlank
               PROVE  HasGot(args, bs, After(rem, k))'
    OBVIOUS
  <2>1. HasGot(args, bs, rem)
    BY <1>7, <1>19
  <2>2. p = cs.pos /\ p \in Nat /\ p > 0 /\ p <= cs.nargs /\ Len(data) = p
    BY <1>3, <1>18, <1>19
  <2>3. PICK v : v = o.v
    OBVIOUS
  <2>4. v = SubSeq(rem, 1, k) /\ v \in Seq(ArgBytes) /\ Len(v) = k
    BY <1>9, <1>12, <1>16, <2>3
  <2>5. /\ data' = [data EXCEPT ![p] = Counted(@, v, Reported(k, l - k))]
        /\ alone' = IF l = 1 THEN alone \cup {p} ELSE alone
    BY <1>21, <2>3
  <2> QED BY <1>3, <1>9, <1>10, <1>13, <1>17, <2>1, <2>2, <2>4, <2>5, ReadGets
<1>23. PICK z : z = After(rem, k)
  OBVIOUS
<1>24. NoBlank => HasGot(Tail(Commands[Len(got)].args), bs, z)'
  BY <1>20, <1>22, <1>23, Zenon DEF HasGot
<1>25. LeftOf(cs') = LeftOf(cs)
  BY <1>17 DEF LeftOf
<1>26. /\ Unread(rd') = z \o (BulksBytes(bs) \o BytesLeft(requests', i))
       /\ Len(bs) = LeftOf(cs') /\ Len(z) = cs'.arg /\ z \in Seq(Tokens)
       /\ cs'.isInline => cs'.arg = 0
       /\ ~cs'.isInline => cs'.inline = <<>>
       /\ cs'.nargs = 0 \/ cs'.inline = <<>>
  BY <1>2, <1>3, <1>7, <1>10, <1>15, <1>16, <1>17, <1>23, <1>25 DEF x
<1>27. NoBlank => Progress(i, Len(got))' /\ Len(names') = Len(got') /\ Len(got') >= 1
  BY <1>2, <1>5, <1>7 DEF Progress
<1>28. AtHandler'
  BY <1>5, <1>24, <1>26, <1>27, Zenon DEF AtHandler
<1>29. pc' = "handler" /\ Tidy(rd')
  BY <1>1, <1>2, <1>12
<1> QED
  BY <1>3, <1>5, <1>6, <1>28, <1>29 DEF Aligned

LEMMA DiscardAligned ==
    ASSUME Types, WellFormed, Aligned, Discard
    PROVE  Aligned'
<1>1. /\ pc = "handler" /\ pc' = "discard" /\ requests' = requests /\ got' = got /\ names' = names
      /\ offset' = offset
  BY DEF Discard, loopVars
<1>2. /\ rd \in Readers /\ Tidy(rd) /\ Requested /\ offset' = 0 /\ (NoBlank => ReadBack)
      /\ cs \in Streams /\ cs.pos \in Nat /\ cs.nargs \in Nat /\ cs.arg \in Nat
      /\ cs.inline \in Seq(Seq(ArgBytes)) /\ Len(cs.inline) \in Nat
      /\ cs.isInline => cs.arg = 0
      /\ cs.nargs = 0 \/ cs.inline = <<>>
  BY <1>1, HandlerIs
<1>3. Commands' = Commands /\ (NoBlank' <=> NoBlank) /\ Indices' = Indices
  BY <1>1, CommandsKept
<1>4. NoBlank => ReadBack'
  BY <1>1, <1>2, ReadBackKept
<1>5. PICK i \in Indices, bs \in Seq(Seq(ArgBytes)), rem \in Seq(Tokens) :
        /\ Unread(rd) = rem \o (BulksBytes(bs) \o BytesLeft(requests, i))
        /\ Len(bs) = LeftOf(cs) /\ Len(rem) = cs.arg
        /\ NoBlank => Progress(i, Len(got)) /\ Len(names) = Len(got)
  BY <1>1, Zenon DEF Aligned, AtHandler
<1> DEFINE x == BulksBytes(bs) \o BytesLeft(requests, i)
<1>6. Begins(Unread(rd), rem, x)
  BY <1>2, <1>5, HandlerBytes
<1> HIDE DEF x
<1>7. /\ Len(rem) <= Len(Unread(rd)) /\ After(Unread(rd), Len(rem)) = x /\ x \in Seq(Tokens)
  BY <1>6, BeginsIs
<1>8. cs.arg = 0 => Unread(rd) = x
  <2>1. Unread(rd) \in Seq(Tokens)
    BY <1>6, BeginsIs
  <2>2. After(Unread(rd), 0) = Unread(rd)
    BY <2>1, AfterNone
  <2> QED BY <1>5, <1>7, <2>2
<1>9. /\ Tidy(rd') /\ Unread(rd') = x /\ LeftOf(cs') = LeftOf(cs)
  <2>1. CASE cs.isInline /\ More
    <3>1. cs' = [cs EXCEPT !.pos = ArgN] /\ rd' = rd
      BY <2>1 DEF Discard
    <3>2. ArgN = Len(cs.inline) /\ cs.pos < Len(cs.inline)
      BY <2>1 DEF More, ArgN
    <3>3. cs.inline # <<>> /\ cs.nargs = 0
      BY <1>2, <3>2, NotEmpty
    <3>4. cs'.nargs = 0 /\ cs'.pos = Len(cs.inline)
      BY <1>2, <3>1, <3>2, <3>3 DEF Streams
    <3>5. ~(cs'.pos < cs'.nargs) /\ ~(cs.pos < cs.nargs)
      BY <1>2, <3>3, <3>4
    <3>6. LeftOf(cs') = LeftOf(cs)
      BY <3>5 DEF LeftOf
    <3> QED BY <1>2, <1>8, <2>1, <3>1, <3>6
  <2>2. CASE ~(cs.isInline /\ More)
    <3>1. /\ cs' = [cs EXCEPT !.arg = 0]
          /\ IF cs.arg > 0 THEN \E o \in skipN(rd, cs.arg) : rd' = o.s ELSE rd' = rd
      BY <2>2 DEF Discard
    <3>2. cs'.nargs = cs.nargs /\ cs'.pos = cs.pos
      BY <1>2, <3>1 DEF Streams
    <3>3. LeftOf(cs') = LeftOf(cs)
      BY <3>2 DEF LeftOf
    <3>4. CASE cs.arg > 0
      <4>1. PICK o \in skipN(rd, cs.arg) : rd' = o.s
        BY <3>1, <3>4
      <4>2. rd.over = 0 /\ cs.arg <= Len(Unread(rd))
        BY <1>2, <1>5, <1>7 DEF Tidy
      <4>3. Unread(o.s) = After(Unread(rd), cs.arg) /\ Tidy(o.s)
        BY <1>2, <4>2, skipNIs
      <4> QED BY <1>5, <1>7, <3>3, <4>1, <4>3
    <3>5. CASE ~(cs.arg > 0)
      <4>1. rd' = rd
        BY <3>1, <3>5
      <4>2. cs.arg = 0
        BY <1>2, <3>5
      <4> QED BY <1>2, <1>8, <3>3, <4>1, <4>2
    <3> QED BY <3>4, <3>5
  <2> QED BY <2>1, <2>2
<1>10. Unread(rd') = BulksBytes(bs) \o BytesLeft(requests', i) /\ Len(bs) = LeftOf(cs')
  BY <1>1, <1>5, <1>9 DEF x
<1>11. NoBlank => Progress(i, Len(got))' /\ Len(names') = Len(got')
  BY <1>1, <1>3, <1>5 DEF Progress
<1>12. AtDiscard'
  BY <1>3, <1>10, <1>11, Zenon DEF AtDiscard
<1> QED
  BY <1>1, <1>2, <1>3, <1>4, <1>9, <1>12 DEF Aligned

LEMMA DiscardIs ==
    ASSUME Types, WellFormed, Aligned, pc = "discard"
    PROVE  /\ rd \in Readers /\ Tidy(rd) /\ Requested /\ offset = 0 /\ (NoBlank => ReadBack)
           /\ cs \in Streams /\ cs.pos \in Nat /\ cs.nargs \in Nat /\ AtDiscard
<1>1. rd \in Readers /\ cs \in Streams
  BY DEF Types, Reading, Streaming
<1>2. cs.pos \in Nat /\ cs.nargs \in Nat
  BY <1>1 DEF Streams
<1> QED
  BY <1>1, <1>2 DEF Aligned, WellFormed

LEMMA DiscardArgAligned ==
    ASSUME Types, WellFormed, Aligned, DiscardArg, rd'.whole
    PROVE  Aligned'
<1>1. PICK o \in SkipBulk(rd) : rd' = o.s /\ pc' = IF o.e = "panic" THEN "panic" ELSE pc
  BY DEF DiscardArg
<1>2. /\ pc = "discard" /\ cs.pos < cs.nargs /\ requests' = requests /\ got' = got /\ names' = names
      /\ offset' = offset /\ cs' = [cs EXCEPT !.pos = @ + 1]
  BY DEF DiscardArg, loopVars
<1>3. /\ rd \in Readers /\ Tidy(rd) /\ Requested /\ offset' = 0 /\ (NoBlank => ReadBack)
      /\ cs \in Streams /\ cs.pos \in Nat /\ cs.nargs \in Nat /\ AtDiscard
  BY <1>2, DiscardIs
<1>4. Commands' = Commands /\ (NoBlank' <=> NoBlank) /\ Indices' = Indices
  BY <1>2, CommandsKept
<1>5. NoBlank => ReadBack'
  BY <1>2, <1>3, ReadBackKept
<1>6. PICK i \in Indices, bs \in Seq(Seq(ArgBytes)) :
        /\ Unread(rd) = BulksBytes(bs) \o BytesLeft(requests, i) /\ Len(bs) = LeftOf(cs)
        /\ NoBlank => Progress(i, Len(got)) /\ Len(names) = Len(got)
  BY <1>3, Zenon DEF AtDiscard
<1>7. LeftOf(cs) = cs.nargs - cs.pos /\ LeftOf(cs) > 0 /\ LeftOf(cs) \in Nat
  BY <1>2, <1>3 DEF LeftOf
<1>8. bs # <<>>
  BY <1>6, <1>7, NotEmpty
<1> DEFINE rest == BulksBytes(Tail(bs)) \o BytesLeft(requests, i)
<1>9. /\ Begins(Unread(rd), BulkBytes(Head(bs)), rest)
      /\ Head(bs) \in Seq(ArgBytes) /\ Tail(bs) \in Seq(Seq(ArgBytes))
      /\ Len(Tail(bs)) = Len(bs) - 1
  BY <1>3, <1>6, <1>8, BulkNext
<1> HIDE DEF rest
<1>10. o.e = "ok" /\ Tidy(o.s) /\ Unread(o.s) = rest
  BY <1>1, <1>3, <1>9, SkipBulkWhole
<1>11. cs'.nargs = cs.nargs /\ cs'.pos = cs.pos + 1
  BY <1>2, <1>3 DEF Streams
<1>12. LeftOf(cs') = Len(Tail(bs))
  <2> DEFINE l == Len(bs)
             t == Len(Tail(bs))
  <2>1. l = cs.nargs - cs.pos /\ t = l - 1
    BY <1>6, <1>7, <1>9
  <2> HIDE DEF l, t
  <2>2. LeftOf(cs') = t
    BY <1>2, <1>3, <1>11, <2>1 DEF LeftOf
  <2> QED BY <2>2 DEF t
<1>13. /\ Unread(rd') = BulksBytes(Tail(bs)) \o BytesLeft(requests', i) /\ Tidy(rd')
       /\ pc' = "discard"
  BY <1>1, <1>2, <1>10 DEF rest
<1>14. NoBlank => Progress(i, Len(got))' /\ Len(names') = Len(got')
  BY <1>2, <1>4, <1>6 DEF Progress
<1>15. AtDiscard'
  BY <1>4, <1>9, <1>12, <1>13, <1>14, Zenon DEF AtDiscard
<1> QED
  BY <1>3, <1>4, <1>5, <1>13, <1>15 DEF Aligned

LEMMA DiscardDoneAligned ==
    ASSUME Types, WellFormed, Aligned, DiscardDone
    PROVE  Aligned'
<1>1. /\ pc = "discard" /\ cs.pos >= cs.nargs /\ requests' = requests /\ got' = got /\ names' = names
      /\ offset' = offset /\ rd' = rd /\ pc' = "peek"
  BY DEF DiscardDone, loopVars
<1>2. /\ rd \in Readers /\ Tidy(rd) /\ Requested /\ offset' = 0 /\ (NoBlank => ReadBack)
      /\ cs.pos \in Nat /\ cs.nargs \in Nat /\ AtDiscard
  BY <1>1, DiscardIs
<1>3. NoBlank' <=> NoBlank
  BY <1>1, CommandsKept
<1>4. NoBlank => ReadBack'
  BY <1>1, <1>2, ReadBackKept
<1>5. PICK i \in Indices, bs \in Seq(Seq(ArgBytes)) :
        /\ Unread(rd) = BulksBytes(bs) \o BytesLeft(requests, i) /\ Len(bs) = LeftOf(cs)
        /\ NoBlank => Progress(i, Len(got)) /\ Len(names) = Len(got)
  BY <1>2, Zenon DEF AtDiscard
<1>6. Len(bs) = 0
  <2>1. ~(cs.pos < cs.nargs)
    BY <1>1, <1>2
  <2> QED BY <1>5, <2>1 DEF LeftOf
<1>7. Unread(rd') = BytesLeft(requests, i)
  BY <1>1, <1>2, <1>5, <1>6, NoBulks
<1>8. NoBlank => Progress(i, Len(got')) /\ Len(names') = Len(got')
  BY <1>1, <1>5
<1>9. AtPeek'
  BY <1>1, <1>2, <1>7, <1>8, PeekNext
<1> QED
  BY <1>1, <1>2, <1>3, <1>4, <1>9 DEF Aligned

LEMMA StutterAligned ==
    ASSUME Aligned, UNCHANGED vars
    PROVE  Aligned'
<1>1. UNCHANGED <<requests, rd, pc, offset, parts, left, names, got, cs, data, alone, orderly>>
  BY DEF vars, readerVars, loopVars, streamVars
<1>2. Commands' = Commands /\ (NoBlank' <=> NoBlank) /\ Indices' = Indices
  BY <1>1, CommandsKept
<1>3. ReadBack => ReadBack'
  BY <1>1, ReadBackKept
<1>4. AtPeek => AtPeek'
  BY <1>1, <1>2 DEF AtPeek, Progress
<1>5. AtCommand => AtCommand'
  BY <1>1, <1>2 DEF AtCommand, Progress
<1>6. AtSkip => AtSkip'
  BY <1>1, <1>2 DEF AtSkip, Progress
<1>7. AtArgs => AtArgs'
  BY <1>1, <1>2 DEF AtArgs, Progress
<1>8. AtBulks => AtBulks'
  BY <1>1, <1>2 DEF AtBulks, Progress
<1>9. AtHandler => AtHandler'
  BY <1>1, <1>2, Zenon DEF AtHandler, HasGot, Progress
<1>10. AtDiscard => AtDiscard'
  BY <1>1, <1>2 DEF AtDiscard, Progress
<1> QED
  BY <1>1, <1>2, <1>3, <1>4, <1>5, <1>6, <1>7, <1>8, <1>9, <1>10, Zenon DEF Aligned

LEMMA NextAligned ==
    ASSUME Types, Types', Apart, WellFormed, WellFormed', Aligned, Next
    PROVE  Aligned'
<1>1. rd'.whole /\ orderly' /\ rd' \in Readers
  BY DEF WellFormed, Types, Reading
<1>2. CASE ReaderNext /\ UNCHANGED streamVars
  <2>1. CASE PeekCmd
    BY <1>1, <1>2, <2>1, PeekCmdAligned
  <2>2. CASE ReadCmd
    BY <1>1, <1>2, <2>2, ReadCmdAligned
  <2>3. CASE ReadArg
    BY <1>1, <1>2, <2>3, ReadArgAligned
  <2>4. CASE ReadDone
    BY <1>2, <2>4, ReadDoneAligned
  <2>5. CASE SkipCmd
    BY <1>1, <1>2, <2>5, SkipCmdAligned
  <2>6. CASE SkipArg
    BY <1>1, <1>2, <2>6, SkipArgAligned
  <2> QED BY <1>2, <2>1, <2>2, <2>3, <2>4, <2>5, <2>6 DEF ReaderNext
<1>3. CASE StreamNext
  <2>1. CASE StreamCmd
    BY <1>1, <2>1, StreamCmdAligned
  <2>2. CASE NextArg
    BY <1>1, <2>2, NextArgAligned
  <2>3. ASSUME NEW m \in 1 .. MaxRead, Read(m) PROVE Aligned'
    BY <2>3, ReadAligned
  <2>4. CASE Discard
    BY <2>4, DiscardAligned
  <2>5. CASE DiscardArg
    BY <1>1, <2>5, DiscardArgAligned
  <2>6. CASE DiscardDone
    BY <2>6, DiscardDoneAligned
  <2> QED BY <1>3, <2>1, <2>2, <2>3, <2>4, <2>5, <2>6 DEF StreamNext
<1> QED
  BY <1>2, <1>3 DEF Next

LEMMA StepIInv ==
    ASSUME IInv, [Next]_vars
    PROVE  IInv'
<1>1. Types /\ Apart
  BY DEF IInv
<1>4. Types' /\ Apart'
  BY <1>1, StepTypes
<1>2. CASE Next
  <2>1. Types' /\ (rd'.whole => rd.whole) /\ (orderly' => orderly) /\ requests' = requests
    BY <1>1, <1>2, NextTypes
  <2>2. WellFormed' => WellFormed
    BY <2>1, Zenon DEF WellFormed, Requested
  <2>3. WellFormed' => Aligned'
    BY <1>1, <1>2, <2>1, <2>2, NextAligned DEF IInv
  <2> QED BY <1>4, <2>3 DEF IInv
<1>3. CASE UNCHANGED vars
  <2>2. requests' = requests /\ rd' = rd /\ orderly' = orderly
    BY <1>3 DEF vars, readerVars, streamVars
  <2>3. WellFormed' => WellFormed
    BY <2>2, Zenon DEF WellFormed, Requested
  <2>4. WellFormed' => Aligned'
    BY <1>3, <2>3, StutterAligned DEF IInv
  <2> QED BY <1>4, <2>4 DEF IInv
<1> QED
  BY <1>2, <1>3

\* On every connection, as long as its client sends requests in whole lines and
\* no handler leaves an argument in the middle, the reader is inside the request
\* that is being performed, and what it has not read is the rest of that request
\* and the requests after it (Client.pipeline, Server.perform).
THEOREM ReaderInside == Spec => []IInv
<1>1. Init => IInv
  BY InitTypes, InitApart, InitAligned DEF IInv
<1>2. IInv /\ [Next]_vars => IInv'
  BY StepIInv
<1> QED
  BY <1>1, <1>2, PTL DEF Spec

LEMMA PlainIs ==
    ASSUME IInv, Plain
    PROVE  Types /\ WellFormed /\ Aligned /\ NoBlank
BY DEF IInv, Plain, NoBlank

LEMMA ReadBackHolds == IInv => CommandsReadBack
<1> SUFFICES ASSUME IInv, Plain
             PROVE  /\ Len(names) <= Len(Commands)
                    /\ \A i \in DOMAIN names : names[i] = Commands[i].args[1]
                    /\ \A i \in DOMAIN got : got[i] \in {<<>>, Commands[i].args}
  BY DEF CommandsReadBack
<1>1. Aligned /\ NoBlank
  BY PlainIs
<1> QED
  BY <1>1 DEF Aligned, ReadBack

LEMMA AlignedHolds == IInv => RequestAligned
<1> SUFFICES ASSUME IInv, WellFormed, pc = "peek"
             PROVE  \E i \in 0 .. Len(requests) :
                       /\ Unread(rd) = AllBytes(After(requests, i))
                       /\ Plain => After(Commands, Len(got)) = CommandsOf(After(requests, i))
  BY DEF RequestAligned
<1>1. AtPeek
  BY DEF IInv, Aligned
<1>2. PICK i \in Indices : /\ Unread(rd) = BytesLeft(requests, i)
                           /\ NoBlank => Progress(i, Len(got))
  BY <1>1, Zenon DEF AtPeek
<1>3. Plain => NoBlank
  BY DEF Plain, NoBlank
<1> QED
  BY <1>2, <1>3, Zenon DEF Progress, BytesLeft, CommandsLeft, Indices

LEMMA AcceptedHolds == IInv => WellFormedAccepted
<1> SUFFICES ASSUME IInv, WellFormed
             PROVE  /\ pc \notin {"bad", "panic"}
                    /\ pc = "end" /\ Plain => Len(got) = Len(Commands)
  BY DEF WellFormedAccepted
<1>1. Aligned
  BY DEF IInv
<1>2. Plain => NoBlank
  BY DEF Plain, NoBlank
<1> QED
  BY <1>1, <1>2 DEF Aligned

LEMMA PrefixIs ==
    ASSUME NEW S, NEW x \in Seq(S), NEW a \in Seq(S), Len(x) <= Len(a),
           \A j \in 1 .. Len(x) : x[j] = a[j]
    PROVE  IsPrefix(x, a)
<1> DEFINE l == Len(x)
           m == Len(a)
           b == SubSeq(a, 1, l)
           c == SubSeq(x, 1, l)
<1>1. l \in Nat /\ m \in Nat /\ l <= m
  BY LenProperties
<1>2. l \in 0 .. m /\ l \in 0 .. l
  <2> HIDE DEF l, m
  <2> QED BY <1>1
<1>3. b \in Seq(S) /\ Len(b) = l /\ \A j \in 1 .. l : b[j] = a[j]
  BY <1>2, UptoIs
<1>4. c \in Seq(S) /\ Len(c) = l /\ \A j \in 1 .. l : c[j] = x[j]
  BY <1>2, UptoIs
<1> HIDE DEF b, c
<1>5. \A j \in 1 .. l : c[j] = b[j]
  BY <1>3, <1>4
<1>6. Len(c) = Len(b) /\ Len(c) = l
  BY <1>3, <1>4
<1>7. c = b
  BY <1>3, <1>4, <1>5, <1>6, SeqEqual
<1> QED
  BY <1>7 DEF IsPrefix, b, c

\* The rest of a bulk has the bytes that end it.
LEMMA PartIsPrefix ==
    ASSUME NEW u, NEW x, NEW r, NEW a, NEW e, Begins(u, x, r), Begins(u, a, e), Len(r) >= Len(e)
    PROVE  IsPrefix(x, a)
<1> DEFINE lx == Len(x)
           lr == Len(r)
           la == Len(a)
           le == Len(e)
<1>1. /\ lx \in Nat /\ lr \in Nat /\ Len(u) = lx + lr /\ x \in Seq(Tokens)
      /\ \A j \in 1 .. lx : u[j] = x[j]
  BY BeginsIs
<1>2. /\ la \in Nat /\ le \in Nat /\ Len(u) = la + le /\ a \in Seq(Tokens)
      /\ \A j \in 1 .. la : u[j] = a[j]
  BY BeginsIs
<1>3. lr >= le
  OBVIOUS
<1> HIDE DEF lx, lr, la, le
<1>4. lx <= la
  BY <1>1, <1>2, <1>3
<1>5. ASSUME NEW j \in 1 .. lx PROVE x[j] = a[j]
  <2>1. j \in 1 .. la
    BY <1>1, <1>2, <1>4
  <2> QED BY <1>1, <1>2, <2>1
<1> QED
  BY <1>1, <1>2, <1>4, <1>5, PrefixIs DEF lx, la

LEMMA ReadOutIsPrefix ==
    ASSUME NEW S, NEW a \in Seq(S), NEW lf
    PROVE  IsPrefix(ReadOut(a, lf), a)
<1>1. PICK x, m : x = ReadOut(a, lf) /\ m = Len(a)
  OBVIOUS
<1>2. m \in Nat
  BY <1>1, LenProperties
<1>3. CASE ~lf
  <2>1. x = a /\ Len(x) <= Len(a)
    BY <1>1, <1>2, <1>3 DEF ReadOut
  <2> QED BY <1>1, <2>1, PrefixIs
<1>4. CASE lf /\ m = 0
  <2>1. x = <<>>
    BY <1>1, <1>4 DEF ReadOut
  <2>2. x \in Seq(S) /\ Len(x) = 0 /\ Len(x) <= Len(a) /\ \A j \in 1 .. Len(x) : x[j] = a[j]
    BY <1>1, <1>2, <2>1, EmptySeq
  <2> QED BY <1>1, <2>2, PrefixIs
<1>5. CASE lf /\ m # 0
  <2>1. m - 1 \in 0 .. m
    BY <1>2, <1>5
  <2>2. x = SubSeq(a, 1, m - 1)
    BY <1>1, <1>5 DEF ReadOut
  <2>3. x \in Seq(S) /\ Len(x) = m - 1 /\ \A j \in 1 .. m - 1 : x[j] = a[j]
    BY <1>1, <2>1, <2>2, UptoIs
  <2>4. Len(x) <= Len(a) /\ \A j \in 1 .. Len(x) : x[j] = a[j]
    BY <1>1, <1>2, <2>3
  <2> QED BY <1>1, <2>3, <2>4, PrefixIs
<1> QED
  BY <1>3, <1>4, <1>5

LEMMA DeliveredHolds == IInv => ArgumentsDelivered
<1> SUFFICES ASSUME IInv, Plain, pc = "handler"
             PROVE  LET args == Tail(Commands[Len(got)].args)
                    IN  /\ Len(data) <= Len(args)
                        /\ \A i \in DOMAIN data : IsPrefix(data[i], args[i])
                        /\ Drained => \A i \in DOMAIN data : data[i] = ReadOut(args[i], i \in alone)
  BY DEF ArgumentsDelivered, ReadOut
<1>1. Types /\ WellFormed /\ Aligned /\ NoBlank
  BY PlainIs
<1>2. /\ cs.pos \in Nat /\ cs.nargs \in Nat /\ cs.arg \in Nat
      /\ cs.inline \in Seq(Seq(ArgBytes)) /\ Len(cs.inline) \in Nat
      /\ data \in Seq(Seq(ArgBytes)) /\ Len(data) = cs.pos
      /\ ~cs.isInline => cs.inline = <<>>
  BY <1>1, HandlerIs
<1>3. PICK args : args = Tail(Commands[Len(got)].args)
  OBVIOUS
<1>4. PICK bs \in Seq(Seq(ArgBytes)), rem \in Seq(Tokens) : Len(rem) = cs.arg /\ HasGot(args, bs, rem)
  <2>1. AtHandler
    BY <1>1 DEF Aligned
  <2>2. PICK bs \in Seq(Seq(ArgBytes)), rem \in Seq(Tokens) :
          /\ Len(rem) = cs.arg
          /\ NoBlank => HasGot(Tail(Commands[Len(got)].args), bs, rem)
    BY <2>1, Zenon DEF AtHandler
  <2>3. HasGot(args, bs, rem)
    BY <1>1, <1>3, <2>2
  <2> QED BY <2>2, <2>3
<1>5. PICK p : p = cs.pos
  OBVIOUS
<1>6. p \in Nat /\ Len(data) = p /\ DOMAIN data = 1 .. p
  BY <1>2, <1>5, LenProperties
<1>7. args \in Seq(Seq(ArgBytes)) /\ p \in 0 .. Len(args)
  <2>1. cs.pos <= cs.nargs + Len(cs.inline)
    BY <1>1 DEF Types, Streaming
  <2>2. CASE cs.isInline
    <3>1. cs.inline = args /\ cs.nargs = 0
      BY <1>4, <2>2 DEF HasGot
    <3> QED BY <1>2, <1>5, <2>1, <3>1
  <2>3. CASE ~cs.isInline
    <3>1. args \in Seq(Seq(ArgBytes)) /\ cs.nargs = Len(args) /\ Len(cs.inline) = 0
      BY <1>2, <1>4, <2>3, EmptySeq DEF HasGot
    <3> QED BY <1>2, <1>5, <2>1, <3>1
  <2> QED BY <2>2, <2>3
<1>8. \A j \in 1 .. p : data[j] \in Seq(ArgBytes) /\ args[j] \in Seq(ArgBytes)
  <2> DEFINE n == Len(args)
  <2>1. n \in Nat /\ p \in 0 .. n
    BY <1>7, LenProperties
  <2>2. \A j \in 1 .. p : j \in 1 .. n
    <3> HIDE DEF n
    <3> QED BY <1>6, <2>1
  <2> QED BY <1>2, <1>6, <1>7, <2>2, ElementOfSeq
<1>9. ASSUME NEW j \in 1 .. p, cs.isInline \/ j < p \/ cs.arg < 2
      PROVE  data[j] = ReadOut(args[j], j \in alone)
  <2>1. CASE cs.isInline
    <3>1. data = SubSeq(args, 1, p) /\ alone = {}
      BY <1>4, <1>5, <2>1 DEF HasGot
    <3>2. \A k \in 1 .. p : SubSeq(args, 1, p)[k] = args[k]
      BY <1>7, UptoIs
    <3> QED BY <3>1, <3>2 DEF ReadOut
  <2>2. CASE ~cs.isInline
    BY <1>4, <1>5, <1>9, <2>2 DEF HasGot
  <2> QED BY <2>1, <2>2
<1>10. ASSUME NEW j \in 1 .. p
       PROVE  IsPrefix(data[j], args[j])
  <2>1. CASE cs.isInline \/ j < p \/ cs.arg < 2
    <3>1. PICK x : x = data[j]
      OBVIOUS
    <3>2. x = ReadOut(args[j], j \in alone)
      BY <1>9, <2>1, <3>1
    <3>3. args[j] \in Seq(ArgBytes)
      BY <1>8
    <3> QED BY <3>1, <3>2, <3>3, ReadOutIsPrefix
  <2>2. CASE ~(cs.isInline \/ j < p \/ cs.arg < 2)
    <3>1. j = p /\ cs.arg >= 2 /\ ~cs.isInline
      BY <1>2, <1>6, <2>2
    <3>2. data[j] \o rem = args[j] \o BulkEnd
      BY <1>4, <1>5, <3>1 DEF HasGot
    <3>3. PICK x, a, u : x = data[j] /\ a = args[j] /\ u = args[j] \o BulkEnd
      OBVIOUS
    <3>4. x \in Seq(ArgBytes) /\ a \in Seq(ArgBytes)
      BY <1>8, <3>3
    <3>5. u = a \o BulkEnd /\ u = x \o rem
      BY <3>2, <3>3
    <3>6. x \in Seq(Tokens) /\ a \in Seq(Tokens) /\ BulkEnd \in Seq(Tokens) /\ Len(BulkEnd) = 2
          /\ a \o BulkEnd \in Seq(Tokens)
      BY <3>4, ArgIs, BulkIs, BulkEndIs
    <3>7. Begins(u, x, rem) /\ Begins(u, a, BulkEnd)
      BY <3>5, <3>6, Zenon DEF Begins
    <3>8. Len(rem) >= Len(BulkEnd)
      BY <1>4, <3>1, <3>6
    <3>9. IsPrefix(x, a)
      BY <3>7, <3>8, PartIsPrefix
    <3> QED BY <3>3, <3>9
  <2> QED BY <2>1, <2>2
<1>11. Drained => \A j \in 1 .. p : data[j] = ReadOut(args[j], j \in alone)
  <2>1. Drained => cs.arg < 2
    BY DEF Drained
  <2> QED BY <1>9, <2>1
<1>12. Len(data) <= Len(args)
  <2> DEFINE n == Len(args)
  <2>1. n \in Nat /\ p \in 0 .. n
    BY <1>7, LenProperties
  <2>2. p <= n
    <3> HIDE DEF n
    <3> QED BY <2>1
  <2> QED BY <1>6, <2>2
<1> QED
  BY <1>3, <1>6, <1>10, <1>11, <1>12, Zenon

\* However the bytes are cut between lines, PeekCmd sees the names of the commands
\* sent, in order, and ReadCmd gets exactly their arguments.
THEOREM CommandsAreReadBack == Spec => []CommandsReadBack
BY ReaderInside, ReadBackHolds, PTL

\* Between two commands the reader is at the first byte of a request, and the
\* commands not yet performed are those among the requests left, whatever a
\* handler has read of its arguments.
THEOREM RequestsAreAligned == Spec => []RequestAligned
BY ReaderInside, AlignedHolds, PTL

\* A well-formed request is never answered by an error, no slice is out of range
\* while it is read, and the connection ends only when every command has been
\* performed.
THEOREM RequestsAreAccepted == Spec => []WellFormedAccepted
BY ReaderInside, AcceptedHolds, PTL

\* A stream handler, reading in pieces of any size, gets the bytes of its
\* arguments and never those that end a bulk (bulkReader.Read).
THEOREM ArgumentsAreDelivered == Spec => []ArgumentsDelivered
BY ReaderInside, DeliveredHolds, PTL
=============================================================================
