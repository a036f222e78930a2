------------------------ MODULE ResponseWriterProofs ------------------------
(***************************************************************************)
(* Proofs about ResponseWriter for any size of buffer and any sizes of     *)
(* bulks: the writes that succeed carry every byte once and in order.      *)
(*                                                                         *)
(* The argument is about the bytes without the field end, which says how a *)
(* client cuts segments: Plain(s) of a sequence s.                         *)
(***************************************************************************)
EXTENDS ResponseWriter, SequenceFacts

WKinds == {"*", "$", "+", ":", "r", "n", "data", "junk"}
WBytes == [k : WKinds, n : Nat, end : BOOLEAN]
Plains == WKinds \X Nat

\* t begins with s.
Begins(s, t) == \E r \in Seq(Plains) : t = s \o r

BytesTypeOK ==
    /\ buf \in Seq(WBytes) /\ out \in Seq(WBytes)
    /\ acked \in Seq(WBytes) /\ stream \in Seq(WBytes)

\* What was written and is pending, against the bytes of all calls.
Exact ==
    /\ whole /\ copied => Plain(acked) \o Plain(buf) = Plain(stream)
    /\ whole /\ ~retried => Begins(Plain(out), Plain(stream))
    /\ failures = 0 => out = acked /\ copied /\ ~retried

WriterInv == BytesTypeOK /\ TypeOK /\ Exact

(***************************************************************************)
(* Plain bytes                                                             *)
(***************************************************************************)
LEMMA PlainType ==
    ASSUME NEW s \in Seq(WBytes)
    PROVE  /\ Plain(s) \in Seq(Plains) /\ Len(Plain(s)) = Len(s) /\ Len(s) \in Nat
           /\ \A i \in 1 .. Len(s) : Plain(s)[i] = <<s[i].k, s[i].n>>
<1>1. DOMAIN s = 1 .. Len(s) /\ Len(s) \in Nat
  BY LenProperties
<1>2. \A i \in 1 .. Len(s) : s[i] \in WBytes
  BY ElementOfSeq
<1>3. \A i \in 1 .. Len(s) : <<s[i].k, s[i].n>> \in Plains
  BY <1>2 DEF WBytes, Plains
<1>4. Plain(s) \in [1 .. Len(s) -> Plains]
  BY <1>1, <1>3 DEF Plain
<1>5. \A i \in 1 .. Len(s) : Plain(s)[i] = <<s[i].k, s[i].n>>
  BY <1>1 DEF Plain
<1> HIDE DEF Plain
<1> QED
  BY <1>1, <1>4, <1>5, FunctionIsSeq

LEMMA PlainConcat ==
    ASSUME NEW s \in Seq(WBytes), NEW t \in Seq(WBytes)
    PROVE  s \o t \in Seq(WBytes) /\ Plain(s \o t) = Plain(s) \o Plain(t)
<1> DEFINE u == s \o t
           a == Plain(u)
           b == Plain(s) \o Plain(t)
           l == Len(s)
           m == Len(t)
<1>1. /\ u \in Seq(WBytes) /\ Len(u) = l + m /\ l \in Nat /\ m \in Nat
      /\ \A i \in 1 .. l + m : u[i] = IF i <= l THEN s[i] ELSE t[i - l]
  BY ConcatProperties, LenProperties
<1>2. /\ Plain(s) \in Seq(Plains) /\ Len(Plain(s)) = l
      /\ Plain(t) \in Seq(Plains) /\ Len(Plain(t)) = m
      /\ \A i \in 1 .. l : Plain(s)[i] = <<s[i].k, s[i].n>>
      /\ \A i \in 1 .. m : Plain(t)[i] = <<t[i].k, t[i].n>>
  BY PlainType
<1> HIDE DEF u, l, m, Plain
<1>3. /\ b \in Seq(Plains) /\ Len(b) = l + m
      /\ \A i \in 1 .. l + m : b[i] = IF i <= l THEN Plain(s)[i] ELSE Plain(t)[i - l]
  <2> DEFINE x == Plain(s)
             y == Plain(t)
  <2>1. x \in Seq(Plains) /\ y \in Seq(Plains) /\ Len(x) = l /\ Len(y) = m
    BY <1>2
  <2> HIDE DEF x, y
  <2>2. /\ x \o y \in Seq(Plains) /\ Len(x \o y) = Len(x) + Len(y)
        /\ \A i \in 1 .. Len(x) + Len(y) :
              (x \o y)[i] = IF i <= Len(x) THEN x[i] ELSE y[i - Len(x)]
    BY <2>1, ConcatProperties
  <2>3. x \o y = b
    BY DEF x, y
  <2> HIDE DEF b
  <2> QED
    BY <2>1, <2>2, <2>3 DEF x, y
<1> HIDE DEF b
<1>4. /\ a \in Seq(Plains) /\ Len(a) = l + m
      /\ \A i \in 1 .. l + m : a[i] = <<u[i].k, u[i].n>>
  BY <1>1, PlainType
<1> HIDE DEF a
<1>5. ASSUME NEW i \in 1 .. l + m PROVE a[i] = b[i]
  <2>1. CASE i <= l
    <3>1. i \in 1 .. l /\ u[i] = s[i] /\ b[i] = Plain(s)[i]
      BY <1>1, <1>3, <2>1
    <3> QED
      BY <1>2, <1>4, <3>1
  <2>2. CASE ~(i <= l)
    <3>1. i - l \in 1 .. m /\ u[i] = t[i - l] /\ b[i] = Plain(t)[i - l]
      BY <1>1, <1>3, <2>2
    <3> QED
      BY <1>2, <1>4, <3>1
  <2> QED
    BY <2>1, <2>2
<1>6. a = b
  BY <1>3, <1>4, <1>5, SeqEqual
<1> QED
  BY <1>1, <1>6 DEF a, b, u

LEMMA BeginsIsPrefix ==
    ASSUME NEW s \in Seq(Plains), NEW t \in Seq(Plains), Begins(s, t)
    PROVE  IsPrefix(s, t)
<1>1. PICK r \in Seq(Plains) : t = s \o r
  BY DEF Begins
<1> DEFINE l == Len(s)
           u == SubSeq(t, 1, l)
<1>2. /\ l \in Nat /\ Len(r) \in Nat /\ Len(t) = l + Len(r)
      /\ \A i \in 1 .. l + Len(r) : t[i] = IF i <= l THEN s[i] ELSE r[i - l]
  BY <1>1, ConcatProperties, LenProperties
<1>3. \A i \in 1 .. l : t[i] = s[i] /\ t[i] \in Plains
  <2> SUFFICES ASSUME NEW i \in 1 .. l PROVE t[i] = s[i] /\ t[i] \in Plains
    OBVIOUS
  <2>1. s[i] \in Plains
    BY ElementOfSeq
  <2> HIDE DEF l
  <2>2. i \in 1 .. l + Len(r) /\ i <= l
    BY <1>2
  <2> QED
    BY <1>2, <2>1, <2>2
<1>4. /\ u \in Seq(Plains) /\ Len(u) = IF 1 <= l THEN l - 1 + 1 ELSE 0
      /\ \A i \in 1 .. l - 1 + 1 : u[i] = t[1 + i - 1]
  <2> HIDE DEF l
  <2>1. 1 \in Int /\ l \in Int
    BY <1>2
  <2> QED
    BY <1>3, <2>1, SubSeqProperties
<1> HIDE DEF l, u
<1>5. Len(u) = l /\ \A i \in 1 .. l : u[i] = t[i]
  BY <1>2, <1>4
<1>6. u = s
  BY <1>3, <1>4, <1>5, SeqEqual DEF l
<1>7. SubSeq(s, 1, l) = s
  BY SubSeqFull DEF l
<1>8. l <= Len(t)
  BY <1>2
<1> QED
  BY <1>6, <1>7, <1>8 DEF IsPrefix, u, l

\* What the model's byte strings are.
LEMMA ByteType ==
    ASSUME NEW p \in WKinds, NEW n \in Nat, NEW e \in BOOLEAN
    PROVE  Byte(p, n, e) \in WBytes
BY DEF Byte, WBytes

LEMMA BytesTyped ==
    /\ \A p \in WKinds, n \in Nat :
          Byte(p, n, FALSE) \in WBytes /\ Byte(p, n, TRUE) \in WBytes
    /\ CR \in WBytes /\ LF \in WBytes /\ Junk \in WBytes
<1>1. \A p \in WKinds, n \in Nat :
          Byte(p, n, FALSE) \in WBytes /\ Byte(p, n, TRUE) \in WBytes
  BY ByteType, Zenon
<1>2. "r" \in WKinds /\ "n" \in WKinds /\ "junk" \in WKinds /\ 0 \in Nat
  BY DEF WKinds
<1>3. CR \in WBytes /\ LF \in WBytes /\ Junk \in WBytes
  BY <1>1, <1>2, Zenon DEF CR, LF, Junk
<1> QED
  BY <1>1, <1>3

LEMMA PairType ==
    ASSUME NEW S, NEW x \in S, NEW y \in S
    PROVE  /\ <<x>> \in Seq(S) /\ Len(<<x>>) = 1
           /\ <<x, y>> \in Seq(S) /\ Len(<<x, y>>) = 2
<1>1. <<x>> \in Seq(S) /\ Len(<<x>>) = 1
  OBVIOUS
<1>2. <<x, y>> \in Seq(S)
  OBVIOUS
<1>3. Len(<<x, y>>) = 2
  OBVIOUS
<1> QED
  BY <1>1, <1>2, <1>3

LEMMA SizeBytesType ==
    ASSUME NEW p \in WKinds, NEW n \in Nat
    PROVE  SizeBytes(p, n) \in Seq(WBytes) /\ Len(SizeBytes(p, n)) = 3
<1>1. /\ Byte(p, n, FALSE) \in WBytes /\ CR \in WBytes /\ LF \in WBytes
  BY BytesTyped, Zenon
<1> DEFINE x == Byte(p, n, FALSE)
<1>2. SizeBytes(p, n) = <<x, CR, LF>>
  BY DEF SizeBytes
<1>3. x \in WBytes
  BY <1>1
<1> HIDE DEF x
<1>4. <<x, CR, LF>> \in Seq(WBytes) /\ Len(<<x, CR, LF>>) = 3
  BY <1>1, <1>3
<1> QED
  BY <1>2, <1>4

LEMMA CRLFType == CRLF \in Seq(WBytes) /\ Len(CRLF) = 2
<1>1. CR \in WBytes /\ LF \in WBytes
  BY BytesTyped
<1> QED
  BY <1>1, PairType, Zenon DEF CRLF

LEMMA ContentType ==
    ASSUME NEW n \in Nat
    PROVE  Content(n) \in Seq(WBytes) /\ Len(Content(n)) = n
<1>1. \A i \in 1 .. n : Byte("data", i, TRUE) \in WBytes
  <2>1. "data" \in WKinds /\ \A i \in 1 .. n : i \in Nat
    BY DEF WKinds
  <2> QED
    BY <2>1, BytesTyped, Zenon
<1>2. Content(n) \in [1 .. n -> WBytes]
  BY <1>1 DEF Content
<1> HIDE DEF Content
<1> QED
  BY <1>2, FunctionIsSeq

LEMMA JunkType ==
    ASSUME NEW n \in Nat
    PROVE  /\ [i \in 1 .. n |-> Junk] \in Seq(WBytes)
           /\ Len([i \in 1 .. n |-> Junk]) = n
<1> DEFINE f == [i \in 1 .. n |-> Junk]
<1>1. f \in [1 .. n -> WBytes]
  BY BytesTyped
<1> HIDE DEF f
<1>2. f \in Seq(WBytes) /\ Len(f) = n
  BY <1>1, FunctionIsSeq
<1> QED
  BY <1>2 DEF f

\* A bulk's plain bytes: its header, its content and the end of its line.
LEMMA BulkBytesPlain ==
    ASSUME NEW n \in Nat
    PROVE  /\ BulkBytes(Content(n)) \in Seq(WBytes)
           /\ Plain(BulkBytes(Content(n))) =
                (Plain(SizeBytes("$", n)) \o Plain(Content(n))) \o Plain(CRLF)
<1> DEFINE h == SizeBytes("$", n)
           c == Content(n)
           z == Byte("r", 0, TRUE)
           e == <<z, LF>>
<1>1. h \in Seq(WBytes) /\ c \in Seq(WBytes) /\ Len(c) = n
  BY SizeBytesType, ContentType DEF WKinds
<1>2. z \in WBytes /\ LF \in WBytes
  BY BytesTyped DEF WKinds
<1>3. e \in Seq(WBytes) /\ Len(e) = 2
  BY <1>2, PairType, Zenon
<1>4. Plain(e) = Plain(CRLF)
  <2>1. DOMAIN e = 1 .. 2 /\ DOMAIN CRLF = 1 .. 2
    BY DEF CRLF
  <2>2. /\ e[1].k = CRLF[1].k /\ e[1].n = CRLF[1].n
        /\ e[2].k = CRLF[2].k /\ e[2].n = CRLF[2].n
    <3>2. z.k = CR.k /\ z.n = CR.n
      BY DEF Byte, CR
    <3> HIDE DEF z
    <3>1. e[1] = z /\ CRLF[1] = CR /\ e[2] = LF /\ CRLF[2] = LF
      BY DEF CRLF
    <3> HIDE DEF e
    <3> QED
      BY <3>1, <3>2
  <2>3. \A i \in 1 .. 2 : i = 1 \/ i = 2
    OBVIOUS
  <2> HIDE DEF e
  <2>4. \A i \in 1 .. 2 : <<e[i].k, e[i].n>> = <<CRLF[i].k, CRLF[i].n>>
    BY <2>2, <2>3
  <2> QED
    BY <2>1, <2>4 DEF Plain
<1>5. BulkBytes(c) = h \o c \o e
  BY <1>1 DEF BulkBytes, BulkEnd
<1> HIDE DEF h, c, e
<1>6. h \o c \in Seq(WBytes) /\ Plain(h \o c) = Plain(h) \o Plain(c)
  BY <1>1, PlainConcat
<1>7. /\ (h \o c) \o e \in Seq(WBytes)
      /\ Plain((h \o c) \o e) = Plain(h \o c) \o Plain(e)
  BY <1>3, <1>6, PlainConcat
<1> QED
  BY <1>4, <1>5, <1>6, <1>7 DEF h, c

(***************************************************************************)
(* The writes                                                              *)
(***************************************************************************)
LEMMA GrownFits ==
    ASSUME NEW l \in Nat, NEW c, c \in Grown(l), cap \in Nat, cap >= BufferSize
    PROVE  c \in Nat /\ c >= l /\ c >= BufferSize
<1>1. BufferSize \in Nat
  BY WriterAssumption
<1> QED
  BY <1>1 DEF Grown

\* A sequence is its first k elements and the others.
LEMMA SplitAt ==
    ASSUME NEW S, NEW s \in Seq(S), NEW k \in 0 .. Len(s)
    PROVE  /\ SubSeq(s, 1, k) \in Seq(S)
           /\ \E r \in Seq(S) : SubSeq(s, 1, k) \o r = s
<1> DEFINE l == Len(s)
           r == SubSeq(s, k + 1, l)
<1>1. l \in Nat /\ \A i \in 1 .. l : s[i] \in S
  BY LenProperties, ElementOfSeq
<1> HIDE DEF l
<1>2. /\ k \in Int /\ 1 \in Int /\ k + 1 \in Int /\ l \in Int
      /\ \A i \in 1 .. k : i \in 1 .. l
      /\ \A i \in k + 1 .. l : i \in 1 .. l
  BY <1>1 DEF l
<1>3. SubSeq(s, 1, k) \in Seq(S) /\ SubSeq(s, k + 1, l) \in Seq(S)
  BY <1>1, <1>2, SubSeqProperties
<1>4. 1 \in 1 .. l + 1 /\ k \in 1 - 1 .. l /\ l \in k .. l
  BY <1>1 DEF l
<1>5. SubSeq(s, 1, k) \o SubSeq(s, k + 1, l) = SubSeq(s, 1, l)
  BY <1>4, ConcatAdjacentSubSeq DEF l
<1>6. SubSeq(s, 1, l) = s
  BY SubSeqFull DEF l
<1> QED
  BY <1>3, <1>5, <1>6

LEMMA PartOfConcat ==
    ASSUME NEW S, NEW o \in Seq(S), NEW s \in Seq(S), NEW k \in 0 .. Len(s)
    PROVE  /\ o \o SubSeq(s, 1, k) \in Seq(S)
           /\ \E r \in Seq(S) : (o \o SubSeq(s, 1, k)) \o r = o \o s
<1> DEFINE q == SubSeq(s, 1, k)
<1>1. q \in Seq(S) /\ \E r \in Seq(S) : q \o r = s
  BY SplitAt
<1> HIDE DEF q
<1>2. PICK r \in Seq(S) : q \o r = s
  BY <1>1
<1>3. q \in Seq(S) /\ r \in Seq(S) /\ o \in Seq(S)
  BY <1>1
<1>4. (o \o q) \o r = o \o (q \o r)
  BY <1>3, ConcatAssociative
<1>5. o \o q \in Seq(S)
  BY <1>3, ConcatProperties
<1>6. (o \o q) \o r = o \o s
  BY <1>2, <1>4
<1> QED
  BY <1>5, <1>6 DEF q

\* A write that fails has written a part of the bytes; the history says whether
\* it wrote any after an earlier failure.
LEMMA FailedWrite ==
    ASSUME NEW bs \in Seq(WBytes), WriteFails(bs), out \in Seq(WBytes),
           failures \in Nat, retried \in BOOLEAN
    PROVE  /\ out' \in Seq(WBytes) /\ acked' = acked
           /\ failures < MaxFailures /\ failures' = failures + 1
           /\ retried' \in BOOLEAN /\ (~retried' => ~retried)
           /\ failures > 0 /\ ~retried' => out' = out
           /\ \E r \in Seq(WBytes) : out' \o r = out \o bs
<1>0. \A k \in 0 .. Len(bs) :
          /\ out \o SubSeq(bs, 1, k) \in Seq(WBytes)
          /\ \E r \in Seq(WBytes) : (out \o SubSeq(bs, 1, k)) \o r = out \o bs
  BY PartOfConcat, ZenonT(60)
<1>1. PICK k \in 0 .. Len(bs) - 1 :
          /\ failures < MaxFailures /\ failures' = failures + 1
          /\ out' = out \o SubSeq(bs, 1, k)
          /\ retried' = (retried \/ (failures > 0 /\ k > 0))
          /\ acked' = acked
  BY DEF WriteFails
<1>2. Len(bs) \in Nat
  BY LenProperties
<1>3. k \in 0 .. Len(bs)
  BY <1>2
<1>4. /\ out' \in Seq(WBytes)
      /\ \E r \in Seq(WBytes) : out' \o r = out \o bs
  BY <1>0, <1>1, <1>3, Zenon
<1>5. ASSUME failures > 0, ~retried' PROVE out' = out
  <2>0. ~(failures > 0 /\ k > 0)
    BY <1>1, <1>5, Zenon
  <2>1. k = 0
    BY <1>2, <1>5, <2>0
  <2>2. SubSeq(bs, 1, 0) = <<>>
    BY SubSeqEmpty
  <2>3. out \o <<>> = out
    BY ConcatEmptySeq
  <2> QED
    BY <1>1, <2>1, <2>2, <2>3
<1> QED
  BY <1>1, <1>4, <1>5

(***************************************************************************)
(* The steps, on the plain bytes                                           *)
(***************************************************************************)
\* What a connection has begun with, it also begins with when more is sent.
LEMMA BeginsLonger ==
    ASSUME NEW s \in Seq(Plains), NEW t \in Seq(Plains), NEW u \in Seq(Plains),
           Begins(s, t)
    PROVE  Begins(s, t \o u)
<1>1. PICK r \in Seq(Plains) : t = s \o r
  BY DEF Begins
<1>2. (s \o r) \o u = s \o (r \o u)
  BY ConcatAssociative
<1>3. r \o u \in Seq(Plains)
  BY ConcatProperties
<1> QED
  BY <1>1, <1>2, <1>3 DEF Begins

LEMMA BeginsThree ==
    ASSUME NEW x \in Seq(Plains), NEW y \in Seq(Plains), NEW e \in Seq(Plains)
    PROVE  Begins(x, (x \o y) \o e)
<1>1. (x \o y) \o e = x \o (y \o e)
  BY ConcatAssociative, SMTT(60)
<1>2. y \o e \in Seq(Plains)
  BY ConcatProperties
<1> QED
  BY <1>1, <1>2 DEF Begins

\* A part of what is to be written, of bytes that end with e.
LEMMA PartBegins ==
    ASSUME NEW o \in Seq(WBytes), NEW r \in Seq(WBytes), NEW a \in Seq(WBytes),
           NEW e \in Seq(Plains), NEW t, o \o r = a, t = Plain(a) \o e
    PROVE  Begins(Plain(o), t)
<1>1. Plain(o \o r) = Plain(o) \o Plain(r)
  BY PlainConcat, Zenon
<1>2. Plain(o) \in Seq(Plains) /\ Plain(r) \in Seq(Plains)
  BY PlainType, Zenon
<1>3. Begins(Plain(o), (Plain(o) \o Plain(r)) \o e)
  BY <1>2, BeginsThree, Zenon
<1>4. t = (Plain(o) \o Plain(r)) \o e
  BY <1>1, Zenon
<1> QED
  BY <1>3, <1>4, Zenon

\* A write that fails leaves the connection with the beginning of t, if a write
\* of bs that is the first to fail was to write the beginning of t.
LEMMA FailedBegins ==
    ASSUME BytesTypeOK, TypeOK, Exact, NEW bs \in Seq(WBytes), WriteFails(bs),
           NEW t \in Seq(Plains), NEW e \in Seq(Plains),
           failures = 0 => t = Plain(acked \o bs) \o e,
           ~retried => Begins(Plain(out), t),
           ~retried'
    PROVE  Begins(Plain(out'), t)
<1>0. failures \in Nat /\ retried \in BOOLEAN
  BY WriterAssumption DEF TypeOK
<1>1. /\ out' \in Seq(WBytes) /\ ~retried
      /\ failures > 0 => out' = out
      /\ \E r \in Seq(WBytes) : out' \o r = out \o bs
  BY <1>0, FailedWrite DEF BytesTypeOK
<1>2. CASE failures = 0
  <2>1. PICK r \in Seq(WBytes) : out' \o r = acked \o bs
    BY <1>1, <1>2 DEF Exact
  <2>2. acked \o bs \in Seq(WBytes)
    BY ConcatProperties DEF BytesTypeOK
  <2> QED
    BY <1>1, <1>2, <2>1, <2>2, PartBegins
<1>3. CASE failures > 0
  BY <1>1, <1>3
<1> QED
  BY <1>0, <1>2, <1>3

\* All that is appended to the calls is appended to the buffer.
LEMMA ExactAppend ==
    ASSUME BytesTypeOK, Exact, whole, copied,
           NEW b \in Seq(WBytes), NEW c \in Seq(WBytes), Plain(b) = Plain(c)
    PROVE  Plain(acked) \o Plain(buf \o b) = Plain(stream \o c)
<1>1. /\ Plain(buf \o b) = Plain(buf) \o Plain(b)
      /\ Plain(stream \o c) = Plain(stream) \o Plain(c)
  BY PlainConcat DEF BytesTypeOK
<1>2. Plain(acked) \o Plain(buf) = Plain(stream)
  BY DEF Exact
<1> DEFINE x == Plain(acked)
           y == Plain(buf)
           z == Plain(b)
<1>3. x \in Seq(Plains) /\ y \in Seq(Plains) /\ z \in Seq(Plains)
  BY PlainType DEF BytesTypeOK
<1> HIDE DEF x, y, z
<1>4. (x \o y) \o z = x \o (y \o z)
  BY <1>3, ConcatAssociative, SMTT(60)
<1> QED
  BY <1>1, <1>2, <1>4 DEF x, y, z

\* The connection has the beginning of the calls' bytes when more are called for.
LEMMA BeginKept ==
    ASSUME BytesTypeOK, Exact, whole, ~retried, NEW c \in Seq(WBytes)
    PROVE  Begins(Plain(out), Plain(stream \o c))
<1>1. Begins(Plain(out), Plain(stream))
  BY DEF Exact
<1>2. Plain(stream \o c) = Plain(stream) \o Plain(c)
  BY PlainConcat DEF BytesTypeOK
<1>3. /\ Plain(out) \in Seq(Plains) /\ Plain(stream) \in Seq(Plains)
      /\ Plain(c) \in Seq(Plains)
  BY PlainType DEF BytesTypeOK
<1>4. Begins(Plain(out), Plain(stream) \o Plain(c))
  BY <1>1, <1>3, BeginsLonger
<1> QED
  BY <1>2, <1>4

LEMMA AppendKeeps ==
    ASSUME WriterInv, NEW bs \in Seq(WBytes), AppendBytes(bs)
    PROVE  WriterInv'
<1> USE DEF WriterInv, AppendBytes
<1>1. /\ buf' = buf \o bs /\ stream' = stream \o bs
      /\ UNCHANGED <<out, acked, failures, retried, whole, copied>>
      /\ cap' \in Grown(Len(buf'))
  BY DEF conn
<1>2. BytesTypeOK'
  BY <1>1, ConcatProperties DEF BytesTypeOK
<1>3. TypeOK'
  <2>1. Len(buf') \in Nat /\ Len(stream \o bs) = Len(stream) + Len(bs)
    BY <1>2, LenProperties, ConcatProperties DEF BytesTypeOK
  <2>2. cap' \in Nat /\ cap' >= Len(buf') /\ cap' >= BufferSize
    BY <1>1, <2>1, GrownFits DEF TypeOK
  <2>3. Len(buf') <= cap'
    BY <2>1, <2>2
  <2> QED
    BY <1>1, <2>1, <2>2, <2>3 DEF TypeOK
<1>4. Exact'
  <2>1. whole /\ copied => Plain(acked) \o Plain(buf \o bs) = Plain(stream \o bs)
    BY ExactAppend
  <2>2. whole /\ ~retried => Begins(Plain(out), Plain(stream \o bs))
    BY BeginKept
  <2> QED
    BY <1>1, <2>1, <2>2 DEF Exact
<1> QED
  BY <1>2, <1>3, <1>4

LEMMA FlushKeeps ==
    ASSUME WriterInv, Flush
    PROVE  WriterInv'
<1>0. BytesTypeOK /\ TypeOK /\ Exact
  BY DEF WriterInv
<1>1. UNCHANGED <<cap, stream, whole, copied>>
  BY DEF Flush
<1>e. /\ <<>> \in Seq(WBytes) /\ Len(<<>>) = 0 /\ <<>> \in Seq(Plains)
      /\ Plain(<<>>) = <<>>
  BY EmptySeq DEF Plain
<1>t. failures \in Nat /\ retried \in BOOLEAN /\ MaxFailures \in Nat
  BY <1>0, WriterAssumption DEF TypeOK
<1>2. CASE WriteSucceeds(buf) /\ buf' = <<>>
  <2>1. /\ out' = out \o buf /\ acked' = acked \o buf /\ failures' = failures
        /\ retried' = (failures > 0)
    BY <1>2 DEF WriteSucceeds
  <2>2. /\ out' \in Seq(WBytes) /\ acked' \in Seq(WBytes)
        /\ Plain(acked') = Plain(acked) \o Plain(buf)
    BY <1>0, <2>1, PlainConcat DEF BytesTypeOK
  <2>3. BytesTypeOK'
    BY <1>0, <1>1, <1>2, <1>e, <2>2 DEF BytesTypeOK
  <2>4. TypeOK'
    BY <1>0, <1>1, <1>2, <1>e, <1>t, <2>1 DEF TypeOK
  <2>5. Plain(acked') \in Seq(Plains) /\ Plain(stream) \in Seq(Plains)
    BY <1>0, <2>2, PlainType DEF BytesTypeOK
  <2>6. Plain(acked') \o Plain(buf') = Plain(acked')
    BY <1>2, <1>e, <2>5, ConcatEmptySeq
  <2>7. whole /\ copied => Plain(acked') = Plain(stream)
    BY <1>0, <2>2 DEF Exact
  <2>8. failures = 0 => out' = acked' /\ copied
    BY <1>0, <2>1 DEF Exact
  <2>9. Begins(Plain(stream), Plain(stream))
    <3>1. Plain(stream) \o <<>> = Plain(stream)
      BY <2>5, ConcatEmptySeq
    <3> QED
      BY <1>e, <3>1 DEF Begins
  <2>10. whole /\ ~retried' => Begins(Plain(out'), Plain(stream))
    <3> SUFFICES ASSUME whole, ~retried' PROVE Begins(Plain(out'), Plain(stream))
      OBVIOUS
    <3>0. ~(failures > 0)
      BY <2>1, Zenon
    <3>1. failures = 0
      BY <1>t, <3>0
    <3>2. Plain(out') = Plain(stream)
      BY <2>7, <2>8, <3>1
    <3> QED
      BY <2>9, <3>2
  <2>11. failures = 0 => ~retried'
    <3>1. failures = 0 => ~(failures > 0)
      BY <1>t
    <3> QED
      BY <2>1, <3>1, Zenon
  <2>12. Exact'
    BY <1>1, <2>1, <2>6, <2>7, <2>8, <2>10, <2>11 DEF Exact
  <2> QED
    BY <2>3, <2>4, <2>12 DEF WriterInv
<1>3. CASE WriteFails(buf) /\ buf' = buf
  <2>1. /\ out' \in Seq(WBytes) /\ acked' = acked
        /\ failures < MaxFailures /\ failures' = failures + 1
        /\ retried' \in BOOLEAN /\ (~retried' => ~retried)
    BY <1>0, <1>3, <1>t, FailedWrite DEF BytesTypeOK
  <2>2. BytesTypeOK'
    BY <1>0, <1>1, <1>3, <2>1 DEF BytesTypeOK
  <2>3. TypeOK'
    <3>1. failures' \in 0 .. MaxFailures /\ failures' # 0
      BY <1>t, <2>1
    <3> QED
      BY <1>0, <1>1, <1>3, <2>1, <3>1 DEF TypeOK
  <2>4. ASSUME whole, ~retried' PROVE Begins(Plain(out'), Plain(stream))
    <3>1. Plain(stream) \in Seq(Plains)
      BY <1>0, PlainType DEF BytesTypeOK
    <3>2. failures = 0 => Plain(stream) = Plain(acked \o buf) \o <<>>
      <4>1. Plain(acked \o buf) = Plain(acked) \o Plain(buf)
        BY <1>0, PlainConcat DEF BytesTypeOK
      <4>2. failures = 0 => Plain(acked \o buf) = Plain(stream)
        BY <1>0, <2>4, <4>1 DEF Exact
      <4> QED
        BY <3>1, <4>2, ConcatEmptySeq
    <3>3. ~retried => Begins(Plain(out), Plain(stream))
      BY <1>0, <2>4 DEF Exact
    <3>4. buf \in Seq(WBytes) /\ WriteFails(buf)
      BY <1>0, <1>3 DEF BytesTypeOK
    <3> QED
      BY <1>0, <1>e, <2>4, <3>1, <3>2, <3>3, <3>4, FailedBegins
  <2>5. failures' # 0
    BY <1>t, <2>1
  <2>6. Exact'
    BY <1>0, <1>1, <1>3, <2>1, <2>4, <2>5 DEF Exact
  <2> QED
    BY <2>2, <2>3, <2>6 DEF WriterInv
<1> QED
  BY <1>2, <1>3 DEF Flush

(***************************************************************************)
(* CopyBulk                                                                *)
(***************************************************************************)
\* The source gives what it has of the n bytes.
LEMMA GivenType ==
    ASSUME NEW n \in Nat, NEW m \in 0 .. n
    PROVE  /\ Given(n, m) \in Seq(WBytes) /\ Len(Given(n, m)) = m
           /\ m = n => Given(n, m) = Content(n)
<1>1. Min({n, m}) = m
  <2>1. m \in {n, m} /\ \A y \in {n, m} : m <= y
    OBVIOUS
  <2>2. \A x \in {n, m} : (\A y \in {n, m} : x <= y) => x = m
    OBVIOUS
  <2> QED
    BY <2>1, <2>2 DEF Min
<1>2. m \in Nat
  OBVIOUS
<1> QED
  BY <1>1, <1>2, ContentType DEF Given

\* The header behind what is pending.
LEMMA HeadType ==
    ASSUME BytesTypeOK, NEW n \in Nat
    PROVE  /\ SizeBytes("$", n) \in Seq(WBytes)
           /\ buf \o SizeBytes("$", n) \in Seq(WBytes)
           /\ Len(buf \o SizeBytes("$", n)) = Len(buf) + 3
           /\ Len(buf) \in Nat
<1>1. SizeBytes("$", n) \in Seq(WBytes) /\ Len(SizeBytes("$", n)) = 3
  BY SizeBytesType DEF WKinds
<1>2. buf \in Seq(WBytes)
  BY DEF BytesTypeOK
<1> DEFINE z == SizeBytes("$", n)
<1> HIDE DEF z
<1>3. z \in Seq(WBytes) /\ Len(z) = 3
  BY <1>1 DEF z
<1>4. buf \o z \in Seq(WBytes) /\ Len(buf \o z) = Len(buf) + Len(z)
  BY <1>2, <1>3, ConcatProperties, Zenon
<1>5. Len(buf) \in Nat
  BY <1>2, LenProperties
<1> QED
  BY <1>3, <1>4, <1>5 DEF z

\* A bulk that a full source has given is a bulk.
LEMMA ExactBulk ==
    ASSUME BytesTypeOK, Exact, whole, copied, NEW n \in Nat
    PROVE  LET head == buf \o SizeBytes("$", n)
           IN  /\ Plain(acked) \o Plain(head \o Content(n) \o CRLF)
                     = Plain(stream \o BulkBytes(Content(n)))
               /\ Plain(acked \o (head \o Content(n))) \o Plain(CRLF)
                     = Plain(stream \o BulkBytes(Content(n)))
<1> DEFINE h == SizeBytes("$", n)
           c == Content(n)
           b == BulkBytes(Content(n))
           e == CRLF
<1>1. /\ h \in Seq(WBytes) /\ c \in Seq(WBytes) /\ b \in Seq(WBytes)
      /\ e \in Seq(WBytes) /\ buf \in Seq(WBytes) /\ acked \in Seq(WBytes)
      /\ Plain(b) = (Plain(h) \o Plain(c)) \o Plain(e)
  BY HeadType, ContentType, BulkBytesPlain, CRLFType DEF BytesTypeOK
<1> HIDE DEF h, c, b, e
<1>2. h \o c \in Seq(WBytes) /\ (h \o c) \o e \in Seq(WBytes)
  BY <1>1, ConcatProperties
<1>3. Plain((h \o c) \o e) = Plain(b)
  <2>1. Plain(h \o c) = Plain(h) \o Plain(c)
    BY <1>1, PlainConcat, Zenon
  <2>2. Plain((h \o c) \o e) = Plain(h \o c) \o Plain(e)
    BY <1>1, <1>2, PlainConcat, Zenon
  <2> QED
    BY <1>1, <2>1, <2>2
<1>4. Plain(acked) \o Plain(buf \o ((h \o c) \o e)) = Plain(stream \o b)
  BY <1>1, <1>2, <1>3, ExactAppend
<1>5. /\ (buf \o h) \o c = buf \o (h \o c)
      /\ (buf \o (h \o c)) \o e = buf \o ((h \o c) \o e)
  <2>1. buf \in Seq(WBytes) /\ h \in Seq(WBytes) /\ c \in Seq(WBytes)
    BY <1>1
  <2>2. (buf \o h) \o c = buf \o (h \o c)
    BY <2>1, ConcatAssociative
  <2> DEFINE u == h \o c
  <2>3. u \in Seq(WBytes) /\ e \in Seq(WBytes)
    BY <1>1, <1>2
  <2> HIDE DEF u
  <2>4. (buf \o u) \o e = buf \o (u \o e)
    BY <2>1, <2>3, ConcatAssociative, SMTT(60)
  <2> QED
    BY <2>2, <2>4 DEF u
<1>6. Plain(acked) \o Plain(((buf \o h) \o c) \o e) = Plain(stream \o b)
  BY <1>4, <1>5
<1> DEFINE a == (buf \o h) \o c
<1>7. a \in Seq(WBytes)
  BY <1>1, ConcatProperties
<1> HIDE DEF a
<1>8. /\ Plain(a \o e) = Plain(a) \o Plain(e)
      /\ Plain(acked \o a) = Plain(acked) \o Plain(a)
  BY <1>1, <1>7, PlainConcat
<1> DEFINE x == Plain(acked)
           y == Plain(a)
           z == Plain(e)
<1>9. x \in Seq(Plains) /\ y \in Seq(Plains) /\ z \in Seq(Plains)
  BY <1>1, <1>7, PlainType
<1> HIDE DEF x, y, z
<1>10. (x \o y) \o z = x \o (y \o z)
  BY <1>9, ConcatAssociative
<1>11. Plain(acked \o a) \o Plain(e) = Plain(acked) \o Plain(a \o e)
  BY <1>8, <1>10 DEF x, y, z
<1> QED
  BY <1>6, <1>11 DEF a, h, c, b, e

LEMMA CopyKeeps ==
    ASSUME WriterInv, NEW n \in Sizes, NEW m \in 0 .. n, CopyBulk(n, m)
    PROVE  WriterInv'
<1> DEFINE h == buf \o SizeBytes("$", n)
           g == Given(n, m)
           b == BulkBytes(Content(n))
<1>0. BytesTypeOK /\ TypeOK /\ Exact /\ n \in Nat
  BY WriterAssumption DEF WriterInv
<1>1. /\ h \in Seq(WBytes) /\ Len(h) = Len(buf) + 3 /\ Len(buf) \in Nat
      /\ b \in Seq(WBytes)
      /\ g \in Seq(WBytes) /\ Len(g) = m /\ (m = n => g = Content(n))
      /\ stream \in Seq(WBytes) /\ buf \in Seq(WBytes) /\ out \in Seq(WBytes)
      /\ acked \in Seq(WBytes) /\ CRLF \in Seq(WBytes) /\ Len(CRLF) = 2
  <2>1. h \in Seq(WBytes) /\ Len(h) = Len(buf) + 3 /\ Len(buf) \in Nat
    BY <1>0, HeadType
  <2>2. b \in Seq(WBytes)
    BY <1>0, BulkBytesPlain
  <2>3. g \in Seq(WBytes) /\ Len(g) = m /\ (m = n => g = Content(n))
    BY <1>0, GivenType
  <2> QED
    BY <1>0, <2>1, <2>2, <2>3, CRLFType DEF BytesTypeOK
<1>2. /\ stream' = stream \o b /\ whole' = (whole /\ m = n)
      /\ Len(stream) + Len(b) <= MaxBytes
      /\ CopyToBuffer(n, m) \/ CopyToConn(n, m)
  BY DEF CopyBulk
<1>3. /\ cap' \in Nat /\ cap' >= Len(h) /\ cap' >= BufferSize
  <2>1. cap' \in Grown(Len(h))
    BY <1>2 DEF CopyToBuffer, CopyToConn
  <2>2. Len(h) \in Nat
    BY <1>1, LenProperties
  <2> HIDE DEF h
  <2> QED
    BY <1>0, <2>1, <2>2, GrownFits DEF TypeOK
<1>x. whole' => whole /\ m = n
  BY <1>2
<1>4. whole' \in BOOLEAN
  BY <1>2
<1>t. failures \in Nat /\ retried \in BOOLEAN /\ MaxFailures \in Nat
  BY <1>0, WriterAssumption DEF TypeOK
<1>5. stream' \in Seq(WBytes) /\ Len(stream') <= MaxBytes
  <2> HIDE DEF b
  <2>1. stream \o b \in Seq(WBytes) /\ Len(stream \o b) = Len(stream) + Len(b)
    BY <1>1, ConcatProperties
  <2> QED
    BY <1>2, <2>1
<1>6. CASE CopyToBuffer(n, m)
  <2> DEFINE j == IF m < n THEN [i \in 1 .. n - m |-> Junk] ELSE CRLF
  <2>1. /\ cap' - Len(h) >= n + 2 /\ buf' = (h \o g) \o j
        /\ UNCHANGED <<out, acked, failures, retried, copied>>
    BY <1>6 DEF CopyToBuffer, conn
  <2>2. /\ j \in Seq(WBytes) /\ Len(j) \in Nat /\ m + Len(j) <= n + 2
        /\ m = n => j = CRLF
    <3>1. CASE m < n
      <4>1. n - m \in Nat
        BY <1>0, <3>1
      <4>2. j \in Seq(WBytes) /\ Len(j) = n - m
        BY <3>1, <4>1, JunkType
      <4> HIDE DEF j
      <4> QED
        BY <1>0, <3>1, <4>1, <4>2
    <3>2. CASE ~(m < n)
      <4>1. j = CRLF
        BY <3>2
      <4> HIDE DEF j
      <4>2. Len(j) = 2 /\ j \in Seq(WBytes)
        BY <1>1, <4>1
      <4>3. m + 2 <= n + 2 /\ m \in Nat
        BY <1>0
      <4> QED
        BY <4>1, <4>2, <4>3
    <3> QED
      BY <3>1, <3>2
  <2> HIDE DEF h, g, j, b
  <2>3. /\ h \o g \in Seq(WBytes) /\ Len(h \o g) = Len(h) + Len(g)
        /\ (h \o g) \o j \in Seq(WBytes)
        /\ Len((h \o g) \o j) = Len(h \o g) + Len(j)
    <3>1. h \o g \in Seq(WBytes) /\ Len(h \o g) = Len(h) + Len(g)
      BY <1>1, ConcatProperties, Zenon
    <3>2. /\ (h \o g) \o j \in Seq(WBytes)
          /\ Len((h \o g) \o j) = Len(h \o g) + Len(j)
      BY <2>2, <3>1, ConcatProperties, Zenon
    <3> QED
      BY <3>1, <3>2
  <2>4. Len(buf') <= cap'
    <3>1. Len(buf') = (Len(buf) + 3 + m) + Len(j)
      BY <1>1, <2>1, <2>3
    <3>2. cap' - (Len(buf) + 3) >= n + 2 /\ m \in Nat
      BY <1>0, <1>1, <2>1
    <3> QED
      BY <1>0, <1>1, <1>3, <2>2, <3>1, <3>2, SMTT(60)
  <2>5. BytesTypeOK'
    BY <1>1, <1>5, <2>1, <2>3 DEF BytesTypeOK
  <2>6. TypeOK'
    BY <1>0, <1>3, <1>4, <1>5, <2>1, <2>4 DEF TypeOK
  <2>7. ASSUME whole', copied PROVE Plain(acked) \o Plain(buf') = Plain(stream')
    <3>1. buf' = (h \o Content(n)) \o CRLF
      BY <1>1, <1>x, <2>1, <2>2, <2>7
    <3>2. Plain(acked) \o Plain(h \o Content(n) \o CRLF) = Plain(stream \o b)
      BY <1>0, <1>x, <2>7, ExactBulk DEF h, b
    <3> QED
      BY <1>2, <3>1, <3>2
  <2>8. ASSUME whole', ~retried PROVE Begins(Plain(out), Plain(stream'))
    BY <1>0, <1>1, <1>2, <1>x, <2>8, BeginKept
  <2>9. Exact'
    BY <1>0, <2>1, <2>7, <2>8 DEF Exact
  <2> QED
    BY <2>5, <2>6, <2>9 DEF WriterInv
<1>7. CASE CopyToConn(n, m)
  <2> DEFINE all == h \o g
  <2>1. \/ WriteSucceeds(all) /\ buf' = CRLF /\ copied' = copied
        \/ WriteFails(all) /\ buf' \in {h, <<>>} /\ copied' = FALSE
    BY <1>7 DEF CopyToConn
  <2>2. all \in Seq(WBytes) /\ <<>> \in Seq(WBytes) /\ Len(<<>>) = 0
    BY <1>1, ConcatProperties, EmptySeq
  <2>c. whole' /\ copied => Plain(acked \o all) \o Plain(CRLF) = Plain(stream')
    <3> SUFFICES ASSUME whole', copied
                 PROVE  Plain(acked \o all) \o Plain(CRLF) = Plain(stream')
      OBVIOUS
    <3>1. all = h \o Content(n)
      BY <1>1, <1>x
    <3>2. Plain(acked \o (h \o Content(n))) \o Plain(CRLF) = Plain(stream \o b)
      BY <1>0, <1>x, ExactBulk
    <3> HIDE DEF all, h, b
    <3> QED
      BY <1>2, <3>1, <3>2
  <2>d. Plain(CRLF) \in Seq(Plains) /\ Plain(stream') \in Seq(Plains)
    BY <1>1, <1>5, PlainType
  <2> HIDE DEF all, h, g, b
  <2>3. CASE WriteSucceeds(all) /\ buf' = CRLF /\ copied' = copied
    <3>1. /\ out' = out \o all /\ acked' = acked \o all /\ failures' = failures
          /\ retried' = (failures > 0)
      BY <2>3 DEF WriteSucceeds
    <3>2. out' \in Seq(WBytes) /\ acked' \in Seq(WBytes)
      BY <1>1, <2>2, <3>1, ConcatProperties
    <3>3. Len(buf') <= cap'
      <4>1. Len(buf') = 2 /\ cap' >= Len(buf) + 3 /\ Len(buf) \in Nat
        BY <1>1, <1>3, <2>3
      <4> QED
        BY <1>3, <4>1
    <3>4. BytesTypeOK'
      BY <1>1, <1>5, <2>3, <3>2 DEF BytesTypeOK
    <3>5. TypeOK'
      BY <1>0, <1>3, <1>4, <1>5, <1>t, <2>3, <3>1, <3>3 DEF TypeOK
    <3>6. whole' /\ copied => Plain(acked') \o Plain(buf') = Plain(stream')
      BY <2>3, <2>c, <3>1
    <3>7. failures = 0 => out' = acked' /\ copied /\ ~retried'
      <4>1. failures = 0 => ~(failures > 0)
        BY <1>t
      <4>2. failures = 0 => ~retried'
        BY <3>1, <4>1, Zenon
      <4> QED
        BY <1>0, <3>1, <4>2 DEF Exact
    <3>8. ASSUME whole', ~retried' PROVE Begins(Plain(out'), Plain(stream'))
      <4>0. ~(failures > 0)
        BY <3>1, <3>8, Zenon
      <4>1. failures = 0
        BY <1>t, <4>0
      <4>2. Plain(out') \o Plain(CRLF) = Plain(stream')
        BY <2>3, <3>6, <3>7, <3>8, <4>1
      <4> QED
        BY <2>d, <4>2 DEF Begins
    <3>9. Exact'
      BY <2>3, <3>1, <3>6, <3>7, <3>8 DEF Exact
    <3> QED
      BY <3>4, <3>5, <3>9 DEF WriterInv
  <2>4. CASE WriteFails(all) /\ buf' \in {h, <<>>} /\ copied' = FALSE
    <3>1. /\ out' \in Seq(WBytes) /\ acked' = acked
          /\ failures < MaxFailures /\ failures' = failures + 1
          /\ retried' \in BOOLEAN
      BY <1>1, <1>t, <2>2, <2>4, FailedWrite
    <3>2. Len(buf') <= cap' /\ buf' \in Seq(WBytes)
      <4>1. buf' \in Seq(WBytes) /\ (Len(buf') = Len(h) \/ Len(buf') = 0)
        BY <1>1, <2>2, <2>4
      <4>2. cap' >= Len(h) /\ Len(h) \in Nat
        BY <1>1, <1>3
      <4> QED
        BY <1>3, <4>1, <4>2
    <3>3. BytesTypeOK'
      BY <1>1, <1>5, <3>1, <3>2 DEF BytesTypeOK
    <3>4. failures' \in 0 .. MaxFailures /\ failures' # 0
      BY <1>t, <3>1
    <3>5. TypeOK'
      BY <1>0, <1>3, <1>4, <1>5, <2>4, <3>1, <3>2, <3>4 DEF TypeOK
    <3>6. ASSUME whole', ~retried' PROVE Begins(Plain(out'), Plain(stream'))
      <4>1. failures = 0 => Plain(stream') = Plain(acked \o all) \o Plain(CRLF)
        BY <1>0, <2>c, <3>6 DEF Exact
      <4>2. ~retried => Begins(Plain(out), Plain(stream'))
        BY <1>0, <1>1, <1>2, <1>x, <3>6, BeginKept
      <4> QED
        BY <1>0, <2>2, <2>4, <2>d, <3>6, <4>1, <4>2, FailedBegins
    <3>7. Exact'
      BY <2>4, <3>4, <3>6 DEF Exact
    <3> QED
      BY <3>3, <3>5, <3>7 DEF WriterInv
  <2> QED
    BY <2>1, <2>3, <2>4
<1> QED
  BY <1>2, <1>6, <1>7

(***************************************************************************)
(* The invariant                                                           *)
(***************************************************************************)
LEMMA EmptyExact ==
    ASSUME NEW s, s = <<>>
    PROVE  /\ s \in Seq(WBytes) /\ Len(s) = 0
           /\ Plain(s) \o Plain(s) = Plain(s) /\ Begins(Plain(s), Plain(s))
<1>1. s \in Seq(WBytes) /\ Len(s) = 0 /\ Plain(s) = <<>> /\ <<>> \in Seq(Plains)
  BY EmptySeq DEF Plain
<1>2. <<>> \o <<>> = <<>>
  BY <1>1, ConcatEmptySeq
<1>3. Begins(<<>>, <<>>)
  BY <1>1, <1>2 DEF Begins
<1> QED
  BY <1>1, <1>2, <1>3

LEMMA WriterHolds == Spec => []WriterInv
<1>a. BufferSize \in Nat /\ MaxBytes \in Nat /\ MaxFailures \in Nat
  BY WriterAssumption
<1>1. Init => WriterInv
  <2> SUFFICES ASSUME Init PROVE WriterInv
    OBVIOUS
  <2>1. /\ buf = <<>> /\ out = <<>> /\ acked = <<>> /\ stream = <<>>
        /\ failures = 0 /\ retried = FALSE /\ whole = TRUE /\ copied = TRUE
        /\ cap = BufferSize
    BY DEF Init
  <2>2. /\ buf \in Seq(WBytes) /\ out = buf /\ acked = buf /\ stream = buf
        /\ Len(buf) = 0 /\ Begins(Plain(buf), Plain(buf))
        /\ Plain(buf) \o Plain(buf) = Plain(buf)
    BY <2>1, EmptyExact
  <2>3. TypeOK
    <3>1. failures \in 0 .. MaxFailures
      BY <1>a, <2>1
    <3>2. retried \in BOOLEAN /\ whole \in BOOLEAN /\ copied \in BOOLEAN
      BY <2>1, Zenon
    <3> QED
      BY <1>a, <2>1, <2>2, <3>1, <3>2 DEF TypeOK
  <2>4. BytesTypeOK
    BY <2>2 DEF BytesTypeOK
  <2>5. Exact
    BY <2>1, <2>2, Zenon DEF Exact
  <2> QED
    BY <2>3, <2>4, <2>5 DEF WriterInv
<1>2. WriterInv /\ [Next]_vars => WriterInv'
  <2> SUFFICES ASSUME WriterInv, [Next]_vars PROVE WriterInv'
    OBVIOUS
  <2>1. CASE AppendArrayLen
    <3>1. SizeBytes("*", 2) \in Seq(WBytes)
      BY SizeBytesType DEF WKinds
    <3> QED
      BY <2>1, <3>1, AppendKeeps DEF AppendArrayLen
  <2>2. CASE AppendBulk
    <3>1. \A k \in Sizes : BulkBytes(Content(k)) \in Seq(WBytes)
      BY WriterAssumption, BulkBytesPlain
    <3> QED
      BY <2>2, <3>1, AppendKeeps DEF AppendBulk
  <2>3. CASE AppendLine
    <3>1. \A p \in {"+", ":"} : LineBytes(p) = SizeBytes(p, 0)
      BY DEF LineBytes, SizeBytes
    <3>2. \A p \in {"+", ":"} : SizeBytes(p, 0) \in Seq(WBytes)
      BY SizeBytesType DEF WKinds
    <3> QED
      BY <2>3, <3>1, <3>2, AppendKeeps DEF AppendLine
  <2>4. CASE Flush
    BY <2>4, FlushKeeps
  <2>5. ASSUME NEW k \in Sizes, NEW m \in 0 .. k, CopyBulk(k, m) PROVE WriterInv'
    BY <2>5, CopyKeeps
  <2>6. CASE Reset
    <3>1. /\ buf' = <<>> /\ out' = <<>> /\ acked' = <<>> /\ stream' = <<>>
          /\ failures' = 0 /\ retried' = FALSE /\ whole' = TRUE /\ copied' = TRUE
          /\ cap' = cap
      BY <2>6 DEF Reset
    <3>2. /\ buf' \in Seq(WBytes) /\ out' = buf' /\ acked' = buf' /\ stream' = buf'
          /\ Len(buf') = 0 /\ Begins(Plain(buf'), Plain(buf'))
          /\ Plain(buf') \o Plain(buf') = Plain(buf')
      BY <3>1, EmptyExact
    <3>3. TypeOK'
      <4>1. failures' \in 0 .. MaxFailures
        BY <1>a, <3>1
      <4>2. retried' \in BOOLEAN /\ whole' \in BOOLEAN /\ copied' \in BOOLEAN
        BY <3>1, Zenon
      <4> QED
        BY <1>a, <3>1, <3>2, <4>1, <4>2 DEF TypeOK, WriterInv
    <3>4. BytesTypeOK'
      BY <3>2 DEF BytesTypeOK
    <3>5. Exact'
      BY <3>1, <3>2, Zenon DEF Exact
    <3> QED
      BY <3>3, <3>4, <3>5 DEF WriterInv
  <2>7. CASE UNCHANGED vars
    BY <2>7 DEF vars, conn, WriterInv, BytesTypeOK, TypeOK, Exact
  <2> QED
    BY <2>1, <2>2, <2>3, <2>4, <2>5, <2>6, <2>7 DEF Next
<1> QED
  BY <1>1, <1>2, PTL DEF Spec

\* For every size of its buffer and of the bulks, the writes of bufioW that
\* succeed carry the bytes of its calls once each and in order, however often
\* Flush fails in between; and the connection has the beginning of those bytes
\* until something is written after a failed write, which may repeat a part.
THEOREM BytesExact == Spec => []OutputExact
<1>1. WriterInv => OutputExact
  <2> SUFFICES ASSUME WriterInv PROVE OutputExact
    OBVIOUS
  <2>0. BytesTypeOK /\ TypeOK /\ Exact
    BY DEF WriterInv
  <2>1. Plain(acked \o buf) = Plain(acked) \o Plain(buf)
    BY <2>0, PlainConcat DEF BytesTypeOK
  <2>2. Plain(out) \in Seq(Plains) /\ Plain(stream) \in Seq(Plains)
    BY <2>0, PlainType DEF BytesTypeOK
  <2>3. Begins(Plain(out), Plain(stream)) => IsPrefix(Plain(out), Plain(stream))
    BY <2>2, BeginsIsPrefix
  <2> QED
    BY <2>0, <2>1, <2>3 DEF OutputExact, Exact
<1> QED
  BY <1>1, WriterHolds, PTL

=============================================================================
