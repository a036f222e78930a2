------------------------------- MODULE Values -------------------------------
(***************************************************************************)
(* Go values as replies: ResponseWriter.Append (resp/value.go) encodes     *)
(* them, ResponseReader.Scan (resp/scan.go) decodes them.                  *)
(*                                                                         *)
(* A reply is a sequence of elements: an array header, a nil, an integer,  *)
(* an inline, an error or a bulk.  Text is a word, or "num" or "frac" for  *)
(* the text of a number n or n + 1/2.  How elements are cut into reads is  *)
(* Bufio's subject.  Text without a line break is assumed where the        *)
(* protocol has room for one line only.                                    *)
(***************************************************************************)
EXTENDS Integers, SequencesExt

CONSTANT Width  \* bits of an int64: 64 in the code

ASSUME WidthAssumption == Width \in Nat \ {0, 1}

\* A protocol element: its type, and its number or text.
El(t, w, n) == [t |-> t, w |-> w, n |-> n]

\* A Go value: its kind, text or number, and its elements.  A "pair" is an
\* entry of a map; a "null" is a NullString, with its value when it is valid.
Val(k, w, n, e) == [k |-> k, w |-> w, n |-> n, e |-> e]
Nil        == Val("nil", "", 0, <<>>)
Str(w, n)  == Val("string", w, n, <<>>)
Int64(n)   == Val("int", "", n, <<>>)
Pair(k, v) == Val("pair", "", 0, <<k, v>>)

\* The type of a destination: its kind, its width when it is a number, the
\* types of its elements.  "nil" is no destination, "iface" an interface{},
\* "named" a string type of its own, "bad" no pointer or a nil one.
Typ(k, b, e) == [k |-> k, b |-> b, e |-> e]
Zero(T) == Val(T.k, "", 0, <<>>)
StringT == Typ("string", 0, <<>>)
Int64T  == Typ("int", Width, <<>>)

\* The number that an integer type stores for n, and whether it is n.
Wrap(n, T) ==
    LET m == n % 2^T.b
    IN  IF T.k = "int" /\ m >= 2^(T.b - 1) THEN m - 2^T.b ELSE m
InRange(n, T) == Wrap(n, T) = n

\* The decimal digits of a natural number.
RECURSIVE Digits(_)
Digits(n) == IF n < 10 THEN <<n>> ELSE Append(Digits(n \div 10), n % 10)

\* Mutant of ParseInt: digits that are too large for an int64 are cut off, the
\* smallest int64's among them.
ParseIntClamped(digits, negative) ==
    LET max == 2^(Width - 1) - 1
        n   == FoldLeft(LAMBDA acc, d : Min({acc * 10 + d, max}), 0, digits)
    IN  IF negative THEN -n ELSE n

\* bufioLn.ParseInt: the digits are added up in an int64 that wraps around, and
\* the sign is applied at the end.
ParseInt(digits, negative) ==
    LET n == FoldLeft(LAMBDA acc, d : Wrap(acc * 10 + d, Int64T), 0, digits)
    IN  Wrap(IF negative THEN -n ELSE n, Int64T)

\* What ReadInt makes of the line that FormatInt wrote for n.
ReadInt(n) == ParseInt(Digits(IF n < 0 THEN -n ELSE n), n < 0)

-----------------------------------------------------------------------------
(* Append *)

\* The elements of several values, one after the other, in every order that
\* their own encodings allow.
RECURSIVE Encodings(_), EncodingsOf(_)
EncodingsOf(vs) ==
    IF vs = <<>> THEN {<<>>}
    ELSE {a \o b : a \in Encodings(Head(vs)), b \in EncodingsOf(Tail(vs))}

AppendInt(n) == <<El("int", "", Wrap(n, Int64T))>>
AppendArrayLen(n) == <<El("array", "", n)>>

\* Append: the elements it may append for a value.  MapKeys has no order.  The
\* error of an element that is of an unsupported type is dropped, and nothing
\* is appended for it.
Encodings(v) ==
    CASE v.k = "nil"    -> {<<El("nil", "", 0)>>}
      [] v.k = "error"  -> {<<El("error", v.w, v.n)>>}
      [] v.k \in {"bool", "int", "uint"} -> {AppendInt(v.n)}
      [] v.k \in {"string", "bytes", "custom"} -> {<<El("bulk", v.w, v.n)>>}
      [] v.k = "float"  -> {<<El("inline", v.w, v.n)>>}
      [] v.k = "slice"  ->
            {AppendArrayLen(Len(v.e)) \o es : es \in EncodingsOf(v.e)}
      [] v.k = "map"    ->
            UNION {{AppendArrayLen(2 * Len(v.e)) \o es : es \in EncodingsOf(p)} :
                     p \in SetToSeqs(ToSet(v.e))}
      [] v.k = "pair"   -> EncodingsOf(v.e)
      [] v.k = "struct" -> {<<>>}

\* Append returns an error.
Unsupported(v) == v.k = "struct"

-----------------------------------------------------------------------------
(* Scan *)

\* What Scan leaves unread, its error, and the destination afterwards.
Got(es, e, v) == [es |-> es, e |-> e, v |-> v]

\* Mutant of ParseSized: the number is parsed as an int64 and then narrowed.
ParseSizedNarrowed(T, n) ==
    IF InRange(n, Int64T) THEN {Val(T.k, "", Wrap(n, T), <<>>)} ELSE {}

\* strconv.ParseInt and ParseUint with the size of the destination.
ParseSized(T, n) == IF InRange(n, T) THEN {Val(T.k, "", n, <<>>)} ELSE {}

\* scanString, scanInt and scanNil, with scanValue, which they end in: the
\* values a destination of type T may get, none when there is no conversion.
scanString(T, w, n) ==
    CASE T.k \in {"string", "bytes", "named"} -> {Val(T.k, w, n, <<>>)}
      [] T.k = "iface" -> {Str(w, n)}
      [] T.k = "nil"   -> {Nil}
      [] T.k = "bool" /\ (w = "OK" \/ (w = "num" /\ n \in {0, 1})) ->
            {Val("bool", "", IF w = "num" THEN n ELSE 1, <<>>)}
      [] T.k \in {"int", "uint"} /\ w = "num" -> ParseSized(T, n)
      [] T.k = "float" /\ w \in {"num", "frac"} -> {Val("float", w, n, <<>>)}
      [] OTHER -> {}

\* Go's conversion of an int64 to an integer type.
Narrow(T, n) == Wrap(n, T)

scanInt(T, n) ==
    CASE T.k \in {"string", "bytes"} -> {Val(T.k, "num", n, <<>>)}
      [] T.k = "bool" /\ n \in {0, 1} -> {Val("bool", "", n, <<>>)}
      [] T.k \in {"int", "uint"} -> {Val(T.k, "", Narrow(T, n), <<>>)}
      [] T.k = "float" -> {Val("float", "num", n, <<>>)}
      [] T.k = "iface" -> {Int64(n)}
      [] T.k = "nil"   -> {Nil}
      [] OTHER -> {}

scanNil(T) == IF T.k \in {"iface", "bytes", "nil"} THEN {Nil} ELSE {}

Assign(es, vs, old) ==
    IF vs = {} THEN Got(es, "conversion", old)
               ELSE Got(es, "ok", CHOOSE v \in vs : TRUE)

\* SetMapIndex
Put(e, key, val) == Append(SelectSeq(e, LAMBDA p : p.e[1] # key), Pair(key, val))

FirstError(e, f) == IF e = "ok" THEN f ELSE e

RECURSIVE scan(_, _, _), scanSkip(_, _), scanSlice(_, _, _, _, _, _),
          scanMap(_, _, _, _, _)

\* No destination: n values are skipped, up to the first error.
scanSkip(es, n) ==
    IF n = 0 THEN Got(es, "ok", Nil)
    ELSE LET o == scan(es, Typ("nil", 0, <<>>), Nil)
         IN  IF o.e = "ok" THEN scanSkip(o.es, n - 1) ELSE o

\* Mutant of scanSlice: it stops at the first error.
scanSliceStops(es, T, old, i, n, e) ==
    IF i > n \/ e # "ok" THEN Got(es, e, old)
    ELSE LET o == scan(es, T.e[1], old.e[i])
         IN  scanSlice(o.es, T, [old EXCEPT !.e[i] = o.v], i + 1, n, o.e)

\* A slice: all n values are read, whatever becomes of them.
scanSlice(es, T, old, i, n, e) ==
    IF i > n THEN Got(es, e, old)
    ELSE LET o == scan(es, T.e[1], old.e[i])
         IN  scanSlice(o.es, T, [old EXCEPT !.e[i] = o.v], i + 1, n,
                       FirstError(e, o.e))

\* A map: n keys, each with its value unless the key could not be read.  Once
\* there has been an error, later failures are entered as they are.
scanMap(es, T, old, n, e) ==
    IF n = 0 THEN Got(es, e, old)
    ELSE LET k == scan(es, T.e[1], Zero(T.e[1]))
             v == IF k.e = "ok" THEN scan(k.es, T.e[2], Zero(T.e[2]))
                                ELSE Got(k.es, k.e, Zero(T.e[2]))
             m == IF v.e # "ok" /\ e = "ok" THEN old.e ELSE Put(old.e, k.v, v.v)
         IN  scanMap(v.es, T, [old EXCEPT !.e = m], n - 1, FirstError(e, v.e))

\* A slice that is too short is replaced by a longer copy of itself.
Extended(T, old, n) ==
    IF Len(old.e) >= n THEN old
    ELSE [old EXCEPT !.e = @ \o [i \in 1 .. n - Len(@) |-> Zero(T.e[1])]]

\* A []byte is a slice of uint8s too.  Which bytes an array makes of it is not
\* told apart.
scanBytes(es, old, n) ==
    LET B == Typ("slice", 0, <<Typ("uint", 8, <<>>)>>)
        o == scanSlice(es, B, Extended(B, Zero(B), n), 1, n, "ok")
    IN  Got(o.es, o.e, IF n = 0 THEN old ELSE Val("bytes", "raw", 0, <<>>))

scanArray(es, T, old, n) ==
    CASE T.k = "nil"   -> scanSkip(es, n)
      [] T.k = "bytes" -> scanBytes(es, old, n)
      [] T.k = "slice" -> scanSlice(es, T, Extended(T, old, n), 1, n, "ok")
      [] T.k = "map" /\ n % 2 = 0 -> scanMap(es, T, old, n \div 2, "ok")
      [] OTHER -> Got(es, "conversion", old)

\* NullString.ScanResponse.  Nothing is stored for a nil.
ScanResponse(es, old) ==
    IF Head(es).t = "nil" THEN Got(Tail(es), "ok", old)
    ELSE LET o == scan(es, StringT, Zero(StringT))
         IN  Got(o.es, o.e, IF o.e = "ok" THEN [old EXCEPT !.e = <<o.v>>] ELSE old)

scan(es, T, old) ==
    IF es = <<>> THEN Got(es, "EOF", old)
    ELSE IF Head(es).t = "error" THEN Got(Tail(es), "server", old)
    ELSE IF T.k = "null" THEN ScanResponse(es, old)
    ELSE LET x == Head(es)
             r == Tail(es)
         IN  CASE x.t = "array" -> scanArray(r, T, old, x.n)
               [] x.t = "nil"   -> Assign(r, scanNil(T), old)
               [] x.t = "int"   -> Assign(r, scanInt(T, ReadInt(x.n)), old)
               [] x.t \in {"inline", "bulk"} ->
                     Assign(r, scanString(T, x.w, x.n), old)

=============================================================================
