------------------------------- MODULE Bufio -------------------------------
(***************************************************************************)
(* bufioR (resp/bufio.go), the buffered protocol reader under              *)
(* RequestReader and CommandStream.                                        *)
(*                                                                         *)
(* A reader is a record: buf holds the bytes buf[r:w] that it has buffered *)
(* and not read, r the offset of the first of them in an array of cap      *)
(* bytes, over how far r has run past w, and net the bytes that the        *)
(* connection has yet to deliver.  A history, whole, tells whether every   *)
(* Read has ended at the end of a line or inside a bulk, and has had room. *)
(* The code is sequential and its only input is how many bytes each Read   *)
(* of the connection returns, so every method is an operator that yields   *)
(* the set of its possible results Res(s, v, e): the reader afterwards,    *)
(* the value and the error.                                                *)
(***************************************************************************)
EXTENDS Integers, Requests

CONSTANTS
    SplitLines  \* TRUE: a segment may end anywhere, also inside a line

ASSUME SplitAssumption == SplitLines \in BOOLEAN

\* The error e is "ok", "EOF", "protocol", "toolong" (a protocol error too) or
\* "panic", for the run-time panic of a slice that is out of range.
Res(s, v, e) == [s |-> s, v |-> v, e |-> e]

\* f's results from every successful one among rs; failures end the method.
Then(rs, f(_)) == UNION {IF o.e = "ok" THEN f(o) ELSE {o} : o \in rs}

NewReader(input, size) ==
    [net |-> input, buf |-> <<>>, r |-> 0, over |-> 0, cap |-> size,
     whole |-> TRUE]

Unread(s)   == s.buf \o s.net
Buffered(s) == Len(s.buf) - s.over

\* b.r += n
Advance(s, n) ==
    [s EXCEPT !.r    = @ + n,
              !.buf  = SubSeq(@, n + 1, Len(@)),
              !.over = @ + (IF n > Len(s.buf) THEN n - Len(s.buf) ELSE 0)]

\* The reader after the connection has delivered n bytes.
Deliver(s, n) ==
    [s EXCEPT !.buf = @ \o SubSeq(s.net, 1, n),
              !.net = SubSeq(@, n + 1, Len(@)),
              !.whole = @ /\ (n > 0 => s.net[n].end)]

\* What Read calls that have room for that many bytes and need at least that
\* many may add up to.
Reads(s, least, room) ==
    {n \in least .. Min({room, Len(s.net)}) :
        SplitLines \/ n = room \/ s.net[n].end}

\* compact slices buf[r:w], which panics once r has passed w.
compact(s) ==
    IF s.over > 0 THEN {Res(s, <<>>, "panic")}
                  ELSE {Res([s EXCEPT !.r = 0], <<>>, "ok")}

fill(s) ==
    Then(compact(s), LAMBDA c :
        LET room == c.s.cap - Len(c.s.buf)
        IN  IF room <= 0 THEN {Res([c.s EXCEPT !.whole = FALSE], <<>>, "ok")}
            ELSE IF c.s.net = <<>> THEN {Res(c.s, <<>>, "EOF")}
            ELSE {Res(Deliver(c.s, n), <<>>, "ok") : n \in Reads(c.s, 1, room)})

\* require buffers sz bytes, in a larger array where necessary.
require(s, sz) ==
    LET extra == sz - Buffered(s)
    IN  IF extra < 1 THEN {Res(s, <<>>, "ok")}
        ELSE Then(compact(s), LAMBDA c :
            LET w == Len(c.s.buf)
                g == [c.s EXCEPT !.cap = Max({@, w + extra})]
            IN  IF Len(g.net) < extra
                THEN {Res(Deliver(g, Len(g.net)), <<>>, "EOF")}
                ELSE {Res(Deliver(g, n), <<>>, "ok") :
                        n \in Reads(g, extra, g.cap - w)})

PeekByte(s) ==
    Then(require(s, 1), LAMBDA o : {Res(o.s, SubSeq(o.s.buf, 1, 1), "ok")})

PeekN(s, offset, n) ==
    Then(require(s, offset + n), LAMBDA o :
        {Res(o.s, SubSeq(o.s.buf, offset + 1, offset + n), "ok")})

\* Where the CRs at or after an offset are.
Ends(s, offset) == {i \in offset + 1 .. Len(s.buf) : s.buf[i].k = "r"}

\* The line up to the first CR and one byte more, whatever that byte is: when
\* it has not been received the array holds an older byte there, or ends.
LineTo(s, offset) ==
    LET i    == Min(Ends(s, offset))
        line == SubSeq(s.buf, offset + 1, i)
    IN  IF i < Len(s.buf) THEN {Res(s, Append(line, s.buf[i + 1]), "ok")}
        ELSE IF s.r + i + 1 > s.cap THEN {Res(s, <<>>, "panic")}
        ELSE {Res(s, Append(line, b), "ok") : b \in {LF, Junk}}

\* Mutant of PeekLine: it does not read more data into the buffer.
PeekLineNoFill(s, offset) ==
    IF Ends(s, offset) # {} THEN LineTo(s, offset)
                            ELSE {Res(s, <<>>, "toolong")}

\* PeekLine looks for a CR in the buffer and, once, in what fill adds to it.
PeekLine(s, offset) ==
    IF Ends(s, offset) # {} THEN LineTo(s, offset)
    ELSE Then(fill(s), LAMBDA o :
        IF Ends(o.s, offset) # {} THEN LineTo(o.s, offset)
                                  ELSE {Res(o.s, <<>>, "toolong")})

\* Mutant of ReadLine: it advances by one byte too many.
ReadLineTooFar(s) ==
    Then(PeekLine(s, 0), LAMBDA o :
        {Res(Advance(o.s, Len(o.v) + 1), o.v, "ok")})

ReadLine(s) ==
    Then(PeekLine(s, 0), LAMBDA o : {Res(Advance(o.s, Len(o.v)), o.v, "ok")})

\* bufioLn.ParseSize: the number after the prefix, in a line that holds
\* nothing else once Trim has taken white space off its end.
ParseSize(o, prefix) ==
    IF o.v[1].k = prefix /\ \A i \in 2 .. Len(o.v) : o.v[i].k \in {"r", "n"}
    THEN {Res(o.s, SubSeq(o.v, 1, 1), "ok")}
    ELSE {Res(o.s, <<>>, "protocol")}

\* The number that ParseSize returns.
Size(o) == o.v[1].n

ReadArrayLen(s) == Then(ReadLine(s), LAMBDA o : ParseSize(o, "*"))
ReadBulkLen(s)  == Then(ReadLine(s), LAMBDA o : ParseSize(o, "$"))

\* Mutant of ReadBulk: the two bytes that end the bulk are not consumed.
ReadBulkNoCRLF(s) ==
    Then(ReadBulkLen(s), LAMBDA l :
        Then(require(l.s, Size(l) + 2), LAMBDA o :
            {Res(Advance(o.s, Size(l)), SubSeq(o.s.buf, 1, Size(l)), "ok")}))

\* ReadBulk and ReadBulkString: the two bytes after the bulk are not looked at.
ReadBulk(s) ==
    Then(ReadBulkLen(s), LAMBDA l :
        Then(require(l.s, Size(l) + 2), LAMBDA o :
            {Res(Advance(o.s, Size(l) + 2), SubSeq(o.s.buf, 1, Size(l)), "ok")}))

\* skipN drops what is buffered and reads the rest of the sz bytes, and no
\* more, straight from the connection.
skipN(s, sz) ==
    LET extra == sz - Buffered(s)
        empty == [s EXCEPT !.buf = <<>>, !.r = 0, !.over = 0]
    IN  IF extra < 1 THEN {Res(Advance(s, sz), <<>>, "ok")}
        ELSE IF Len(s.net) < extra
             THEN {Res([empty EXCEPT !.net = <<>>], <<>>, "EOF")}
             ELSE {Res([empty EXCEPT !.net = SubSeq(@, extra + 1, Len(@))],
                       <<>>, "ok")}

SkipBulk(s) == Then(ReadBulkLen(s), LAMBDA l : skipN(l.s, Size(l) + 2))

\* The words of an inline request: FirstWord takes the first as it stands,
\* appendArgument takes the quotes off; the byte that follows the CR is a word
\* of its own unless it is the LF.
IsWord(b) == b.k \in {"word", "quoted", "*", "$", "junk"}

Words(line) ==
    FlattenSeq([i \in DOMAIN line |-> IF IsWord(line[i]) THEN <<line[i]>> ELSE <<>>])

FirstWord(line) == SubSeq(Words(line), 1, Min({1, Len(Words(line))}))
Arguments(line) == [i \in DOMAIN Words(line) |-> <<Unquote(Words(line)[i])>>]

=============================================================================
