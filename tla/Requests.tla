------------------------------ MODULE Requests ------------------------------
(***************************************************************************)
(* The bytes a client sends, as RequestWriter (resp/request.go) encodes    *)
(* them and as a person types them.                                        *)
(*                                                                         *)
(* A request is a record: its form ("bulks", "inline", the empty array     *)
(* "zero", a "blank" line, or "raw" bytes that need not be a request at    *)
(* all) and its arguments, the first of which is the name of the command.  *)
(* A byte is a token: "*" or "$" with its number, a word, a word in quotes *)
(* (with the blanks and escapes in it), a CR, an LF, or some other byte. A *)
(* token's field end tells whether a client that writes its lines whole    *)
(* may end a segment after it.                                             *)
(***************************************************************************)
EXTENDS Naturals, SequencesExt

Kinds  == {"*", "$", "word", "quoted", "r", "n", "junk"}
Tokens == [k : Kinds, n : Nat, end : BOOLEAN]

Byte(k, n, end) == [k |-> k, n |-> n, end |-> end]
CR   == Byte("r", 0, FALSE)
LF   == Byte("n", 0, TRUE)
Junk == Byte("junk", 0, TRUE)
CRLF == <<CR, LF>>

\* bufioW.appendSize, AppendArrayLen and AppendBulk.
SizeBytes(prefix, n) == <<Byte(prefix, n, FALSE), CR, LF>>

BulkEnd == <<Byte("r", 0, TRUE), LF>>

BulkBytes(arg) == SizeBytes("$", Len(arg)) \o arg \o BulkEnd

\* RequestWriter.WriteCmd
CmdBytes(args) ==
    SizeBytes("*", Len(args))
        \o FlattenSeq([i \in DOMAIN args |-> BulkBytes(args[i])])

Bytes(q) ==
    CASE q.form = "bulks"  -> CmdBytes(q.args)
      [] q.form = "inline" -> FlattenSeq(q.args) \o CRLF
      [] q.form = "zero"   -> SizeBytes("*", 0)
      [] q.form = "blank"  -> CRLF
      [] q.form = "raw"    -> q.args[1]

AllBytes(qs) == FlattenSeq([i \in DOMAIN qs |-> Bytes(qs[i])])

\* The commands among some requests, with the arguments that are meant: those a
\* person types in quotes are without them.
IsCommand(q) == q.form \in {"bulks", "inline"}

Unquote(b) == IF b.k = "quoted" THEN [b EXCEPT !.k = "word"] ELSE b

Meant(q) ==
    IF q.form = "inline"
    THEN [q EXCEPT !.args = [i \in DOMAIN @ |-> <<Unquote(@[i][1])>>]]
    ELSE q

CommandsOf(qs) ==
    FlattenSeq([i \in DOMAIN qs |-> IF IsCommand(qs[i]) THEN <<Meant(qs[i])>> ELSE <<>>])

\* The requests after the first i.
After(qs, i) == SubSeq(qs, i + 1, Len(qs))

=============================================================================
