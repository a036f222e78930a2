-------------------------- MODULE MCCommandStream --------------------------
(* Requests for model checking RequestReader and CommandStream. *)
EXTENDS CommandStream

Bulks(args) == [form |-> "bulks", args |-> args]
Zero  == [form |-> "zero", args |-> <<>>]
Blank == [form |-> "blank", args |-> <<>>]

\* A byte of a bulk, after which a segment may always end, and a word.
Data(i) == Byte("word", i, TRUE)
Word(i) == <<Byte("word", i, FALSE)>>

Get   == <<Data(1)>>
Two   == <<Data(2), Data(3)>>
Empty == <<>>
Lines == <<Byte("r", 0, TRUE), LF, Byte("$", 1, TRUE)>>

Ping   == Bulks(<<Get>>)
Bulky  == Bulks(<<Get, Lines>>)
Wide   == Bulks(<<Two, Empty, Get>>)
Simple == [form |-> "inline",
           args |-> <<Word(4), <<Byte("quoted", 5, FALSE)>>, Word(5)>>]

Proper == {Ping, Bulky, Wide, Simple, Zero, Blank}

\* All pipelines of up to two requests, and one of three.
Pipelines == UNION {[1 .. k -> Proper] : k \in 1 .. 2}
               \cup {<<Simple, Zero, Bulky>>}
\* Any bytes at all, cut anywhere.
Alphabet == {Byte("*", 1, TRUE), Byte("$", 1, TRUE), Byte("word", 1, TRUE),
             Byte("r", 0, TRUE), LF}
Raw(bs)  == [form |-> "raw", args |-> <<bs>>]
Garbage  == {<<Raw(bs)>> : bs \in UNION {[1 .. k -> Alphabet] : k \in 1 .. 5}}

\* A command whose last argument has no length, and one that is cut off, in
\* front of and after commands with arguments.
Headless == Raw(SizeBytes("*", 3) \o BulkBytes(Get) \o BulkBytes(Two) \o Word(4) \o CRLF)
Cut      == Raw(Front(CmdBytes(<<Get, Two>>)))
Broken   == {<<Headless, Wide>>, <<Headless, Bulky>>, <<Bulky, Headless>>,
             <<Wide, Cut>>, <<Bulky, Raw(Front(CmdBytes(<<Get>>)))>>}

AnyInput == Pipelines \cup Garbage \cup Broken

\* Two requests, cut anywhere.
Pairs == {<<p, q>> : p, q \in {Ping, Simple, Zero}}

\* One line.
OneLine == {<<Simple>>}

AnyByte == [k : {"*", "$", "word", "quoted", "r", "n", "junk"}, n : 0 .. 5, end : BOOLEAN]
=============================================================================
