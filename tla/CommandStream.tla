--------------------------- MODULE CommandStream ---------------------------
(***************************************************************************)
(* CommandStream (resp/command.go) and bulkReader (resp/bufio.go): a       *)
(* stream handler takes the arguments of a command one by one with Next,   *)
(* reads as much of each as it likes, in pieces of any size, and returns   *)
(* whenever it likes; Server.perform then calls Discard.                   *)
(*                                                                         *)
(* With RequestReader this is all that happens on a connection: every      *)
(* command that has been peeked is read, skipped or taken as a stream.     *)
(***************************************************************************)
EXTENDS RequestReader

CONSTANTS
    MaxRead      \* the largest slice the handler reads into (bound)

ASSUME StreamAssumption == MaxRead \in Nat \ {0}

VARIABLES
    cs,         \* the CommandStream: isInline, inline (its words after the
                \* name), nargs, pos, and arg, the bytes left of a bulkReader
    data,       \* history: what the handler has got of each argument
    alone,      \* history: the arguments whose last byte, the LF, was left for
                \* a Read of its own
    orderly     \* history: every argument was read to its end before Next

streamVars == <<cs, data, alone, orderly>>
vars == <<readerVars, argVars, streamVars>>

\* CommandStream.Reset
NewStream ==
    [isInline |-> FALSE, inline |-> <<>>, nargs |-> 0, pos |-> 0, arg |-> 0]

Init ==
    /\ ReaderInit
    /\ cs = NewStream
    /\ data = <<>> /\ alone = {}
    /\ orderly = TRUE

-----------------------------------------------------------------------------
(* CommandStream's methods *)

ArgN == IF cs.isInline THEN Len(cs.inline) ELSE cs.nargs
More == cs.pos < ArgN

\* What the readInline and readMultiBulk of CommandStream make of an outcome of
\* readCommand: the first of them sets isInline, also for a blank line.
Stream(c, o) ==
    CASE o.e = "ok" /\ o.v.inline ->
            [c EXCEPT !.isInline = TRUE, !.inline = Tail(o.v.args)]
      [] o.e = "ok" /\ ~o.v.inline -> [c EXCEPT !.nargs = o.v.left]
      [] o.e = "blank" -> [c EXCEPT !.isInline = TRUE]
      [] o.e = "empty" -> c
      [] OTHER -> NewStream

StreamCmd ==
    /\ pc \in {"perform", "stream"}
    /\ \E o \in readCommand(rd) :
          /\ rd' = o.s
          /\ cs' = Stream(cs, o)
          /\ pc' = Resume(o.e, "peek", "stream", "handler")
          /\ got' = IF o.e = "ok" THEN Append(got, <<>>) ELSE got
    /\ UNCHANGED <<requests, loopVars, names, argVars, data, alone, orderly>>

Drained == cs.arg = 0

\* Next.  The argument of an inline command is there; that of another command
\* is a bulk, of which only the length is read.  What the handler has not read
\* of the argument before is forgotten, and stays in the reader.
NextArg ==
    /\ pc = "handler"
    /\ More
    /\ orderly' = (orderly /\ Drained)
    /\ IF cs.isInline
       THEN /\ cs' = [cs EXCEPT !.pos = @ + 1]
            /\ data' = Append(data, cs.inline[cs.pos + 1])
            /\ UNCHANGED <<rd, pc>>
       ELSE \E o \in ReadBulkLen(rd) :
            /\ rd' = o.s
            /\ pc' = IF o.e = "panic" THEN "panic" ELSE pc
            /\ cs' = [cs EXCEPT !.pos = @ + 1,
                                !.arg = IF o.e = "ok" THEN Size(o) + 2 ELSE 0]
            /\ data' = Append(data, <<>>)
    /\ UNCHANGED <<requests, loopVars, names, got, argVars, alone>>

\* The bytes a bulkReader that has n left hands to a slice of m: straight from
\* the connection once the buffer is empty.
bulkBytes(s, m) ==
    IF Buffered(s) = 0
    THEN IF s.net = <<>> THEN {Res(s, <<>>, "EOF")}
         ELSE {Res([s EXCEPT !.net = SubSeq(@, k + 1, Len(@))],
                   SubSeq(s.net, 1, k), "ok") : k \in Reads(s, 1, m)}
    ELSE IF s.over > 0 THEN {Res(s, <<>>, "panic")}
    ELSE LET k == Min({m, Len(s.buf)})
         IN  {Res(Advance(s, k), SubSeq(s.buf, 1, k), "ok")}

\* Mutant of Reported: the bytes that end the bulk count as data.
ReportedAll(k, n) == k

\* How many of k bytes read bulkReader.Read reports when it then has n left:
\* it takes off what is missing of the two bytes that end the bulk, also when
\* an earlier call has done so: the count of a call that gets the LF alone is
\* -1, with no error.
Reported(k, n) == IF 2 - n > 0 THEN k - (2 - n) ELSE k

\* What a handler has that had d, has been given v and takes the count n at its
\* word, as io.ReadAll does: it drops a byte when n is -1.
Counted(d, v, n) == SubSeq(d \o v, 1, Len(d) + n)

\* bulkReader.Read into a slice of m bytes.
Read(m) ==
    /\ pc = "handler"
    /\ cs.arg > 0
    /\ \E o \in bulkBytes(rd, Min({m, cs.arg})) :
          LET rest == cs.arg - Len(o.v)
              n    == Reported(Len(o.v), rest)
          IN  /\ rd' = o.s
              /\ pc' = IF o.e = "panic" THEN "panic" ELSE pc
              /\ cs' = [cs EXCEPT !.arg = rest]
              /\ data' = [data EXCEPT ![Len(data)] = Counted(@, o.v, n)]
    /\ alone' = IF cs.arg = 1 THEN alone \cup {Len(data)} ELSE alone
    /\ UNCHANGED <<requests, loopVars, names, got, argVars, orderly>>

\* Mutant of Discard: the rest of the argument being read is not skipped.
DiscardKeepsArg ==
    /\ pc = "handler"
    /\ pc' = "discard"
    /\ cs' = [cs EXCEPT !.pos = IF cs.isInline /\ More THEN ArgN ELSE @, !.arg = 0]
    /\ UNCHANGED <<requests, rd, loopVars, names, got, argVars, data, alone, orderly>>

\* Discard: an inline command has no bytes left in the reader.
Discard ==
    /\ pc = "handler"
    /\ pc' = "discard"
    /\ IF cs.isInline /\ More
       THEN cs' = [cs EXCEPT !.pos = ArgN] /\ UNCHANGED rd
       ELSE /\ cs' = [cs EXCEPT !.arg = 0]
            /\ IF cs.arg > 0 THEN \E o \in skipN(rd, cs.arg) : rd' = o.s
                             ELSE UNCHANGED rd
    /\ UNCHANGED <<requests, loopVars, names, got, argVars, data, alone, orderly>>

\* The loop of Discard: an error does not end it.
DiscardArg ==
    /\ pc = "discard" /\ cs.pos < cs.nargs
    /\ \E o \in SkipBulk(rd) :
          /\ rd' = o.s
          /\ pc' = IF o.e = "panic" THEN "panic" ELSE pc
    /\ cs' = [cs EXCEPT !.pos = @ + 1]
    /\ UNCHANGED <<requests, loopVars, names, got, argVars, data, alone, orderly>>

\* Discard returns, and the stream is recycled.
DiscardDone ==
    /\ pc = "discard" /\ cs.pos >= cs.nargs
    /\ pc' = "peek"
    /\ cs' = NewStream /\ data' = <<>> /\ alone' = {}
    /\ UNCHANGED <<requests, rd, loopVars, names, got, argVars, orderly>>

ReaderNext == PeekCmd \/ ReadCmd \/ ReadArg \/ ReadDone \/ SkipCmd \/ SkipArg

StreamNext ==
    \/ StreamCmd
    \/ NextArg
    \/ \E m \in 1 .. MaxRead : Read(m)
    \/ Discard
    \/ DiscardArg
    \/ DiscardDone

Next == (ReaderNext /\ UNCHANGED streamVars) \/ StreamNext

Spec == Init /\ [][Next]_vars

\* The connection goes on, and a handler returns.
FairSpec == Spec /\ WF_vars(Next)

-----------------------------------------------------------------------------
(* Properties *)

\* The reader's positions are those of a slice, the stream never counts more
\* arguments than the command has, and every variable has its type.
TypeOK ==
    /\ rd.r \in Nat /\ rd.cap \in Nat /\ rd.over \in 0 .. 1
    /\ rd.r + Len(rd.buf) - rd.over <= rd.cap
    /\ rd.buf \in Seq(ArgBytes) /\ rd.net \in Seq(ArgBytes)
    /\ pc \in {"peek", "perform", "bad", "read", "stream", "skip", "args", "bulks",
               "handler", "discard", "end", "panic"}
    /\ offset \in Nat /\ left \in Nat /\ parts \in Seq(Seq(ArgBytes))
    /\ names \in Seq(Seq(ArgBytes)) /\ got \in Seq(Seq(Seq(ArgBytes)))
    /\ Len(got) <= Len(names)
    /\ ArgsTypeOK
    /\ cs.arg \in Nat /\ cs.pos \in 0 .. cs.nargs + Len(cs.inline)
    /\ orderly \in BOOLEAN /\ alone \subseteq 1 .. Len(data)

Commands == CommandsOf(requests)

\* The client sends requests, not just any bytes.
Requested == \A i \in DOMAIN requests : requests[i].form # "raw"

\* ... which arrive in whole lines for which there is room, and no handler has
\* gone on to the next argument in the middle of one.
WellFormed == Requested /\ rd.whole /\ orderly

\* Every line has a command in it: a blank one is peeked as a command without
\* a name, but read together with the command after it.
Plain == WellFormed /\ \A i \in DOMAIN requests : requests[i].form # "blank"

\* However the bytes are cut into segments, PeekCmd sees the names of the
\* commands sent, in order, and ReadCmd gets exactly their arguments, also
\* when the bytes of an argument look like the end of a line, and whichever
\* commands the recycled Command held before.
CommandsReadBack ==
    Plain =>
    /\ Len(names) <= Len(Commands)
    /\ \A i \in DOMAIN names : names[i] = Commands[i].args[1]
    /\ \A i \in DOMAIN got : got[i] \in {<<>>, Commands[i].args}

\* Between two commands the unread bytes are those of the requests that are
\* left: ReadCmd, SkipCmd, and Discard after whatever part of the arguments a
\* handler has read, consume whole requests, and not a byte of the next one;
\* the commands among those requests are the ones not yet performed.
RequestAligned ==
    WellFormed /\ pc = "peek" =>
        \E i \in 0 .. Len(requests) :
            /\ Unread(rd) = AllBytes(After(requests, i))
            /\ Plain => After(Commands, Len(got)) = CommandsOf(After(requests, i))

\* A well-formed request is never answered by an error, and the connection
\* only ends once every command has been performed.
WellFormedAccepted ==
    WellFormed =>
    /\ pc \notin {"bad", "panic"}
    /\ pc = "end" /\ Plain => Len(got) = Len(Commands)

\* A handler gets the bytes of the arguments of its command, in order and
\* without those that end a bulk; an argument it has read to the end it has got
\* whole, unless the LF was left for a Read of its own: then, and only then, the
\* last byte is missing.
ArgumentsDelivered ==
    Plain /\ pc = "handler" =>
        LET args == Tail(Commands[Len(got)].args)
        IN  /\ Len(data) <= Len(args)
            /\ \A i \in DOMAIN data : IsPrefix(data[i], args[i])
            /\ Drained => \A i \in DOMAIN data :
                  data[i] = IF i \in alone THEN SubSeq(args[i], 1, Len(args[i]) - 1)
                                           ELSE args[i]

\* Whatever bytes a client sends, cut in whatever way, the loop gets to the end
\* of them unless a panic ends it first: an error of PeekCmd is followed by a
\* SkipCmd that leaves less (Client.pipeline).  This is for inputs that fit the
\* buffer: a line that overflows it is rejected and never consumed.
InputConsumed == <>(pc \in {"end", "panic"})

\* bufio.go: "ReadLine returns the next line until CRLF": it reads no further
\* than what was received.
LinesReceived == rd.over = 0

\* io.Reader, which Next returns: a Read adds to what the handler has got, and
\* takes nothing of it away.
ReadsAdd ==
    [][\A i \in DOMAIN data : data' # <<>> => IsPrefix(data[i], data'[i])]_vars

\* A request whose lines fit the buffer is not too big: PeekCmd does not answer
\* it by "Protocol error: too big inline request" (bufio.go), whichever way its
\* bytes arrive.
ShortLinesAccepted ==
    Requested /\ Len(AllBytes(requests)) <= BufferSize => pc # "bad"

=============================================================================
