--------------------------- MODULE RequestReader ---------------------------
(***************************************************************************)
(* RequestReader (resp/request.go) and Command (resp/command.go), driven   *)
(* the way Client.pipeline and Server.perform drive them: peek the name of *)
(* the next command, then read that command, or skip it when its name is   *)
(* unknown; after an error of PeekCmd skip whatever comes next.  Commands  *)
(* that are taken as a stream, and the whole specification, are in         *)
(* CommandStream.                                                          *)
(***************************************************************************)
EXTENDS Bufio, CommandArgs

CONSTANTS
    Inputs,     \* the sequences of requests a client may send
    BufferSize  \* len(buf) of a new reader

ASSUME SizeAssumption == BufferSize \in Nat \ {0}

\* ArgBytes has every byte that a reader may see.
ASSUME BytesAssumption ==
    /\ ArgBytes \subseteq Tokens
    /\ LF \in ArgBytes /\ Junk \in ArgBytes
    /\ \A b \in ArgBytes : Unquote(b) \in ArgBytes

\* What a client types: words on a line, with or without quotes, that are not
\* an array; no segment ends inside it.  The name is without quotes, which
\* PeekCmd would leave on.
Typed(args) ==
    /\ \A i \in DOMAIN args :
          Len(args[i]) = 1 /\ IsWord(args[i][1]) /\ ~args[i][1].end
    /\ args[1][1].k \notin {"*", "quoted"}

ASSUME InputsAssumption ==
    \A qs \in Inputs :
        /\ qs \in Seq([form : {"bulks", "inline", "zero", "blank", "raw"},
                       args : Seq(Seq(ArgBytes))])
        /\ AllBytes(qs) \in Seq(ArgBytes)
        /\ \A i \in DOMAIN qs :
              /\ qs[i].form \in {"bulks", "inline", "raw"} => qs[i].args # <<>>
              /\ qs[i].form = "inline" => Typed(qs[i].args)

VARIABLES
    requests,   \* what the client sends
    rd,         \* the bufioR of the RequestReader
    pc,         \* "peek", "perform", "bad" (PeekCmd failed); "read", "stream"
                \* and "skip" (readCommand or SkipCmd goes on after an empty
                \* array or a blank line); "args" and "bulks" (the loops that
                \* read and skip arguments); "handler" (a stream handler runs)
                \* and "discard" (its loop); "end", "panic"
    offset,     \* where peekCmd looks
    parts,      \* what ReadCmd has read of a command
    left,       \* how many arguments the loop has left
    names,      \* history: the names peeked
    got         \* history: the commands read; <<>> for one that was skipped or
                \* taken as a stream

loopVars   == <<offset, parts, left>>
readerVars == <<requests, rd, pc, loopVars, names, got>>

-----------------------------------------------------------------------------
(* RequestReader's methods.  Those that call themselves for what follows an *)
(* empty array or a blank line end with "empty" or "blank" instead: the     *)
(* action that took them is taken again.                                    *)

\* peekCmd looks for a name at an offset.
peekCmd(s, off) ==
    Then(PeekLine(s, off), LAMBDA l :
        IF l.v[1].k # "*" THEN {Res(l.s, FirstWord(l.v), "ok")}
        ELSE Then(ParseSize(l, "*"), LAMBDA n :
            IF Size(n) < 1 THEN {Res(n.s, l.v, "empty")}
            ELSE Then(PeekLine(n.s, off + Len(l.v)), LAMBDA b :
                Then(ParseSize(b, "$"), LAMBDA m :
                    PeekN(m.s, off + Len(l.v) + Len(b.v), Size(m))))))

\* readCommand, up to the arguments of a command that is an array: its value is
\* what it has read, and how many arguments there are left.
readCommand(s) ==
    Then(PeekByte(s), LAMBDA x :
        IF x.v[1].k = "*"
        THEN Then(ReadArrayLen(x.s), LAMBDA n :
                IF Size(n) < 1 THEN {Res(n.s, <<>>, "empty")}
                ELSE Then(ReadBulk(n.s), LAMBDA name :
                        {Res(name.s, [inline |-> FALSE, args |-> <<name.v>>,
                                      left |-> Size(n) - 1], "ok")}))
        ELSE Then(ReadLine(x.s), LAMBDA l :
                {Res(l.s, [inline |-> TRUE, args |-> Arguments(l.v), left |-> 0],
                     IF Words(l.v) = <<>> THEN "blank" ELSE "ok")}))

\* SkipCmd, up to the bulks of an array: its value is how many there are.
skipCmd(s) ==
    Then(PeekByte(s), LAMBDA x :
        IF x.v[1].k # "*"
        THEN Then(ReadLine(x.s), LAMBDA l : {Res(l.s, 0, "ok")})
        ELSE Then(ReadArrayLen(x.s), LAMBDA n :
                {IF Size(n) < 1 THEN Res(n.s, 0, "empty")
                                ELSE Res(n.s, Size(n), "ok")}))

-----------------------------------------------------------------------------
(* A connection *)

ReaderInit ==
    /\ requests \in Inputs
    /\ rd = NewReader(AllBytes(requests), BufferSize)
    /\ pc = "peek"
    /\ offset = 0 /\ parts = <<>> /\ left = 0
    /\ names = <<>>
    /\ got = <<>>
    /\ ArgsInit

Again(e) == e \in {"empty", "blank"}

\* Where an outcome leaves the loop of Client.pipeline: an error that is not a
\* protocol error ends the connection.
Resume(e, onProtocolError, again, next) ==
    CASE e = "ok" -> next
      [] Again(e) -> again
      [] e \in {"protocol", "toolong"} -> onProtocolError
      [] e = "EOF" -> "end"
      [] e = "panic" -> "panic"

PeekCmd ==
    /\ pc = "peek"
    /\ \E o \in peekCmd(rd, offset) :
          /\ rd' = o.s
          /\ pc' = Resume(o.e, "bad", "peek", "perform")
          /\ offset' = IF o.e = "empty" THEN offset + Len(o.v) ELSE 0
          /\ names' = IF o.e = "ok" THEN Append(names, o.v) ELSE names
    /\ UNCHANGED <<requests, parts, left, got, argVars>>

ReadCmd ==
    /\ pc \in {"perform", "read"}
    /\ \E o \in readCommand(rd) :
          /\ rd' = o.s
          /\ pc' = Resume(o.e, "peek", "read", "args")
          /\ IF o.e = "ok" THEN parts' = o.v.args /\ left' = o.v.left
                           ELSE UNCHANGED <<parts, left>>
          /\ IF o.e = "ok" \/ Again(o.e) THEN UNCHANGED argVars ELSE ReadFails
    /\ UNCHANGED <<requests, offset, names, got>>

\* The loop of readMultiBulk: when an argument cannot be read, it and the ones
\* after it are empty.
ReadArg ==
    /\ pc = "args" /\ left > 0
    /\ \E o \in ReadBulk(rd) :
          /\ rd' = o.s
          /\ pc' = Resume(o.e, "peek", "args", "args")
          /\ IF o.e = "ok"
             THEN /\ parts' = Append(parts, o.v) /\ left' = left - 1
                  /\ UNCHANGED argVars
             ELSE /\ parts' = <<>> /\ left' = 0
                  /\ \E spare \in 0 .. MaxSpare :
                        ReadBulks(Tail(parts) \o [i \in 1 .. left |-> <<>>],
                                  Len(parts) - 1, spare)
    /\ UNCHANGED <<requests, offset, names, got>>

\* ReadCmd returns; the command is recycled.
ReadDone ==
    /\ pc = "args" /\ left = 0
    /\ pc' = "peek"
    /\ parts' = <<>>
    /\ \E spare \in 0 .. MaxSpare : ReadBulks(Tail(parts), Len(parts) - 1, spare)
    /\ got' = Append(got, <<Head(parts)>> \o SubSeq(mem', 1, argn'))
    /\ UNCHANGED <<requests, rd, offset, left, names>>

\* Server.perform and Client.pipeline ignore the error of SkipCmd.
Skipping(e, n) ==
    CASE e = "panic" -> "panic"
      [] e = "empty" -> "skip"
      [] e = "ok" /\ n > 0 -> "bulks"
      [] OTHER -> "peek"

\* Mutant of SkipCmd: the pipeline does not skip what PeekCmd rejected.
SkipOnlyUnknown ==
    /\ pc \in {"perform", "bad", "skip"}
    /\ \E o \in IF pc = "bad" THEN {Res(rd, 0, "ok")} ELSE skipCmd(rd) :
          /\ rd' = o.s
          /\ left' = IF o.e = "ok" THEN o.v ELSE 0
          /\ pc' = Skipping(o.e, left')
          /\ got' = IF pc = "perform" THEN Append(got, <<>>) ELSE got
    /\ UNCHANGED <<requests, offset, parts, names, argVars>>

SkipCmd ==
    /\ pc \in {"perform", "bad", "skip"}
    /\ \E o \in skipCmd(rd) :
          /\ rd' = o.s
          /\ left' = IF o.e = "ok" THEN o.v ELSE 0
          /\ pc' = Skipping(o.e, left')
          /\ got' = IF pc = "perform" THEN Append(got, <<>>) ELSE got
    /\ UNCHANGED <<requests, offset, parts, names, argVars>>

\* The loop of SkipCmd ends with an error.
SkipArg ==
    /\ pc = "bulks"
    /\ \E o \in SkipBulk(rd) :
          /\ rd' = o.s
          /\ left' = IF o.e = "ok" THEN left - 1 ELSE 0
          /\ pc' = Skipping(o.e, left')
    /\ UNCHANGED <<requests, offset, parts, names, got, argVars>>

=============================================================================
