----------------------------- MODULE Responses -----------------------------
(***************************************************************************)
(* Replies from the handler to the client.  A server's handlers (redeo.go) *)
(* append replies to a ResponseWriter; a client Scans them one by one into *)
(* a variable that it uses again and again; redeotest's ResponseRecorder   *)
(* parses all of them.                                                     *)
(***************************************************************************)
EXTENDS Values

CONSTANTS
    Returned,   \* the values a WrapperFunc may return
    Types,      \* the types of the variable the client scans into
    Words,      \* arguments of the other handlers
    Lower,      \* strings.ToLower on Words
    Subs,       \* SubCommands: lower-case name -> "ping" or "echo"
    Commands,   \* CommandDescriptions: the numbers of flags of each command
    MaxCalls    \* commands served (bound)

ASSUME CallsAssumption == MaxCalls \in Nat /\ Lower \in [Words -> Words]

VARIABLES
    T, dst,     \* the client's variable: its type and its value
    sent,       \* history: for each call what it replied, as a value and as
                \* elements
    wire,       \* the elements the client has not read
    scanned,    \* Scans made
    err         \* what the last of them returned

vars == <<T, dst, sent, wire, scanned, err>>

Init ==
    /\ T \in Types /\ dst = Zero(T)
    /\ sent = <<>> /\ wire = <<>> /\ scanned = 0
    /\ err = "ok"

-----------------------------------------------------------------------------
(* The handlers *)

\* A call of a handler that appends es, which says v.
Reply(v, es) ==
    /\ Len(sent) < MaxCalls
    /\ sent' = Append(sent, [v |-> v, es |-> es])
    /\ wire' = wire \o es
    /\ UNCHANGED <<T, dst, scanned, err>>

AppendBulk(w)   == Reply(Str(w, 0), <<El("bulk", w, 0)>>)
AppendInline(w) == Reply(Str(w, 0), <<El("inline", w, 0)>>)
AppendError     == Reply(Val("error", "ERR", 0, <<>>), <<El("error", "ERR", 0)>>)

Ping(args) ==
    CASE Len(args) = 0 -> AppendInline("PONG")
      [] Len(args) = 1 -> AppendBulk(args[1])
      [] OTHER -> AppendError
Echo(args) == IF Len(args) = 1 THEN AppendBulk(args[1]) ELSE AppendError

\* One section, all of them, or nothing for a section there is not.
Info(args) == \E text \in {"info", ""} :
    (text = "" => Len(args) = 1) /\ AppendBulk(text)

SubCommands(args) ==
    IF args # <<>> /\ Lower[args[1]] \in DOMAIN Subs
    THEN IF Subs[Lower[args[1]]] = "ping" THEN Ping(Tail(args)) ELSE Echo(Tail(args))
    ELSE AppendError

\* CommandDescriptions: an array of six items per command, one of them the
\* array of its flags.
Description(flags) ==
    AppendArrayLen(6) \o <<El("bulk", "name", 0)>> \o AppendInt(1)
        \o AppendArrayLen(flags) \o [i \in 1 .. flags |-> El("bulk", "flag", 0)]
        \o AppendInt(1) \o AppendInt(1) \o AppendInt(1)
Flags(n) == Val("slice", "", 0, [i \in 1 .. n |-> Str("flag", 0)])
Described(flags) ==
    Val("slice", "", 0, <<Str("name", 0), Int64(1), Flags(flags), Int64(1),
                          Int64(1), Int64(1)>>)
CommandDescriptions ==
    Reply(Val("slice", "", 0, [i \in DOMAIN Commands |-> Described(Commands[i])]),
          AppendArrayLen(Len(Commands))
              \o FlattenSeq([i \in DOMAIN Commands |-> Description(Commands[i])]))

\* Mutant of WrapperFunc: it does not answer when Append fails.
WrapperFuncSilent(v) == \E es \in Encodings(v) : Reply(v, es)

\* WrapperFunc answers with the value, or with the error of Append.
WrapperFunc(v) ==
    IF Unsupported(v) THEN AppendError
    ELSE \E es \in Encodings(v) : Reply(v, es)

Call ==
    \/ \E v \in Returned : WrapperFunc(v)
    \/ \E args \in SeqOf(Words, 2) :
          Ping(args) \/ Echo(args) \/ Info(args) \/ SubCommands(args)
    \/ CommandDescriptions

-----------------------------------------------------------------------------
(* The client, and the recorder of tests *)

Scan ==
    /\ wire # <<>>
    /\ scanned < Len(sent)
    /\ LET o == scan(wire, T, dst)
       IN  dst' = o.v /\ wire' = o.es /\ err' = o.e
    /\ scanned' = scanned + 1
    /\ UNCHANGED <<T, sent>>

\* parseResult: the first value of some elements.
RECURSIVE parseResult(_), parseItems(_, _, _)
parseItems(es, vs, n) ==
    IF n = 0 THEN Got(es, "ok", Val("slice", "", 0, vs))
    ELSE LET o == parseResult(es)
         IN  IF o.e = "ok" THEN parseItems(o.es, Append(vs, o.v), n - 1) ELSE o
parseResult(es) ==
    IF es = <<>> THEN Got(es, "EOF", Nil)
    ELSE LET x == Head(es)
             r == Tail(es)
         IN  CASE x.t \in {"bulk", "inline"} -> Got(r, "ok", Str(x.w, x.n))
               [] x.t = "int"   -> Got(r, "ok", Int64(ReadInt(x.n)))
               [] x.t = "error" -> Got(r, "ok", Val("error", x.w, x.n, <<>>))
               [] x.t = "nil"   -> Got(r, "ok", Nil)
               [] x.t = "array" -> parseItems(r, <<>>, x.n)

\* Mutant of parseAll: it takes a nil for the end.
RECURSIVE parseAllUpToNil(_)
parseAllUpToNil(es) ==
    LET o == parseResult(es)
    IN  IF o.e = "EOF" \/ o.v = Nil THEN <<>> ELSE <<o.v>> \o parseAllUpToNil(o.es)

\* ResponseRecorder.Responses parses up to the end; Response takes the last.
RECURSIVE parseAll(_)
parseAll(es) ==
    LET o == parseResult(es)
    IN  IF o.e = "EOF" THEN <<>> ELSE <<o.v>> \o parseAll(o.es)

Recorded  == FlattenSeq([i \in DOMAIN sent |-> sent[i].es])
Responses == parseAll(Recorded)
Response  == IF Responses = <<>> THEN Nil ELSE Last(Responses)

Next == Call \/ Scan

Spec == Init /\ [][Next]_vars

-----------------------------------------------------------------------------
(* Properties *)

\* The number of whole replies that some elements are, -1 if a part is left.
\* An element completes one item of every array it closes.
RECURSIVE Frames(_, _)
Frames(es, open) ==
    IF open # <<>> /\ Last(open) = 0 THEN Frames(es, Front(open))
    ELSE IF es = <<>> THEN (IF open = <<>> THEN 0 ELSE -1)
    ELSE LET rest == IF open = <<>> THEN <<>>
                     ELSE [open EXCEPT ![Len(open)] = @ - 1]
             next == IF Head(es).t = "array" THEN Append(rest, Head(es).n) ELSE rest
             n    == Frames(Tail(es), next)
         IN  IF n = -1 THEN -1 ELSE IF open = <<>> THEN n + 1 ELSE n

\* v is a value of type t.
RECURSIVE HasType(_, _)
HasType(v, t) ==
    /\ v.k = t.k
    /\ v.k \in {"int", "uint"} => InRange(v.n, t)
    /\ v.k = "slice" => \A i \in DOMAIN v.e : HasType(v.e[i], t.e[1])
    /\ v.k = "map" => \A i \in DOMAIN v.e : \A j \in {1, 2} :
          HasType(v.e[i].e[j], t.e[j])

\* Somewhere in v there is a value of kind k.
RECURSIVE Holds(_, _)
Holds(v, k) == v.k = k \/ \E i \in DOMAIN v.e : Holds(v.e[i], k)

\* Every element of v is found in d.
RECURSIVE Covers(_, _)
Covers(d, v) ==
    CASE v.k = "slice" -> /\ Len(d.e) >= Len(v.e)
                          /\ \A i \in DOMAIN v.e : Covers(d.e[i], v.e[i])
      [] v.k = "map"   -> ToSet(v.e) \subseteq ToSet(d.e)
      [] OTHER -> d = v

\* Arrays in v meet slices in t; one that is skipped holds no error.
RECURSIVE Shaped(_, _)
Shaped(v, t) ==
    CASE t.k = "nil" -> v.k = "error" \/ ~Holds(v, "error")
      [] v.k = "slice" /\ t.k # "null" ->
            t.k = "slice" /\ \A i \in DOMAIN v.e : Shaped(v.e[i], t.e[1])
      [] v.k = "map" -> HasType(v, t)
      [] OTHER -> v.k # "slice"

\* Every variable has its type; the client's variable has the type that the
\* program gave it.
TypeOK ==
    /\ T \in Types /\ scanned \in 0 .. Len(sent)
    /\ err \in {"ok", "EOF", "server", "conversion"}
    /\ \/ HasType(dst, T)
       \/ T.k = "iface" /\ dst.k \in {"nil", "string", "int"}
       \/ T.k = "bytes" /\ dst = Nil

\* Whatever a handler is called with and whatever it returns, it appends one
\* whole reply: the header of every array counts what follows it (Append and
\* the handlers of redeo.go).  Elements of an unsupported type are excepted:
\* see RejectsBadTypes.
RepliesWhole ==
    \A i \in DOMAIN sent :
        \/ Frames(sent[i].es, <<>>) = 1
        \/ \E j \in DOMAIN sent[i].v.e : Holds(sent[i].v.e[j], "struct")

Aligned == \A i \in 1 .. scanned : Shaped(sent[i].v, T)

\* A Scan leaves the client's variable with a value of its type, whatever the
\* reply, and consumes one reply and no more, also when it fails half-way
\* through it, as long as it meets no array where it wants none (scan,
\* scanArray).
ScanAligned ==
    /\ TypeOK
    /\ Aligned => Frames(wire, <<>>) = Len(sent) - scanned

Scanned == sent[scanned].v

\* What a handler returns is what the client gets when it scans into a
\* variable of the same type: uint64s beyond the int64s, maps in whatever
\* order and nested slices included.  A slice or a map that an earlier reply
\* has filled may keep more than that (Append and Scan).
RoundTrip ==
    scanned > 0 /\ Aligned /\ HasType(Scanned, T) /\ T.k # "null" =>
        /\ err = "ok" /\ Covers(dst, Scanned)
        /\ scanned = 1 => Covers(Scanned, dst)

\* An integer, sent as a number or as text, gets into a narrower or a wider
\* integer unchanged if it fits; text that does not fit is an error (scanInt,
\* scanString).
NumbersFit ==
    LET n == Wrap(Scanned.n, Int64T)
    IN  scanned > 0 /\ Aligned /\ T.k \in {"int", "uint"} =>
        /\ Scanned.k \in {"int", "uint"} /\ InRange(n, T) =>
              err = "ok" /\ dst.n = n
        /\ Scanned.k = "string" /\ Scanned.w = "num" =>
              IF InRange(Scanned.n, T) THEN err = "ok" /\ dst.n = Scanned.n
                                       ELSE err # "ok"

\* The recorder finds every reply, each as if it were alone (Responses).
RecorderComplete ==
    /\ Len(Responses) = Len(sent)
    /\ \A i \in DOMAIN sent : Responses[i] = parseResult(sent[i].es).v

\* resp/response_test.go: "should reject bad custom types": Append accepts no
\* value that holds one of them, at whatever depth.
RejectsBadTypes == \A i \in DOMAIN sent : ~Holds(sent[i].v, "struct")

\* redeotest.go: "Response returns the first response".
ResponseIsFirst == sent # <<>> => Response = parseResult(sent[1].es).v

\* resp.go: "NullString is a scannable that can deal with nil values": after a
\* successful Scan it says what the last reply said.
NullReflectsReply ==
    scanned > 0 /\ Aligned /\ T.k = "null" /\ err = "ok" =>
        (dst.e = <<>> <=> Scanned.k = "nil")

=============================================================================
