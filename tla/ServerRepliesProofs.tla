------------------------ MODULE ServerRepliesProofs ------------------------
(***************************************************************************)
(* Proofs about what the clients of Server get: every reply, in order, and *)
(* none held back, for any set of connections and any number of requests.  *)
(***************************************************************************)
EXTENDS ServerProofs, SequenceTheorems

(***************************************************************************)
(* A connection by itself: the replies in its writer, and the input that   *)
(* its goroutine has still to parse, read or not.                          *)
(***************************************************************************)
Written(c) == wbuf[wr[c]]
Stream(c)  == Input(c) \o wire[c]

Ending == {"fatal", "lastflush", "deregister", "release", "done"}

\* The request in front of c's input is being served.
Serving(c) ==
    \/ pc[c] \in {"skip", "cmd", "cmdinc", "read", "stream", "discard"}
    \/ pc[c] = "check" /\ h[c] = "stream"

(***************************************************************************)
(* Where the goroutine is, and what it has then.                           *)
(***************************************************************************)
Fresh(c) ==
    pc[c] = "idle" =>
        /\ out[c] = <<>> /\ wire[c] = <<>> /\ owed[c] = <<>>
        /\ sent[c] = 0 /\ answered[c] = 0
        /\ ~closed[c] /\ peer[c] = "open" /\ deadline[c] = "none"

AtRequest(c) ==
    /\ Serving(c) => HasHead(c) /\ Current(c).fault # "peek"
    /\ pc[c] \in {"cmd", "cmdinc"} => h[c] # "none"
    /\ pc[c] = "read" => h[c] = "handler"
    /\ pc[c] \in {"stream", "discard"} => h[c] = "stream"

\* Nothing is in the writer when serveClient waits for a request of which
\* nothing has arrived.
Drained(c) ==
    /\ pc[c] \in {"add", "inc", "loop"} => Written(c) = <<>>
    /\ pc[c] = "peek" /\ ~Buffered(c) => Written(c) = <<>>
    /\ pc[c] \in {"skip", "lastflush"} => Written(c) # <<>>

Closing(c) ==
    /\ pc[c] \in {"add", "inc"} => ~closed[c]
    /\ pc[c] = "peek" /\ closed[c] => Buffered(c)
    /\ ~TimeoutOn => deadline[c] = "none"

Control(c)  == Fresh(c) /\ AtRequest(c) /\ Drained(c) /\ Closing(c)

(***************************************************************************)
(* Every reply is in the writer or has been received, unless the peer is   *)
(* gone or a write has met the deadline: then nothing more is received.    *)
(***************************************************************************)
Silent(c) ==
    \/ peer[c] = "gone"
    \/ /\ deadline[c] = "expired"
       /\ \/ pc[c] \in Ending
          \/ pc[c] = "discard" /\ err[c] = "io"

FatalLast(s) == \A i \in 1 .. Len(s) : s[i].kind = "fatal" => i = Len(s)
NoFatal(s)   == \A i \in 1 .. Len(s) : s[i].kind # "fatal"
OwnedBy(c, s) == \A i \in 1 .. Len(s) : s[i].cn = c

Owned(c) ==
    /\ OwnedBy(c, out[c]) /\ FatalLast(out[c])
    /\ Live(c) => OwnedBy(c, Written(c)) /\ FatalLast(Written(c))
    /\ pc[c] \notin {"deregister", "release", "done"} => NoFatal(out[c])
    /\ Live(c) /\ pc[c] \notin {"lastflush", "deregister", "release"} =>
          NoFatal(Written(c))

Accounted(c) ==
    /\ Live(c) /\ pc[c] \notin {"lastflush", "deregister", "release"} =>
          Len(out[c]) + Len(Written(c)) = answered[c]
    /\ pc[c] = "lastflush" =>
          /\ Written(c)[Len(Written(c))].kind = "fatal"
          /\ Len(out[c]) + Len(Written(c)) = answered[c] + 1
    /\ pc[c] \in {"deregister", "release", "done"} =>
          \/ NoFatal(out[c]) /\ Len(out[c]) = answered[c]
          \/ /\ out[c] # <<>> /\ out[c][Len(out[c])].kind = "fatal"
             /\ Len(out[c]) = answered[c] + 1

Output(c) == Owned(c) /\ (~Silent(c) => Accounted(c))

(***************************************************************************)
(* The input is a sequence of whole requests, numbered as they were sent.  *)
(***************************************************************************)
\* With Config.Timeout the handlers of streamed commands close their client.
Steady ==
    TimeoutOn => \A r \in Registrations : r[2] = "stream" => Lower[r[1]] \in Closers

StreamsClose ==
    TimeoutOn => \A m \in Names : cmds[m] = "stream" => m \in Closers

\* The client is closed before the arguments of a stream are discarded.
ClosesStream(c) ==
    TimeoutOn /\ h[c] = "stream" =>
        /\ pc[c] \in {"cmd", "cmdinc", "stream"} =>
              Lower[Current(c).name] \in Closers
        /\ pc[c] \in {"check", "discard"} => closed[c]

\* The request in front has been answered.
Taken(c) == pc[c] \in {"skip", "discard"} \/ (pc[c] = "check" /\ h[c] = "stream")

\* c parses no further request.
Finished(c) ==
    \/ pc[c] \in Ending
    \/ pc[c] \in {"flush", "loop"} /\ closed[c]
    \/ pc[c] = "flush" /\ Written(c) # <<>> /\ deadline[c] = "expired"

HasBodyToCome(p) == p.part = "head" /\ p.req.fault # "peek"
Follows(p, q) ==
    IF HasBodyToCome(p) THEN q = [part |-> "body", req |-> p.req]
    ELSE q.part = "head" /\ q.req.n = p.req.n + 1

\* s holds whole requests, the first one number n.
Whole(s, n) ==
    /\ s # <<>> => s[1].part = "head" /\ s[1].req.n = n
    /\ \A i \in 1 .. Len(s) - 1 : Follows(s[i], s[i + 1])

\* s ends with request m, of which o says what is still owed.
UpTo(s, m, o) ==
    /\ s # <<>> /\ s[Len(s)].req.n = m
    /\ o = IF HasBodyToCome(s[Len(s)]) THEN <<s[Len(s)].req>> ELSE <<>>

\* Everything up to request m has been sent, and s is what is left from n on.
Pending(s, n, m, o) == UpTo(s, m, o) \/ (s = <<>> /\ o = <<>> /\ n = m + 1)

Bounded(s, m) == \A i \in 1 .. Len(s) : s[i].req.n <= m

First(c) == IF Taken(c) THEN answered[c] ELSE answered[c] + 1

Parsing(c) ==
    /\ Whole(Stream(c), First(c)) /\ Bounded(Stream(c), sent[c])
    /\ peer[c] = "open" => Pending(Stream(c), First(c), sent[c], owed[c])

Numbered(s, n) ==
    \A i \in 1 .. Len(s) : s[i].kind # "fatal" => s[i].n = n + i

Parses(c) == answered[c] <= sent[c] /\ (Live(c) /\ ~Finished(c) => Parsing(c))

InOrder(c) ==
    /\ Numbered(out[c], 0)
    /\ Live(c) /\ ~Silent(c) => Numbered(Written(c), Len(out[c]))

InputInv(c) == ClosesStream(c) /\ Parses(c) /\ InOrder(c)

(***************************************************************************)
(* What a step does to the connection that takes it, in its own terms, and *)
(* that it leaves the other connections alone.                             *)
(***************************************************************************)
SameFlags(c)  == closed'[c] = closed[c] /\ h'[c] = h[c] /\ err'[c] = err[c]
SamePeer(c)   == peer'[c] = peer[c] /\ sent'[c] = sent[c] /\ owed'[c] = owed[c]
KeepsInput(c) == Input(c)' = Input(c) /\ (Buffered(c) => Buffered(c)')
SameInput(c)  == KeepsInput(c) /\ wire'[c] = wire[c] /\ SamePeer(c)
SameOutput(c) ==
    /\ Written(c)' = Written(c) /\ out'[c] = out[c]
    /\ answered'[c] = answered[c]
SameDeadline(c) == deadline'[c] = deadline[c]

\* Only the place of c's goroutine changes.
Walks(c) ==
    SameFlags(c) /\ SameInput(c) /\ SameOutput(c) /\ SameDeadline(c)

\* c's goroutine appends r to its writer.
Appends(c, r) ==
    /\ Written(c)' = Append(Written(c), r)
    /\ out'[c] = out[c] /\ deadline'[c] = deadline[c]

\* r answers the request in front.
AnswersWith(c, r) == Appends(c, r) /\ answered'[c] = answered[c] + 1

\* c's goroutine consumes input up to rest.
Consumes(c, rest) ==
    Input(c)' = rest /\ wire'[c] = wire[c] /\ SamePeer(c)

Untouched(d) ==
    /\ pc'[d] = pc[d] /\ SameFlags(d) /\ SamePeer(d) /\ SameDeadline(d)
    /\ wire'[d] = wire[d] /\ out'[d] = out[d] /\ answered'[d] = answered[d]
    /\ id'[d] = id[d]
    /\ Live(d) => KeepsInput(d) /\ Written(d)' = Written(d)

\* Some of the input in flight arrives.
Arrives(c, k) ==
    /\ Input(c)' = Input(c) \o SubSeq(wire[c], 1, k)
    /\ wire'[c] = SubSeq(wire[c], k + 1, Len(wire[c]))
    /\ SamePeer(c)

Failing(c) ==
    \/ deadline[c] = "expired"
    \/ peer[c] # "open" /\ wire[c] = <<>>

\* What SkipCmd and Discard leave of the input.
Rest(c) == IF HasBody(c) THEN Tail(Tail(Input(c))) ELSE <<>>

Part(c) == HasBody(c) /\ cut[rd[c]]

\* A flush that works, and one that does not.
FlushDone(c) ==
    /\ Written(c) = <<>> \/ deadline[c] # "expired"
    /\ out'[c] = IF peer[c] = "gone" THEN out[c] ELSE out[c] \o Written(c)
    /\ Written(c)' = <<>>
    /\ deadline'[c] = deadline[c]
FlushLost(c) ==
    /\ Written(c) # <<>>
    /\ Written(c)' = Written(c)
    /\ \/ /\ peer[c] = "gone" \/ deadline[c] = "expired"
          /\ out'[c] = out[c] /\ deadline'[c] = deadline[c]
       \/ /\ deadline[c] = "armed" /\ peer[c] # "gone"
          /\ deadline'[c] = "expired"
          /\ \E k \in 0 .. Len(Written(c)) - 1 :
                out'[c] = out[c] \o SubSeq(Written(c), 1, k)

\* The pipeline goes on with the next request, or returns.
Proceeds(c, rest) ==
    \/ pc'[c] = "peek" /\ Buffered(c)'
    \/ pc'[c] = "flush" /\ rest = <<>>

\* The goroutine goes on after the flush at the end of perform.
GoesOn(c, e) ==
    IF h[c] = "stream" THEN err'[c] = e /\ pc'[c] = "discard"
    ELSE /\ err'[c] = err[c]
         /\ IF e = "io" THEN pc'[c] = "fatal" ELSE Proceeds(c, Input(c))

\* The request that the client of c sends next.
Request(c, s, f) == [cn |-> c, n |-> sent[c] + 1, name |-> s, fault |-> f]

LEMMA OwnObjects ==
    ASSUME TypeOK, PoolInv, NEW c \in Conns, Live(c)
    PROVE  src[rd[c]] = c /\ dst[wr[c]] = c /\ rd[c] \in Conns /\ wr[c] \in Conns
BY DEF PoolInv, PoolExclusive, TypeOK, ClientTypeOK

LEMMA RestType ==
    ASSUME TypeOK, NEW c \in Conns
    PROVE  Rest(c) \in Seq(Pieces)
<1>1. <<>> \in Seq(Pieces)
  OBVIOUS
<1> QED
  BY <1>1, BodyType DEF Rest

LEMMA LocalType ==
    ASSUME TypeOK, NEW c \in Conns
    PROVE  /\ Input(c) \in Seq(Pieces) /\ wire[c] \in Seq(Pieces)
           /\ Written(c) \in Seq(Replies) /\ out[c] \in Seq(Replies)
           /\ sent[c] \in Nat /\ answered[c] \in Nat
           /\ pc[c] \in Labels /\ closed[c] \in BOOLEAN
           /\ h[c] \in Kinds \cup {"none"} /\ err[c] \in {"nil", "io"}
           /\ peer[c] \in {"open", "half", "gone"}
           /\ deadline[c] \in {"none", "armed", "expired"}
           /\ owed[c] \in Seq(Requests)
BY DEF TypeOK, ClientTypeOK, ObjectsTypeOK, NetworkTypeOK, ServerTypeOK, Input,
       Written

USE DEF TypeOK, ClientTypeOK, ObjectsTypeOK, NetworkTypeOK, ServerTypeOK,
        Input, Written, Goto, client, objects, network, history, SameFlags,
        SamePeer, KeepsInput, SameInput, SameOutput, SameDeadline, Walks,
        Appends, AnswersWith, Consumes, Arrives, Buffered, HasHead

LEMMA RegisterAddView ==
    ASSUME TypeOK, PoolInv, NEW c \in Conns, RegisterAdd(c)
    PROVE  /\ pc[c] = "add" /\ pc'[c] = "inc" /\ Walks(c)
<1>1. Live(c)
  BY DEF RegisterAdd, Live
<1>2. src[rd[c]] = c /\ dst[wr[c]] = c /\ rd[c] \in Conns /\ wr[c] \in Conns
  BY <1>1, OwnObjects
<1> QED
  BY <1>1, <1>2 DEF RegisterAdd

LEMMA RegisterIncView ==
    ASSUME TypeOK, PoolInv, NEW c \in Conns, RegisterInc(c)
    PROVE  /\ pc[c] = "inc" /\ pc'[c] = "loop" /\ Walks(c)
<1>1. Live(c)
  BY DEF RegisterInc, Live
<1>2. src[rd[c]] = c /\ dst[wr[c]] = c /\ rd[c] \in Conns /\ wr[c] \in Conns
  BY <1>1, OwnObjects
<1> QED
  BY <1>1, <1>2 DEF RegisterInc

LEMMA LoopTopView ==
    ASSUME TypeOK, PoolInv, NEW c \in Conns, LoopTop(c)
    PROVE  /\ pc[c] = "loop" /\ SameFlags(c) /\ SameInput(c) /\ SameOutput(c)
           /\ IF closed[c] THEN pc'[c] = "deregister" /\ SameDeadline(c)
              ELSE /\ pc'[c] = "peek"
                   /\ deadline'[c] = IF TimeoutOn THEN "armed" ELSE deadline[c]
<1>1. Live(c)
  BY DEF LoopTop, Live
<1>2. src[rd[c]] = c /\ dst[wr[c]] = c /\ rd[c] \in Conns /\ wr[c] \in Conns
  BY <1>1, OwnObjects
<1>3. CASE closed[c]
  BY <1>1, <1>2, <1>3 DEF LoopTop
<1>4. CASE ~closed[c]
  BY <1>1, <1>2, <1>4 DEF LoopTop
<1> QED
  BY <1>3, <1>4

LEMMA FillView ==
    ASSUME TypeOK, PoolInv, NEW c \in Conns, Fill(c)
    PROVE  /\ \/ pc[c] = "peek" /\ ~HasHead(c)
              \/ pc[c] \in {"read", "stream", "skip", "discard"} /\ ~HasBody(c)
           /\ pc'[c] = pc[c] /\ SameFlags(c) /\ SameOutput(c) /\ SameDeadline(c)
           /\ \E k \in 0 .. Len(wire[c]) :
                 Arrives(c, k) /\ (k = 0 => Buffered(c)')
<1>1. Live(c)
  BY DEF Fill, Live
<1>2. src[rd[c]] = c /\ dst[wr[c]] = c /\ rd[c] \in Conns /\ wr[c] \in Conns
  BY <1>1, OwnObjects
<1>3. PICK k \in 0 .. Len(wire[c]), part \in BOOLEAN :
         /\ k = 0 => part
         /\ rbuf' = [rbuf EXCEPT ![rd[c]] = @ \o SubSeq(wire[c], 1, k)]
         /\ cut' = [cut EXCEPT ![rd[c]] = part]
         /\ wire' = [wire EXCEPT ![c] = SubSeq(wire[c], k + 1, Len(wire[c]))]
  BY <1>2 DEF Fill
<1>4. SamePeer(c) /\ rd' = rd
  BY DEF Fill
<1>5. Arrives(c, k)
  BY <1>2, <1>3, <1>4
<1>6. k = 0 => Buffered(c)'
  <2>1. cut'[rd'[c]] = part
    BY <1>2, <1>3, <1>4
  <2> QED
    BY <1>3, <2>1
<1> HIDE DEF Arrives, Buffered
<1> QED
  BY <1>5, <1>6 DEF Fill

LEMMA PeekFaultView ==
    ASSUME TypeOK, PoolInv, NEW c \in Conns, PeekFault(c)
    PROVE  /\ pc[c] = "peek" /\ HasHead(c) /\ Current(c).fault = "peek"
           /\ pc'[c] = "flush" /\ SameFlags(c) /\ Consumes(c, Tail(Input(c)))
           /\ AnswersWith(c, Reply(c, "proto"))
<1>1. Live(c)
  BY DEF PeekFault, Live
<1>2. src[rd[c]] = c /\ dst[wr[c]] = c /\ rd[c] \in Conns /\ wr[c] \in Conns
  BY <1>1, OwnObjects
<1> QED
  BY <1>1, <1>2 DEF PeekFault, AppendReply

LEMMA PeekFailView ==
    ASSUME TypeOK, PoolInv, NEW c \in Conns, PeekFail(c)
    PROVE  /\ pc[c] = "peek" /\ ~HasHead(c) /\ Failing(c)
           /\ pc'[c] = "fatal" /\ Walks(c)
<1>1. Live(c)
  BY DEF PeekFail, Live
<1>2. src[rd[c]] = c /\ dst[wr[c]] = c /\ rd[c] \in Conns /\ wr[c] \in Conns
  BY <1>1, OwnObjects
<1> QED
  BY <1>1, <1>2 DEF PeekFail, ReadFails, InputFails, Failing

LEMMA LookupView ==
    ASSUME TypeOK, PoolInv, NEW c \in Conns, Lookup(c)
    PROVE  /\ pc[c] = "peek" /\ HasHead(c) /\ Current(c).fault # "peek"
           /\ h'[c] = cmds[Lower[Current(c).name]]
           /\ closed'[c] = closed[c] /\ err'[c] = err[c] /\ SameInput(c)
           /\ IF h'[c] = "none"
              THEN pc'[c] = "skip" /\ AnswersWith(c, Reply(c, "unknown"))
              ELSE pc'[c] = "cmd" /\ SameOutput(c) /\ SameDeadline(c)
<1>1. Live(c)
  BY DEF Lookup, Live
<1>2. src[rd[c]] = c /\ dst[wr[c]] = c /\ rd[c] \in Conns /\ wr[c] \in Conns
  BY <1>1, OwnObjects
<1>3. /\ h'[c] = cmds[Lower[Current(c).name]]
      /\ closed'[c] = closed[c] /\ err'[c] = err[c] /\ SameInput(c)
  BY <1>2 DEF Lookup
<1> HIDE DEF SameInput
<1>4. CASE h'[c] = "none"
  BY <1>1, <1>2, <1>3, <1>4 DEF Lookup, AppendReply
<1>5. CASE h'[c] # "none"
  BY <1>1, <1>2, <1>3, <1>5 DEF Lookup
<1> QED
  BY <1>3, <1>4, <1>5 DEF Lookup

LEMMA RestProceeds ==
    ASSUME TypeOK, NEW c \in Conns, rd[c] \in Conns, rd' = rd,
           rbuf' = [rbuf EXCEPT ![rd[c]] = Rest(c)],
           cut' = [cut EXCEPT ![rd[c]] = Part(c)],
           Goto(c, NextInPipeline(Rest(c), Part(c)))
    PROVE  /\ Proceeds(c, Rest(c))
           /\ HasBody(c) \/ pc'[c] = "flush"
<1>1. /\ rbuf'[rd'[c]] = Rest(c) /\ cut'[rd'[c]] = Part(c)
      /\ pc'[c] = NextInPipeline(Rest(c), Part(c))
  OBVIOUS
<1>2. ~HasBody(c) => Rest(c) = <<>> /\ ~Part(c)
  BY DEF Rest, Part
<1>3. CASE Rest(c) = <<>> /\ ~Part(c)
  BY <1>1, <1>3 DEF NextInPipeline, Proceeds
<1>4. CASE Rest(c) # <<>> \/ Part(c)
  <2>1. pc'[c] = "peek"
    BY <1>1, <1>4 DEF NextInPipeline
  <2>2. Buffered(c)'
    BY <1>1, <1>4
  <2> QED
    BY <1>2, <1>4, <2>1, <2>2 DEF Proceeds
<1> QED
  BY <1>3, <1>4

LEMMA SkipView ==
    ASSUME TypeOK, PoolInv, NEW c \in Conns, Skip(c)
    PROVE  /\ pc[c] = "skip"
           /\ HasBody(c) \/ (Failing(c) /\ pc'[c] = "flush")
           /\ Consumes(c, Rest(c))
           /\ Proceeds(c, Rest(c))
           /\ SameFlags(c) /\ SameOutput(c) /\ SameDeadline(c)
<1>1. Live(c)
  BY DEF Skip, Live
<1>2. src[rd[c]] = c /\ dst[wr[c]] = c /\ rd[c] \in Conns /\ wr[c] \in Conns
  BY <1>1, OwnObjects
<1>3. /\ rbuf' = [rbuf EXCEPT ![rd[c]] = Rest(c)]
      /\ cut' = [cut EXCEPT ![rd[c]] = Part(c)]
      /\ Goto(c, NextInPipeline(Rest(c), Part(c)))
  BY DEF Skip, Rest, Part
<1>4. HasBody(c) \/ Failing(c)
  BY <1>2 DEF Skip, InputFails, Failing
<1>5. /\ Proceeds(c, Rest(c))
      /\ HasBody(c) \/ pc'[c] = "flush"
  <2>1. rd' = rd
    BY DEF Skip
  <2> QED
    BY <1>2, <1>3, <2>1, RestProceeds
<1>6. rd' = rd /\ wire' = wire /\ peer' = peer /\ sent' = sent /\ owed' = owed
  BY DEF Skip
<1>7. Consumes(c, Rest(c))
  BY <1>2, <1>3, <1>6
<1> QED
  BY <1>1, <1>2, <1>4, <1>5, <1>7 DEF Skip

LEMMA CommandCmdView ==
    ASSUME TypeOK, PoolInv, NEW c \in Conns, CommandCmd(c)
    PROVE  /\ pc[c] = "cmd" /\ pc'[c] = "cmdinc" /\ Walks(c)
<1>1. Live(c)
  BY DEF CommandCmd, Live
<1>2. src[rd[c]] = c /\ dst[wr[c]] = c /\ rd[c] \in Conns /\ wr[c] \in Conns
  BY <1>1, OwnObjects
<1> QED
  BY <1>1, <1>2 DEF CommandCmd

LEMMA CommandIncView ==
    ASSUME TypeOK, PoolInv, NEW c \in Conns, CommandInc(c)
    PROVE  /\ pc[c] = "cmdinc" /\ Walks(c)
           /\ pc'[c] = IF h[c] = "handler" THEN "read" ELSE "stream"
<1>1. Live(c)
  BY DEF CommandInc, Live
<1>2. src[rd[c]] = c /\ dst[wr[c]] = c /\ rd[c] \in Conns /\ wr[c] \in Conns
  BY <1>1, OwnObjects
<1> QED
  BY <1>1, <1>2 DEF CommandInc

LEMMA ReadExecView ==
    ASSUME TypeOK, PoolInv, NEW c \in Conns, ReadExec(c)
    PROVE  /\ pc[c] = "read" /\ HasBody(c)
           /\ pc'[c] = "check" /\ h'[c] = h[c] /\ err'[c] = err[c]
           /\ closed'[c] = (closed[c] \/ Lower[Current(c).name] \in Closers)
           /\ Consumes(c, Tail(Tail(Input(c))))
           /\ AnswersWith(c, Reply(c, "reply"))
<1>1. Live(c)
  BY DEF ReadExec, Live
<1>2. src[rd[c]] = c /\ dst[wr[c]] = c /\ rd[c] \in Conns /\ wr[c] \in Conns
  BY <1>1, OwnObjects
<1> QED
  BY <1>1, <1>2, ZenonT(60) DEF ReadExec, Execute, AppendReply

LEMMA ReadFaultView ==
    ASSUME TypeOK, PoolInv, NEW c \in Conns, ReadFault(c)
    PROVE  /\ pc[c] = "read" /\ HasBody(c)
           /\ pc'[c] = "flush" /\ SameFlags(c)
           /\ Consumes(c, Tail(Tail(Input(c))))
           /\ AnswersWith(c, Reply(c, "proto"))
<1>1. Live(c)
  BY DEF ReadFault, Live
<1>2. src[rd[c]] = c /\ dst[wr[c]] = c /\ rd[c] \in Conns /\ wr[c] \in Conns
  BY <1>1, OwnObjects
<1> QED
  BY <1>1, <1>2 DEF ReadFault, AppendReply

LEMMA ReadFailView ==
    ASSUME TypeOK, PoolInv, NEW c \in Conns, ReadFail(c)
    PROVE  /\ pc[c] \in {"read", "stream"} /\ ~HasBody(c) /\ Failing(c)
           /\ pc'[c] = "fatal" /\ Walks(c)
<1>1. Live(c)
  BY DEF ReadFail, Live
<1>2. src[rd[c]] = c /\ dst[wr[c]] = c /\ rd[c] \in Conns /\ wr[c] \in Conns
  BY <1>1, OwnObjects
<1> QED
  BY <1>1, <1>2 DEF ReadFail, ReadFails, InputFails, Failing

LEMMA StreamExecView ==
    ASSUME TypeOK, PoolInv, NEW c \in Conns, StreamExec(c)
    PROVE  /\ pc[c] = "stream" /\ SameInput(c)
           /\ pc'[c] = "check" /\ h'[c] = h[c] /\ err'[c] = err[c]
           /\ closed'[c] = (closed[c] \/ Lower[Current(c).name] \in Closers)
           /\ AnswersWith(c, Reply(c, "reply"))
<1>1. Live(c)
  BY DEF StreamExec, Live
<1>2. src[rd[c]] = c /\ dst[wr[c]] = c /\ rd[c] \in Conns /\ wr[c] \in Conns
  BY <1>1, OwnObjects
<1> QED
  BY <1>1, <1>2 DEF StreamExec, Execute, AppendReply

LEMMA DiscardView ==
    ASSUME TypeOK, PoolInv, NEW c \in Conns, Discard(c)
    PROVE  /\ pc[c] = "discard"
           /\ HasBody(c) \/ (Failing(c) /\ pc'[c] \in {"flush", "fatal"})
           /\ Consumes(c, Rest(c))
           /\ IF err[c] = "io" THEN pc'[c] = "fatal" ELSE Proceeds(c, Rest(c))
           /\ closed'[c] = closed[c] /\ h'[c] = h[c] /\ err'[c] = "nil"
           /\ SameOutput(c) /\ SameDeadline(c)
<1>1. Live(c)
  BY DEF Discard, Live
<1>2. src[rd[c]] = c /\ dst[wr[c]] = c /\ rd[c] \in Conns /\ wr[c] \in Conns
  BY <1>1, OwnObjects
<1>3. /\ rbuf' = [rbuf EXCEPT ![rd[c]] = Rest(c)]
      /\ cut' = [cut EXCEPT ![rd[c]] = Part(c)]
      /\ Goto(c, IF err[c] = "io" THEN "fatal"
                 ELSE NextInPipeline(Rest(c), Part(c)))
  BY DEF Discard, Rest, Part
<1>4. /\ pc[c] = "discard" /\ err' = [err EXCEPT ![c] = "nil"]
      /\ UNCHANGED <<client, h, src, wbuf, dst, readerPool, writerPool, network,
                     listening, cmds, info, history>>
  BY DEF Discard
<1>5. HasBody(c) \/ Failing(c)
  BY <1>2 DEF Discard, InputFails, Failing
<1>6. Consumes(c, Rest(c))
  BY <1>2, <1>3, <1>4
<1>7. /\ IF err[c] = "io" THEN pc'[c] = "fatal" ELSE Proceeds(c, Rest(c))
      /\ HasBody(c) \/ pc'[c] \in {"flush", "fatal"}
  <2>1. CASE err[c] = "io"
    BY <1>3, <2>1
  <2>2. CASE err[c] # "io"
    <3>1. Goto(c, NextInPipeline(Rest(c), Part(c))) /\ rd' = rd
      BY <1>3, <1>4, <2>2
    <3> QED
      BY <1>2, <1>3, <2>2, <3>1, RestProceeds
  <2> QED
    BY <2>1, <2>2
<1>8. closed'[c] = closed[c] /\ h'[c] = h[c] /\ err'[c] = "nil"
  BY <1>4
<1>9. SameOutput(c) /\ SameDeadline(c)
  BY <1>2, <1>4
<1> QED
  BY <1>4, <1>5, <1>6, <1>7, <1>8, <1>9

LEMMA AppendFatalView ==
    ASSUME TypeOK, PoolInv, NEW c \in Conns, AppendFatal(c)
    PROVE  /\ pc[c] = "fatal" /\ pc'[c] = "lastflush" /\ SameFlags(c) /\ SameInput(c)
           /\ Appends(c, FatalReply(c)) /\ answered'[c] = answered[c]
<1>1. Live(c)
  BY DEF AppendFatal, Live
<1>2. src[rd[c]] = c /\ dst[wr[c]] = c /\ rd[c] \in Conns /\ wr[c] \in Conns
  BY <1>1, OwnObjects
<1> QED
  BY <1>1, <1>2 DEF AppendFatal, AppendReply

LEMMA DeregisterView ==
    ASSUME TypeOK, PoolInv, NEW c \in Conns, Deregister(c)
    PROVE  /\ pc[c] = "deregister" /\ pc'[c] = "release" /\ Walks(c)
<1>1. Live(c)
  BY DEF Deregister, Live
<1>2. src[rd[c]] = c /\ dst[wr[c]] = c /\ rd[c] \in Conns /\ wr[c] \in Conns
  BY <1>1, OwnObjects
<1> QED
  BY <1>1, <1>2 DEF Deregister

LEMMA ReleaseView ==
    ASSUME TypeOK, PoolInv, NEW c \in Conns, Release(c)
    PROVE  /\ pc[c] = "release" /\ pc'[c] = "done" /\ Walks(c)
<1>1. Live(c)
  BY DEF Release, Live
<1>2. src[rd[c]] = c /\ dst[wr[c]] = c /\ rd[c] \in Conns /\ wr[c] \in Conns
  BY <1>1, OwnObjects
<1> QED
  BY <1>1, <1>2 DEF Release

LEMMA FlushSucceedsView ==
    ASSUME TypeOK, PoolInv, NEW c \in Conns, Live(c), FlushSucceeds(c), wr' = wr
    PROVE  FlushDone(c)
<1>1. dst[wr[c]] = c /\ wr[c] \in Conns
  BY OwnObjects
<1> QED
  BY <1>1 DEF FlushSucceeds, FlushDone

LEMMA FlushFailsView ==
    ASSUME TypeOK, PoolInv, NEW c \in Conns, Live(c), FlushFails(c), wr' = wr
    PROVE  FlushLost(c)
<1>1. dst[wr[c]] = c /\ wr[c] \in Conns
  BY OwnObjects
<1>2. wbuf' = wbuf /\ wbuf[wr[c]] # <<>>
  BY DEF FlushFails
<1>3. CASE (peer[c] = "gone" \/ deadline[c] = "expired") /\ UNCHANGED <<out, deadline>>
  BY <1>2, <1>3 DEF FlushLost
<1>4. CASE /\ peer[c] # "gone" /\ deadline[c] = "armed"
           /\ deadline' = [deadline EXCEPT ![c] = "expired"]
           /\ \E k \in 0 .. Len(wbuf[wr[c]]) - 1 :
                 out' = [out EXCEPT ![c] = @ \o SubSeq(wbuf[wr[c]], 1, k)]
  <2>1. PICK k \in 0 .. Len(wbuf[wr[c]]) - 1 :
           out' = [out EXCEPT ![c] = @ \o SubSeq(wbuf[wr[c]], 1, k)]
    BY <1>4
  <2>2. out'[c] = out[c] \o SubSeq(wbuf[wr[c]], 1, k)
    BY <2>1
  <2>3. \E i \in 0 .. Len(wbuf[wr[c]]) - 1 :
           out'[c] = out[c] \o SubSeq(wbuf[wr[c]], 1, i)
    BY <2>2, Zenon
  <2> QED
    BY <1>2, <1>4, <2>3, ZenonT(60) DEF FlushLost
<1> QED
  BY <1>1, <1>3, <1>4 DEF FlushFails

LEMMA FlushView ==
    ASSUME TypeOK, PoolInv, NEW c \in Conns, Flush(c)
    PROVE  /\ pc[c] = "flush" /\ SameFlags(c) /\ SameInput(c)
           /\ answered'[c] = answered[c]
           /\ \/ FlushDone(c) /\ pc'[c] = "loop"
              \/ FlushLost(c) /\ pc'[c] = "deregister"
<1>1. Live(c)
  BY DEF Flush, Live
<1>2. rd[c] \in Conns /\ wr' = wr
  BY DEF Flush
<1>3. CASE FlushSucceeds(c) /\ Goto(c, "loop")
  <2>1. FlushDone(c)
    BY <1>1, <1>2, <1>3, FlushSucceedsView
  <2> QED
    BY <1>2, <1>3, <2>1 DEF Flush
<1>4. CASE FlushFails(c) /\ Goto(c, "deregister")
  <2>1. FlushLost(c)
    BY <1>1, <1>2, <1>4, FlushFailsView
  <2> QED
    BY <1>2, <1>4, <2>1 DEF Flush
<1> QED
  BY <1>3, <1>4 DEF Flush

LEMMA LastFlushView ==
    ASSUME TypeOK, PoolInv, NEW c \in Conns, LastFlush(c)
    PROVE  /\ pc[c] = "lastflush" /\ SameFlags(c) /\ SameInput(c)
           /\ answered'[c] = answered[c]
           /\ pc'[c] = "deregister"
           /\ FlushDone(c) \/ FlushLost(c)
<1>1. Live(c)
  BY DEF LastFlush, Live
<1>2. rd[c] \in Conns /\ wr' = wr
  BY DEF LastFlush
<1>3. CASE FlushSucceeds(c)
  <2>1. FlushDone(c)
    BY <1>1, <1>2, <1>3, FlushSucceedsView
  <2> QED
    BY <1>2, <1>3, <2>1 DEF LastFlush
<1>4. CASE FlushFails(c)
  <2>1. FlushLost(c)
    BY <1>1, <1>2, <1>4, FlushFailsView
  <2> QED
    BY <1>2, <1>4, <2>1 DEF LastFlush
<1> QED
  BY <1>3, <1>4 DEF LastFlush

LEMMA FlushCheckView ==
    ASSUME TypeOK, PoolInv, NEW c \in Conns, FlushCheck(c)
    PROVE  /\ pc[c] = "check" /\ closed'[c] = closed[c] /\ h'[c] = h[c]
           /\ SameInput(c) /\ answered'[c] = answered[c]
           /\ \/ /\ Written(c)' = Written(c) /\ out'[c] = out[c]
                 /\ SameDeadline(c) /\ GoesOn(c, "nil")
              \/ FlushDone(c) /\ GoesOn(c, "nil")
              \/ FlushLost(c) /\ GoesOn(c, "io")
<1>1. Live(c)
  BY DEF FlushCheck, Live
<1>2. src[rd[c]] = c /\ dst[wr[c]] = c /\ rd[c] \in Conns /\ wr[c] \in Conns
  BY <1>1, OwnObjects
<1>b. wr' = wr /\ rd' = rd /\ rbuf' = rbuf /\ cut' = cut
  BY DEF FlushCheck
<1>a. ASSUME NEW e \in {"nil", "io"}, AfterHandler(c, e) PROVE GoesOn(c, e)
  <2>1. CASE h[c] = "stream"
    BY <1>a, <2>1 DEF AfterHandler, GoesOn
  <2>2. CASE h[c] # "stream"
    BY <1>a, <1>b, <2>2 DEF AfterHandler, GoesOn, NextInPipeline, Proceeds
  <2> QED
    BY <2>1, <2>2
<1>3. CASE AfterHandler(c, "nil") /\ UNCHANGED <<out, wbuf, deadline>>
  BY <1>2, <1>3, <1>a DEF FlushCheck
<1>4. CASE FlushSucceeds(c) /\ AfterHandler(c, "nil")
  <2>1. FlushDone(c) /\ GoesOn(c, "nil")
    BY <1>1, <1>4, <1>a, <1>b, FlushSucceedsView
  <2> QED
    BY <1>2, <2>1 DEF FlushCheck
<1>5. CASE FlushFails(c) /\ AfterHandler(c, "io")
  <2>1. FlushLost(c) /\ GoesOn(c, "io")
    BY <1>1, <1>5, <1>a, <1>b, FlushFailsView
  <2> QED
    BY <1>2, <2>1 DEF FlushCheck
<1> QED
  BY <1>3, <1>4, <1>5 DEF FlushCheck

LEMMA AcceptView ==
    ASSUME TypeOK, PoolInv, NEW c \in Conns, Accept(c)
    PROVE  /\ pc[c] = "idle" /\ pc'[c] = "add" /\ SameFlags(c) /\ SamePeer(c)
           /\ Input(c)' = <<>> /\ Written(c)' = <<>> /\ wire'[c] = wire[c]
           /\ out'[c] = out[c] /\ answered'[c] = answered[c] /\ SameDeadline(c)
<1>1. PICK o \in readerPool \cup {c} : ResetReader(c, o)
  BY DEF Accept
<1>2. PICK p \in writerPool \cup {c} : ResetWriter(c, p)
  BY DEF Accept
<1>3. o \in Conns /\ p \in Conns
  OBVIOUS
<1>4. Input(c)' = <<>>
  BY <1>1, <1>3 DEF ResetReader
<1>5. Written(c)' = <<>>
  BY <1>2, <1>3 DEF ResetWriter
<1> QED
  BY <1>4, <1>5 DEF Accept

LEMMA SendPartView ==
    ASSUME TypeOK, PoolInv, NEW c \in Conns, SendPart(c)
    PROVE  Live(c) /\ pc'[c] = pc[c] /\ Walks(c)
BY DEF SendPart, Connected, Live

LEMMA SendHeadView ==
    ASSUME TypeOK, PoolInv, NEW c \in Conns, NEW s \in Spellings,
           NEW f \in Faults, SendHead(c, s, f)
    PROVE  /\ Live(c) /\ peer[c] = "open" /\ owed[c] = <<>>
           /\ pc'[c] = pc[c] /\ SameFlags(c) /\ SameOutput(c) /\ SameDeadline(c)
           /\ KeepsInput(c) /\ peer'[c] = peer[c]
           /\ sent'[c] = sent[c] + 1
           /\ wire'[c] = Append(wire[c], [part |-> "head", req |-> Request(c, s, f)])
           /\ owed'[c] = IF f = "peek" THEN <<>> ELSE <<Request(c, s, f)>>
BY DEF SendHead, Request, Connected, Live

LEMMA SendBodyView ==
    ASSUME TypeOK, PoolInv, NEW c \in Conns, SendBody(c)
    PROVE  /\ Live(c) /\ peer[c] = "open" /\ owed[c] # <<>>
           /\ pc'[c] = pc[c] /\ SameFlags(c) /\ SameOutput(c) /\ SameDeadline(c)
           /\ KeepsInput(c) /\ peer'[c] = peer[c] /\ sent'[c] = sent[c]
           /\ wire'[c] = Append(wire[c], [part |-> "body", req |-> Head(owed[c])])
           /\ owed'[c] = <<>>
BY DEF SendBody, Connected, Live

LEMMA ClientClosesView ==
    ASSUME TypeOK, PoolInv, NEW c \in Conns, NEW how \in {"half", "gone"},
           ClientCloses(c, how)
    PROVE  /\ Live(c) /\ peer[c] # "gone" /\ peer'[c] = how
           /\ pc'[c] = pc[c] /\ SameFlags(c) /\ SameOutput(c) /\ SameDeadline(c)
           /\ KeepsInput(c) /\ sent'[c] = sent[c]
           /\ wire'[c] = wire[c] \/ (how = "gone" /\ wire'[c] = <<>>)
<1>1. CASE UNCHANGED wire
  BY <1>1 DEF ClientCloses, Live
<1>2. CASE how = "gone" /\ wire' = [wire EXCEPT ![c] = <<>>]
  BY <1>2 DEF ClientCloses, Live
<1> QED
  BY <1>1, <1>2 DEF ClientCloses

LEMMA ExpireView ==
    ASSUME TypeOK, PoolInv, NEW c \in Conns, Expire(c)
    PROVE  /\ Live(c) /\ deadline[c] = "armed" /\ deadline'[c] = "expired"
           /\ pc'[c] = pc[c] /\ SameFlags(c) /\ SameInput(c) /\ SameOutput(c)
BY DEF Expire, Live

HIDE DEF TypeOK, ClientTypeOK, ObjectsTypeOK, NetworkTypeOK, ServerTypeOK,
        Input, Written, Goto, client, objects, network, history, SameFlags,
        SamePeer, KeepsInput, SameInput, SameOutput, SameDeadline, Walks,
        Appends, AnswersWith, Consumes, Arrives, Buffered, HasHead

\* A step of c changes only the state of c and the objects that c holds.
Apart(c) ==
    /\ rd' = rd /\ wr' = wr /\ id' = id
    /\ \A d \in Conns \ {c} :
          /\ pc'[d] = pc[d] /\ SameFlags(d) /\ SamePeer(d) /\ SameDeadline(d)
          /\ wire'[d] = wire[d] /\ out'[d] = out[d] /\ answered'[d] = answered[d]
    /\ \A o \in Conns :
          /\ ~(Live(c) /\ o = rd[c]) => rbuf'[o] = rbuf[o] /\ (cut[o] => cut'[o])
          /\ wbuf'[o] = wbuf[o] \/ (Live(c) /\ o = wr[c])

LEMMA ApartFlush ==
    ASSUME TypeOK, PoolInv, NEW c \in Conns, Live(c),
           FlushSucceeds(c) \/ FlushFails(c)
    PROVE  /\ \A d \in Conns \ {c} : out'[d] = out[d] /\ deadline'[d] = deadline[d]
           /\ \A o \in Conns : wbuf'[o] = wbuf[o] \/ o = wr[c]
<1>1. dst[wr[c]] = c /\ wr[c] \in Conns
  BY OwnObjects
<1> QED
  BY <1>1, SMTT(60) DEF FlushSucceeds, FlushFails, TypeOK, ObjectsTypeOK, NetworkTypeOK

LEMMA ApartFill ==
    ASSUME TypeOK, PoolInv, NEW c \in Conns, Live(c), Fill(c)
    PROVE  /\ \A d \in Conns \ {c} : wire'[d] = wire[d]
           /\ \A o \in Conns \ {rd[c]} :
                 rbuf'[o] = rbuf[o] /\ (cut[o] => cut'[o])
<1>1. src[rd[c]] = c /\ rd[c] \in Conns
  BY OwnObjects
<1> QED
  BY <1>1, ZenonT(60) DEF Fill, TypeOK, ObjectsTypeOK, NetworkTypeOK

LEMMA ApartServe ==
    ASSUME TypeOK, PoolInv, NEW c \in Conns, Serve(c) \/ Client(c) \/ Expire(c)
    PROVE  Apart(c)
<1> USE DEF TypeOK, ClientTypeOK, ObjectsTypeOK, NetworkTypeOK, ServerTypeOK,
        Apart, SameFlags, SamePeer, SameDeadline, Live, Goto, client, objects,
        network, history
<1>1. CASE RegisterAdd(c)
  BY <1>1 DEF RegisterAdd
<1>2. CASE RegisterInc(c)
  BY <1>2 DEF RegisterInc
<1>3. CASE LoopTop(c)
  BY <1>3, SMTT(60) DEF LoopTop
<1>4. CASE Fill(c)
  <2>1. Live(c)
    BY <1>4 DEF Fill
  <2> QED
    BY <1>4, <2>1, ApartFill DEF Fill
<1>5. CASE PeekFault(c)
  BY <1>5 DEF PeekFault, AppendReply
<1>6. CASE PeekFail(c)
  BY <1>6 DEF PeekFail, ReadFails
<1>7. CASE Lookup(c)
  <2>1. \A o \in Conns : wbuf'[o] = wbuf[o] \/ o = wr[c]
    <3>1. wbuf' = wbuf \/ AppendReply(c, Reply(c, "unknown"))
      BY <1>7 DEF Lookup
    <3>2. wr[c] \in Conns
      OBVIOUS
    <3> QED
      BY <3>1, <3>2 DEF AppendReply
  <2>2. \A d \in Conns \ {c} : answered'[d] = answered[d] /\ pc'[d] = pc[d]
    BY <1>7, SMTT(60) DEF Lookup
  <2> QED
    BY <1>7, <2>1, <2>2 DEF Lookup
<1>8. CASE Skip(c)
  BY <1>8 DEF Skip
<1>9. CASE CommandCmd(c)
  BY <1>9 DEF CommandCmd
<1>10. CASE CommandInc(c)
  BY <1>10 DEF CommandInc
<1>11. CASE ReadExec(c)
  BY <1>11 DEF ReadExec, Execute, AppendReply
<1>12. CASE ReadFault(c)
  BY <1>12 DEF ReadFault, AppendReply
<1>13. CASE ReadFail(c)
  BY <1>13 DEF ReadFail, ReadFails
<1>14. CASE StreamExec(c)
  BY <1>14 DEF StreamExec, Execute, AppendReply
<1>15. CASE FlushCheck(c)
  <2>1. Live(c)
    BY <1>15 DEF FlushCheck
  <2>2. /\ \A d \in Conns \ {c} : out'[d] = out[d] /\ deadline'[d] = deadline[d]
        /\ \A o \in Conns : wbuf'[o] = wbuf[o] \/ o = wr[c]
    BY <1>15, <2>1, ApartFlush DEF FlushCheck
  <2>3. \A d \in Conns \ {c} : pc'[d] = pc[d] /\ err'[d] = err[d]
    BY <1>15, SMTT(60) DEF FlushCheck, AfterHandler
  <2> QED
    BY <1>15, <2>1, <2>2, <2>3 DEF FlushCheck
<1>16. CASE Discard(c)
  BY <1>16 DEF Discard
<1>17. CASE AppendFatal(c)
  BY <1>17 DEF AppendFatal, AppendReply
<1>18. CASE Flush(c)
  <2>1. Live(c)
    BY <1>18 DEF Flush
  <2>2. /\ \A d \in Conns \ {c} : out'[d] = out[d] /\ deadline'[d] = deadline[d]
        /\ \A o \in Conns : wbuf'[o] = wbuf[o] \/ o = wr[c]
    BY <1>18, <2>1, ApartFlush DEF Flush
  <2>3. \A d \in Conns \ {c} : pc'[d] = pc[d] /\ err'[d] = err[d]
    BY <1>18 DEF Flush
  <2> QED
    BY <1>18, <2>1, <2>2, <2>3 DEF Flush
<1>19. CASE LastFlush(c)
  BY <1>19, ApartFlush, ZenonT(60) DEF LastFlush
<1>20. CASE Deregister(c)
  BY <1>20 DEF Deregister
<1>21. CASE Release(c)
  BY <1>21 DEF Release
<1>22. CASE SendBody(c)
  BY <1>22 DEF SendBody
<1>26. CASE SendPart(c)
  BY <1>26 DEF SendPart
<1>23. CASE Expire(c)
  BY <1>23 DEF Expire
<1>24. ASSUME NEW s \in Spellings, NEW f \in Faults, SendHead(c, s, f)
      PROVE  Apart(c)
  BY <1>24 DEF SendHead
<1>25. ASSUME NEW how \in {"half", "gone"}, ClientCloses(c, how)
      PROVE  Apart(c)
  BY <1>25 DEF ClientCloses
<1> QED
  BY <1>1, <1>2, <1>3, <1>4, <1>5, <1>6, <1>7, <1>8, <1>9, <1>10, <1>11,
     <1>12, <1>13, <1>14, <1>15, <1>16, <1>17, <1>18, <1>19, <1>20, <1>21,
     <1>22, <1>23, <1>24, <1>25, <1>26 DEF Serve, Client

LEMMA Others ==
    ASSUME TypeOK, PoolInv, NEW c \in Conns, NEW d \in Conns \ {c},
           Accept(c) \/ Serve(c) \/ Client(c) \/ Expire(c)
    PROVE  Untouched(d)
<1>t. OwnersTypeOK
  BY OwnersType
<1>1. CASE Serve(c) \/ Client(c) \/ Expire(c)
  <2>1. Apart(c)
    BY <1>1, ApartServe
  <2>2. Live(c) /\ Live(d) => rd[c] # rd[d] /\ wr[c] # wr[d]
    BY DEF PoolInv, PoolExclusive
  <2>3. rd[d] \in Conns /\ wr[d] \in Conns
    BY <1>t DEF OwnersTypeOK
  <2> QED
    BY <2>1, <2>2, <2>3
       DEF Apart, Untouched, KeepsInput, Buffered, HasHead, Input, Written
<1>2. CASE Accept(c)
  <2>1. PICK o \in readerPool \cup {c} : ResetReader(c, o)
    BY <1>2 DEF Accept
  <2>2. PICK p \in writerPool \cup {c} : ResetWriter(c, p)
    BY <1>2 DEF Accept
  <2>3. Live(d) => /\ rd[d] \notin readerPool \cup {c}
                   /\ wr[d] \notin writerPool \cup {c}
    BY <1>2 DEF Accept, PoolInv, PoolExclusive
  <2>4. /\ rd' = [rd EXCEPT ![c] = o] /\ wr' = [wr EXCEPT ![c] = p]
        /\ rbuf' = [rbuf EXCEPT ![o] = <<>>] /\ wbuf' = [wbuf EXCEPT ![p] = <<>>]
        /\ cut' = [cut EXCEPT ![o] = FALSE]
    BY <2>1, <2>2 DEF ResetReader, ResetWriter
  <2>5. Live(d) => KeepsInput(d) /\ Written(d)' = Written(d)
    BY <2>3, <2>4 DEF KeepsInput, Buffered, HasHead, Input, Written, TypeOK, ClientTypeOK, ObjectsTypeOK
  <2>6. pc'[d] = pc[d] /\ id'[d] = id[d]
    BY <1>2 DEF Accept, Goto, TypeOK, ClientTypeOK
  <2> QED
    BY <1>2, <2>5, <2>6
       DEF Accept, Untouched, SameFlags, SamePeer, SameDeadline, network, history
<1> QED
  BY <1>1, <1>2

LEMMA Nobodys ==
    ASSUME NEW d \in Conns,
           \/ AcceptError
           \/ \E r \in Registrations : Handle(r[1], r[2])
           \/ UNCHANGED vars
    PROVE  Untouched(d)
BY DEF AcceptError, Handle, vars, Untouched, SameFlags, SamePeer, SameDeadline,
       KeepsInput, Buffered, HasHead, Input, Written, client, objects, network,
       history

(***************************************************************************)
(* Where the goroutine is: Control is inductive by itself.                 *)
(***************************************************************************)
LEMMA AppendNonEmpty ==
    ASSUME NEW S, NEW s \in Seq(S), NEW e \in S
    PROVE  /\ Append(s, e) # <<>> /\ Len(Append(s, e)) = Len(s) + 1
           /\ Append(s, e) \in Seq(S)
<1>1. Append(s, e) \in Seq(S) /\ Len(Append(s, e)) = Len(s) + 1
  OBVIOUS
<1> QED
  BY <1>1, EmptySeq

LEMMA HeadOfConcat ==
    ASSUME NEW S, NEW s \in Seq(S), NEW t \in Seq(S), s # <<>>
    PROVE  s \o t # <<>> /\ Head(s \o t) = Head(s) /\ Head(s) = s[1]
<1>1. s \o t # <<>>
  BY ConcatNonEmpty
<1>2. Len(s) \in Nat /\ Len(s) >= 1
  OBVIOUS
<1>3. s \o t \in Seq(S) /\ (s \o t)[1] = s[1]
  BY <1>2
<1> QED
  BY <1>1, <1>3

LEMMA SplitAt ==
    ASSUME NEW S, NEW w \in Seq(S), NEW k \in 0 .. Len(w)
    PROVE  SubSeq(w, 1, k) \o SubSeq(w, k + 1, Len(w)) = w
<1>1. /\ 1 \in 1 .. Len(w) + 1 /\ k \in 1 - 1 .. Len(w)
      /\ Len(w) \in k .. Len(w)
  OBVIOUS
<1>2. SubSeq(w, 1, k) \o SubSeq(w, k + 1, Len(w)) = SubSeq(w, 1, Len(w))
  BY <1>1, ConcatAdjacentSubSeq
<1> QED
  BY <1>2, SubSeqFull

\* A read brings input in and keeps what was there.
LEMMA FillKeeps ==
    ASSUME TypeOK, PoolInv, NEW c \in Conns, Fill(c)
    PROVE  /\ Buffered(c)'
           /\ HasHead(c) => HasHead(c)' /\ Current(c)' = Current(c)
           /\ Stream(c)' = Stream(c)
<1>1. PICK k \in 0 .. Len(wire[c]) : Arrives(c, k) /\ (k = 0 => Buffered(c)')
  BY FillView
<1> DEFINE s == Input(c)  w == wire[c]
           a == SubSeq(w, 1, k)  b == SubSeq(w, k + 1, Len(w))
<1>2. s \in Seq(Pieces) /\ w \in Seq(Pieces)
  BY LocalType
<1>3. k \in 0 .. Len(w) /\ Input(c)' = s \o a /\ wire'[c] = b
  BY <1>1 DEF Arrives
<1> HIDE DEF s, w
<1>4. /\ a \in Seq(Pieces) /\ b \in Seq(Pieces) /\ Len(a) = k /\ Len(b) = Len(w) - k
      /\ \A i \in 1 .. k : a[i] = w[i]
      /\ \A i \in 1 .. Len(w) - k : b[i] = w[k + i]
  BY <1>2, <1>3
<1> HIDE DEF a, b
<1>5. k # 0 => a # <<>>
  BY <1>3, <1>4
<1>6. k # 0 => s \o a # <<>>
  BY <1>2, <1>4, <1>5, ConcatEqualIffEmpty
<1>7. a \o b = w
  BY <1>2, <1>3, SplitAt DEF a, b
<1>8. (s \o a) \o b = s \o w
  <2>1. (s \o a) \o b = s \o (a \o b)
    BY <1>2, <1>4, ConcatAssociative, SMTT(60)
  <2> QED
    BY <2>1, <1>7
<1>9. s # <<>> => s \o a # <<>> /\ Head(s \o a) = Head(s)
  BY <1>2, <1>4, HeadOfConcat
<1>10. HasHead(c) => HasHead(c)' /\ Current(c)' = Current(c)
  BY <1>3, <1>9 DEF HasHead, Current, s
<1>11. Buffered(c)'
  BY <1>1, <1>3, <1>6 DEF Buffered, HasHead
<1> QED
  BY <1>3, <1>8, <1>10, <1>11 DEF Stream, s, w

LEMMA ControlKept ==
    ASSUME TypeOK, NEW d \in Conns, Control(d), Untouched(d)
    PROVE  Control(d)'
<1>1. CASE Live(d)
  BY <1>1 DEF Control, Fresh, AtRequest, Drained, Closing, Serving, HasHead,
     KeepsInput, Current, Untouched, SameFlags, SamePeer, SameDeadline, Live
<1>2. CASE ~Live(d)
  BY <1>2 DEF Control, Fresh, AtRequest, Drained, Closing, Serving,
     Untouched, SameFlags, SamePeer, SameDeadline, Live
<1> QED
  BY <1>1, <1>2

LEMMA ControlStep ==
    ASSUME TypeOK, PoolInv, NEW c \in Conns, Control(c),
           Accept(c) \/ Serve(c) \/ Client(c) \/ Expire(c)
    PROVE  Control(c)'
<1> USE DEF Control, Fresh, AtRequest, Drained, Closing, Serving, Walks,
        SameFlags, SamePeer, KeepsInput, SameInput, SameOutput, SameDeadline
<1>1. CASE RegisterAdd(c)
  BY <1>1, RegisterAddView, LocalType DEF HasHead, Current, Kinds
<1>2. CASE RegisterInc(c)
  BY <1>2, RegisterIncView, LocalType DEF HasHead, Current, Kinds
<1>3. CASE LoopTop(c)
  BY <1>3, LoopTopView, LocalType DEF HasHead, Current, Kinds
<1>4. CASE Fill(c)
  <2>1. /\ Buffered(c)'
        /\ HasHead(c) => HasHead(c)' /\ Current(c)' = Current(c)
    BY <1>4, FillKeeps
  <2> QED
    BY <1>4, <2>1, FillView
<1>5. CASE PeekFault(c)
  BY <1>5, PeekFaultView DEF AnswersWith, Appends, Consumes, HasHead, Current
<1>6. CASE PeekFail(c)
  BY <1>6, PeekFailView, LocalType DEF HasHead, Current, Kinds
<1>7. CASE Lookup(c)
  <2>1. HasHead(c) /\ Reply(c, "unknown") \in Replies
    BY <1>7, LookupView, ReplyType
  <2>2. Append(Written(c), Reply(c, "unknown")) # <<>>
    BY <2>1, LocalType, AppendNonEmpty
  <2> QED
    BY <1>7, <2>2, LookupView, LocalType
       DEF AnswersWith, Appends, HasHead, Current, Kinds
<1>8. CASE Skip(c)
  BY <1>8, SkipView, RestType DEF Proceeds, HasHead, Consumes
<1>9. CASE CommandCmd(c)
  BY <1>9, CommandCmdView, LocalType DEF HasHead, Current, Kinds
<1>10. CASE CommandInc(c)
  BY <1>10, CommandIncView, LocalType DEF HasHead, Current, Kinds
<1>11. CASE ReadExec(c)
  BY <1>11, ReadExecView DEF AnswersWith, Appends, Consumes, HasHead, Current
<1>12. CASE ReadFault(c)
  BY <1>12, ReadFaultView DEF AnswersWith, Appends, Consumes, HasHead, Current
<1>13. CASE ReadFail(c)
  BY <1>13, ReadFailView, LocalType DEF HasHead, Current, Kinds
<1>14. CASE StreamExec(c)
  BY <1>14, StreamExecView DEF AnswersWith, Appends, Consumes, HasHead, Current
<1>15. CASE FlushCheck(c)
  BY <1>15, FlushCheckView, ZenonT(60)
     DEF GoesOn, FlushDone, FlushLost, Proceeds, HasHead, Current
<1>16. CASE Discard(c)
  BY <1>16, DiscardView, RestType DEF Proceeds, HasHead, Consumes
<1>17. CASE AppendFatal(c)
  <2>1. FatalReply(c) \in Replies
    BY DEF FatalReply, Replies
  <2>2. Append(Written(c), FatalReply(c)) # <<>>
    BY <2>1, LocalType, AppendNonEmpty
  <2> QED
    BY <1>17, <2>2, AppendFatalView DEF Appends
<1>18. CASE Flush(c)
  BY <1>18, FlushView DEF FlushDone, FlushLost
<1>19. CASE LastFlush(c)
  BY <1>19, LastFlushView DEF FlushDone, FlushLost
<1>20. CASE Deregister(c)
  BY <1>20, DeregisterView, LocalType DEF HasHead, Current, Kinds
<1>21. CASE Release(c)
  BY <1>21, ReleaseView, LocalType DEF HasHead, Current, Kinds
<1>22. CASE SendBody(c)
  BY <1>22, SendBodyView DEF HasHead, Current, Live
<1>23. CASE Expire(c)
  BY <1>23, ExpireView DEF HasHead, Current, Live
<1>24. ASSUME NEW s \in Spellings, NEW f \in Faults, SendHead(c, s, f)
      PROVE  Control(c)'
  BY <1>24, SendHeadView DEF HasHead, Current, Live
<1>25. ASSUME NEW how \in {"half", "gone"}, ClientCloses(c, how)
      PROVE  Control(c)'
  BY <1>25, ClientClosesView DEF HasHead, Current, Live
<1>26. CASE Accept(c)
  BY <1>26, AcceptView
<1>27. CASE SendPart(c)
  BY <1>27, SendPartView DEF HasHead, Current, Live
<1> QED
  BY <1>1, <1>2, <1>3, <1>4, <1>5, <1>6, <1>7, <1>8, <1>9, <1>10, <1>11,
     <1>12, <1>13, <1>14, <1>15, <1>16, <1>17, <1>18, <1>19, <1>20, <1>21,
     <1>22, <1>23, <1>24, <1>25, <1>26, <1>27
     DEF Serve, Client

(***************************************************************************)
(* Replies are not lost on the way: Output is inductive, given Control.    *)
(***************************************************************************)
LEMMA EmptyPlain == ASSUME NEW c PROVE OwnedBy(c, <<>>) /\ NoFatal(<<>>)
BY DEF OwnedBy, NoFatal

LEMMA PlainFatalLast == ASSUME NEW s, NoFatal(s) PROVE FatalLast(s)
BY DEF NoFatal, FatalLast

LEMMA AppendPlain ==
    ASSUME NEW c, NEW s \in Seq(Replies), NEW r \in Replies, r.cn = c,
           r.kind # "fatal", OwnedBy(c, s), NoFatal(s)
    PROVE  OwnedBy(c, Append(s, r)) /\ NoFatal(Append(s, r))
<1>1. /\ Len(s) \in Nat /\ Len(Append(s, r)) = Len(s) + 1
      /\ \A i \in 1 .. Len(s) : Append(s, r)[i] = s[i]
      /\ Append(s, r)[Len(s) + 1] = r
  BY AppendProperties
<1>2. \A i \in 1 .. Len(s) + 1 : i \in 1 .. Len(s) \/ i = Len(s) + 1
  BY <1>1
<1> QED
  BY <1>1, <1>2 DEF OwnedBy, NoFatal

LEMMA AppendLast ==
    ASSUME NEW c, NEW s \in Seq(Replies), NEW r \in Replies, r.cn = c,
           OwnedBy(c, s), NoFatal(s)
    PROVE  /\ OwnedBy(c, Append(s, r)) /\ FatalLast(Append(s, r))
           /\ Append(s, r)[Len(Append(s, r))] = r
<1>1. /\ Len(s) \in Nat /\ Len(Append(s, r)) = Len(s) + 1
      /\ \A i \in 1 .. Len(s) : Append(s, r)[i] = s[i]
      /\ Append(s, r)[Len(s) + 1] = r
  BY AppendProperties
<1>2. \A i \in 1 .. Len(s) + 1 : i \in 1 .. Len(s) \/ i = Len(s) + 1
  BY <1>1
<1> QED
  BY <1>1, <1>2 DEF OwnedBy, NoFatal, FatalLast

LEMMA ConcatPlain ==
    ASSUME NEW c, NEW s \in Seq(Replies), NEW t \in Seq(Replies),
           OwnedBy(c, s), OwnedBy(c, t), NoFatal(s), FatalLast(t)
    PROVE  /\ OwnedBy(c, s \o t) /\ FatalLast(s \o t)
           /\ NoFatal(t) => NoFatal(s \o t)
           /\ Len(s \o t) = Len(s) + Len(t)
           /\ t # <<>> => /\ s \o t # <<>>
                          /\ (s \o t)[Len(s \o t)] = t[Len(t)]
<1>1. /\ Len(s) \in Nat /\ Len(t) \in Nat /\ Len(s \o t) = Len(s) + Len(t)
      /\ \A i \in 1 .. Len(s) + Len(t) :
            (s \o t)[i] = IF i <= Len(s) THEN s[i] ELSE t[i - Len(s)]
  BY ConcatProperties
<1>2. \A i \in 1 .. Len(s) + Len(t) :
          \/ i \in 1 .. Len(s) /\ (s \o t)[i] = s[i]
          \/ i - Len(s) \in 1 .. Len(t) /\ (s \o t)[i] = t[i - Len(s)]
  BY <1>1
<1>3. t # <<>> => s \o t # <<>> /\ Len(t) \in Nat \ {0}
  BY EmptySeq, ConcatEqualIffEmpty
<1>4. t # <<>> => (s \o t)[Len(s) + Len(t)] = t[Len(t)]
  <2> SUFFICES ASSUME t # <<>> PROVE (s \o t)[Len(s) + Len(t)] = t[Len(t)]
    OBVIOUS
  <2>1. /\ Len(s) + Len(t) \in 1 .. Len(s) + Len(t)
        /\ ~(Len(s) + Len(t) <= Len(s)) /\ (Len(s) + Len(t)) - Len(s) = Len(t)
    BY <1>1, <1>3
  <2> QED
    BY <1>1, <2>1
<1>5. OwnedBy(c, s \o t)
  BY <1>1, <1>2 DEF OwnedBy
<1>6. NoFatal(t) => NoFatal(s \o t)
  BY <1>1, <1>2 DEF NoFatal
<1>7. FatalLast(s \o t)
  <2> SUFFICES ASSUME NEW i \in 1 .. Len(s) + Len(t), (s \o t)[i].kind = "fatal"
               PROVE  i = Len(s) + Len(t)
    BY <1>1 DEF FatalLast
  <2>1. i - Len(s) \in 1 .. Len(t) /\ (s \o t)[i] = t[i - Len(s)]
    BY <1>2 DEF NoFatal
  <2>2. i - Len(s) = Len(t)
    BY <2>1 DEF FatalLast
  <2> QED
    BY <1>1, <2>2
<1> QED
  BY <1>1, <1>3, <1>4, <1>5, <1>6, <1>7

LEMMA PrefixPlain ==
    ASSUME NEW c, NEW t \in Seq(Replies), OwnedBy(c, t), FatalLast(t),
           NEW k \in 0 .. Len(t) - 1
    PROVE  /\ SubSeq(t, 1, k) \in Seq(Replies)
           /\ OwnedBy(c, SubSeq(t, 1, k)) /\ NoFatal(SubSeq(t, 1, k))
<1>1. /\ SubSeq(t, 1, k) \in Seq(Replies) /\ Len(SubSeq(t, 1, k)) = k
      /\ \A i \in 1 .. k : SubSeq(t, 1, k)[i] = t[i]
  OBVIOUS
<1>2. \A i \in 1 .. k : i \in 1 .. Len(t) /\ i # Len(t)
  OBVIOUS
<1> QED
  BY <1>1, <1>2 DEF OwnedBy, NoFatal, FatalLast

\* What a flush makes of the replies.
LEMMA FlushDoneOwned ==
    ASSUME TypeOK, NEW c \in Conns, FlushDone(c),
           OwnedBy(c, out[c]), NoFatal(out[c]),
           OwnedBy(c, Written(c)), FatalLast(Written(c))
    PROVE  /\ OwnedBy(c, out'[c]) /\ FatalLast(out'[c])
           /\ NoFatal(Written(c)) => NoFatal(out'[c])
           /\ peer[c] # "gone" => Len(out'[c]) = Len(out[c]) + Len(Written(c))
           /\ peer[c] # "gone" /\ Written(c) # <<>> =>
                 /\ out'[c] # <<>>
                 /\ out'[c][Len(out'[c])] = Written(c)[Len(Written(c))]
<1>1. out[c] \in Seq(Replies) /\ Written(c) \in Seq(Replies)
  BY LocalType
<1>2. CASE peer[c] = "gone"
  BY <1>1, <1>2, PlainFatalLast DEF FlushDone
<1>3. CASE peer[c] # "gone"
  <2>1. out'[c] = out[c] \o Written(c)
    BY <1>3 DEF FlushDone
  <2> QED
    BY <1>1, <2>1, ConcatPlain
<1> QED
  BY <1>2, <1>3

LEMMA FlushLostOwned ==
    ASSUME TypeOK, NEW c \in Conns, FlushLost(c),
           OwnedBy(c, out[c]), NoFatal(out[c]),
           OwnedBy(c, Written(c)), FatalLast(Written(c))
    PROVE  /\ OwnedBy(c, out'[c]) /\ NoFatal(out'[c]) /\ FatalLast(out'[c])
           /\ peer[c] = "gone" \/ deadline'[c] = "expired"
<1>1. out[c] \in Seq(Replies) /\ Written(c) \in Seq(Replies)
  BY LocalType
<1>2. CASE out'[c] = out[c] /\ (peer[c] = "gone" \/ deadline[c] = "expired")
  BY <1>2, PlainFatalLast DEF FlushLost
<1>3. CASE /\ deadline'[c] = "expired"
           /\ \E k \in 0 .. Len(Written(c)) - 1 :
                 out'[c] = out[c] \o SubSeq(Written(c), 1, k)
  <2>1. PICK k \in 0 .. Len(Written(c)) - 1 :
                 out'[c] = out[c] \o SubSeq(Written(c), 1, k)
    BY <1>3
  <2>2. /\ SubSeq(Written(c), 1, k) \in Seq(Replies)
        /\ OwnedBy(c, SubSeq(Written(c), 1, k))
        /\ NoFatal(SubSeq(Written(c), 1, k)) /\ FatalLast(SubSeq(Written(c), 1, k))
    BY <1>1, PrefixPlain, PlainFatalLast
  <2>3. OwnedBy(c, out'[c]) /\ NoFatal(out'[c]) /\ FatalLast(out'[c])
    BY <1>1, <2>1, <2>2, ConcatPlain
  <2> QED
    BY <1>3, <2>3
<1> QED
  BY <1>2, <1>3 DEF FlushLost

LEMMA OutputKept ==
    ASSUME TypeOK, NEW d \in Conns, Output(d), Untouched(d)
    PROVE  Output(d)'
<1> USE DEF Output, Owned, Accounted, Silent, Untouched, SameFlags, SamePeer,
        SameDeadline
<1>1. CASE Live(d)
  <2>1. Live(d)'
    BY <1>1 DEF Live
  <2> QED
    BY <1>1, <2>1
<1>2. CASE ~Live(d)
  <2>1. ~Live(d)' /\ pc[d] \in {"idle", "done"}
    BY <1>2 DEF Live
  <2> QED
    BY <1>2, <2>1
<1> QED
  BY <1>1, <1>2

LEMMA AnswerCounted ==
    ASSUME TypeOK, NEW c \in Conns, HasHead(c),
           NEW k \in {"reply", "unknown", "proto"}, AnswersWith(c, Reply(c, k)),
           OwnedBy(c, Written(c)), NoFatal(Written(c))
    PROVE  /\ OwnedBy(c, Written(c)') /\ NoFatal(Written(c)')
           /\ FatalLast(Written(c)')
           /\ Len(Written(c)') = Len(Written(c)) + 1
<1>1. Reply(c, k) \in Replies
  BY ReplyType
<1>2. Reply(c, k).cn = c /\ Reply(c, k).kind # "fatal"
  BY DEF Reply
<1>3. Written(c) \in Seq(Replies) /\ Written(c)' = Append(Written(c), Reply(c, k))
  BY LocalType DEF AnswersWith, Appends
<1> QED
  BY <1>1, <1>2, <1>3, AppendPlain, AppendNonEmpty, PlainFatalLast

\* Sequences in the terms of which Output is stated have a length.
LEMMA Lengths ==
    ASSUME TypeOK, NEW c \in Conns
    PROVE  Len(out[c]) \in Nat /\ Len(Written(c)) \in Nat /\ answered[c] \in Nat
BY LocalType, LenProperties

\* While requests are served, Output is one equation.
Busy == Labels \ {"idle", "lastflush", "deregister", "release", "done"}
Counts(c) == Len(out[c]) + Len(Written(c)) = answered[c]

LEMMA BusyOutput ==
    ASSUME NEW c \in Conns, pc[c] \in Busy
    PROVE  Output(c) <=> /\ OwnedBy(c, out[c]) /\ NoFatal(out[c])
                         /\ OwnedBy(c, Written(c)) /\ NoFatal(Written(c))
                         /\ ~Silent(c) => Counts(c)
<1>1. Live(c) /\ pc[c] \notin {"lastflush", "deregister", "release", "done"}
  BY DEF Live, Busy
<1> QED
  BY <1>1, PlainFatalLast DEF Output, Owned, Accounted, Counts

LEMMA BusyOutputNext ==
    ASSUME NEW c \in Conns, pc'[c] \in Busy,
           OwnedBy(c, out'[c]), NoFatal(out'[c]),
           OwnedBy(c, Written(c)'), NoFatal(Written(c)'),
           ~Silent(c)' => Counts(c)'
    PROVE  Output(c)'
<1>1. Live(c)' /\ pc'[c] \notin {"lastflush", "deregister", "release", "done"}
  BY DEF Live, Busy
<1> QED
  BY <1>1, PlainFatalLast DEF Output, Owned, Accounted, Counts

LEMMA OneMore ==
    ASSUME NEW a \in Nat, NEW b \in Nat, NEW n \in Nat, a + b = n
    PROVE  a + (b + 1) = n + 1
OBVIOUS

LEMMA AnswerOutput ==
    ASSUME TypeOK, NEW c \in Conns, Output(c), HasHead(c),
           pc[c] \in Busy \ {"fatal"}, pc'[c] \in Busy \ {"fatal", "discard"},
           peer'[c] = peer[c], pc[c] # "discard",
           NEW k \in {"reply", "unknown", "proto"}, AnswersWith(c, Reply(c, k))
    PROVE  Output(c)'
<1>1. /\ OwnedBy(c, out[c]) /\ NoFatal(out[c])
      /\ OwnedBy(c, Written(c)) /\ NoFatal(Written(c))
      /\ ~Silent(c) => Counts(c)
  BY BusyOutput
<1>2. /\ OwnedBy(c, Written(c)') /\ NoFatal(Written(c)')
      /\ Len(Written(c)') = Len(Written(c)) + 1
  BY <1>1, AnswerCounted
<1>3. out'[c] = out[c] /\ answered'[c] = answered[c] + 1
  BY DEF AnswersWith, Appends
<1>4. ~Silent(c)' => ~Silent(c)
  BY DEF Silent, Ending, Busy
<1>5. Counts(c) => Counts(c)'
  <2>1. /\ Len(out[c]) \in Nat /\ Len(Written(c)) \in Nat /\ answered[c] \in Nat
    BY Lengths
  <2>2. Counts(c)' <=> Len(out[c]) + (Len(Written(c)) + 1) = answered[c] + 1
    BY <1>2, <1>3 DEF Counts
  <2> QED
    BY <2>1, <2>2, OneMore, ZenonT(60) DEF Counts
<1> QED
  BY <1>1, <1>2, <1>3, <1>4, <1>5, BusyOutputNext

LEMMA QuietOutput ==
    ASSUME TypeOK, NEW c \in Conns, Output(c), SameOutput(c),
           pc[c] \in Busy, pc'[c] \in Busy, ~Silent(c)' => ~Silent(c)
    PROVE  Output(c)'
<1>1. /\ OwnedBy(c, out[c]) /\ NoFatal(out[c])
      /\ OwnedBy(c, Written(c)) /\ NoFatal(Written(c))
      /\ ~Silent(c) => Counts(c)
  BY BusyOutput
<1>2. Counts(c) => Counts(c)'
  BY DEF Counts, SameOutput
<1> QED
  BY <1>1, <1>2, BusyOutputNext DEF SameOutput

LEMMA OutputStep ==
    ASSUME TypeOK, PoolInv, NEW c \in Conns, Control(c), Output(c),
           Accept(c) \/ Serve(c) \/ Client(c) \/ Expire(c)
    PROVE  Output(c)'
<1> USE DEF Output, Owned, Accounted, Silent, Ending, Live, Walks,
        SameFlags, SamePeer, KeepsInput, SameInput, SameOutput, SameDeadline
<1>1. CASE RegisterAdd(c)
  BY <1>1, RegisterAddView
<1>2. CASE RegisterInc(c)
  BY <1>2, RegisterIncView
<1>3. CASE LoopTop(c)
  <2>1. CASE closed[c]
    <3>1. pc[c] = "loop" /\ pc'[c] = "deregister" /\ Written(c) = <<>>
      BY <1>3, <2>1, LoopTopView DEF Control, Drained
    <3>2. Len(Written(c)) = 0
      BY <3>1, EmptySeq
    <3>3. SameFlags(c) /\ SameInput(c) /\ SameOutput(c) /\ SameDeadline(c)
      BY <1>3, <2>1, LoopTopView
    <3> QED
      BY <3>1, <3>2, <3>3, Lengths
  <2>2. CASE ~closed[c]
    <3>1. pc[c] \in Busy /\ pc'[c] \in Busy /\ SameOutput(c)
      BY <1>3, <2>2, LoopTopView DEF Busy, Labels
    <3>2. ~Silent(c)' => ~Silent(c)
      BY <1>3, <2>2, LoopTopView
    <3> HIDE DEF Output
    <3> QED
      BY <3>1, <3>2, QuietOutput
  <2> QED
    BY <2>1, <2>2
<1>4. CASE Fill(c)
  <2>1. pc[c] \in Busy /\ pc'[c] \in Busy /\ SameOutput(c)
    BY <1>4, FillView DEF Busy, Labels, Proceeds
  <2>2. ~Silent(c)' => ~Silent(c)
    BY <1>4, FillView DEF Consumes, Arrives, Proceeds
  <2> HIDE DEF Output
  <2> QED
    BY <2>1, <2>2, QuietOutput
<1>5. CASE PeekFault(c)
  <2>1. HasHead(c)
    BY <1>5, PeekFaultView, BodyType DEF Control, AtRequest, Serving
  <2>2. peer'[c] = peer[c]
    BY <1>5, PeekFaultView DEF Consumes
  <2> HIDE DEF Output
  <2> QED
    BY <1>5, <2>1, <2>2, PeekFaultView, AnswerOutput DEF Busy, Labels
<1>6. CASE PeekFail(c)
  BY <1>6, PeekFailView
<1>7. CASE Lookup(c)
  <2> HIDE DEF Output
  <2>1. CASE h'[c] = "none"
    BY <1>7, <2>1, LookupView, AnswerOutput DEF Busy, Labels
  <2>2. CASE h'[c] # "none"
    BY <1>7, <2>2, LookupView, QuietOutput DEF Busy, Labels
  <2> QED
    BY <2>1, <2>2
<1>8. CASE Skip(c)
  <2>1. pc[c] \in Busy /\ pc'[c] \in Busy /\ SameOutput(c)
    BY <1>8, SkipView DEF Busy, Labels, Proceeds
  <2>2. ~Silent(c)' => ~Silent(c)
    BY <1>8, SkipView DEF Consumes, Arrives, Proceeds
  <2> HIDE DEF Output
  <2> QED
    BY <2>1, <2>2, QuietOutput
<1>9. CASE CommandCmd(c)
  BY <1>9, CommandCmdView
<1>10. CASE CommandInc(c)
  BY <1>10, CommandIncView
<1>11. CASE ReadExec(c)
  <2>1. HasHead(c)
    BY <1>11, ReadExecView, BodyType DEF Control, AtRequest, Serving
  <2>2. peer'[c] = peer[c]
    BY <1>11, ReadExecView DEF Consumes
  <2> HIDE DEF Output
  <2> QED
    BY <1>11, <2>1, <2>2, ReadExecView, AnswerOutput DEF Busy, Labels
<1>12. CASE ReadFault(c)
  <2>1. HasHead(c)
    BY <1>12, ReadFaultView, BodyType DEF Control, AtRequest, Serving
  <2>2. peer'[c] = peer[c]
    BY <1>12, ReadFaultView DEF Consumes
  <2> HIDE DEF Output
  <2> QED
    BY <1>12, <2>1, <2>2, ReadFaultView, AnswerOutput DEF Busy, Labels
<1>13. CASE ReadFail(c)
  BY <1>13, ReadFailView
<1>14. CASE StreamExec(c)
  <2>1. HasHead(c)
    BY <1>14, StreamExecView, BodyType DEF Control, AtRequest, Serving
  <2>2. peer'[c] = peer[c]
    BY <1>14, StreamExecView DEF Consumes
  <2> HIDE DEF Output
  <2> QED
    BY <1>14, <2>1, <2>2, StreamExecView, AnswerOutput DEF Busy, Labels
<1>15. CASE FlushCheck(c)
  <2>e. OwnedBy(c, <<>>) /\ NoFatal(<<>>) /\ FatalLast(<<>>) /\ Len(<<>>) = 0
    BY EmptyPlain, PlainFatalLast, EmptySeq
  <2>1. CASE /\ Written(c)' = Written(c) /\ out'[c] = out[c]
             /\ SameDeadline(c) /\ GoesOn(c, "nil")
    BY <1>15, <2>1, FlushCheckView DEF GoesOn, Proceeds
  <2>2. CASE FlushDone(c) /\ GoesOn(c, "nil")
    <3>1. /\ OwnedBy(c, out'[c]) /\ FatalLast(out'[c]) /\ NoFatal(out'[c])
          /\ peer[c] # "gone" => Len(out'[c]) = Len(out[c]) + Len(Written(c))
      BY <1>15, <2>2, FlushCheckView, FlushDoneOwned
    <3>2. Written(c)' = <<>> /\ SameDeadline(c)
      BY <2>2 DEF FlushDone
    <3> QED
      BY <1>15, <2>2, <2>e, <3>1, <3>2, FlushCheckView, Lengths
         DEF GoesOn, Proceeds
  <2>3. CASE FlushLost(c) /\ GoesOn(c, "io")
    <3>1. /\ OwnedBy(c, out'[c]) /\ NoFatal(out'[c]) /\ FatalLast(out'[c])
          /\ peer[c] = "gone" \/ deadline'[c] = "expired"
      BY <1>15, <2>3, FlushCheckView, FlushLostOwned
    <3>2. Written(c)' = Written(c)
      BY <2>3 DEF FlushLost
    <3> QED
      BY <1>15, <2>3, <3>1, <3>2, FlushCheckView DEF GoesOn
  <2> QED
    BY <1>15, <2>1, <2>2, <2>3, FlushCheckView
<1>16. CASE Discard(c)
  <2>1. pc[c] \in Busy /\ pc'[c] \in Busy /\ SameOutput(c)
    BY <1>16, DiscardView DEF Busy, Labels, Proceeds
  <2>2. ~Silent(c)' => ~Silent(c)
    BY <1>16, DiscardView DEF Consumes, Arrives, Proceeds
  <2> HIDE DEF Output
  <2> QED
    BY <2>1, <2>2, QuietOutput
<1>17. CASE AppendFatal(c)
  <2>1. /\ FatalReply(c) \in Replies /\ FatalReply(c).cn = c
        /\ FatalReply(c).kind = "fatal"
    BY DEF FatalReply, Replies
  <2>2. Written(c) \in Seq(Replies) /\ Written(c)' = Append(Written(c), FatalReply(c))
    BY <1>17, AppendFatalView, LocalType DEF Appends
  <2>3. /\ OwnedBy(c, Written(c)') /\ FatalLast(Written(c)')
        /\ Written(c)'[Len(Written(c)')].kind = "fatal"
        /\ Len(Written(c)') = Len(Written(c)) + 1
    BY <1>17, <2>1, <2>2, AppendFatalView, AppendLast, AppendNonEmpty
  <2>4. /\ pc[c] = "fatal" /\ pc'[c] = "lastflush" /\ SameFlags(c) /\ SameInput(c)
        /\ out'[c] = out[c] /\ SameDeadline(c) /\ answered'[c] = answered[c]
    BY <1>17, AppendFatalView DEF Appends
  <2>5. Owned(c)'
    BY <2>3, <2>4
  <2>6. ~Silent(c)' => Len(out[c]) + Len(Written(c)) = answered[c]
    BY <2>4
  <2>7. ~Silent(c)' => Len(out'[c]) + Len(Written(c)') = answered'[c] + 1
    <3>1. Len(out[c]) \in Nat /\ Len(Written(c)) \in Nat /\ answered[c] \in Nat
      BY Lengths
    <3>2. ~Silent(c)' => Len(out[c]) + (Len(Written(c)) + 1) = answered[c] + 1
      BY <2>6, <3>1, OneMore
    <3> QED
      BY <2>3, <2>4, <3>2
  <2>8. ~Silent(c)' => Accounted(c)'
    BY <2>3, <2>4, <2>7
  <2> QED
    BY <2>5, <2>8
<1>18. CASE Flush(c)
  <2>e. OwnedBy(c, <<>>) /\ NoFatal(<<>>) /\ FatalLast(<<>>) /\ Len(<<>>) = 0
    BY EmptyPlain, PlainFatalLast, EmptySeq
  <2>1. CASE FlushDone(c) /\ pc'[c] = "loop"
    <3>1. /\ OwnedBy(c, out'[c]) /\ FatalLast(out'[c]) /\ NoFatal(out'[c])
          /\ peer[c] # "gone" => Len(out'[c]) = Len(out[c]) + Len(Written(c))
      BY <1>18, <2>1, FlushView, FlushDoneOwned
    <3>2. Written(c)' = <<>> /\ SameDeadline(c)
      BY <2>1 DEF FlushDone
    <3> QED
      BY <1>18, <2>1, <2>e, <3>1, <3>2, FlushView, Lengths
  <2>2. CASE FlushLost(c) /\ pc'[c] = "deregister"
    <3>1. /\ OwnedBy(c, out'[c]) /\ NoFatal(out'[c]) /\ FatalLast(out'[c])
          /\ peer[c] = "gone" \/ deadline'[c] = "expired"
      BY <1>18, <2>2, FlushView, FlushLostOwned
    <3>2. Written(c)' = Written(c)
      BY <2>2 DEF FlushLost
    <3> QED
      BY <1>18, <2>2, <3>1, <3>2, FlushView
  <2> QED
    BY <1>18, <2>1, <2>2, FlushView
<1>19. CASE LastFlush(c)
  <2>e. OwnedBy(c, <<>>) /\ NoFatal(<<>>) /\ FatalLast(<<>>) /\ Len(<<>>) = 0
    BY EmptyPlain, PlainFatalLast, EmptySeq
  <2>1. CASE FlushDone(c)
    <3>1. /\ OwnedBy(c, out'[c]) /\ FatalLast(out'[c])
          /\ peer[c] # "gone" =>
                /\ Len(out'[c]) = Len(out[c]) + Len(Written(c))
                /\ out'[c] # <<>>
                /\ out'[c][Len(out'[c])] = Written(c)[Len(Written(c))]
      BY <1>19, <2>1, LastFlushView, FlushDoneOwned DEF Control, Drained
    <3>2. Written(c)' = <<>> /\ SameDeadline(c)
      BY <2>1 DEF FlushDone
    <3> QED
      BY <1>19, <2>1, <2>e, <3>1, <3>2, LastFlushView, Lengths
  <2>2. CASE FlushLost(c)
    <3>1. /\ OwnedBy(c, out'[c]) /\ NoFatal(out'[c]) /\ FatalLast(out'[c])
          /\ peer[c] = "gone" \/ deadline'[c] = "expired"
      BY <1>19, <2>2, LastFlushView, FlushLostOwned
    <3>2. Written(c)' = Written(c)
      BY <2>2 DEF FlushLost
    <3> QED
      BY <1>19, <2>2, <3>1, <3>2, LastFlushView
  <2> QED
    BY <1>19, <2>1, <2>2, LastFlushView
<1>20. CASE Deregister(c)
  BY <1>20, DeregisterView
<1>21. CASE Release(c)
  BY <1>21, ReleaseView
<1>22. CASE SendBody(c)
  BY <1>22, SendBodyView
<1>23. CASE Expire(c)
  BY <1>23, ExpireView
<1>24. ASSUME NEW s \in Spellings, NEW f \in Faults, SendHead(c, s, f)
      PROVE  Output(c)'
  BY <1>24, SendHeadView
<1>25. ASSUME NEW how \in {"half", "gone"}, ClientCloses(c, how)
      PROVE  Output(c)'
  BY <1>25, ClientClosesView
<1>26. CASE Accept(c)
  <2>1. OwnedBy(c, <<>>) /\ NoFatal(<<>>) /\ FatalLast(<<>>) /\ Len(<<>>) = 0
    BY EmptyPlain, PlainFatalLast, EmptySeq
  <2>2. out[c] = <<>> /\ answered[c] = 0
    BY <1>26, AcceptView DEF Control, Fresh
  <2> QED
    BY <1>26, <2>1, <2>2, AcceptView
<1>27. CASE SendPart(c)
  BY <1>27, SendPartView
<1> QED
  BY <1>1, <1>2, <1>3, <1>4, <1>5, <1>6, <1>7, <1>8, <1>9, <1>10, <1>11,
     <1>12, <1>13, <1>14, <1>15, <1>16, <1>17, <1>18, <1>19, <1>20, <1>21,
     <1>22, <1>23, <1>24, <1>25, <1>26, <1>27
     DEF Serve, Client

(***************************************************************************)
(* Sequences of whole requests: taking the first one, adding the next one. *)
(***************************************************************************)
LEMMA EmptyWhole == ASSUME NEW n, NEW m PROVE Whole(<<>>, n) /\ Bounded(<<>>, m)
BY DEF Whole, Bounded

LEMMA NonEmpty ==
    ASSUME NEW S, NEW s \in Seq(S)
    PROVE  /\ s # <<>> <=> Len(s) >= 1
           /\ Len(s) \in Nat
BY EmptySeq, LenProperties

LEMMA PieceType ==
    ASSUME NEW s \in Seq(Pieces), NEW i \in 1 .. Len(s)
    PROVE  s[i] \in Pieces /\ s[i].req \in Requests /\ s[i].req.n \in Nat
<1>1. s[i] \in Pieces
  OBVIOUS
<1>2. s[i].req \in Requests
  BY <1>1 DEF Pieces
<1> QED
  BY <1>1, <1>2 DEF Requests

\* A head that needs no body, or a body, is followed by the next request.
LEMMA DropOne ==
    ASSUME NEW s \in Seq(Pieces), s # <<>>, ~HasBodyToCome(s[1]),
           NEW n \in Nat, NEW m \in Nat, NEW o, s[1].req.n = n,
           \A i \in 1 .. Len(s) - 1 : Follows(s[i], s[i + 1]), Bounded(s, m)
    PROVE  /\ Whole(Tail(s), n + 1) /\ Bounded(Tail(s), m)
           /\ UpTo(s, m, o) => Pending(Tail(s), n + 1, m, o)
<1> DEFINE t == Tail(s)
<1>1. /\ t \in Seq(Pieces) /\ Len(t) = Len(s) - 1 /\ Len(s) \in Nat /\ Len(s) >= 1
      /\ \A i \in 1 .. Len(t) : t[i] = s[i + 1]
  BY HeadTailProperties, NonEmpty
<1> HIDE DEF t
<1>2. t # <<>> => Len(t) >= 1 /\ Len(s) >= 2
  BY <1>1, NonEmpty
<1>3. t = <<>> => Len(t) = 0
  BY EmptySeq
<1>4. t # <<>> => t[1].part = "head" /\ t[1].req.n = n + 1
  <2> SUFFICES ASSUME t # <<>> PROVE t[1].part = "head" /\ t[1].req.n = n + 1
    OBVIOUS
  <2>1. 1 \in 1 .. Len(s) - 1 /\ 1 \in 1 .. Len(t) /\ 1 + 1 = 2
    BY <1>1, <1>2
  <2>2. t[1] = s[2] /\ Follows(s[1], s[2])
    BY <1>1, <2>1
  <2> QED
    BY <2>2 DEF Follows
<1>5. ASSUME NEW i \in 1 .. Len(t) - 1 PROVE Follows(t[i], t[i + 1])
  <2>1. /\ i \in 1 .. Len(t) /\ i + 1 \in 1 .. Len(t) /\ i + 1 \in 1 .. Len(s) - 1
    BY <1>1
  <2>2. t[i] = s[i + 1] /\ t[i + 1] = s[(i + 1) + 1]
    BY <1>1, <2>1
  <2>3. Follows(s[i + 1], s[(i + 1) + 1])
    BY <2>1
  <2> QED
    BY <2>2, <2>3
<1>6. ASSUME NEW i \in 1 .. Len(t) PROVE t[i].req.n <= m
  <2>1. i + 1 \in 1 .. Len(s)
    BY <1>1
  <2> QED
    BY <1>1, <2>1 DEF Bounded
<1>7. ASSUME UpTo(s, m, o) PROVE Pending(t, n + 1, m, o)
  <2>1. CASE t = <<>>
    <3>1. Len(s) = 1
      BY <1>1, <1>3, <2>1
    <3> QED
      BY <1>7, <2>1, <3>1 DEF UpTo, Pending
  <2>2. CASE t # <<>>
    <3>1. Len(t) \in 1 .. Len(t) /\ Len(t) + 1 = Len(s)
      BY <1>1, <1>2, <2>2
    <3>2. t[Len(t)] = s[Len(s)]
      BY <1>1, <3>1
    <3> QED
      BY <1>7, <2>2, <3>2 DEF UpTo, Pending
  <2> QED
    BY <2>1, <2>2
<1> QED
  BY <1>4, <1>5, <1>6, <1>7 DEF Whole, Bounded, t

\* PeekFault: the head is all there is of the request.
LEMMA TakeOne ==
    ASSUME NEW s \in Seq(Pieces), s # <<>>, ~HasBodyToCome(s[1]),
           NEW n \in Nat, NEW m \in Nat, NEW o, Whole(s, n), Bounded(s, m)
    PROVE  /\ Whole(Tail(s), n + 1) /\ Bounded(Tail(s), m)
           /\ Pending(s, n, m, o) => Pending(Tail(s), n + 1, m, o)
<1>1. /\ s[1].req.n = n /\ \A i \in 1 .. Len(s) - 1 : Follows(s[i], s[i + 1])
  BY DEF Whole
<1>2. Pending(s, n, m, o) => UpTo(s, m, o)
  BY DEF Pending
<1> QED
  BY <1>1, <1>2, DropOne

\* Any other request is a head and its body.
LEMMA TakeTwo ==
    ASSUME NEW s \in Seq(Pieces), Len(s) >= 2, HasBodyToCome(s[1]),
           NEW n \in Nat, NEW m \in Nat, NEW o, Whole(s, n), Bounded(s, m)
    PROVE  /\ Whole(Tail(Tail(s)), n + 1) /\ Bounded(Tail(Tail(s)), m)
           /\ Pending(s, n, m, o) => Pending(Tail(Tail(s)), n + 1, m, o)
           /\ s[2] = [part |-> "body", req |-> s[1].req]
<1>1. s # <<>> /\ Len(s) \in Nat
  BY NonEmpty
<1> DEFINE t == Tail(s)
<1>2. /\ t \in Seq(Pieces) /\ Len(t) = Len(s) - 1
      /\ \A i \in 1 .. Len(t) : t[i] = s[i + 1]
  BY <1>1, HeadTailProperties
<1>3. s[1].req.n = n /\ Follows(s[1], s[2])
  <2>1. 1 \in 1 .. Len(s) - 1 /\ 1 + 1 = 2
    BY <1>1
  <2> QED
    BY <1>1, <2>1 DEF Whole
<1>4. s[2] = [part |-> "body", req |-> s[1].req]
  BY <1>3 DEF Follows
<1> HIDE DEF t
<1>5. t # <<>> /\ t[1] = s[2]
  BY <1>1, <1>2, NonEmpty
<1>6. t[1].req.n = n /\ ~HasBodyToCome(t[1])
  BY <1>3, <1>4, <1>5 DEF HasBodyToCome
<1>7. ASSUME NEW i \in 1 .. Len(t) - 1 PROVE Follows(t[i], t[i + 1])
  <2>1. /\ i \in 1 .. Len(t) /\ i + 1 \in 1 .. Len(t) /\ i + 1 \in 1 .. Len(s) - 1
    BY <1>1, <1>2
  <2>2. t[i] = s[i + 1] /\ t[i + 1] = s[(i + 1) + 1]
    BY <1>2, <2>1
  <2>3. Follows(s[i + 1], s[(i + 1) + 1])
    BY <2>1 DEF Whole
  <2> QED
    BY <2>2, <2>3
<1>8. Bounded(t, m)
  <2> SUFFICES ASSUME NEW i \in 1 .. Len(t) PROVE t[i].req.n <= m
    BY DEF Bounded
  <2>1. i + 1 \in 1 .. Len(s)
    BY <1>1, <1>2
  <2> QED
    BY <1>2, <2>1 DEF Bounded
<1>9. Pending(s, n, m, o) => UpTo(t, m, o)
  <2>1. Len(t) \in 1 .. Len(t) /\ Len(t) + 1 = Len(s)
    BY <1>1, <1>2
  <2>2. t[Len(t)] = s[Len(s)]
    BY <1>2, <2>1
  <2> QED
    BY <1>1, <1>5, <2>2 DEF Pending, UpTo
<1>10. /\ Whole(Tail(t), n + 1) /\ Bounded(Tail(t), m)
       /\ UpTo(t, m, o) => Pending(Tail(t), n + 1, m, o)
  BY <1>2, <1>5, <1>6, <1>7, <1>8, DropOne
<1> QED
  BY <1>4, <1>9, <1>10 DEF t

\* What a client sends next continues what it has sent.
LEMMA AddPiece ==
    ASSUME NEW s \in Seq(Pieces), NEW p \in Pieces, NEW n \in Nat, NEW m \in Nat,
           Whole(s, n), Bounded(s, m), p.req.n <= m,
           IF s = <<>> THEN p.part = "head" /\ p.req.n = n
                       ELSE Follows(s[Len(s)], p)
    PROVE  /\ Whole(Append(s, p), n) /\ Bounded(Append(s, p), m)
           /\ Append(s, p) # <<>> /\ Append(s, p)[Len(Append(s, p))] = p
<1> DEFINE t == Append(s, p)
<1>1. /\ t \in Seq(Pieces) /\ t # <<>> /\ Len(t) = Len(s) + 1 /\ Len(s) \in Nat
      /\ \A i \in 1 .. Len(s) : t[i] = s[i]
      /\ t[Len(s) + 1] = p
  BY AppendProperties, LenProperties
<1> HIDE DEF t
<1>2. \A i \in 1 .. Len(t) : i \in 1 .. Len(s) \/ i = Len(s) + 1
  BY <1>1
<1>3. Bounded(t, m)
  BY <1>1, <1>2 DEF Bounded
<1>4. t[1].part = "head" /\ t[1].req.n = n
  <2>1. CASE s = <<>>
    BY <1>1, <2>1, EmptySeq
  <2>2. CASE s # <<>>
    <3>1. 1 \in 1 .. Len(s)
      BY <2>2, NonEmpty
    <3> QED
      BY <1>1, <2>2, <3>1 DEF Whole
  <2> QED
    BY <2>1, <2>2
<1>5. ASSUME NEW i \in 1 .. Len(t) - 1 PROVE Follows(t[i], t[i + 1])
  <2>1. i \in 1 .. Len(s) /\ s # <<>>
    BY <1>1, EmptySeq
  <2>2. CASE i = Len(s)
    BY <1>1, <2>1, <2>2
  <2>3. CASE i # Len(s)
    <3>1. i \in 1 .. Len(s) - 1 /\ i + 1 \in 1 .. Len(s)
      BY <1>1, <2>1, <2>3
    <3>2. Follows(s[i], s[i + 1])
      BY <3>1 DEF Whole
    <3>3. t[i] = s[i] /\ t[i + 1] = s[i + 1]
      BY <1>1, <2>1, <3>1
    <3> QED
      BY <3>2, <3>3
  <2> QED
    BY <2>2, <2>3
<1> QED
  BY <1>1, <1>3, <1>4, <1>5 DEF Whole, t

LEMMA AddHead ==
    ASSUME NEW s \in Seq(Pieces), NEW r \in Requests, NEW n \in Nat, NEW m \in Nat,
           Whole(s, n), Bounded(s, m), Pending(s, n, m, <<>>), r.n = m + 1
    PROVE  LET t == Append(s, [part |-> "head", req |-> r])
           IN  /\ Whole(t, n) /\ Bounded(t, m + 1)
               /\ Pending(t, n, m + 1, IF r.fault = "peek" THEN <<>> ELSE <<r>>)
<1> DEFINE p == [part |-> "head", req |-> r]
           t == Append(s, p)
<1>1. p \in Pieces /\ p.part = "head" /\ p.req = r
  BY DEF Pieces
<1>2. Bounded(s, m + 1)
  <2> SUFFICES ASSUME NEW i \in 1 .. Len(s) PROVE s[i].req.n <= m + 1
    BY DEF Bounded
  <2>1. s[i].req.n <= m /\ s[i].req.n \in Nat
    BY PieceType DEF Bounded
  <2> QED
    BY <2>1
<1>3. IF s = <<>> THEN r.n = n ELSE Follows(s[Len(s)], p)
  <2>1. CASE s = <<>>
    BY <2>1 DEF Pending, UpTo
  <2>2. CASE s # <<>>
    <3>1. UpTo(s, m, <<>>)
      BY <2>2 DEF Pending
    <3>2. ~HasBodyToCome(s[Len(s)])
      <4>1. <<s[Len(s)].req>> # <<>>
        OBVIOUS
      <4> QED
        BY <3>1, <4>1 DEF UpTo
    <3> QED
      BY <1>1, <2>2, <3>1, <3>2 DEF UpTo, Follows
  <2> QED
    BY <2>1, <2>2
<1>4. p.req.n <= m + 1 /\ m + 1 \in Nat
  BY <1>1
<1> HIDE DEF p
<1>5. /\ Whole(t, n) /\ Bounded(t, m + 1) /\ t # <<>> /\ t[Len(t)] = p
  BY <1>1, <1>2, <1>3, <1>4, AddPiece
<1> HIDE DEF t
<1>6. Pending(t, n, m + 1, IF r.fault = "peek" THEN <<>> ELSE <<r>>)
  BY <1>1, <1>5 DEF Pending, UpTo, HasBodyToCome
<1> QED
  BY <1>5, <1>6 DEF t, p

LEMMA AddBody ==
    ASSUME NEW s \in Seq(Pieces), NEW o, o # <<>>, NEW n \in Nat, NEW m \in Nat,
           Whole(s, n), Bounded(s, m), Pending(s, n, m, o)
    PROVE  LET t == Append(s, [part |-> "body", req |-> Head(o)])
           IN  /\ Whole(t, n) /\ Bounded(t, m)
               /\ Pending(t, n, m, <<>>)
<1> DEFINE l == s[Len(s)]
           p == [part |-> "body", req |-> l.req]
           t == Append(s, p)
<1>1. s # <<>> /\ l.req.n = m /\ HasBodyToCome(l) /\ o = <<l.req>>
  BY DEF Pending, UpTo
<1>2. Head(o) = l.req
  BY <1>1
<1>3. Len(s) \in 1 .. Len(s)
  BY <1>1, NonEmpty
<1>4. l \in Pieces /\ l.req \in Requests /\ l.req.n \in Nat
  BY <1>3, PieceType
<1>5. p \in Pieces /\ p.req = l.req /\ p.part = "body"
  BY <1>4 DEF Pieces
<1>6. Follows(l, p)
  BY <1>1 DEF Follows
<1> HIDE DEF p
<1>7. p.req.n <= m
  BY <1>1, <1>4, <1>5
<1>8. /\ Whole(t, n) /\ Bounded(t, m) /\ t # <<>> /\ t[Len(t)] = p
  BY <1>1, <1>5, <1>6, <1>7, AddPiece
<1> HIDE DEF t
<1>9. Pending(t, n, m, <<>>)
  BY <1>1, <1>5, <1>8 DEF Pending, UpTo, HasBodyToCome
<1> QED
  BY <1>2, <1>8, <1>9 DEF t, p

LEMMA FirstBound ==
    ASSUME NEW s \in Seq(Pieces), s # <<>>, NEW n, NEW m, Whole(s, n), Bounded(s, m)
    PROVE  n <= m /\ s[1].req.n = n /\ s[1].part = "head"
<1>1. 1 \in 1 .. Len(s)
  BY NonEmpty
<1> QED
  BY <1>1 DEF Whole, Bounded

\* What has been read stays parseable when the rest is lost.
LEMMA PrefixWhole ==
    ASSUME NEW s \in Seq(Pieces), NEW t \in Seq(Pieces), NEW n, NEW m,
           Whole(s \o t, n), Bounded(s \o t, m)
    PROVE  Whole(s, n) /\ Bounded(s, m)
<1>1. /\ Len(s) \in Nat /\ Len(t) \in Nat /\ Len(s \o t) = Len(s) + Len(t)
      /\ \A i \in 1 .. Len(s) + Len(t) :
            (s \o t)[i] = IF i <= Len(s) THEN s[i] ELSE t[i - Len(s)]
  BY ConcatProperties, LenProperties
<1>2. \A i \in 1 .. Len(s) : i \in 1 .. Len(s) + Len(t) /\ (s \o t)[i] = s[i]
  BY <1>1
<1>3. Bounded(s, m)
  BY <1>1, <1>2 DEF Bounded
<1>4. s # <<>> => s[1].part = "head" /\ s[1].req.n = n
  <2> SUFFICES ASSUME s # <<>> PROVE s[1].part = "head" /\ s[1].req.n = n
    OBVIOUS
  <2>1. s \o t # <<>> /\ 1 \in 1 .. Len(s)
    BY NonEmpty, ConcatEqualIffEmpty
  <2> QED
    BY <1>2, <2>1 DEF Whole
<1>5. ASSUME NEW i \in 1 .. Len(s) - 1 PROVE Follows(s[i], s[i + 1])
  <2>1. /\ i \in 1 .. Len(s) /\ i + 1 \in 1 .. Len(s)
        /\ i \in 1 .. (Len(s) + Len(t)) - 1
    BY <1>1
  <2>2. Follows((s \o t)[i], (s \o t)[i + 1])
    BY <1>1, <2>1 DEF Whole
  <2>3. (s \o t)[i] = s[i] /\ (s \o t)[i + 1] = s[i + 1]
    BY <1>2, <2>1
  <2> QED
    BY <2>2, <2>3
<1> QED
  BY <1>3, <1>4, <1>5 DEF Whole

LEMMA TailConcat ==
    ASSUME NEW S, NEW s \in Seq(S), NEW t \in Seq(S), s # <<>>
    PROVE  Tail(s) \o t = Tail(s \o t)
<1> DEFINE u == s \o t  a == Tail(s)
<1>1. /\ u \in Seq(S) /\ u # <<>> /\ Len(u) = Len(s) + Len(t)
      /\ Len(s) \in Nat /\ Len(t) \in Nat /\ Len(s) >= 1
      /\ \A i \in 1 .. Len(s) + Len(t) :
            u[i] = IF i <= Len(s) THEN s[i] ELSE t[i - Len(s)]
  BY ConcatProperties, LenProperties, NonEmpty, ConcatEqualIffEmpty
<1>2. /\ a \in Seq(S) /\ Len(a) = Len(s) - 1
      /\ \A i \in 1 .. Len(a) : a[i] = s[i + 1]
  BY HeadTailProperties
<1> HIDE DEF u, a
<1> DEFINE x == a \o t  y == Tail(u)
<1>3. /\ x \in Seq(S) /\ Len(x) = Len(a) + Len(t)
      /\ \A i \in 1 .. Len(a) + Len(t) :
            x[i] = IF i <= Len(a) THEN a[i] ELSE t[i - Len(a)]
  BY <1>2, ConcatProperties
<1>4. /\ y \in Seq(S) /\ Len(y) = Len(u) - 1
      /\ \A i \in 1 .. Len(y) : y[i] = u[i + 1]
  BY <1>1, HeadTailProperties
<1> HIDE DEF x, y
<1>5. Len(x) = Len(y)
  BY <1>1, <1>2, <1>3, <1>4
<1>6. ASSUME NEW i \in 1 .. Len(x) PROVE x[i] = y[i]
  <2>1. /\ i \in 1 .. Len(a) + Len(t) /\ i \in 1 .. Len(y)
        /\ i + 1 \in 1 .. Len(s) + Len(t)
        /\ i <= Len(a) <=> i + 1 <= Len(s)
        /\ (i + 1) - Len(s) = i - Len(a)
        /\ i <= Len(a) => i \in 1 .. Len(a)
    BY <1>1, <1>2, <1>3, <1>5
  <2>2. x[i] = IF i <= Len(a) THEN a[i] ELSE t[i - Len(a)]
    BY <1>3, <2>1
  <2>3. y[i] = IF i + 1 <= Len(s) THEN s[i + 1] ELSE t[(i + 1) - Len(s)]
    BY <1>1, <1>4, <2>1
  <2>4. i <= Len(a) => a[i] = s[i + 1]
    BY <1>2, <2>1
  <2> QED
    BY <2>1, <2>2, <2>3, <2>4
<1>7. x = y
  BY <1>3, <1>4, <1>5, <1>6, SeqEqual
<1> QED
  BY <1>7 DEF x, y, u, a

(***************************************************************************)
(* The input of a connection                                               *)
(***************************************************************************)
LEMMA StreamType ==
    ASSUME TypeOK, NEW c \in Conns
    PROVE  Stream(c) \in Seq(Pieces) /\ First(c) \in Nat
<1>1. Stream(c) \in Seq(Pieces)
  BY LocalType, ConcatType DEF Stream
<1>2. answered[c] \in Nat
  BY LocalType
<1> QED
  BY <1>1, <1>2 DEF First

LEMMA StreamFront ==
    ASSUME TypeOK, NEW c \in Conns, HasHead(c)
    PROVE  /\ Stream(c) # <<>> /\ Stream(c)[1] = Head(Input(c))
           /\ Stream(c)[1].req = Current(c)
           /\ HasBody(c) => Len(Stream(c)) >= 2 /\ Stream(c)[2] = Input(c)[2]
<1> DEFINE i == Input(c)  w == wire[c]
<1>1. i \in Seq(Pieces) /\ w \in Seq(Pieces) /\ i # <<>>
  BY LocalType DEF HasHead
<1> HIDE DEF i, w
<1>2. i \o w # <<>> /\ Head(i \o w) = Head(i) /\ Head(i) = i[1]
  BY <1>1, HeadOfConcat
<1>3. /\ Len(i) \in Nat /\ Len(w) \in Nat /\ Len(i) >= 1
      /\ Len(i \o w) = Len(i) + Len(w)
      /\ \A k \in 1 .. Len(i) + Len(w) :
            (i \o w)[k] = IF k <= Len(i) THEN i[k] ELSE w[k - Len(i)]
  BY <1>1, ConcatProperties, LenProperties, NonEmpty
<1>4. (i \o w)[1] = Head(i)
  BY <1>2, <1>3
<1>5. Len(i) >= 2 => Len(i \o w) >= 2 /\ (i \o w)[2] = i[2]
  BY <1>3
<1> QED
  BY <1>2, <1>4, <1>5 DEF i, w, Stream, Current, HasBody

LEMMA StreamTakeOne ==
    ASSUME TypeOK, NEW c \in Conns, HasHead(c), Consumes(c, Tail(Input(c)))
    PROVE  Stream(c)' = Tail(Stream(c))
<1>1. Input(c) \in Seq(Pieces) /\ wire[c] \in Seq(Pieces) /\ Input(c) # <<>>
  BY LocalType DEF HasHead
<1>2. Tail(Input(c)) \o wire[c] = Tail(Input(c) \o wire[c])
  BY <1>1, TailConcat
<1> QED
  BY <1>2 DEF Stream, Consumes

LEMMA StreamTakeTwo ==
    ASSUME TypeOK, NEW c \in Conns, HasBody(c), Consumes(c, Tail(Tail(Input(c))))
    PROVE  Stream(c)' = Tail(Tail(Stream(c)))
<1> DEFINE i == Input(c)  w == wire[c]  t == Tail(i)
<1>1. i \in Seq(Pieces) /\ w \in Seq(Pieces) /\ Len(i) >= 2
  BY LocalType DEF HasBody
<1>2. Input(c)' = Tail(t) /\ wire'[c] = w
  BY DEF Consumes
<1> HIDE DEF i, w
<1>3. i # <<>> /\ Len(i) \in Nat
  BY <1>1, NonEmpty
<1>4. t \in Seq(Pieces) /\ Len(t) = Len(i) - 1
  BY <1>1, <1>3, HeadTailProperties
<1>5. t \o w = Tail(i \o w)
  BY <1>1, <1>3, TailConcat
<1> HIDE DEF t
<1>6. t # <<>>
  BY <1>1, <1>3, <1>4, NonEmpty
<1>7. Tail(t) \o w = Tail(t \o w)
  BY <1>1, <1>4, <1>6, TailConcat
<1> QED
  BY <1>2, <1>5, <1>7 DEF Stream, i, w

LEMMA StreamAppend ==
    ASSUME TypeOK, NEW c \in Conns, NEW p \in Pieces,
           Input(c)' = Input(c), wire'[c] = Append(wire[c], p)
    PROVE  Stream(c)' = Append(Stream(c), p)
<1> DEFINE i == Input(c)  w == wire[c]
<1>1. i \in Seq(Pieces) /\ w \in Seq(Pieces)
  BY LocalType
<1> HIDE DEF i, w
<1>2. <<p>> \in Seq(Pieces)
  OBVIOUS
<1>3. i \o w \in Seq(Pieces)
  BY <1>1, ConcatType
<1>4. Append(w, p) = w \o <<p>> /\ Append(i \o w, p) = (i \o w) \o <<p>>
  BY <1>1, <1>3, AppendIsConcat
<1>5. i \o (w \o <<p>>) = (i \o w) \o <<p>>
  BY <1>1, <1>2, ConcatAssociative
<1> QED
  BY <1>4, <1>5 DEF Stream, i, w

LEMMA StreamLost ==
    ASSUME TypeOK, NEW c \in Conns, Consumes(c, <<>>), wire[c] = <<>>
    PROVE  Stream(c)' = <<>>
<1>1. <<>> \o <<>> = <<>>
  BY ConcatEmptySeq
<1> QED
  BY <1>1 DEF Stream, Consumes

(***************************************************************************)
(* With Config.Timeout a stream is discarded only for a closed client.     *)
(***************************************************************************)
LEMMA StreamsCloseInit == Init => StreamsClose
BY DEF Init, StreamsClose

LEMMA StreamsCloseNext ==
    ASSUME Steady, TypeOK, StreamsClose, [Next]_vars
    PROVE  StreamsClose'
<1>1. CASE UNCHANGED cmds
  BY <1>1 DEF StreamsClose
<1>2. ASSUME NEW r \in Registrations, Handle(r[1], r[2])
      PROVE  StreamsClose'
  <2>1. cmds' = [cmds EXCEPT ![Lower[r[1]]] = r[2]]
    BY <1>2 DEF Handle
  <2>2. cmds \in [Names -> Kinds \cup {"none"}]
    BY DEF TypeOK, ServerTypeOK
  <2> QED
    BY <2>1, <2>2 DEF StreamsClose, Steady
<1>3. ASSUME NEW c \in Conns, Serve(c) PROVE UNCHANGED cmds
  BY <1>3 DEF Serve, RegisterAdd, RegisterInc, LoopTop, Fill, PeekFault, PeekFail,
     ReadFails, Lookup, Skip, CommandCmd, CommandInc, ReadExec, ReadFault,
     ReadFail, StreamExec, FlushCheck, Discard, AppendFatal, Flush, LastFlush,
     Deregister, Release
<1>4. ASSUME NEW c \in Conns, Accept(c) \/ Client(c) \/ Expire(c)
      PROVE  UNCHANGED cmds
  BY <1>4 DEF Accept, Client, SendPart, SendHead, SendBody, ClientCloses, Expire
<1>5. CASE AcceptError \/ UNCHANGED vars
  BY <1>1, <1>5 DEF AcceptError, vars
<1> QED
  BY <1>1, <1>2, <1>3, <1>4, <1>5 DEF Next

LEMMA ClosesStreamKept ==
    ASSUME TypeOK, NEW d \in Conns, ClosesStream(d), Untouched(d)
    PROVE  ClosesStream(d)'
BY DEF ClosesStream, Untouched, KeepsInput, SameFlags, Current, Live

LEMMA ClosesStreamStep ==
    ASSUME TypeOK, PoolInv, StreamsClose, NEW c \in Conns, Control(c),
           ClosesStream(c), Accept(c) \/ Serve(c) \/ Client(c) \/ Expire(c)
    PROVE  ClosesStream(c)'
<1> USE DEF ClosesStream, Walks, SameFlags, KeepsInput, SameInput, Current
<1>1. CASE RegisterAdd(c)
  BY <1>1, RegisterAddView
<1>2. CASE RegisterInc(c)
  BY <1>2, RegisterIncView
<1>3. CASE LoopTop(c)
  BY <1>3, LoopTopView
<1>4. CASE Fill(c)
  <2>1. pc[c] = "stream" => Current(c)' = Current(c)
    BY <1>4, FillKeeps DEF Control, AtRequest, Serving
  <2> QED
    BY <1>4, <2>1, FillView
<1>5. CASE PeekFault(c)
  BY <1>5, PeekFaultView
<1>6. CASE PeekFail(c)
  BY <1>6, PeekFailView
<1>7. CASE Lookup(c)
  <2>1. Current(c).name \in Spellings
    BY <1>7, LookupView, CurrentType DEF Requests
  <2>2. Lower[Current(c).name] \in Names
    BY <2>1, LowerInNames
  <2> QED
    BY <1>7, <2>2, LookupView DEF StreamsClose
<1>8. CASE Skip(c)
  BY <1>8, SkipView DEF Proceeds
<1>9. CASE CommandCmd(c)
  BY <1>9, CommandCmdView
<1>10. CASE CommandInc(c)
  BY <1>10, CommandIncView
<1>11. CASE ReadExec(c)
  BY <1>11, ReadExecView DEF Control, AtRequest
<1>12. CASE ReadFault(c)
  BY <1>12, ReadFaultView
<1>13. CASE ReadFail(c)
  BY <1>13, ReadFailView
<1>14. CASE StreamExec(c)
  BY <1>14, StreamExecView
<1>15. CASE FlushCheck(c)
  BY <1>15, FlushCheckView DEF GoesOn, Proceeds
<1>16. CASE Discard(c)
  BY <1>16, DiscardView DEF Proceeds
<1>17. CASE AppendFatal(c)
  BY <1>17, AppendFatalView
<1>18. CASE Flush(c)
  BY <1>18, FlushView
<1>19. CASE LastFlush(c)
  BY <1>19, LastFlushView
<1>20. CASE Deregister(c)
  BY <1>20, DeregisterView
<1>21. CASE Release(c)
  BY <1>21, ReleaseView
<1>22. CASE SendBody(c)
  BY <1>22, SendBodyView
<1>23. CASE Expire(c)
  BY <1>23, ExpireView
<1>24. ASSUME NEW s \in Spellings, NEW f \in Faults, SendHead(c, s, f)
      PROVE  ClosesStream(c)'
  BY <1>24, SendHeadView
<1>25. ASSUME NEW how \in {"half", "gone"}, ClientCloses(c, how)
      PROVE  ClosesStream(c)'
  BY <1>25, ClientClosesView
<1>26. CASE Accept(c)
  BY <1>26, AcceptView
<1>27. CASE SendPart(c)
  BY <1>27, SendPartView
<1> QED
  BY <1>1, <1>2, <1>3, <1>4, <1>5, <1>6, <1>7, <1>8, <1>9, <1>10, <1>11,
     <1>12, <1>13, <1>14, <1>15, <1>16, <1>17, <1>18, <1>19, <1>20, <1>21,
     <1>22, <1>23, <1>24, <1>25, <1>26, <1>27
     DEF Serve, Client

(***************************************************************************)
(* The parser stays on request boundaries                                  *)
(***************************************************************************)
LEMMA ParsesKept ==
    ASSUME TypeOK, NEW d \in Conns, Parses(d), Untouched(d)
    PROVE  Parses(d)'
<1> USE DEF Parses, Untouched, KeepsInput, SameFlags, SamePeer, SameDeadline
<1>1. CASE Live(d)
  BY <1>1 DEF Parsing, Finished, First, Taken, Stream, Live
<1>2. CASE ~Live(d)
  BY <1>2 DEF Live
<1> QED
  BY <1>1, <1>2

\* Nothing is consumed and nothing answered.
LEMMA ParsesSame ==
    ASSUME NEW c \in Conns, Parses(c), Live(c), ~Finished(c)' => ~Finished(c),
           ~Finished(c)' => First(c)' = First(c), Stream(c)' = Stream(c),
           SamePeer(c), answered'[c] = answered[c]
    PROVE  Parses(c)'
BY DEF Parses, Parsing, SamePeer

\* The request in front is answered, and is consumed now or later.
LEMMA ParsesAnswer ==
    ASSUME TypeOK, NEW c \in Conns, Parses(c), Live(c), ~Finished(c), ~Taken(c),
           HasHead(c), SamePeer(c), answered'[c] = answered[c] + 1,
           LET s == Stream(c)' IN
           \/ s = Stream(c) /\ Taken(c)'
           \/ s = Tail(Stream(c)) /\ Current(c).fault = "peek" /\ ~Taken(c)'
           \/ /\ s = Tail(Tail(Stream(c))) /\ Current(c).fault # "peek"
              /\ HasBody(c) /\ ~Taken(c)'
    PROVE  Parses(c)'
<1> DEFINE s == Stream(c)  n == First(c)  m == sent[c]  o == owed[c]
<1>1. s \in Seq(Pieces) /\ n \in Nat /\ m \in Nat /\ answered[c] \in Nat
  BY StreamType, LocalType
<1>2. /\ s # <<>> /\ s[1].req = Current(c)
      /\ HasBody(c) => Len(s) >= 2
  BY StreamFront
<1>3. /\ Whole(s, n) /\ Bounded(s, m) /\ n = answered[c] + 1
      /\ peer[c] = "open" => Pending(s, n, m, o)
  BY DEF Parses, Parsing, First
<1>4. n <= m /\ s[1].part = "head"
  BY <1>1, <1>2, <1>3, FirstBound
<1>5. HasBodyToCome(s[1]) <=> Current(c).fault # "peek"
  BY <1>2, <1>4 DEF HasBodyToCome
<1>6. answered'[c] <= sent'[c]
  BY <1>3, <1>4 DEF SamePeer
<1>7. sent'[c] = m /\ owed'[c] = o /\ peer'[c] = peer[c]
  BY DEF SamePeer
<1> HIDE DEF s, n, m, o
<1>8. CASE Stream(c)' = s /\ Taken(c)'
  <2>1. First(c)' = n
    BY <1>3, <1>8 DEF First
  <2> QED
    BY <1>3, <1>6, <1>7, <1>8, <2>1 DEF Parses, Parsing
<1>9. CASE Stream(c)' = Tail(s) /\ Current(c).fault = "peek" /\ ~Taken(c)'
  <2>1. First(c)' = n + 1
    BY <1>1, <1>3, <1>9 DEF First
  <2>2. /\ Whole(Tail(s), n + 1) /\ Bounded(Tail(s), m)
        /\ Pending(s, n, m, o) => Pending(Tail(s), n + 1, m, o)
    BY <1>1, <1>2, <1>3, <1>5, <1>9, TakeOne
  <2> QED
    BY <1>3, <1>6, <1>7, <1>9, <2>1, <2>2 DEF Parses, Parsing
<1>10. CASE /\ Stream(c)' = Tail(Tail(s)) /\ Current(c).fault # "peek"
            /\ HasBody(c) /\ ~Taken(c)'
  <2>1. First(c)' = n + 1
    BY <1>1, <1>3, <1>10 DEF First
  <2>2. /\ Whole(Tail(Tail(s)), n + 1) /\ Bounded(Tail(Tail(s)), m)
        /\ Pending(s, n, m, o) => Pending(Tail(Tail(s)), n + 1, m, o)
    BY <1>1, <1>2, <1>3, <1>5, <1>10, TakeTwo
  <2> QED
    BY <1>3, <1>6, <1>7, <1>10, <2>1, <2>2 DEF Parses, Parsing
<1> QED
  BY <1>8, <1>9, <1>10 DEF s

\* A request that has been answered is consumed, or the input has ended.
LEMMA ParsesConsume ==
    ASSUME TypeOK, NEW c \in Conns, Parses(c), Live(c), ~Finished(c), Taken(c),
           HasHead(c), Current(c).fault # "peek", Consumes(c, Rest(c)),
           answered'[c] = answered[c], ~Finished(c)' => ~Taken(c)',
           HasBody(c) \/ Finished(c)' \/ (peer[c] # "open" /\ wire[c] = <<>>)
    PROVE  Parses(c)'
<1> DEFINE s == Stream(c)  n == First(c)  m == sent[c]  o == owed[c]
<1>1. s \in Seq(Pieces) /\ n \in Nat /\ m \in Nat /\ answered[c] \in Nat
  BY StreamType, LocalType
<1>2. /\ s # <<>> /\ s[1].req = Current(c)
      /\ HasBody(c) => Len(s) >= 2
  BY StreamFront
<1>3. /\ Whole(s, n) /\ Bounded(s, m) /\ n = answered[c]
      /\ peer[c] = "open" => Pending(s, n, m, o)
      /\ answered[c] <= sent[c]
  BY DEF Parses, Parsing, First
<1>4. n <= m /\ s[1].part = "head"
  BY <1>1, <1>2, <1>3, FirstBound
<1>5. HasBodyToCome(s[1])
  BY <1>2, <1>4 DEF HasBodyToCome
<1>7. sent'[c] = m /\ owed'[c] = o /\ peer'[c] = peer[c]
  BY DEF Consumes, SamePeer
<1>8. CASE Finished(c)'
  BY <1>3, <1>7, <1>8 DEF Parses
<1>9. CASE HasBody(c) /\ ~Finished(c)'
  <2>1. First(c)' = n + 1
    BY <1>1, <1>3, <1>9 DEF First
  <2>2. Stream(c)' = Tail(Tail(s))
    BY <1>9, StreamTakeTwo DEF Rest
  <2> HIDE DEF s, n, m, o
  <2>3. /\ Whole(Tail(Tail(s)), n + 1) /\ Bounded(Tail(Tail(s)), m)
        /\ Pending(s, n, m, o) => Pending(Tail(Tail(s)), n + 1, m, o)
    BY <1>1, <1>2, <1>3, <1>5, <1>9, TakeTwo
  <2>4. answered'[c] <= sent'[c]
    BY <1>3, <1>7 DEF m
  <2> QED
    BY <1>3, <1>7, <2>1, <2>2, <2>3, <2>4 DEF Parses, Parsing
<1>10. CASE ~HasBody(c) /\ peer[c] # "open" /\ wire[c] = <<>>
  <2>1. Stream(c)' = <<>>
    BY <1>10, StreamLost DEF Rest
  <2> QED
    BY <1>3, <1>7, <1>10, <2>1, EmptyWhole DEF Parses, Parsing
<1> QED
  BY <1>8, <1>9, <1>10

LEMMA ParsesStep ==
    ASSUME TypeOK, PoolInv, NEW c \in Conns, Control(c), ClosesStream(c),
           Parses(c), Accept(c) \/ Serve(c) \/ Client(c) \/ Expire(c)
    PROVE  Parses(c)'
<1> USE DEF Finished, Taken, Ending, Live
<1>1. CASE RegisterAdd(c)
  <2>1. /\ pc[c] \notin {"idle", "done"} /\ SamePeer(c)
        /\ Stream(c)' = Stream(c) /\ answered'[c] = answered[c]
    BY <1>1, RegisterAddView DEF Walks, KeepsInput, SameInput, SameOutput, Stream
  <2>2. /\ ~Finished(c)' => ~Finished(c)
        /\ ~Finished(c)' => First(c)' = First(c)
    BY <1>1, RegisterAddView
       DEF Walks, SameFlags, SameOutput, SameDeadline, First, Control, AtRequest
  <2> QED
    BY <2>1, <2>2, ParsesSame
<1>2. CASE RegisterInc(c)
  <2>1. /\ pc[c] \notin {"idle", "done"} /\ SamePeer(c)
        /\ Stream(c)' = Stream(c) /\ answered'[c] = answered[c]
    BY <1>2, RegisterIncView DEF Walks, KeepsInput, SameInput, SameOutput, Stream
  <2>2. /\ ~Finished(c)' => ~Finished(c)
        /\ ~Finished(c)' => First(c)' = First(c)
    BY <1>2, RegisterIncView
       DEF Walks, SameFlags, SameOutput, SameDeadline, First, Control, AtRequest
  <2> QED
    BY <2>1, <2>2, ParsesSame
<1>3. CASE LoopTop(c)
  <2>1. /\ pc[c] \notin {"idle", "done"} /\ SamePeer(c)
        /\ Stream(c)' = Stream(c) /\ answered'[c] = answered[c]
    BY <1>3, LoopTopView DEF Walks, KeepsInput, SameInput, SameOutput, Stream
  <2>2. /\ ~Finished(c)' => ~Finished(c)
        /\ ~Finished(c)' => First(c)' = First(c)
    BY <1>3, LoopTopView
       DEF Walks, SameFlags, SameOutput, SameDeadline, First, Control, AtRequest
  <2> QED
    BY <2>1, <2>2, ParsesSame
<1>4. CASE Fill(c)
  <2>1. /\ pc[c] \notin {"idle", "done"} /\ SamePeer(c)
        /\ Stream(c)' = Stream(c) /\ answered'[c] = answered[c]
    BY <1>4, FillView, FillKeeps DEF SameOutput, Arrives
  <2>2. /\ ~Finished(c)' => ~Finished(c)
        /\ ~Finished(c)' => First(c)' = First(c)
    BY <1>4, FillView DEF SameFlags, SameOutput, SameDeadline, First
  <2> QED
    BY <2>1, <2>2, ParsesSame
<1>5. CASE PeekFault(c)
  <2>1. Stream(c)' = Tail(Stream(c))
    BY <1>5, PeekFaultView, StreamTakeOne
  <2> QED
    BY <1>5, <2>1, PeekFaultView, ParsesAnswer DEF AnswersWith, Consumes
<1>6. CASE PeekFail(c)
  <2>1. /\ pc[c] \notin {"idle", "done"} /\ SamePeer(c)
        /\ Stream(c)' = Stream(c) /\ answered'[c] = answered[c]
    BY <1>6, PeekFailView DEF Walks, KeepsInput, SameInput, SameOutput, Stream
  <2>2. /\ ~Finished(c)' => ~Finished(c)
        /\ ~Finished(c)' => First(c)' = First(c)
    BY <1>6, PeekFailView
       DEF Walks, SameFlags, SameOutput, SameDeadline, First, Control, AtRequest
  <2> QED
    BY <2>1, <2>2, ParsesSame
<1>7. CASE Lookup(c)
  <2>1. Stream(c)' = Stream(c) /\ SamePeer(c)
    BY <1>7, LookupView DEF KeepsInput, SameInput, Stream
  <2>2. CASE h'[c] = "none"
    BY <1>7, <2>1, <2>2, LookupView, ParsesAnswer DEF AnswersWith
  <2>3. CASE h'[c] # "none"
    BY <1>7, <2>1, <2>3, LookupView, ParsesSame DEF SameOutput, First
  <2> QED
    BY <2>2, <2>3
<1>8. CASE Skip(c)
  <2>1. HasHead(c) /\ Current(c).fault # "peek"
    BY <1>8, SkipView DEF Control, AtRequest, Serving
  <2>2. ~Finished(c) /\ Taken(c) /\ pc[c] \notin {"idle", "done"} /\ ~Taken(c)'
    BY <1>8, SkipView DEF Proceeds
  <2>3. ASSUME ~HasBody(c), deadline[c] = "expired" PROVE Finished(c)'
    BY <1>8, <2>3, SkipView
       DEF Control, Drained, Proceeds, Rest, SameFlags, SameOutput, SameDeadline
  <2>4. HasBody(c) \/ Finished(c)' \/ (peer[c] # "open" /\ wire[c] = <<>>)
    BY <1>8, <2>3, SkipView DEF Failing
  <2> QED
    BY <1>8, <2>1, <2>2, <2>4, SkipView, ParsesConsume DEF SameOutput
<1>9. CASE CommandCmd(c)
  <2>1. /\ pc[c] \notin {"idle", "done"} /\ SamePeer(c)
        /\ Stream(c)' = Stream(c) /\ answered'[c] = answered[c]
    BY <1>9, CommandCmdView DEF Walks, KeepsInput, SameInput, SameOutput, Stream
  <2>2. /\ ~Finished(c)' => ~Finished(c)
        /\ ~Finished(c)' => First(c)' = First(c)
    BY <1>9, CommandCmdView
       DEF Walks, SameFlags, SameOutput, SameDeadline, First, Control, AtRequest
  <2> QED
    BY <2>1, <2>2, ParsesSame
<1>10. CASE CommandInc(c)
  <2>1. /\ pc[c] \notin {"idle", "done"} /\ SamePeer(c)
        /\ Stream(c)' = Stream(c) /\ answered'[c] = answered[c]
    BY <1>10, CommandIncView DEF Walks, KeepsInput, SameInput, SameOutput, Stream
  <2>2. /\ ~Finished(c)' => ~Finished(c)
        /\ ~Finished(c)' => First(c)' = First(c)
    BY <1>10, CommandIncView
       DEF Walks, SameFlags, SameOutput, SameDeadline, First, Control, AtRequest
  <2> QED
    BY <2>1, <2>2, ParsesSame
<1>11. CASE ReadExec(c)
  <2>1. Stream(c)' = Tail(Tail(Stream(c)))
    BY <1>11, ReadExecView, StreamTakeTwo
  <2>2. HasHead(c) /\ Current(c).fault # "peek" /\ h[c] = "handler"
    BY <1>11, ReadExecView DEF Control, AtRequest, Serving
  <2> QED
    BY <1>11, <2>1, <2>2, ReadExecView, ParsesAnswer DEF AnswersWith, Consumes
<1>12. CASE ReadFault(c)
  <2>1. Stream(c)' = Tail(Tail(Stream(c)))
    BY <1>12, ReadFaultView, StreamTakeTwo
  <2>2. HasHead(c) /\ Current(c).fault # "peek" /\ h[c] = "handler"
    BY <1>12, ReadFaultView DEF Control, AtRequest, Serving
  <2> QED
    BY <1>12, <2>1, <2>2, ReadFaultView, ParsesAnswer DEF AnswersWith, Consumes
<1>13. CASE ReadFail(c)
  <2>1. /\ pc[c] \notin {"idle", "done"} /\ SamePeer(c)
        /\ Stream(c)' = Stream(c) /\ answered'[c] = answered[c]
    BY <1>13, ReadFailView DEF Walks, KeepsInput, SameInput, SameOutput, Stream
  <2>2. /\ ~Finished(c)' => ~Finished(c)
        /\ ~Finished(c)' => First(c)' = First(c)
    BY <1>13, ReadFailView
       DEF Walks, SameFlags, SameOutput, SameDeadline, First, Control, AtRequest
  <2> QED
    BY <2>1, <2>2, ParsesSame
<1>14. CASE StreamExec(c)
  <2>1. Stream(c)' = Stream(c) /\ SamePeer(c)
    BY <1>14, StreamExecView DEF KeepsInput, SameInput, Stream
  <2>2. HasHead(c) /\ h[c] = "stream"
    BY <1>14, StreamExecView DEF Control, AtRequest, Serving
  <2> QED
    BY <1>14, <2>1, <2>2, StreamExecView, ParsesAnswer DEF AnswersWith
<1>15. CASE FlushCheck(c)
  <2>1. /\ pc[c] \notin {"idle", "done"} /\ SamePeer(c)
        /\ Stream(c)' = Stream(c) /\ answered'[c] = answered[c]
    BY <1>15, FlushCheckView DEF KeepsInput, SameInput, Stream
  <2>2. /\ ~Finished(c)' => ~Finished(c)
        /\ ~Finished(c)' => First(c)' = First(c)
    BY <1>15, FlushCheckView DEF SameFlags, First, GoesOn, Proceeds
  <2> QED
    BY <2>1, <2>2, ParsesSame
<1>16. CASE Discard(c)
  <2>1. HasHead(c) /\ Current(c).fault # "peek"
    BY <1>16, DiscardView DEF Control, AtRequest, Serving
  <2>2. ~Finished(c) /\ Taken(c) /\ pc[c] \notin {"idle", "done"} /\ ~Taken(c)'
    BY <1>16, DiscardView DEF Proceeds
  <2>3. ASSUME ~HasBody(c), deadline[c] = "expired" PROVE Finished(c)'
    BY <1>16, <2>3, DiscardView
       DEF Control, Closing, AtRequest, ClosesStream, Proceeds, Rest, SameFlags, SameOutput, SameDeadline
  <2>4. HasBody(c) \/ Finished(c)' \/ (peer[c] # "open" /\ wire[c] = <<>>)
    BY <1>16, <2>3, DiscardView DEF Failing
  <2> QED
    BY <1>16, <2>1, <2>2, <2>4, DiscardView, ParsesConsume DEF SameOutput
<1>17. CASE AppendFatal(c)
  <2>1. /\ pc[c] \notin {"idle", "done"} /\ SamePeer(c)
        /\ Stream(c)' = Stream(c) /\ answered'[c] = answered[c]
    BY <1>17, AppendFatalView DEF KeepsInput, SameInput, Stream
  <2>2. /\ ~Finished(c)' => ~Finished(c)
        /\ ~Finished(c)' => First(c)' = First(c)
    BY <1>17, AppendFatalView DEF SameFlags, First
  <2> QED
    BY <2>1, <2>2, ParsesSame
<1>18. CASE Flush(c)
  <2>1. /\ pc[c] \notin {"idle", "done"} /\ SamePeer(c)
        /\ Stream(c)' = Stream(c) /\ answered'[c] = answered[c]
    BY <1>18, FlushView DEF KeepsInput, SameInput, Stream
  <2>2. /\ ~Finished(c)' => ~Finished(c)
        /\ ~Finished(c)' => First(c)' = First(c)
    BY <1>18, FlushView DEF SameFlags, First, FlushDone
  <2> QED
    BY <2>1, <2>2, ParsesSame
<1>19. CASE LastFlush(c)
  <2>1. /\ pc[c] \notin {"idle", "done"} /\ SamePeer(c)
        /\ Stream(c)' = Stream(c) /\ answered'[c] = answered[c]
    BY <1>19, LastFlushView DEF KeepsInput, SameInput, Stream
  <2>2. /\ ~Finished(c)' => ~Finished(c)
        /\ ~Finished(c)' => First(c)' = First(c)
    BY <1>19, LastFlushView DEF SameFlags, First
  <2> QED
    BY <2>1, <2>2, ParsesSame
<1>20. CASE Deregister(c)
  <2>1. /\ pc[c] \notin {"idle", "done"} /\ SamePeer(c)
        /\ Stream(c)' = Stream(c) /\ answered'[c] = answered[c]
    BY <1>20, DeregisterView DEF Walks, KeepsInput, SameInput, SameOutput, Stream
  <2>2. /\ ~Finished(c)' => ~Finished(c)
        /\ ~Finished(c)' => First(c)' = First(c)
    BY <1>20, DeregisterView
       DEF Walks, SameFlags, SameOutput, SameDeadline, First, Control, AtRequest
  <2> QED
    BY <2>1, <2>2, ParsesSame
<1>21. CASE Release(c)
  <2>1. /\ pc[c] \notin {"idle", "done"} /\ SamePeer(c)
        /\ Stream(c)' = Stream(c) /\ answered'[c] = answered[c]
    BY <1>21, ReleaseView DEF Walks, KeepsInput, SameInput, SameOutput, Stream
  <2>2. /\ ~Finished(c)' => ~Finished(c)
        /\ ~Finished(c)' => First(c)' = First(c)
    BY <1>21, ReleaseView
       DEF Walks, SameFlags, SameOutput, SameDeadline, First, Control, AtRequest
  <2> QED
    BY <2>1, <2>2, ParsesSame
<1>22. CASE SendBody(c)
  <2> DEFINE p == [part |-> "body", req |-> Head(owed[c])]
  <2>1. p \in Pieces
    BY <1>22, SendBodyView, LocalType, TailType DEF Pieces
  <2>2. Stream(c)' = Append(Stream(c), p)
    BY <1>22, <2>1, SendBodyView, StreamAppend DEF KeepsInput
  <2>3. /\ Finished(c)' <=> Finished(c)
        /\ First(c)' = First(c) /\ answered'[c] = answered[c]
    BY <1>22, SendBodyView DEF SameFlags, SameOutput, SameDeadline, First
  <2>4. CASE Finished(c)
    BY <1>22, <2>3, <2>4, SendBodyView DEF Parses
  <2>5. CASE ~Finished(c)
    <3>1. Parsing(c) /\ answered[c] <= sent[c] /\ peer[c] = "open" /\ owed[c] # <<>>
      BY <1>22, <2>5, SendBodyView DEF Parses
    <3>2. /\ Whole(Append(Stream(c), p), First(c))
          /\ Bounded(Append(Stream(c), p), sent[c])
          /\ Pending(Append(Stream(c), p), First(c), sent[c], <<>>)
      BY <3>1, StreamType, LocalType, AddBody DEF Parsing
    <3> QED
      BY <1>22, <2>2, <2>3, <3>1, <3>2, SendBodyView DEF Parses, Parsing
  <2> QED
    BY <2>4, <2>5
<1>23. CASE Expire(c)
  <2>1. /\ pc[c] \notin {"idle", "done"} /\ SamePeer(c)
        /\ Stream(c)' = Stream(c) /\ answered'[c] = answered[c]
    BY <1>23, ExpireView DEF KeepsInput, SameInput, SameOutput, Stream
  <2>2. /\ ~Finished(c)' => ~Finished(c)
        /\ ~Finished(c)' => First(c)' = First(c)
    BY <1>23, ExpireView DEF SameFlags, SameOutput, First
  <2> QED
    BY <2>1, <2>2, ParsesSame
<1>24. ASSUME NEW s \in Spellings, NEW f \in Faults, SendHead(c, s, f)
      PROVE  Parses(c)'
  <2> DEFINE r == Request(c, s, f)
             p == [part |-> "head", req |-> r]
  <2>1. r \in Requests /\ p \in Pieces /\ r.n = sent[c] + 1 /\ r.fault = f
    BY LocalType DEF Request, Requests, Pieces
  <2> HIDE DEF r
  <2>2. Stream(c)' = Append(Stream(c), p)
    BY <1>24, <2>1, SendHeadView, StreamAppend DEF KeepsInput, r
  <2>3. /\ Finished(c)' <=> Finished(c)
        /\ First(c)' = First(c) /\ answered'[c] = answered[c]
        /\ answered[c] <= sent'[c] /\ sent'[c] = sent[c] + 1
    <3>1. sent'[c] = sent[c] + 1
      BY <1>24, SendHeadView
    <3>2. answered[c] \in Nat /\ sent[c] \in Nat /\ answered[c] <= sent[c]
      BY LocalType DEF Parses
    <3>3. answered[c] <= sent[c] + 1
      BY <3>2
    <3> QED
      BY <1>24, <3>1, <3>3, SendHeadView
         DEF SameFlags, SameOutput, SameDeadline, First
  <2>4. CASE Finished(c)
    BY <1>24, <2>3, <2>4, SendHeadView DEF Parses
  <2>5. CASE ~Finished(c)
    <3>1. Parsing(c) /\ peer[c] = "open" /\ owed[c] = <<>>
      BY <1>24, <2>5, SendHeadView DEF Parses
    <3>2. /\ Whole(Append(Stream(c), p), First(c))
          /\ Bounded(Append(Stream(c), p), sent[c] + 1)
          /\ Pending(Append(Stream(c), p), First(c), sent[c] + 1,
                     IF r.fault = "peek" THEN <<>> ELSE <<r>>)
      BY <2>1, <3>1, StreamType, LocalType, AddHead DEF Parsing
    <3>3. owed'[c] = IF r.fault = "peek" THEN <<>> ELSE <<r>>
      BY <1>24, <2>1, SendHeadView DEF r
    <3> QED
      BY <2>2, <2>3, <3>2, <3>3 DEF Parses, Parsing
  <2> QED
    BY <2>4, <2>5
<1>25. ASSUME NEW how \in {"half", "gone"}, ClientCloses(c, how)
      PROVE  Parses(c)'
  <2>1. /\ Finished(c)' <=> Finished(c)
        /\ First(c)' = First(c) /\ answered'[c] = answered[c]
        /\ sent'[c] = sent[c] /\ peer'[c] # "open" /\ Live(c)
    BY <1>25, ClientClosesView DEF SameFlags, SameOutput, SameDeadline, First
  <2>2. Input(c) \in Seq(Pieces) /\ wire[c] \in Seq(Pieces)
    BY LocalType
  <2>3. ASSUME ~Finished(c)
        PROVE  Whole(Stream(c)', First(c)) /\ Bounded(Stream(c)', sent[c])
    <3>1. Whole(Stream(c), First(c)) /\ Bounded(Stream(c), sent[c])
      BY <2>1, <2>3 DEF Parses, Parsing
    <3>2. CASE wire'[c] = wire[c]
      BY <1>25, <3>1, <3>2, ClientClosesView DEF KeepsInput, Stream
    <3>3. CASE wire'[c] = <<>>
      <4>1. Stream(c)' = Input(c)
        BY <1>25, <2>2, <3>3, ClientClosesView, ConcatEmptySeq DEF KeepsInput, Stream
      <4> QED
        BY <2>2, <3>1, <4>1, PrefixWhole DEF Stream
    <3> QED
      BY <1>25, <3>2, <3>3, ClientClosesView
  <2> QED
    BY <2>1, <2>3 DEF Parses, Parsing
<1>26. CASE Accept(c)
  <2>1. /\ wire[c] = <<>> /\ owed[c] = <<>> /\ sent[c] = 0 /\ answered[c] = 0
    BY <1>26, AcceptView DEF Control, Fresh
  <2>2. Stream(c)' = <<>>
    <3>1. Input(c)' = <<>> /\ wire'[c] = <<>>
      BY <1>26, <2>1, AcceptView
    <3>2. <<>> \o <<>> = <<>>
      BY ConcatEmptySeq
    <3> QED
      BY <3>1, <3>2 DEF Stream
  <2>3. First(c)' = 1 /\ sent'[c] = 0 /\ owed'[c] = <<>> /\ answered'[c] = 0
    BY <1>26, <2>1, AcceptView DEF First, SamePeer
  <2>4. Whole(<<>>, 1) /\ Bounded(<<>>, 0) /\ Pending(<<>>, 1, 0, <<>>)
    BY EmptyWhole DEF Pending
  <2> QED
    BY <2>2, <2>3, <2>4 DEF Parses, Parsing
<1>27. CASE SendPart(c)
  <2>1. /\ pc[c] \notin {"idle", "done"} /\ SamePeer(c)
        /\ Stream(c)' = Stream(c) /\ answered'[c] = answered[c]
    BY <1>27, SendPartView
       DEF Live, Walks, KeepsInput, SameInput, SameOutput, Stream
  <2>2. /\ ~Finished(c)' => ~Finished(c)
        /\ ~Finished(c)' => First(c)' = First(c)
    BY <1>27, SendPartView
       DEF Walks, SameFlags, SameOutput, SameDeadline, First, Control, AtRequest
  <2> QED
    BY <2>1, <2>2, ParsesSame
<1> QED
  BY <1>1, <1>2, <1>3, <1>4, <1>5, <1>6, <1>7, <1>8, <1>9, <1>10, <1>11,
     <1>12, <1>13, <1>14, <1>15, <1>16, <1>17, <1>18, <1>19, <1>20, <1>21,
     <1>22, <1>23, <1>24, <1>25, <1>26, <1>27
     DEF Serve, Client

(***************************************************************************)
(* The replies are numbered as the requests                                *)
(***************************************************************************)
LEMMA NumberedEmpty == ASSUME NEW n PROVE Numbered(<<>>, n)
BY DEF Numbered

LEMMA NumberedAppend ==
    ASSUME NEW s \in Seq(Replies), NEW r \in Replies, NEW n \in Nat, Numbered(s, n),
           r.kind # "fatal" => r.n = n + (Len(s) + 1)
    PROVE  Numbered(Append(s, r), n)
<1>1. /\ Len(s) \in Nat /\ Len(Append(s, r)) = Len(s) + 1
      /\ \A i \in 1 .. Len(s) : Append(s, r)[i] = s[i]
      /\ Append(s, r)[Len(s) + 1] = r
  BY AppendProperties, LenProperties
<1>2. \A i \in 1 .. Len(s) + 1 : i \in 1 .. Len(s) \/ i = Len(s) + 1
  BY <1>1
<1> QED
  BY <1>1, <1>2 DEF Numbered

LEMMA NumberedConcat ==
    ASSUME NEW s \in Seq(Replies), NEW t \in Seq(Replies), Numbered(s, 0),
           Numbered(t, Len(s))
    PROVE  Numbered(s \o t, 0)
<1>1. /\ Len(s) \in Nat /\ Len(t) \in Nat /\ Len(s \o t) = Len(s) + Len(t)
      /\ \A i \in 1 .. Len(s) + Len(t) :
            (s \o t)[i] = IF i <= Len(s) THEN s[i] ELSE t[i - Len(s)]
  BY ConcatProperties, LenProperties
<1> SUFFICES ASSUME NEW i \in 1 .. Len(s) + Len(t), (s \o t)[i].kind # "fatal"
             PROVE  (s \o t)[i].n = 0 + i
  BY <1>1 DEF Numbered
<1>2. CASE i <= Len(s)
  <2>1. i \in 1 .. Len(s) /\ (s \o t)[i] = s[i]
    BY <1>1, <1>2
  <2> QED
    BY <2>1 DEF Numbered
<1>3. CASE ~(i <= Len(s))
  <2>1. /\ i - Len(s) \in 1 .. Len(t) /\ (s \o t)[i] = t[i - Len(s)]
        /\ Len(s) + (i - Len(s)) = 0 + i
    BY <1>1, <1>3
  <2>2. t[i - Len(s)].n = Len(s) + (i - Len(s))
    BY <2>1 DEF Numbered
  <2> QED
    BY <2>1, <2>2
<1> QED
  BY <1>2, <1>3

LEMMA NumberedPrefix ==
    ASSUME NEW t \in Seq(Replies), NEW n, Numbered(t, n), NEW k \in 0 .. Len(t) - 1
    PROVE  Numbered(SubSeq(t, 1, k), n) /\ SubSeq(t, 1, k) \in Seq(Replies)
<1>1. /\ SubSeq(t, 1, k) \in Seq(Replies) /\ Len(SubSeq(t, 1, k)) = k
      /\ \A i \in 1 .. k : SubSeq(t, 1, k)[i] = t[i]
  OBVIOUS
<1>2. \A i \in 1 .. k : i \in 1 .. Len(t)
  OBVIOUS
<1> QED
  BY <1>1, <1>2 DEF Numbered

LEMMA InOrderKept ==
    ASSUME TypeOK, NEW d \in Conns, InOrder(d), Untouched(d)
    PROVE  InOrder(d)'
<1> USE DEF InOrder, Untouched, SameFlags, SamePeer, SameDeadline
<1>1. CASE Live(d)
  BY <1>1 DEF Silent, Live
<1>2. CASE ~Live(d)
  BY <1>2 DEF Live
<1> QED
  BY <1>1, <1>2

LEMMA InOrderSame ==
    ASSUME NEW c \in Conns, InOrder(c), SameOutput(c), Live(c)' => Live(c),
           ~Silent(c)' => ~Silent(c)
    PROVE  InOrder(c)'
BY DEF InOrder, SameOutput

\* The reply to the request in front is the next one.
LEMMA InOrderAnswer ==
    ASSUME TypeOK, NEW c \in Conns, InOrder(c), Output(c), Parses(c), ~Finished(c),
           ~Taken(c), HasHead(c), pc[c] \in Busy, ~Silent(c)' => ~Silent(c),
           NEW k \in {"reply", "unknown", "proto"}, AnswersWith(c, Reply(c, k))
    PROVE  InOrder(c)'
<1>1. Live(c)
  BY DEF Busy, Live
<1>2. Reply(c, k) \in Replies /\ Reply(c, k).n = Current(c).n
  BY ReplyType DEF Reply
<1>3. out'[c] = out[c] /\ Written(c)' = Append(Written(c), Reply(c, k))
  BY DEF AnswersWith, Appends
<1>4. ASSUME ~Silent(c) PROVE Numbered(Written(c)', Len(out[c]))
  <2>1. Len(out[c]) \in Nat /\ Len(Written(c)) \in Nat /\ answered[c] \in Nat
    BY Lengths
  <2>2. Len(out[c]) + Len(Written(c)) = answered[c]
    BY <1>4, BusyOutput DEF Counts
  <2>3. Current(c).n = answered[c] + 1
    <3>1. /\ Whole(Stream(c), answered[c] + 1) /\ Bounded(Stream(c), sent[c])
      BY <1>1 DEF Parses, Parsing, First
    <3>2. /\ Stream(c) \in Seq(Pieces) /\ Stream(c) # <<>>
          /\ Stream(c)[1].req = Current(c)
      BY StreamType, StreamFront
    <3> QED
      BY <3>1, <3>2, FirstBound
  <2>4. Len(out[c]) + (Len(Written(c)) + 1) = answered[c] + 1
    <3> DEFINE x == Len(out[c])
               y == Len(Written(c))
               z == answered[c]
    <3>1. x \in Nat /\ y \in Nat /\ z \in Nat /\ x + y = z
      BY <2>1, <2>2
    <3> HIDE DEF x, y, z
    <3>2. x + (y + 1) = z + 1
      BY <3>1
    <3> QED
      BY <3>2 DEF x, y, z
  <2>5. Numbered(Written(c), Len(out[c]))
    BY <1>1, <1>4 DEF InOrder
  <2> QED
    BY <1>2, <1>3, <2>1, <2>3, <2>4, <2>5, LocalType, NumberedAppend
<1> QED
  BY <1>3, <1>4 DEF InOrder

LEMMA InOrderDone ==
    ASSUME TypeOK, NEW c \in Conns, InOrder(c), Live(c), FlushDone(c),
           pc[c] \in {"check", "flush", "lastflush"},
           pc[c] = "lastflush" => Written(c) # <<>>
    PROVE  InOrder(c)'
<1>1. out[c] \in Seq(Replies) /\ Written(c) \in Seq(Replies)
  BY LocalType
<1>2. Written(c)' = <<>>
  BY DEF FlushDone
<1>3. Numbered(out'[c], 0)
  <2>1. CASE peer[c] = "gone"
    BY <2>1 DEF FlushDone, InOrder
  <2>2. CASE peer[c] # "gone"
    <3>1. ~Silent(c)
      BY <2>2 DEF Silent, FlushDone, Ending
    <3>2. Numbered(out[c], 0) /\ Numbered(Written(c), Len(out[c]))
      BY <3>1 DEF InOrder
    <3> QED
      BY <1>1, <2>2, <3>2, NumberedConcat DEF FlushDone
  <2> QED
    BY <2>1, <2>2
<1> QED
  BY <1>2, <1>3, NumberedEmpty DEF InOrder

LEMMA InOrderLost ==
    ASSUME TypeOK, NEW c \in Conns, InOrder(c), Live(c), FlushLost(c), Silent(c)'
    PROVE  InOrder(c)'
<1>1. out[c] \in Seq(Replies) /\ Written(c) \in Seq(Replies)
  BY LocalType
<1>2. CASE out'[c] = out[c]
  BY <1>2 DEF InOrder
<1>3. CASE /\ deadline[c] = "armed" /\ peer[c] # "gone"
           /\ \E k \in 0 .. Len(Written(c)) - 1 :
                 out'[c] = out[c] \o SubSeq(Written(c), 1, k)
  <2>1. PICK k \in 0 .. Len(Written(c)) - 1 :
                 out'[c] = out[c] \o SubSeq(Written(c), 1, k)
    BY <1>3
  <2>2. Numbered(out[c], 0) /\ Numbered(Written(c), Len(out[c]))
    BY <1>3 DEF InOrder, Silent
  <2>3. /\ Numbered(SubSeq(Written(c), 1, k), Len(out[c]))
        /\ SubSeq(Written(c), 1, k) \in Seq(Replies)
    BY <1>1, <2>2, NumberedPrefix
  <2>4. Numbered(out'[c], 0)
    BY <1>1, <2>1, <2>2, <2>3, NumberedConcat
  <2> QED
    BY <2>4 DEF InOrder
<1> QED
  BY <1>2, <1>3 DEF FlushLost

LEMMA InOrderStep ==
    ASSUME TypeOK, PoolInv, NEW c \in Conns, Control(c), Output(c), Parses(c),
           InOrder(c), Accept(c) \/ Serve(c) \/ Client(c) \/ Expire(c)
    PROVE  InOrder(c)'
<1> USE DEF Silent, Ending, Live, SameFlags, SamePeer, KeepsInput, SameInput, SameDeadline
<1>1. CASE RegisterAdd(c)
  BY <1>1, RegisterAddView, InOrderSame DEF Walks, Consumes, Arrives, Proceeds
<1>2. CASE RegisterInc(c)
  BY <1>2, RegisterIncView, InOrderSame DEF Walks, Consumes, Arrives, Proceeds
<1>3. CASE LoopTop(c)
  BY <1>3, LoopTopView, InOrderSame DEF Walks, Consumes, Arrives, Proceeds
<1>4. CASE Fill(c)
  BY <1>4, FillView, InOrderSame DEF Walks, Consumes, Arrives, Proceeds
<1>5. CASE PeekFault(c)
  <2>1. HasHead(c) /\ pc[c] \in Busy /\ ~Finished(c) /\ ~Taken(c)
    BY <1>5, PeekFaultView
       DEF Control, AtRequest, Serving, Busy, Labels, Finished, Taken
  <2>2. ~Silent(c)' => ~Silent(c)
    BY <1>5, PeekFaultView DEF AnswersWith, Appends, Consumes
  <2> QED
    BY <1>5, <2>1, <2>2, PeekFaultView, InOrderAnswer
<1>6. CASE PeekFail(c)
  BY <1>6, PeekFailView, InOrderSame DEF Walks, Consumes, Arrives, Proceeds
<1>7. CASE Lookup(c)
  <2>1. CASE h'[c] = "none"
    <3>1. HasHead(c) /\ pc[c] \in Busy /\ ~Finished(c) /\ ~Taken(c)
      BY <1>7, LookupView DEF Busy, Labels, Finished, Taken
    <3>2. ~Silent(c)' => ~Silent(c)
      BY <1>7, <2>1, LookupView
    <3> QED
      BY <1>7, <2>1, <3>1, <3>2, LookupView, InOrderAnswer
  <2>2. CASE h'[c] # "none"
    BY <1>7, <2>2, LookupView, InOrderSame
  <2> QED
    BY <2>1, <2>2
<1>8. CASE Skip(c)
  BY <1>8, SkipView, InOrderSame DEF Walks, Consumes, Arrives, Proceeds
<1>9. CASE CommandCmd(c)
  BY <1>9, CommandCmdView, InOrderSame DEF Walks, Consumes, Arrives, Proceeds
<1>10. CASE CommandInc(c)
  BY <1>10, CommandIncView, InOrderSame DEF Walks, Consumes, Arrives, Proceeds
<1>11. CASE ReadExec(c)
  <2>1. HasHead(c) /\ pc[c] \in Busy /\ ~Finished(c) /\ ~Taken(c)
    BY <1>11, ReadExecView
       DEF Control, AtRequest, Serving, Busy, Labels, Finished, Taken
  <2>2. ~Silent(c)' => ~Silent(c)
    BY <1>11, ReadExecView DEF AnswersWith, Appends, Consumes
  <2> QED
    BY <1>11, <2>1, <2>2, ReadExecView, InOrderAnswer
<1>12. CASE ReadFault(c)
  <2>1. HasHead(c) /\ pc[c] \in Busy /\ ~Finished(c) /\ ~Taken(c)
    BY <1>12, ReadFaultView
       DEF Control, AtRequest, Serving, Busy, Labels, Finished, Taken
  <2>2. ~Silent(c)' => ~Silent(c)
    BY <1>12, ReadFaultView DEF AnswersWith, Appends, Consumes
  <2> QED
    BY <1>12, <2>1, <2>2, ReadFaultView, InOrderAnswer
<1>13. CASE ReadFail(c)
  BY <1>13, ReadFailView, InOrderSame DEF Walks, Consumes, Arrives, Proceeds
<1>14. CASE StreamExec(c)
  <2>1. HasHead(c) /\ pc[c] \in Busy /\ ~Finished(c) /\ ~Taken(c)
    BY <1>14, StreamExecView
       DEF Control, AtRequest, Serving, Busy, Labels, Finished, Taken
  <2>2. ~Silent(c)' => ~Silent(c)
    BY <1>14, StreamExecView DEF AnswersWith, Appends, Consumes
  <2> QED
    BY <1>14, <2>1, <2>2, StreamExecView, InOrderAnswer
<1>15. CASE FlushCheck(c)
  <2>1. CASE /\ Written(c)' = Written(c) /\ out'[c] = out[c]
             /\ SameDeadline(c) /\ GoesOn(c, "nil")
    BY <1>15, <2>1, FlushCheckView, InOrderSame DEF SameOutput, GoesOn, Proceeds
  <2>2. CASE FlushDone(c)
    BY <1>15, <2>2, FlushCheckView, InOrderDone
  <2>3. CASE FlushLost(c) /\ GoesOn(c, "io")
    <3>1. Silent(c)'
      BY <1>15, <2>3, FlushCheckView DEF GoesOn, FlushLost
    <3> QED
      BY <1>15, <2>3, <3>1, FlushCheckView, InOrderLost
  <2> QED
    BY <1>15, <2>1, <2>2, <2>3, FlushCheckView
<1>16. CASE Discard(c)
  BY <1>16, DiscardView, InOrderSame DEF Walks, Consumes, Arrives, Proceeds
<1>17. CASE AppendFatal(c)
  <2>1. FatalReply(c) \in Replies /\ FatalReply(c).kind = "fatal"
    BY DEF FatalReply, Replies
  <2>2. /\ out'[c] = out[c] /\ Written(c)' = Append(Written(c), FatalReply(c))
        /\ ~Silent(c)' => ~Silent(c)
    BY <1>17, AppendFatalView DEF Appends
  <2>3. Written(c) \in Seq(Replies) /\ Len(out[c]) \in Nat /\ Live(c)
    BY <1>17, AppendFatalView, LocalType, Lengths
  <2> HIDE DEF Silent
  <2>4. ~Silent(c) => Numbered(Written(c)', Len(out[c]))
    BY <2>1, <2>2, <2>3, NumberedAppend DEF InOrder
  <2> QED
    BY <2>2, <2>4 DEF InOrder
<1>18. CASE Flush(c)
  <2>1. CASE FlushDone(c)
    BY <1>18, <2>1, FlushView, InOrderDone DEF Control, Drained
  <2>2. CASE FlushLost(c) /\ pc'[c] = "deregister"
    <3>1. Silent(c)'
      BY <1>18, <2>2, FlushView DEF FlushLost
    <3> QED
      BY <1>18, <2>2, <3>1, FlushView, InOrderLost
  <2> QED
    BY <1>18, <2>1, <2>2, FlushView
<1>19. CASE LastFlush(c)
  <2>1. CASE FlushDone(c)
    BY <1>19, <2>1, LastFlushView, InOrderDone DEF Control, Drained
  <2>2. CASE FlushLost(c) /\ pc'[c] = "deregister"
    <3>1. Silent(c)'
      BY <1>19, <2>2, LastFlushView DEF FlushLost
    <3> QED
      BY <1>19, <2>2, <3>1, LastFlushView, InOrderLost
  <2> QED
    BY <1>19, <2>1, <2>2, LastFlushView
<1>20. CASE Deregister(c)
  BY <1>20, DeregisterView, InOrderSame DEF Walks, Consumes, Arrives, Proceeds
<1>21. CASE Release(c)
  BY <1>21, ReleaseView, InOrderSame DEF Walks, Consumes, Arrives, Proceeds
<1>22. CASE SendBody(c)
  BY <1>22, SendBodyView, InOrderSame
<1>23. CASE Expire(c)
  BY <1>23, ExpireView, InOrderSame
<1>24. ASSUME NEW s \in Spellings, NEW f \in Faults, SendHead(c, s, f)
      PROVE  InOrder(c)'
  BY <1>24, SendHeadView, InOrderSame
<1>25. ASSUME NEW how \in {"half", "gone"}, ClientCloses(c, how)
      PROVE  InOrder(c)'
  BY <1>25, ClientClosesView, InOrderSame
<1>26. CASE Accept(c)
  <2>1. out[c] = <<>>
    BY <1>26, AcceptView DEF Control, Fresh
  <2> QED
    BY <1>26, <2>1, AcceptView, NumberedEmpty DEF InOrder
<1>27. CASE SendPart(c)
  BY <1>27, SendPartView, InOrderSame DEF Walks, Consumes, Arrives, Proceeds
<1> QED
  BY <1>1, <1>2, <1>3, <1>4, <1>5, <1>6, <1>7, <1>8, <1>9, <1>10, <1>11,
     <1>12, <1>13, <1>14, <1>15, <1>16, <1>17, <1>18, <1>19, <1>20, <1>21,
     <1>22, <1>23, <1>24, <1>25, <1>26, <1>27
     DEF Serve, Client

(***************************************************************************)
(* What a client has received                                              *)
(***************************************************************************)
Delivered(c) == IF NoFatal(out[c]) THEN Len(out[c]) ELSE Len(out[c]) - 1
Line(c, k)   == [i \in 1 .. k |-> <<c, i>>]

LEMMA AnswersAre ==
    ASSUME TypeOK, NEW c \in Conns, FatalLast(out[c])
    PROVE  /\ Delivered(c) \in Nat /\ Answers(c) = 1 .. Delivered(c)
           /\ Cardinality(Answers(c)) = Delivered(c)
<1> DEFINE s == out[c]
<1>1. s \in Seq(Replies) /\ Len(s) \in Nat /\ DOMAIN s = 1 .. Len(s)
  BY LocalType, LenProperties
<1> HIDE DEF s
<1>2. Answers(c) = {i \in 1 .. Len(s) : s[i].kind # "fatal"}
  BY <1>1 DEF Answers, s
<1>3. Delivered(c) \in Nat /\ Answers(c) = 1 .. Delivered(c)
  <2>1. CASE NoFatal(s)
    <3>1. Delivered(c) = Len(s)
      BY <2>1 DEF Delivered, s
    <3> QED
      BY <1>1, <1>2, <2>1, <3>1 DEF NoFatal
  <2>2. CASE ~NoFatal(s)
    <3>1. Delivered(c) = Len(s) - 1
      BY <2>2 DEF Delivered, s
    <3>2. Len(s) >= 1 /\ s[Len(s)].kind = "fatal"
      BY <1>1, <2>2 DEF NoFatal, FatalLast, s
    <3>3. \A i \in 1 .. Len(s) : s[i].kind # "fatal" <=> i # Len(s)
      BY <3>2 DEF FatalLast, s
    <3>4. \A i : i \in 1 .. Len(s) - 1 <=> i \in 1 .. Len(s) /\ i # Len(s)
      BY <1>1
    <3>5. Len(s) - 1 \in Nat
      BY <1>1, <3>2
    <3>6. Answers(c) = 1 .. Len(s) - 1
      BY <1>2, <3>3, <3>4, Zenon
    <3> QED
      BY <3>1, <3>5, <3>6
  <2> QED
    BY <2>1, <2>2
<1>4. Cardinality(1 .. Delivered(c)) = Delivered(c)
  <2>1. 0 \in Nat /\ 1 \in Int /\ Delivered(c) \in Int
    BY <1>3
  <2>2. Cardinality(1 .. Delivered(c)) =
           IF 1 > Delivered(c) THEN 0 ELSE Delivered(c) - 1 + 1
    BY <2>1, FS_Interval
  <2> HIDE DEF Delivered
  <2> QED
    BY <1>3, <2>2
<1> QED
  BY <1>3, <1>4

LEMMA ReceivedIs ==
    ASSUME TypeOK, NEW c \in Conns, Output(c), InOrder(c)
    PROVE  Received(c) = Line(c, Delivered(c)) /\ Delivered(c) \in Nat
<1>1. Delivered(c) \in Nat /\ Answers(c) = 1 .. Delivered(c)
  BY AnswersAre DEF Output, Owned
<1>2. ASSUME NEW i \in Answers(c) PROVE out[c][i].cn = c /\ out[c][i].n = i
  <2>1. i \in 1 .. Len(out[c]) /\ out[c][i].kind # "fatal" /\ i \in Nat
    <3>1. DOMAIN out[c] = 1 .. Len(out[c]) /\ Len(out[c]) \in Nat
      BY LocalType, LenProperties
    <3> QED
      BY <3>1 DEF Answers
  <2>2. out[c][i].cn = c
    BY <2>1 DEF Output, Owned, OwnedBy
  <2>3. out[c][i].n = 0 + i
    BY <2>1 DEF InOrder, Numbered
  <2> QED
    BY <2>1, <2>2, <2>3
<1>3. Received(c) = [i \in Answers(c) |-> <<c, i>>]
  BY <1>2 DEF Received
<1> QED
  BY <1>1, <1>3 DEF Line

LEMMA LineGrows ==
    ASSUME NEW c, NEW a \in Nat, NEW k \in Nat
    PROVE  /\ Line(c, a + k) = Line(c, a) \o [i \in 1 .. k |-> <<c, a + i>>]
           /\ Len(Line(c, a)) = a
<1> DEFINE S == {c} \X Nat
           x == Line(c, a)
           y == [i \in 1 .. k |-> <<c, a + i>>]
           z == Line(c, a + k)
<1>1. x \in Seq(S) /\ Len(x) = a /\ \A i \in 1 .. a : x[i] = <<c, i>>
  BY DEF Line
<1>2. y \in Seq(S) /\ Len(y) = k /\ \A i \in 1 .. k : y[i] = <<c, a + i>>
  OBVIOUS
<1>3. z \in Seq(S) /\ Len(z) = a + k /\ \A i \in 1 .. a + k : z[i] = <<c, i>>
  BY DEF Line
<1> HIDE DEF S, x, y, z
<1>4. /\ x \o y \in Seq(S) /\ Len(x \o y) = a + k
      /\ \A i \in 1 .. a + k : (x \o y)[i] = IF i <= a THEN x[i] ELSE y[i - a]
  BY <1>1, <1>2, ConcatProperties
<1>5. ASSUME NEW i \in 1 .. a + k PROVE (x \o y)[i] = z[i]
  <2>1. CASE i <= a
    <3>1. i \in 1 .. a
      BY <2>1
    <3> QED
      BY <2>1, <3>1, <1>1, <1>3, <1>4
  <2>2. CASE ~(i <= a)
    <3>1. i - a \in 1 .. k /\ a + (i - a) = i
      BY <2>2
    <3>2. y[i - a] = <<c, i>>
      BY <3>1, <1>2
    <3> QED
      BY <2>2, <3>2, <1>3, <1>4
  <2> QED
    BY <2>1, <2>2
<1> DEFINE u == x \o y
<1>6. u \in Seq(S) /\ Len(u) = Len(z) /\ \A i \in 1 .. Len(u) : u[i] = z[i]
  BY <1>3, <1>4, <1>5
<1> HIDE DEF u
<1>7. u = z
  BY <1>3, <1>6, SeqEqual
<1> QED
  BY <1>1, <1>7 DEF u, x, y, z

\* A flush delivers replies that have been made, and takes none back.
LEMMA FlushDelivers ==
    ASSUME TypeOK, NEW c \in Conns, Control(c), Output(c),
           pc[c] \in {"check", "flush", "lastflush"}, FlushDone(c) \/ FlushLost(c)
    PROVE  \/ out'[c] = out[c]
           \/ Delivered(c) <= Delivered(c)' /\ Delivered(c)' <= answered[c]
<1>1. /\ out[c] \in Seq(Replies) /\ Written(c) \in Seq(Replies)
      /\ Len(out[c]) \in Nat /\ Len(Written(c)) \in Nat /\ answered[c] \in Nat
  BY LocalType, Lengths
<1>2. /\ OwnedBy(c, out[c]) /\ NoFatal(out[c])
      /\ OwnedBy(c, Written(c)) /\ FatalLast(Written(c))
      /\ pc[c] # "lastflush" => NoFatal(Written(c))
      /\ pc[c] = "lastflush" => Written(c) # <<>>
  BY DEF Output, Owned, Live, Control, Drained
<1>3. Delivered(c) = Len(out[c])
  BY <1>2 DEF Delivered
<1>4. ~Silent(c) =>
         /\ pc[c] # "lastflush" => Len(out[c]) + Len(Written(c)) = answered[c]
         /\ pc[c] = "lastflush" =>
               /\ Len(out[c]) + Len(Written(c)) = answered[c] + 1
               /\ Written(c)[Len(Written(c))].kind = "fatal"
  BY DEF Output, Accounted, Live
<1>5. CASE FlushDone(c) /\ out'[c] # out[c]
  <2>1. peer[c] # "gone" /\ out'[c] = out[c] \o Written(c)
    BY <1>5 DEF FlushDone
  <2>2. Written(c) # <<>>
    BY <1>1, <1>5, <2>1, ConcatEmptySeq
  <2>3. ~Silent(c)
    BY <1>5, <2>1, <2>2 DEF Silent, FlushDone, Ending
  <2>4. /\ NoFatal(Written(c)) => NoFatal(out'[c])
        /\ Len(out'[c]) = Len(out[c]) + Len(Written(c))
        /\ out'[c][Len(out'[c])] = Written(c)[Len(Written(c))]
    BY <1>2, <1>5, <2>1, <2>2, FlushDoneOwned
  <2>5. Len(Written(c)) >= 1
    BY <1>1, <2>2, NonEmpty
  <2>6. CASE pc[c] # "lastflush"
    <3>1. Delivered(c)' = Len(out[c]) + Len(Written(c))
      BY <1>2, <2>4, <2>6 DEF Delivered
    <3>2. Len(out[c]) + Len(Written(c)) = answered[c]
      BY <1>4, <2>3, <2>6
    <3> QED
      BY <1>1, <1>3, <3>1, <3>2
  <2>7. CASE pc[c] = "lastflush"
    <3>1. Len(out'[c]) \in 1 .. Len(out'[c]) /\ Len(out'[c]) >= 1
      BY <1>1, <2>4, <2>5
    <3>2. ~NoFatal(out'[c])
      BY <1>4, <2>3, <2>4, <2>7, <3>1 DEF NoFatal
    <3>3. Delivered(c)' = Len(out[c]) + Len(Written(c)) - 1
      BY <2>4, <3>2 DEF Delivered
    <3>4. Len(out[c]) + Len(Written(c)) = answered[c] + 1
      BY <1>4, <2>3, <2>7
    <3> QED
      BY <1>1, <1>3, <2>5, <3>3, <3>4
  <2> QED
    BY <2>6, <2>7
<1>6. CASE FlushLost(c) /\ out'[c] # out[c]
  <2>1. PICK k \in 0 .. Len(Written(c)) - 1 :
           out'[c] = out[c] \o SubSeq(Written(c), 1, k)
    BY <1>6 DEF FlushLost
  <2>2. peer[c] # "gone" /\ deadline[c] = "armed"
    BY <1>6 DEF FlushLost
  <2>3. ~Silent(c)
    BY <2>2 DEF Silent
  <2>4. NoFatal(out'[c])
    BY <1>2, <1>6, FlushLostOwned
  <2> DEFINE x == SubSeq(Written(c), 1, k)
             y == out[c]
  <2>5. x \in Seq(Replies) /\ Len(x) = k /\ y \in Seq(Replies)
    BY <1>1
  <2> HIDE DEF x, y
  <2>a. Len(y \o x) = Len(y) + Len(x)
    BY <2>5, ConcatProperties
  <2>6. Len(out'[c]) = Len(out[c]) + k
    BY <2>1, <2>5, <2>a DEF x, y
  <2>7. Delivered(c)' = Len(out[c]) + k
    BY <2>4, <2>6 DEF Delivered
  <2>8. Len(out[c]) + Len(Written(c)) <= answered[c] + 1
    BY <1>1, <1>4, <2>3
  <2> QED
    BY <1>1, <1>3, <2>7, <2>8
<1> QED
  BY <1>5, <1>6

(***************************************************************************)
(* The theorems.  Control and Output hold in every configuration; what is  *)
(* said of the input needs Steady, because a streamed command whose        *)
(* arguments do not arrive in time is given up without leaving the loop.   *)
(***************************************************************************)
StepOf(c) == Accept(c) \/ Serve(c) \/ Client(c) \/ Expire(c)

ReplyInv == Inductive /\ \A c \in Conns : Control(c) /\ Output(c)

\* A connection takes the step itself, or the step leaves it alone.
LEMMA StepOrUntouched ==
    ASSUME TypeOK, PoolInv, [Next]_vars, NEW d \in Conns
    PROVE  StepOf(d) \/ Untouched(d)
<1>1. ASSUME NEW c \in Conns, StepOf(c) PROVE StepOf(d) \/ Untouched(d)
  <2>1. CASE d = c
    BY <1>1, <2>1
  <2>2. CASE d # c
    <3>1. d \in Conns \ {c}
      BY <2>2
    <3> QED
      BY <1>1, <3>1, Others DEF StepOf
  <2> QED
    BY <2>1, <2>2
<1> QED
  BY <1>1, Nobodys DEF Next, StepOf

LEMMA ReplyInit == Init => ReplyInv
<1> SUFFICES ASSUME Init, NEW c \in Conns PROVE Control(c) /\ Output(c)
  BY InductiveInit DEF ReplyInv
<1>1. /\ pc[c] = "idle" /\ out[c] = <<>> /\ wire[c] = <<>> /\ owed[c] = <<>>
      /\ sent[c] = 0 /\ answered[c] = 0 /\ closed[c] = FALSE
      /\ peer[c] = "open" /\ deadline[c] = "none"
  BY DEF Init
<1>2. Control(c)
  BY <1>1 DEF Control, Fresh, AtRequest, Serving, Drained, Closing
<1>3. OwnedBy(c, out[c]) /\ NoFatal(out[c]) /\ FatalLast(out[c])
  BY <1>1, EmptyPlain, PlainFatalLast
<1>4. Output(c)
  BY <1>1, <1>3 DEF Output, Owned, Accounted, Live
<1> QED
  BY <1>2, <1>4

LEMMA ReplyNext == ReplyInv /\ [Next]_vars => ReplyInv'
<1> SUFFICES ASSUME ReplyInv, [Next]_vars PROVE ReplyInv'
  OBVIOUS
<1>1. Inductive' /\ TypeOK /\ PoolInv
  BY InductiveNext DEF ReplyInv, Inductive
<1>2. ASSUME NEW c \in Conns PROVE Control(c)' /\ Output(c)'
  <2>1. Control(c) /\ Output(c)
    BY DEF ReplyInv
  <2>2. CASE StepOf(c)
    BY <1>1, <2>1, <2>2, ControlStep, OutputStep DEF StepOf
  <2>3. CASE Untouched(c)
    BY <1>1, <2>1, <2>3, ControlKept, OutputKept
  <2> QED
    BY <1>1, <2>2, <2>3, StepOrUntouched
<1> QED
  BY <1>1, <1>2 DEF ReplyInv

LEMMA ReplyInvariant == Spec => []ReplyInv
BY ReplyInit, ReplyNext, PTL DEF Spec

\* Of a client that a handler has closed no request is awaited of which nothing
\* has arrived (Client.Close, pipeline, serveClient), for any set of connections.
THEOREM ClosedConnectionsDrain == Spec => []ClosedOnlyDrains
<1>1. ReplyInv => ClosedOnlyDrains
  BY DEF ReplyInv, Control, Closing, ClosedOnlyDrains
<1> QED
  BY <1>1, ReplyInvariant, PTL

LEMMA NothingUndelivered ==
    ASSUME TypeOK, NEW c \in Conns, Control(c), Output(c),
           \/ pc[c] = "peek" /\ ~Buffered(c)
           \/ pc[c] \in {"deregister", "release", "done"},
           peer[c] # "gone", deadline[c] # "expired"
    PROVE  Undelivered(c) = 0
<1>1. ~Silent(c) /\ FatalLast(out[c])
  BY DEF Silent, Output, Owned
<1>2. Cardinality(Answers(c)) = Delivered(c)
  BY <1>1, AnswersAre
<1>3. Len(out[c]) \in Nat /\ answered[c] \in Nat
  BY Lengths
<1>4. Delivered(c) = answered[c]
  <2>1. CASE pc[c] = "peek" /\ ~Buffered(c)
    <3>1. Written(c) = <<>> /\ Len(Written(c)) = 0 /\ NoFatal(out[c])
      BY <2>1 DEF Control, Drained, Output, Owned
    <3>2. Len(out[c]) + Len(Written(c)) = answered[c]
      BY <1>1, <2>1 DEF Output, Accounted, Live
    <3> QED
      BY <1>3, <3>1, <3>2 DEF Delivered
  <2>2. CASE pc[c] \in {"deregister", "release", "done"}
    <3>1. \/ NoFatal(out[c]) /\ Len(out[c]) = answered[c]
          \/ /\ out[c] # <<>> /\ out[c][Len(out[c])].kind = "fatal"
             /\ Len(out[c]) = answered[c] + 1
      BY <1>1, <2>2 DEF Output, Accounted
    <3>2. CASE NoFatal(out[c]) /\ Len(out[c]) = answered[c]
      BY <3>2 DEF Delivered
    <3>3. CASE /\ out[c][Len(out[c])].kind = "fatal"
               /\ Len(out[c]) = answered[c] + 1
      <4>1. Len(out[c]) \in 1 .. Len(out[c])
        BY <1>3, <3>3
      <4>2. ~NoFatal(out[c])
        BY <3>3, <4>1 DEF NoFatal
      <4> QED
        BY <1>3, <3>3, <4>2 DEF Delivered
    <3> QED
      BY <3>1, <3>2, <3>3
  <2> QED
    BY <2>1, <2>2
<1> QED
  BY <1>2, <1>3, <1>4 DEF Undelivered

\* No reply is held back while the server waits for a request of which nothing
\* has arrived, and none is lost when it closes a connection whose client still
\* listens (pipeline and serveClient), for any number of connections.
THEOREM RepliesDelivered == Spec => []NoReplyHeldBack
<1>1. ReplyInv => NoReplyHeldBack
  <2> SUFFICES ASSUME ReplyInv, NEW c \in Conns,
                      \/ pc[c] = "peek" /\ ~Buffered(c)
                      \/ pc[c] \in {"deregister", "release", "done"},
                      peer[c] # "gone", deadline[c] # "expired"
               PROVE  Undelivered(c) = 0
    BY DEF NoReplyHeldBack
  <2>1. TypeOK /\ Control(c) /\ Output(c)
    BY DEF ReplyInv, Inductive
  <2> QED
    BY <2>1, NothingUndelivered
<1> QED
  BY <1>1, ReplyInvariant, PTL

FullInv == ReplyInv /\ StreamsClose /\ \A c \in Conns : InputInv(c)

LEMMA FullInit == Init => FullInv
<1> SUFFICES ASSUME Init, NEW c \in Conns PROVE InputInv(c)
  BY ReplyInit, StreamsCloseInit DEF FullInv
<1>1. /\ pc[c] = "idle" /\ out[c] = <<>> /\ sent[c] = 0 /\ answered[c] = 0
      /\ h[c] = "none"
  BY DEF Init
<1>2. ClosesStream(c)
  BY <1>1 DEF ClosesStream
<1>3. Parses(c)
  BY <1>1 DEF Parses, Live
<1>4. InOrder(c)
  BY <1>1, NumberedEmpty DEF InOrder, Live
<1> QED
  BY <1>2, <1>3, <1>4 DEF InputInv

LEMMA FullNext == ASSUME Steady PROVE FullInv /\ [Next]_vars => FullInv'
<1> SUFFICES ASSUME FullInv, [Next]_vars PROVE FullInv'
  OBVIOUS
<1>1. ReplyInv' /\ TypeOK /\ PoolInv
  BY ReplyNext DEF FullInv, ReplyInv, Inductive
<1>2. StreamsClose'
  BY <1>1, StreamsCloseNext DEF FullInv
<1>3. ASSUME NEW c \in Conns PROVE InputInv(c)'
  <2>1. /\ Control(c) /\ Output(c) /\ StreamsClose
        /\ ClosesStream(c) /\ Parses(c) /\ InOrder(c)
    BY DEF FullInv, ReplyInv, InputInv
  <2>2. CASE StepOf(c)
    <3>1. ClosesStream(c)' /\ Parses(c)'
      BY <1>1, <2>1, <2>2, ClosesStreamStep, ParsesStep DEF StepOf
    <3>2. InOrder(c)'
      BY <1>1, <2>1, <2>2, InOrderStep DEF StepOf
    <3> QED
      BY <3>1, <3>2 DEF InputInv
  <2>3. CASE Untouched(c)
    BY <1>1, <2>1, <2>3, ClosesStreamKept, ParsesKept, InOrderKept DEF InputInv
  <2> QED
    BY <1>1, <2>2, <2>3, StepOrUntouched
<1> QED
  BY <1>1, <1>2, <1>3 DEF FullInv

LEMMA FullInvariant == ASSUME Steady PROVE Spec => []FullInv
BY FullInit, FullNext, PTL DEF Spec

\* What a client receives are the answers to its own requests, in order and
\* none twice, for any number of connections, requests and pooled objects.
THEOREM RepliesOrdered == ASSUME Steady PROVE Spec => []RepliesInOrder
<1>1. FullInv => RepliesInOrder
  <2> SUFFICES ASSUME FullInv, NEW c \in Conns, NEW i \in 1 .. Len(out[c])
               PROVE  /\ out[c][i].cn = c
                      /\ \/ out[c][i].kind # "fatal" /\ out[c][i].n = i
                         \/ out[c][i].kind = "fatal" /\ i = Len(out[c])
    BY DEF RepliesInOrder
  <2>1. OwnedBy(c, out[c]) /\ FatalLast(out[c]) /\ Numbered(out[c], 0)
    BY DEF FullInv, ReplyInv, Output, Owned, InputInv, InOrder
  <2>2. i \in Nat
    OBVIOUS
  <2>3. out[c][i].kind # "fatal" => out[c][i].n = 0 + i
    BY <2>1 DEF Numbered
  <2>4. out[c][i].kind # "fatal" => out[c][i].n = i
    BY <2>2, <2>3
  <2> QED
    BY <2>1, <2>4 DEF OwnedBy, FatalLast
<1> QED
  BY <1>1, FullInvariant, PTL

\* Whenever the parser is about to take a request its input starts on a request
\* boundary (SkipCmd, ReadCmd, Discard), for any number of pipelined requests.
THEOREM AlwaysAligned == ASSUME Steady PROVE Spec => []ReaderAligned
<1>1. FullInv => ReaderAligned
  <2> SUFFICES ASSUME FullInv, NEW c \in Conns,
                      pc[c] \in {"peek", "skip", "cmd", "cmdinc", "read",
                                 "stream", "discard"}
               PROVE  /\ HasHead(c) => Head(Input(c)).part = "head"
                      /\ HasBody(c) /\ Current(c).fault # "peek" =>
                           Input(c)[2] = [part |-> "body", req |-> Current(c)]
    BY DEF ReaderAligned
  <2>1. TypeOK /\ Parses(c)
    BY DEF FullInv, ReplyInv, Inductive, InputInv
  <2>2. Live(c) /\ ~Finished(c)
    BY DEF Live, Finished, Ending
  <2>3. Whole(Stream(c), First(c)) /\ Bounded(Stream(c), sent[c])
    BY <2>1, <2>2 DEF Parses, Parsing
  <2>4. /\ Stream(c) \in Seq(Pieces) /\ First(c) \in Nat /\ sent[c] \in Nat
        /\ Input(c) \in Seq(Pieces)
    BY <2>1, StreamType, LocalType
  <2>5. HasHead(c) => Head(Input(c)).part = "head"
    BY <2>1, <2>3, StreamFront DEF Whole
  <2>6. HasBody(c) => HasHead(c)
    BY <2>4 DEF HasBody, HasHead
  <2>7. ASSUME HasBody(c), Current(c).fault # "peek"
        PROVE  Input(c)[2] = [part |-> "body", req |-> Current(c)]
    <3>1. /\ Stream(c)[1].req = Current(c) /\ Len(Stream(c)) >= 2
          /\ Stream(c)[2] = Input(c)[2] /\ Stream(c)[1] = Head(Input(c))
      BY <2>1, <2>6, <2>7, StreamFront
    <3>2. HasBodyToCome(Stream(c)[1])
      BY <2>5, <2>6, <2>7, <3>1 DEF HasBodyToCome
    <3>3. Stream(c)[2] = [part |-> "body", req |-> Stream(c)[1].req]
      BY <2>3, <2>4, <3>1, <3>2, TakeTwo
    <3> QED
      BY <3>1, <3>3
  <2> QED
    BY <2>5, <2>7
<1> QED
  BY <1>1, FullInvariant, PTL

(***************************************************************************)
(* The server implements Calls: a request that is sent is an Ask, a flush  *)
(* that brings k replies is an Answer, and every other step is a stutter.  *)
(***************************************************************************)
Flushes(c) == FlushCheck(c) \/ Flush(c) \/ LastFlush(c)
Asks(c)    == \E s \in Spellings, f \in Faults : SendHead(c, s, f)

LEMMA QuietStep ==
    ASSUME NEW c \in Conns, StepOf(c), ~Flushes(c), ~Asks(c)
    PROVE  sent' = sent /\ out' = out
<1>1. CASE Accept(c)
  BY <1>1 DEF Accept, network
<1>2. CASE Expire(c)
  BY <1>2 DEF Expire
<1>3. CASE Client(c)
  BY <1>3 DEF Client, Asks, SendPart, SendBody, ClientCloses
<1>4. CASE RegisterAdd(c) \/ RegisterInc(c) \/ LoopTop(c) \/ Fill(c)
  BY <1>4 DEF RegisterAdd, RegisterInc, LoopTop, Fill, network
<1>5. CASE PeekFault(c) \/ PeekFail(c) \/ Lookup(c) \/ Skip(c)
  BY <1>5 DEF PeekFault, PeekFail, ReadFails, Lookup, Skip, network
<1>6. CASE CommandCmd(c) \/ CommandInc(c) \/ ReadExec(c) \/ ReadFault(c)
  BY <1>6 DEF CommandCmd, CommandInc, ReadExec, ReadFault, network
<1>7. CASE ReadFail(c) \/ StreamExec(c) \/ Discard(c) \/ AppendFatal(c)
  BY <1>7 DEF ReadFail, ReadFails, StreamExec, Discard, AppendFatal, network
<1>8. CASE Deregister(c) \/ Release(c)
  BY <1>8 DEF Deregister, Release, network
<1> QED
  BY <1>1, <1>2, <1>3, <1>4, <1>5, <1>6, <1>7, <1>8 DEF StepOf, Serve, Flushes

LEMMA FlushSends ==
    ASSUME NEW c \in Conns, Flushes(c) PROVE sent' = sent
BY DEF Flushes, FlushCheck, Flush, LastFlush

Tallied ==
    \A c \in Conns : Received(c) = Line(c, Delivered(c)) /\ Delivered(c) \in Nat

LEMMA Tally == FullInv => Tallied
<1> SUFFICES ASSUME FullInv, NEW c \in Conns
             PROVE  Received(c) = Line(c, Delivered(c)) /\ Delivered(c) \in Nat
  BY DEF Tallied
<1>1. TypeOK /\ Output(c) /\ InOrder(c)
  BY DEF FullInv, ReplyInv, Inductive, InputInv
<1> QED
  BY <1>1, ReceivedIs

LEMMA TallyNext == FullInv' => Tallied'
BY Tally, PTL

LEMMA FlushAnswers ==
    ASSUME FullInv, FullInv', NEW c \in Conns, Flushes(c)
    PROVE  \/ out'[c] = out[c]
           \/ /\ Delivered(c) \in Nat /\ Delivered(c)' \in Nat
              /\ Delivered(c) <= Delivered(c)' /\ Delivered(c)' <= sent[c]
<1>1. /\ TypeOK /\ PoolInv /\ Control(c) /\ Output(c) /\ InOrder(c)
      /\ answered[c] <= sent[c]
  BY DEF FullInv, ReplyInv, Inductive, InputInv, Parses
<1>3. Delivered(c) \in Nat
  BY Tally DEF Tallied
<1>4. Delivered(c)' \in Nat
  BY TallyNext DEF Tallied
<1>5. /\ pc[c] \in {"check", "flush", "lastflush"}
      /\ out'[c] = out[c] \/ FlushDone(c) \/ FlushLost(c)
  BY <1>1, FlushCheckView, FlushView, LastFlushView DEF Flushes
<1>6. \/ out'[c] = out[c]
      \/ Delivered(c) <= Delivered(c)' /\ Delivered(c)' <= answered[c]
  BY <1>1, <1>5, FlushDelivers
<1>7. sent[c] \in Nat /\ answered[c] \in Nat
  BY <1>1, LocalType
<1> HIDE DEF Delivered
<1> QED
  BY <1>1, <1>3, <1>4, <1>6, <1>7

LEMMA SameReceived ==
    ASSUME TypeOK, TypeOK', NEW c \in Conns, out'[c] = out[c]
    PROVE  Received(c)' = Received(c)
BY DEF Received, Answers

LEMMA AnswerStep ==
    ASSUME NEW c \in Conns, NEW a \in Nat, NEW b \in Nat, a < b, b <= sent[c],
           sent[c] \in Nat, sent' = sent,
           Received(c) = Line(c, a), Received(c)' = Line(c, b),
           \A d \in Conns \ {c} : Received(d)' = Received(d)
    PROVE  \E k \in 1 .. sent[c] - Len([d \in Conns |-> Received(d)][c]) :
              Abstract!Answer(c, k)
<1> DEFINE got == [d \in Conns |-> Received(d)]
           k   == b - a
           more == [i \in 1 .. k |-> <<c, a + i>>]
<1>1. k \in Nat /\ b = a + k /\ k >= 1
  OBVIOUS
<1> HIDE DEF k
<1>2. got[c] = Line(c, a) /\ Len(got[c]) = a
  BY LineGrows, <1>1
<1>a. Line(c, a + k) = Line(c, a) \o more
  BY <1>1, LineGrows
<1>4. more = [i \in 1 .. k |-> <<c, Len(got[c]) + i>>]
  BY <1>2
<1>5. k \in 1 .. sent[c] - Len(got[c]) /\ k <= sent[c] - Len(got[c])
  BY <1>1, <1>2
<1> HIDE DEF more
<1>3. Received(c)' = got[c] \o more
  BY <1>1, <1>2, <1>a
<1>6. got' = [got EXCEPT ![c] = @ \o more]
  <2>1. [d \in Conns |-> Received(d)]' = [d \in Conns |-> Received(d)']
    OBVIOUS
  <2>2. [got EXCEPT ![c] = @ \o more] =
           [d \in Conns |-> IF d = c THEN got[c] \o more ELSE got[d]]
    OBVIOUS
  <2>3. \A d \in Conns : Received(d)' = IF d = c THEN got[c] \o more ELSE got[d]
    BY <1>3
  <2> HIDE DEF Received
  <2> QED
    BY <2>1, <2>2, <2>3
<1>7. Abstract!Answer(c, k)
  BY <1>4, <1>5, <1>6 DEF Abstract!Answer
<1> QED
  BY <1>5, <1>7

\* The server implements Calls, for any set of connections and any number of
\* requests: every request gets one reply, in order, none repeated, swapped or
\* taken back, whatever is pipelined, fails or is recycled (server.go).
THEOREM ServerImplementsCalls == ASSUME Steady PROVE Spec => ImplementsCalls
<1>1. Init => Abstract!Init
  <2> SUFFICES ASSUME Init PROVE [c \in Conns |-> Received(c)] = [c \in Conns |-> <<>>]
    BY DEF Init, Abstract!Init
  <2>1. ASSUME NEW c \in Conns PROVE Received(c) = <<>>
    BY DEF Init, Received, Answers
  <2> QED
    BY <2>1
<1>2. ASSUME FullInv, FullInv', [Next]_vars PROVE [Abstract!Next]_Abstract!vars
  <2>1. TypeOK /\ TypeOK' /\ PoolInv
    BY <1>2 DEF FullInv, ReplyInv, Inductive
  <2>2. (sent' = sent /\ \A d \in Conns : Received(d)' = Received(d)) =>
           UNCHANGED Abstract!vars
    BY DEF Abstract!vars
  <2>3. ASSUME NEW c \in Conns, Asks(c) PROVE Abstract!Next
    <3>1. sent' = [sent EXCEPT ![c] = @ + 1] /\ out' = out
      BY <2>3 DEF Asks, SendHead
    <3>2. \A d \in Conns : Received(d)' = Received(d)
      BY <2>1, <3>1, SameReceived
    <3>3. Abstract!Ask(c)
      BY <3>1, <3>2 DEF Abstract!Ask
    <3> QED
      BY <3>3 DEF Abstract!Next
  <2>4. ASSUME NEW c \in Conns, Flushes(c)
        PROVE  Abstract!Next \/ UNCHANGED Abstract!vars
    <3>1. StepOf(c) /\ sent' = sent /\ sent[c] \in Nat
      BY <2>1, <2>4, FlushSends, LocalType DEF StepOf, Serve, Flushes
    <3>2. \A d \in Conns \ {c} : Received(d)' = Received(d)
      <4> SUFFICES ASSUME NEW d \in Conns \ {c} PROVE Received(d)' = Received(d)
        OBVIOUS
      <4>1. out'[d] = out[d]
        BY <2>1, <3>1, Others DEF StepOf, Untouched
      <4> QED
        BY <2>1, <4>1, SameReceived
    <3>3. CASE out'[c] = out[c]
      BY <2>1, <2>2, <3>1, <3>2, <3>3, SameReceived
    <3>4. CASE out'[c] # out[c]
      <4>1. /\ Delivered(c) \in Nat /\ Delivered(c)' \in Nat
            /\ Delivered(c) <= Delivered(c)' /\ Delivered(c)' <= sent[c]
        BY <1>2, <2>4, <3>4, FlushAnswers
      <4>2. Received(c) = Line(c, Delivered(c))
        BY <1>2, Tally DEF Tallied
      <4>3. Received(c)' = Line(c, Delivered(c)')
        BY <1>2, TallyNext DEF Tallied
      <4> DEFINE a == Delivered(c)
                 b == Delivered(c)'
      <4> HIDE DEF a, b, Received
      <4>5. CASE a = b
        BY <2>2, <3>1, <3>2, <4>2, <4>3, <4>5 DEF a, b
      <4>6. CASE a # b
        <5>1. a \in Nat /\ b \in Nat /\ a <= b /\ b <= sent[c]
          BY <4>1 DEF a, b
        <5>2. a < b
          BY <5>1, <4>6
        <5>3. Received(c) = Line(c, a) /\ Received(c)' = Line(c, b)
          BY <4>2, <4>3 DEF a, b
        <5>4. \E k \in 1 .. sent[c] - Len([d \in Conns |-> Received(d)][c]) :
                 Abstract!Answer(c, k)
          BY <3>1, <3>2, <5>1, <5>2, <5>3, AnswerStep
        <5> QED
          BY <5>4 DEF Abstract!Next
      <4> QED
        BY <4>5, <4>6
    <3> QED
      BY <3>3, <3>4
  <2>5. ASSUME sent' = sent /\ out' = out PROVE UNCHANGED Abstract!vars
    BY <2>1, <2>2, <2>5, SameReceived
  <2>6. ASSUME NEW c \in Conns, StepOf(c)
        PROVE  Abstract!Next \/ UNCHANGED Abstract!vars
    BY <2>3, <2>4, <2>5, <2>6, QuietStep
  <2>7. CASE \/ AcceptError
             \/ \E r \in Registrations : Handle(r[1], r[2])
             \/ UNCHANGED vars
    <3>1. sent' = sent /\ out' = out
      BY <2>7 DEF AcceptError, Handle, vars, network
    <3> QED
      BY <2>5, <3>1
  <2> QED
    BY <1>2, <2>6, <2>7 DEF Next, StepOf
<1> QED
  BY <1>1, <1>2, FullInvariant, PTL DEF Spec, ImplementsCalls, Abstract!Spec

(***************************************************************************)
(* The commands that ServerInfo shows and counts.                          *)
(***************************************************************************)
AtCommand == {c \in Conns : pc[c] \in {"read", "stream"}}

Shown(c) ==
    pc[c] \in {"cmdinc", "read", "stream"} => stats[id[c]] = Lower[Current(c).name]

TrackInv == ReplyInv /\ CommandsTracked

LEMMA RegisteredListed ==
    ASSUME TypeOK, InfoInv, NEW c \in Conns, Registered(c)
    PROVE  id[c] \in DOMAIN stats
BY DEF InfoInv, InfoTracksConnections, Registrants

LEMMA ShownStep ==
    ASSUME TypeOK, PoolInv, InfoInv, NEW c \in Conns, Control(c), Shown(c),
           StepOf(c)
    PROVE  Shown(c)'
<1> USE DEF Shown
<1>1. CASE Accept(c)
  BY <1>1, AcceptView
<1>2. CASE Expire(c)
  <2>1. stats' = stats /\ id' = id
    BY <1>2 DEF Expire, client, info
  <2> QED
    BY <1>2, <2>1, ExpireView DEF Walks, KeepsInput, SameInput, Current
<1>3. CASE Client(c)
  <2>1. stats' = stats /\ id' = id
    BY <1>3 DEF Client, SendPart, SendHead, SendBody, ClientCloses, client, info
  <2>2. pc'[c] = pc[c] /\ Input(c)' = Input(c)
    BY <1>3, SendPartView, SendHeadView, SendBodyView, ClientClosesView
       DEF Client, Walks, KeepsInput, SameInput
  <2> QED
    BY <2>1, <2>2 DEF Current
<1>4. CASE CommandCmd(c)
  <2>1. id[c] \in DOMAIN stats
    BY <1>4, RegisteredListed DEF CommandCmd, Registered, Live
  <2>2. stats'[id[c]] = Lower[Current(c).name] /\ id' = id
    BY <1>4, <2>1 DEF CommandCmd, client
  <2> QED
    BY <1>4, <2>2, CommandCmdView DEF Walks, KeepsInput, SameInput, Current
<1>5. CASE CommandInc(c)
  <2>1. stats' = stats /\ id' = id
    BY <1>5 DEF CommandInc, client
  <2> QED
    BY <1>5, <2>1, CommandIncView DEF Walks, KeepsInput, SameInput, Current
<1>6. CASE Fill(c)
  <2>1. stats' = stats /\ id' = id /\ pc' = pc
    BY <1>6 DEF Fill, client, info
  <2>2. pc[c] \in {"cmdinc", "read", "stream"} => HasHead(c)
    BY DEF Control, AtRequest, Serving
  <2> QED
    BY <1>6, <2>1, <2>2, FillKeeps
<1>7. CASE RegisterAdd(c) \/ RegisterInc(c) \/ LoopTop(c) \/ PeekFault(c)
  BY <1>7, RegisterAddView, RegisterIncView, LoopTopView, PeekFaultView
<1>8. CASE PeekFail(c) \/ Lookup(c) \/ Skip(c) \/ ReadExec(c)
  BY <1>8, PeekFailView, LookupView, SkipView, ReadExecView DEF Proceeds
<1>9. CASE ReadFault(c) \/ ReadFail(c) \/ StreamExec(c) \/ FlushCheck(c)
  BY <1>9, ReadFaultView, ReadFailView, StreamExecView, FlushCheckView
     DEF Proceeds, GoesOn
<1>10. CASE Discard(c) \/ AppendFatal(c) \/ Flush(c) \/ LastFlush(c)
  BY <1>10, DiscardView, AppendFatalView, FlushView, LastFlushView
     DEF Proceeds
<1>11. CASE Deregister(c) \/ Release(c)
  BY <1>11, DeregisterView, ReleaseView
<1> QED
  BY <1>1, <1>2, <1>3, <1>4, <1>5, <1>6, <1>7, <1>8, <1>9, <1>10, <1>11
     DEF StepOf, Serve

\* A step of c changes no entry of the table but its own.
LEMMA EntryKept ==
    ASSUME TypeOK, InfoInv, NEW c \in Conns, NEW d \in Conns \ {c}, StepOf(c),
           Registered(d)
    PROVE  stats'[id[d]] = stats[id[d]]
<1>1. id[d] \in DOMAIN stats /\ pc[d] # "idle"
  BY RegisteredListed DEF Registered, Live
<1>2. pc[c] # "idle" => id[c] # id[d]
  BY <1>1 DEF InfoInv, InfoTracksConnections
<1>3. CASE RegisterAdd(c) \/ CommandCmd(c) \/ Deregister(c)
  <2>1. id[c] # id[d]
    BY <1>2, <1>3 DEF RegisterAdd, CommandCmd, Deregister
  <2>2. CASE RegisterAdd(c)
    BY <1>1, <2>1, <2>2 DEF RegisterAdd
  <2>3. CASE CommandCmd(c)
    BY <1>1, <2>1, <2>3 DEF CommandCmd
  <2>4. CASE Deregister(c)
    BY <1>1, <2>1, <2>4 DEF Deregister
  <2> QED
    BY <1>3, <2>2, <2>3, <2>4
<1>4. CASE ~(RegisterAdd(c) \/ CommandCmd(c) \/ Deregister(c))
  <2>1. CASE Accept(c) \/ Expire(c) \/ Client(c)
    BY <2>1 DEF Accept, Expire, Client, SendPart, SendHead, SendBody, ClientCloses, info
  <2>2. CASE RegisterInc(c) \/ LoopTop(c) \/ Fill(c) \/ PeekFault(c)
    BY <2>2 DEF RegisterInc, LoopTop, Fill, PeekFault, info
  <2>3. CASE PeekFail(c) \/ Lookup(c) \/ Skip(c) \/ CommandInc(c)
    BY <2>3 DEF PeekFail, ReadFails, Lookup, Skip, CommandInc, info
  <2>4. CASE ReadExec(c) \/ ReadFault(c) \/ ReadFail(c) \/ StreamExec(c)
    BY <2>4 DEF ReadExec, ReadFault, ReadFail, ReadFails, StreamExec, info
  <2>5. CASE FlushCheck(c) \/ Discard(c) \/ AppendFatal(c) \/ Flush(c)
    BY <2>5 DEF FlushCheck, Discard, AppendFatal, Flush, info
  <2>6. CASE LastFlush(c) \/ Release(c)
    BY <2>6 DEF LastFlush, Release, info
  <2> QED
    BY <1>4, <2>1, <2>2, <2>3, <2>4, <2>5, <2>6 DEF StepOf, Serve
<1> QED
  BY <1>3, <1>4

LEMMA ShownKept ==
    ASSUME TypeOK, NEW d \in Conns, Shown(d), Untouched(d),
           Registered(d) => stats'[id[d]] = stats[id[d]]
    PROVE  Shown(d)'
<1> SUFFICES ASSUME pc'[d] \in {"cmdinc", "read", "stream"}
             PROVE  stats'[id'[d]] = Lower[Current(d)'.name]
  BY DEF Shown
<1>1. pc[d] \in {"cmdinc", "read", "stream"} /\ Registered(d) /\ Live(d)
  BY DEF Untouched, Registered, Live
<1>2. id'[d] = id[d] /\ Input(d)' = Input(d)
  BY <1>1 DEF Untouched, KeepsInput
<1> QED
  BY <1>1, <1>2 DEF Shown, Current

\* How a step moves a connection past ServerInfo.command and its handler.
Runs(c) ==
    /\ executed' = executed + 1 /\ commands' = commands
    /\ pc[c] \in {"read", "stream"} /\ pc'[c] \notin {"read", "stream"}
Begins(c) ==
    /\ executed' = executed /\ commands' = commands + 1
    /\ pc[c] \notin {"read", "stream"}
Passes(c) ==
    /\ executed' = executed /\ commands' = commands
    /\ pc'[c] \in {"read", "stream"} => pc[c] \in {"read", "stream"}

LEMMA CountStep ==
    ASSUME TypeOK, PoolInv, NEW c \in Conns, StepOf(c)
    PROVE  Runs(c) \/ Begins(c) \/ Passes(c)
<1>1. CASE ReadExec(c) \/ StreamExec(c)
  <2>1. executed' = executed + 1 /\ commands' = commands
    BY <1>1 DEF ReadExec, StreamExec, Execute, info
  <2> QED
    BY <1>1, <2>1, ReadExecView, StreamExecView DEF Runs
<1>2. CASE CommandInc(c)
  BY <1>2 DEF CommandInc, Begins, history
<1>3. CASE Accept(c) \/ Expire(c) \/ Client(c)
  <2>1. executed' = executed /\ commands' = commands
    BY <1>3 DEF Accept, Expire, Client, SendPart, SendHead, SendBody,
                ClientCloses, info, history
  <2> QED
    BY <1>3, <2>1, AcceptView, ExpireView, SendPartView, SendHeadView,
       SendBodyView, ClientClosesView DEF Client, Passes
<1>4. CASE RegisterAdd(c) \/ RegisterInc(c) \/ LoopTop(c) \/ Fill(c)
  <2>1. executed' = executed /\ commands' = commands
    BY <1>4 DEF RegisterAdd, RegisterInc, LoopTop, Fill, info, history
  <2> QED
    BY <1>4, <2>1, RegisterAddView, RegisterIncView, LoopTopView, FillView
       DEF Passes
<1>5. CASE PeekFault(c) \/ PeekFail(c) \/ Lookup(c) \/ Skip(c)
  <2>1. executed' = executed /\ commands' = commands
    BY <1>5 DEF PeekFault, PeekFail, ReadFails, Lookup, Skip, info, history
  <2> QED
    BY <1>5, <2>1, PeekFaultView, PeekFailView, LookupView, SkipView
       DEF Passes, Proceeds
<1>6. CASE CommandCmd(c) \/ ReadFault(c) \/ ReadFail(c) \/ FlushCheck(c)
  <2>1. executed' = executed /\ commands' = commands
    BY <1>6 DEF CommandCmd, ReadFault, ReadFail, ReadFails, FlushCheck, info,
                history
  <2> QED
    BY <1>6, <2>1, CommandCmdView, ReadFaultView, ReadFailView, FlushCheckView
       DEF Passes, GoesOn, Proceeds
<1>7. CASE Discard(c) \/ AppendFatal(c) \/ Flush(c) \/ LastFlush(c)
  <2>1. executed' = executed /\ commands' = commands
    BY <1>7 DEF Discard, AppendFatal, Flush, LastFlush, info, history
  <2> QED
    BY <1>7, <2>1, DiscardView, AppendFatalView, FlushView, LastFlushView
       DEF Passes, Proceeds
<1>8. CASE Deregister(c) \/ Release(c)
  <2>1. executed' = executed /\ commands' = commands
    BY <1>8 DEF Deregister, Release, info, history
  <2> QED
    BY <1>8, <2>1, DeregisterView, ReleaseView DEF Passes
<1> QED
  BY <1>1, <1>2, <1>3, <1>4, <1>5, <1>6, <1>7, <1>8 DEF StepOf, Serve

\* Every handler that runs or has run is counted.
LEMMA CountKept ==
    ASSUME TypeOK, TypeOK', executed + Cardinality(AtCommand) <= commands,
           NEW c \in Conns, Runs(c) \/ Begins(c) \/ Passes(c),
           \A d \in Conns \ {c} : pc'[d] = pc[d]
    PROVE  executed' + Cardinality(AtCommand') <= commands'
<1>1. executed \in Nat /\ commands \in Nat
  BY DEF TypeOK, ServerTypeOK
<1>2. IsFiniteSet(AtCommand) /\ IsFiniteSet(AtCommand')
  BY BoundsAssumption, FS_Subset DEF AtCommand
<1>3. Cardinality(AtCommand) \in Nat /\ Cardinality(AtCommand') \in Nat
  BY <1>2, FS_CardinalityType
<1>4. CASE Runs(c)
  <2>1. AtCommand' = AtCommand \ {c} /\ c \in AtCommand
    BY <1>4 DEF Runs, AtCommand
  <2>2. Cardinality(AtCommand') = Cardinality(AtCommand) - 1
    BY <1>2, <2>1, FS_RemoveElement
  <2> QED
    BY <1>1, <1>3, <1>4, <2>2 DEF Runs
<1>5. CASE Begins(c)
  <2>1. AtCommand' \subseteq AtCommand \cup {c} /\ c \notin AtCommand
    BY <1>5 DEF Begins, AtCommand
  <2>2. /\ IsFiniteSet(AtCommand \cup {c})
        /\ Cardinality(AtCommand \cup {c}) = Cardinality(AtCommand) + 1
    BY <1>2, <2>1, FS_AddElement
  <2>3. Cardinality(AtCommand') <= Cardinality(AtCommand \cup {c})
    BY <2>1, <2>2, FS_Subset
  <2> QED
    BY <1>1, <1>3, <1>5, <2>2, <2>3 DEF Begins
<1>6. CASE Passes(c)
  <2>1. AtCommand' \subseteq AtCommand
    BY <1>6 DEF Passes, AtCommand
  <2>2. Cardinality(AtCommand') <= Cardinality(AtCommand)
    BY <1>2, <2>1, FS_Subset
  <2> QED
    BY <1>1, <1>3, <1>6, <2>2 DEF Passes
<1> QED
  BY <1>4, <1>5, <1>6

LEMMA TrackNext == TrackInv /\ [Next]_vars => TrackInv'
<1> SUFFICES ASSUME TrackInv, [Next]_vars PROVE TrackInv'
  OBVIOUS
<1>1. ReplyInv' /\ TypeOK' /\ TypeOK /\ PoolInv /\ InfoInv
  BY ReplyNext DEF TrackInv, ReplyInv, Inductive
<1>2. /\ \A d \in Conns : Shown(d) /\ Control(d)
      /\ executed + Cardinality(AtCommand) <= commands
  BY DEF TrackInv, ReplyInv, CommandsTracked, Shown, AtCommand
<1>3. ASSUME NEW c \in Conns, StepOf(c)
      PROVE  /\ \A d \in Conns : Shown(d)'
             /\ executed' + Cardinality(AtCommand') <= commands'
  <2>1. Shown(c)'
    BY <1>1, <1>2, <1>3, ShownStep
  <2>2. ASSUME NEW d \in Conns \ {c} PROVE Shown(d)' /\ pc'[d] = pc[d]
    <3>1. Untouched(d)
      BY <1>1, <1>3, Others DEF StepOf
    <3>2. Registered(d) => stats'[id[d]] = stats[id[d]]
      BY <1>1, <1>3, EntryKept
    <3> QED
      BY <1>1, <1>2, <3>1, <3>2, ShownKept DEF Untouched
  <2>3. executed' + Cardinality(AtCommand') <= commands'
    BY <1>1, <1>2, <1>3, <2>2, CountStep, CountKept
  <2> QED
    BY <2>1, <2>2, <2>3
<1>4. ASSUME \/ AcceptError
             \/ \E r \in Registrations : Handle(r[1], r[2])
             \/ UNCHANGED vars
      PROVE  /\ \A d \in Conns : Shown(d)'
             /\ executed' + Cardinality(AtCommand') <= commands'
  <2>1. /\ stats' = stats /\ executed' = executed /\ commands' = commands
        /\ pc' = pc
    BY <1>4 DEF AcceptError, Handle, vars, info, history
  <2>2. ASSUME NEW d \in Conns PROVE Shown(d)'
    <3>1. Untouched(d)
      BY <1>4, Nobodys
    <3> QED
      BY <1>1, <1>2, <2>1, <3>1, ShownKept
  <2>3. executed' + Cardinality(AtCommand') <= commands'
    <3>1. AtCommand' = AtCommand
      BY <2>1 DEF AtCommand
    <3> QED
      BY <1>2, <2>1, <3>1
  <2> QED
    BY <2>2, <2>3
<1>5. CommandsTracked'
  <2>1. /\ \A d \in Conns : Shown(d)'
        /\ executed' + Cardinality(AtCommand') <= commands'
    BY <1>3, <1>4 DEF Next, StepOf
  <2> QED
    BY <2>1 DEF CommandsTracked, Shown, AtCommand
<1> QED
  BY <1>1, <1>5 DEF TrackInv

\* ServerInfo shows the command that a connection runs as its last one, and
\* counts every handler before it runs (ServerInfo.command, clientStats.Cmd),
\* however the connections' goroutines interleave.
THEOREM CommandsCounted == Spec => []CommandsTracked
<1>1. Init => TrackInv
  <2>1. ASSUME Init PROVE CommandsTracked
    <3>1. AtCommand = {} /\ executed = 0 /\ commands = 0
      BY <2>1 DEF Init, AtCommand
    <3>2. executed + Cardinality(AtCommand) <= commands
      BY <3>1, FS_EmptySet
    <3> QED
      BY <2>1, <3>2 DEF Init, CommandsTracked, AtCommand
  <2> QED
    BY <2>1, ReplyInit DEF TrackInv
<1>2. TrackInv => CommandsTracked
  BY DEF TrackInv
<1> QED
  BY <1>1, <1>2, TrackNext, PTL DEF Spec

=============================================================================
