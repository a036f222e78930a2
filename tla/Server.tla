------------------------------- MODULE Server -------------------------------
(***************************************************************************)
(* The connection side of redeo: Server.Serve accepts connections, one     *)
(* goroutine per connection runs serveClient / Client.pipeline / perform,  *)
(* request readers and response writers are recycled through two pools,    *)
(* and ServerInfo counts what happens.                                     *)
(*                                                                         *)
(* Requests are abstracted to two pieces of input.  The "head" is what     *)
(* RequestReader.PeekCmd needs (the array header and the command name),    *)
(* the "body" is the rest (the arguments), which ReadCmd, SkipCmd and      *)
(* CommandStream.Discard need.  A fault says where the request fails to    *)
(* parse: "peek" (in its head; nothing follows it) or "args" (in its body).*)
(* What the parser finds behind a fault is a request of its own.  A head   *)
(* may arrive in two: its first lines (such as the array header) and then  *)
(* the rest.  How the bytes of one line are split over reads is not        *)
(* modelled here.                                                          *)
(*                                                                         *)
(* A handler is application code: it is modelled as appending one reply,   *)
(* and, when its command is one of Closers, calling Client.Close.          *)
(***************************************************************************)
EXTENDS Naturals, Sequences, FiniteSets

CONSTANTS
    Conns,          \* the connections that are ever made (bound)
    Spellings,      \* command names as clients write them
    Lower,          \* strings.ToLower on Spellings
    Closers,        \* lower-case names whose handler calls Client.Close
    Registrations,  \* the calls of Handle / HandleStream: <<name, kind>>
    Faults,         \* the faults a request may have, "none" included
    TimeoutOn,      \* Config.Timeout > 0
    MaxBufferSize,  \* resp.MaxBufferSize, counted in replies
    MaxRequests     \* requests a client sends (bound)

Names == {Lower[s] : s \in Spellings}
Kinds == {"handler", "stream"}
NoCmd == "none"    \* ClientInfo.LastCmd before the first command

ASSUME LowerAssumption ==
    /\ Lower \in [Spellings -> Spellings]
    /\ \A s \in Spellings : Lower[Lower[s]] = Lower[s]
ASSUME RegistrationsAssumption == Registrations \subseteq Spellings \X Kinds
ASSUME FaultsAssumption == Faults \subseteq {"none", "peek", "args"}
ASSUME BoundsAssumption ==
    /\ IsFiniteSet(Conns)
    /\ TimeoutOn \in BOOLEAN
    /\ MaxBufferSize \in Nat
    /\ MaxRequests \in Nat

VARIABLES
    \* the goroutine of a connection: where it is, and its Client
    pc, id, closed, rd, wr, h, err,
    \* request readers and response writers, named by the connection that
    \* allocated them: unread input, whether a part of the next head follows
    \* it, and source; unflushed output and target
    rbuf, cut, src, wbuf, dst,
    \* the objects in readerPool and writerPool
    readerPool, writerPool,
    \* the network: input in flight, output received, the peer, the deadline
    wire, out, peer, deadline,
    \* the client: whether it has sent a part of its next head, the heads it
    \* has sent, and the request whose body is still owed
    begun, sent, owed,
    \* Server and ServerInfo
    listening, cmds, clientInc, stats, connections, commands,
    \* history: handler invocations, replies appended per connection
    executed, answered

client   == <<id, closed, rd, wr>>
objects  == <<rbuf, cut, src, wbuf, dst, readerPool, writerPool>>
network  == <<wire, out, peer, deadline, begun, sent, owed>>
info     == <<clientInc, stats, connections, commands>>
history  == <<executed, answered>>
vars     == <<pc, client, h, err, objects, network, listening, cmds, info,
              history>>

Requests == [cn : Conns, n : Nat, name : Spellings, fault : Faults]
Pieces   == [part : {"head", "body"}, req : Requests]
Replies  == [cn : Conns, n : Nat,
             kind : {"reply", "unknown", "proto", "fatal"}]

Init ==
    /\ pc = [c \in Conns |-> "idle"]
    /\ id = [c \in Conns |-> 0]
    /\ closed = [c \in Conns |-> FALSE]
    /\ rd = [c \in Conns |-> c]
    /\ wr = [c \in Conns |-> c]
    /\ h = [c \in Conns |-> "none"]
    /\ err = [c \in Conns |-> "nil"]
    /\ rbuf = [o \in Conns |-> <<>>]
    /\ cut = [o \in Conns |-> FALSE]
    /\ src = [o \in Conns |-> o]
    /\ wbuf = [o \in Conns |-> <<>>]
    /\ dst = [o \in Conns |-> o]
    /\ readerPool = {}
    /\ writerPool = {}
    /\ wire = [c \in Conns |-> <<>>]
    /\ out = [c \in Conns |-> <<>>]
    /\ peer = [c \in Conns |-> "open"]
    /\ deadline = [c \in Conns |-> "none"]
    /\ begun = [c \in Conns |-> FALSE]
    /\ sent = [c \in Conns |-> 0]
    /\ owed = [c \in Conns |-> <<>>]
    /\ listening = TRUE
    /\ cmds = [m \in Names |-> "none"]
    /\ clientInc = 0
    /\ stats = <<>>
    /\ connections = 0
    /\ commands = 0
    /\ executed = 0
    /\ answered = [c \in Conns |-> 0]

Goto(c, l) == pc' = [pc EXCEPT ![c] = l]

-----------------------------------------------------------------------------
(* Accepting and registering a connection *)

\* Mutant of ResetReader: the object stays in its pool.
ResetReaderKeepsPooled(c, o) ==
    /\ rd' = [rd EXCEPT ![c] = o]
    /\ rbuf' = [rbuf EXCEPT ![o] = <<>>]
    /\ cut' = [cut EXCEPT ![o] = FALSE]
    /\ src' = [src EXCEPT ![o] = c]
    /\ UNCHANGED readerPool

\* Client.reset takes a reader from the pool, or allocates one when the pool
\* yields nothing: sync.Pool may do so even when objects have been put.
\* Either way the object ends up empty and bound to the new connection.
ResetReader(c, o) ==
    /\ rd' = [rd EXCEPT ![c] = o]
    /\ readerPool' = readerPool \ {o}
    /\ rbuf' = [rbuf EXCEPT ![o] = <<>>]
    /\ cut' = [cut EXCEPT ![o] = FALSE]
    /\ src' = [src EXCEPT ![o] = c]

\* Mutant of ResetWriter: a recycled writer keeps its unflushed output.
ResetWriterKeepsBuffer(c, o) ==
    /\ wr' = [wr EXCEPT ![c] = o]
    /\ writerPool' = writerPool \ {o}
    /\ dst' = [dst EXCEPT ![o] = c]
    /\ UNCHANGED wbuf

ResetWriter(c, o) ==
    /\ wr' = [wr EXCEPT ![c] = o]
    /\ writerPool' = writerPool \ {o}
    /\ wbuf' = [wbuf EXCEPT ![o] = <<>>]
    /\ dst' = [dst EXCEPT ![o] = c]

Accept(c) ==
    /\ listening
    /\ pc[c] = "idle"
    /\ clientInc' = clientInc + 1
    /\ id' = [id EXCEPT ![c] = clientInc + 1]
    /\ \E o \in readerPool \cup {c} : ResetReader(c, o)
    /\ \E o \in writerPool \cup {c} : ResetWriter(c, o)
    /\ Goto(c, "add")
    /\ UNCHANGED <<closed, h, err, network, listening, cmds, stats,
                   connections, commands, history>>

\* Serve returns on any error of Accept; running connections are not touched.
AcceptError ==
    /\ listening
    /\ listening' = FALSE
    /\ UNCHANGED <<pc, client, h, err, objects, network, cmds, info, history>>

\* clientStats.Add
RegisterAdd(c) ==
    /\ pc[c] = "add"
    /\ stats' = [i \in DOMAIN stats \cup {id[c]} |->
                    IF i = id[c] THEN NoCmd ELSE stats[i]]
    /\ Goto(c, "inc")
    /\ UNCHANGED <<client, h, err, objects, network, listening, cmds,
                   clientInc, connections, commands, history>>

RegisterInc(c) ==
    /\ pc[c] = "inc"
    /\ connections' = connections + 1
    /\ Goto(c, "loop")
    /\ UNCHANGED <<client, h, err, objects, network, listening, cmds,
                   clientInc, stats, commands, history>>

\* Mutants of LoopTop: the loop ignores Client.Close; no deadline is set.
LoopTopIgnoresClosed(c) ==
    /\ pc[c] = "loop"
    /\ deadline' = [deadline EXCEPT ![c] = IF TimeoutOn THEN "armed" ELSE @]
    /\ Goto(c, "peek")
    /\ UNCHANGED <<client, h, err, objects, wire, out, peer, begun, sent, owed,
                   listening, cmds, info, history>>
LoopTopNoDeadline(c) ==
    /\ pc[c] = "loop"
    /\ Goto(c, IF closed[c] THEN "deregister" ELSE "peek")
    /\ UNCHANGED <<client, h, err, objects, network, listening, cmds, info,
                   history>>

\* The head of serveClient's loop: leave when closed, else set the deadline.
LoopTop(c) ==
    /\ pc[c] = "loop"
    /\ IF closed[c]
       THEN Goto(c, "deregister") /\ UNCHANGED deadline
       ELSE /\ deadline' = [deadline EXCEPT ![c] =
                               IF TimeoutOn THEN "armed" ELSE @]
            /\ Goto(c, "peek")
    /\ UNCHANGED <<client, h, err, objects, wire, out, peer, begun, sent, owed,
                   listening, cmds, info, history>>

-----------------------------------------------------------------------------
(* Reading *)

\* The unread input of c's reader; the request being served is its front.
Input(c)       == rbuf[rd[c]]
HasHead(c)     == Input(c) # <<>>
HasBody(c)     == Len(Input(c)) >= 2
Current(c)     == Head(Input(c)).req

\* bufioR.Buffered() # 0: a whole piece of input, or a part of a head.
Buffered(c)    == HasHead(c) \/ cut[rd[c]]

\* A part of the head that follows the first k pieces in flight to cn is in
\* flight, or has been read.
PartSent(cn, k) ==
    IF k < Len(wire[cn]) THEN wire[cn][k + 1].part = "head" ELSE begun[cn]

\* A read on the connection of c's reader fails.
InputFails(c) ==
    LET cn == src[rd[c]]
    IN  \/ deadline[cn] = "expired"
        \/ /\ peer[cn] # "open"
           /\ wire[cn] = <<>>
           /\ begun[cn] => cut[rd[c]]

\* bufioR.fill / require: the goroutine needs more input and reads some.
\* One read may bring in any number of the pieces in flight, and a part of
\* the head behind them.
Fill(c) ==
    /\ \/ pc[c] = "peek" /\ ~HasHead(c)
       \/ pc[c] \in {"read", "stream", "skip", "discard"} /\ ~HasBody(c)
    /\ LET cn == src[rd[c]]
       IN  /\ deadline[cn] # "expired"
           /\ \E k \in 0 .. Len(wire[cn]), part \in BOOLEAN :
                /\ part => PartSent(cn, k)
                /\ k = 0 => part /\ ~cut[rd[c]]
                /\ rbuf' = [rbuf EXCEPT ![rd[c]] =
                               @ \o SubSeq(wire[cn], 1, k)]
                /\ cut' = [cut EXCEPT ![rd[c]] = part]
                /\ wire' = [wire EXCEPT ![cn] =
                               SubSeq(wire[cn], k + 1, Len(wire[cn]))]
    /\ UNCHANGED <<pc, client, h, err, src, wbuf, dst, readerPool, writerPool,
                   out, peer, deadline, begun, sent, owed, listening, cmds,
                   info, history>>

\* Append a reply to c's writer.
AppendReply(c, r) == wbuf' = [wbuf EXCEPT ![wr[c]] = Append(@, r)]
Reply(c, k)   == [cn |-> c, n |-> Current(c).n, kind |-> k]
FatalReply(c) == [cn |-> c, n |-> 0, kind |-> "fatal"]

\* Mutant of NextInPipeline: the pipeline never returns to flush.
NextAlwaysPeeks(buf, part) == "peek"

\* Client.pipeline goes on while the reader has unread input, if only a part
\* of the next head, and returns to serveClient, which flushes, when it has
\* none.
NextInPipeline(buf, part) == IF buf # <<>> \/ part THEN "peek" ELSE "flush"

\* A request that fails to parse: pipeline returns the protocol error and
\* serveClient appends it and flushes.  SkipCmd has consumed the head.
PeekFault(c) ==
    /\ pc[c] = "peek"
    /\ HasHead(c)
    /\ Current(c).fault = "peek"
    /\ AppendReply(c, Reply(c, "proto"))
    /\ answered' = [answered EXCEPT ![c] = @ + 1]
    /\ rbuf' = [rbuf EXCEPT ![rd[c]] = Tail(@)]
    /\ Goto(c, "flush")
    /\ UNCHANGED <<client, h, err, cut, src, dst, readerPool, writerPool,
                   network, listening, cmds, info, executed>>

\* Mutant of ReadFails: serveClient returns without its last flush.
ReadFailsNoFlush(c) ==
    /\ InputFails(c)
    /\ Goto(c, "deregister")
    /\ UNCHANGED <<client, h, err, objects, network, listening, cmds, info,
                   history>>

\* PeekCmd, ReadCmd or StreamCmd cannot get the input it needs: the pipeline
\* returns an error that is not a protocol error.
ReadFails(c) ==
    /\ InputFails(c)
    /\ Goto(c, "fatal")
    /\ UNCHANGED <<client, h, err, objects, network, listening, cmds, info,
                   history>>

PeekFail(c) ==
    /\ pc[c] = "peek"
    /\ ~HasHead(c)
    /\ ReadFails(c)

\* PeekCmd succeeds and perform looks the handler up.
Lookup(c) ==
    /\ pc[c] = "peek"
    /\ HasHead(c)
    /\ Current(c).fault # "peek"
    /\ LET kind == cmds[Lower[Current(c).name]]
       IN  /\ h' = [h EXCEPT ![c] = kind]
           /\ IF kind = "none"
              THEN /\ AppendReply(c, Reply(c, "unknown"))
                   /\ answered' = [answered EXCEPT ![c] = @ + 1]
                   /\ Goto(c, "skip")
              ELSE /\ Goto(c, "cmd")
                   /\ UNCHANGED <<wbuf, answered>>
    /\ UNCHANGED <<client, err, rbuf, cut, src, dst, readerPool, writerPool,
                   network, listening, cmds, info, executed>>

\* Mutant of Skip: only the head of the unknown command is consumed.
SkipHeadOnly(c) ==
    /\ pc[c] = "skip"
    /\ rbuf' = [rbuf EXCEPT ![rd[c]] = Tail(@)]
    /\ Goto(c, NextInPipeline(Tail(Input(c)), cut[rd[c]]))
    /\ UNCHANGED <<client, h, err, cut, src, wbuf, dst, readerPool, writerPool,
                   network, listening, cmds, info, history>>

\* SkipCmd for an unknown command; its error is ignored, and perform returns
\* nil without looking at the size of the response buffer.  When input fails
\* nothing of the request remains buffered.
Skip(c) ==
    /\ pc[c] = "skip"
    /\ HasBody(c) \/ InputFails(c)
    /\ LET rest == IF HasBody(c) THEN Tail(Tail(Input(c))) ELSE <<>>
           part == HasBody(c) /\ cut[rd[c]]
       IN  /\ rbuf' = [rbuf EXCEPT ![rd[c]] = rest]
           /\ cut' = [cut EXCEPT ![rd[c]] = part]
           /\ Goto(c, NextInPipeline(rest, part))
    /\ UNCHANGED <<client, h, err, src, wbuf, dst, readerPool, writerPool,
                   network, listening, cmds, info, history>>

\* Mutants of CommandCmd: the name is stored as the client wrote it; the entry
\* of the newest client is updated.
CommandCmdAsWritten(c) ==
    /\ pc[c] = "cmd"
    /\ stats' = [i \in DOMAIN stats |->
                    IF i = id[c] THEN Current(c).name ELSE stats[i]]
    /\ Goto(c, "cmdinc")
    /\ UNCHANGED <<client, h, err, objects, network, listening, cmds,
                   clientInc, connections, commands, history>>
CommandCmdNewest(c) ==
    /\ pc[c] = "cmd"
    /\ stats' = [i \in DOMAIN stats |->
                    IF i = clientInc THEN Lower[Current(c).name] ELSE stats[i]]
    /\ Goto(c, "cmdinc")
    /\ UNCHANGED <<client, h, err, objects, network, listening, cmds,
                   clientInc, connections, commands, history>>

\* ServerInfo.command: clientStats.Cmd, then the counter.
CommandCmd(c) ==
    /\ pc[c] = "cmd"
    /\ stats' = [i \in DOMAIN stats |->
                    IF i = id[c] THEN Lower[Current(c).name] ELSE stats[i]]
    /\ Goto(c, "cmdinc")
    /\ UNCHANGED <<client, h, err, objects, network, listening, cmds,
                   clientInc, connections, commands, history>>

CommandInc(c) ==
    /\ pc[c] = "cmdinc"
    /\ commands' = commands + 1
    /\ Goto(c, IF h[c] = "handler" THEN "read" ELSE "stream")
    /\ UNCHANGED <<client, h, err, objects, network, listening, cmds,
                   clientInc, stats, connections, history>>

\* The handler runs: it appends its reply and may close the client.
Execute(c) ==
    /\ executed' = executed + 1
    /\ answered' = [answered EXCEPT ![c] = @ + 1]
    /\ AppendReply(c, Reply(c, "reply"))
    /\ closed' = [closed EXCEPT ![c] = @ \/ Lower[Current(c).name] \in Closers]

\* ReadCmd succeeds and the Handler runs.
ReadExec(c) ==
    /\ pc[c] = "read"
    /\ HasBody(c)
    /\ Current(c).fault = "none"
    /\ Execute(c)
    /\ rbuf' = [rbuf EXCEPT ![rd[c]] = Tail(Tail(@))]
    /\ Goto(c, "check")
    /\ UNCHANGED <<id, rd, wr, h, err, cut, src, dst, readerPool, writerPool,
                   network, listening, cmds, info>>

\* ReadCmd meets a protocol error in the arguments.
ReadFault(c) ==
    /\ pc[c] = "read"
    /\ HasBody(c)
    /\ Current(c).fault = "args"
    /\ AppendReply(c, Reply(c, "proto"))
    /\ answered' = [answered EXCEPT ![c] = @ + 1]
    /\ rbuf' = [rbuf EXCEPT ![rd[c]] = Tail(Tail(@))]
    /\ Goto(c, "flush")
    /\ UNCHANGED <<client, h, err, cut, src, dst, readerPool, writerPool,
                   network, listening, cmds, info, executed>>

ReadFail(c) ==
    /\ pc[c] \in {"read", "stream"}
    /\ ~HasBody(c)
    /\ ReadFails(c)

\* StreamCmd succeeds and the StreamHandler runs.  It may reply before its
\* arguments have arrived; the request stays buffered until Discard is done.
StreamExec(c) ==
    /\ pc[c] = "stream"
    /\ Execute(c)
    /\ Goto(c, "check")
    /\ UNCHANGED <<id, rd, wr, h, err, rbuf, cut, src, dst, readerPool,
                   writerPool, network, listening, cmds, info>>

-----------------------------------------------------------------------------
(* Writing *)

\* Mutant of FlushSucceeds: what was written stays in the buffer.
FlushKeepsBuffer(c) ==
    LET w  == wr[c]
        cn == dst[w]
    IN  /\ wbuf[w] = <<>> \/ deadline[cn] # "expired"
        /\ out' = [out EXCEPT ![cn] = IF peer[cn] = "gone" THEN @
                                      ELSE @ \o wbuf[w]]
        /\ UNCHANGED <<wbuf, deadline>>

\* bufioW.Flush returns nil: nothing to write, or everything was written.
\* What is written to a peer that is gone is lost.
FlushSucceeds(c) ==
    LET w  == wr[c]
        cn == dst[w]
    IN  /\ wbuf[w] = <<>> \/ deadline[cn] # "expired"
        /\ out' = [out EXCEPT ![cn] = IF peer[cn] = "gone" THEN @
                                      ELSE @ \o wbuf[w]]
        /\ wbuf' = [wbuf EXCEPT ![w] = <<>>]
        /\ UNCHANGED deadline

\* bufioW.Flush returns an error and keeps its buffer.  A deadline that
\* passes during the write leaves a part of the buffer written.
FlushFails(c) ==
    LET w  == wr[c]
        cn == dst[w]
    IN  /\ wbuf[w] # <<>>
        /\ \/ /\ peer[cn] = "gone" \/ deadline[cn] = "expired"
              /\ UNCHANGED <<out, deadline>>
           \/ /\ peer[cn] # "gone"
              /\ deadline[cn] = "armed"
              /\ deadline' = [deadline EXCEPT ![cn] = "expired"]
              /\ \E k \in 0 .. Len(wbuf[w]) - 1 :
                    out' = [out EXCEPT ![cn] = @ \o SubSeq(wbuf[w], 1, k)]
        /\ UNCHANGED wbuf

\* What perform's error leads to once the handler is done with the request.
AfterHandler(c, e) ==
    IF h[c] = "stream"
    THEN err' = [err EXCEPT ![c] = e] /\ Goto(c, "discard")
    ELSE /\ UNCHANGED err
         /\ Goto(c, IF e = "io" THEN "fatal"
                    ELSE NextInPipeline(Input(c), cut[rd[c]]))

\* The end of perform: flush when more than half of the maximum is buffered.
BufferIsLarge(c) == Len(wbuf[wr[c]]) > MaxBufferSize \div 2

FlushCheck(c) ==
    /\ pc[c] = "check"
    /\ \/ /\ ~BufferIsLarge(c)
          /\ AfterHandler(c, "nil")
          /\ UNCHANGED <<out, wbuf, deadline>>
       \/ /\ BufferIsLarge(c)
          /\ FlushSucceeds(c)
          /\ AfterHandler(c, "nil")
       \/ /\ BufferIsLarge(c)
          /\ FlushFails(c)
          /\ AfterHandler(c, "io")
    /\ UNCHANGED <<client, h, rbuf, cut, src, dst, readerPool, writerPool,
                   wire, peer, begun, sent, owed, listening, cmds, info,
                   history>>

\* The deferred CommandStream.Discard; its error is ignored.
Discard(c) ==
    /\ pc[c] = "discard"
    /\ HasBody(c) \/ InputFails(c)
    /\ LET rest == IF HasBody(c) THEN Tail(Tail(Input(c))) ELSE <<>>
           part == HasBody(c) /\ cut[rd[c]]
       IN  /\ rbuf' = [rbuf EXCEPT ![rd[c]] = rest]
           /\ cut' = [cut EXCEPT ![rd[c]] = part]
           /\ Goto(c, IF err[c] = "io" THEN "fatal"
                      ELSE NextInPipeline(rest, part))
    /\ err' = [err EXCEPT ![c] = "nil"]
    /\ UNCHANGED <<client, h, src, wbuf, dst, readerPool, writerPool, network,
                   listening, cmds, info, history>>

\* serveClient appends an error that is not a protocol error.
AppendFatal(c) ==
    /\ pc[c] = "fatal"
    /\ AppendReply(c, FatalReply(c))
    /\ Goto(c, "lastflush")
    /\ UNCHANGED <<client, h, err, rbuf, cut, src, dst, readerPool, writerPool,
                   network, listening, cmds, info, history>>

\* Mutants of Flush: serveClient goes on after an error; it leaves without
\* deregistering.
FlushErrorIgnored(c) ==
    /\ pc[c] = "flush"
    /\ FlushSucceeds(c) \/ FlushFails(c)
    /\ Goto(c, "loop")
    /\ UNCHANGED <<client, h, err, rbuf, cut, src, dst, readerPool, writerPool,
                   wire, peer, begun, sent, owed, listening, cmds, info,
                   history>>
FlushErrorReleases(c) ==
    /\ pc[c] = "flush"
    /\ \/ FlushSucceeds(c) /\ Goto(c, "loop")
       \/ FlushFails(c) /\ Goto(c, "release")
    /\ UNCHANGED <<client, h, err, rbuf, cut, src, dst, readerPool, writerPool,
                   wire, peer, begun, sent, owed, listening, cmds, info,
                   history>>

\* serveClient flushes after the pipeline and returns on an error.
Flush(c) ==
    /\ pc[c] = "flush"
    /\ \/ FlushSucceeds(c) /\ Goto(c, "loop")
       \/ FlushFails(c) /\ Goto(c, "deregister")
    /\ UNCHANGED <<client, h, err, rbuf, cut, src, dst, readerPool, writerPool,
                   wire, peer, begun, sent, owed, listening, cmds, info,
                   history>>

\* The flush after an I/O error; its own error is ignored.
LastFlush(c) ==
    /\ pc[c] = "lastflush"
    /\ FlushSucceeds(c) \/ FlushFails(c)
    /\ Goto(c, "deregister")
    /\ UNCHANGED <<client, h, err, rbuf, cut, src, dst, readerPool, writerPool,
                   wire, peer, begun, sent, owed, listening, cmds, info,
                   history>>

-----------------------------------------------------------------------------
(* Leaving: the deferred calls of serveClient *)

Deregister(c) ==
    /\ pc[c] = "deregister"
    /\ stats' = [i \in DOMAIN stats \ {id[c]} |-> stats[i]]
    /\ Goto(c, "release")
    /\ UNCHANGED <<client, h, err, objects, network, listening, cmds,
                   clientInc, connections, commands, history>>

\* Client.release closes the connection and puts both objects in their pools.
\* An Accept between the two Puts is the Accept that gets no pooled writer.
Release(c) ==
    /\ pc[c] = "release"
    /\ readerPool' = readerPool \cup {rd[c]}
    /\ writerPool' = writerPool \cup {wr[c]}
    /\ Goto(c, "done")
    /\ UNCHANGED <<client, h, err, rbuf, cut, src, wbuf, dst, network,
                   listening, cmds, info, history>>

-----------------------------------------------------------------------------
(* The application, the clients and the clock *)

\* Server.Handle and Server.HandleStream, callable at any time.
Handle(name, kind) ==
    /\ cmds' = [cmds EXCEPT ![Lower[name]] = kind]
    /\ UNCHANGED <<pc, client, h, err, objects, network, listening, info,
                   history>>

Connected(c) == pc[c] \notin {"idle", "done"} /\ peer[c] = "open"

\* A client begins its next request: a part of the head is on its way.
SendPart(c) ==
    /\ Connected(c)
    /\ owed[c] = <<>>
    /\ sent[c] < MaxRequests
    /\ ~begun[c]
    /\ begun' = [begun EXCEPT ![c] = TRUE]
    /\ UNCHANGED <<pc, client, h, err, objects, wire, out, peer, deadline,
                   sent, owed, listening, cmds, info, history>>

\* The rest of the head follows.
SendHead(c, s, f) ==
    /\ Connected(c)
    /\ owed[c] = <<>>
    /\ begun[c]
    /\ begun' = [begun EXCEPT ![c] = FALSE]
    /\ sent' = [sent EXCEPT ![c] = @ + 1]
    /\ LET r == [cn |-> c, n |-> sent[c] + 1, name |-> s, fault |-> f]
       IN  /\ wire' = [wire EXCEPT ![c] =
                          Append(@, [part |-> "head", req |-> r])]
           /\ owed' = [owed EXCEPT ![c] = IF f = "peek" THEN <<>> ELSE <<r>>]
    /\ UNCHANGED <<pc, client, h, err, objects, out, peer, deadline, listening,
                   cmds, info, history>>

SendBody(c) ==
    /\ Connected(c)
    /\ owed[c] # <<>>
    /\ wire' = [wire EXCEPT ![c] =
                   Append(@, [part |-> "body", req |-> Head(owed[c])])]
    /\ owed' = [owed EXCEPT ![c] = <<>>]
    /\ UNCHANGED <<pc, client, h, err, objects, out, peer, deadline, begun,
                   sent, listening, cmds, info, history>>

\* The client stops sending ("half") or disappears ("gone"); what a client
\* that disappears has sent may or may not reach the server.
ClientCloses(c, how) ==
    /\ pc[c] \notin {"idle", "done"}
    /\ peer[c] = "open" \/ (peer[c] = "half" /\ how = "gone")
    /\ peer' = [peer EXCEPT ![c] = how]
    /\ \/ UNCHANGED <<wire, begun>>
       \/ /\ how = "gone"
          /\ wire' = [wire EXCEPT ![c] = <<>>]
          /\ begun' = [begun EXCEPT ![c] = FALSE]
    /\ UNCHANGED <<pc, client, h, err, objects, out, deadline, sent, owed,
                   listening, cmds, info, history>>

\* The deadline set by LoopTop passes.
Expire(c) ==
    /\ pc[c] \notin {"idle", "done"}
    /\ deadline[c] = "armed"
    /\ deadline' = [deadline EXCEPT ![c] = "expired"]
    /\ UNCHANGED <<pc, client, h, err, objects, wire, out, peer, begun, sent,
                   owed, listening, cmds, info, history>>

-----------------------------------------------------------------------------
(* The specification *)

\* One step of the goroutine that serves c.
Serve(c) ==
    \/ RegisterAdd(c)
    \/ RegisterInc(c)
    \/ LoopTop(c)
    \/ Fill(c)
    \/ PeekFault(c)
    \/ PeekFail(c)
    \/ Lookup(c)
    \/ Skip(c)
    \/ CommandCmd(c)
    \/ CommandInc(c)
    \/ ReadExec(c)
    \/ ReadFault(c)
    \/ ReadFail(c)
    \/ StreamExec(c)
    \/ FlushCheck(c)
    \/ Discard(c)
    \/ AppendFatal(c)
    \/ Flush(c)
    \/ LastFlush(c)
    \/ Deregister(c)
    \/ Release(c)

Client(c) ==
    \/ SendPart(c)
    \/ \E s \in Spellings, f \in Faults : SendHead(c, s, f)
    \/ SendBody(c)
    \/ \E how \in {"half", "gone"} : ClientCloses(c, how)

Next ==
    \/ \E c \in Conns : Accept(c) \/ Serve(c) \/ Client(c) \/ Expire(c)
    \/ AcceptError
    \/ \E r \in Registrations : Handle(r[1], r[2])

Spec == Init /\ [][Next]_vars

\* Every serving goroutine is scheduled, a client that has begun a request
\* completes it, and time passes.
ServerFairness == \A c \in Conns : WF_vars(Serve(c))
ClientFairness ==
    \A c \in Conns :
        /\ WF_vars(\E s \in Spellings, f \in Faults : SendHead(c, s, f))
        /\ WF_vars(SendBody(c))
ClockFairness  == \A c \in Conns : WF_vars(Expire(c))

ClientFairSpec == Spec /\ ServerFairness /\ ClientFairness
TimedFairSpec  == Spec /\ ServerFairness /\ ClockFairness

-----------------------------------------------------------------------------
(* Properties *)

Labels == {"idle", "add", "inc", "loop", "peek", "skip", "cmd", "cmdinc",
           "read", "stream", "check", "discard", "fatal", "flush",
           "lastflush", "deregister", "release", "done"}

Live(c)       == pc[c] \notin {"idle", "done"}
Registered(c) == Live(c) /\ pc[c] \notin {"add", "release"}
Counted(c)    == pc[c] \notin {"idle", "add", "inc"}
Registrants   == {c \in Conns : Registered(c)}
Arrivals      == {c \in Conns : Counted(c)}

ClientTypeOK ==
    /\ pc \in [Conns -> Labels]
    /\ id \in [Conns -> Nat]
    /\ closed \in [Conns -> BOOLEAN]
    /\ rd \in [Conns -> Conns]
    /\ wr \in [Conns -> Conns]
    /\ h \in [Conns -> Kinds \cup {"none"}]
    /\ err \in [Conns -> {"nil", "io"}]

ObjectsTypeOK ==
    /\ rbuf \in [Conns -> Seq(Pieces)]
    /\ cut \in [Conns -> BOOLEAN]
    /\ src \in [Conns -> Conns]
    /\ wbuf \in [Conns -> Seq(Replies)]
    /\ dst \in [Conns -> Conns]
    /\ readerPool \subseteq Conns
    /\ writerPool \subseteq Conns

NetworkTypeOK ==
    /\ wire \in [Conns -> Seq(Pieces)]
    /\ out \in [Conns -> Seq(Replies)]
    /\ peer \in [Conns -> {"open", "half", "gone"}]
    /\ deadline \in [Conns -> {"none", "armed", "expired"}]
    /\ begun \in [Conns -> BOOLEAN]
    /\ sent \in [Conns -> Nat]
    /\ owed \in [Conns -> Seq(Requests)]

ServerTypeOK ==
    /\ listening \in BOOLEAN
    /\ cmds \in [Names -> Kinds \cup {"none"}]
    /\ clientInc \in Nat
    /\ DOMAIN stats \subseteq Nat
    /\ \A i \in DOMAIN stats : stats[i] \in Names \cup {NoCmd}
    /\ connections \in Nat
    /\ commands \in Nat
    /\ executed \in Nat
    /\ answered \in [Conns -> Nat]

\* Every variable of Server, Client, ServerInfo and the pools has its type; in
\* particular what a pipeline takes from the reader is always a request.
TypeOK == ClientTypeOK /\ ObjectsTypeOK /\ NetworkTypeOK /\ ServerTypeOK

\* Two running connections never share a request reader or a response writer,
\* neither object is up for reuse in its pool (client.go reset and release),
\* and both are bound to their owner's connection.
PoolExclusive ==
    \A c \in Conns : Live(c) =>
        /\ rd[c] \notin readerPool /\ src[rd[c]] = c
        /\ wr[c] \notin writerPool /\ dst[wr[c]] = c
        /\ \A d \in Conns : Live(d) /\ d # c => rd[d] # rd[c] /\ wr[d] # wr[c]

\* A goroutine that has seen a request's head and goes on to use it still has
\* it in its reader.
HeadHeld ==
    \A c \in Conns : pc[c] \in {"cmd", "cmdinc", "stream"} => HasHead(c)

\* What a client receives are the answers to its own requests, in the order
\* it sent them and none twice, the error of a broken connection at most once
\* and last: whatever was pipelined, skipped, cut short or left in a recycled
\* reader or writer (serveClient, pipeline, perform, Client.reset).
RepliesInOrder ==
    \A c \in Conns : \A i \in 1 .. Len(out[c]) :
        /\ out[c][i].cn = c
        /\ \/ out[c][i].kind # "fatal" /\ out[c][i].n = i
           \/ out[c][i].kind = "fatal" /\ i = Len(out[c])

\* A connection is a session of Calls; its client has got what it received,
\* less the error of a broken connection.
Answers(c)  == {i \in DOMAIN out[c] : out[c][i].kind # "fatal"}
Received(c) == [i \in Answers(c) |-> <<out[c][i].cn, out[c][i].n>>]
Abstract == INSTANCE Calls WITH
    Sessions <- Conns, asked <- sent, got <- [c \in Conns |-> Received(c)]

\* The server implements Calls: every request of a connection gets one reply,
\* no reply without a request, none repeated, swapped or taken back, whatever
\* flushes bring them and whatever fails (serveClient, pipeline, perform).
ImplementsCalls == Abstract!Spec

\* Whenever the parser is about to take a request, its input starts with the
\* head of one, and the arguments behind it are that request's own: skipping
\* an unknown command, a protocol error and discarding the arguments of a
\* stream all leave the reader on a request boundary (SkipCmd, Discard).
ReaderAligned ==
    \A c \in Conns :
        LET serving == {"peek", "skip", "cmd", "cmdinc", "read", "stream",
                        "discard"}
        IN  pc[c] \in serving =>
                /\ HasHead(c) => Head(Input(c)).part = "head"
                /\ HasBody(c) /\ Current(c).fault # "peek" =>
                      Input(c)[2] = [part |-> "body", req |-> Current(c)]

\* The replies c's handlers have produced that its client has not received.
Undelivered(c) == answered[c] - Cardinality(Answers(c))

\* The server holds back no reply while it waits for a request of which
\* nothing has arrived, and none when it has closed the connection of a client
\* that still listens and whose deadline has not passed.  A request that has
\* begun to arrive is different: while the server waits for the rest of it the
\* replies before it stay in the writer (pipeline, serveClient, Close).
NoReplyHeldBack ==
    \A c \in Conns :
        \/ pc[c] = "peek" /\ ~Buffered(c)
        \/ pc[c] \in {"deregister", "release", "done"}
        => \/ Undelivered(c) = 0
           \/ peer[c] = "gone"
           \/ deadline[c] = "expired"

\* ServerInfo.NumClients
NumClients == Cardinality(DOMAIN stats)

\* ServerInfo lists exactly the connections being served, under ids that are
\* unique, and counts every connection once (register, deregister): whatever
\* way a connection ends, no entry is left behind and none is removed early.
InfoTracksConnections ==
    /\ DOMAIN stats = {id[c] : c \in Registrants}
    /\ \A c, d \in Conns : pc[c] # "idle" /\ pc[d] # "idle" /\ id[c] = id[d]
          => c = d
    /\ connections = Cardinality(Arrivals)
    /\ NumClients <= clientInc

\* ServerInfo keeps up with the commands of all connections.  While a command
\* of c is read or runs, ClientInfo shows it as the last command of c, whatever
\* other connections do to the table (clientStats.Cmd); and every handler that
\* has run or is about to run has been counted (ServerInfo.command comes before
\* ReadCmd and StreamCmd in perform).
CommandsTracked ==
    /\ \A c \in Conns : pc[c] \in {"cmdinc", "read", "stream"} =>
          stats[id[c]] = Lower[Current(c).name]
    /\ executed + Cardinality({c \in Conns : pc[c] \in {"read", "stream"}})
          <= commands

\* info.go: "TotalCommands returns the total number of commands executed": it
\* is the number of handlers run, whenever no connection is at a command.
TotalIsExecuted ==
    (\A c \in Conns : pc[c] \notin {"cmdinc", "read", "stream"})
        => commands = executed

\* resp.go: "MaxBufferSize is the max request/response buffer size": no more
\* than that is buffered for a client, however it pipelines its requests.
ResponseBounded == \A c \in Conns : Len(wbuf[wr[c]]) <= MaxBufferSize

\* Once a handler has closed its client the server turns to no request of
\* which nothing has arrived: it serves what its reader has buffered, where it
\* may have to wait for the rest of a request that has begun to arrive, and
\* leaves (Client.Close, pipeline and the loop of serveClient).
ClosedOnlyDrains ==
    \A c \in Conns : closed[c] /\ pc[c] = "peek" => Buffered(c)

\* Every request whose client waits for the reply gets it, or its connection
\* ends: nothing is left in a buffer for ever (pipeline and serveClient).
RequestsAnswered ==
    \A c \in Conns : \A n \in 1 .. MaxRequests :
        sent[c] >= n ~> \/ \E i \in 1 .. Len(out[c]) : out[c][i].n = n
                        \/ pc[c] = "done"

\* With Config.Timeout every accepted connection ends once its client sends no
\* more requests, even if it leaves one unfinished and keeps the connection
\* open: it is closed, deregistered and released (serveClient).
ConnectionsEnd == \A c \in Conns : pc[c] # "idle" ~> pc[c] = "done"

\* client.go: "Close will disconnect as soon as all pending replies have been
\* written to the client": a connection that a handler closes comes to its end.
\* It does when clients complete the requests they begin, and need not when
\* one leaves a request unfinished.
ClosedEnd == \A c \in Conns : closed[c] ~> pc[c] = "done"

\* config.go: "IdleTimeout forces servers to close idle connection once timeout
\* is reached": no connection waits for its next request for ever.
Idle(c) ==
    /\ pc[c] = "peek"
    /\ ~Buffered(c)
    /\ wire[c] = <<>>
    /\ ~begun[c]
IdleConnectionsEnd == \A c \in Conns : Idle(c) ~> ~Idle(c)

=============================================================================
