---------------------------- MODULE ServerProofs ----------------------------
(***************************************************************************)
(* Proofs about Server for any set of connections and any number of        *)
(* requests: type correctness, exclusive ownership of the pooled readers   *)
(* and writers, and the bookkeeping of ServerInfo.                         *)
(***************************************************************************)
EXTENDS Server, FiniteSetTheorems, TLAPS

(***************************************************************************)
(* Sequences and the helpers of the actions                                *)
(***************************************************************************)
LEMMA TailType ==
    ASSUME NEW S, NEW s \in Seq(S), s # <<>>
    PROVE  Tail(s) \in Seq(S) /\ Head(s) \in S
OBVIOUS

LEMMA SubSeqType ==
    ASSUME NEW S, NEW s \in Seq(S), NEW m \in 1 .. Len(s) + 1,
           NEW n \in 0 .. Len(s)
    PROVE  SubSeq(s, m, n) \in Seq(S)
OBVIOUS

LEMMA ConcatType ==
    ASSUME NEW S, NEW s \in Seq(S), NEW t \in Seq(S)
    PROVE  s \o t \in Seq(S)
OBVIOUS

LEMMA LowerInNames == \A s \in Spellings : Lower[s] \in Names
BY DEF Names

LEMMA InputType ==
    ASSUME TypeOK, NEW c \in Conns
    PROVE  Input(c) \in Seq(Pieces)
BY DEF TypeOK, ObjectsTypeOK, ClientTypeOK, Input

\* What PeekCmd looks at is a request, and skipping its head leaves input.
LEMMA CurrentType ==
    ASSUME TypeOK, NEW c \in Conns, HasHead(c)
    PROVE  Current(c) \in Requests /\ Tail(Input(c)) \in Seq(Pieces)
<1>1. Head(Input(c)) \in Pieces /\ Tail(Input(c)) \in Seq(Pieces)
  BY InputType, TailType DEF HasHead
<1>2. Head(Input(c)).req \in Requests
  BY <1>1 DEF Pieces
<1> QED
  BY <1>1, <1>2 DEF Current

LEMMA BodyType ==
    ASSUME TypeOK, NEW c \in Conns, HasBody(c)
    PROVE  Tail(Tail(Input(c))) \in Seq(Pieces) /\ HasHead(c)
<1> DEFINE s == Input(c)
<1>1. s \in Seq(Pieces) /\ Len(s) >= 2
  BY InputType DEF HasBody
<1> HIDE DEF s
<1>2. s # <<>> /\ Tail(s) \in Seq(Pieces)
  BY <1>1
<1>3. Len(Tail(s)) = Len(s) - 1
  BY <1>1, <1>2
<1>4. Tail(s) # <<>>
  <2> DEFINE t == Tail(s)
  <2>1. t \in Seq(Pieces) /\ Len(t) >= 1
    BY <1>1, <1>2, <1>3
  <2> HIDE DEF t
  <2>2. t # <<>>
    BY <2>1
  <2> QED
    BY <2>2 DEF t
<1> QED
  BY <1>2, <1>4, TailType DEF HasHead, s

LEMMA ReplyType ==
    ASSUME TypeOK, NEW c \in Conns, HasHead(c),
           NEW k \in {"reply", "unknown", "proto"}
    PROVE  Reply(c, k) \in Replies
BY CurrentType DEF Reply, Replies, Requests

LEMMA AppendReplyType ==
    ASSUME TypeOK, NEW c \in Conns, NEW r \in Replies, AppendReply(c, r)
    PROVE  wbuf' \in [Conns -> Seq(Replies)]
BY DEF TypeOK, ObjectsTypeOK, ClientTypeOK, AppendReply

\* Consuming input from c's reader.
LEMMA ConsumeType ==
    ASSUME TypeOK, NEW c \in Conns, NEW rest \in Seq(Pieces),
           rbuf' = [rbuf EXCEPT ![rd[c]] = rest]
    PROVE  rbuf' \in [Conns -> Seq(Pieces)]
BY DEF TypeOK, ObjectsTypeOK, ClientTypeOK

LEMMA FillType ==
    ASSUME TypeOK, NEW c \in Conns, Fill(c)
    PROVE  /\ rbuf' \in [Conns -> Seq(Pieces)]
           /\ cut' \in [Conns -> BOOLEAN]
           /\ wire' \in [Conns -> Seq(Pieces)]
<1> DEFINE cn == src[rd[c]]
<1>1. /\ rbuf[rd[c]] \in Seq(Pieces) /\ wire[cn] \in Seq(Pieces)
      /\ rd[c] \in Conns /\ cn \in Conns
  BY DEF TypeOK, ClientTypeOK, ObjectsTypeOK, NetworkTypeOK
<1>2. PICK k \in 0 .. Len(wire[cn]), part \in BOOLEAN :
         /\ rbuf' = [rbuf EXCEPT ![rd[c]] = @ \o SubSeq(wire[cn], 1, k)]
         /\ cut' = [cut EXCEPT ![rd[c]] = part]
         /\ wire' = [wire EXCEPT ![cn] =
                        SubSeq(wire[cn], k + 1, Len(wire[cn]))]
  BY DEF Fill
<1> HIDE DEF cn
<1>3. /\ SubSeq(wire[cn], 1, k) \in Seq(Pieces)
      /\ SubSeq(wire[cn], k + 1, Len(wire[cn])) \in Seq(Pieces)
  BY <1>1, <1>2, SubSeqType
<1>4. rbuf[rd[c]] \o SubSeq(wire[cn], 1, k) \in Seq(Pieces)
  BY <1>1, <1>3, ConcatType
<1> QED
  BY <1>1, <1>2, <1>3, <1>4 DEF TypeOK, ObjectsTypeOK, NetworkTypeOK

LEMMA FlushSucceedsType ==
    ASSUME TypeOK, NEW c \in Conns, FlushSucceeds(c)
    PROVE  /\ wbuf' \in [Conns -> Seq(Replies)]
           /\ out' \in [Conns -> Seq(Replies)]
           /\ deadline' \in [Conns -> {"none", "armed", "expired"}]
<1> DEFINE w == wr[c] cn == dst[w]
<1>1. wbuf[w] \in Seq(Replies) /\ out[cn] \in Seq(Replies)
  BY DEF TypeOK, ObjectsTypeOK, ClientTypeOK, NetworkTypeOK
<1>2. out[cn] \o wbuf[w] \in Seq(Replies)
  BY <1>1, ConcatType
<1>3. wbuf' \in [Conns -> Seq(Replies)]
  BY DEF TypeOK, ObjectsTypeOK, ClientTypeOK, FlushSucceeds
<1> QED
  BY <1>2, <1>3 DEF TypeOK, NetworkTypeOK, FlushSucceeds

LEMMA FlushFailsType ==
    ASSUME TypeOK, NEW c \in Conns, FlushFails(c)
    PROVE  /\ wbuf' \in [Conns -> Seq(Replies)]
           /\ out' \in [Conns -> Seq(Replies)]
           /\ deadline' \in [Conns -> {"none", "armed", "expired"}]
<1> DEFINE w == wr[c] cn == dst[w]
<1>1. wbuf[w] \in Seq(Replies) /\ out[cn] \in Seq(Replies)
  BY DEF TypeOK, ObjectsTypeOK, ClientTypeOK, NetworkTypeOK
<1>2. ASSUME NEW k \in 0 .. Len(wbuf[w]) - 1
      PROVE  out[cn] \o SubSeq(wbuf[w], 1, k) \in Seq(Replies)
  <2> HIDE DEF w, cn
  <2>1. SubSeq(wbuf[w], 1, k) \in Seq(Replies)
    BY <1>1, <1>2, SubSeqType
  <2> QED
    BY <2>1, <1>1, ConcatType
<1>3. wbuf' \in [Conns -> Seq(Replies)]
  BY DEF TypeOK, ObjectsTypeOK, ClientTypeOK, FlushFails
<1> QED
  BY <1>2, <1>3, ZenonT(60) DEF TypeOK, NetworkTypeOK, FlushFails

(***************************************************************************)
(* Type correctness, one part of the state at a time                       *)
(***************************************************************************)
LEMMA TypeInit == Init => TypeOK
BY DEF Init, TypeOK, ClientTypeOK, ObjectsTypeOK, NetworkTypeOK, ServerTypeOK,
       Labels, Kinds, NoCmd

LEMMA ClientType ==
    ASSUME TypeOK, HeadHeld, NEW c \in Conns,
           Accept(c) \/ Serve(c) \/ Client(c) \/ Expire(c)
    PROVE  ClientTypeOK'
<1> USE DEF TypeOK, ClientTypeOK, Labels, Kinds, Goto, client
<1>1. CASE Accept(c)
  <2>1. PICK o \in readerPool \cup {c} : ResetReader(c, o)
    BY <1>1 DEF Accept
  <2>2. PICK p \in writerPool \cup {c} : ResetWriter(c, p)
    BY <1>1 DEF Accept
  <2>3. o \in Conns /\ p \in Conns
    BY DEF ObjectsTypeOK
  <2>4. rd' \in [Conns -> Conns] /\ wr' \in [Conns -> Conns]
    BY <2>1, <2>2, <2>3 DEF ResetReader, ResetWriter
  <2>5. id' \in [Conns -> Nat]
    BY <1>1 DEF Accept, ServerTypeOK
  <2> QED
    BY <1>1, <2>4, <2>5 DEF Accept
<1>2. CASE RegisterAdd(c)
  BY <1>2 DEF RegisterAdd
<1>3. CASE RegisterInc(c)
  BY <1>3 DEF RegisterInc
<1>4. CASE LoopTop(c)
  BY <1>4 DEF LoopTop
<1>5. CASE Fill(c)
  BY <1>5 DEF Fill
<1>6. CASE PeekFault(c)
  BY <1>6 DEF PeekFault
<1>7. CASE PeekFail(c)
  BY <1>7 DEF PeekFail, ReadFails
<1>8. CASE Lookup(c)
  <2>1. cmds[Lower[Current(c).name]] \in Kinds \cup {"none"}
    BY <1>8, CurrentType, LowerInNames DEF Lookup, Requests, ServerTypeOK
  <2> QED
    BY <1>8, <2>1 DEF Lookup
<1>9. CASE Skip(c)
  BY <1>9 DEF Skip, NextInPipeline
<1>10. CASE CommandCmd(c)
  BY <1>10 DEF CommandCmd
<1>11. CASE CommandInc(c)
  BY <1>11 DEF CommandInc
<1>12. CASE ReadExec(c)
  BY <1>12 DEF ReadExec, Execute
<1>13. CASE ReadFault(c)
  BY <1>13 DEF ReadFault
<1>14. CASE ReadFail(c)
  BY <1>14 DEF ReadFail, ReadFails
<1>15. CASE StreamExec(c)
  BY <1>15 DEF StreamExec, Execute
<1>16. CASE FlushCheck(c)
  BY <1>16 DEF FlushCheck, AfterHandler, NextInPipeline
<1>17. CASE Discard(c)
  BY <1>17 DEF Discard, NextInPipeline
<1>18. CASE AppendFatal(c)
  BY <1>18 DEF AppendFatal
<1>19. CASE Flush(c)
  BY <1>19 DEF Flush
<1>20. CASE LastFlush(c)
  BY <1>20 DEF LastFlush
<1>21. CASE Deregister(c)
  BY <1>21 DEF Deregister
<1>22. CASE Release(c)
  BY <1>22 DEF Release
<1>23. CASE SendBody(c)
  BY <1>23 DEF SendBody
<1>24. CASE Expire(c)
  BY <1>24 DEF Expire
<1>25. ASSUME NEW s \in Spellings, NEW f \in Faults, SendHead(c, s, f)
      PROVE  ClientTypeOK'
  BY <1>25 DEF SendHead
<1>26. ASSUME NEW how \in {"half", "gone"}, ClientCloses(c, how)
      PROVE  ClientTypeOK'
  BY <1>26 DEF ClientCloses
<1>27. CASE SendPart(c)
  BY <1>27 DEF SendPart
<1> QED
  BY <1>1, <1>2, <1>3, <1>4, <1>5, <1>6, <1>7, <1>8, <1>9, <1>10, <1>11,
     <1>12, <1>13, <1>14, <1>15, <1>16, <1>17, <1>18, <1>19, <1>20, <1>21,
     <1>22, <1>23, <1>24, <1>25, <1>26, <1>27 DEF Serve, Client

LEMMA ObjectsType ==
    ASSUME TypeOK, HeadHeld, NEW c \in Conns,
           Accept(c) \/ Serve(c) \/ Client(c) \/ Expire(c)
    PROVE  ObjectsTypeOK'
<1> USE DEF TypeOK, ObjectsTypeOK, objects
<1>1. CASE Accept(c)
  <2>1. PICK o \in readerPool \cup {c} : ResetReader(c, o)
    BY <1>1 DEF Accept
  <2>2. PICK p \in writerPool \cup {c} : ResetWriter(c, p)
    BY <1>1 DEF Accept
  <2> QED
    BY <2>1, <2>2 DEF ResetReader, ResetWriter
<1>2. CASE RegisterAdd(c)
  BY <1>2 DEF RegisterAdd
<1>3. CASE RegisterInc(c)
  BY <1>3 DEF RegisterInc
<1>4. CASE LoopTop(c)
  BY <1>4 DEF LoopTop
<1>5. CASE Fill(c)
  BY <1>5, FillType DEF Fill
<1>6. CASE PeekFault(c)
  <2>1. rbuf' \in [Conns -> Seq(Pieces)]
    BY <1>6, CurrentType, ConsumeType DEF PeekFault, Input
  <2>2. wbuf' \in [Conns -> Seq(Replies)]
    BY <1>6, CurrentType, ReplyType, AppendReplyType DEF PeekFault
  <2> QED
    BY <1>6, <2>1, <2>2 DEF PeekFault
<1>7. CASE PeekFail(c)
  BY <1>7 DEF PeekFail, ReadFails
<1>8. CASE Lookup(c)
  <2>1. wbuf' \in [Conns -> Seq(Replies)]
    BY <1>8, ReplyType, AppendReplyType DEF Lookup
  <2> QED
    BY <1>8, <2>1 DEF Lookup
<1>9. CASE Skip(c)
  <2>1. (IF HasBody(c) THEN Tail(Tail(Input(c))) ELSE <<>>) \in Seq(Pieces)
    <3>1. <<>> \in Seq(Pieces)
      OBVIOUS
    <3> QED
      BY <3>1, BodyType
  <2>2. rbuf' \in [Conns -> Seq(Pieces)]
    BY <1>9, <2>1, ConsumeType DEF Skip
  <2> QED
    BY <1>9, <2>2 DEF Skip
<1>10. CASE CommandCmd(c)
  BY <1>10 DEF CommandCmd
<1>11. CASE CommandInc(c)
  BY <1>11 DEF CommandInc
<1>12. CASE ReadExec(c)
  <2>1. rbuf' \in [Conns -> Seq(Pieces)]
    BY <1>12, BodyType, ConsumeType DEF ReadExec, Execute, Input
  <2>2. wbuf' \in [Conns -> Seq(Replies)]
    BY <1>12, BodyType, ReplyType, AppendReplyType DEF ReadExec, Execute
  <2> QED
    BY <1>12, <2>1, <2>2 DEF ReadExec, Execute
<1>13. CASE ReadFault(c)
  <2>1. rbuf' \in [Conns -> Seq(Pieces)]
    BY <1>13, BodyType, ConsumeType DEF ReadFault, Input
  <2>2. wbuf' \in [Conns -> Seq(Replies)]
    BY <1>13, BodyType, ReplyType, AppendReplyType DEF ReadFault
  <2> QED
    BY <1>13, <2>1, <2>2 DEF ReadFault
<1>14. CASE ReadFail(c)
  BY <1>14 DEF ReadFail, ReadFails
<1>15. CASE StreamExec(c)
  <2>1. wbuf' \in [Conns -> Seq(Replies)]
    BY <1>15, ReplyType, AppendReplyType DEF StreamExec, Execute, HeadHeld
  <2> QED
    BY <1>15, <2>1 DEF StreamExec
<1>16. CASE FlushCheck(c)
  <2>1. wbuf' \in [Conns -> Seq(Replies)]
    BY <1>16, FlushSucceedsType, FlushFailsType DEF FlushCheck, ObjectsTypeOK
  <2> QED
    BY <1>16, <2>1 DEF FlushCheck
<1>17. CASE Discard(c)
  <2>1. (IF HasBody(c) THEN Tail(Tail(Input(c))) ELSE <<>>) \in Seq(Pieces)
    <3>1. <<>> \in Seq(Pieces)
      OBVIOUS
    <3> QED
      BY <3>1, BodyType
  <2>2. rbuf' \in [Conns -> Seq(Pieces)]
    BY <1>17, <2>1, ConsumeType DEF Discard
  <2> QED
    BY <1>17, <2>2 DEF Discard
<1>18. CASE AppendFatal(c)
  <2>1. FatalReply(c) \in Replies
    BY DEF FatalReply, Replies
  <2>2. wbuf' \in [Conns -> Seq(Replies)]
    BY <1>18, <2>1, AppendReplyType DEF AppendFatal
  <2> QED
    BY <1>18, <2>2 DEF AppendFatal
<1>19. CASE Flush(c)
  <2>1. wbuf' \in [Conns -> Seq(Replies)]
    BY <1>19, FlushSucceedsType, FlushFailsType DEF Flush
  <2> QED
    BY <1>19, <2>1 DEF Flush
<1>20. CASE LastFlush(c)
  <2>1. wbuf' \in [Conns -> Seq(Replies)]
    BY <1>20, FlushSucceedsType, FlushFailsType DEF LastFlush
  <2> QED
    BY <1>20, <2>1 DEF LastFlush
<1>21. CASE Deregister(c)
  BY <1>21 DEF Deregister
<1>22. CASE Release(c)
  BY <1>22 DEF Release, ClientTypeOK
<1>23. CASE SendBody(c)
  BY <1>23 DEF SendBody
<1>24. CASE Expire(c)
  BY <1>24 DEF Expire
<1>25. ASSUME NEW s \in Spellings, NEW f \in Faults, SendHead(c, s, f)
      PROVE  ObjectsTypeOK'
  BY <1>25 DEF SendHead
<1>26. ASSUME NEW how \in {"half", "gone"}, ClientCloses(c, how)
      PROVE  ObjectsTypeOK'
  BY <1>26 DEF ClientCloses
<1>27. CASE SendPart(c)
  BY <1>27 DEF SendPart
<1> QED
  BY <1>1, <1>2, <1>3, <1>4, <1>5, <1>6, <1>7, <1>8, <1>9, <1>10, <1>11,
     <1>12, <1>13, <1>14, <1>15, <1>16, <1>17, <1>18, <1>19, <1>20, <1>21,
     <1>22, <1>23, <1>24, <1>25, <1>26, <1>27 DEF Serve, Client

LEMMA NetworkType ==
    ASSUME TypeOK, HeadHeld, NEW c \in Conns,
           Accept(c) \/ Serve(c) \/ Client(c) \/ Expire(c)
    PROVE  NetworkTypeOK'
<1> USE DEF TypeOK, NetworkTypeOK, network
<1>1. CASE Accept(c)
  BY <1>1 DEF Accept, ResetReader, ResetWriter
<1>2. CASE RegisterAdd(c)
  BY <1>2 DEF RegisterAdd
<1>3. CASE RegisterInc(c)
  BY <1>3 DEF RegisterInc
<1>4. CASE LoopTop(c)
  BY <1>4 DEF LoopTop
<1>5. CASE Fill(c)
  BY <1>5, FillType DEF Fill
<1>6. CASE PeekFault(c)
  BY <1>6 DEF PeekFault
<1>7. CASE PeekFail(c)
  BY <1>7 DEF PeekFail, ReadFails
<1>8. CASE Lookup(c)
  BY <1>8 DEF Lookup
<1>9. CASE Skip(c)
  BY <1>9 DEF Skip
<1>10. CASE CommandCmd(c)
  BY <1>10 DEF CommandCmd
<1>11. CASE CommandInc(c)
  BY <1>11 DEF CommandInc
<1>12. CASE ReadExec(c)
  BY <1>12 DEF ReadExec, Execute
<1>13. CASE ReadFault(c)
  BY <1>13 DEF ReadFault
<1>14. CASE ReadFail(c)
  BY <1>14 DEF ReadFail, ReadFails
<1>15. CASE StreamExec(c)
  BY <1>15 DEF StreamExec, Execute
<1>16. CASE FlushCheck(c)
  <2>1. /\ out' \in [Conns -> Seq(Replies)]
        /\ deadline' \in [Conns -> {"none", "armed", "expired"}]
    BY <1>16, FlushSucceedsType, FlushFailsType DEF FlushCheck, NetworkTypeOK
  <2> QED
    BY <1>16, <2>1 DEF FlushCheck
<1>17. CASE Discard(c)
  BY <1>17 DEF Discard
<1>18. CASE AppendFatal(c)
  BY <1>18 DEF AppendFatal
<1>19. CASE Flush(c)
  <2>1. /\ out' \in [Conns -> Seq(Replies)]
        /\ deadline' \in [Conns -> {"none", "armed", "expired"}]
    BY <1>19, FlushSucceedsType, FlushFailsType DEF Flush, NetworkTypeOK
  <2> QED
    BY <1>19, <2>1 DEF Flush
<1>20. CASE LastFlush(c)
  <2>1. /\ out' \in [Conns -> Seq(Replies)]
        /\ deadline' \in [Conns -> {"none", "armed", "expired"}]
    BY <1>20, FlushSucceedsType, FlushFailsType DEF LastFlush, NetworkTypeOK
  <2> QED
    BY <1>20, <2>1 DEF LastFlush
<1>21. CASE Deregister(c)
  BY <1>21 DEF Deregister
<1>22. CASE Release(c)
  BY <1>22 DEF Release
<1>23. CASE SendBody(c)
  <2>1. [part |-> "body", req |-> Head(owed[c])] \in Pieces
    BY <1>23, TailType DEF SendBody, Pieces
  <2> QED
    BY <1>23, <2>1 DEF SendBody
<1>24. CASE Expire(c)
  BY <1>24 DEF Expire
<1>25. ASSUME NEW s \in Spellings, NEW f \in Faults, SendHead(c, s, f)
      PROVE  NetworkTypeOK'
  <2> DEFINE r == [cn |-> c, n |-> sent[c] + 1, name |-> s, fault |-> f]
  <2>1. r \in Requests /\ [part |-> "head", req |-> r] \in Pieces
    BY DEF Requests, Pieces
  <2>2. /\ sent' = [sent EXCEPT ![c] = @ + 1]
        /\ begun' = [begun EXCEPT ![c] = FALSE]
        /\ wire' = [wire EXCEPT ![c] = Append(@, [part |-> "head", req |-> r])]
        /\ owed' = [owed EXCEPT ![c] = IF f = "peek" THEN <<>> ELSE <<r>>]
        /\ UNCHANGED <<out, peer, deadline>>
    BY <1>25 DEF SendHead
  <2> HIDE DEF r
  <2>3. <<>> \in Seq(Requests) /\ <<r>> \in Seq(Requests)
    BY <2>1
  <2>4. owed' \in [Conns -> Seq(Requests)]
    BY <2>2, <2>3
  <2>5. wire' \in [Conns -> Seq(Pieces)]
    BY <2>1, <2>2
  <2> QED
    BY <2>2, <2>4, <2>5
<1>26. ASSUME NEW how \in {"half", "gone"}, ClientCloses(c, how)
      PROVE  NetworkTypeOK'
  <2>1. wire' \in [Conns -> Seq(Pieces)]
    <3>1. CASE UNCHANGED wire
      BY <3>1
    <3>2. CASE wire' = [wire EXCEPT ![c] = <<>>]
      BY <3>2
    <3> QED
      BY <1>26, <3>1, <3>2 DEF ClientCloses
  <2> QED
    BY <1>26, <2>1 DEF ClientCloses
<1>27. CASE SendPart(c)
  BY <1>27 DEF SendPart
<1> QED
  BY <1>1, <1>2, <1>3, <1>4, <1>5, <1>6, <1>7, <1>8, <1>9, <1>10, <1>11,
     <1>12, <1>13, <1>14, <1>15, <1>16, <1>17, <1>18, <1>19, <1>20, <1>21,
     <1>22, <1>23, <1>24, <1>25, <1>26, <1>27 DEF Serve, Client

LEMMA ServerType ==
    ASSUME TypeOK, HeadHeld, NEW c \in Conns,
           Accept(c) \/ Serve(c) \/ Client(c) \/ Expire(c)
    PROVE  ServerTypeOK'
<1> USE DEF TypeOK, ServerTypeOK, info, history
<1>1. CASE Accept(c)
  BY <1>1, SMTT(60) DEF Accept, ResetReader, ResetWriter
<1>2. CASE RegisterAdd(c)
  BY <1>2 DEF RegisterAdd, ClientTypeOK, NoCmd
<1>3. CASE RegisterInc(c)
  BY <1>3 DEF RegisterInc
<1>4. CASE LoopTop(c)
  BY <1>4 DEF LoopTop
<1>5. CASE Fill(c)
  BY <1>5 DEF Fill
<1>6. CASE PeekFault(c)
  BY <1>6 DEF PeekFault
<1>7. CASE PeekFail(c)
  BY <1>7 DEF PeekFail, ReadFails
<1>8. CASE Lookup(c)
  BY <1>8 DEF Lookup
<1>9. CASE Skip(c)
  BY <1>9 DEF Skip
<1>10. CASE CommandCmd(c)
  <2>1. Lower[Current(c).name] \in Names
    BY <1>10, CurrentType, LowerInNames DEF CommandCmd, HeadHeld, Requests
  <2> QED
    BY <1>10, <2>1 DEF CommandCmd
<1>11. CASE CommandInc(c)
  BY <1>11 DEF CommandInc
<1>12. CASE ReadExec(c)
  BY <1>12 DEF ReadExec, Execute
<1>13. CASE ReadFault(c)
  BY <1>13 DEF ReadFault
<1>14. CASE ReadFail(c)
  BY <1>14 DEF ReadFail, ReadFails
<1>15. CASE StreamExec(c)
  BY <1>15 DEF StreamExec, Execute
<1>16. CASE FlushCheck(c)
  BY <1>16 DEF FlushCheck
<1>17. CASE Discard(c)
  BY <1>17 DEF Discard
<1>18. CASE AppendFatal(c)
  BY <1>18 DEF AppendFatal
<1>19. CASE Flush(c)
  BY <1>19 DEF Flush
<1>20. CASE LastFlush(c)
  BY <1>20 DEF LastFlush
<1>21. CASE Deregister(c)
  BY <1>21 DEF Deregister
<1>22. CASE Release(c)
  BY <1>22 DEF Release
<1>23. CASE SendBody(c)
  BY <1>23 DEF SendBody
<1>24. CASE Expire(c)
  BY <1>24 DEF Expire
<1>25. ASSUME NEW s \in Spellings, NEW f \in Faults, SendHead(c, s, f)
      PROVE  ServerTypeOK'
  BY <1>25 DEF SendHead
<1>26. ASSUME NEW how \in {"half", "gone"}, ClientCloses(c, how)
      PROVE  ServerTypeOK'
  BY <1>26 DEF ClientCloses
<1>27. CASE SendPart(c)
  BY <1>27 DEF SendPart
<1> QED
  BY <1>1, <1>2, <1>3, <1>4, <1>5, <1>6, <1>7, <1>8, <1>9, <1>10, <1>11,
     <1>12, <1>13, <1>14, <1>15, <1>16, <1>17, <1>18, <1>19, <1>20, <1>21,
     <1>22, <1>23, <1>24, <1>25, <1>26, <1>27 DEF Serve, Client

LEMMA TypeNext == TypeOK /\ HeadHeld /\ [Next]_vars => TypeOK'
<1> SUFFICES ASSUME TypeOK, HeadHeld, [Next]_vars PROVE TypeOK'
  OBVIOUS
<1>1. ASSUME NEW c \in Conns, Accept(c) \/ Serve(c) \/ Client(c) \/ Expire(c)
      PROVE  TypeOK'
  BY <1>1, ClientType, ObjectsType, NetworkType, ServerType DEF TypeOK
<1> USE DEF TypeOK, ClientTypeOK, ObjectsTypeOK, NetworkTypeOK, ServerTypeOK,
        client, objects, network, info, history
<1>2. CASE AcceptError
  BY <1>2 DEF AcceptError
<1>3. ASSUME NEW r \in Registrations, Handle(r[1], r[2])
      PROVE  TypeOK'
  BY <1>3, RegistrationsAssumption, LowerInNames DEF Handle, Kinds
<1>4. CASE UNCHANGED vars
  BY <1>4 DEF vars
<1> QED
  BY <1>1, <1>2, <1>3, <1>4 DEF Next

(***************************************************************************)
(* What a step leaves alone.  Only Accept and Release move readers and     *)
(* writers between connections and pools, and only Accept, RegisterAdd,    *)
(* RegisterInc and Deregister change which connections ServerInfo knows.   *)
(***************************************************************************)
OwnersKept ==
    /\ UNCHANGED <<rd, wr, src, dst, readerPool, writerPool>>
    /\ \A d \in Conns : /\ Live(d)' <=> Live(d)
                        /\ pc'[d] = "idle" <=> pc[d] = "idle"

InfoKept ==
    /\ UNCHANGED <<id, clientInc, connections>>
    /\ DOMAIN stats' = DOMAIN stats
    /\ \A d \in Conns : /\ Registered(d)' <=> Registered(d)
                        /\ Counted(d)' <=> Counted(d)
                        /\ pc'[d] = "idle" <=> pc[d] = "idle"

InfoSteps(c) == RegisterAdd(c) \/ RegisterInc(c) \/ Deregister(c)

LEMMA OwnersFrame ==
    ASSUME TypeOK, NEW c \in Conns, 
           Serve(c) \/ Client(c) \/ Expire(c), ~Release(c)
    PROVE  OwnersKept
<1> USE DEF TypeOK, ClientTypeOK, OwnersKept, Live, Goto, client, objects
<1>1. CASE RegisterAdd(c)
  BY <1>1 DEF RegisterAdd
<1>2. CASE RegisterInc(c)
  BY <1>2 DEF RegisterInc
<1>3. CASE LoopTop(c)
  BY <1>3 DEF LoopTop
<1>4. CASE Fill(c)
  BY <1>4 DEF Fill
<1>5. CASE PeekFault(c)
  BY <1>5 DEF PeekFault
<1>6. CASE PeekFail(c)
  BY <1>6 DEF PeekFail, ReadFails
<1>7. CASE Lookup(c)
  BY <1>7 DEF Lookup
<1>8. CASE Skip(c)
  BY <1>8 DEF Skip, NextInPipeline
<1>9. CASE CommandCmd(c)
  BY <1>9 DEF CommandCmd
<1>10. CASE CommandInc(c)
  BY <1>10 DEF CommandInc
<1>11. CASE ReadExec(c)
  BY <1>11 DEF ReadExec, Execute
<1>12. CASE ReadFault(c)
  BY <1>12 DEF ReadFault
<1>13. CASE ReadFail(c)
  BY <1>13 DEF ReadFail, ReadFails
<1>14. CASE StreamExec(c)
  BY <1>14 DEF StreamExec, Execute
<1>15. CASE FlushCheck(c)
  BY <1>15 DEF FlushCheck, AfterHandler, NextInPipeline
<1>16. CASE Discard(c)
  BY <1>16 DEF Discard, NextInPipeline
<1>17. CASE AppendFatal(c)
  BY <1>17 DEF AppendFatal
<1>18. CASE Flush(c)
  BY <1>18 DEF Flush
<1>19. CASE LastFlush(c)
  BY <1>19 DEF LastFlush
<1>20. CASE Deregister(c)
  BY <1>20 DEF Deregister
<1>21. CASE Client(c)
  BY <1>21 DEF Client, SendPart, SendHead, SendBody, ClientCloses
<1>22. CASE Expire(c)
  BY <1>22 DEF Expire
<1> QED
  BY <1>1, <1>2, <1>3, <1>4, <1>5, <1>6, <1>7, <1>8, <1>9, <1>10, <1>11,
     <1>12, <1>13, <1>14, <1>15, <1>16, <1>17, <1>18, <1>19, <1>20, <1>21,
     <1>22 DEF Serve

LEMMA InfoFrame ==
    ASSUME TypeOK, NEW c \in Conns, 
           Serve(c) \/ Client(c) \/ Expire(c), ~InfoSteps(c)
    PROVE  InfoKept
<1> USE DEF TypeOK, ClientTypeOK, InfoKept, Live, Registered, Counted, Goto,
        client, info
<1>1. CASE LoopTop(c)
  BY <1>1 DEF LoopTop
<1>2. CASE Fill(c)
  BY <1>2 DEF Fill
<1>3. CASE PeekFault(c)
  BY <1>3 DEF PeekFault
<1>4. CASE PeekFail(c)
  BY <1>4 DEF PeekFail, ReadFails
<1>5. CASE Lookup(c)
  BY <1>5 DEF Lookup
<1>6. CASE Skip(c)
  BY <1>6 DEF Skip, NextInPipeline
<1>7. CASE CommandCmd(c)
  BY <1>7 DEF CommandCmd
<1>8. CASE CommandInc(c)
  BY <1>8 DEF CommandInc
<1>9. CASE ReadExec(c)
  BY <1>9 DEF ReadExec, Execute
<1>10. CASE ReadFault(c)
  BY <1>10 DEF ReadFault
<1>11. CASE ReadFail(c)
  BY <1>11 DEF ReadFail, ReadFails
<1>12. CASE StreamExec(c)
  BY <1>12 DEF StreamExec, Execute
<1>13. CASE FlushCheck(c)
  BY <1>13 DEF FlushCheck, AfterHandler, NextInPipeline
<1>14. CASE Discard(c)
  BY <1>14 DEF Discard, NextInPipeline
<1>15. CASE AppendFatal(c)
  BY <1>15 DEF AppendFatal
<1>16. CASE Flush(c)
  BY <1>16 DEF Flush
<1>17. CASE LastFlush(c)
  BY <1>17 DEF LastFlush
<1>18. CASE Release(c)
  BY <1>18 DEF Release
<1>19. CASE Client(c)
  BY <1>19 DEF Client, SendPart, SendHead, SendBody, ClientCloses
<1>20. CASE Expire(c)
  BY <1>20 DEF Expire
<1> QED
  BY <1>1, <1>2, <1>3, <1>4, <1>5, <1>6, <1>7, <1>8, <1>9, <1>10, <1>11,
     <1>12, <1>13, <1>14, <1>15, <1>16, <1>17, <1>18, <1>19, <1>20 DEF Serve, InfoSteps

(***************************************************************************)
(* Readers and writers have one owner.  PoolExclusive alone is not         *)
(* inductive: the object that Accept allocates must be new, so nothing     *)
(* named after a connection that was never accepted is in use or pooled.   *)
(***************************************************************************)
PoolInv ==
    /\ PoolExclusive
    /\ \A c \in Conns : pc[c] = "idle" =>
          /\ c \notin readerPool /\ c \notin writerPool
          /\ \A d \in Conns : Live(d) => rd[d] # c /\ wr[d] # c

OwnersTypeOK ==
    /\ pc \in [Conns -> Labels]
    /\ rd \in [Conns -> Conns] /\ wr \in [Conns -> Conns]
    /\ src \in [Conns -> Conns] /\ dst \in [Conns -> Conns]
    /\ readerPool \subseteq Conns /\ writerPool \subseteq Conns

LEMMA OwnersType == TypeOK => OwnersTypeOK
  BY DEF OwnersTypeOK, TypeOK, ClientTypeOK, ObjectsTypeOK

LEMMA PoolAccept ==
    ASSUME TypeOK, PoolInv, NEW c \in Conns, Accept(c)
    PROVE  PoolInv'
<1>t. OwnersTypeOK
  BY OwnersType
<1>1. PICK o \in readerPool \cup {c} : ResetReader(c, o)
  BY DEF Accept
<1>2. PICK p \in writerPool \cup {c} : ResetWriter(c, p)
  BY DEF Accept
<1>3. /\ rd' = [rd EXCEPT ![c] = o] /\ readerPool' = readerPool \ {o}
      /\ src' = [src EXCEPT ![o] = c]
      /\ wr' = [wr EXCEPT ![c] = p] /\ writerPool' = writerPool \ {p}
      /\ dst' = [dst EXCEPT ![p] = c]
  BY <1>1, <1>2 DEF ResetReader, ResetWriter
<1>4. pc[c] = "idle" /\ pc' = [pc EXCEPT ![c] = "add"]
  BY DEF Accept, Goto
<1>5. \A d \in Conns : Live(d)' <=> Live(d) \/ d = c
  BY <1>t, <1>4 DEF Live, OwnersTypeOK
<1>6. ASSUME NEW d \in Conns, Live(d)
      PROVE  rd[d] # o /\ wr[d] # p /\ d # c
  <2>1. d # c
    BY <1>4, <1>6 DEF Live
  <2>2. rd[d] # c /\ wr[d] # c
    BY <1>4, <1>6 DEF PoolInv
  <2>3. rd[d] \notin readerPool /\ wr[d] \notin writerPool
    BY <1>6 DEF PoolInv, PoolExclusive
  <2> QED
    BY <2>1, <2>2, <2>3
<1>o. o \in Conns /\ p \in Conns
  BY <1>t DEF OwnersTypeOK
<1>7. PoolExclusive'
  <2> SUFFICES ASSUME NEW d \in Conns, Live(d)'
      PROVE  /\ rd'[d] \notin readerPool' /\ src'[rd'[d]] = d
             /\ wr'[d] \notin writerPool' /\ dst'[wr'[d]] = d
             /\ \A e \in Conns : Live(e)' /\ e # d =>
                   rd'[e] # rd'[d] /\ wr'[e] # wr'[d]
    BY DEF PoolExclusive
  <2>1. CASE d = c
    BY <2>1, <1>t, <1>o, <1>3, <1>5, <1>6 DEF OwnersTypeOK
  <2>2. CASE d # c
    <3>1. Live(d)
      BY <2>2, <1>5
    <3>2. rd'[d] = rd[d] /\ wr'[d] = wr[d]
      BY <2>2, <1>t, <1>3 DEF OwnersTypeOK
    <3>3. /\ rd[d] \notin readerPool /\ src[rd[d]] = d
          /\ wr[d] \notin writerPool /\ dst[wr[d]] = d
      BY <3>1 DEF PoolInv, PoolExclusive
    <3>4. /\ rd'[d] \notin readerPool' /\ src'[rd'[d]] = d
          /\ wr'[d] \notin writerPool' /\ dst'[wr'[d]] = d
      BY <3>1, <3>2, <3>3, <1>t, <1>3, <1>6 DEF OwnersTypeOK
    <3>5. ASSUME NEW e \in Conns, Live(e)', e # d
          PROVE  rd'[e] # rd'[d] /\ wr'[e] # wr'[d]
      <4>1. CASE e = c
        BY <4>1, <3>1, <3>2, <1>t, <1>3, <1>6 DEF OwnersTypeOK
      <4>2. CASE e # c
        <5>1. Live(e)
          BY <4>2, <3>5, <1>5
        <5>2. rd[e] # rd[d] /\ wr[e] # wr[d]
          BY <5>1, <3>1, <3>5 DEF PoolInv, PoolExclusive
        <5> QED
          BY <5>2, <4>2, <3>2, <1>t, <1>3 DEF OwnersTypeOK
      <4> QED
        BY <4>1, <4>2
    <3> QED
      BY <3>4, <3>5
  <2> QED
    BY <2>1, <2>2
<1>8. ASSUME NEW d \in Conns, pc'[d] = "idle"
      PROVE  /\ d \notin readerPool' /\ d \notin writerPool'
             /\ \A e \in Conns : Live(e)' => rd'[e] # d /\ wr'[e] # d
  <2>1. d # c /\ pc[d] = "idle"
    BY <1>t, <1>4, <1>8 DEF OwnersTypeOK
  <2>2. /\ d \notin readerPool /\ d \notin writerPool
        /\ \A e \in Conns : Live(e) => rd[e] # d /\ wr[e] # d
    BY <2>1 DEF PoolInv
  <2> QED
    BY <2>1, <2>2, <1>t, <1>3, <1>5 DEF OwnersTypeOK
<1> QED
  BY <1>7, <1>8 DEF PoolInv

LEMMA PoolRelease ==
    ASSUME TypeOK, PoolInv, NEW c \in Conns, Release(c)
    PROVE  PoolInv'
<1>t. OwnersTypeOK
  BY OwnersType
<1>1. /\ readerPool' = readerPool \cup {rd[c]}
      /\ writerPool' = writerPool \cup {wr[c]}
      /\ rd' = rd /\ wr' = wr /\ src' = src /\ dst' = dst
      /\ pc[c] = "release" /\ pc' = [pc EXCEPT ![c] = "done"]
  BY DEF Release, Goto, client
<1>2. /\ Live(c)
      /\ \A d \in Conns : Live(d)' <=> Live(d) /\ d # c
      /\ \A d \in Conns : pc'[d] = "idle" <=> pc[d] = "idle"
  BY <1>t, <1>1 DEF Live, OwnersTypeOK
<1>3. PoolExclusive'
  <2> SUFFICES ASSUME NEW d \in Conns, Live(d)'
      PROVE  /\ rd'[d] \notin readerPool' /\ src'[rd'[d]] = d
             /\ wr'[d] \notin writerPool' /\ dst'[wr'[d]] = d
             /\ \A e \in Conns : Live(e)' /\ e # d =>
                   rd'[e] # rd'[d] /\ wr'[e] # wr'[d]
    BY DEF PoolExclusive
  <2>1. Live(d) /\ d # c
    BY <1>2
  <2>2. /\ rd[d] \notin readerPool /\ src[rd[d]] = d
        /\ wr[d] \notin writerPool /\ dst[wr[d]] = d
        /\ \A e \in Conns : Live(e) /\ e # d =>
              rd[e] # rd[d] /\ wr[e] # wr[d]
    BY <2>1 DEF PoolInv, PoolExclusive
  <2>3. rd[c] # rd[d] /\ wr[c] # wr[d]
    BY <1>2, <2>1, <2>2
  <2> QED
    BY <1>1, <1>2, <2>2, <2>3
<1>4. ASSUME NEW d \in Conns, pc'[d] = "idle"
      PROVE  /\ d \notin readerPool' /\ d \notin writerPool'
             /\ \A e \in Conns : Live(e)' => rd'[e] # d /\ wr'[e] # d
  <2>1. /\ d \notin readerPool /\ d \notin writerPool
        /\ \A e \in Conns : Live(e) => rd[e] # d /\ wr[e] # d
    BY <1>2, <1>4 DEF PoolInv
  <2> QED
    BY <1>1, <1>2, <2>1
<1> QED
  BY <1>3, <1>4 DEF PoolInv

LEMMA PoolNext == TypeOK /\ PoolInv /\ [Next]_vars => PoolInv'
<1> SUFFICES ASSUME TypeOK, PoolInv, [Next]_vars PROVE PoolInv'
  OBVIOUS
<1>1. ASSUME OwnersKept PROVE PoolInv'
  BY <1>1 DEF OwnersKept, PoolInv, PoolExclusive
<1>2. ASSUME NEW c \in Conns, Accept(c) \/ Serve(c) \/ Client(c) \/ Expire(c)
      PROVE  PoolInv'
  BY <1>1, <1>2, PoolAccept, PoolRelease, OwnersFrame
<1> USE DEF OwnersKept, Live, client, objects
<1>3. CASE AcceptError
  BY <1>1, <1>3 DEF AcceptError
<1>4. ASSUME NEW r \in Registrations, Handle(r[1], r[2])
      PROVE  PoolInv'
  BY <1>1, <1>4 DEF Handle
<1>5. CASE UNCHANGED vars
  BY <1>1, <1>5 DEF vars
<1> QED
  BY <1>2, <1>3, <1>4, <1>5 DEF Next

(***************************************************************************)
(* HeadHeld needs exclusive readers: nobody else consumes c's input.       *)
(***************************************************************************)
Waiting == {"cmd", "cmdinc", "stream"}

InputKept(c) ==
    /\ rd' = rd
    /\ \A o \in Conns : rbuf'[o] = rbuf[o] \/ (o = rd[c] /\ Live(c))
    /\ \A d \in Conns : d # c => pc'[d] = pc[d]
    /\ pc'[c] \in Waiting => rbuf'[rd[c]] # <<>>

LEMMA ConcatNonEmpty ==
    ASSUME NEW S, NEW s \in Seq(S), NEW t \in Seq(S), s # <<>>
    PROVE  s \o t # <<>>
<1>1. Len(s) \in Nat /\ Len(t) \in Nat /\ Len(s) >= 1
  OBVIOUS
<1>2. s \o t \in Seq(S) /\ Len(s \o t) = Len(s) + Len(t)
  OBVIOUS
<1> DEFINE u == s \o t
<1>3. u \in Seq(S) /\ Len(u) >= 1
  BY <1>1, <1>2
<1> HIDE DEF u
<1>4. u # <<>>
  BY <1>3
<1> QED
  BY <1>4 DEF u

LEMMA InputFrame ==
    ASSUME TypeOK, HeadHeld, NEW c \in Conns,
           Serve(c) \/ Client(c) \/ Expire(c)
    PROVE  InputKept(c)
<1> USE DEF TypeOK, ClientTypeOK, ObjectsTypeOK, InputKept, HeadHeld, HasHead,
        Input, Waiting, Live, Goto, client, objects
<1>1. CASE RegisterAdd(c)
  BY <1>1 DEF RegisterAdd
<1>2. CASE RegisterInc(c)
  BY <1>2 DEF RegisterInc
<1>3. CASE LoopTop(c)
  BY <1>3 DEF LoopTop
<1>4. CASE Fill(c)
  <2> DEFINE cn == src[rd[c]]
  <2>1. PICK k \in 0 .. Len(wire[cn]) :
           rbuf' = [rbuf EXCEPT ![rd[c]] = @ \o SubSeq(wire[cn], 1, k)]
    BY <1>4 DEF Fill
  <2>2. /\ UNCHANGED <<pc, rd>> /\ Live(c)
    BY <1>4 DEF Fill
  <2>3. wire[cn] \in Seq(Pieces) /\ rbuf[rd[c]] \in Seq(Pieces)
    BY DEF NetworkTypeOK
  <2>4. SubSeq(wire[cn], 1, k) \in Seq(Pieces)
    <3> HIDE DEF cn
    <3> QED
      BY <2>1, <2>3, SubSeqType
  <2>5. rbuf[rd[c]] # <<>> => rbuf[rd[c]] \o SubSeq(wire[cn], 1, k) # <<>>
    BY <2>3, <2>4, ConcatNonEmpty
  <2> QED
    BY <2>1, <2>2, <2>5
<1>5. CASE PeekFault(c)
  BY <1>5 DEF PeekFault
<1>6. CASE PeekFail(c)
  BY <1>6 DEF PeekFail, ReadFails
<1>7. CASE Lookup(c)
  BY <1>7 DEF Lookup
<1>8. CASE Skip(c)
  BY <1>8 DEF Skip, NextInPipeline
<1>9. CASE CommandCmd(c)
  BY <1>9 DEF CommandCmd
<1>10. CASE CommandInc(c)
  BY <1>10 DEF CommandInc
<1>11. CASE ReadExec(c)
  BY <1>11 DEF ReadExec, Execute
<1>12. CASE ReadFault(c)
  BY <1>12 DEF ReadFault
<1>13. CASE ReadFail(c)
  BY <1>13 DEF ReadFail, ReadFails
<1>14. CASE StreamExec(c)
  BY <1>14 DEF StreamExec, Execute
<1>15. CASE FlushCheck(c)
  BY <1>15 DEF FlushCheck, AfterHandler, NextInPipeline
<1>16. CASE Discard(c)
  BY <1>16 DEF Discard, NextInPipeline
<1>17. CASE AppendFatal(c)
  BY <1>17 DEF AppendFatal
<1>18. CASE Flush(c)
  BY <1>18 DEF Flush
<1>19. CASE LastFlush(c)
  BY <1>19 DEF LastFlush
<1>20. CASE Deregister(c)
  BY <1>20 DEF Deregister
<1>21. CASE Release(c)
  BY <1>21 DEF Release
<1>22. CASE Client(c)
  BY <1>22 DEF Client, SendPart, SendHead, SendBody, ClientCloses
<1>23. CASE Expire(c)
  BY <1>23 DEF Expire
<1> QED
  BY <1>1, <1>2, <1>3, <1>4, <1>5, <1>6, <1>7, <1>8, <1>9, <1>10, <1>11,
     <1>12, <1>13, <1>14, <1>15, <1>16, <1>17, <1>18, <1>19, <1>20, <1>21,
     <1>22, <1>23 DEF Serve

LEMMA HeadServe ==
    ASSUME TypeOK, PoolInv, HeadHeld, NEW c \in Conns,
           Serve(c) \/ Client(c) \/ Expire(c)
    PROVE  HeadHeld'
<1> USE DEF TypeOK, ClientTypeOK, ObjectsTypeOK
<1>1. InputKept(c)
  BY InputFrame
<1> SUFFICES ASSUME NEW d \in Conns, pc'[d] \in Waiting
             PROVE  rbuf'[rd'[d]] # <<>>
  BY DEF HeadHeld, HasHead, Input, Waiting
<1>2. CASE d = c
  BY <1>1, <1>2 DEF InputKept
<1>3. CASE d # c
  <2>1. /\ pc[d] \in Waiting /\ rbuf[rd[d]] # <<>>
        /\ Live(d)
    BY <1>1, <1>3 DEF InputKept, HeadHeld, HasHead, Input, Waiting, Live
  <2>2. Live(c) => rd[d] # rd[c]
    BY <1>3, <2>1 DEF PoolInv, PoolExclusive
  <2> QED
    BY <1>1, <2>1, <2>2 DEF InputKept
<1> QED
  BY <1>2, <1>3

LEMMA HeadAccept ==
    ASSUME TypeOK, PoolInv, HeadHeld, NEW c \in Conns, Accept(c)
    PROVE  HeadHeld'
<1> USE DEF TypeOK, ClientTypeOK, ObjectsTypeOK
<1>1. PICK o \in readerPool \cup {c} : ResetReader(c, o)
  BY DEF Accept
<1>2. /\ rd' = [rd EXCEPT ![c] = o] /\ rbuf' = [rbuf EXCEPT ![o] = <<>>]
      /\ pc[c] = "idle" /\ pc' = [pc EXCEPT ![c] = "add"]
  BY <1>1 DEF Accept, ResetReader, Goto
<1>3. \A d \in Conns : Live(d) => rd[d] # o /\ d # c
  BY <1>2, SMTT(60) DEF PoolInv, PoolExclusive, Live
<1> SUFFICES ASSUME NEW d \in Conns, pc'[d] \in Waiting
             PROVE  rbuf'[rd'[d]] # <<>>
  BY DEF HeadHeld, HasHead, Input, Waiting
<1>4. pc[d] \in Waiting /\ Live(d)
  BY <1>2 DEF Waiting, Live
<1> QED
  BY <1>2, <1>3, <1>4 DEF HeadHeld, HasHead, Input, Waiting

LEMMA HeadNext == TypeOK /\ PoolInv /\ HeadHeld /\ [Next]_vars => HeadHeld'
<1> SUFFICES ASSUME TypeOK, PoolInv, HeadHeld, [Next]_vars PROVE HeadHeld'
  OBVIOUS
<1>1. ASSUME NEW c \in Conns, Accept(c) \/ Serve(c) \/ Client(c) \/ Expire(c)
      PROVE  HeadHeld'
  BY <1>1, HeadServe, HeadAccept
<1> USE DEF HeadHeld, HasHead, Input, client, objects
<1>2. CASE AcceptError
  BY <1>2 DEF AcceptError
<1>3. ASSUME NEW r \in Registrations, Handle(r[1], r[2])
      PROVE  HeadHeld'
  BY <1>3 DEF Handle
<1>4. CASE UNCHANGED vars
  BY <1>4 DEF vars
<1> QED
  BY <1>1, <1>2, <1>3, <1>4 DEF Next

(***************************************************************************)
(* ServerInfo.  The ids in use are exactly 1 .. clientInc, so a new one is *)
(* fresh and the table never holds more entries than ids were handed out.  *)
(***************************************************************************)
InfoInv ==
    /\ InfoTracksConnections
    /\ \A c \in Conns : pc[c] # "idle" => id[c] \in 1 .. clientInc

\* The table is bounded by the ids handed out.
LEMMA StatsBound ==
    ASSUME NEW S, NEW n \in Nat, S \subseteq 1 .. n
    PROVE  IsFiniteSet(S) /\ Cardinality(S) <= n
<1>1. IsFiniteSet(1 .. n) /\ Cardinality(1 .. n) = n
  BY FS_Interval
<1> QED
  BY <1>1, FS_Subset

LEMMA InfoAccept ==
    ASSUME TypeOK, InfoInv, NEW c \in Conns, Accept(c)
    PROVE  InfoInv'
<1> USE DEF TypeOK, ClientTypeOK, ServerTypeOK
<1>1. /\ clientInc' = clientInc + 1 /\ id' = [id EXCEPT ![c] = clientInc + 1]
      /\ UNCHANGED <<stats, connections>>
      /\ pc[c] = "idle" /\ pc' = [pc EXCEPT ![c] = "add"]
  BY DEF Accept, Goto
<1>2. /\ Registrants' = Registrants /\ Arrivals' = Arrivals
      /\ \A d \in Registrants : d \in Conns /\ d # c /\ pc[d] # "idle"
  BY <1>1 DEF Registrants, Registered, Arrivals, Counted, Live
<1>3. \A d \in Registrants : id'[d] = id[d]
  BY <1>1, <1>2
<1>4. DOMAIN stats' = {id'[d] : d \in Registrants'}
  BY <1>1, <1>2, <1>3 DEF InfoInv, InfoTracksConnections, NumClients
<1>5. connections' = Cardinality(Arrivals')
  BY <1>1, <1>2 DEF InfoInv, InfoTracksConnections, NumClients
<1>6. \A d \in Conns : pc'[d] # "idle" =>
          /\ id'[d] \in 1 .. clientInc'
          /\ id'[d] = id'[c] => d = c
  BY <1>1 DEF InfoInv
<1>7. \A d, e \in Conns : pc'[d] # "idle" /\ pc'[e] # "idle" /\ id'[d] = id'[e]
          => d = e
  BY <1>1, <1>6 DEF InfoInv, InfoTracksConnections, NumClients
<1>8. DOMAIN stats' \subseteq 1 .. clientInc' /\ clientInc' \in Nat
  BY <1>1, <1>2, <1>3, <1>4 DEF InfoInv
<1>9. Cardinality(DOMAIN stats') <= clientInc'
  BY <1>8, StatsBound
<1> QED
  BY <1>4, <1>5, <1>6, <1>7, <1>9 DEF InfoInv, InfoTracksConnections, NumClients

LEMMA InfoKeptSuffices ==
    ASSUME TypeOK, InfoInv, InfoKept
    PROVE  InfoInv'
<1>1. Registrants' = Registrants /\ Arrivals' = Arrivals
  BY DEF InfoKept, Registrants, Arrivals
<1> QED
  BY <1>1 DEF InfoKept, InfoInv, InfoTracksConnections, NumClients

LEMMA InfoRegisterAdd ==
    ASSUME TypeOK, InfoInv, NEW c \in Conns, RegisterAdd(c)
    PROVE  InfoInv'
<1> USE DEF TypeOK, ClientTypeOK, ServerTypeOK
<1>1. /\ DOMAIN stats' = DOMAIN stats \cup {id[c]}
      /\ UNCHANGED <<id, clientInc, connections>>
      /\ pc[c] = "add" /\ pc' = [pc EXCEPT ![c] = "inc"]
  BY DEF RegisterAdd, Goto, client
<1>2. /\ Registrants' = Registrants \cup {c} /\ Arrivals' = Arrivals
      /\ \A d \in Conns : pc'[d] = "idle" <=> pc[d] = "idle"
  BY <1>1 DEF Registrants, Registered, Arrivals, Counted, Live
<1>3. DOMAIN stats' = {id'[d] : d \in Registrants'}
  BY <1>1, <1>2 DEF InfoInv, InfoTracksConnections, NumClients
<1>4. DOMAIN stats' \subseteq 1 .. clientInc
  <2>1. \A d \in Registrants' : d \in Conns /\ pc[d] # "idle"
    BY <1>1, <1>2 DEF Registrants, Registered, Live
  <2>2. \A d \in Registrants' : id[d] \in 1 .. clientInc
    BY <2>1 DEF InfoInv
  <2>3. DOMAIN stats' = {id[d] : d \in Registrants'}
    BY <1>1, <1>3
  <2> QED
    BY <2>2, <2>3
<1>5. Cardinality(DOMAIN stats') <= clientInc'
  BY <1>1, <1>4, StatsBound
<1> QED
  BY <1>1, <1>2, <1>3, <1>5 DEF InfoInv, InfoTracksConnections, NumClients

LEMMA InfoRegisterInc ==
    ASSUME TypeOK, InfoInv, NEW c \in Conns, RegisterInc(c)
    PROVE  InfoInv'
<1> USE DEF TypeOK, ClientTypeOK, ServerTypeOK
<1>1. /\ connections' = connections + 1
      /\ UNCHANGED <<id, clientInc, stats>>
      /\ pc[c] = "inc" /\ pc' = [pc EXCEPT ![c] = "loop"]
  BY DEF RegisterInc, Goto, client
<1>2. /\ Registrants' = Registrants
      /\ Arrivals' = Arrivals \cup {c} /\ c \notin Arrivals
      /\ \A d \in Conns : pc'[d] = "idle" <=> pc[d] = "idle"
  BY <1>1 DEF Registrants, Registered, Arrivals, Counted, Live
<1>3. IsFiniteSet(Arrivals)
  BY BoundsAssumption, FS_Subset DEF Arrivals
<1>4. Cardinality(Arrivals') = Cardinality(Arrivals) + 1
  BY <1>2, <1>3, FS_AddElement
<1> QED
  BY <1>1, <1>2, <1>4 DEF InfoInv, InfoTracksConnections, NumClients

LEMMA InfoDeregister ==
    ASSUME TypeOK, InfoInv, NEW c \in Conns, Deregister(c)
    PROVE  InfoInv'
<1> USE DEF TypeOK, ClientTypeOK, ServerTypeOK
<1>1. /\ DOMAIN stats' = DOMAIN stats \ {id[c]}
      /\ UNCHANGED <<id, clientInc, connections>>
      /\ pc[c] = "deregister" /\ pc' = [pc EXCEPT ![c] = "release"]
  BY DEF Deregister, Goto, client
<1>2. /\ Registrants' = Registrants \ {c} /\ Arrivals' = Arrivals
      /\ \A d \in Conns : pc'[d] = "idle" <=> pc[d] = "idle"
  BY <1>1 DEF Registrants, Registered, Arrivals, Counted, Live
<1>3. \A d \in Registrants : d \in Conns /\ pc[d] # "idle"
  BY DEF Registrants, Registered, Live
<1>4. \A d \in Registrants : id[d] = id[c] => d = c
  BY <1>1, <1>3 DEF InfoInv, InfoTracksConnections, NumClients
<1>5. DOMAIN stats' = {id'[d] : d \in Registrants'}
  BY <1>1, <1>2, <1>4 DEF InfoInv, InfoTracksConnections, NumClients
<1>6. DOMAIN stats' \subseteq 1 .. clientInc
  <2>1. \A d \in Registrants : id[d] \in 1 .. clientInc
    BY <1>3 DEF InfoInv
  <2>2. DOMAIN stats \subseteq 1 .. clientInc
    BY <2>1 DEF InfoInv, InfoTracksConnections, NumClients
  <2> QED
    BY <1>1, <2>2
<1>7. Cardinality(DOMAIN stats') <= clientInc'
  BY <1>1, <1>6, StatsBound
<1> QED
  BY <1>1, <1>2, <1>5, <1>7 DEF InfoInv, InfoTracksConnections, NumClients

LEMMA InfoNext == TypeOK /\ InfoInv /\ [Next]_vars => InfoInv'
<1> SUFFICES ASSUME TypeOK, InfoInv, [Next]_vars PROVE InfoInv'
  OBVIOUS
<1>1. ASSUME NEW c \in Conns, Accept(c) \/ Serve(c) \/ Client(c) \/ Expire(c)
      PROVE  InfoInv'
  <2>1. CASE Accept(c)
    BY <2>1, InfoAccept
  <2>2. CASE InfoSteps(c)
    BY <2>2, InfoRegisterAdd, InfoRegisterInc, InfoDeregister DEF InfoSteps
  <2>3. CASE (Serve(c) \/ Client(c) \/ Expire(c)) /\ ~InfoSteps(c)
    BY <2>3, InfoFrame, InfoKeptSuffices
  <2> QED
    BY <1>1, <2>1, <2>2, <2>3
<1> USE DEF InfoKept, Registered, Counted, Live, client, info
<1>2. CASE AcceptError
  <2>1. InfoKept
    BY <1>2 DEF AcceptError
  <2> QED
    BY <2>1, InfoKeptSuffices
<1>3. ASSUME NEW r \in Registrations, Handle(r[1], r[2])
      PROVE  InfoInv'
  <2>1. InfoKept
    BY <1>3 DEF Handle
  <2> QED
    BY <2>1, InfoKeptSuffices
<1>4. CASE UNCHANGED vars
  <2>1. InfoKept
    BY <1>4 DEF vars
  <2> QED
    BY <2>1, InfoKeptSuffices
<1> QED
  BY <1>1, <1>2, <1>3, <1>4 DEF Next

(***************************************************************************)
(* The theorems.  The parts are inductive only together: TypeOK needs      *)
(* HeadHeld, which needs exclusive readers, which need the types.          *)
(***************************************************************************)
Inductive == TypeOK /\ HeadHeld /\ PoolInv /\ InfoInv

LEMMA InductiveInit == Init => Inductive
<1> SUFFICES ASSUME Init PROVE Inductive
  OBVIOUS
<1>1. TypeOK
  BY TypeInit
<1>2. HeadHeld /\ PoolInv
  BY DEF Init, HeadHeld, PoolInv, PoolExclusive, Live
<1>3. Registrants = {} /\ Arrivals = {}
  BY DEF Init, Registrants, Registered, Arrivals, Counted, Live
<1>4. DOMAIN stats = {} /\ connections = 0 /\ clientInc = 0
  BY DEF Init
<1>5. Cardinality({}) = 0
  BY FS_EmptySet
<1>6. \A c \in Conns : pc[c] = "idle"
  BY DEF Init
<1>7. InfoInv
  BY <1>3, <1>4, <1>5, <1>6 DEF InfoInv, InfoTracksConnections, NumClients
<1> QED
  BY <1>1, <1>2, <1>7 DEF Inductive

LEMMA InductiveNext == Inductive /\ [Next]_vars => Inductive'
BY TypeNext, HeadNext, PoolNext, InfoNext DEF Inductive

LEMMA InductiveInvariant == Spec => []Inductive
BY InductiveInit, InductiveNext, PTL DEF Spec

\* Type correctness of the server, its connections, pools and counters: in
\* particular a handler is only ever run for a request that is in the reader.
THEOREM TypeCorrect == Spec => []TypeOK
<1>1. Inductive => TypeOK
  BY DEF Inductive
<1> QED
  BY <1>1, InductiveInvariant, PTL

\* No two running connections share a pooled reader or writer (client.go,
\* reset and release), for any number of connections.
THEOREM PoolsExclusive == Spec => []PoolExclusive
<1>1. Inductive => PoolExclusive
  BY DEF Inductive, PoolInv
<1> QED
  BY <1>1, InductiveInvariant, PTL

\* ServerInfo's table and counters follow the connections through every way a
\* connection can begin and end (info.go, register and deregister).
THEOREM InfoCorrect == Spec => []InfoTracksConnections
<1>1. Inductive => InfoTracksConnections
  BY DEF Inductive, InfoInv
<1> QED
  BY <1>1, InductiveInvariant, PTL

=============================================================================
