---------------------------- MODULE PubSubProofs ----------------------------
(***************************************************************************)
(* Proofs about PubSub for any set of goroutines and of channel names.     *)
(***************************************************************************)
EXTENDS PubSub, SequenceFacts

(***************************************************************************)
(* The inductive invariant                                                 *)
(***************************************************************************)

Subscribing(p) == pc[p] \in {"lock", "insert"}
Ranging(p)     == pc[p] \in {"range", "message"}
Publishing(p)  == pc[p] \in {"range", "message", "evictlock", "evict", "reply"}

\* Where the locals of a call are set.
CallsInv ==
    /\ \A p \in Procs : pc[p] = "create" => name[p] \in Names
    /\ \A p \in Procs : pc[p] = "ack" => part[p] < FrameParts
    /\ \A p \in Procs : ~Publishing(p) => failed[p] = {}

\* A publisher in its loop holds the channel's lock, and what it has yet to
\* visit is still there.
RangeInv ==
    \A p \in Procs : Ranging(p) =>
        /\ p \in readers[ch[p]]
        /\ todo[p] \subseteq DOMAIN subs[ch[p]]
        /\ pc[p] = "message" => sid[p] \in DOMAIN subs[ch[p]]

\* Ids are handed out in increasing order, and the failed ones were handed out.
IdsInv ==
    /\ \A o \in Objects : DOMAIN subs[o] \subseteq 1 .. nextID[o]
    /\ \A p \in Procs : Subscribing(p) => sid[p] \in 1 .. nextID[ch[p]]
    /\ \A p \in Procs : OnChannel(p) => failed[p] \subseteq 1 .. nextID[ch[p]]
    /\ \A p, q \in Procs : OnChannel(p) /\ Subscribing(q) /\ ch[p] = ch[q]
          => sid[q] \notin failed[p]

\* SubscribersKept, with an id that no publisher is about to evict.
KeptInv ==
    \A j \in joined : j[1] \notin Lost =>
        /\ channels[j[2]] # None
        /\ j[3] \in DOMAIN subs[channels[j[2]]]
        /\ subs[channels[j[2]]][j[3]] = j[1]
        /\ \A p \in Procs : OnChannel(p) /\ ch[p] = channels[j[2]]
              => j[3] \notin failed[p]

Inductive ==
    /\ TypeOK
    /\ OneChannelPerName
    /\ CallsInv
    /\ RangeInv
    /\ IdsInv
    /\ SidsFresh
    /\ KeptInv

(***************************************************************************)
(* Type correctness                                                        *)
(***************************************************************************)
LEMMA ConcatType ==
    ASSUME NEW S, NEW s \in Seq(S), NEW t \in Seq(S)
    PROVE  s \o t \in Seq(S)
OBVIOUS

LEMMA TokenType ==
    ASSUME TypeOK, NEW p \in Procs, NEW i \in Parts,
           NEW k \in {"subscribe", "message", "int", "error"}
    PROVE  Token(p, k, i) \in Tokens
BY DEF TypeOK, CallsTypeOK, Token, Tokens

LEMMA AppendToType ==
    ASSUME TypeOK, NEW w \in Procs, NEW t \in Tokens, AppendTo(w, t)
    PROVE  buf' \in [Procs -> Seq(Tokens)]
BY DEF TypeOK, NetTypeOK, AppendTo

LEMMA PartOf ==
    ASSUME NEW S, NEW s \in Seq(S), NEW k \in 0 .. Len(s) - 1
    PROVE  /\ SubSeq(s, 1, k) \in Seq(S) /\ Len(SubSeq(s, 1, k)) = k /\ k < Len(s)
           /\ k \in Nat /\ Len(s) \in Nat
           /\ \A i \in 1 .. k : SubSeq(s, 1, k)[i] = s[i]
<1> DEFINE l == Len(s)
           u == SubSeq(s, 1, k)
<1>1. l \in Nat /\ \A i \in 1 .. l : s[i] \in S
  BY LenProperties, ElementOfSeq
<1> HIDE DEF l
<1>2. k \in Nat /\ k < l /\ \A i \in 1 .. k : i \in 1 .. l
  BY <1>1 DEF l
<1>3. \A i \in 1 .. k : s[i] \in S
  BY <1>1, <1>2
<1>4. 1 \in Int /\ k \in Int
  BY <1>2
<1>5. /\ u \in Seq(S) /\ Len(u) = IF 1 <= k THEN k - 1 + 1 ELSE 0
      /\ \A i \in 1 .. k - 1 + 1 : u[i] = s[1 + i - 1]
  BY <1>3, <1>4, SubSeqProperties
<1> HIDE DEF u
<1>6. Len(u) = k /\ \A i \in 1 .. k : u[i] = s[i]
  BY <1>2, <1>5
<1> QED
  BY <1>1, <1>2, <1>5, <1>6 DEF u, l

LEMMA FlushType ==
    ASSUME TypeOK, NEW w \in Procs, FlushSucceeds(w) \/ FlushFails(w)
    PROVE  /\ buf' \in [Procs -> Seq(Tokens)] /\ out' \in [Procs -> Seq(Tokens)]
           /\ late' \subseteq Procs /\ late \subseteq late'
<1> USE DEF TypeOK, NetTypeOK
<1>1. CASE FlushSucceeds(w)
  <2>1. out[w] \o buf[w] \in Seq(Tokens)
    BY ConcatType
  <2>2. buf' \in [Procs -> Seq(Tokens)] /\ late' = late
    BY <1>1 DEF FlushSucceeds
  <2> QED
    BY <1>1, <2>1, <2>2 DEF FlushSucceeds
<1>2. CASE FlushFails(w)
  <2>1. CASE UNCHANGED <<out, late>>
    BY <1>2, <2>1 DEF FlushFails
  <2>2. CASE MeetsDeadline(w)
    <3>1. PICK k \in 0 .. Len(buf[w]) - 1 :
              out' = [out EXCEPT ![w] = @ \o SubSeq(buf[w], 1, k)]
      BY <2>2 DEF MeetsDeadline
    <3>2. buf[w] \in Seq(Tokens) /\ out[w] \in Seq(Tokens)
      OBVIOUS
    <3>3. SubSeq(buf[w], 1, k) \in Seq(Tokens)
      BY <3>2, PartOf
    <3>4. out[w] \o SubSeq(buf[w], 1, k) \in Seq(Tokens)
      BY <3>2, <3>3, ConcatType
    <3> QED
      BY <1>2, <2>2, <3>1, <3>4 DEF FlushFails, MeetsDeadline
  <2> QED
    BY <1>2, <2>1, <2>2 DEF FlushFails
<1> QED
  BY <1>1, <1>2

\* A goroutine that works on a channel has a channel object.
LEMMA ChType ==
    ASSUME TypeOK, OneChannelPerName, NEW p \in Procs, OnChannel(p)
    PROVE  ch[p] \in Objects /\ name[p] \in Names /\ ch[p] = channels[name[p]]
BY DEF TypeOK, CallsTypeOK, OneChannelPerName

\* The writer a publisher serves.
LEMMA ServedType ==
    ASSUME TypeOK, OneChannelPerName, RangeInv, NEW p \in Procs, Ranging(p)
    PROVE  /\ pc[p] = "message" => subs[ch[p]][sid[p]] \in Procs
           /\ \A s \in todo[p] : s \in Nat /\ subs[ch[p]][s] \in Procs
<1>1. ch[p] \in Objects
  BY ChType DEF OnChannel, Ranging
<1> QED
  BY <1>1 DEF TypeOK, ChannelsTypeOK, RangeInv

LocalsTypeOK ==
    /\ name \in [Procs -> Names \cup {None}]
    /\ ch \in [Procs -> Objects \cup {None}]
    /\ sid \in [Procs -> Nat]
    /\ part \in [Procs -> 0 .. FrameParts]
    /\ todo \in [Procs -> SUBSET Nat]
    /\ failed \in [Procs -> SUBSET Nat]
    /\ n \in [Procs -> Nat]
    /\ DOMAIN snap = Procs

LEMMA ReturnType ==
    ASSUME TypeOK, NEW p \in Procs, Return(p)
    PROVE  LocalsTypeOK'
<1> USE DEF TypeOK, CallsTypeOK, Return
<1>1. 0 \in 0 .. FrameParts
  BY CallsAssumption
<1>2. name' \in [Procs -> Names \cup {None}] /\ ch' \in [Procs -> Objects \cup {None}]
  OBVIOUS
<1>3. sid' \in [Procs -> Nat] /\ n' \in [Procs -> Nat]
  OBVIOUS
<1>4. part' \in [Procs -> 0 .. FrameParts]
  BY <1>1
<1>5. todo' \in [Procs -> SUBSET Nat] /\ failed' \in [Procs -> SUBSET Nat]
  OBVIOUS
<1>6. DOMAIN snap' = Procs
  OBVIOUS
<1> QED
  BY <1>2, <1>3, <1>4, <1>5, <1>6 DEF LocalsTypeOK

LEMMA PartType == FrameParts \in Parts /\ 1 \in Parts
BY CallsAssumption DEF Parts

LEMMA ChannelsType ==
    ASSUME TypeOK, OneChannelPerName, CallsInv, RangeInv, NEW p \in Procs,
           Start(p) \/ Step(p) \/ Disconnect(p) \/ Recycle(p)
    PROVE  ChannelsTypeOK'
<1> USE DEF TypeOK, ChannelsTypeOK, chanVars, lockVars
<1>1. CASE Create(p)
  BY <1>1 DEF Create, CallsInv, Objects
<1>2. CASE AllocSid(p)
  BY <1>2, ChType DEF AllocSid, OnChannel
<1>3. CASE SubscribeLock(p)
  BY <1>3, ChType DEF SubscribeLock, Announce, OnChannel
<1>4. CASE Insert(p)
  <2>1. ch[p] \in Objects /\ sid[p] \in Nat
    BY <1>4, ChType DEF Insert, OnChannel, CallsTypeOK
  <2>2. /\ DOMAIN subs' = Objects
        /\ \A o \in Objects \ {ch[p]} : subs'[o] = subs[o]
        /\ DOMAIN subs'[ch[p]] = DOMAIN subs[ch[p]] \cup {sid[p]}
        /\ \A i \in DOMAIN subs'[ch[p]] :
              subs'[ch[p]][i] = IF i = sid[p] THEN p ELSE subs[ch[p]][i]
    BY <1>4, <2>1 DEF Insert
  <2>3. writer' \in [Objects -> Procs \cup {None}]
    BY <1>4, <2>1 DEF Insert
  <2>4. \A o \in Objects : /\ DOMAIN subs'[o] \subseteq Nat
                           /\ \A i \in DOMAIN subs'[o] : subs'[o][i] \in Procs
    BY <2>1, <2>2
  <2> QED
    BY <1>4, <2>2, <2>3, <2>4 DEF Insert
<1>5. CASE Acknowledge(p)
  BY <1>5 DEF Acknowledge, Return
<1>6. CASE PublishRLock(p)
  BY <1>6, ChType DEF PublishRLock, OnChannel
<1>7. CASE PublishAppend(p)
  BY <1>7 DEF PublishAppend
<1>8. CASE PublishFlush(p)
  BY <1>8 DEF PublishFlush
<1>9. CASE PublishRUnlock(p)
  BY <1>9, ChType DEF PublishRUnlock, OnChannel
<1>10. CASE EvictLock(p)
  BY <1>10, ChType DEF EvictLock, Announce, OnChannel
<1>11. CASE Evict(p)
  <2>1. ch[p] \in Objects
    BY <1>11, ChType DEF Evict, OnChannel
  <2>2. /\ DOMAIN subs' = Objects
        /\ \A o \in Objects \ {ch[p]} : subs'[o] = subs[o]
        /\ DOMAIN subs'[ch[p]] = DOMAIN subs[ch[p]] \ failed[p]
        /\ \A i \in DOMAIN subs'[ch[p]] : subs'[ch[p]][i] = subs[ch[p]][i]
    BY <1>11, <2>1 DEF Evict
  <2>3. writer' \in [Objects -> Procs \cup {None}]
    BY <1>11, <2>1 DEF Evict
  <2>4. \A o \in Objects : /\ DOMAIN subs'[o] \subseteq Nat
                           /\ \A i \in DOMAIN subs'[o] : subs'[o][i] \in Procs
    BY <2>1, <2>2
  <2> QED
    BY <1>11, <2>2, <2>3, <2>4 DEF Evict
<1>12. CASE Reply(p)
  BY <1>12 DEF Reply, Return
<1>13. CASE ServerFlush(p)
  BY <1>13 DEF ServerFlush
<1>14. CASE WrongNumberOfArgs(p)
  BY <1>14 DEF WrongNumberOfArgs
<1>15. CASE Disconnect(p)
  BY <1>15 DEF Disconnect
<1>16. CASE Recycle(p)
  BY <1>16 DEF Recycle
<1>17. ASSUME NEW s \in todo[p], PublishTo(p, s) PROVE ChannelsTypeOK'
  BY <1>17 DEF PublishTo
<1>18. ASSUME NEW m \in Names, Subscribe(p, m) PROVE ChannelsTypeOK'
  BY <1>18 DEF Subscribe, StartCall
<1>19. ASSUME NEW m \in Names, Publish(p, m) PROVE ChannelsTypeOK'
  BY <1>19 DEF Publish, StartCall
<1> QED
  BY <1>1, <1>2, <1>3, <1>4, <1>5, <1>6, <1>7, <1>8, <1>9, <1>10, <1>11,
     <1>12, <1>13, <1>14, <1>15, <1>16, <1>17, <1>18, <1>19
     DEF Start, Step

LEMMA CallsType ==
    ASSUME TypeOK, OneChannelPerName, CallsInv, RangeInv, NEW p \in Procs,
           Start(p) \/ Step(p) \/ Disconnect(p) \/ Recycle(p)
    PROVE  CallsTypeOK'
<1> USE DEF TypeOK, CallsTypeOK, Goto, Labels, callVars
<1>1. CASE Create(p)
  BY <1>1 DEF Create, ChannelsTypeOK, CallsInv, Objects
<1>2. CASE AllocSid(p)
  BY <1>2, ChType DEF AllocSid, OnChannel, ChannelsTypeOK
<1>3. CASE SubscribeLock(p)
  BY <1>3 DEF SubscribeLock, Announce
<1>4. CASE Insert(p)
  BY <1>4, CallsAssumption DEF Insert
<1>5. CASE Acknowledge(p)
  <2>1. CASE part[p] + 1 < FrameParts
    <3>1. part' \in [Procs -> 0 .. FrameParts]
      BY <1>5, <2>1, CallsAssumption DEF Acknowledge
    <3> QED
      BY <1>5, <2>1, <3>1 DEF Acknowledge
  <2>2. CASE ~(part[p] + 1 < FrameParts)
    <3>1. Return(p) /\ Goto(p, "flush") /\ calls' = calls
      BY <1>5, <2>2 DEF Acknowledge
    <3> QED
      BY <3>1, ReturnType DEF LocalsTypeOK
  <2> QED
    BY <2>1, <2>2
<1>6. CASE PublishRLock(p)
  BY <1>6, ChType DEF PublishRLock, OnChannel, ChannelsTypeOK
<1>7. CASE PublishAppend(p)
  BY <1>7, CallsAssumption DEF PublishAppend
<1>8. CASE PublishFlush(p)
  BY <1>8 DEF PublishFlush
<1>9. CASE PublishRUnlock(p)
  BY <1>9 DEF PublishRUnlock
<1>10. CASE EvictLock(p)
  BY <1>10 DEF EvictLock, Announce
<1>11. CASE Evict(p)
  BY <1>11 DEF Evict
<1>12. CASE Reply(p)
  <2>1. /\ Return(p) /\ calls' = calls
        /\ Goto(p, "flush") \/ Goto(p, "idle")
    BY <1>12 DEF Reply
  <2> QED
    BY <2>1, ReturnType DEF LocalsTypeOK
<1>13. CASE ServerFlush(p)
  BY <1>13 DEF ServerFlush
<1>14. CASE WrongNumberOfArgs(p)
  BY <1>14 DEF WrongNumberOfArgs
<1>15. CASE Disconnect(p)
  BY <1>15 DEF Disconnect
<1>16. CASE Recycle(p)
  BY <1>16 DEF Recycle
<1>17. ASSUME NEW s \in todo[p], PublishTo(p, s) PROVE CallsTypeOK'
  BY <1>17, CallsAssumption DEF PublishTo
<1>18. ASSUME NEW m \in Names, Subscribe(p, m) PROVE CallsTypeOK'
  BY <1>18 DEF Subscribe, StartCall, ChannelsTypeOK
<1>19. ASSUME NEW m \in Names, Publish(p, m) PROVE CallsTypeOK'
  BY <1>19 DEF Publish, StartCall, ChannelsTypeOK
<1> QED
  BY <1>1, <1>2, <1>3, <1>4, <1>5, <1>6, <1>7, <1>8, <1>9, <1>10, <1>11,
     <1>12, <1>13, <1>14, <1>15, <1>16, <1>17, <1>18, <1>19
     DEF Start, Step

LEMMA NetType ==
    ASSUME TypeOK, OneChannelPerName, CallsInv, RangeInv, NEW p \in Procs,
           Start(p) \/ Step(p) \/ Disconnect(p) \/ Recycle(p)
    PROVE  NetTypeOK'
<1>0. ASSUME Return(p) PROVE at' \in [Procs -> [Procs -> Nat]]
  BY <1>0 DEF Return, NoConns, TypeOK, NetTypeOK
<1> USE DEF TypeOK, NetTypeOK, netVars, callVars
<1>1. CASE Create(p)
  BY <1>1 DEF Create
<1>2. CASE AllocSid(p)
  BY <1>2 DEF AllocSid
<1>3. CASE SubscribeLock(p)
  BY <1>3 DEF SubscribeLock, Announce
<1>4. CASE Insert(p)
  <2>1. <<p, name[p], sid[p]>> \in Procs \X Names \X Nat
    BY <1>4, ChType DEF Insert, OnChannel, CallsTypeOK
  <2> QED
    BY <1>4, <2>1 DEF Insert
<1>5. CASE Acknowledge(p)
  <2>1. part[p] + 1 \in Parts
    BY <1>5, CallsAssumption DEF Acknowledge, CallsInv, CallsTypeOK, Parts
  <2>2. buf' \in [Procs -> Seq(Tokens)]
    BY <1>5, <2>1, TokenType, AppendToType DEF Acknowledge
  <2>3. at' \in [Procs -> [Procs -> Nat]]
    BY <1>5, <1>0 DEF Acknowledge
  <2> QED
    BY <1>5, <2>2, <2>3 DEF Acknowledge
<1>6. CASE PublishRLock(p)
  BY <1>6 DEF PublishRLock
<1>7. CASE PublishAppend(p)
  <2>1. part[p] + 1 \in Parts
    BY <1>7, CallsAssumption DEF PublishAppend, CallsTypeOK, Parts
  <2>2. subs[ch[p]][sid[p]] \in Procs
    BY <1>7, ServedType DEF PublishAppend, Ranging
  <2>3. buf' \in [Procs -> Seq(Tokens)]
    BY <1>7, <2>1, <2>2, TokenType, AppendToType DEF PublishAppend
  <2> QED
    BY <1>7, <2>3 DEF PublishAppend
<1>8. CASE PublishFlush(p)
  <2>1. subs[ch[p]][sid[p]] \in Procs
    BY <1>8, ServedType DEF PublishFlush, Ranging
  <2>2. /\ buf' \in [Procs -> Seq(Tokens)] /\ out' \in [Procs -> Seq(Tokens)]
        /\ late' \subseteq Procs
    BY <1>8, <2>1, FlushType DEF PublishFlush
  <2> QED
    BY <1>8, <2>2 DEF PublishFlush
<1>9. CASE PublishRUnlock(p)
  BY <1>9 DEF PublishRUnlock
<1>10. CASE EvictLock(p)
  BY <1>10 DEF EvictLock, Announce
<1>11. CASE Evict(p)
  BY <1>11 DEF Evict
<1>12. CASE Reply(p)
  <2>1. buf' \in [Procs -> Seq(Tokens)]
    BY <1>12, PartType, TokenType, AppendToType DEF Reply
  <2>2. at' \in [Procs -> [Procs -> Nat]]
    BY <1>12, <1>0 DEF Reply
  <2> QED
    BY <1>12, <2>1, <2>2 DEF Reply
<1>13. CASE ServerFlush(p)
  <2>1. /\ buf' \in [Procs -> Seq(Tokens)] /\ out' \in [Procs -> Seq(Tokens)]
        /\ late' \subseteq Procs
    BY <1>13, FlushType DEF ServerFlush
  <2> QED
    BY <1>13, <2>1 DEF ServerFlush
<1>14. CASE WrongNumberOfArgs(p)
  <2>1. [kind |-> "error", from |-> p, call |-> calls[p] + 1,
         part |-> FrameParts] \in Tokens
    BY PartType DEF Tokens, CallsTypeOK
  <2>2. buf' \in [Procs -> Seq(Tokens)]
    BY <1>14, <2>1, AppendToType DEF WrongNumberOfArgs
  <2> QED
    BY <1>14, <2>2 DEF WrongNumberOfArgs
<1>15. CASE Disconnect(p)
  BY <1>15 DEF Disconnect
<1>16. CASE Recycle(p)
  BY <1>16 DEF Recycle
<1>17. ASSUME NEW s \in todo[p], PublishTo(p, s) PROVE NetTypeOK'
  <2>1. subs[ch[p]][s] \in Procs
    BY <1>17, ServedType DEF PublishTo, Ranging
  <2>2. buf' \in [Procs -> Seq(Tokens)]
    BY <1>17, <2>1, PartType, TokenType, AppendToType DEF PublishTo
  <2> QED
    BY <1>17, <2>2 DEF PublishTo
<1>18. ASSUME NEW m \in Names, Subscribe(p, m) PROVE NetTypeOK'
  BY <1>18 DEF Subscribe, StartCall
<1>19. ASSUME NEW m \in Names, Publish(p, m) PROVE NetTypeOK'
  BY <1>19 DEF Publish, StartCall
<1> QED
  BY <1>1, <1>2, <1>3, <1>4, <1>5, <1>6, <1>7, <1>8, <1>9, <1>10, <1>11,
     <1>12, <1>13, <1>14, <1>15, <1>16, <1>17, <1>18, <1>19
     DEF Start, Step

(***************************************************************************)
(* The invariants of the channels                                          *)
(***************************************************************************)

\* What Acknowledge leaves of a call.
LEMMA AcknowledgeEffect ==
    ASSUME TypeOK, CallsInv, NEW p \in Procs, Acknowledge(p)
    PROVE  /\ UNCHANGED <<chanVars, lockVars, calls, joined, broken>>
           /\ late' = late
           /\ \A q \in Procs \ {p} :
                 /\ pc'[q] = pc[q] /\ name'[q] = name[q] /\ ch'[q] = ch[q]
                 /\ sid'[q] = sid[q] /\ part'[q] = part[q]
                 /\ todo'[q] = todo[q] /\ failed'[q] = failed[q]
           /\ pc'[p] \in {"ack", "flush"}
           /\ pc'[p] = "ack" => part'[p] < FrameParts
           /\ failed'[p] = {}
<1> USE DEF TypeOK, CallsTypeOK, CallsInv, Publishing, Acknowledge, Goto
<1>1. CASE part[p] + 1 < FrameParts
  BY <1>1
<1>2. CASE ~(part[p] + 1 < FrameParts)
  BY <1>2 DEF Return
<1> QED
  BY <1>1, <1>2

LEMMA ChannelsKept ==
    ASSUME TypeOK, OneChannelPerName, CallsInv, RangeInv, NEW p \in Procs,
           Start(p) \/ Step(p) \/ Disconnect(p) \/ Recycle(p)
    PROVE  OneChannelPerName'
<1> USE DEF OneChannelPerName, OnChannel, TypeOK, ChannelsTypeOK, CallsTypeOK, Goto, chanVars, callVars
<1>1. CASE Create(p)
  <2>1. name[p] \in Names /\ ch'[p] # None
        /\ ch'[p] = channels'[name[p]] /\ channels'[name[p]][2] = name[p]
    BY <1>1, NoneAssumption DEF Create, CallsInv, Objects
  <2>2. \A m \in Names : channels[m] # None => channels'[m] = channels[m]
    BY <1>1 DEF Create
  <2>3. \A m \in Names : m # name[p] => channels'[m] = channels[m]
    BY <1>1 DEF Create
  <2>4. \A m \in Names : channels'[m] # None => channels'[m][2] = m
    BY <2>1, <2>3
  <2>5. ASSUME NEW q \in Procs, OnChannel(q)'
        PROVE  name'[q] \in Names /\ ch'[q] # None /\ ch'[q] = channels'[name'[q]]
    BY <1>1, <2>1, <2>2, <2>5 DEF Create
  <2>6. ASSUME NEW o \in Objects, DOMAIN subs'[o] # {}
        PROVE  channels'[o[2]] = o
    <3>1. o[2] \in Names /\ o # None
      BY NoneAssumption DEF Objects
    <3> QED
      BY <1>1, <2>2, <2>6, <3>1 DEF Create
  <2> QED
    BY <2>4, <2>5, <2>6
<1>2. CASE AllocSid(p)
  BY <1>2 DEF AllocSid
<1>3. CASE SubscribeLock(p)
  BY <1>3 DEF SubscribeLock, Announce
<1>4. CASE Insert(p)
  BY <1>4 DEF Insert
<1>5. CASE Acknowledge(p)
  BY <1>5, AcknowledgeEffect DEF chanVars
<1>6. CASE PublishRLock(p)
  BY <1>6 DEF PublishRLock
<1>7. CASE PublishAppend(p)
  BY <1>7 DEF PublishAppend
<1>8. CASE PublishFlush(p)
  BY <1>8 DEF PublishFlush
<1>9. CASE PublishRUnlock(p)
  BY <1>9 DEF PublishRUnlock
<1>10. CASE EvictLock(p)
  BY <1>10 DEF EvictLock, Announce
<1>11. CASE Evict(p)
  BY <1>11 DEF Evict
<1>12. CASE Reply(p)
  BY <1>12 DEF Reply, Return
<1>13. CASE ServerFlush(p)
  BY <1>13 DEF ServerFlush
<1>14. CASE WrongNumberOfArgs(p)
  BY <1>14 DEF WrongNumberOfArgs
<1>15. CASE Disconnect(p)
  BY <1>15 DEF Disconnect
<1>16. CASE Recycle(p)
  BY <1>16 DEF Recycle
<1>17. ASSUME NEW s \in todo[p], PublishTo(p, s) PROVE OneChannelPerName'
  BY <1>17 DEF PublishTo
<1>18. ASSUME NEW m \in Names, Subscribe(p, m) PROVE OneChannelPerName'
  BY <1>18 DEF Subscribe, StartCall
<1>19. ASSUME NEW m \in Names, Publish(p, m) PROVE OneChannelPerName'
  BY <1>19 DEF Publish, StartCall
<1> QED
  BY <1>1, <1>2, <1>3, <1>4, <1>5, <1>6, <1>7, <1>8, <1>9, <1>10, <1>11,
     <1>12, <1>13, <1>14, <1>15, <1>16, <1>17, <1>18, <1>19
     DEF Start, Step

LEMMA CallsKept ==
    ASSUME TypeOK, CallsInv, NEW p \in Procs,
           Start(p) \/ Step(p) \/ Disconnect(p) \/ Recycle(p)
    PROVE  CallsInv'
<1> USE DEF CallsInv, Publishing, TypeOK, ChannelsTypeOK, CallsTypeOK, Goto, chanVars, callVars
<1>1. CASE Create(p)
  BY <1>1 DEF Create
<1>2. CASE AllocSid(p)
  BY <1>2 DEF AllocSid
<1>3. CASE SubscribeLock(p)
  BY <1>3 DEF SubscribeLock, Announce
<1>4. CASE Insert(p)
  BY <1>4, CallsAssumption DEF Insert
<1>5. CASE Acknowledge(p)
  BY <1>5, AcknowledgeEffect DEF chanVars
<1>6. CASE PublishRLock(p)
  BY <1>6 DEF PublishRLock
<1>7. CASE PublishAppend(p)
  BY <1>7 DEF PublishAppend
<1>8. CASE PublishFlush(p)
  BY <1>8 DEF PublishFlush
<1>9. CASE PublishRUnlock(p)
  BY <1>9 DEF PublishRUnlock
<1>10. CASE EvictLock(p)
  BY <1>10 DEF EvictLock, Announce
<1>11. CASE Evict(p)
  BY <1>11 DEF Evict
<1>12. CASE Reply(p)
  BY <1>12 DEF Reply, Return
<1>13. CASE ServerFlush(p)
  BY <1>13 DEF ServerFlush
<1>14. CASE WrongNumberOfArgs(p)
  BY <1>14 DEF WrongNumberOfArgs
<1>15. CASE Disconnect(p)
  BY <1>15 DEF Disconnect
<1>16. CASE Recycle(p)
  BY <1>16 DEF Recycle
<1>17. ASSUME NEW s \in todo[p], PublishTo(p, s) PROVE CallsInv'
  BY <1>17 DEF PublishTo
<1>18. ASSUME NEW m \in Names, Subscribe(p, m) PROVE CallsInv'
  BY <1>18 DEF Subscribe, StartCall
<1>19. ASSUME NEW m \in Names, Publish(p, m) PROVE CallsInv'
  BY <1>19 DEF Publish, StartCall
<1> QED
  BY <1>1, <1>2, <1>3, <1>4, <1>5, <1>6, <1>7, <1>8, <1>9, <1>10, <1>11,
     <1>12, <1>13, <1>14, <1>15, <1>16, <1>17, <1>18, <1>19
     DEF Start, Step

LEMMA RangeKept ==
    ASSUME TypeOK, OneChannelPerName, CallsInv, RangeInv, NEW p \in Procs,
           Start(p) \/ Step(p) \/ Disconnect(p) \/ Recycle(p)
    PROVE  RangeInv'
<1> USE DEF RangeInv, Ranging, OnChannel, OneChannelPerName, lockVars, TypeOK, ChannelsTypeOK, CallsTypeOK, Goto, chanVars, callVars
<1>1. CASE Create(p)
  BY <1>1 DEF Create
<1>2. CASE AllocSid(p)
  BY <1>2 DEF AllocSid
<1>3. CASE SubscribeLock(p)
  BY <1>3 DEF SubscribeLock, Announce
<1>4. CASE Insert(p)
  BY <1>4 DEF Insert
<1>5. CASE Acknowledge(p)
  BY <1>5, AcknowledgeEffect DEF chanVars
<1>6. CASE PublishRLock(p)
  BY <1>6 DEF PublishRLock
<1>7. CASE PublishAppend(p)
  BY <1>7 DEF PublishAppend
<1>8. CASE PublishFlush(p)
  BY <1>8 DEF PublishFlush
<1>9. CASE PublishRUnlock(p)
  BY <1>9 DEF PublishRUnlock
<1>10. CASE EvictLock(p)
  BY <1>10 DEF EvictLock, Announce
<1>11. CASE Evict(p)
  BY <1>11 DEF Evict
<1>12. CASE Reply(p)
  BY <1>12 DEF Reply, Return
<1>13. CASE ServerFlush(p)
  BY <1>13 DEF ServerFlush
<1>14. CASE WrongNumberOfArgs(p)
  BY <1>14 DEF WrongNumberOfArgs
<1>15. CASE Disconnect(p)
  BY <1>15 DEF Disconnect
<1>16. CASE Recycle(p)
  BY <1>16 DEF Recycle
<1>17. ASSUME NEW s \in todo[p], PublishTo(p, s) PROVE RangeInv'
  BY <1>17 DEF PublishTo
<1>18. ASSUME NEW m \in Names, Subscribe(p, m) PROVE RangeInv'
  BY <1>18 DEF Subscribe, StartCall
<1>19. ASSUME NEW m \in Names, Publish(p, m) PROVE RangeInv'
  BY <1>19 DEF Publish, StartCall
<1> QED
  BY <1>1, <1>2, <1>3, <1>4, <1>5, <1>6, <1>7, <1>8, <1>9, <1>10, <1>11,
     <1>12, <1>13, <1>14, <1>15, <1>16, <1>17, <1>18, <1>19
     DEF Start, Step

LEMMA IdsKept ==
    ASSUME TypeOK, OneChannelPerName, CallsInv, RangeInv, IdsInv,
           SidsFresh, NEW p \in Procs,
           Start(p) \/ Step(p) \/ Disconnect(p) \/ Recycle(p)
    PROVE  IdsInv'
<1> USE DEF IdsInv, Subscribing, OnChannel, OneChannelPerName,
           lockVars, TypeOK, ChannelsTypeOK, CallsTypeOK, Goto, chanVars, callVars
<1>1. CASE Create(p)
  <2>1. /\ pc' = [pc EXCEPT ![p] = "sid"] /\ pc[p] = "create"
        /\ UNCHANGED <<subs, nextID, sid, failed>>
        /\ \A q \in Procs \ {p} : ch'[q] = ch[q]
    BY <1>1 DEF Create
  <2>2. failed[p] = {}
    BY <2>1 DEF CallsInv, Publishing
  <2>3. \A q \in Procs : /\ Subscribing(q)' => Subscribing(q) /\ q # p
                         /\ OnChannel(q)' /\ q # p => OnChannel(q)
    BY <2>1
  <2>4. \A q \in Procs : OnChannel(q)' => failed'[q] \subseteq 1 .. nextID'[ch'[q]]
    BY <2>1, <2>2, <2>3
  <2>5. \A q, r \in Procs : OnChannel(q)' /\ Subscribing(r)' /\ ch'[q] = ch'[r]
           => sid'[r] \notin failed'[q]
    BY <2>1, <2>2, <2>3
  <2> QED
    BY <2>1, <2>3, <2>4, <2>5
<1>2. CASE AllocSid(p)
  BY <1>2 DEF AllocSid
<1>3. CASE SubscribeLock(p)
  BY <1>3 DEF SubscribeLock, Announce
<1>4. CASE Insert(p)
  BY <1>4 DEF Insert
<1>5. CASE Acknowledge(p)
  <2>1. \A q \in Procs : /\ Subscribing(q)' => Subscribing(q) /\ q # p
                         /\ OnChannel(q)' => OnChannel(q) /\ q # p
    BY <1>5, AcknowledgeEffect
  <2>2. UNCHANGED <<subs, nextID>>
    BY <1>5, AcknowledgeEffect
  <2>3. \A q \in Procs \ {p} : ch'[q] = ch[q] /\ sid'[q] = sid[q] /\ failed'[q] = failed[q]
    BY <1>5, AcknowledgeEffect
  <2> QED
    BY <2>1, <2>2, <2>3
<1>6. CASE PublishRLock(p)
  BY <1>6 DEF PublishRLock
<1>7. CASE PublishAppend(p)
  BY <1>7 DEF PublishAppend
<1>8. CASE PublishFlush(p)
  <2>1. ch[p] \in Objects /\ sid[p] \in DOMAIN subs[ch[p]]
    BY <1>8, ChType DEF PublishFlush, RangeInv, Ranging
  <2>2. \A q \in Procs : Subscribing(q) /\ ch[q] = ch[p] => sid[q] # sid[p]
    BY <2>1 DEF SidsFresh
  <2>3. sid[p] \in 1 .. nextID[ch[p]]
    BY <2>1
  <2>4. failed'[p] \subseteq failed[p] \cup {sid[p]}
    BY <1>8 DEF PublishFlush
  <2>5. \A q \in Procs \ {p} : failed'[q] = failed[q]
    BY <1>8 DEF PublishFlush
  <2>6. pc' = [pc EXCEPT ![p] = "range"] /\ UNCHANGED <<subs, nextID, ch, sid>>
    BY <1>8 DEF PublishFlush
  <2>7. pc[p] = "message"
    BY <1>8 DEF PublishFlush
  <2>8. \A q \in Procs : /\ Subscribing(q)' => Subscribing(q)
                         /\ OnChannel(q)' => OnChannel(q)
    BY <2>6, <2>7
  <2>9. OnChannel(p)
    BY <2>7
  <2>10. \A q \in Procs : OnChannel(q)' => failed'[q] \subseteq 1 .. nextID'[ch'[q]]
    BY <2>3, <2>4, <2>5, <2>6, <2>8, <2>9
  <2>11. \A q, r \in Procs : OnChannel(q)' /\ Subscribing(r)' /\ ch'[q] = ch'[r]
            => sid'[r] \notin failed'[q]
    BY <2>2, <2>4, <2>5, <2>6, <2>8, <2>9
  <2> QED
    BY <2>6, <2>8, <2>10, <2>11
<1>9. CASE PublishRUnlock(p)
  BY <1>9 DEF PublishRUnlock
<1>10. CASE EvictLock(p)
  BY <1>10 DEF EvictLock, Announce
<1>11. CASE Evict(p)
  BY <1>11 DEF Evict
<1>12. CASE Reply(p)
  BY <1>12, SMTT(60) DEF Reply, Return
<1>13. CASE ServerFlush(p)
  BY <1>13 DEF ServerFlush
<1>14. CASE WrongNumberOfArgs(p)
  BY <1>14 DEF WrongNumberOfArgs
<1>15. CASE Disconnect(p)
  BY <1>15 DEF Disconnect
<1>16. CASE Recycle(p)
  BY <1>16 DEF Recycle
<1>17. ASSUME NEW s \in todo[p], PublishTo(p, s) PROVE IdsInv'
  BY <1>17 DEF PublishTo
<1>18. ASSUME NEW m \in Names, Subscribe(p, m) PROVE IdsInv'
  BY <1>18, SMTT(60) DEF Subscribe, StartCall, CallsInv, Publishing
<1>19. ASSUME NEW m \in Names, Publish(p, m) PROVE IdsInv'
  BY <1>19 DEF Publish, StartCall, CallsInv, Publishing
<1> QED
  BY <1>1, <1>2, <1>3, <1>4, <1>5, <1>6, <1>7, <1>8, <1>9, <1>10, <1>11,
     <1>12, <1>13, <1>14, <1>15, <1>16, <1>17, <1>18, <1>19
     DEF Start, Step

LEMMA SidsKept ==
    ASSUME TypeOK, OneChannelPerName, CallsInv, RangeInv, IdsInv,
           SidsFresh, NEW p \in Procs,
           Start(p) \/ Step(p) \/ Disconnect(p) \/ Recycle(p)
    PROVE  SidsFresh'
<1> USE DEF IdsInv, SidsFresh, Subscribing, OnChannel,
           OneChannelPerName, lockVars, TypeOK, ChannelsTypeOK, CallsTypeOK, Goto, chanVars, callVars
<1>1. CASE Create(p)
  BY <1>1 DEF Create
<1>2. CASE AllocSid(p)
  BY <1>2 DEF AllocSid
<1>3. CASE SubscribeLock(p)
  BY <1>3 DEF SubscribeLock, Announce
<1>4. CASE Insert(p)
  BY <1>4 DEF Insert
<1>5. CASE Acknowledge(p)
  BY <1>5, AcknowledgeEffect DEF chanVars
<1>6. CASE PublishRLock(p)
  BY <1>6 DEF PublishRLock
<1>7. CASE PublishAppend(p)
  BY <1>7 DEF PublishAppend
<1>8. CASE PublishFlush(p)
  BY <1>8 DEF PublishFlush
<1>9. CASE PublishRUnlock(p)
  BY <1>9 DEF PublishRUnlock
<1>10. CASE EvictLock(p)
  BY <1>10 DEF EvictLock, Announce
<1>11. CASE Evict(p)
  BY <1>11 DEF Evict
<1>12. CASE Reply(p)
  BY <1>12 DEF Reply, Return
<1>13. CASE ServerFlush(p)
  BY <1>13 DEF ServerFlush
<1>14. CASE WrongNumberOfArgs(p)
  BY <1>14 DEF WrongNumberOfArgs
<1>15. CASE Disconnect(p)
  BY <1>15 DEF Disconnect
<1>16. CASE Recycle(p)
  BY <1>16 DEF Recycle
<1>17. ASSUME NEW s \in todo[p], PublishTo(p, s) PROVE SidsFresh'
  BY <1>17 DEF PublishTo
<1>18. ASSUME NEW m \in Names, Subscribe(p, m) PROVE SidsFresh'
  BY <1>18 DEF Subscribe, StartCall
<1>19. ASSUME NEW m \in Names, Publish(p, m) PROVE SidsFresh'
  BY <1>19 DEF Publish, StartCall
<1> QED
  BY <1>1, <1>2, <1>3, <1>4, <1>5, <1>6, <1>7, <1>8, <1>9, <1>10, <1>11,
     <1>12, <1>13, <1>14, <1>15, <1>16, <1>17, <1>18, <1>19
     DEF Start, Step

\* A step that keeps the channels, the subscribers and the connections, and
\* gives no publisher a new id to evict, keeps the subscriptions.
LEMMA KeptFrame ==
    ASSUME TypeOK, KeptInv,
           UNCHANGED <<subs, joined>>, Lost \subseteq Lost',
           \A m \in Names : channels[m] # None => channels'[m] = channels[m],
           \A q \in Procs : OnChannel(q)' =>
               \/ failed'[q] = {}
               \/ OnChannel(q) /\ ch'[q] = ch[q] /\ failed'[q] = failed[q]
    PROVE  KeptInv'
<1> SUFFICES ASSUME NEW j \in joined, j[1] \notin Lost
             PROVE  /\ channels'[j[2]] # None
                    /\ j[3] \in DOMAIN subs[channels'[j[2]]]
                    /\ subs[channels'[j[2]]][j[3]] = j[1]
                    /\ \A q \in Procs : OnChannel(q)' /\ ch'[q] = channels'[j[2]]
                          => j[3] \notin failed'[q]
  BY DEF KeptInv
<1>1. channels[j[2]] # None /\ channels'[j[2]] = channels[j[2]]
  BY DEF KeptInv, TypeOK, NetTypeOK
<1> QED
  BY <1>1 DEF KeptInv

LEMMA SubscribersStay ==
    ASSUME TypeOK, OneChannelPerName, CallsInv, RangeInv, IdsInv,
           SidsFresh, KeptInv, NEW p \in Procs,
           Start(p) \/ Step(p) \/ Disconnect(p) \/ Recycle(p)
    PROVE  KeptInv'
<1> USE DEF OnChannel, TypeOK, ChannelsTypeOK, CallsTypeOK, Goto, chanVars, callVars,
           netVars, lockVars, Lost
<1>1. CASE Create(p)
  <2>1. /\ UNCHANGED <<subs, joined>> /\ Lost \subseteq Lost'
        /\ \A m \in Names : channels[m] # None => channels'[m] = channels[m]
    BY <1>1 DEF Create
  <2>2. \A q \in Procs : OnChannel(q)' =>
           \/ failed'[q] = {}
           \/ OnChannel(q) /\ ch'[q] = ch[q] /\ failed'[q] = failed[q]
    BY <1>1 DEF Create, CallsInv, Publishing
  <2> QED
    BY <2>1, <2>2, KeptFrame
<1>2. CASE AllocSid(p)
  BY <1>2 DEF AllocSid, KeptInv
<1>3. CASE SubscribeLock(p)
  BY <1>3 DEF SubscribeLock, Announce, KeptInv
<1>4. CASE Insert(p)
  <2>1. ch[p] \in Objects /\ name[p] \in Names /\ ch[p] = channels[name[p]]
    BY <1>4, ChType DEF Insert
  <2>2. /\ \A o \in Objects \ {ch[p]} : subs'[o] = subs[o]
        /\ DOMAIN subs'[ch[p]] = DOMAIN subs[ch[p]] \cup {sid[p]}
        /\ \A i \in DOMAIN subs'[ch[p]] :
              subs'[ch[p]][i] = IF i = sid[p] THEN p ELSE subs[ch[p]][i]
    BY <1>4, <2>1 DEF Insert
  <2>3. /\ joined' = joined \cup {<<p, name[p], sid[p]>>}
        /\ UNCHANGED <<channels, broken, late, ch, failed>>
        /\ \A q \in Procs : OnChannel(q)' => OnChannel(q)
    BY <1>4 DEF Insert
  <2>4. sid[p] \notin DOMAIN subs[ch[p]]
    BY <1>4 DEF Insert, SidsFresh
  <2>5. \A q \in Procs : OnChannel(q) /\ ch[q] = ch[p] => sid[p] \notin failed[q]
    BY <1>4 DEF Insert, IdsInv, Subscribing
  <2> SUFFICES ASSUME NEW j \in joined', j[1] \notin Lost
               PROVE  /\ channels[j[2]] # None
                      /\ j[3] \in DOMAIN subs'[channels[j[2]]]
                      /\ subs'[channels[j[2]]][j[3]] = j[1]
                      /\ \A q \in Procs : OnChannel(q) /\ ch[q] = channels[j[2]]
                            => j[3] \notin failed[q]
    BY <2>3 DEF KeptInv
  <2>6. CASE j = <<p, name[p], sid[p]>>
    <3>1. j[1] = p /\ channels[j[2]] = ch[p] /\ j[3] = sid[p]
      BY <2>1, <2>6
    <3>2. ch[p] # None
      BY <2>1, NoneAssumption DEF Objects
    <3>3. sid[p] \in DOMAIN subs'[ch[p]] /\ subs'[ch[p]][sid[p]] = p
      BY <2>2
    <3> QED
      BY <2>5, <3>1, <3>2, <3>3
  <2>7. CASE j \in joined
    <3>1. channels[j[2]] # None /\ channels[j[2]] \in Objects
      BY <2>7 DEF KeptInv, NetTypeOK
    <3>2. /\ j[3] \in DOMAIN subs[channels[j[2]]]
          /\ subs[channels[j[2]]][j[3]] = j[1]
          /\ \A q \in Procs : OnChannel(q) /\ ch[q] = channels[j[2]]
                => j[3] \notin failed[q]
      BY <2>7 DEF KeptInv
    <3>3. j[3] \in DOMAIN subs'[channels[j[2]]] /\ subs'[channels[j[2]]][j[3]] = j[1]
      BY <2>1, <2>2, <2>4, <3>1, <3>2
    <3> QED
      BY <3>1, <3>2, <3>3
  <2> QED
    BY <2>3, <2>6, <2>7
<1>5. CASE Acknowledge(p)
  <2>1. /\ UNCHANGED <<subs, joined, channels>> /\ Lost \subseteq Lost'
        /\ \A q \in Procs : OnChannel(q)' => 
              \/ failed'[q] = {}
              \/ OnChannel(q) /\ ch'[q] = ch[q] /\ failed'[q] = failed[q]
    BY <1>5, AcknowledgeEffect
  <2> QED
    BY <2>1, KeptFrame
<1>6. CASE PublishRLock(p)
  BY <1>6 DEF PublishRLock, KeptInv
<1>7. CASE PublishAppend(p)
  BY <1>7 DEF PublishAppend, KeptInv
<1>8. CASE PublishFlush(p)
  <2> DEFINE x == subs[ch[p]][sid[p]]
  <2>0. x \in Procs
    BY <1>8, ServedType DEF PublishFlush, Ranging
  <2>1. /\ UNCHANGED <<subs, joined, broken, channels, ch>>
        /\ \A q \in Procs : OnChannel(q)' => OnChannel(q)
    BY <1>8 DEF PublishFlush
  <2>2. \A q \in Procs \ {p} : failed'[q] = failed[q]
    BY <1>8 DEF PublishFlush
  <2>3. \/ failed'[p] = failed[p]
        \/ failed'[p] = failed[p] \cup {sid[p]} /\ x \in Lost'
    BY <1>8 DEF PublishFlush, FlushFails, MeetsDeadline
  <2>4. Lost \subseteq Lost'
    <3>1. FlushSucceeds(x) \/ FlushFails(x)
      BY <1>8 DEF PublishFlush
    <3>2. late \subseteq late'
      BY <2>0, <3>1, FlushType
    <3> QED
      BY <2>1, <3>2
  <2> HIDE DEF x
  <2> SUFFICES ASSUME NEW j \in joined, j[1] \notin Lost'
               PROVE  /\ channels[j[2]] # None
                      /\ j[3] \in DOMAIN subs[channels[j[2]]]
                      /\ subs[channels[j[2]]][j[3]] = j[1]
                      /\ \A q \in Procs : OnChannel(q) /\ ch[q] = channels[j[2]]
                            => j[3] \notin failed'[q]
    BY <2>1 DEF KeptInv
  <2>5. /\ channels[j[2]] # None
        /\ j[3] \in DOMAIN subs[channels[j[2]]]
        /\ subs[channels[j[2]]][j[3]] = j[1]
        /\ \A q \in Procs : OnChannel(q) /\ ch[q] = channels[j[2]]
              => j[3] \notin failed[q]
    BY <2>4 DEF KeptInv
  <2>6. \A q \in Procs : OnChannel(q) /\ ch[q] = channels[j[2]] => j[3] \notin failed'[q]
    BY <2>2, <2>3, <2>5 DEF x
  <2> QED
    BY <2>5, <2>6
<1>9. CASE PublishRUnlock(p)
  BY <1>9 DEF PublishRUnlock, KeptInv
<1>10. CASE EvictLock(p)
  BY <1>10 DEF EvictLock, Announce, KeptInv
<1>11. CASE Evict(p)
  BY <1>11 DEF Evict, KeptInv
<1>12. CASE Reply(p)
  <2>1. /\ UNCHANGED <<subs, joined, channels>> /\ Lost \subseteq Lost'
        /\ \A q \in Procs : OnChannel(q)' => 
              \/ failed'[q] = {}
              \/ OnChannel(q) /\ ch'[q] = ch[q] /\ failed'[q] = failed[q]
    BY <1>12 DEF Reply, Return
  <2> QED
    BY <2>1, KeptFrame
<1>13. CASE ServerFlush(p)
  <2>1. /\ UNCHANGED <<subs, joined, channels>> /\ Lost \subseteq Lost'
        /\ \A q \in Procs : OnChannel(q)' => 
              \/ failed'[q] = {}
              \/ OnChannel(q) /\ ch'[q] = ch[q] /\ failed'[q] = failed[q]
    BY <1>13, FlushType DEF ServerFlush
  <2> QED
    BY <2>1, KeptFrame
<1>14. CASE WrongNumberOfArgs(p)
  BY <1>14 DEF WrongNumberOfArgs, KeptInv
<1>15. CASE Disconnect(p)
  BY <1>15 DEF Disconnect, KeptInv
<1>16. CASE Recycle(p)
  BY <1>16 DEF Recycle, KeptInv
<1>17. ASSUME NEW s \in todo[p], PublishTo(p, s) PROVE KeptInv'
  BY <1>17 DEF PublishTo, KeptInv
<1>18. ASSUME NEW m \in Names, Subscribe(p, m) PROVE KeptInv'
  <2>1. /\ UNCHANGED <<subs, joined, channels>> /\ Lost \subseteq Lost'
        /\ \A q \in Procs : OnChannel(q)' => 
              \/ failed'[q] = {}
              \/ OnChannel(q) /\ ch'[q] = ch[q] /\ failed'[q] = failed[q]
    BY <1>18, SMTT(60) DEF Subscribe, StartCall, CallsInv, Publishing
  <2> QED
    BY <2>1, KeptFrame
<1>19. ASSUME NEW m \in Names, Publish(p, m) PROVE KeptInv'
  <2>1. /\ UNCHANGED <<subs, joined, channels>> /\ Lost \subseteq Lost'
        /\ \A q \in Procs : OnChannel(q)' => 
              \/ failed'[q] = {}
              \/ OnChannel(q) /\ ch'[q] = ch[q] /\ failed'[q] = failed[q]
    BY <1>19 DEF Publish, StartCall, CallsInv, Publishing
  <2> QED
    BY <2>1, KeptFrame
<1> QED
  BY <1>1, <1>2, <1>3, <1>4, <1>5, <1>6, <1>7, <1>8, <1>9, <1>10, <1>11,
     <1>12, <1>13, <1>14, <1>15, <1>16, <1>17, <1>18, <1>19
     DEF Start, Step

(***************************************************************************)
(* The theorems                                                            *)
(***************************************************************************)
LEMMA InitInductive == Init => Inductive
<1> SUFFICES ASSUME Init PROVE Inductive
  OBVIOUS
<1> USE DEF Init
<1>1. ChannelsTypeOK
  BY DEF ChannelsTypeOK
<1>2. CallsTypeOK
  BY CallsAssumption DEF CallsTypeOK, Labels
<1>3. NetTypeOK
  BY DEF NetTypeOK, NoConns
<1>4. OneChannelPerName
  BY DEF OneChannelPerName, OnChannel
<1>5. CallsInv /\ RangeInv
  BY DEF CallsInv, RangeInv, Ranging
<1>6. IdsInv /\ SidsFresh /\ KeptInv
  BY DEF IdsInv, SidsFresh, KeptInv, Subscribing, OnChannel
<1> QED
  BY <1>1, <1>2, <1>3, <1>4, <1>5, <1>6 DEF Inductive, TypeOK

LEMMA StutterInductive == Inductive /\ UNCHANGED vars => Inductive'
<1> SUFFICES ASSUME Inductive, UNCHANGED vars PROVE Inductive'
  OBVIOUS
<1> USE DEF vars, chanVars, lockVars, callVars, netVars, Inductive
<1>1. ChannelsTypeOK'
  BY DEF TypeOK, ChannelsTypeOK
<1>2. CallsTypeOK' /\ NetTypeOK'
  BY DEF TypeOK, CallsTypeOK, NetTypeOK
<1>3. OneChannelPerName' /\ CallsInv'
  BY DEF OneChannelPerName, OnChannel, CallsInv, Publishing
<1>4. RangeInv' /\ IdsInv'
  BY DEF RangeInv, Ranging, IdsInv, Subscribing, OnChannel
<1>5. SidsFresh' /\ KeptInv'
  BY DEF SidsFresh, KeptInv, OnChannel, Lost
<1> QED
  BY <1>1, <1>2, <1>3, <1>4, <1>5 DEF TypeOK

LEMMA NextInductive == Inductive /\ [Next]_vars => Inductive'
<1>1. ASSUME Inductive, Next PROVE Inductive'
  <2>1. PICK p \in Procs : Start(p) \/ Step(p) \/ Disconnect(p) \/ Recycle(p)
    BY <1>1 DEF Next
  <2> USE <1>1 DEF Inductive
  <2>2. ChannelsTypeOK' /\ CallsTypeOK' /\ NetTypeOK'
    BY <2>1, ChannelsType, CallsType, NetType
  <2>3. OneChannelPerName' /\ CallsInv' /\ RangeInv'
    BY <2>1, ChannelsKept, CallsKept, RangeKept
  <2>4. IdsInv' /\ SidsFresh' /\ KeptInv'
    BY <2>1, IdsKept, SidsKept, SubscribersStay
  <2> QED
    BY <2>2, <2>3, <2>4 DEF TypeOK
<1> QED
  BY <1>1, StutterInductive

LEMMA InductiveHolds == Spec => []Inductive
BY InitInductive, NextInductive, PTL DEF Spec

\* Every variable of the broker, its channels and the calls keeps its type,
\* whatever goroutines call Subscribe and Publish at once.
THEOREM TypeCorrect == Spec => []TypeOK
<1>1. Inductive => TypeOK
  BY DEF Inductive
<1> QED
  BY <1>1, InductiveHolds, PTL

\* The double-checked lookup of PubSubBroker.subscribe creates one channel per
\* name, and every call works on it.
THEOREM OneChannel == Spec => []OneChannelPerName
<1>1. Inductive => OneChannelPerName
  BY DEF Inductive
<1> QED
  BY <1>1, InductiveHolds, PTL

\* The ids that pubSubChannel.Subscribe allocates before it takes the lock are
\* nobody else's.
THEOREM FreshSids == Spec => []SidsFresh
<1>1. Inductive => SidsFresh
  BY DEF Inductive
<1> QED
  BY <1>1, InductiveHolds, PTL

\* No subscription of a connection that is still there, and on which no flush
\* has failed, is replaced or evicted, not even by a publisher that evicts
\* another subscription of the same writer.
THEOREM NoSubscriberLost == Spec => []SubscribersKept
<1>1. Inductive => SubscribersKept
  BY DEF Inductive, KeptInv, SubscribersKept
<1> QED
  BY <1>1, InductiveHolds, PTL

\* The map a publisher ranges over does not change under it.
THEOREM StableRange == Spec => RangeStable
<1>1. ASSUME Inductive, [Next]_vars
      PROVE  [\A o \in Objects : readers[o] # {} => subs'[o] = subs[o]]_vars
  <2> SUFFICES ASSUME Next, NEW o \in Objects, readers[o] # {}
               PROVE  subs'[o] = subs[o]
    BY <1>1
  <2>1. PICK p \in Procs : Start(p) \/ Step(p) \/ Disconnect(p) \/ Recycle(p)
    BY DEF Next
  <2>2. CASE Insert(p)
    BY <1>1, <2>2 DEF Insert, Inductive, TypeOK, ChannelsTypeOK
  <2>3. CASE Evict(p)
    BY <1>1, <2>3 DEF Evict, Inductive, TypeOK, ChannelsTypeOK
  <2>4. CASE ~Insert(p) /\ ~Evict(p)
    BY <2>1, <2>4 DEF Start, Step, Subscribe, Publish, WrongNumberOfArgs,
       Create, AllocSid, SubscribeLock, Announce, Acknowledge, PublishRLock,
       PublishTo, PublishAppend, PublishFlush, PublishRUnlock, EvictLock,
       Reply, ServerFlush, Disconnect, Recycle, chanVars
  <2> QED
    BY <2>2, <2>3, <2>4
<1> QED
  BY <1>1, InductiveHolds, PTL DEF Spec, RangeStable

(***************************************************************************)
(* What Publish delivers.                                                  *)
(***************************************************************************)
\* The token that ends the message that p publishes in its call k.
Endings(p, k) ==
    {t \in Tokens : /\ t.kind = "message" /\ t.from = p
                    /\ t.call = k /\ t.part = FrameParts}

\* The subscriptions of its snapshot that p has served, and those to which it
\* has appended the whole message.
InHand(p)    == IF pc[p] = "message" THEN {sid[p]} ELSE {}
Appended(p)  == pc[p] = "message" /\ part[p] = FrameParts
Visited(p)   == DOMAIN snap[p] \ (todo[p] \cup InHand(p))
Completed(p) == IF Appended(p) THEN Visited(p) \cup {sid[p]} ELSE Visited(p)
Of(p, w)     == {s \in Completed(p) : snap[p][s] = w}

SnapOf(p) ==
    /\ ~Publishing(p) => snap[p] = <<>> /\ todo[p] = {} /\ n[p] = 0
    /\ Ranging(p) => snap[p] = subs[ch[p]]
    /\ IsFiniteSet(DOMAIN snap[p]) /\ todo[p] \subseteq DOMAIN snap[p]
    /\ pc[p] = "message" => sid[p] \in DOMAIN snap[p] \ todo[p]
    /\ pc[p] \in {"evictlock", "evict", "reply"} => todo[p] = {}
    /\ failed[p] \subseteq Visited(p)
    /\ n[p] + Cardinality(failed[p]) = Cardinality(Visited(p))

\* The tokens of calls that have begun, and those that do not end the message
\* p publishes.
Within(s, S) == \A i \in 1 .. Len(s) : s[i] \in S
Begun(k)     == {t \in Tokens : t.call <= k[t.from]}
Others(p, k) == Tokens \ Endings(p, k)

\* No token is of a call that has not begun, and a publisher that has not taken
\* the lock has sent nobody anything.
Dated(w)    == Within(buf[w], Begun(calls)) /\ Within(out[w], Begun(calls))
Fresh(p, w) == /\ Within(buf[w], Others(p, calls[p]))
               /\ Within(out[w], Others(p, calls[p]))

\* w has served one connection since p took the lock, and no flush of it failed.
Good(p, w) == w \notin Lost /\ at[p][w] = conns[w]

\* w has received, or has in its buffer, the message that p publishes once for
\* each of its subscriptions that p has served.
Received(p, w) == Tally(out[w], Endings(p, calls[p]))
Buffered(p, w) == Tally(buf[w], Endings(p, calls[p]))
Served(p, w) ==
    /\ Received(p, w) + Buffered(p, w) = Cardinality(Of(p, w))
    /\ Buffered(p, w) # 0 => Appended(p) /\ snap[p][sid[p]] = w

DeliveryInv ==
    /\ \A p \in Procs : SnapOf(p)
    /\ \A w \in Procs : Dated(w)
    /\ \A p, w \in Procs :
          /\ at[p][w] <= conns[w]
          /\ pc[p] = "rlock" => Fresh(p, w)
          /\ Publishing(p) /\ Good(p, w) => Served(p, w)

(***************************************************************************)
(* What a step of p does to the other goroutines, and to the writers.      *)
(***************************************************************************)
LocalsKept(q) ==
    /\ pc'[q] = pc[q] /\ part'[q] = part[q] /\ sid'[q] = sid[q]
    /\ todo'[q] = todo[q] /\ failed'[q] = failed[q] /\ n'[q] = n[q]
    /\ snap'[q] = snap[q] /\ ch'[q] = ch[q] /\ calls'[q] = calls[q]
    /\ at'[q] = at[q]

Same(w)     == out'[w] = out[w] /\ buf'[w] = buf[w]
Adds(w, t)  == out'[w] = out[w] /\ buf'[w] = Append(buf[w], t)
Flushed(w)  == out'[w] = out[w] \o buf[w] /\ buf'[w] = <<>>
Drops(w)    == /\ buf'[w] \in {buf[w], <<>>}
               /\ \/ out'[w] \in {out[w], <<>>}
                  \/ \E k \in 0 .. Len(buf[w]) - 1 :
                        out'[w] = out[w] \o SubSeq(buf[w], 1, k)

\* A flush fails, the client disappears, or the writer serves the next one.
Spoiled(w)  == w \in Lost' \/ conns'[w] > conns[w]
Ages(w)     == conns'[w] >= conns[w] /\ (w \in Lost => Spoiled(w))

LEMMA OthersKept ==
    ASSUME TypeOK, NEW p \in Procs, NEW q \in Procs \ {p},
           Start(p) \/ Step(p) \/ Disconnect(p) \/ Recycle(p)
    PROVE  LocalsKept(q)
<1>0. DOMAIN at = Procs
  BY DEF TypeOK, NetTypeOK
<1> USE <1>0 DEF TypeOK, CallsTypeOK, Goto, callVars, LocalsKept
<1>1. CASE Start(p)
  BY <1>1 DEF Start, Subscribe, Publish, StartCall, WrongNumberOfArgs
<1>2. CASE Disconnect(p) \/ Recycle(p)
  BY <1>2 DEF Disconnect, Recycle
<1>3. CASE Create(p) \/ AllocSid(p) \/ SubscribeLock(p) \/ Insert(p)
  BY <1>3 DEF Create, AllocSid, SubscribeLock, Announce, Insert
<1>4. CASE Acknowledge(p)
  <2>1. CASE part[p] + 1 < FrameParts
    BY <1>4, <2>1 DEF Acknowledge
  <2>2. CASE ~(part[p] + 1 < FrameParts)
    BY <1>4, <2>2 DEF Acknowledge, Return
  <2> QED
    BY <2>1, <2>2
<1>5. CASE PublishRLock(p) \/ (\E s \in todo[p] : PublishTo(p, s)) \/ PublishAppend(p)
  BY <1>5 DEF PublishRLock, PublishTo, PublishAppend
<1>6. CASE PublishFlush(p) \/ PublishRUnlock(p) \/ EvictLock(p) \/ Evict(p)
  BY <1>6 DEF PublishFlush, PublishRUnlock, EvictLock, Announce, Evict
<1>7. CASE Reply(p) \/ ServerFlush(p)
  BY <1>7 DEF Reply, Return, ServerFlush
<1> QED
  BY <1>1, <1>2, <1>3, <1>4, <1>5, <1>6, <1>7 DEF Step

NetEffect(p, w) ==
    \/ Same(w)
    \/ Flushed(w)
    \/ \E t \in Tokens : t.from = p /\ t.call <= calls'[p] /\ Adds(w, t)
    \/ Spoiled(w) /\ Drops(w)

LEMMA AppendEffect ==
    ASSUME TypeOK, NEW p \in Procs, NEW x \in Procs, NEW t \in Tokens,
           t.from = p, t.call <= calls'[p], AppendTo(x, t), out' = out,
           NEW w \in Procs
    PROVE  NetEffect(p, w)
<1>1. CASE w = x
  BY <1>1 DEF TypeOK, NetTypeOK, AppendTo, NetEffect, Adds
<1>2. CASE w # x
  BY <1>2 DEF TypeOK, NetTypeOK, AppendTo, NetEffect, Same
<1> QED
  BY <1>1, <1>2

LEMMA FlushEffect ==
    ASSUME TypeOK, NEW p \in Procs, NEW x \in Procs,
           FlushSucceeds(x) \/ FlushFails(x), broken' = broken, conns' = conns,
           NEW w \in Procs
    PROVE  /\ NetEffect(p, w) /\ Ages(w)
           /\ w # x => Same(w)
           /\ x \notin Lost' => Flushed(x)
<1> USE DEF TypeOK, NetTypeOK
<1>0. Ages(w)
  <2>1. late \subseteq late' /\ conns[w] \in Nat
    BY FlushType
  <2> QED
    BY <2>1, SMTT(60) DEF Ages, Spoiled, Lost
<1>1. CASE FlushFails(x)
  <2>1. x \in Lost'
    BY <1>1 DEF FlushFails, MeetsDeadline, Lost
  <2>2. w # x => Same(w)
    BY <1>1 DEF FlushFails, MeetsDeadline, Same
  <2>3. Drops(x)
    <3>1. CASE out' = out
      BY <1>1, <3>1 DEF FlushFails, Drops
    <3>2. CASE MeetsDeadline(x)
      BY <1>1, <3>2 DEF FlushFails, MeetsDeadline, Drops
    <3> QED
      BY <1>1, <3>1, <3>2 DEF FlushFails
  <2> QED
    BY <1>0, <2>1, <2>2, <2>3 DEF NetEffect, Spoiled
<1>2. CASE FlushSucceeds(x)
  <2>1. w # x => Same(w)
    BY <1>2 DEF FlushSucceeds, Same
  <2>2. x \notin broken => Flushed(x)
    BY <1>2 DEF FlushSucceeds, Flushed
  <2>3. x \in broken => Drops(x) /\ x \in Lost'
    BY <1>2 DEF FlushSucceeds, Drops, Lost
  <2>4. x \notin Lost' => x \notin broken
    BY DEF Lost
  <2> QED
    BY <1>0, <2>1, <2>2, <2>3, <2>4 DEF NetEffect, Spoiled
<1> QED
  BY <1>1, <1>2

LEMMA NetStep ==
    ASSUME Inductive, NEW p \in Procs,
           Start(p) \/ Step(p) \/ Disconnect(p) \/ Recycle(p), NEW w \in Procs
    PROVE  NetEffect(p, w) /\ Ages(w)
<1>0. TypeOK /\ OneChannelPerName /\ RangeInv /\ CallsInv /\ calls[p] \in Nat
  BY DEF Inductive, TypeOK, CallsTypeOK
<1> USE <1>0 DEF netVars
<1>a. ASSUME UNCHANGED <<broken, late, conns>> PROVE Ages(w)
  BY <1>a DEF Ages, Spoiled, Lost, TypeOK, NetTypeOK
<1>b. ASSUME UNCHANGED <<buf, out>> PROVE NetEffect(p, w)
  BY <1>b DEF NetEffect, Same
<1>c. \A i \in Parts, k \in {"subscribe", "message", "int"} :
        /\ Token(p, k, i) \in Tokens /\ Token(p, k, i).from = p
        /\ Token(p, k, i).call = calls[p]
  BY DEF Token, Tokens
<1>d. calls[p] <= calls[p]
  OBVIOUS
<1>e. part[p] < FrameParts => part[p] + 1 \in Parts
  BY CallsAssumption DEF TypeOK, CallsTypeOK, Parts
<1>1. CASE (\E m \in Names : Subscribe(p, m) \/ Publish(p, m)) \/ Create(p)
           \/ AllocSid(p) \/ SubscribeLock(p) \/ Insert(p)
  <2>1. UNCHANGED <<broken, late, conns, buf, out>>
    BY <1>1 DEF Subscribe, Publish, Create, AllocSid, SubscribeLock, Announce,
                Insert
  <2> QED
    BY <2>1, <1>a, <1>b
<1>2. CASE PublishRLock(p) \/ PublishRUnlock(p) \/ EvictLock(p) \/ Evict(p)
  <2>1. UNCHANGED <<broken, late, conns, buf, out>>
    BY <1>2 DEF PublishRLock, PublishRUnlock, EvictLock, Announce, Evict
  <2> QED
    BY <2>1, <1>a, <1>b
<1>3. CASE WrongNumberOfArgs(p)
  <2> DEFINE t == [kind |-> "error", from |-> p, call |-> calls[p] + 1,
                   part |-> FrameParts]
  <2>1. t \in Tokens /\ t.from = p /\ t.call = calls[p] + 1
    BY PartType DEF Tokens
  <2>2. /\ AppendTo(p, t) /\ out' = out /\ UNCHANGED <<broken, late, conns>>
        /\ calls'[p] = calls[p] + 1
    BY <1>3 DEF WrongNumberOfArgs, TypeOK, CallsTypeOK
  <2> HIDE DEF t
  <2>3. t.call <= calls'[p]
    BY <2>1, <2>2
  <2> QED
    BY <2>1, <2>2, <2>3, <1>a, AppendEffect
<1>4. CASE Acknowledge(p)
  <2>1. part[p] + 1 \in Parts /\ calls' = calls
    BY <1>4, <1>e DEF Acknowledge, CallsInv
  <2>2. /\ AppendTo(p, Token(p, "subscribe", part[p] + 1)) /\ out' = out
        /\ UNCHANGED <<broken, late, conns>>
    BY <1>4 DEF Acknowledge
  <2> QED
    BY <2>1, <2>2, <1>a, <1>c, <1>d, AppendEffect
<1>5. ASSUME NEW s \in todo[p], PublishTo(p, s)
      PROVE  NetEffect(p, w) /\ Ages(w)
  <2>1. 1 \in Parts /\ calls' = calls /\ subs[ch[p]][s] \in Procs
    BY <1>5, PartType, ServedType DEF PublishTo, Ranging
  <2>2. /\ AppendTo(subs[ch[p]][s], Token(p, "message", 1)) /\ out' = out
        /\ UNCHANGED <<broken, late, conns>>
    BY <1>5 DEF PublishTo
  <2> QED
    BY <2>1, <2>2, <1>a, <1>c, <1>d, AppendEffect
<1>6. CASE PublishAppend(p)
  <2>1. part[p] + 1 \in Parts /\ calls' = calls /\ subs[ch[p]][sid[p]] \in Procs
    BY <1>6, <1>e, ServedType DEF PublishAppend, Ranging
  <2>2. /\ AppendTo(subs[ch[p]][sid[p]], Token(p, "message", part[p] + 1))
        /\ out' = out /\ UNCHANGED <<broken, late, conns>>
    BY <1>6 DEF PublishAppend
  <2> QED
    BY <2>1, <2>2, <1>a, <1>c, <1>d, AppendEffect
<1>7. CASE Reply(p)
  <2>1. /\ calls' = calls /\ out' = out /\ UNCHANGED <<broken, late, conns>>
        /\ AppendTo(p, Token(p, "int", FrameParts)) \/ UNCHANGED buf
    BY <1>7 DEF Reply
  <2> QED
    BY <2>1, <1>a, <1>b, <1>c, <1>d, PartType, AppendEffect
<1>8. CASE PublishFlush(p)
  <2>1. subs[ch[p]][sid[p]] \in Procs /\ UNCHANGED <<broken, conns>>
    BY <1>8, ServedType DEF PublishFlush, Ranging
  <2>2. FlushSucceeds(subs[ch[p]][sid[p]]) \/ FlushFails(subs[ch[p]][sid[p]])
    BY <1>8 DEF PublishFlush
  <2> QED
    BY <2>1, <2>2, FlushEffect
<1>9. CASE ServerFlush(p)
  <2>1. /\ UNCHANGED <<broken, conns>>
        /\ FlushSucceeds(p) \/ FlushFails(p)
    BY <1>9 DEF ServerFlush
  <2> QED
    BY <2>1, FlushEffect
<1>10. CASE Disconnect(p)
  <2>1. /\ broken' = broken \cup {p} /\ UNCHANGED <<conns, buf, late>>
        /\ out' = [out EXCEPT ![p] = <<>>]
    BY <1>10 DEF Disconnect
  <2>2. w \in Lost => w \in Lost'
    BY <2>1 DEF Lost
  <2>3. Ages(w)
    BY <2>1, <2>2 DEF Ages, Spoiled, TypeOK, NetTypeOK
  <2>4. CASE w = p
    <3>1. Drops(w)
      BY <2>1, <2>4 DEF Drops, TypeOK, NetTypeOK
    <3>2. Spoiled(w)
      BY <2>1, <2>4 DEF Spoiled, Lost
    <3> QED
      BY <2>3, <3>1, <3>2 DEF NetEffect
  <2>5. CASE w # p
    BY <2>1, <2>3, <2>5 DEF NetEffect, Same, TypeOK, NetTypeOK
  <2> QED
    BY <2>4, <2>5
<1>11. CASE Recycle(p)
  <2>1. /\ broken' = broken \ {p} /\ late' = late \ {p}
        /\ conns' = [conns EXCEPT ![p] = @ + 1]
        /\ out' = [out EXCEPT ![p] = <<>>] /\ buf' = [buf EXCEPT ![p] = <<>>]
    BY <1>11 DEF Recycle
  <2>2. conns \in [Procs -> Nat]
    BY DEF TypeOK, NetTypeOK
  <2>3. CASE w = p
    <3>1. conns'[w] > conns[w] /\ conns'[w] >= conns[w]
      BY <2>1, <2>2, <2>3
    <3>2. Drops(w)
      BY <2>1, <2>3 DEF Drops, TypeOK, NetTypeOK
    <3> QED
      BY <3>1, <3>2 DEF NetEffect, Spoiled, Ages
  <2>4. CASE w # p
    <3>1. Same(w)
      BY <2>1, <2>4 DEF Same, TypeOK, NetTypeOK
    <3>2. conns'[w] >= conns[w] /\ (w \in Lost => w \in Lost')
      BY <2>1, <2>2, <2>4 DEF Lost
    <3> QED
      BY <3>1, <3>2 DEF NetEffect, Spoiled, Ages
  <2> QED
    BY <2>3, <2>4
<1> QED
  BY <1>1, <1>2, <1>3, <1>4, <1>5, <1>6, <1>7, <1>8, <1>9, <1>10, <1>11
     DEF Start, Step

(***************************************************************************)
(* Tokens are of calls that have begun.                                    *)
(***************************************************************************)
LEMMA TokenFields ==
    ASSUME NEW s \in Seq(Tokens), NEW i \in 1 .. Len(s)
    PROVE  s[i] \in Tokens /\ s[i].from \in Procs /\ s[i].call \in Nat
<1>1. s[i] \in Tokens
  BY ElementOfSeq
<1> QED
  BY <1>1 DEF Tokens

LEMMA WithinAppend ==
    ASSUME NEW s \in Seq(Tokens), NEW t \in Tokens, NEW S, Within(s, S), t \in S
    PROVE  Within(Append(s, t), S)
<1> DEFINE u == Append(s, t)
           l == Len(s)
<1>1. l \in Nat /\ Len(u) = l + 1 /\ u[l + 1] = t /\ \A i \in 1 .. l : u[i] = s[i]
  BY AppendProperties, LenProperties
<1>2. \A i \in 1 .. l + 1 : i \in 1 .. l \/ i = l + 1
  BY <1>1
<1>3. \A i \in 1 .. l : s[i] \in S
  BY DEF Within
<1> HIDE DEF u, l
<1>4. \A i \in 1 .. l + 1 : u[i] \in S
  BY <1>1, <1>2, <1>3
<1> QED
  BY <1>1, <1>4 DEF Within, u

LEMMA WithinConcat ==
    ASSUME NEW s \in Seq(Tokens), NEW t \in Seq(Tokens), NEW S, Within(s, S),
           Within(t, S)
    PROVE  Within(s \o t, S)
<1> DEFINE u == s \o t
           l == Len(s)
           m == Len(t)
<1>1. /\ l \in Nat /\ m \in Nat /\ Len(u) = l + m
      /\ \A i \in 1 .. l + m : u[i] = IF i <= l THEN s[i] ELSE t[i - l]
  BY ConcatProperties, LenProperties
<1>2. (\A i \in 1 .. l : s[i] \in S) /\ (\A i \in 1 .. m : t[i] \in S)
  BY DEF Within
<1> HIDE DEF u, l, m
<1>3. ASSUME NEW i \in 1 .. l + m PROVE u[i] \in S
  <2>1. CASE i <= l
    <3>1. i \in 1 .. l /\ u[i] = s[i]
      BY <1>1, <2>1
    <3> QED
      BY <1>2, <3>1
  <2>2. CASE ~(i <= l)
    <3>1. i - l \in 1 .. m /\ u[i] = t[i - l]
      BY <1>1, <2>2
    <3> QED
      BY <1>2, <3>1
  <2> QED
    BY <2>1, <2>2
<1> QED
  BY <1>1, <1>3 DEF Within, u

LEMMA WithinPart ==
    ASSUME NEW s \in Seq(Tokens), NEW k \in 0 .. Len(s) - 1, NEW S, Within(s, S)
    PROVE  SubSeq(s, 1, k) \in Seq(Tokens) /\ Within(SubSeq(s, 1, k), S)
<1> DEFINE u == SubSeq(s, 1, k)
           l == Len(s)
<1>1. /\ u \in Seq(Tokens) /\ Len(u) = k /\ k < l /\ k \in Nat /\ l \in Nat
      /\ \A i \in 1 .. k : u[i] = s[i]
  BY PartOf
<1>2. \A i \in 1 .. l : s[i] \in S
  BY DEF Within
<1> HIDE DEF u, l
<1>3. \A i \in 1 .. k : i \in 1 .. l
  BY <1>1
<1>4. \A i \in 1 .. Len(u) : u[i] \in S
  BY <1>1, <1>2, <1>3
<1> QED
  BY <1>1, <1>4 DEF Within, u

\* A step of p adds no tokens but its own.
LEMMA WithinStep ==
    ASSUME TypeOK, NEW p \in Procs, NEW w \in Procs, NetEffect(p, w), NEW S,
           Within(buf[w], S), Within(out[w], S),
           \A t \in Tokens : t.from = p /\ t.call <= calls'[p] => t \in S
    PROVE  Within(buf'[w], S) /\ Within(out'[w], S)
<1>1. buf[w] \in Seq(Tokens) /\ out[w] \in Seq(Tokens)
  BY DEF TypeOK, NetTypeOK
<1>2. Within(<<>>, S)
  BY DEF Within
<1>3. CASE Same(w)
  BY <1>3 DEF Same
<1>4. CASE Flushed(w)
  BY <1>1, <1>2, <1>4, WithinConcat DEF Flushed
<1>5. ASSUME NEW t \in Tokens, t.from = p, t.call <= calls'[p], Adds(w, t)
      PROVE  Within(buf'[w], S) /\ Within(out'[w], S)
  BY <1>1, <1>5, WithinAppend DEF Adds
<1>6. CASE Drops(w)
  <2>1. Within(buf'[w], S)
    BY <1>2, <1>6 DEF Drops
  <2>2. ASSUME NEW k \in 0 .. Len(buf[w]) - 1,
               out'[w] = out[w] \o SubSeq(buf[w], 1, k)
        PROVE  Within(out'[w], S)
    <3>1. SubSeq(buf[w], 1, k) \in Seq(Tokens) /\ Within(SubSeq(buf[w], 1, k), S)
      BY <1>1, WithinPart
    <3> QED
      BY <1>1, <2>2, <3>1, WithinConcat
  <2> QED
    BY <1>2, <1>6, <2>1, <2>2 DEF Drops
<1> QED
  BY <1>3, <1>4, <1>5, <1>6 DEF NetEffect

\* A call that has not begun has published nothing.
LEMMA NoneYet ==
    ASSUME NEW s \in Seq(Tokens), NEW k \in [Procs -> Nat], Within(s, Begun(k)),
           NEW p \in Procs
    PROVE  Within(s, Others(p, k[p] + 1))
<1> SUFFICES ASSUME NEW i \in 1 .. Len(s) PROVE s[i] \in Others(p, k[p] + 1)
  BY DEF Within
<1>1. s[i] \in Tokens /\ s[i].call \in Nat /\ s[i].call <= k[s[i].from]
  BY TokenFields DEF Within, Begun
<1>2. CASE s[i] \in Endings(p, k[p] + 1)
  <2>1. s[i].from = p /\ s[i].call = k[p] + 1 /\ k[p] \in Nat
    BY <1>2 DEF Endings
  <2> QED
    BY <1>1, <2>1
<1> QED
  BY <1>1, <1>2 DEF Others

LEMMA NoEndings ==
    ASSUME NEW s, NEW p, NEW k, Within(s, Others(p, k))
    PROVE  Tally(s, Endings(p, k)) = 0
<1>1. Positions(s, Endings(p, k)) = {}
  BY DEF Positions, Within, Others
<1> QED
  BY <1>1, FS_EmptySet DEF Tally

LEMMA CallsGrow ==
    ASSUME TypeOK, TypeOK', NEW p \in Procs,
           Start(p) \/ Step(p) \/ Disconnect(p) \/ Recycle(p)
    PROVE  /\ calls \in [Procs -> Nat] /\ calls' \in [Procs -> Nat]
           /\ \A q \in Procs : calls[q] <= calls'[q]
<1>1. calls \in [Procs -> Nat] /\ calls' \in [Procs -> Nat]
  BY DEF TypeOK, CallsTypeOK
<1>2. calls' = calls \/ calls' = [calls EXCEPT ![p] = @ + 1]
  BY DEF Start, Step, Subscribe, Publish, StartCall, WrongNumberOfArgs, Create,
     AllocSid, SubscribeLock, Announce, Insert, Acknowledge, PublishRLock,
     PublishTo, PublishAppend, PublishFlush, PublishRUnlock, EvictLock, Evict,
     Reply, ServerFlush, Disconnect, Recycle
<1> QED
  BY <1>1, <1>2

LEMMA DatedStep ==
    ASSUME TypeOK, NEW p \in Procs, NEW w \in Procs, Dated(w), NetEffect(p, w),
           calls \in [Procs -> Nat], calls' \in [Procs -> Nat],
           \A q \in Procs : calls[q] <= calls'[q]
    PROVE  Dated(w)'
<1>1. ASSUME NEW t \in Begun(calls) PROVE t \in Begun(calls')
  <2>1. t \in Tokens /\ t.from \in Procs /\ t.call \in Nat /\ t.call <= calls[t.from]
    BY DEF Begun, Tokens
  <2>2. calls[t.from] \in Nat /\ calls'[t.from] \in Nat /\ calls[t.from] <= calls'[t.from]
    BY <2>1
  <2>3. t.call <= calls'[t.from]
    BY <2>1, <2>2
  <2> QED
    BY <2>1, <2>3 DEF Begun
<1>2. Within(buf[w], Begun(calls')) /\ Within(out[w], Begun(calls'))
  BY <1>1 DEF Dated, Within
<1>3. \A t \in Tokens : t.from = p /\ t.call <= calls'[p] => t \in Begun(calls')
  BY DEF Begun
<1> QED
  BY <1>2, <1>3, WithinStep DEF Dated

LEMMA FreshOther ==
    ASSUME TypeOK, NEW p \in Procs, NEW q \in Procs \ {p}, NEW w \in Procs,
           NetEffect(p, w), LocalsKept(q), Fresh(q, w)
    PROVE  Fresh(q, w)'
<1>1. \A t \in Tokens : t.from = p => t \in Others(q, calls[q])
  BY DEF Others, Endings
<1>2. Within(buf'[w], Others(q, calls[q])) /\ Within(out'[w], Others(q, calls[q]))
  BY <1>1, WithinStep DEF Fresh
<1>3. calls'[q] = calls[q]
  BY DEF LocalsKept
<1> QED
  BY <1>2, <1>3 DEF Fresh

LEMMA FreshStep ==
    ASSUME TypeOK, NEW p \in Procs, NEW w \in Procs, Dated(w),
           Start(p) \/ Step(p) \/ Disconnect(p) \/ Recycle(p),
           pc[p] = "rlock" => Fresh(p, w), pc'[p] = "rlock"
    PROVE  Fresh(p, w)'
<1>0. buf[w] \in Seq(Tokens) /\ out[w] \in Seq(Tokens) /\ calls \in [Procs -> Nat]
  BY DEF TypeOK, NetTypeOK, CallsTypeOK
<1>1. ASSUME NEW m \in Names, Publish(p, m) PROVE Fresh(p, w)'
  <2>1. buf' = buf /\ out' = out /\ calls'[p] = calls[p] + 1
    BY <1>0, <1>1 DEF Publish, StartCall, netVars
  <2>2. /\ Within(buf[w], Others(p, calls[p] + 1))
        /\ Within(out[w], Others(p, calls[p] + 1))
    BY <1>0, NoneYet DEF Dated
  <2> QED
    BY <2>1, <2>2 DEF Fresh
<1>2. CASE Disconnect(p)
  <2>1. /\ buf' = buf /\ out'[w] \in {out[w], <<>>} /\ calls' = calls /\ pc' = pc
    BY <1>2 DEF Disconnect, TypeOK, NetTypeOK
  <2>2. Within(<<>>, Others(p, calls[p]))
    BY DEF Within
  <2> QED
    BY <2>1, <2>2 DEF Fresh
<1>3. CASE (\E m \in Names : Subscribe(p, m)) \/ WrongNumberOfArgs(p) \/ Create(p)
           \/ AllocSid(p) \/ SubscribeLock(p) \/ Insert(p) \/ Acknowledge(p)
  BY <1>3 DEF Subscribe, WrongNumberOfArgs, Create, AllocSid, SubscribeLock,
       Insert, Acknowledge, Goto, TypeOK, CallsTypeOK
<1>4. CASE PublishRLock(p) \/ (\E s \in todo[p] : PublishTo(p, s)) \/ PublishAppend(p)
           \/ PublishFlush(p) \/ PublishRUnlock(p) \/ EvictLock(p) \/ Evict(p)
           \/ Reply(p) \/ ServerFlush(p) \/ Recycle(p)
  BY <1>4 DEF PublishRLock, PublishTo, PublishAppend, PublishFlush, PublishRUnlock,
       EvictLock, Evict, Reply, ServerFlush, Recycle, Goto, TypeOK, CallsTypeOK
<1> QED
  BY <1>1, <1>2, <1>3, <1>4 DEF Start, Step

\* The connections a publisher has noted.
LEMMA AtStep ==
    ASSUME TypeOK, NEW p \in Procs,
           Start(p) \/ Step(p) \/ Disconnect(p) \/ Recycle(p)
    PROVE  \/ at'[p] = at[p]
           \/ at'[p] = conns /\ PublishRLock(p)
           \/ at'[p] = NoConns /\ pc'[p] \in {"idle", "flush"}
<1>0. DOMAIN at = Procs
  BY DEF TypeOK, NetTypeOK
<1> USE <1>0 DEF TypeOK, CallsTypeOK, Goto, callVars
<1>1. CASE PublishRLock(p)
  BY <1>1 DEF PublishRLock
<1>2. CASE Reply(p)
  BY <1>2 DEF Reply, Return
<1>3. CASE Acknowledge(p)
  BY <1>3 DEF Acknowledge, Return
<1>4. CASE ~PublishRLock(p) /\ ~Reply(p) /\ ~Acknowledge(p)
  <2>1. at' = at
    BY <1>4 DEF Start, Step, Subscribe, Publish, WrongNumberOfArgs, Create, AllocSid,
       SubscribeLock, Announce, Insert, PublishTo, PublishAppend, PublishFlush,
       PublishRUnlock, EvictLock, Evict, ServerFlush, Disconnect, Recycle
  <2> QED
    BY <2>1
<1> QED
  BY <1>1, <1>2, <1>3, <1>4

LEMMA AtKept ==
    ASSUME TypeOK, NEW p \in Procs, NEW q \in Procs, NEW w \in Procs,
           at[q][w] <= conns[w], Ages(w), TypeOK',
           at'[q] \in {at[q], conns, NoConns}
    PROVE  /\ at'[q][w] <= conns'[w]
           /\ at'[q] = at[q] /\ Good(q, w)' => Good(q, w) /\ ~Spoiled(w)
<1>1. conns[w] \in Nat /\ conns'[w] \in Nat /\ at[q][w] \in Nat
  BY DEF TypeOK, NetTypeOK, CallsTypeOK
<1>2. conns'[w] >= conns[w] /\ NoConns[w] = 0
  BY DEF Ages, NoConns
<1>3. at'[q][w] <= conns'[w]
  BY <1>1, <1>2
<1>4. ASSUME at'[q] = at[q], Good(q, w)' PROVE Good(q, w) /\ ~Spoiled(w)
  <2>1. w \notin Lost' /\ at[q][w] = conns'[w]
    BY <1>4 DEF Good
  <2>2. conns'[w] = conns[w] /\ ~(conns'[w] > conns[w])
    BY <1>1, <1>2, <2>1
  <2> QED
    BY <2>1, <2>2 DEF Good, Ages, Spoiled
<1> QED
  BY <1>3, <1>4

(***************************************************************************)
(* The snapshot of a publisher and what it has done with it.               *)
(***************************************************************************)
LEMMA SnapOther ==
    ASSUME NEW q \in Procs, SnapOf(q), LocalsKept(q),
           Ranging(q) => subs'[ch[q]] = subs[ch[q]]
    PROVE  SnapOf(q)'
<1>1. Visited(q)' = Visited(q)
  BY DEF LocalsKept, Visited, InHand
<1>2. (Ranging(q)' <=> Ranging(q)) /\ (Publishing(q)' <=> Publishing(q))
  BY DEF LocalsKept, Ranging, Publishing
<1> HIDE DEF Visited
<1> QED
  BY <1>1, <1>2 DEF SnapOf, LocalsKept

\* A goroutine that does not publish, after a step, has no snapshot.
LEMMA SnapNoneNext ==
    ASSUME NEW p, snap'[p] = <<>>, todo'[p] = {}, failed'[p] = {}, n'[p] = 0,
           pc'[p] \notin {"range", "message"}
    PROVE  SnapOf(p)'
<1>1. DOMAIN snap'[p] = {} /\ Visited(p)' = {}
  BY DEF Visited
<1>2. IsFiniteSet({}) /\ Cardinality({}) = 0
  BY FS_EmptySet
<1> QED
  BY <1>1, <1>2 DEF SnapOf, Ranging

LEMMA UpToFinite == ASSUME NEW k \in Nat PROVE IsFiniteSet(1 .. k)
BY FS_Interval

LEMMA SnapStep ==
    ASSUME Inductive, NEW p \in Procs, SnapOf(p),
           Start(p) \/ Step(p) \/ Disconnect(p) \/ Recycle(p)
    PROVE  SnapOf(p)'
<1>0. TypeOK /\ OneChannelPerName /\ RangeInv /\ CallsInv /\ IdsInv
  BY DEF Inductive
<1> USE <1>0 DEF TypeOK, CallsTypeOK, Goto, callVars
<1>a. ~Publishing(p) => /\ snap[p] = <<>> /\ todo[p] = {} /\ failed[p] = {}
                        /\ n[p] = 0
  BY DEF SnapOf, CallsInv
<1>b. ASSUME UNCHANGED <<snap, todo, failed, n>>, ~Publishing(p),
             pc'[p] \notin {"range", "message"}
      PROVE  SnapOf(p)'
  BY <1>a, <1>b, SnapNoneNext
<1>c. ASSUME Return(p), pc'[p] \notin {"range", "message"} PROVE SnapOf(p)'
  BY <1>c, SnapNoneNext DEF Return
<1>d. ASSUME UNCHANGED <<snap, todo, failed, n>>, Publishing(p),
             Visited(p)' = Visited(p), todo[p] = {},
             pc'[p] \in {"evictlock", "evict", "reply"}
      PROVE  SnapOf(p)'
  BY <1>d DEF SnapOf, Publishing, Ranging
<1>1. ASSUME NEW m \in Names, Subscribe(p, m) PROVE SnapOf(p)'
  BY <1>1, <1>b DEF Subscribe, StartCall, Publishing
<1>2. ASSUME NEW m \in Names, Publish(p, m) PROVE SnapOf(p)'
  BY <1>2, <1>b DEF Publish, StartCall, Publishing
<1>3. CASE Create(p) \/ AllocSid(p) \/ SubscribeLock(p) \/ Insert(p)
  BY <1>3, <1>b DEF Create, AllocSid, SubscribeLock, Announce, Insert, Publishing
<1>4. CASE Acknowledge(p)
  <2>1. ~Publishing(p) /\ pc'[p] \notin {"range", "message"}
    BY <1>4, AcknowledgeEffect DEF Acknowledge, Publishing
  <2>2. Return(p) \/ UNCHANGED <<snap, todo, failed, n>>
    BY <1>4 DEF Acknowledge
  <2> QED
    BY <2>1, <2>2, <1>b, <1>c
<1>5. CASE PublishRLock(p)
  <2>1. ~Publishing(p) /\ ch[p] \in Objects
    BY <1>5, ChType DEF PublishRLock, Publishing, OnChannel
  <2>2. /\ snap'[p] = subs[ch[p]] /\ todo'[p] = DOMAIN subs[ch[p]]
        /\ failed'[p] = {} /\ n'[p] = 0 /\ pc'[p] = "range"
        /\ subs' = subs /\ ch'[p] = ch[p]
    BY <1>5, <1>a, <2>1 DEF PublishRLock, chanVars
  <2>3. Visited(p)' = {}
    BY <2>2 DEF Visited
  <2>4. IsFiniteSet(DOMAIN subs[ch[p]])
    <3>1. DOMAIN subs[ch[p]] \subseteq 1 .. nextID[ch[p]] /\ nextID[ch[p]] \in Nat
      BY <2>1 DEF IdsInv, ChannelsTypeOK
    <3>2. IsFiniteSet(1 .. nextID[ch[p]])
      BY <3>1, UpToFinite
    <3> QED
      BY <3>1, <3>2, FS_Subset
  <2>5. Cardinality({}) = 0
    BY FS_EmptySet
  <2>6. 0 + 0 = 0
    OBVIOUS
  <2> QED
    BY <2>2, <2>3, <2>4, <2>5, <2>6 DEF SnapOf, Publishing, Ranging
<1>6. ASSUME NEW s \in todo[p], PublishTo(p, s) PROVE SnapOf(p)'
  <2>1. /\ pc[p] = "range" /\ pc'[p] = "message" /\ sid'[p] = s
        /\ todo'[p] = todo[p] \ {s} /\ UNCHANGED <<snap, failed, n, subs, ch>>
    BY <1>6 DEF PublishTo, chanVars
  <2>2. Visited(p)' = Visited(p)
    BY <2>1 DEF Visited, InHand
  <2>3. /\ snap[p] = subs[ch[p]] /\ IsFiniteSet(DOMAIN snap[p])
        /\ todo[p] \subseteq DOMAIN snap[p] /\ failed[p] \subseteq Visited(p)
        /\ n[p] + Cardinality(failed[p]) = Cardinality(Visited(p))
    BY <2>1 DEF SnapOf, Ranging
  <2> HIDE DEF Visited
  <2> QED
    BY <2>1, <2>2, <2>3 DEF SnapOf, Publishing, Ranging
<1>7. CASE PublishAppend(p)
  <2>1. /\ pc[p] = "message" /\ pc' = pc
        /\ UNCHANGED <<snap, failed, n, subs, ch, todo, sid>>
    BY <1>7 DEF PublishAppend, chanVars
  <2>2. Visited(p)' = Visited(p)
    BY <2>1 DEF Visited, InHand
  <2> HIDE DEF Visited
  <2> QED
    BY <2>1, <2>2 DEF SnapOf, Publishing, Ranging
<1>8. CASE PublishFlush(p)
  <2>1. /\ pc[p] = "message" /\ pc'[p] = "range"
        /\ UNCHANGED <<snap, subs, ch, todo, sid>>
    BY <1>8 DEF PublishFlush, chanVars
  <2>2. /\ snap[p] = subs[ch[p]] /\ IsFiniteSet(DOMAIN snap[p])
        /\ todo[p] \subseteq DOMAIN snap[p] /\ failed[p] \subseteq Visited(p)
        /\ n[p] + Cardinality(failed[p]) = Cardinality(Visited(p))
        /\ sid[p] \in DOMAIN snap[p] \ todo[p]
    BY <2>1 DEF SnapOf, Ranging
  <2>3. /\ Visited(p)' = Visited(p) \cup {sid[p]} /\ sid[p] \notin Visited(p)
        /\ Visited(p) \subseteq DOMAIN snap[p]
    BY <2>1, <2>2 DEF Visited, InHand
  <2> HIDE DEF Visited
  <2>4. IsFiniteSet(Visited(p)) /\ IsFiniteSet(failed[p])
    BY <2>2, <2>3, FS_Subset
  <2>5. /\ Cardinality(Visited(p)) \in Nat /\ Cardinality(failed[p]) \in Nat
        /\ n[p] \in Nat
    BY <2>4, FS_CardinalityType
  <2>6. Cardinality(Visited(p)') = Cardinality(Visited(p)) + 1
    BY <2>3, <2>4, FS_AddElement, ZenonT(60)
  <2>7. \/ failed'[p] = failed[p] /\ n'[p] = n[p] + 1
        \/ failed'[p] = failed[p] \cup {sid[p]} /\ n'[p] = n[p]
    BY <1>8 DEF PublishFlush
  <2>8. sid[p] \notin failed[p]
    BY <2>2, <2>3
  <2>9. /\ failed'[p] \subseteq Visited(p)'
        /\ n'[p] + Cardinality(failed'[p]) = Cardinality(Visited(p)')
    <3>1. CASE failed'[p] = failed[p] /\ n'[p] = n[p] + 1
      BY <2>2, <2>3, <2>5, <2>6, <3>1
    <3>2. CASE failed'[p] = failed[p] \cup {sid[p]} /\ n'[p] = n[p]
      <4>1. Cardinality(failed'[p]) = Cardinality(failed[p]) + 1
        BY <2>4, <2>8, <3>2, FS_AddElement
      <4>2. n'[p] + Cardinality(failed'[p]) = Cardinality(Visited(p)')
        BY <2>2, <2>5, <2>6, <3>2, <4>1
      <4> QED
        BY <2>2, <2>3, <3>2, <4>2
    <3> QED
      BY <2>7, <3>1, <3>2
  <2> QED
    BY <2>1, <2>2, <2>9 DEF SnapOf, Publishing, Ranging
<1>9. CASE PublishRUnlock(p)
  <2>1. /\ pc[p] = "range" /\ todo[p] = {} /\ pc'[p] \in {"reply", "evictlock"}
        /\ UNCHANGED <<snap, todo, failed, n, sid>>
    BY <1>9 DEF PublishRUnlock
  <2>2. Visited(p)' = Visited(p) /\ Publishing(p)
    BY <2>1 DEF Visited, InHand, Publishing
  <2> QED
    BY <2>1, <2>2, <1>d
<1>10. CASE EvictLock(p) \/ Evict(p)
  <2>1. /\ pc[p] \in {"evictlock", "evict"} /\ pc'[p] \in {"reply", "evict"}
        /\ UNCHANGED <<snap, todo, failed, n, sid>>
    BY <1>10 DEF EvictLock, Announce, Evict
  <2>2. Visited(p)' = Visited(p) /\ Publishing(p)
    BY <2>1 DEF Visited, InHand, Publishing
  <2>3. todo[p] = {}
    BY <2>1 DEF SnapOf
  <2> QED
    BY <2>1, <2>2, <2>3, <1>d
<1>11. CASE Reply(p)
  BY <1>11, <1>c DEF Reply
<1>12. CASE ServerFlush(p) \/ WrongNumberOfArgs(p) \/ Recycle(p)
  BY <1>12, <1>b DEF ServerFlush, WrongNumberOfArgs, Recycle, Publishing
<1>13. CASE Disconnect(p)
  <2>1. LocalsKept(p) /\ subs' = subs
    BY <1>13 DEF Disconnect, LocalsKept, chanVars
  <2> QED
    BY <2>1, SnapOther
<1> QED
  BY <1>1, <1>2, <1>3, <1>4, <1>5, <1>6, <1>7, <1>8, <1>9, <1>10, <1>11, <1>12,
     <1>13 DEF Start, Step

(***************************************************************************)
(* What a writer has of the message a publisher publishes.                 *)
(***************************************************************************)
LEMMA TalliesNat ==
    ASSUME TypeOK, NEW p, NEW w \in Procs
    PROVE  /\ buf[w] \in Seq(Tokens) /\ out[w] \in Seq(Tokens)
           /\ Received(p, w) \in Nat /\ Buffered(p, w) \in Nat
<1>1. buf[w] \in Seq(Tokens) /\ out[w] \in Seq(Tokens)
  BY DEF TypeOK, NetTypeOK
<1> QED
  BY <1>1, PositionsFinite DEF Received, Buffered

\* What is in w's buffer remains what p has just appended.
Held(p, w)  == Appended(p) /\ snap[p][sid[p]] = w
Holds(p, w) == Held(p, w) => Held(p, w)'

LEMMA ServedSame ==
    ASSUME NEW p, NEW w, Served(p, w), Same(w), calls'[p] = calls[p],
           Of(p, w)' = Of(p, w), Holds(p, w)
    PROVE  Served(p, w)'
<1>1. Received(p, w)' = Received(p, w) /\ Buffered(p, w)' = Buffered(p, w)
  BY DEF Received, Buffered, Same
<1> HIDE DEF Received, Buffered, Of, Appended
<1> QED
  BY <1>1 DEF Served, Holds, Held

LEMMA ServedFlushed ==
    ASSUME TypeOK, NEW p, NEW w \in Procs, Served(p, w), Flushed(w),
           calls'[p] = calls[p], Of(p, w)' = Of(p, w)
    PROVE  Served(p, w)'
<1> DEFINE E == Endings(p, calls[p])
<1>1. buf[w] \in Seq(Tokens) /\ out[w] \in Seq(Tokens)
  BY DEF TypeOK, NetTypeOK
<1> HIDE DEF E
<1>2. Tally(out[w] \o buf[w], E) = Tally(out[w], E) + Tally(buf[w], E)
  BY <1>1, TallyConcat
<1>3. Tally(<<>>, E) = 0
  BY TallyEmpty
<1>4. /\ Received(p, w)' = Received(p, w) + Buffered(p, w)
      /\ Buffered(p, w)' = 0
  BY <1>2, <1>3 DEF Received, Buffered, Flushed, E
<1>5. Received(p, w) \in Nat /\ Buffered(p, w) \in Nat
  BY TalliesNat
<1>6. Received(p, w)' + Buffered(p, w)' = Received(p, w) + Buffered(p, w)
  BY <1>4, <1>5
<1> QED
  BY <1>4, <1>6 DEF Served

LEMMA ServedAdds ==
    ASSUME TypeOK, NEW p, NEW w \in Procs, Served(p, w), NEW t \in Tokens,
           Adds(w, t), t \notin Endings(p, calls[p]), calls'[p] = calls[p],
           Of(p, w)' = Of(p, w), Holds(p, w)
    PROVE  Served(p, w)'
<1>1. buf[w] \in Seq(Tokens)
  BY DEF TypeOK, NetTypeOK
<1>2. Tally(Append(buf[w], t), Endings(p, calls[p])) = Buffered(p, w)
  BY <1>1, TallyAppend DEF Buffered
<1>3. Received(p, w)' = Received(p, w) /\ Buffered(p, w)' = Buffered(p, w)
  BY <1>2 DEF Received, Buffered, Adds
<1> HIDE DEF Received, Buffered, Of, Appended
<1> QED
  BY <1>3 DEF Served, Holds, Held

\* The last append of the message to one subscriber.
LEMMA ServedEnds ==
    ASSUME TypeOK, NEW p, NEW w \in Procs, Served(p, w), NEW t \in Tokens,
           Adds(w, t), t \in Endings(p, calls[p]), calls'[p] = calls[p],
           ~Held(p, w), Held(p, w)', NEW s, s \notin Of(p, w),
           IsFiniteSet(Of(p, w)), Of(p, w)' = Of(p, w) \cup {s}
    PROVE  Served(p, w)'
<1>1. buf[w] \in Seq(Tokens)
  BY DEF TypeOK, NetTypeOK
<1>2. Tally(Append(buf[w], t), Endings(p, calls[p])) = Buffered(p, w) + 1
  BY <1>1, TallyAppend DEF Buffered
<1>3. Received(p, w)' = Received(p, w) /\ Buffered(p, w)' = Buffered(p, w) + 1
  BY <1>2 DEF Received, Buffered, Adds
<1>4. Cardinality(Of(p, w)') = Cardinality(Of(p, w)) + 1
  BY FS_AddElement
<1>5. /\ Received(p, w) \in Nat /\ Buffered(p, w) \in Nat
      /\ Received(p, w) + Buffered(p, w) = Cardinality(Of(p, w))
  BY TalliesNat DEF Served
<1>6. Received(p, w)' + Buffered(p, w)' = Cardinality(Of(p, w)')
  BY <1>3, <1>4, <1>5
<1> QED
  BY <1>6 DEF Served, Held

LEMMA ServedOther ==
    ASSUME TypeOK, NEW p \in Procs, NEW q \in Procs \ {p}, NEW w \in Procs,
           NetEffect(p, w), ~Spoiled(w), LocalsKept(q), Served(q, w)
    PROVE  Served(q, w)'
<1>1. Of(q, w)' = Of(q, w) /\ calls'[q] = calls[q]
  BY DEF LocalsKept, Of, Completed, Visited, InHand, Appended
<1>2. Holds(q, w)
  BY DEF LocalsKept, Holds, Held, Appended
<1>3. CASE Same(w)
  BY <1>1, <1>2, <1>3, ServedSame
<1>4. CASE Flushed(w)
  BY <1>1, <1>4, ServedFlushed
<1>5. ASSUME NEW t \in Tokens, t.from = p, Adds(w, t) PROVE Served(q, w)'
  <2>1. t \notin Endings(q, calls[q])
    BY <1>5 DEF Endings
  <2> QED
    BY <1>1, <1>2, <1>5, <2>1, ServedAdds
<1> QED
  BY <1>3, <1>4, <1>5 DEF NetEffect

LEMMA OfFinite ==
    ASSUME NEW p, NEW w, SnapOf(p)
    PROVE  IsFiniteSet(Of(p, w)) /\ Completed(p) \subseteq DOMAIN snap[p]
<1>1. Completed(p) \subseteq DOMAIN snap[p] /\ IsFiniteSet(DOMAIN snap[p])
  BY DEF SnapOf, Completed, Visited, Appended
<1>2. Of(p, w) \subseteq DOMAIN snap[p]
  BY <1>1 DEF Of
<1> QED
  BY <1>1, <1>2, FS_Subset

\* A call that starts has sent nobody anything.
LEMMA ServedNone ==
    ASSUME NEW p, NEW w, Received(p, w)' = 0, Buffered(p, w)' = 0,
           snap'[p] = <<>>, pc'[p] # "message"
    PROVE  Served(p, w)'
<1>1. Of(p, w)' = {}
  BY DEF Of, Completed, Visited, Appended
<1>2. Cardinality({}) = 0 /\ 0 + 0 = 0
  BY FS_EmptySet
<1> HIDE DEF Of, Received, Buffered
<1> QED
  BY <1>1, <1>2 DEF Served

\* One of the appends of the message to the subscription s of p's snapshot.
LEMMA ServedAppend ==
    ASSUME TypeOK, NEW p \in Procs, NEW w \in Procs, SnapOf(p), Served(p, w),
           ~Appended(p), pc'[p] = "message", calls' = calls, snap' = snap,
           out' = out, Visited(p)' = Visited(p), part'[p] \in Parts,
           sid'[p] \in DOMAIN snap[p] \ Visited(p),
           snap[p][sid'[p]] \in Procs,
           AppendTo(snap[p][sid'[p]], Token(p, "message", part'[p]))
    PROVE  Served(p, w)'
<1> DEFINE t == Token(p, "message", part'[p])
           s == sid'[p]
           x == snap[p][s]
<1>1. t \in Tokens /\ (t \in Endings(p, calls[p]) <=> part'[p] = FrameParts)
  BY DEF Token, Tokens, Endings, TypeOK, CallsTypeOK
<1>2. (w # x => Same(w)) /\ (w = x => Adds(w, t))
  BY DEF AppendTo, Same, Adds, TypeOK, NetTypeOK
<1>3. ~Held(p, w) /\ Holds(p, w)
  BY DEF Held, Holds
<1>4. /\ Completed(p) = Visited(p)
      /\ Completed(p)' = IF part'[p] = FrameParts THEN Visited(p) \cup {s}
                                                  ELSE Visited(p)
  BY DEF Completed, Appended
<1>5. IsFiniteSet(Of(p, w)) /\ s \notin Of(p, w)
  BY <1>4, OfFinite DEF Of
<1>6. calls'[p] = calls[p]
  OBVIOUS
<1> HIDE DEF t, s, Visited
<1>7. CASE w # x
  <2>1. Of(p, w)' = Of(p, w)
    BY <1>4, <1>7 DEF Of
  <2> QED
    BY <1>2, <1>3, <1>6, <1>7, <2>1, ServedSame
<1>8. CASE w = x /\ part'[p] # FrameParts
  <2>1. Of(p, w)' = Of(p, w)
    BY <1>4, <1>8 DEF Of
  <2> QED
    BY <1>1, <1>2, <1>3, <1>6, <1>8, <2>1, ServedAdds
<1>9. CASE w = x /\ part'[p] = FrameParts
  <2>1. Of(p, w)' = Of(p, w) \cup {s}
    BY <1>4, <1>9 DEF Of
  <2>2. Held(p, w)'
    BY <1>9 DEF Held, Appended, s
  <2> QED
    BY <1>1, <1>2, <1>3, <1>5, <1>6, <1>9, <2>1, <2>2, ServedEnds
<1> QED
  BY <1>7, <1>8, <1>9

LEMMA ServedStep ==
    ASSUME Inductive, NEW p \in Procs, NEW w \in Procs, SnapOf(p), Dated(w),
           Start(p) \/ Step(p) \/ Disconnect(p) \/ Recycle(p),
           pc[p] = "rlock" => Fresh(p, w), Publishing(p) => Served(p, w),
           Publishing(p)', w \notin Lost'
    PROVE  Served(p, w)'
<1>0. /\ TypeOK /\ OneChannelPerName /\ RangeInv /\ CallsInv
      /\ calls \in [Procs -> Nat] /\ calls[p] \in Nat
  BY DEF Inductive, TypeOK, CallsTypeOK
<1> USE <1>0
<1>a. ASSUME Publishing(p), UNCHANGED <<buf, out, calls, snap, todo>>,
             Completed(p)' = Completed(p), ~Appended(p)
      PROVE  Served(p, w)'
  <2>1. Same(w) /\ calls'[p] = calls[p] /\ Of(p, w)' = Of(p, w) /\ Holds(p, w)
    BY <1>a DEF Same, Of, Holds, Held
  <2> QED
    BY <1>a, <2>1, ServedSame
<1>1. ASSUME NEW m \in Names, Publish(p, m) PROVE Served(p, w)'
  <2>1. /\ pc[p] = "idle" /\ pc'[p] # "message" /\ UNCHANGED <<buf, out, snap>>
        /\ calls'[p] = calls[p] + 1
    BY <1>1 DEF Publish, StartCall, Goto, TypeOK, CallsTypeOK, netVars
  <2>2. snap'[p] = <<>>
    BY <2>1 DEF SnapOf, Publishing
  <2>3. /\ buf[w] \in Seq(Tokens) /\ out[w] \in Seq(Tokens)
        /\ Within(buf[w], Begun(calls)) /\ Within(out[w], Begun(calls))
    BY TalliesNat DEF Dated
  <2>4. /\ Within(buf[w], Others(p, calls[p] + 1))
        /\ Within(out[w], Others(p, calls[p] + 1))
    BY <2>3, NoneYet
  <2>5. /\ Tally(buf[w], Endings(p, calls[p] + 1)) = 0
        /\ Tally(out[w], Endings(p, calls[p] + 1)) = 0
    BY <2>4, NoEndings
  <2>6. Received(p, w)' = 0 /\ Buffered(p, w)' = 0
    BY <2>1, <2>5 DEF Received, Buffered
  <2> QED
    BY <2>1, <2>2, <2>6, ServedNone
<1>2. CASE PublishRLock(p)
  <2>1. /\ pc[p] = "rlock" /\ pc'[p] = "range" /\ ch[p] \in Objects
        /\ UNCHANGED <<buf, out, calls>> /\ snap'[p] = subs[ch[p]]
        /\ todo'[p] = DOMAIN subs[ch[p]]
    BY <1>2, ChType DEF PublishRLock, OnChannel, Goto, netVars, TypeOK, CallsTypeOK
  <2>2. Of(p, w)' = {}
    BY <2>1 DEF Of, Completed, Visited, Appended
  <2>3. Received(p, w)' = 0 /\ Buffered(p, w)' = 0
    BY <2>1, NoEndings DEF Fresh, Received, Buffered
  <2>4. Cardinality({}) = 0 /\ 0 + 0 = 0
    BY FS_EmptySet
  <2> HIDE DEF Of, Received, Buffered
  <2> QED
    BY <2>2, <2>3, <2>4 DEF Served
<1>3. ASSUME NEW s \in todo[p], PublishTo(p, s) PROVE Served(p, w)'
  <2>1. /\ pc[p] = "range" /\ pc'[p] = "message" /\ UNCHANGED <<snap, calls, out>>
        /\ sid'[p] = s /\ part'[p] = 1 /\ todo'[p] = todo[p] \ {s}
        /\ AppendTo(subs[ch[p]][s], Token(p, "message", 1))
    BY <1>3 DEF PublishTo, Goto, TypeOK, CallsTypeOK
  <2>2. /\ snap[p] = subs[ch[p]] /\ s \in DOMAIN snap[p] /\ s \notin Visited(p)
        /\ Publishing(p) /\ ~Appended(p)
    BY <2>1 DEF SnapOf, Ranging, Visited, Publishing, Appended
  <2>3. Visited(p)' = Visited(p)
    BY <2>1 DEF Visited, InHand
  <2>4. subs[ch[p]][s] \in Procs /\ 1 \in Parts
    BY <2>1, ServedType, PartType DEF Ranging
  <2> HIDE DEF Visited, Appended, Served
  <2> QED
    BY <2>1, <2>2, <2>3, <2>4, ServedAppend
<1>4. CASE PublishAppend(p)
  <2>1. /\ pc[p] = "message" /\ pc'[p] = "message"
        /\ UNCHANGED <<snap, calls, out, sid, todo>>
        /\ part[p] < FrameParts /\ part'[p] = part[p] + 1
        /\ AppendTo(subs[ch[p]][sid[p]], Token(p, "message", part[p] + 1))
    BY <1>4 DEF PublishAppend, TypeOK, CallsTypeOK
  <2>2. part[p] + 1 \in Parts /\ part[p] # FrameParts
    BY <2>1, CallsAssumption DEF TypeOK, CallsTypeOK, Parts
  <2>3. /\ snap[p] = subs[ch[p]] /\ sid[p] \in DOMAIN snap[p]
        /\ sid[p] \notin Visited(p) /\ Publishing(p) /\ ~Appended(p)
    BY <2>1, <2>2 DEF SnapOf, Ranging, Visited, InHand, Publishing, Appended
  <2>4. Visited(p)' = Visited(p)
    BY <2>1 DEF Visited, InHand
  <2>5. subs[ch[p]][sid[p]] \in Procs
    BY <2>1, ServedType DEF Ranging
  <2> HIDE DEF Visited, Appended, Served
  <2> QED
    BY <2>1, <2>2, <2>3, <2>4, <2>5, ServedAppend
<1>5. CASE PublishFlush(p)
  <2> DEFINE x == subs[ch[p]][sid[p]]
  <2>1. /\ pc[p] = "message" /\ pc'[p] = "range" /\ part[p] = FrameParts
        /\ UNCHANGED <<snap, calls, sid, todo, broken, conns>>
        /\ FlushSucceeds(x) \/ FlushFails(x)
    BY <1>5 DEF PublishFlush, Goto, TypeOK, CallsTypeOK
  <2>2. x \in Procs
    BY <2>1, ServedType DEF Ranging
  <2>3. /\ snap[p] = subs[ch[p]] /\ sid[p] \in DOMAIN snap[p] \ todo[p]
        /\ Publishing(p)
    BY <2>1 DEF SnapOf, Ranging, Publishing
  <2>4. Completed(p)' = Completed(p)
    BY <2>1, <2>3 DEF Completed, Visited, InHand, Appended
  <2>5. Of(p, w)' = Of(p, w) /\ calls'[p] = calls[p] /\ Served(p, w)
    BY <2>1, <2>3, <2>4 DEF Of
  <2>6. CASE w # x
    <3>1. Same(w) /\ Holds(p, w)
      BY <2>1, <2>2, <2>3, <2>6, FlushEffect DEF Holds, Held
    <3> QED
      BY <2>5, <3>1, ServedSame
  <2>7. CASE w = x
    <3>1. Flushed(w)
      BY <2>1, <2>2, <2>7, FlushEffect
    <3> QED
      BY <2>5, <3>1, ServedFlushed
  <2> QED
    BY <2>6, <2>7
<1>6. CASE PublishRUnlock(p) \/ EvictLock(p) \/ Evict(p)
  <2>1. /\ pc[p] \in {"range", "evictlock", "evict"} /\ pc'[p] # "message"
        /\ UNCHANGED <<buf, out, calls, snap, todo>>
    BY <1>6 DEF PublishRUnlock, EvictLock, Announce, Evict, Goto, callVars,
                netVars, TypeOK, CallsTypeOK
  <2>2. Completed(p)' = Completed(p) /\ ~Appended(p) /\ Publishing(p)
    BY <2>1 DEF Completed, Visited, InHand, Appended, Publishing
  <2> QED
    BY <1>a, <2>1, <2>2
<1>7. CASE Disconnect(p)
  <2>1. w # p /\ Same(w) /\ LocalsKept(p)
    BY <1>7 DEF Disconnect, Lost, Same, LocalsKept, callVars, TypeOK, NetTypeOK
  <2>2. /\ Of(p, w)' = Of(p, w) /\ calls'[p] = calls[p] /\ Holds(p, w)
        /\ Publishing(p)
    BY <2>1 DEF LocalsKept, Of, Completed, Visited, InHand, Appended, Holds, Held,
                Publishing
  <2> QED
    BY <2>1, <2>2, ServedSame
<1>8. CASE (\E m \in Names : Subscribe(p, m)) \/ WrongNumberOfArgs(p) \/ Create(p)
           \/ AllocSid(p) \/ SubscribeLock(p) \/ Insert(p) \/ Reply(p)
           \/ ServerFlush(p) \/ Recycle(p)
  <2>1. pc'[p] \notin {"range", "message", "evictlock", "evict", "reply"}
    BY <1>8 DEF Subscribe, WrongNumberOfArgs, Create, AllocSid, SubscribeLock,
       Insert, Reply, ServerFlush, Recycle, Goto, TypeOK, CallsTypeOK
  <2> QED
    BY <2>1 DEF Publishing
<1>9. CASE Acknowledge(p)
  <2>1. pc'[p] \in {"ack", "flush"}
    BY <1>9 DEF Acknowledge, Goto, TypeOK, CallsTypeOK
  <2> QED
    BY <2>1 DEF Publishing
<1> QED
  BY <1>1, <1>2, <1>3, <1>4, <1>5, <1>6, <1>7, <1>8, <1>9 DEF Start, Step

(***************************************************************************)
(* The invariant, and what it gives when Publish returns.                  *)
(***************************************************************************)
LEMMA DeliveryInit == Init => DeliveryInv
<1> SUFFICES ASSUME Init PROVE DeliveryInv
  OBVIOUS
<1>1. ASSUME NEW p \in Procs PROVE SnapOf(p)
  <2>1. /\ pc[p] = "idle" /\ snap[p] = <<>> /\ todo[p] = {} /\ failed[p] = {}
        /\ n[p] = 0
    BY DEF Init
  <2>2. DOMAIN snap[p] = {} /\ Visited(p) = {}
    BY <2>1 DEF Visited
  <2>3. IsFiniteSet({}) /\ Cardinality({}) = 0 /\ 0 + 0 = 0
    BY FS_EmptySet
  <2> QED
    BY <2>1, <2>2, <2>3 DEF SnapOf, Ranging
<1>2. ASSUME NEW w \in Procs PROVE Dated(w)
  BY DEF Init, Dated, Within
<1>3. ASSUME NEW p \in Procs, NEW w \in Procs
      PROVE  ~Publishing(p) /\ pc[p] # "rlock" /\ at[p][w] <= conns[w]
  BY DEF Init, Publishing, NoConns
<1> QED
  BY <1>1, <1>2, <1>3 DEF DeliveryInv

LEMMA DeliveryKept ==
    ASSUME Inductive, DeliveryInv, TypeOK', NEW p \in Procs,
           Start(p) \/ Step(p) \/ Disconnect(p) \/ Recycle(p)
    PROVE  DeliveryInv'
<1>0. TypeOK /\ OneChannelPerName /\ RangeInv
  BY DEF Inductive
<1>1. \A q \in Procs \ {p} : LocalsKept(q)
  BY <1>0, OthersKept
<1>2. \A w \in Procs : NetEffect(p, w) /\ Ages(w)
  BY NetStep
<1>3. ASSUME NEW q \in Procs \ {p}, Ranging(q) PROVE subs'[ch[q]] = subs[ch[q]]
  <2>1. ch[q] \in Objects /\ readers[ch[q]] # {}
    BY <1>0, <1>3, ChType DEF RangeInv, Ranging, OnChannel
  <2>2. subs' # subs => \/ Insert(p) /\ readers[ch[p]] = {}
                        \/ Evict(p) /\ readers[ch[p]] = {}
    BY DEF Start, Step, Subscribe, Publish, WrongNumberOfArgs, Create, AllocSid,
       SubscribeLock, Announce, Insert, Acknowledge, PublishRLock, PublishTo,
       PublishAppend, PublishFlush, PublishRUnlock, EvictLock, Evict, Reply,
       ServerFlush, Disconnect, Recycle, chanVars
  <2>3. CASE subs' = subs
    BY <2>3
  <2>4. CASE subs' # subs
    <3>1. ch[q] # ch[p]
      BY <2>1, <2>2, <2>4
    <3> QED
      BY <2>1, <2>2, <2>4, <3>1, <1>0 DEF Insert, Evict, TypeOK, ChannelsTypeOK
  <2> QED
    BY <2>3, <2>4
<1>4. ASSUME NEW q \in Procs PROVE SnapOf(q)'
  <2>1. SnapOf(q)
    BY DEF DeliveryInv
  <2>2. CASE q = p
    BY <2>1, <2>2, SnapStep
  <2>3. CASE q # p
    BY <1>1, <1>3, <2>1, <2>3, SnapOther
  <2> QED
    BY <2>2, <2>3
<1>5. ASSUME NEW w \in Procs PROVE Dated(w)'
  <2>1. Dated(w)
    BY DEF DeliveryInv
  <2>2. /\ calls \in [Procs -> Nat] /\ calls' \in [Procs -> Nat]
        /\ \A q \in Procs : calls[q] <= calls'[q]
    BY <1>0, CallsGrow
  <2> QED
    BY <1>0, <1>2, <2>1, <2>2, DatedStep
<1>6. ASSUME NEW q \in Procs, NEW w \in Procs
      PROVE  /\ at'[q][w] <= conns'[w]
             /\ at'[q] = at[q] /\ Good(q, w)' => Good(q, w) /\ ~Spoiled(w)
  <2>1. at'[q] \in {at[q], conns, NoConns}
    BY <1>0, <1>1, AtStep DEF LocalsKept
  <2>2. at[q][w] <= conns[w]
    BY DEF DeliveryInv
  <2> QED
    BY <1>0, <1>2, <2>1, <2>2, AtKept
<1>7. ASSUME NEW q \in Procs, NEW w \in Procs, pc'[q] = "rlock" PROVE Fresh(q, w)'
  <2>1. Dated(w) /\ (pc[q] = "rlock" => Fresh(q, w))
    BY DEF DeliveryInv
  <2>2. CASE q = p
    BY <1>0, <1>7, <2>1, <2>2, FreshStep
  <2>3. CASE q # p
    <3>1. LocalsKept(q) /\ pc[q] = "rlock"
      BY <1>1, <1>7, <2>3 DEF LocalsKept
    <3> QED
      BY <1>0, <1>2, <2>1, <2>3, <3>1, FreshOther
  <2> QED
    BY <2>2, <2>3
<1>8. ASSUME NEW q \in Procs, NEW w \in Procs, Publishing(q)', Good(q, w)'
      PROVE  Served(q, w)'
  <2>1. /\ SnapOf(q) /\ Dated(w) /\ (pc[q] = "rlock" => Fresh(q, w))
        /\ Publishing(q) /\ Good(q, w) => Served(q, w)
    BY DEF DeliveryInv
  <2>2. CASE q = p
    <3>1. Publishing(p) => at'[p] = at[p]
      BY <1>0, <1>8, <2>2, AtStep DEF Publishing, PublishRLock
    <3>2. Publishing(p) => Served(p, w)
      BY <1>6, <1>8, <2>1, <2>2, <3>1
    <3>3. w \notin Lost'
      BY <1>8 DEF Good
    <3> QED
      BY <1>8, <2>1, <2>2, <3>2, <3>3, ServedStep
  <2>3. CASE q # p
    <3>1. LocalsKept(q)
      BY <1>1, <2>3
    <3>2. Publishing(q) /\ Good(q, w) /\ ~Spoiled(w)
      BY <1>6, <1>8, <3>1 DEF LocalsKept, Publishing
    <3> QED
      BY <1>0, <1>2, <2>1, <2>3, <3>1, <3>2, ServedOther
  <2> QED
    BY <2>2, <2>3
<1> QED
  BY <1>4, <1>5, <1>6, <1>7, <1>8 DEF DeliveryInv

LEMMA DeliveryStutter == DeliveryInv /\ UNCHANGED vars => DeliveryInv'
<1> SUFFICES ASSUME DeliveryInv, UNCHANGED vars PROVE DeliveryInv'
  OBVIOUS
<1>1. /\ UNCHANGED <<pc, part, sid, todo, failed, n, snap, ch, calls>>
      /\ UNCHANGED <<buf, out, broken, late, conns, subs, at>>
  BY DEF vars, callVars, netVars, chanVars
<1>2. \A q \in Procs : LocalsKept(q) /\ (Publishing(q)' => Publishing(q))
  BY <1>1 DEF LocalsKept, Publishing
<1>3. \A q \in Procs : SnapOf(q)'
  <2> SUFFICES ASSUME NEW q \in Procs PROVE SnapOf(q)'
    OBVIOUS
  <2>1. SnapOf(q) /\ LocalsKept(q) /\ subs' = subs
    BY <1>1, <1>2 DEF DeliveryInv
  <2> QED
    BY <2>1, SnapOther
<1>4. \A w \in Procs : Dated(w)' /\ Same(w)
  BY <1>1 DEF DeliveryInv, Dated, Same
<1>5. ASSUME NEW q \in Procs, NEW w \in Procs, Publishing(q)', Good(q, w)'
      PROVE  Served(q, w)'
  <2>0. Good(q, w)
    BY <1>1, <1>5 DEF Good, Lost
  <2>1. Served(q, w)
    BY <1>2, <1>5, <2>0 DEF DeliveryInv
  <2>2. Of(q, w)' = Of(q, w) /\ Holds(q, w) /\ calls'[q] = calls[q]
    BY <1>1 DEF Of, Completed, Visited, InHand, Appended, Holds, Held
  <2> QED
    BY <1>4, <2>1, <2>2, ServedSame
<1>6. ASSUME NEW q \in Procs, NEW w \in Procs
      PROVE  at'[q][w] <= conns'[w] /\ (pc'[q] = "rlock" => Fresh(q, w)')
  BY <1>1 DEF DeliveryInv, Fresh
<1> QED
  BY <1>3, <1>4, <1>5, <1>6 DEF DeliveryInv

LEMMA DeliveryHolds == Spec => []DeliveryInv
<1>1. Inductive /\ Inductive' /\ DeliveryInv /\ [Next]_vars => DeliveryInv'
  <2>1. ASSUME Inductive, Inductive', DeliveryInv, Next PROVE DeliveryInv'
    <3>1. TypeOK'
      BY <2>1 DEF Inductive
    <3> QED
      BY <2>1, <3>1, DeliveryKept DEF Next
  <2> QED
    BY <2>1, DeliveryStutter
<1> QED
  BY <1>1, DeliveryInit, InductiveHolds, PTL DEF Spec

\* pubSubChannel.Publish, when it returns, has delivered its message, once per
\* subscription, through every writer that has served one connection since it
\* took the lock, which is still there and on which no flush has failed; and it
\* returns the number of the flushes that succeeded, whatever was subscribed,
\* published, evicted and disconnected while it ran.
THEOREM AllDelivered == Spec => []Delivered
<1>1. Inductive /\ DeliveryInv => Delivered
  <2> SUFFICES ASSUME Inductive, DeliveryInv, NEW p \in Procs,
                      pc[p] \in {"evictlock", "evict", "reply"}
               PROVE  /\ n[p] + Cardinality(failed[p]) = Cardinality(DOMAIN snap[p])
                      /\ \A w \in Procs \ Lost : at[p][w] = conns[w] =>
                            Count(w, p) = Cardinality({s \in DOMAIN snap[p] : snap[p][s] = w})
    BY DEF Delivered
  <2>1. SnapOf(p) /\ todo[p] = {} /\ ~Appended(p) /\ Publishing(p)
    BY DEF DeliveryInv, SnapOf, Appended, Publishing
  <2>2. Visited(p) = DOMAIN snap[p] /\ Completed(p) = DOMAIN snap[p]
    BY <2>1 DEF Visited, InHand, Completed
  <2>3. n[p] + Cardinality(failed[p]) = Cardinality(DOMAIN snap[p])
    BY <2>1, <2>2 DEF SnapOf
  <2>4. ASSUME NEW w \in Procs \ Lost, at[p][w] = conns[w]
        PROVE  Count(w, p) = Cardinality({s \in DOMAIN snap[p] : snap[p][s] = w})
    <3>1. Served(p, w) /\ TypeOK
      BY <2>1, <2>4 DEF DeliveryInv, Good, Inductive
    <3>2. Received(p, w) \in Nat /\ Buffered(p, w) = 0
      BY <2>1, <3>1, TalliesNat DEF Served
    <3>3. Received(p, w) = Cardinality(Of(p, w))
      BY <3>1, <3>2 DEF Served
    <3>4. Count(w, p) = Received(p, w)
      <4>1. out[w] \in Seq(Tokens)
        BY <3>1, TalliesNat
      <4>2. \A i \in 1 .. Len(out[w]) : out[w][i] \in Tokens
        BY <4>1, TokenFields
      <4>3. Positions(out[w], Endings(p, calls[p])) =
              {i \in 1 .. Len(out[w]) :
                 /\ out[w][i].kind = "message"
                 /\ out[w][i].from = p /\ out[w][i].call = calls[p]
                 /\ out[w][i].part = FrameParts}
        BY <4>2 DEF Positions, Endings
      <4> QED
        BY <4>3 DEF Count, Received, Tally
    <3>5. Of(p, w) = {s \in DOMAIN snap[p] : snap[p][s] = w}
      BY <2>2 DEF Of
    <3> QED
      BY <3>3, <3>4, <3>5
  <2> QED
    BY <2>3, <2>4
<1> QED
  BY <1>1, InductiveHolds, DeliveryHolds, PTL

=============================================================================
