------------------------------- MODULE PubSub -------------------------------
(***************************************************************************)
(* PubSubBroker and pubSubChannel (pubsub.go): goroutines of the server    *)
(* call the subscribe and publish handlers concurrently.  Every goroutine  *)
(* serves one connection and so has one response writer, named after it;   *)
(* a channel keeps the writers of its subscribers.                         *)
(*                                                                         *)
(* A reply or message is four appends to a writer's buffer (an array       *)
(* header and three items), each of them atomic under the writer's mutex;  *)
(* they are modelled as FrameParts tokens.  The broker's own RWMutex is    *)
(* only held over a lookup or a creation, which are single steps here. The *)
(* RWMutex of a channel is explicit: Publish holds it for reading over all *)
(* of its appends and flushes, and a goroutine that waits to write keeps   *)
(* new readers out, as Go's RWMutex does.                                  *)
(*                                                                         *)
(* A flush may fail although the client is there: it meets the deadline    *)
(* that serveClient has set on the connection (server.go:98-99).           *)
(***************************************************************************)
EXTENDS Naturals, Sequences, FiniteSets

CONSTANTS
    Procs,      \* goroutines, and the response writers they own
    Names,      \* channel names
    None,       \* no channel, no goroutine
    FrameParts, \* appends per reply or message frame: 4 in the code
    MaxCalls,   \* handler calls of every goroutine (bound)
    MaxConns,   \* connections a writer serves, one after the other (bound)
    MaxLate     \* connections that are late at the same time (bound)

ASSUME NoneAssumption ==
    None \notin Procs /\ None \notin Names /\ None \notin Procs \X Names
ASSUME CallsAssumption ==
    /\ FrameParts \in Nat \ {0} /\ MaxCalls \in [Procs -> Nat]
    /\ MaxConns \in Nat /\ MaxLate \in Nat

\* A pubSubChannel object, named by the goroutine that allocates it.
Objects == Procs \X Names
Parts   == 1 .. FrameParts
Tokens  == [kind : {"subscribe", "message", "int", "error"},
            from : Procs, call : Nat, part : Parts]

VARIABLES
    channels,   \* PubSubBroker.channels
    subs,       \* pubSubChannel.subscribers: sid -> writer
    nextID,     \* pubSubChannel.nextID
    readers,    \* goroutines that hold a channel's lock for reading
    writer,     \* the goroutine that has announced itself as writer, or None
    pc,         \* where a goroutine is
    name,       \* the channel name of its call
    ch,         \* the channel object it found
    sid,        \* Subscribe: the id it allocated; Publish: the one it serves
    part,       \* tokens of the current frame it has appended
    todo,       \* Publish: ids the range loop has yet to visit
    failed,     \* Publish: ids whose flush failed
    n,          \* Publish: ids whose flush succeeded
    snap, at,   \* history: the subscribers, and the connections of all writers
                \* (conns), when Publish took the lock
    calls,      \* calls made
    buf, out,   \* a writer's buffer, and what the client behind it has
    broken,     \* writers whose connection is gone
    late,       \* history: writers that have met their connection's deadline
    conns,      \* connections a writer has served
    joined      \* history: the <<writer, name, sid>> subscriptions made by the
                \* connections the writers serve now

chanVars == <<channels, subs, nextID>>
lockVars == <<readers, writer>>
callVars == <<name, ch, sid, part, todo, failed, n, snap, at>>
netVars  == <<buf, out, broken, late, conns>>
vars     == <<chanVars, lockVars, pc, callVars, calls, netVars, joined>>

\* Connections are counted from 1.
NoConns == [w \in Procs |-> 0]

Init ==
    /\ channels = [m \in Names |-> None]
    /\ subs = [o \in Objects |-> <<>>]
    /\ nextID = [o \in Objects |-> 0]
    /\ readers = [o \in Objects |-> {}]
    /\ writer = [o \in Objects |-> None]
    /\ pc = [p \in Procs |-> "idle"]
    /\ name = [p \in Procs |-> None]
    /\ ch = [p \in Procs |-> None]
    /\ sid = [p \in Procs |-> 0]
    /\ part = [p \in Procs |-> 0]
    /\ todo = [p \in Procs |-> {}]
    /\ failed = [p \in Procs |-> {}]
    /\ n = [p \in Procs |-> 0]
    /\ calls = [p \in Procs |-> 0]
    /\ buf = [w \in Procs |-> <<>>]
    /\ out = [w \in Procs |-> <<>>]
    /\ broken = {} /\ late = {}
    /\ conns = [w \in Procs |-> 1]
    /\ snap = [p \in Procs |-> <<>>] /\ at = [p \in Procs |-> NoConns]
    /\ joined = {}

Goto(p, l)        == pc' = [pc EXCEPT ![p] = l]
Token(p, k, i)    == [kind |-> k, from |-> p, call |-> calls[p], part |-> i]
AppendTo(w, t)    == buf' = [buf EXCEPT ![w] = Append(@, t)]

\* ResponseWriter.Flush.  A write to a connection that is gone fails, or is
\* accepted by the network and lost.
FlushSucceeds(w) ==
    /\ out' = [out EXCEPT ![w] = IF w \in broken THEN @ ELSE @ \o buf[w]]
    /\ buf' = [buf EXCEPT ![w] = <<>>]
    /\ UNCHANGED late

\* A write to one that is not may meet the deadline, after some of the tokens.
\* The buffer is kept.
MeetsDeadline(w) ==
    /\ w \notin broken /\ Cardinality(late \cup {w}) <= MaxLate
    /\ \E k \in 0 .. Len(buf[w]) - 1 :
          out' = [out EXCEPT ![w] = @ \o SubSeq(buf[w], 1, k)]
    /\ late' = late \cup {w}
FlushFails(w) ==
    /\ buf[w] # <<>>
    /\ \/ w \in broken /\ UNCHANGED <<out, late>>
       \/ MeetsDeadline(w)
    /\ UNCHANGED buf

\* The server reads a command and calls the handler.
StartCall(p, m) ==
    /\ pc[p] = "idle"
    /\ calls[p] < MaxCalls[p]
    /\ calls' = [calls EXCEPT ![p] = @ + 1]
    /\ name' = [name EXCEPT ![p] = m]

\* The call is over and its local variables are gone.
Return(p) ==
    /\ name' = [name EXCEPT ![p] = None]
    /\ ch' = [ch EXCEPT ![p] = None]
    /\ sid' = [sid EXCEPT ![p] = 0]
    /\ part' = [part EXCEPT ![p] = 0]
    /\ todo' = [todo EXCEPT ![p] = {}]
    /\ failed' = [failed EXCEPT ![p] = {}]
    /\ n' = [n EXCEPT ![p] = 0]
    /\ snap' = [snap EXCEPT ![p] = <<>>]
    /\ at' = [at EXCEPT ![p] = NoConns]

-----------------------------------------------------------------------------
(* PubSubBroker.subscribe *)

\* A handler that is called with the wrong number of arguments.
WrongNumberOfArgs(p) ==
    /\ pc[p] = "idle"
    /\ calls[p] < MaxCalls[p]
    /\ calls' = [calls EXCEPT ![p] = @ + 1]
    /\ AppendTo(p, [kind |-> "error", from |-> p, call |-> calls[p] + 1,
                    part |-> FrameParts])
    /\ Goto(p, "flush")
    /\ UNCHANGED <<chanVars, lockVars, callVars, out, broken, late, conns, joined>>

\* The lookup under the broker's read lock.
Subscribe(p, m) ==
    /\ StartCall(p, m)
    /\ ch' = [ch EXCEPT ![p] = channels[m]]
    /\ Goto(p, IF channels[m] = None THEN "create" ELSE "sid")
    /\ UNCHANGED <<chanVars, lockVars, sid, part, todo, failed, n, snap, at,
                   netVars, joined>>

\* Mutant of Create: it does not look the channel up again.
CreateUnchecked(p) ==
    /\ pc[p] = "create"
    /\ channels' = [channels EXCEPT ![name[p]] = <<p, name[p]>>]
    /\ ch' = [ch EXCEPT ![p] = <<p, name[p]>>]
    /\ Goto(p, "sid")
    /\ UNCHANGED <<subs, nextID, lockVars, name, sid, part, todo, failed, n,
                   snap, at, calls, netVars, joined>>

\* The lookup again, under the write lock, and the creation of the channel.
Create(p) ==
    /\ pc[p] = "create"
    /\ LET m == name[p]
           o == IF channels[m] = None THEN <<p, m>> ELSE channels[m]
       IN  /\ channels' = [channels EXCEPT ![m] = o]
           /\ ch' = [ch EXCEPT ![p] = o]
    /\ Goto(p, "sid")
    /\ UNCHANGED <<subs, nextID, lockVars, name, sid, part, todo, failed, n,
                   snap, at, calls, netVars, joined>>

\* Mutant of AllocSid: the id is the size of the map, read without the lock.
AllocSidFromSize(p) ==
    /\ pc[p] = "sid"
    /\ sid' = [sid EXCEPT ![p] = Cardinality(DOMAIN subs[ch[p]]) + 1]
    /\ Goto(p, "lock")
    /\ UNCHANGED <<chanVars, lockVars, name, ch, part, todo, failed, n, snap,
                   at, calls, netVars, joined>>

\* pubSubChannel.Subscribe: the atomic increment, outside the lock.
AllocSid(p) ==
    /\ pc[p] = "sid"
    /\ nextID' = [nextID EXCEPT ![ch[p]] = @ + 1]
    /\ sid' = [sid EXCEPT ![p] = nextID[ch[p]] + 1]
    /\ Goto(p, "lock")
    /\ UNCHANGED <<channels, subs, lockVars, name, ch, part, todo, failed, n,
                   snap, at, calls, netVars, joined>>

\* RWMutex.Lock, first half: one goroutine at a time announces itself.
Announce(p) ==
    /\ writer[ch[p]] = None
    /\ writer' = [writer EXCEPT ![ch[p]] = p]
    /\ UNCHANGED <<chanVars, readers, callVars, calls, netVars, joined>>

SubscribeLock(p) ==
    /\ pc[p] = "lock"
    /\ Announce(p)
    /\ Goto(p, "insert")

\* Mutant of Insert: it does not wait for the readers.
InsertUnlocked(p) ==
    /\ pc[p] = "insert"
    /\ subs' = [subs EXCEPT ![ch[p]] =
                   [i \in DOMAIN @ \cup {sid[p]} |->
                       IF i = sid[p] THEN p ELSE @[i]]]
    /\ writer' = [writer EXCEPT ![ch[p]] = None]
    /\ joined' = joined \cup {<<p, name[p], sid[p]>>}
    /\ part' = [part EXCEPT ![p] = 0]
    /\ Goto(p, "ack")
    /\ UNCHANGED <<channels, nextID, readers, name, ch, sid, todo, failed, n,
                   snap, at, calls, netVars>>

\* Second half, once the readers are gone; the assignment; Unlock.
Insert(p) ==
    /\ pc[p] = "insert"
    /\ readers[ch[p]] = {}
    /\ subs' = [subs EXCEPT ![ch[p]] =
                   [i \in DOMAIN @ \cup {sid[p]} |->
                       IF i = sid[p] THEN p ELSE @[i]]]
    /\ writer' = [writer EXCEPT ![ch[p]] = None]
    /\ joined' = joined \cup {<<p, name[p], sid[p]>>}
    /\ part' = [part EXCEPT ![p] = 0]
    /\ Goto(p, "ack")
    /\ UNCHANGED <<channels, nextID, readers, name, ch, sid, todo, failed, n,
                   snap, at, calls, netVars>>

\* The appends of the acknowledgement, of which the last ends the call.
Acknowledge(p) ==
    /\ pc[p] = "ack"
    /\ AppendTo(p, Token(p, "subscribe", part[p] + 1))
    /\ IF part[p] + 1 < FrameParts
       THEN /\ part' = [part EXCEPT ![p] = @ + 1]
            /\ UNCHANGED <<pc, name, ch, sid, todo, failed, n, snap, at>>
       ELSE Goto(p, "flush") /\ Return(p)
    /\ UNCHANGED <<chanVars, lockVars, calls, out, broken, late, conns, joined>>

-----------------------------------------------------------------------------
(* PubSubBroker.PublishMessage and pubSubChannel.Publish *)

Publish(p, m) ==
    /\ StartCall(p, m)
    /\ ch' = [ch EXCEPT ![p] = channels[m]]
    /\ Goto(p, IF channels[m] = None THEN "reply" ELSE "rlock")
    /\ UNCHANGED <<chanVars, lockVars, sid, part, todo, failed, n, snap, at,
                   netVars, joined>>

PublishRLock(p) ==
    /\ pc[p] = "rlock"
    /\ writer[ch[p]] = None
    /\ readers' = [readers EXCEPT ![ch[p]] = @ \cup {p}]
    /\ todo' = [todo EXCEPT ![p] = DOMAIN subs[ch[p]]]
    /\ snap' = [snap EXCEPT ![p] = subs[ch[p]]]
    /\ at' = [at EXCEPT ![p] = conns]
    /\ Goto(p, "range")
    /\ UNCHANGED <<chanVars, writer, name, ch, sid, part, failed, n, calls,
                   netVars, joined>>

\* The range loop takes a subscriber, in any order, and appends the header.
PublishTo(p, s) ==
    /\ pc[p] = "range"
    /\ s \in todo[p]
    /\ sid' = [sid EXCEPT ![p] = s]
    /\ todo' = [todo EXCEPT ![p] = @ \ {s}]
    /\ part' = [part EXCEPT ![p] = 1]
    /\ AppendTo(subs[ch[p]][s], Token(p, "message", 1))
    /\ Goto(p, "message")
    /\ UNCHANGED <<chanVars, lockVars, name, ch, failed, n, snap, at, calls,
                   out, broken, late, conns, joined>>

\* The other appends.
PublishAppend(p) ==
    /\ pc[p] = "message"
    /\ part[p] < FrameParts
    /\ AppendTo(subs[ch[p]][sid[p]], Token(p, "message", part[p] + 1))
    /\ part' = [part EXCEPT ![p] = @ + 1]
    /\ UNCHANGED <<chanVars, lockVars, pc, name, ch, sid, todo, failed, n,
                   snap, at, calls, out, broken, late, conns, joined>>

\* Mutant of PublishFlush: the first error ends the loop.
PublishFlushGivesUp(p) ==
    /\ pc[p] = "message"
    /\ part[p] = FrameParts
    /\ LET w == subs[ch[p]][sid[p]]
       IN  \/ /\ FlushSucceeds(w)
              /\ n' = [n EXCEPT ![p] = @ + 1]
              /\ UNCHANGED <<failed, todo>>
           \/ /\ FlushFails(w)
              /\ failed' = [failed EXCEPT ![p] = @ \cup {sid[p]}]
              /\ todo' = [todo EXCEPT ![p] = {}]
              /\ UNCHANGED n
    /\ Goto(p, "range")
    /\ UNCHANGED <<chanVars, lockVars, name, ch, sid, part, snap, at, calls,
                   broken, conns, joined>>

\* The flush of one subscriber's writer, counted or noted as failed.
PublishFlush(p) ==
    /\ pc[p] = "message"
    /\ part[p] = FrameParts
    /\ LET w == subs[ch[p]][sid[p]]
       IN  \/ /\ FlushSucceeds(w)
              /\ n' = [n EXCEPT ![p] = @ + 1]
              /\ UNCHANGED failed
           \/ /\ FlushFails(w)
              /\ failed' = [failed EXCEPT ![p] = @ \cup {sid[p]}]
              /\ UNCHANGED n
    /\ Goto(p, "range")
    /\ UNCHANGED <<chanVars, lockVars, name, ch, sid, part, todo, snap,
                   at, calls, broken, conns, joined>>

\* Mutant of PublishRUnlock: the lock is not released when a flush failed.
PublishKeepsLock(p) ==
    /\ pc[p] = "range"
    /\ todo[p] = {}
    /\ readers' = [readers EXCEPT ![ch[p]] =
                      IF failed[p] = {} THEN @ \ {p} ELSE @]
    /\ Goto(p, IF failed[p] = {} THEN "reply" ELSE "evictlock")
    /\ UNCHANGED <<chanVars, writer, callVars, calls, netVars, joined>>

\* RUnlock; evict is called when there is something to evict.
PublishRUnlock(p) ==
    /\ pc[p] = "range"
    /\ todo[p] = {}
    /\ readers' = [readers EXCEPT ![ch[p]] = @ \ {p}]
    /\ Goto(p, IF failed[p] = {} THEN "reply" ELSE "evictlock")
    /\ UNCHANGED <<chanVars, writer, callVars, calls, netVars, joined>>

EvictLock(p) ==
    /\ pc[p] = "evictlock"
    /\ Announce(p)
    /\ Goto(p, "evict")

\* Mutant of Evict: it removes by writer.
EvictByWriter(p) ==
    /\ pc[p] = "evict"
    /\ readers[ch[p]] = {}
    /\ LET gone == {snap[p][s] : s \in failed[p]}
       IN  subs' = [subs EXCEPT ![ch[p]] =
              [i \in {j \in DOMAIN @ : @[j] \notin gone} |-> @[i]]]
    /\ writer' = [writer EXCEPT ![ch[p]] = None]
    /\ Goto(p, "reply")
    /\ UNCHANGED <<channels, nextID, readers, callVars, calls, netVars,
                   joined>>

\* pubSubChannel.evict, once the readers are gone; Unlock.
Evict(p) ==
    /\ pc[p] = "evict"
    /\ readers[ch[p]] = {}
    /\ subs' = [subs EXCEPT ![ch[p]] = [i \in DOMAIN @ \ failed[p] |-> @[i]]]
    /\ writer' = [writer EXCEPT ![ch[p]] = None]
    /\ Goto(p, "reply")
    /\ UNCHANGED <<channels, nextID, readers, callVars, calls, netVars,
                   joined>>

\* The publish handler replies with the count; PublishMessage called from
\* outside a handler just returns it.
Reply(p) ==
    /\ pc[p] = "reply"
    /\ \/ /\ AppendTo(p, Token(p, "int", FrameParts))
          /\ Goto(p, "flush")
       \/ /\ Goto(p, "idle")
          /\ UNCHANGED buf
    /\ Return(p)
    /\ UNCHANGED <<chanVars, lockVars, calls, out, broken, late, conns, joined>>

-----------------------------------------------------------------------------
(* The server around the handlers, and the clients *)

\* serveClient flushes after the handler, and gives up on an error.
ServerFlush(p) ==
    /\ pc[p] = "flush"
    /\ \/ FlushSucceeds(p) /\ Goto(p, "idle")
       \/ FlushFails(p) /\ Goto(p, "closed")
    /\ UNCHANGED <<chanVars, lockVars, callVars, calls, broken, conns, joined>>

\* The client of p's connection disappears.
Disconnect(p) ==
    /\ p \notin broken
    /\ broken' = broken \cup {p}
    /\ out' = [out EXCEPT ![p] = <<>>]
    /\ UNCHANGED <<chanVars, lockVars, pc, callVars, calls, buf, late, conns, joined>>

\* The connection of p is over, Client.release puts its writer in writerPool
\* and Client.reset binds it to the next connection.
Recycle(p) ==
    /\ pc[p] \in {"idle", "closed"}
    /\ conns[p] < MaxConns
    /\ conns' = [conns EXCEPT ![p] = @ + 1]
    /\ buf' = [buf EXCEPT ![p] = <<>>]
    /\ out' = [out EXCEPT ![p] = <<>>]
    /\ broken' = broken \ {p} /\ late' = late \ {p}
    /\ joined' = {j \in joined : j[1] # p}
    /\ Goto(p, "idle")
    /\ UNCHANGED <<chanVars, lockVars, callVars, calls>>

-----------------------------------------------------------------------------
(* The specification *)

\* One step of a call of p.
Step(p) ==
    \/ Create(p)
    \/ AllocSid(p)
    \/ SubscribeLock(p)
    \/ Insert(p)
    \/ Acknowledge(p)
    \/ PublishRLock(p)
    \/ \E s \in todo[p] : PublishTo(p, s)
    \/ PublishAppend(p)
    \/ PublishFlush(p)
    \/ PublishRUnlock(p)
    \/ EvictLock(p)
    \/ Evict(p)
    \/ Reply(p)
    \/ ServerFlush(p)

Start(p) ==
    \/ \E m \in Names : Subscribe(p, m) \/ Publish(p, m)
    \/ WrongNumberOfArgs(p)

Next == \E p \in Procs : Start(p) \/ Step(p) \/ Disconnect(p) \/ Recycle(p)

Spec == Init /\ [][Next]_vars

\* Go schedules every goroutine that can run.
FairSpec == Spec /\ \A p \in Procs : WF_vars(Step(p))

-----------------------------------------------------------------------------
(* Properties *)

Labels == {"idle", "create", "sid", "lock", "insert", "ack", "rlock", "range",
           "message", "evictlock", "evict", "reply", "flush", "closed"}

ChannelsTypeOK ==
    /\ channels \in [Names -> Objects \cup {None}]
    /\ DOMAIN subs = Objects
    /\ \A o \in Objects : /\ DOMAIN subs[o] \subseteq Nat
                          /\ \A i \in DOMAIN subs[o] : subs[o][i] \in Procs
    /\ nextID \in [Objects -> Nat]
    /\ readers \in [Objects -> SUBSET Procs]
    /\ writer \in [Objects -> Procs \cup {None}]

CallsTypeOK ==
    /\ pc \in [Procs -> Labels]
    /\ name \in [Procs -> Names \cup {None}]
    /\ ch \in [Procs -> Objects \cup {None}]
    /\ sid \in [Procs -> Nat]
    /\ part \in [Procs -> 0 .. FrameParts]
    /\ todo \in [Procs -> SUBSET Nat]
    /\ failed \in [Procs -> SUBSET Nat]
    /\ n \in [Procs -> Nat]
    /\ DOMAIN snap = Procs
    /\ calls \in [Procs -> Nat]

NetTypeOK ==
    /\ buf \in [Procs -> Seq(Tokens)]
    /\ out \in [Procs -> Seq(Tokens)]
    /\ broken \subseteq Procs /\ late \subseteq Procs
    /\ conns \in [Procs -> Nat] /\ at \in [Procs -> [Procs -> Nat]]
    /\ joined \subseteq Procs \X Names \X Nat

\* Every variable of the broker, its channels and the calls has its type; in
\* particular a publisher only ever appends to a writer that exists.
TypeOK == ChannelsTypeOK /\ CallsTypeOK /\ NetTypeOK

\* Where a goroutine has looked its channel up, and where it has not.
OnChannel(p) == pc[p] \in {"sid", "lock", "insert", "rlock", "range",
                           "message", "evictlock", "evict"}

\* There is one channel object per name, however subscribers race to create
\* it: every call works on the object the broker has, and no subscriber ever
\* ends up in another one, where no publisher would find it.
OneChannelPerName ==
    /\ \A m \in Names : channels[m] # None => channels[m][2] = m
    /\ \A p \in Procs : OnChannel(p) =>
          name[p] \in Names /\ ch[p] # None /\ ch[p] = channels[name[p]]
    /\ \A o \in Objects : DOMAIN subs[o] # {} => channels[o[2]] = o

\* An id that pubSubChannel.Subscribe has allocated but not yet inserted is
\* nobody else's, so inserting it never replaces another subscriber.
SidsFresh ==
    \A p \in Procs : pc[p] \in {"lock", "insert"} =>
        /\ sid[p] \notin DOMAIN subs[ch[p]]
        /\ \A q \in Procs :
              q # p /\ pc[q] \in {"lock", "insert"} /\ ch[q] = ch[p]
                  => sid[q] # sid[p]

\* The writers whose connection is gone or on which a flush has met a deadline.
Lost == broken \cup late

\* Every subscription of a connection that is still there, and on which no flush
\* has failed, remains in the channel that publishers find: concurrent
\* subscribers do not replace it, and no publisher evicts it, also when another
\* subscription of the same writer, or of an earlier connection of that writer,
\* is evicted.  (A publisher whose flush meets the deadline of a connection that
\* is there does evict it, and nobody tells the subscriber.)
SubscribersKept ==
    \A j \in joined : j[1] \notin Lost =>
        /\ channels[j[2]] # None
        /\ j[3] \in DOMAIN subs[channels[j[2]]]
        /\ subs[channels[j[2]]][j[3]] = j[1]

Count(w, p) == Cardinality({i \in 1 .. Len(out[w]) :
    /\ out[w][i].kind = "message"
    /\ out[w][i].from = p /\ out[w][i].call = calls[p] /\ out[w][i].part = FrameParts})

\* When Publish returns, every writer that has served one connection since
\* Publish took the lock, which is still there and on which no flush has failed,
\* has sent it the message once per subscription of that writer, and the count
\* is that of the subscriptions whose flush succeeded.
Delivered ==
    \A p \in Procs : pc[p] \in {"evictlock", "evict", "reply"} =>
        /\ n[p] + Cardinality(failed[p]) = Cardinality(DOMAIN snap[p])
        /\ \A w \in Procs \ Lost : at[p][w] = conns[w] =>
              Count(w, p) = Cardinality({s \in DOMAIN snap[p] : snap[p][s] = w})

\* The subscriber map of a channel does not change while a publisher ranges
\* over it (in Go that would end the process).
RangeStable ==
    [][\A o \in Objects : readers[o] # {} => subs'[o] = subs[o]]_vars

\* Every call returns: no goroutine waits for ever for a channel's lock.
CallsReturn == \A p \in Procs : pc[p] # "idle" ~> pc[p] \in {"idle", "closed"}

\* Claims of the documentation that the code does not keep.

\* response.go: a ResponseWriter is used to "send protocol-compatible
\* responses": the four parts of a frame arrive one after the other (on
\* a connection that has met no deadline).
FramesWhole ==
    \A w \in Procs \ late : \A i \in 1 .. Len(out[w]) :
        LET t == out[w][i]
            frame == t.kind \in {"subscribe", "message"}
        IN  IF frame /\ t.part > 1
            THEN i > 1 /\ out[w][i - 1] = [t EXCEPT !.part = @ - 1]
            ELSE i > 1 => out[w][i - 1].part = FrameParts

\* pubsub.go: PublishMessage "Returns the number of subscribers": whoever
\* receives a message has subscribed.
OnlySubscribersReached ==
    \A w \in Procs : \A i \in 1 .. Len(out[w]) :
        out[w][i].kind = "message" => \E j \in joined : j[1] = w

=============================================================================
