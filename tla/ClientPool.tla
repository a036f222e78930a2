----------------------------- MODULE ClientPool -----------------------------
(***************************************************************************)
(* The client side: client.Pool hands connections to users, each with a    *)
(* recycled RequestWriter and ResponseReader.  A session is what a user    *)
(* does between Get and Put: it writes commands, flushes them, reads some  *)
(* replies, and may meet an error at any time.                             *)
(*                                                                         *)
(* A command is the pair of its session and its number; the server answers *)
(* the commands of a connection in order, and a reply is named after its   *)
(* command.  Whether a connection is broken, slow or timed out cannot be   *)
(* told apart: a read may fail at any time, and the reply may still come.  *)
(* github.com/bsm/pool keeps the connections.                              *)
(***************************************************************************)
EXTENDS Naturals, Sequences, FiniteSets

CONSTANTS
    Users, Conns,
    None,          \* no connection
    Careful,       \* users mark a connection whose replies they have not all
                   \* read; otherwise they do as client/README.md does
    MaxSessions,   \* calls of Get and Wrap (bound)
    MaxCommands    \* commands of a session (bound)

ASSUME PoolAssumption ==
    /\ None \notin Conns
    /\ Careful \in BOOLEAN
    /\ MaxSessions \in Nat /\ MaxCommands \in Nat

Sessions == 1 .. MaxSessions
Commands == Sessions \X Nat

VARIABLES
    state,            \* a connection: "new", "idle" (in the pool), "used", "closed"
    flight, served,   \* its unanswered and unread commands, and how many of
                      \* the first of them have been answered
    cn, ses, failed,  \* a user's conn: its connection, session and mark
    w, r,             \* and what its writer and its reader have buffered
    writers, readers, \* the buffers of the pooled writers and readers
    open,             \* Close has not been called
    sessions,         \* sessions begun
    asked, got        \* history: commands written and replies read, by session

handle == <<cn, ses, failed, w, r>>
pools  == <<writers, readers, open>>
vars   == <<state, flight, served, handle, pools, sessions, asked, got>>

Init ==
    /\ state \in [Conns -> {"new", "idle"}]   \* pool.Options.InitialSize
    /\ flight = [c \in Conns |-> <<>>] /\ served = [c \in Conns |-> 0]
    /\ cn = [u \in Users |-> None]
    /\ ses = [u \in Users |-> 0]
    /\ failed = [u \in Users |-> FALSE]
    /\ w = [u \in Users |-> <<>>] /\ r = [u \in Users |-> <<>>]
    /\ writers = {} /\ readers = {}
    /\ open = TRUE
    /\ sessions = 0
    /\ asked = [s \in Sessions |-> 0]
    /\ got = [s \in Sessions |-> <<>>]

-----------------------------------------------------------------------------
(* Pool *)

\* Mutant of newRequestWriter: Reset is forgotten.
newRequestWriterKeeps(u) ==
    \/ \E b \in writers : w' = [w EXCEPT ![u] = b] /\ writers' = writers \ {b}
    \/ w' = [w EXCEPT ![u] = <<>>] /\ UNCHANGED writers

\* A pooled object is reset; sync.Pool may yield none, then one is allocated.
newRequestWriter(u) ==
    /\ w' = [w EXCEPT ![u] = <<>>]
    /\ (\E b \in writers : writers' = writers \ {b}) \/ UNCHANGED writers

newResponseReader(u) ==
    /\ r' = [r EXCEPT ![u] = <<>>]
    /\ (\E b \in readers : readers' = readers \ {b}) \/ UNCHANGED readers

\* A new session of u on connection c.
Begin(u, c) ==
    /\ cn[u] = None /\ sessions < MaxSessions
    /\ sessions' = sessions + 1
    /\ cn' = [cn EXCEPT ![u] = c]
    /\ ses' = [ses EXCEPT ![u] = sessions + 1]
    /\ failed' = [failed EXCEPT ![u] = FALSE]
    /\ UNCHANGED <<flight, served, open, asked, got>>

\* An idle connection of the pool, or a new one (bsm/pool gives a connection to
\* one caller at a time, and so does sync.Pool with a writer or a reader: what
\* Pool can get wrong is what these still hold).
Get(u, c) ==
    /\ open /\ state[c] \in {"new", "idle"}
    /\ state' = [state EXCEPT ![c] = "used"]
    /\ Begin(u, c)
    /\ newRequestWriter(u) /\ newResponseReader(u)

\* A connection that the user has dialed.
Wrap(u, c) ==
    /\ state[c] = "new"
    /\ state' = [state EXCEPT ![c] = "used"]
    /\ Begin(u, c)
    /\ w' = [w EXCEPT ![u] = <<>>] /\ r' = [r EXCEPT ![u] = <<>>]
    /\ UNCHANGED <<writers, readers>>

\* Mutant of Kept: a connection is pooled whether it has failed or not.
KeptAlways(u) == TRUE

\* Put closes a connection that has failed, and returns any other to the pool.
Kept(u) == ~failed[u]

\* The replies that u has not read: buffered, in flight or still to come.
Unread(u) == Len(r[u]) + Len(flight[cn[u]])

\* In client/README.md Put is deferred: an error of PeekType or a reply of a
\* type that is not expected ends the session with replies unread.  The three
\* Puts of Pool.Put touch what no one else has: they are one step.
\* The pool keeps the connection, or closes it when it is full or closed.
Put(u) ==
    /\ cn[u] # None
    /\ Careful => failed[u] \/ Unread(u) = 0
    /\ \/ /\ Kept(u)
          /\ writers' = writers \cup {w[u]} /\ readers' = readers \cup {r[u]}
          /\ \/ open /\ state' = [state EXCEPT ![cn[u]] = "idle"]
             \/ state' = [state EXCEPT ![cn[u]] = "closed"]
       \/ /\ ~Kept(u)
          /\ state' = [state EXCEPT ![cn[u]] = "closed"]
          /\ UNCHANGED <<writers, readers>>
    /\ cn' = [cn EXCEPT ![u] = None]
    /\ UNCHANGED <<flight, served, ses, failed, w, r, open, sessions, asked, got>>

\* Pool.Close closes the pooled connections.
Close ==
    /\ open /\ open' = FALSE
    /\ state' = [c \in Conns |-> IF state[c] = "idle" THEN "closed" ELSE state[c]]
    /\ UNCHANGED <<flight, served, handle, writers, readers, sessions, asked, got>>

-----------------------------------------------------------------------------
(* Conn *)

WriteCmd(u) ==
    /\ cn[u] # None /\ ~failed[u] /\ asked[ses[u]] < MaxCommands
    /\ asked' = [asked EXCEPT ![ses[u]] = @ + 1]
    /\ w' = [w EXCEPT ![u] = Append(@, <<ses[u], asked[ses[u]] + 1>>)]
    /\ UNCHANGED <<state, flight, served, cn, ses, failed, r, pools, sessions, got>>

Flush(u) ==
    /\ cn[u] # None /\ ~failed[u]
    /\ flight' = [flight EXCEPT ![cn[u]] = @ \o w[u]]
    /\ w' = [w EXCEPT ![u] = <<>>]
    /\ UNCHANGED <<state, served, cn, ses, failed, r, pools, sessions, asked, got>>

\* Flush fails after a part has been written; the user calls MarkFailed.
FlushFails(u) ==
    /\ cn[u] # None /\ ~failed[u] /\ w[u] # <<>>
    /\ \E k \in 0 .. Len(w[u]) - 1 :
          flight' = [flight EXCEPT ![cn[u]] = @ \o SubSeq(w[u], 1, k)]
    /\ failed' = [failed EXCEPT ![u] = TRUE]
    /\ UNCHANGED <<state, served, cn, ses, w, r, pools, sessions, asked, got>>

\* The reader gets another reply into its buffer.
Fill(u) ==
    /\ cn[u] # None /\ state[cn[u]] # "closed" /\ served[cn[u]] > 0
    /\ r' = [r EXCEPT ![u] = Append(@, Head(flight[cn[u]]))]
    /\ flight' = [flight EXCEPT ![cn[u]] = Tail(@)]
    /\ served' = [served EXCEPT ![cn[u]] = @ - 1]
    /\ UNCHANGED <<state, cn, ses, failed, w, pools, sessions, asked, got>>

\* PeekType and one of the read methods.
Read(u) ==
    /\ cn[u] # None /\ r[u] # <<>>
    /\ got' = [got EXCEPT ![ses[u]] = Append(@, Head(r[u]))]
    /\ r' = [r EXCEPT ![u] = Tail(@)]
    /\ UNCHANGED <<state, flight, served, cn, ses, failed, w, pools, sessions, asked>>

\* MarkFailed, after an error of a read or for any other reason.
MarkFailed(u) ==
    /\ cn[u] # None /\ ~failed[u]
    /\ failed' = [failed EXCEPT ![u] = TRUE]
    /\ UNCHANGED <<state, flight, served, cn, ses, w, r, pools, sessions, asked, got>>

CloseConn(u) ==
    /\ cn[u] # None
    /\ failed' = [failed EXCEPT ![u] = TRUE]
    /\ state' = [state EXCEPT ![cn[u]] = "closed"]
    /\ UNCHANGED <<flight, served, cn, ses, w, r, pools, sessions, asked, got>>

-----------------------------------------------------------------------------
\* The server answers the next command of a connection.
Serve(c) ==
    /\ served[c] < Len(flight[c])
    /\ served' = [served EXCEPT ![c] = @ + 1]
    /\ UNCHANGED <<state, flight, handle, pools, sessions, asked, got>>

UserStep(u) ==
    \/ \E c \in Conns : Get(u, c) \/ Wrap(u, c)
    \/ Put(u) \/ WriteCmd(u) \/ Flush(u) \/ FlushFails(u) \/ Fill(u) \/ Read(u)
    \/ MarkFailed(u) \/ CloseConn(u)

Next == (\E u \in Users : UserStep(u)) \/ (\E c \in Conns : Serve(c)) \/ Close

Spec == Init /\ [][Next]_vars

-----------------------------------------------------------------------------
(* Properties *)

\* Every variable has its type.
TypeOK ==
    /\ state \in [Conns -> {"new", "idle", "used", "closed"}]
    /\ flight \in [Conns -> Seq(Commands)]
    /\ served \in [Conns -> Nat] /\ \A c \in Conns : served[c] <= Len(flight[c])
    /\ cn \in [Users -> Conns \cup {None}]
    /\ ses \in [Users -> 0 .. MaxSessions] /\ failed \in [Users -> BOOLEAN]
    /\ \A u \in Users : cn[u] # None => ses[u] \in 1 .. sessions
    /\ w \in [Users -> Seq(Commands)] /\ r \in [Users -> Seq(Commands)]
    /\ writers \subseteq Seq(Commands) /\ readers \subseteq Seq(Commands)
    /\ open \in BOOLEAN /\ sessions \in 0 .. MaxSessions
    /\ asked \in [Sessions -> Nat] /\ got \in [Sessions -> Seq(Commands)]

\* Nothing is left on a connection in the pool that its next user could read:
\* no command to be answered and no reply to come (Put, MarkFailed, Reset).
IdleClean == \A c \in Conns : state[c] \in {"new", "idle"} => flight[c] = <<>>

\* A session reads the replies to its own commands, in their order, whatever
\* errors and unsent commands earlier sessions ended with (Get, Put and the
\* recycled writers and readers).
OwnReplies == \A s \in Sessions : \A i \in DOMAIN got[s] : got[s][i] = <<s, i>>

\* The sessions are sessions of Calls.
Abstract == INSTANCE Calls WITH Sessions <- Sessions, asked <- asked, got <- got

\* Pool and Conn implement Calls: no reply is lost, repeated or swapped.
ImplementsCalls == Abstract!Spec

=============================================================================
