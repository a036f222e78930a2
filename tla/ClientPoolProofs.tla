-------------------------- MODULE ClientPoolProofs --------------------------
(***************************************************************************)
(* For any number of users, connections, sessions and commands: when users *)
(* mark the connections whose replies they have not all read, every session*)
(* reads the replies to its own commands, and ClientPool implements Calls. *)
(*                                                                         *)
(* The inductive invariant says where the commands of a session are: what  *)
(* its reader has buffered, what is in flight on its connection and what   *)
(* its writer has buffered are, in this order, the commands that follow    *)
(* those whose replies it has read.                                        *)
(***************************************************************************)
EXTENDS ClientPool, SequenceTheorems, TLAPS

\* f are the commands of session s that follow its first b.
From(f, s, b) == \A i \in 1 .. Len(f) : f[i] = <<s, b + i>>

\* A session s that has read g replies and written a commands is in line: x is
\* in its reader, y in flight and z in its writer.
InLine(s, g, x, y, z, a, fails) ==
    /\ From(x, s, g)
    /\ From(y, s, g + Len(x))
    /\ g + Len(x) + Len(y) <= a
    /\ ~fails => /\ From(z, s, g + Len(x) + Len(y))
                 /\ a = g + Len(x) + Len(y) + Len(z)

Line(u) == InLine(ses[u], Len(got[ses[u]]), r[u], flight[cn[u]], w[u],
                  asked[ses[u]], failed[u])
Lines == \A u \in Users : cn[u] # None => Line(u)

\* A session that has not begun has no commands.
FreshSessions ==
    \A s \in Sessions : s > sessions => asked[s] = 0 /\ got[s] = <<>>

\* No two users have the same connection or session, and the pool does not
\* offer a connection that someone has.
Exclusive ==
    /\ \A u \in Users : cn[u] # None => state[cn[u]] \in {"used", "closed"}
    /\ \A u, v \in Users : u # v /\ cn[u] # None /\ cn[v] # None =>
          cn[u] # cn[v] /\ ses[u] # ses[v]

Inv == /\ TypeOK /\ Exclusive /\ IdleClean
       /\ Lines /\ FreshSessions /\ OwnReplies

-----------------------------------------------------------------------------
(* Sequences of commands *)

LEMMA FromAppend ==
    ASSUME NEW s \in Sessions, NEW b \in Nat, NEW f \in Seq(Commands), From(f, s, b)
    PROVE  /\ From(Append(f, <<s, b + Len(f) + 1>>), s, b)
           /\ Append(f, <<s, b + Len(f) + 1>>) \in Seq(Commands)
           /\ Len(Append(f, <<s, b + Len(f) + 1>>)) = Len(f) + 1
<1>1. <<s, b + Len(f) + 1>> \in Commands
  BY DEF Commands
<1> DEFINE h == Append(f, <<s, b + Len(f) + 1>>)
<1>2. /\ h \in Seq(Commands) /\ Len(h) = Len(f) + 1 /\ Len(f) \in Nat
      /\ \A i \in 1 .. Len(f) : h[i] = f[i]
      /\ h[Len(f) + 1] = <<s, b + Len(f) + 1>>
  BY <1>1, AppendProperties
<1>3. ASSUME NEW i \in 1 .. Len(h) PROVE h[i] = <<s, b + i>>
  <2>1. CASE i \in 1 .. Len(f)
    BY <1>2, <2>1 DEF From
  <2>2. CASE i = Len(f) + 1
    <3>1. b + i = b + Len(f) + 1
      BY <1>2, <2>2
    <3> QED
      BY <1>2, <2>2, <3>1
  <2> QED
    BY <1>2, <2>1, <2>2
<1> QED
  BY <1>2, <1>3 DEF From

LEMMA FromTail ==
    ASSUME NEW s \in Sessions, NEW b \in Nat, NEW f \in Seq(Commands),
           From(f, s, b), f # <<>>
    PROVE  /\ Head(f) = <<s, b + 1>> /\ From(Tail(f), s, b + 1)
           /\ Tail(f) \in Seq(Commands) /\ Len(Tail(f)) = Len(f) - 1
           /\ Len(f) > 0
<1>1. /\ Tail(f) \in Seq(Commands) /\ Len(Tail(f)) = Len(f) - 1
      /\ \A i \in 1 .. Len(Tail(f)) : Tail(f)[i] = f[i + 1]
      /\ Len(f) \in Nat /\ Len(f) > 0
  BY HeadTailProperties, EmptySeq
<1>2. Head(f) = <<s, b + 1>>
  <2>1. Head(f) = f[1] /\ 1 \in 1 .. Len(f)
    BY <1>1
  <2> QED
    BY <2>1 DEF From
<1>3. From(Tail(f), s, b + 1)
  <2>1. ASSUME NEW i \in 1 .. Len(Tail(f)) PROVE Tail(f)[i] = <<s, b + 1 + i>>
    <3>1. i + 1 \in 1 .. Len(f) /\ Tail(f)[i] = f[i + 1] /\ b + (i + 1) = b + 1 + i
      BY <1>1
    <3>2. f[i + 1] = <<s, b + (i + 1)>>
      BY <3>1 DEF From
    <3> QED
      BY <3>1, <3>2
  <2> QED
    BY <2>1 DEF From
<1> QED
  BY <1>1, <1>2, <1>3

LEMMA FromConcat ==
    ASSUME NEW s \in Sessions, NEW b \in Nat, NEW f \in Seq(Commands),
           NEW h \in Seq(Commands), From(f, s, b), From(h, s, b + Len(f))
    PROVE  /\ From(f \o h, s, b) /\ f \o h \in Seq(Commands)
           /\ Len(f \o h) = Len(f) + Len(h)
BY ConcatProperties DEF From

LEMMA FromPrefix ==
    ASSUME NEW s \in Sessions, NEW b \in Nat, NEW f \in Seq(Commands),
           From(f, s, b), NEW k \in 0 .. Len(f) - 1
    PROVE  /\ From(SubSeq(f, 1, k), s, b) /\ SubSeq(f, 1, k) \in Seq(Commands)
           /\ Len(SubSeq(f, 1, k)) = k
<1>1. \A i \in 1 .. k : f[i] \in Commands
  OBVIOUS
<1>2. /\ SubSeq(f, 1, k) \in Seq(Commands) /\ Len(SubSeq(f, 1, k)) = k
      /\ \A i \in 1 .. k : SubSeq(f, 1, k)[i] = f[i]
  BY <1>1, SubSeqProperties
<1> QED
  BY <1>2 DEF From

\* What WriteCmd, Flush, Fill and Read do to a session in line.
LEMMA LineWrite ==
    ASSUME NEW s \in Sessions, NEW g \in Nat, NEW a \in Nat,
           NEW x \in Seq(Commands), NEW y \in Seq(Commands), NEW z \in Seq(Commands),
           InLine(s, g, x, y, z, a, FALSE)
    PROVE  InLine(s, g, x, y, Append(z, <<s, a + 1>>), a + 1, FALSE)
<1>0. /\ Len(x) \in Nat /\ Len(y) \in Nat /\ Len(z) \in Nat
      /\ g + Len(x) \in Nat /\ g + Len(x) + Len(y) \in Nat
      /\ From(x, s, g) /\ From(y, s, g + Len(x)) /\ g + Len(x) + Len(y) <= a
      /\ From(z, s, g + Len(x) + Len(y)) /\ a = g + Len(x) + Len(y) + Len(z)
  BY DEF InLine
<1>1. /\ From(Append(z, <<s, a + 1>>), s, g + Len(x) + Len(y))
      /\ Len(Append(z, <<s, a + 1>>)) = Len(z) + 1
  BY <1>0, FromAppend
<1> QED
  BY <1>0, <1>1 DEF InLine

LEMMA LineFlush ==
    ASSUME NEW s \in Sessions, NEW g \in Nat, NEW a \in Nat,
           NEW x \in Seq(Commands), NEW y \in Seq(Commands), NEW z \in Seq(Commands),
           InLine(s, g, x, y, z, a, FALSE)
    PROVE  InLine(s, g, x, y \o z, <<>>, a, FALSE)
<1>0. /\ Len(x) \in Nat /\ Len(y) \in Nat /\ Len(z) \in Nat
      /\ g + Len(x) \in Nat /\ g + Len(x) + Len(y) \in Nat
      /\ From(x, s, g) /\ From(y, s, g + Len(x)) /\ g + Len(x) + Len(y) <= a
      /\ From(z, s, g + Len(x) + Len(y)) /\ a = g + Len(x) + Len(y) + Len(z)
  BY DEF InLine
<1>1. From(y \o z, s, g + Len(x)) /\ Len(y \o z) = Len(y) + Len(z)
  BY <1>0, FromConcat
<1>2. From(<<>>, s, g + Len(x) + Len(y \o z)) /\ Len(<<>>) = 0
  BY DEF From
<1> QED
  BY <1>0, <1>1, <1>2 DEF InLine

LEMMA LinePrefix ==
    ASSUME NEW s \in Sessions, NEW g \in Nat, NEW a \in Nat,
           NEW x \in Seq(Commands), NEW y \in Seq(Commands), NEW z \in Seq(Commands),
           InLine(s, g, x, y, z, a, FALSE),
           NEW p \in Seq(Commands), Len(p) <= Len(z),
           From(p, s, g + Len(x) + Len(y))
    PROVE  InLine(s, g, x, y \o p, z, a, TRUE)
<1>0. /\ Len(x) \in Nat /\ Len(y) \in Nat /\ Len(z) \in Nat
      /\ g + Len(x) \in Nat /\ g + Len(x) + Len(y) \in Nat
      /\ From(x, s, g) /\ From(y, s, g + Len(x)) /\ g + Len(x) + Len(y) <= a
      /\ From(z, s, g + Len(x) + Len(y)) /\ a = g + Len(x) + Len(y) + Len(z)
  BY DEF InLine
<1>1. From(y \o p, s, g + Len(x)) /\ Len(y \o p) = Len(y) + Len(p)
  BY <1>0, FromConcat
<1> QED
  BY <1>0, <1>1 DEF InLine

LEMMA LineFlushFails ==
    ASSUME NEW s \in Sessions, NEW g \in Nat, NEW a \in Nat,
           NEW x \in Seq(Commands), NEW y \in Seq(Commands), NEW z \in Seq(Commands),
           InLine(s, g, x, y, z, a, FALSE),
           NEW k \in 0 .. Len(z) - 1
    PROVE  InLine(s, g, x, y \o SubSeq(z, 1, k), z, a, TRUE)
<1>1. From(z, s, g + Len(x) + Len(y)) /\ g + Len(x) + Len(y) \in Nat
  BY DEF InLine
<1>2. /\ From(SubSeq(z, 1, k), s, g + Len(x) + Len(y))
      /\ SubSeq(z, 1, k) \in Seq(Commands) /\ Len(SubSeq(z, 1, k)) = k
  BY <1>1, FromPrefix
<1>3. PICK p \in Seq(Commands) : p = SubSeq(z, 1, k)
  BY <1>2
<1>4. /\ p \in Seq(Commands) /\ Len(p) <= Len(z)
      /\ From(p, s, g + Len(x) + Len(y))
  BY <1>2, <1>3
<1>5. InLine(s, g, x, y \o p, z, a, TRUE)
  BY <1>4, LinePrefix
<1> QED
  BY <1>3, <1>5

LEMMA LineFill ==
    ASSUME NEW s \in Sessions, NEW g \in Nat, NEW a \in Nat, NEW fails \in BOOLEAN,
           NEW x \in Seq(Commands), NEW y \in Seq(Commands), NEW z \in Seq(Commands),
           InLine(s, g, x, y, z, a, fails), y # <<>>
    PROVE  InLine(s, g, Append(x, Head(y)), Tail(y), z, a, fails)
<1>0. /\ Len(x) \in Nat /\ Len(y) \in Nat /\ Len(z) \in Nat
      /\ g + Len(x) \in Nat /\ g + Len(x) + Len(y) \in Nat
      /\ From(x, s, g) /\ From(y, s, g + Len(x)) /\ g + Len(x) + Len(y) <= a
      /\ ~fails => /\ From(z, s, g + Len(x) + Len(y))
                   /\ a = g + Len(x) + Len(y) + Len(z)
  BY DEF InLine
<1>1. /\ Head(y) = <<s, g + Len(x) + 1>> /\ From(Tail(y), s, g + Len(x) + 1)
      /\ Tail(y) \in Seq(Commands) /\ Len(Tail(y)) = Len(y) - 1 /\ Len(y) > 0
  BY <1>0, FromTail
<1> DEFINE e == <<s, g + Len(x) + 1>>
<1>a. From(Append(x, e), s, g) /\ Append(x, e) \in Seq(Commands)
      /\ Len(Append(x, e)) = Len(x) + 1
  BY <1>0, FromAppend
<1>b. Head(y) = e
  BY <1>1
<1> HIDE DEF e
<1>2. /\ From(Append(x, Head(y)), s, g) /\ Append(x, Head(y)) \in Seq(Commands)
      /\ Len(Append(x, Head(y))) = Len(x) + 1
  BY <1>a, <1>b
<1> PICK p \in Seq(Commands), t \in Seq(Commands) :
         p = Append(x, Head(y)) /\ t = Tail(y)
  BY <1>1, <1>2
<1>3. /\ From(p, s, g) /\ From(t, s, g + Len(x) + 1)
      /\ Len(p) = Len(x) + 1 /\ Len(t) = Len(y) - 1
  BY <1>1, <1>2
<1>4. InLine(s, g, p, t, z, a, fails)
  <2>1. g + Len(p) = g + Len(x) + 1 /\ g + Len(p) + Len(t) = g + Len(x) + Len(y)
    BY <1>0, <1>1, <1>3
  <2> QED
    BY <1>0, <1>3, <2>1 DEF InLine
<1> QED
  BY <1>4

LEMMA LineRead ==
    ASSUME NEW s \in Sessions, NEW g \in Nat, NEW a \in Nat, NEW fails \in BOOLEAN,
           NEW x \in Seq(Commands), NEW y \in Seq(Commands), NEW z \in Seq(Commands),
           InLine(s, g, x, y, z, a, fails), x # <<>>
    PROVE  Head(x) = <<s, g + 1>> /\ InLine(s, g + 1, Tail(x), y, z, a, fails)
<1>0. /\ Len(x) \in Nat /\ Len(y) \in Nat /\ Len(z) \in Nat
      /\ g + Len(x) \in Nat /\ g + Len(x) + Len(y) \in Nat
      /\ From(x, s, g) /\ From(y, s, g + Len(x)) /\ g + Len(x) + Len(y) <= a
      /\ ~fails => /\ From(z, s, g + Len(x) + Len(y))
                   /\ a = g + Len(x) + Len(y) + Len(z)
  BY DEF InLine
<1>1. /\ Head(x) = <<s, g + 1>> /\ From(Tail(x), s, g + 1)
      /\ Tail(x) \in Seq(Commands) /\ Len(Tail(x)) = Len(x) - 1 /\ Len(x) > 0
  BY <1>0, FromTail
<1> PICK t \in Seq(Commands) : t = Tail(x)
  BY <1>1
<1>2. From(t, s, g + 1) /\ g + 1 + Len(t) = g + Len(x)
  BY <1>0, <1>1
<1>3. InLine(s, g + 1, t, y, z, a, fails)
  BY <1>0, <1>2 DEF InLine
<1> QED
  BY <1>1, <1>3

-----------------------------------------------------------------------------
(* The first state, and the beginning of a session *)

\* The first state satisfies the invariant.
LEMMA InitInv == Init => Inv
<1> SUFFICES ASSUME Init PROVE Inv
  OBVIOUS
<1> USE PoolAssumption DEF Init
<1>1. TypeOK
  BY DEF TypeOK, Sessions
<1>2. Exclusive /\ IdleClean /\ Lines /\ FreshSessions
  BY DEF Exclusive, IdleClean, Lines, FreshSessions
<1>3. OwnReplies
  BY DEF OwnReplies
<1> QED
  BY <1>1, <1>2, <1>3 DEF Inv

\* A step that changes nothing of a user's session keeps it in line.
LEMMA Undisturbed ==
    ASSUME NEW u \in Users, cn[u] # None => Line(u),
           cn'[u] = cn[u], ses'[u] = ses[u], failed'[u] = failed[u],
           w'[u] = w[u], r'[u] = r[u],
           cn[u] # None => /\ flight'[cn[u]] = flight[cn[u]]
                           /\ asked'[ses[u]] = asked[ses[u]]
                           /\ got'[ses[u]] = got[ses[u]]
    PROVE  cn'[u] # None => Line(u)'
BY DEF Line

\* Get and Wrap begin a session on a clean connection with empty buffers.
LEMMA BeginInv ==
    ASSUME Inv, NEW u \in Users, NEW c \in Conns, Begin(u, c),
           state[c] \in {"new", "idle"}, state' = [state EXCEPT ![c] = "used"],
           w' = [w EXCEPT ![u] = <<>>], r' = [r EXCEPT ![u] = <<>>],
           writers' \subseteq Seq(Commands), readers' \subseteq Seq(Commands)
    PROVE  Inv'
<1> USE PoolAssumption DEF Begin, Inv
<1> DEFINE s == sessions + 1
<1>a. s \in Sessions /\ s > sessions /\ sessions \in Nat /\ flight[c] = <<>>
  BY DEF TypeOK, Sessions, IdleClean
<1>b. asked[s] = 0 /\ got[s] = <<>>
  BY <1>a DEF FreshSessions
<1>c. cn'[u] = c /\ ses'[u] = s /\ cn'[u] # None
  BY DEF TypeOK
<1>0. s \in Sessions /\ s \notin 1 .. sessions /\ cn'[u] = c /\ ses'[u] = s
      /\ cn'[u] # None /\ flight[c] = <<>> /\ asked[s] = 0 /\ got[s] = <<>>
  BY <1>a, <1>b, <1>c
<1>1. TypeOK'
  <2>1. /\ state' \in [Conns -> {"new", "idle", "used", "closed"}]
        /\ cn' \in [Users -> Conns \cup {None}]
        /\ failed' \in [Users -> BOOLEAN]
    BY DEF TypeOK
  <2>2. ses' \in [Users -> 0 .. MaxSessions] /\ sessions' \in 0 .. MaxSessions
    BY DEF TypeOK
  <2>3. w' \in [Users -> Seq(Commands)] /\ r' \in [Users -> Seq(Commands)]
    BY DEF TypeOK
  <2>4. \A v \in Users : cn'[v] # None => ses'[v] \in 1 .. sessions'
    BY DEF TypeOK
  <2> QED
    BY <2>1, <2>2, <2>3, <2>4 DEF TypeOK
<1>2. Exclusive'
  BY <1>0 DEF Exclusive, TypeOK
<1>3. IdleClean' /\ OwnReplies'
  BY DEF IdleClean, OwnReplies, TypeOK
<1>4. Lines'
  <2> SUFFICES ASSUME NEW v \in Users, cn'[v] # None PROVE Line(v)'
    BY DEF Lines
  <2>1. CASE v = u
    <3>1. /\ ses'[u] = s /\ cn'[u] = c /\ w'[u] = <<>> /\ r'[u] = <<>>
          /\ got'[s] = <<>> /\ flight'[c] = <<>> /\ asked'[s] = 0
      BY <1>0 DEF TypeOK
    <3>2. failed'[u] = FALSE
      BY DEF TypeOK
    <3>3. InLine(s, 0, <<>>, <<>>, <<>>, 0, FALSE)
      BY DEF InLine, From
    <3>4. Len(got'[ses'[u]]) = 0
      BY <3>1
    <3> QED
      BY <2>1, <3>1, <3>2, <3>3, <3>4 DEF Line
  <2>2. CASE v # u
    <3>1. cn'[v] = cn[v] /\ ses'[v] = ses[v] /\ failed'[v] = failed[v]
          /\ w'[v] = w[v] /\ r'[v] = r[v]
      BY <2>2 DEF TypeOK
    <3> QED
      BY <3>1, Undisturbed DEF Lines
  <2> QED
    BY <2>1, <2>2
<1>5. FreshSessions'
  BY <1>a DEF FreshSessions, Sessions
<1> QED
  BY <1>1, <1>2, <1>3, <1>4, <1>5

LEMMA GetInv == ASSUME Inv, NEW u \in Users, NEW c \in Conns, Get(u, c) PROVE Inv'
<1>1. writers' \subseteq Seq(Commands) /\ readers' \subseteq Seq(Commands)
  BY DEF Inv, TypeOK, Get, newRequestWriter, newResponseReader
<1> QED
  BY <1>1, BeginInv DEF Get, newRequestWriter, newResponseReader

LEMMA WrapInv == ASSUME Inv, NEW u \in Users, NEW c \in Conns, Wrap(u, c) PROVE Inv'
<1>1. writers' \subseteq Seq(Commands) /\ readers' \subseteq Seq(Commands)
  BY DEF Inv, TypeOK, Wrap
<1> QED
  BY <1>1, BeginInv DEF Wrap

-----------------------------------------------------------------------------
(* The operations of a session, and the end of it *)

\* What a step of u leaves alone of the other users' sessions.
LEMMA Others ==
    ASSUME Inv, NEW u \in Users, cn[u] # None,
           NEW v \in Users, v # u, cn[v] # None
    PROVE  /\ cn[u] \in Conns /\ cn[v] \in Conns /\ cn[u] # cn[v]
           /\ ses[u] \in Sessions /\ ses[v] \in Sessions /\ ses[u] # ses[v]
BY DEF Inv, TypeOK, Exclusive, Sessions

\* The types of what u has.
LEMMA Own ==
    ASSUME Inv, NEW u \in Users, cn[u] # None
    PROVE  /\ cn[u] \in Conns /\ ses[u] \in Sessions /\ ses[u] <= sessions
           /\ r[u] \in Seq(Commands) /\ w[u] \in Seq(Commands)
           /\ failed[u] \in BOOLEAN
           /\ flight[cn[u]] \in Seq(Commands) /\ got[ses[u]] \in Seq(Commands)
           /\ asked[ses[u]] \in Nat /\ Len(got[ses[u]]) \in Nat
           /\ Line(u)
<1>1. /\ cn[u] \in Conns /\ ses[u] \in Sessions /\ ses[u] <= sessions
      /\ r[u] \in Seq(Commands) /\ w[u] \in Seq(Commands)
      /\ failed[u] \in BOOLEAN /\ Line(u)
  BY DEF Inv, TypeOK, Sessions, Lines
<1>2. /\ flight[cn[u]] \in Seq(Commands) /\ got[ses[u]] \in Seq(Commands)
      /\ asked[ses[u]] \in Nat
  BY <1>1 DEF Inv, TypeOK
<1>3. Len(got[ses[u]]) \in Nat
  BY <1>2
<1> QED
  BY <1>1, <1>2, <1>3

LEMMA NatSum == \A a, b \in Nat : a + b = 0 => b = 0
OBVIOUS

LEMMA PutInv == ASSUME Careful, Inv, NEW u \in Users, Put(u) PROVE Inv'
<1> USE PoolAssumption DEF Inv, Put, Kept
<1>1. cn[u] \in Conns /\ r[u] \in Seq(Commands) /\ w[u] \in Seq(Commands)
      /\ flight[cn[u]] \in Seq(Commands)
  BY Own
<1>2. TypeOK'
  <2>1. state' \in [Conns -> {"new", "idle", "used", "closed"}]
        /\ cn' \in [Users -> Conns \cup {None}]
    BY DEF TypeOK
  <2>2. writers' \subseteq Seq(Commands) /\ readers' \subseteq Seq(Commands)
    BY <1>1 DEF TypeOK
  <2>3. \A v \in Users : cn'[v] # None => ses'[v] \in 1 .. sessions'
    BY DEF TypeOK
  <2> QED
    BY <2>1, <2>2, <2>3 DEF TypeOK
<1>3. Exclusive'
  BY Others, SMTT(60) DEF Exclusive, TypeOK
<1>4. IdleClean'
  <2>a. ~failed[u] => Unread(u) = 0
    OBVIOUS
  <2>b. Len(r[u]) \in Nat /\ Len(flight[cn[u]]) \in Nat
    BY <1>1
  <2>1. ~failed[u] => Len(flight[cn[u]]) = 0
    BY <2>a, <2>b, NatSum DEF Unread
  <2>2. ~failed[u] => flight[cn[u]] = <<>>
    BY <1>1, <2>1
  <2> QED
    BY <1>1, <2>2 DEF IdleClean, TypeOK
<1>5. Lines'
  <2> SUFFICES ASSUME NEW v \in Users, cn'[v] # None PROVE Line(v)'
    BY DEF Lines
  <2>1. v # u /\ cn'[v] = cn[v]
    BY DEF TypeOK
  <2> QED
    BY <2>1, Undisturbed DEF Lines
<1>6. FreshSessions' /\ OwnReplies'
  BY DEF FreshSessions, OwnReplies
<1> QED
  BY <1>2, <1>3, <1>4, <1>5, <1>6

\* A step of u that leaves the others alone and u in line.
LEMMA LinesKept ==
    ASSUME Inv, NEW u \in Users, cn[u] # None, Line(u)', cn' = cn, ses' = ses,
           \A v \in Users : v # u => /\ failed'[v] = failed[v]
                                     /\ w'[v] = w[v] /\ r'[v] = r[v],
           \A c \in Conns : c # cn[u] => flight'[c] = flight[c],
           \A s \in Sessions : s # ses[u] => asked'[s] = asked[s] /\ got'[s] = got[s]
    PROVE  Lines'
<1> SUFFICES ASSUME NEW v \in Users, cn'[v] # None PROVE Line(v)'
  BY DEF Lines
<1>1. CASE v = u
  BY <1>1
<1>2. CASE v # u
  <2>1. /\ flight'[cn[v]] = flight[cn[v]] /\ asked'[ses[v]] = asked[ses[v]]
        /\ got'[ses[v]] = got[ses[v]]
    BY <1>2, Others
  <2> QED
    BY <1>2, <2>1, Undisturbed DEF Inv, Lines
<1> QED
  BY <1>1, <1>2

LEMMA WriteCmdInv == ASSUME Inv, NEW u \in Users, WriteCmd(u) PROVE Inv'
<1> USE PoolAssumption DEF WriteCmd, pools
<1> DEFINE s == ses[u]
           x == <<s, asked[s] + 1>>
<1>1. /\ s \in Sessions /\ s <= sessions /\ w[u] \in Seq(Commands)
      /\ asked[s] \in Nat /\ ~failed[u] /\ x \in Commands
  BY Own DEF Commands
<1>2. w'[u] = Append(w[u], x) /\ asked'[s] = asked[s] + 1
  BY <1>1 DEF Inv, TypeOK
<1>3. w' \in [Users -> Seq(Commands)] /\ asked' \in [Sessions -> Nat]
  BY <1>1 DEF Inv, TypeOK
<1>4. TypeOK'
  BY <1>3 DEF Inv, TypeOK
<1>5. Exclusive' /\ IdleClean' /\ OwnReplies'
  BY DEF Inv, Exclusive, IdleClean, OwnReplies
<1>6. Line(u)'
  <2>1. InLine(s, Len(got[s]), r[u], flight[cn[u]], Append(w[u], x),
               asked[s] + 1, FALSE)
    BY <1>1, Own, LineWrite, ZenonT(60) DEF Line
  <2>2. failed'[u] = FALSE
    BY <1>1, Own
  <2> QED
    BY <1>2, <2>1, <2>2 DEF Line
<1>7. Lines'
  BY <1>1, <1>6, LinesKept DEF Inv, TypeOK
<1>8. FreshSessions'
  <2>1. sessions \in Nat /\ \A t \in Sessions : t > sessions => t # s
    BY <1>1 DEF Inv, TypeOK, Sessions
  <2>2. \A t \in Sessions : t # s => asked'[t] = asked[t]
    BY DEF Inv, TypeOK
  <2> QED
    BY <2>1, <2>2 DEF Inv, FreshSessions
<1> QED
  BY <1>4, <1>5, <1>7, <1>8 DEF Inv

\* served stays within flight when flight changes for one connection only.
LEMMA ServedWithin ==
    ASSUME Inv, NEW c \in Conns, NEW n \in Nat,
           \A d \in Conns : d # c => flight'[d] = flight[d] /\ served'[d] = served[d],
           served'[c] = n, n <= Len(flight'[c])
    PROVE  \A d \in Conns : served'[d] <= Len(flight'[d])
BY DEF Inv, TypeOK

\* The connection of a user is neither new nor in the pool.
LEMMA HeldNotIdle ==
    ASSUME Inv, NEW u \in Users, cn[u] # None
    PROVE  state[cn[u]] \notin {"new", "idle"}
BY DEF Inv, Exclusive

\* Commands of a writer that are added to what is in flight.
LEMMA MoreInFlight ==
    ASSUME Inv, NEW u \in Users, cn[u] # None, NEW p \in Seq(Commands),
           flight' = [flight EXCEPT ![cn[u]] = @ \o p], served' = served
    PROVE  /\ flight'[cn[u]] = flight[cn[u]] \o p
           /\ flight' \in [Conns -> Seq(Commands)]
           /\ \A d \in Conns : d # cn[u] => flight'[d] = flight[d]
           /\ \A d \in Conns : served'[d] <= Len(flight'[d])
<1>1. PICK c \in Conns, f \in Seq(Commands) : c = cn[u] /\ f = flight[cn[u]]
  BY Own
<1>2. f \o p \in Seq(Commands) /\ Len(f \o p) = Len(f) + Len(p)
      /\ Len(f) \in Nat /\ Len(p) \in Nat
  BY <1>1, ConcatProperties
<1>3. /\ flight'[c] = f \o p /\ flight' \in [Conns -> Seq(Commands)]
      /\ \A d \in Conns : d # c => flight'[d] = flight[d]
  BY <1>1, <1>2 DEF Inv, TypeOK
<1>4. served[c] \in Nat /\ served[c] <= Len(f)
  BY <1>1 DEF Inv, TypeOK
<1>5. served[c] <= Len(f \o p)
  BY <1>2, <1>4
<1>6. \A d \in Conns : served'[d] <= Len(flight'[d])
  BY <1>1, <1>3, <1>4, <1>5, ServedWithin
<1> QED
  BY <1>1, <1>3, <1>6

LEMMA FlushInv == ASSUME Inv, NEW u \in Users, Flush(u) PROVE Inv'
<1> USE PoolAssumption DEF Flush, pools
<1> DEFINE c == cn[u]
<1>1. /\ c \in Conns /\ c # None /\ w[u] \in Seq(Commands) /\ ~failed[u]
      /\ state[c] \notin {"new", "idle"}
  BY Own, HeldNotIdle
<1>2. /\ flight'[c] = flight[c] \o w[u] /\ flight' \in [Conns -> Seq(Commands)]
      /\ \A d \in Conns : d # c => flight'[d] = flight[d]
      /\ \A d \in Conns : served'[d] <= Len(flight'[d])
  BY <1>1, MoreInFlight
<1>3. w' \in [Users -> Seq(Commands)] /\ w'[u] = <<>>
  BY DEF Inv, TypeOK
<1>4. TypeOK'
  BY <1>2, <1>3 DEF Inv, TypeOK
<1>5. Exclusive' /\ OwnReplies' /\ FreshSessions'
  BY DEF Inv, Exclusive, OwnReplies, FreshSessions
<1>6. IdleClean'
  BY <1>1, <1>2 DEF Inv, IdleClean
<1>7. Line(u)'
  <2>1. InLine(ses[u], Len(got[ses[u]]), r[u], flight[c] \o w[u], <<>>,
               asked[ses[u]], FALSE)
    BY <1>1, Own, LineFlush, ZenonT(60) DEF Line
  <2>2. failed'[u] = FALSE
    BY <1>1, Own
  <2> QED
    BY <1>2, <1>3, <2>1, <2>2 DEF Line
<1>8. Lines'
  BY <1>1, <1>2, <1>7, LinesKept DEF Inv, TypeOK
<1> QED
  BY <1>4, <1>5, <1>6, <1>8 DEF Inv

LEMMA FlushFailsInv == ASSUME Inv, NEW u \in Users, FlushFails(u) PROVE Inv'
<1> USE PoolAssumption DEF FlushFails, pools
<1> DEFINE c == cn[u]
<1>1. /\ c \in Conns /\ c # None /\ w[u] \in Seq(Commands) /\ ~failed[u]
      /\ state[c] \notin {"new", "idle"}
  BY Own, HeldNotIdle
<1>k. PICK k \in 0 .. Len(w[u]) - 1 :
        flight' = [flight EXCEPT ![c] = @ \o SubSeq(w[u], 1, k)]
  OBVIOUS
<1>p. SubSeq(w[u], 1, k) \in Seq(Commands)
  BY <1>1, <1>k
<1>2. /\ flight'[c] = flight[c] \o SubSeq(w[u], 1, k)
      /\ flight' \in [Conns -> Seq(Commands)]
      /\ \A d \in Conns : d # c => flight'[d] = flight[d]
      /\ \A d \in Conns : served'[d] <= Len(flight'[d])
  BY <1>1, <1>k, <1>p, MoreInFlight
<1>3. failed' \in [Users -> BOOLEAN] /\ failed'[u] = TRUE
  BY DEF Inv, TypeOK
<1>4. TypeOK'
  BY <1>2, <1>3 DEF Inv, TypeOK
<1>5. Exclusive' /\ OwnReplies' /\ FreshSessions'
  BY DEF Inv, Exclusive, OwnReplies, FreshSessions
<1>6. IdleClean'
  BY <1>1, <1>2 DEF Inv, IdleClean
<1>7. Line(u)'
  <2>1. InLine(ses[u], Len(got[ses[u]]), r[u], flight[c] \o SubSeq(w[u], 1, k),
               w[u], asked[ses[u]], TRUE)
    BY <1>1, <1>k, Own, LineFlushFails DEF Line
  <2> QED
    BY <1>2, <1>3, <2>1 DEF Line
<1>8. Lines'
  BY <1>1, <1>2, <1>7, LinesKept DEF Inv, TypeOK
<1> QED
  BY <1>4, <1>5, <1>6, <1>8 DEF Inv

LEMMA FillInv == ASSUME Inv, NEW u \in Users, Fill(u) PROVE Inv'
<1> USE PoolAssumption DEF Fill, pools
<1>c. PICK c \in Conns, f \in Seq(Commands), n \in Nat :
        c = cn[u] /\ f = flight[cn[u]] /\ n = served[cn[u]]
  BY Own DEF Inv, TypeOK
<1>1. n > 0 /\ n <= Len(f) /\ n - 1 \in Nat
  BY <1>c DEF Inv, TypeOK
<1>2. f # <<>> /\ Head(f) \in Commands /\ Tail(f) \in Seq(Commands)
      /\ n - 1 <= Len(Tail(f))
  BY <1>1, <1>c, HeadTailProperties
<1>3. /\ flight'[c] = Tail(f) /\ flight' \in [Conns -> Seq(Commands)]
      /\ \A d \in Conns : d # c => flight'[d] = flight[d] /\ served'[d] = served[d]
      /\ served' \in [Conns -> Nat] /\ served'[c] = n - 1
  BY <1>1, <1>2, <1>c DEF Inv, TypeOK
<1>4. r' \in [Users -> Seq(Commands)] /\ r'[u] = Append(r[u], Head(f))
  BY <1>2, <1>c, Own, AppendProperties DEF Inv, TypeOK
<1>5. \A d \in Conns : served'[d] <= Len(flight'[d])
  BY <1>1, <1>2, <1>3, <1>c, ServedWithin
<1>6. TypeOK'
  BY <1>3, <1>4, <1>5 DEF Inv, TypeOK
<1>7. Exclusive' /\ OwnReplies' /\ FreshSessions'
  BY DEF Inv, Exclusive, OwnReplies, FreshSessions
<1>8. IdleClean'
  BY <1>3, <1>c, HeldNotIdle DEF Inv, IdleClean
<1>9. Line(u)'
  <2>1. InLine(ses[u], Len(got[ses[u]]), Append(r[u], Head(f)), Tail(f), w[u],
               asked[ses[u]], failed[u])
    <3>1. /\ ses[u] \in Sessions /\ Len(got[ses[u]]) \in Nat /\ f \in Seq(Commands)
          /\ asked[ses[u]] \in Nat /\ failed[u] \in BOOLEAN
          /\ r[u] \in Seq(Commands) /\ w[u] \in Seq(Commands)
          /\ InLine(ses[u], Len(got[ses[u]]), r[u], f, w[u], asked[ses[u]], failed[u])
      BY <1>c, Own DEF Line
    <3> QED
      BY <1>2, <3>1, LineFill
  <2> QED
    BY <1>3, <1>4, <1>c, <2>1 DEF Line
<1>10. Lines'
  BY <1>3, <1>9, <1>c, LinesKept DEF Inv, TypeOK
<1> QED
  BY <1>6, <1>7, <1>8, <1>10 DEF Inv

LEMMA ReadInv == ASSUME Inv, NEW u \in Users, Read(u) PROVE Inv'
<1> USE PoolAssumption DEF Read, pools
<1>s. PICK s \in Sessions, g \in Seq(Commands), x \in Seq(Commands) :
        s = ses[u] /\ g = got[ses[u]] /\ x = r[u]
  BY Own
<1>1. x # <<>> /\ Head(x) \in Commands /\ Tail(x) \in Seq(Commands)
  BY <1>s, HeadTailProperties
<1>2. /\ Append(g, Head(x)) \in Seq(Commands)
      /\ Len(Append(g, Head(x))) = Len(g) + 1 /\ Len(g) \in Nat
      /\ \A i \in 1 .. Len(g) : Append(g, Head(x))[i] = g[i]
      /\ Append(g, Head(x))[Len(g) + 1] = Head(x)
  BY <1>1, <1>s, AppendProperties
<1>3. /\ got' \in [Sessions -> Seq(Commands)] /\ got'[s] = Append(g, Head(x))
      /\ \A t \in Sessions : t # s => got'[t] = got[t]
  BY <1>2, <1>s DEF Inv, TypeOK
<1>4. r' \in [Users -> Seq(Commands)] /\ r'[u] = Tail(x)
  BY <1>1, <1>s DEF Inv, TypeOK
<1>5. TypeOK'
  BY <1>3, <1>4 DEF Inv, TypeOK
<1>6. Exclusive' /\ IdleClean'
  BY DEF Inv, Exclusive, IdleClean
<1>7. /\ Head(x) = <<s, Len(g) + 1>>
      /\ InLine(s, Len(g) + 1, Tail(x), flight[cn[u]], w[u], asked[s], failed[u])
  <2>1. /\ s \in Sessions /\ Len(g) \in Nat /\ flight[cn[u]] \in Seq(Commands)
        /\ asked[s] \in Nat /\ failed[u] \in BOOLEAN
        /\ x \in Seq(Commands) /\ w[u] \in Seq(Commands)
        /\ InLine(s, Len(g), x, flight[cn[u]], w[u], asked[s], failed[u])
    BY <1>s, Own DEF Line
  <2> QED
    BY <1>1, <2>1, LineRead
<1>8. Len(got'[s]) = Len(g) + 1
  BY <1>2, <1>3
<1>9. Line(u)'
  BY <1>4, <1>7, <1>8, <1>s DEF Line
<1>10. Lines'
  BY <1>3, <1>9, <1>s, LinesKept DEF Inv, TypeOK
<1>11. OwnReplies'
  <2> SUFFICES ASSUME NEW t \in Sessions, NEW i \in DOMAIN got'[t]
               PROVE  got'[t][i] = <<t, i>>
    BY DEF OwnReplies
  <2>1. CASE t # s
    BY <1>3, <2>1 DEF Inv, OwnReplies
  <2>2. CASE t = s
    <3>1. i \in 1 .. Len(g) + 1
      BY <1>2, <1>3, <2>2
    <3>2. CASE i \in 1 .. Len(g)
      BY <1>2, <1>3, <1>s, <2>2, <3>2 DEF Inv, OwnReplies
    <3>3. CASE i = Len(g) + 1
      BY <1>2, <1>3, <1>7, <2>2, <3>3
    <3> QED
      BY <1>2, <3>1, <3>2, <3>3
  <2> QED
    BY <2>1, <2>2
<1>12. FreshSessions'
  <2>1. sessions \in Nat /\ \A t \in Sessions : t > sessions => t # s
    BY <1>s, Own DEF Inv, TypeOK, Sessions
  <2> QED
    BY <1>3, <2>1 DEF Inv, FreshSessions
<1> QED
  BY <1>5, <1>6, <1>10, <1>11, <1>12 DEF Inv

LEMMA MarkFailedInv ==
    ASSUME Inv, NEW u \in Users, cn[u] # None,
           failed' = [failed EXCEPT ![u] = TRUE],
           state' = state \/ state' = [state EXCEPT ![cn[u]] = "closed"],
           UNCHANGED <<flight, served, cn, ses, w, r, pools, sessions, asked, got>>
    PROVE  Inv'
<1> USE PoolAssumption DEF pools
<1>1. /\ failed' \in [Users -> BOOLEAN] /\ failed'[u] = TRUE
      /\ state' \in [Conns -> {"new", "idle", "used", "closed"}]
  BY DEF Inv, TypeOK
<1>2. TypeOK'
  BY <1>1 DEF Inv, TypeOK
<1>3. Exclusive' /\ IdleClean' /\ OwnReplies' /\ FreshSessions'
  BY DEF Inv, TypeOK, Exclusive, IdleClean, OwnReplies, FreshSessions
<1>4. Line(u)'
  BY <1>1, Own DEF Line, InLine
<1>5. Lines'
  BY <1>4, LinesKept DEF Inv, TypeOK
<1> QED
  BY <1>2, <1>3, <1>5 DEF Inv

LEMMA ServeInv == ASSUME Inv, NEW c \in Conns, Serve(c) PROVE Inv'
<1> USE DEF Serve, pools, handle
<1>1. served' \in [Conns -> Nat] /\ served'[c] = served[c] + 1 /\ served[c] \in Nat
      /\ Len(flight[c]) \in Nat
      /\ \A d \in Conns : d # c => served'[d] = served[d]
  BY DEF Inv, TypeOK
<1>2. \A d \in Conns : served'[d] <= Len(flight'[d])
  BY <1>1, ServedWithin
<1>3. TypeOK'
  BY <1>1, <1>2 DEF Inv, TypeOK
<1>4. Exclusive' /\ IdleClean' /\ OwnReplies' /\ FreshSessions'
  BY DEF Inv, Exclusive, IdleClean, OwnReplies, FreshSessions
<1>5. Lines'
  BY DEF Inv, Lines, Line
<1> QED
  BY <1>3, <1>4, <1>5 DEF Inv

LEMMA CloseInv == ASSUME Inv, Close PROVE Inv'
<1> USE DEF Close, handle
<1>1. TypeOK'
  BY DEF Inv, TypeOK
<1>2. Exclusive' /\ IdleClean' /\ OwnReplies' /\ FreshSessions'
  BY DEF Inv, TypeOK, Exclusive, IdleClean, OwnReplies, FreshSessions
<1>3. Lines'
  BY DEF Inv, Lines, Line
<1> QED
  BY <1>1, <1>2, <1>3 DEF Inv

LEMMA StutterInv == ASSUME Inv, UNCHANGED vars PROVE Inv'
BY DEF Inv, vars, handle, pools, TypeOK, Exclusive, IdleClean, OwnReplies,
       FreshSessions, Lines, Line

-----------------------------------------------------------------------------
(* The theorems *)

LEMMA NextInv == ASSUME Careful, Inv, [Next]_vars PROVE Inv'
<1>1. ASSUME NEW u \in Users, UserStep(u) PROVE Inv'
  <2>1. ASSUME NEW c \in Conns, Get(u, c) \/ Wrap(u, c) PROVE Inv'
    BY <2>1, GetInv, WrapInv
  <2>2. CASE Put(u)
    BY <2>2, PutInv
  <2>3. CASE WriteCmd(u)
    BY <2>3, WriteCmdInv
  <2>4. CASE Flush(u)
    BY <2>4, FlushInv
  <2>5. CASE FlushFails(u)
    BY <2>5, FlushFailsInv
  <2>6. CASE Fill(u)
    BY <2>6, FillInv
  <2>7. CASE Read(u)
    BY <2>7, ReadInv
  <2>8. CASE MarkFailed(u)
    BY <2>8, MarkFailedInv DEF MarkFailed
  <2>9. CASE CloseConn(u)
    BY <2>9, MarkFailedInv DEF CloseConn
  <2> QED
    BY <1>1, <2>1, <2>2, <2>3, <2>4, <2>5, <2>6, <2>7, <2>8, <2>9 DEF UserStep
<1>2. ASSUME NEW c \in Conns, Serve(c) PROVE Inv'
  BY <1>2, ServeInv
<1>3. CASE Close
  BY <1>3, CloseInv
<1>4. CASE UNCHANGED vars
  BY <1>4, StutterInv
<1> QED
  BY <1>1, <1>2, <1>3, <1>4 DEF Next

LEMMA Invariance == ASSUME Careful PROVE Spec => []Inv
<1>1. Init => Inv
  BY InitInv
<1>2. Inv /\ [Next]_vars => Inv'
  BY NextInv
<1> QED
  BY <1>1, <1>2, PTL DEF Spec

\* With careful users the pool offers no connection on which a command or a
\* reply of an earlier user is left (Put, MarkFailed).
THEOREM PoolSafe == ASSUME Careful PROVE Spec => [](TypeOK /\ IdleClean)
<1>1. Inv => TypeOK /\ IdleClean
  BY DEF Inv
<1> QED
  BY <1>1, Invariance, PTL

\* Every session of a careful user reads the replies to its own commands, in
\* their order, however many users, connections, failures and recycled
\* readers and writers there are.
THEOREM RepliesAreOwn == ASSUME Careful PROVE Spec => []OwnReplies
<1>1. Inv => OwnReplies
  BY DEF Inv
<1> QED
  BY <1>1, Invariance, PTL

\* A session in line has a command for the reply it is about to read.
LEMMA LineOwes ==
    ASSUME NEW s \in Sessions, NEW g \in Nat, NEW a \in Nat, NEW fails \in BOOLEAN,
           NEW x \in Seq(Commands), NEW y \in Seq(Commands), NEW z \in Seq(Commands),
           InLine(s, g, x, y, z, a, fails), x # <<>>
    PROVE  1 <= a - g
<1>1. Len(x) > 0 /\ Len(x) \in Nat /\ Len(y) \in Nat /\ g + Len(x) + Len(y) <= a
  BY EmptySeq DEF InLine
<1> QED
  BY <1>1

LEMMA ReadAnswers ==
    ASSUME Inv, NEW u \in Users, Read(u) PROVE Abstract!Answer(ses[u], 1)
<1> USE DEF Read
<1>s. PICK s \in Sessions, g \in Seq(Commands), x \in Seq(Commands) :
        s = ses[u] /\ g = got[ses[u]] /\ x = r[u]
  BY Own
<1>1. /\ s \in Sessions /\ Len(g) \in Nat /\ flight[cn[u]] \in Seq(Commands)
      /\ asked[s] \in Nat /\ failed[u] \in BOOLEAN /\ x # <<>>
      /\ x \in Seq(Commands) /\ w[u] \in Seq(Commands)
      /\ InLine(s, Len(g), x, flight[cn[u]], w[u], asked[s], failed[u])
  BY <1>s, Own DEF Line
<1>2. Head(x) = <<s, Len(g) + 1>> /\ 1 <= asked[s] - Len(g)
  BY <1>1, LineRead, LineOwes, SMTT(60)
<1>3. Append(g, Head(x)) = g \o [i \in 1 .. 1 |-> <<s, Len(g) + i>>]
  <2> DEFINE e == <<s, Len(g) + 1>>
             t == [i \in 1 .. 1 |-> <<s, Len(g) + i>>]
  <2>1. e \in Commands
    BY <1>1 DEF Commands
  <2>2. t = <<e>>
    BY <1>1
  <2>3. Append(g, e) = g \o <<e>>
    BY <1>s, <2>1, AppendIsConcat
  <2> HIDE DEF e, t
  <2>4. Append(g, e) = g \o t
    BY <2>2, <2>3
  <2> QED
    BY <1>2, <2>4 DEF e, t
<1>4. got' = [got EXCEPT ![s] = @ \o [i \in 1 .. 1 |-> <<s, Len(g) + i>>]]
  BY <1>3, <1>s
<1> QED
  BY <1>2, <1>4, <1>s DEF Abstract!Answer

\* Pool and Conn implement Calls: with careful users no session loses a reply,
\* gets one twice, or gets one of another session.
THEOREM Refinement == ASSUME Careful PROVE Spec => ImplementsCalls
<1>1. Init => Abstract!Init
  BY DEF Init, Abstract!Init
<1>2. ASSUME Inv, [Next]_vars PROVE [Abstract!Next]_Abstract!vars
  <2>1. ASSUME NEW u \in Users, WriteCmd(u) PROVE Abstract!Next
    <3>1. ses[u] \in Sessions
      BY <1>2, <2>1, Own DEF WriteCmd
    <3> QED
      BY <2>1, <3>1 DEF WriteCmd, Abstract!Next, Abstract!Ask
  <2>2. ASSUME NEW u \in Users, Read(u) PROVE Abstract!Next
    <3>1. Abstract!Answer(ses[u], 1) /\ ses[u] \in Sessions
      BY <1>2, <2>2, ReadAnswers, Own DEF Read
    <3>2. 1 \in 1 .. asked[ses[u]] - Len(got[ses[u]])
      <4>1. asked[ses[u]] \in Nat /\ Len(got[ses[u]]) \in Nat
        BY <1>2, <2>2, Own DEF Read
      <4> QED
        BY <3>1, <4>1 DEF Abstract!Answer
    <3> QED
      BY <3>1, <3>2 DEF Abstract!Next
  <2>3. CASE UNCHANGED <<asked, got>>
    BY <2>3 DEF Abstract!vars
  <2>4. ASSUME NEW u \in Users, UserStep(u), ~WriteCmd(u), ~Read(u)
        PROVE  UNCHANGED <<asked, got>>
    BY <2>4 DEF UserStep, Get, Wrap, Begin, Put, Flush, FlushFails, Fill,
                MarkFailed, CloseConn
  <2> QED
    BY <1>2, <2>1, <2>2, <2>3, <2>4 DEF Next, Serve, Close, vars
<1> QED
  BY <1>1, <1>2, Invariance, PTL DEF Spec, ImplementsCalls, Abstract!Spec

=============================================================================
