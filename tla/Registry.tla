------------------------------ MODULE Registry ------------------------------
(***************************************************************************)
(* The info registry (info/info.go): goroutines fetch sections by name,    *)
(* whatever its case, register values in them, clear and replace them, and *)
(* print one section or all of them.  The registry and every section have  *)
(* a read-write lock; a section is printed under its lock, but the whole   *)
(* registry is printed under the lock of the registry only.  For that, as  *)
(* the comment of Registry asks, values are registered before the server   *)
(* is started.                                                             *)
(*                                                                         *)
(* A section is numbered when it is allocated.  A value is what it prints. *)
(***************************************************************************)
EXTENDS Integers, SequencesExt

CONSTANTS
    Procs,         \* goroutines
    Spellings,     \* names of sections, as they are written
    Lower,         \* strings.ToLower on Spellings
    Values, None,  \* values, and what is no value, no name and no list
    MaxSections,   \* sections ever allocated (bound)
    MaxValues      \* values of a section (bound)

ASSUME RegistryAssumption ==
    /\ Lower \in [Spellings -> Spellings]
    /\ None \notin Values \cup Spellings \cup Seq(Values)
    /\ MaxSections \in Nat /\ MaxValues \in Nat

VARIABLES
    name, kvs,     \* the sections: their names and their values
    sections,      \* the sections of the registry
    started,       \* the server is running
    pc, sec,       \* a goroutine: where it is, and the section it has (0: nil)
    want,          \* the name it fetches, or fetched since the last Clear
    new,           \* the values it is about to store
    seen, out      \* what it has to print, and what it has printed

store == <<name, kvs, sections, started>>
vars  == <<store, pc, sec, want, new, seen, out>>

Init ==
    /\ name = <<>> /\ kvs = <<>> /\ sections = <<>>
    /\ started = FALSE
    /\ pc = [p \in Procs |-> "idle"] /\ sec = [p \in Procs |-> 0]
    /\ want = [p \in Procs |-> None]
    /\ new = [p \in Procs |-> <<>>]
    /\ seen = [p \in Procs |-> <<>>] /\ out = [p \in Procs |-> <<>>]

Goto(p, l) == pc' = [pc EXCEPT ![p] = l]

\* A goroutine holds the write lock of s, the read lock of s, or the read
\* lock of the registry.
Writing(s) == \E q \in Procs : pc[q] = "write" /\ sec[q] = s
Printing(s) == \E q \in Procs : pc[q] = "print" /\ sec[q] = s
Dumping == \E q \in Procs : pc[q] = "dump"

-----------------------------------------------------------------------------
(* Registry *)

SameName(m, n) == Lower[m] = Lower[n]

\* The first section of that name, or nil.
findSection(n) ==
    LET found == {i \in DOMAIN sections : SameName(name[sections[i]], n)}
    IN  IF found = {} THEN 0
        ELSE sections[CHOOSE i \in found : \A j \in found : i <= j]

FindSection(p, n) ==
    /\ pc[p] = "idle"
    /\ sec' = [sec EXCEPT ![p] = findSection(n)]
    /\ want' = [want EXCEPT ![p] = None]
    /\ UNCHANGED <<store, pc, new, seen, out>>

\* FetchSection looks under the read lock first, and again under the write
\* lock before it appends a section.
FetchSection(p, n) ==
    /\ pc[p] = "idle" /\ Len(name) < MaxSections
    /\ sec' = [sec EXCEPT ![p] = findSection(n)]
    /\ want' = [want EXCEPT ![p] = n]
    /\ Goto(p, IF findSection(n) = 0 THEN "create" ELSE "idle")
    /\ UNCHANGED <<store, new, seen, out>>

\* Mutant of Create: it does not look again.
CreateBlindly(p) ==
    /\ pc[p] = "create" /\ ~Dumping
    /\ name' = Append(name, want[p]) /\ kvs' = Append(kvs, <<>>)
    /\ sections' = Append(sections, Len(name) + 1)
    /\ sec' = [sec EXCEPT ![p] = Len(name) + 1]
    /\ Goto(p, "idle")
    /\ UNCHANGED <<started, want, new, seen, out>>

\* Mutant of Create: the new section is not appended to the registry.
CreateUnlisted(p) ==
    /\ pc[p] = "create" /\ ~Dumping
    /\ LET s == findSection(want[p])
           n == Len(name) + 1
       IN  IF s # 0
           THEN sec' = [sec EXCEPT ![p] = s] /\ UNCHANGED <<name, kvs>>
           ELSE /\ name' = Append(name, want[p]) /\ kvs' = Append(kvs, <<>>)
                /\ sec' = [sec EXCEPT ![p] = n]
    /\ Goto(p, "idle")
    /\ UNCHANGED <<sections, started, want, new, seen, out>>

Create(p) ==
    /\ pc[p] = "create" /\ ~Dumping
    /\ LET s == findSection(want[p])
           n == Len(name) + 1
       IN  IF s # 0
           THEN sec' = [sec EXCEPT ![p] = s] /\ UNCHANGED <<name, kvs, sections>>
           ELSE /\ name' = Append(name, want[p]) /\ kvs' = Append(kvs, <<>>)
                /\ sections' = Append(sections, n)
                /\ sec' = [sec EXCEPT ![p] = n]
    /\ Goto(p, "idle")
    /\ UNCHANGED <<started, want, new, seen, out>>

\* Whatever was fetched is no longer found.
Forget == want' = [q \in Procs |-> IF pc[q] = "create" THEN want[q] ELSE None]

\* Mutant of ClearRegistry: it takes no lock.
ClearUnlocked(p) ==
    /\ pc[p] = "idle"
    /\ sections' = <<>> /\ Forget
    /\ UNCHANGED <<name, kvs, started, pc, sec, new, seen, out>>

\* Registry.Clear.  Who has a section keeps it.
ClearRegistry(p) ==
    /\ pc[p] = "idle" /\ ~Dumping
    /\ sections' = <<>> /\ Forget
    /\ UNCHANGED <<name, kvs, started, pc, sec, new, seen, out>>

-----------------------------------------------------------------------------
(* Section *)

\* Mutant of Lock: it does not wait for those who print.
LockIgnoresReaders(p, vs) ==
    /\ sec[p] # 0 /\ ~started
    /\ ~Writing(sec[p])
    /\ new' = [new EXCEPT ![p] = vs] /\ Goto(p, "write")
    /\ UNCHANGED <<store, sec, want, seen, out>>

\* p locks its section, in order to store vs in it.
Lock(p, vs) ==
    /\ sec[p] # 0 /\ ~started
    /\ ~Writing(sec[p]) /\ ~Printing(sec[p])
    /\ new' = [new EXCEPT ![p] = vs] /\ Goto(p, "write")
    /\ UNCHANGED <<store, sec, want, seen, out>>

Register(p, v) ==
    /\ pc[p] = "idle" /\ sec[p] # 0 /\ Len(kvs[sec[p]]) < MaxValues
    /\ Lock(p, Append(kvs[sec[p]], v))
ClearSection(p) == pc[p] = "idle" /\ Lock(p, <<>>)

\* Replace calls fn with a section of its own, before it locks.
Replace(p, vs) ==
    /\ pc[p] = "idle" /\ sec[p] # 0 /\ ~started
    /\ new' = [new EXCEPT ![p] = vs] /\ Goto(p, "replace")
    /\ UNCHANGED <<store, sec, want, seen, out>>
ReplaceLocks(p) == pc[p] = "replace" /\ Lock(p, new[p])

\* The assignment, and Unlock.
Store(p) ==
    /\ pc[p] = "write"
    /\ kvs' = [kvs EXCEPT ![sec[p]] = new[p]]
    /\ new' = [new EXCEPT ![p] = <<>>] /\ Goto(p, "idle")
    /\ UNCHANGED <<name, sections, started, sec, want, seen, out>>

\* Section.String: nothing for nil; else RLock, and the values are printed, if
\* there are any.
StringBegin(p) ==
    /\ pc[p] = "idle" /\ sec[p] # 0 /\ ~Writing(sec[p])
    /\ seen' = [seen EXCEPT ![p] = kvs[sec[p]]]
    /\ Goto(p, "print")
    /\ UNCHANGED <<store, sec, want, new, out>>
StringEnd(p) ==
    /\ pc[p] = "print"
    /\ seen' = [seen EXCEPT ![p] = <<>>]
    /\ Goto(p, "idle")
    /\ UNCHANGED <<store, sec, want, new, out>>

-----------------------------------------------------------------------------
(* Printing the registry, and the server *)

\* Registry.String takes the lock of the registry.
DumpBegin(p) ==
    /\ pc[p] = "idle" /\ started
    /\ seen' = [seen EXCEPT ![p] = sections]
    /\ Goto(p, "dump")
    /\ UNCHANGED <<store, sec, want, new, out>>

\* The values that are printed for a section; an empty one is left out, and
\* one that somebody is storing into can come out as anything.
Dumped(s) == IF Writing(s) THEN <<None>>
             ELSE IF kvs[s] = <<>> THEN <<>> ELSE <<kvs[s]>>

DumpSection(p) ==
    /\ pc[p] = "dump" /\ seen[p] # <<>>
    /\ out' = [out EXCEPT ![p] = @ \o Dumped(Head(seen[p]))]
    /\ seen' = [seen EXCEPT ![p] = Tail(@)]
    /\ UNCHANGED <<store, pc, sec, want, new>>
DumpEnd(p) ==
    /\ pc[p] = "dump" /\ seen[p] = <<>>
    /\ out' = [out EXCEPT ![p] = <<>>] /\ Goto(p, "idle")
    /\ UNCHANGED <<store, sec, want, new, seen>>

\* The application has registered its values and serves.
Start ==
    /\ ~started /\ \A p \in Procs : pc[p] \notin {"write", "replace"}
    /\ started' = TRUE
    /\ UNCHANGED <<name, kvs, sections, pc, sec, want, new, seen, out>>

Step(p) ==
    \/ \E n \in Spellings : FindSection(p, n) \/ FetchSection(p, n)
    \/ Create(p) \/ ClearRegistry(p)
    \/ \E v \in Values : Register(p, v)
    \/ ClearSection(p)
    \/ \E v \in Values : Replace(p, <<v>>)
    \/ ReplaceLocks(p) \/ Store(p)
    \/ StringBegin(p) \/ StringEnd(p)
    \/ DumpBegin(p) \/ DumpSection(p) \/ DumpEnd(p)

Next == (\E p \in Procs : Step(p)) \/ Start

Spec == Init /\ [][Next]_vars

-----------------------------------------------------------------------------
(* Properties *)

\* Every variable has its type.
TypeOK ==
    /\ name \in Seq(Spellings) /\ kvs \in Seq(Seq(Values)) /\ Len(kvs) = Len(name)
    /\ sections \in Seq(1 .. Len(name)) /\ started \in BOOLEAN
    /\ pc \in [Procs -> {"idle", "create", "replace", "write", "print", "dump"}]
    /\ sec \in [Procs -> 0 .. Len(name)] /\ want \in [Procs -> Spellings \cup {None}]
    /\ new \in [Procs -> Seq(Values)]

\* The state has its type, and however many goroutines fetch a section at once,
\* and however they write its name, there is one section of that name: all but
\* one of them find it when they look again (FetchSection).
OneSection ==
    /\ TypeOK
    /\ \A i, j \in DOMAIN sections :
          SameName(name[sections[i]], name[sections[j]]) => i = j

\* What FetchSection returns is what any later look-up of the name finds, until
\* the registry is cleared: no goroutine registers its values in a section that
\* is not printed.
FetchedListed ==
    \A p \in Procs : want[p] # None /\ pc[p] # "create" => findSection(want[p]) = sec[p]

\* While a section is printed under its lock (Section.String), its values do
\* not change, whoever registers, clears or replaces.
PrintWhole == \A p \in Procs : pc[p] = "print" => kvs[sec[p]] = seen[p]

\* What is printed for sections ss.
Whole(ss) == FlattenSeq([i \in DOMAIN ss |-> Dumped(ss[i])])

\* Registry.String prints every section that has values, once and in the order
\* of the registry, although it takes no section's lock: values are registered
\* before the server starts, and nobody clears the registry meanwhile.
DumpWhole ==
    \A p \in Procs : pc[p] = "dump" =>
        /\ out[p] \o Whole(seen[p]) = Whole(sections)
        /\ \A i \in DOMAIN out[p] : out[p][i] # None
=============================================================================
