--------------------------- MODULE RegistryProofs ---------------------------
(***************************************************************************)
(* Proofs about Registry for any number of goroutines, names, values and   *)
(* sections: one section for each name, what is fetched is listed, and     *)
(* what is printed is whole.                                               *)
(***************************************************************************)
EXTENDS Registry, SequenceFacts

(***************************************************************************)
(* Looking a section up                                                    *)
(***************************************************************************)

\* findSection over any sections, so that it can be spoken of after a step.
Found(nm, ss, n) == {i \in DOMAIN ss : SameName(nm[ss[i]], n)}
Find(nm, ss, n) ==
    IF Found(nm, ss, n) = {} THEN 0
    ELSE ss[CHOOSE i \in Found(nm, ss, n) : \A j \in Found(nm, ss, n) : i <= j]

UniqueIn(nm, ss) ==
    \A i, j \in DOMAIN ss : SameName(nm[ss[i]], nm[ss[j]]) => i = j

LEMMA findIs ==
    /\ \A n : findSection(n) = Find(name, sections, n)
    /\ \A n : findSection(n)' = Find(name', sections', n)
BY DEF findSection, Find, Found

\* What is found is in the list and has the name; when nothing is found, no
\* section has it.
LEMMA FindSound ==
    ASSUME NEW nm, NEW k \in Nat, NEW ss \in Seq(1 .. k), NEW n
    PROVE  \/ Find(nm, ss, n) = 0 /\ \A i \in DOMAIN ss : ~SameName(nm[ss[i]], n)
           \/ \E i \in DOMAIN ss : /\ Find(nm, ss, n) = ss[i] /\ ss[i] \in 1 .. k
                                   /\ SameName(nm[ss[i]], n)
<1> DEFINE F == Found(nm, ss, n)
<1>1. CASE F = {}
  BY <1>1 DEF Find, Found
<1>2. CASE F # {}
  <2>1. F \subseteq Nat
    BY DEF Found
  <2> DEFINE i == CHOOSE i \in F : \A j \in F : i <= j
  <2>2. i \in F
    BY <1>2, <2>1, LeastNumber
  <2>3. Find(nm, ss, n) = ss[i]
    BY <1>2 DEF Find
  <2> HIDE DEF i
  <2>4. i \in DOMAIN ss /\ SameName(nm[ss[i]], n)
    BY <2>2 DEF Found
  <2>5. ss[i] \in 1 .. k
    BY <2>4
  <2> QED
    BY <2>3, <2>4, <2>5
<1> QED
  BY <1>1, <1>2

\* The section of that name is found, when there is only one.
LEMMA FindComplete ==
    ASSUME NEW nm, NEW k \in Nat, NEW ss \in Seq(1 .. k), UniqueIn(nm, ss), NEW n,
           NEW i \in DOMAIN ss, SameName(nm[ss[i]], n)
    PROVE  Find(nm, ss, n) = ss[i]
<1>1. PICK j \in DOMAIN ss : Find(nm, ss, n) = ss[j] /\ SameName(nm[ss[j]], n)
  BY FindSound
<1>2. i = j
  BY <1>1 DEF UniqueIn, SameName
<1> QED
  BY <1>1, <1>2

LEMMA FindType ==
    ASSUME TypeOK, NEW n
    PROVE  findSection(n) \in 0 .. Len(name)
<1>1. Len(name) \in Nat /\ sections \in Seq(1 .. Len(name))
  BY DEF TypeOK
<1>2. Find(name, sections, n) \in 0 .. Len(name)
  BY <1>1, FindSound
<1> QED
  BY <1>2, findIs

(***************************************************************************)
(* The inductive invariant                                                 *)
(***************************************************************************)

\* Who locks a section has one, and who stores or prints a section shares it
\* with no other who stores.
HoldsSection ==
    \A p \in Procs : pc[p] \in {"write", "print", "replace"} => sec[p] # 0
LocksHeld ==
    \A p, q \in Procs :
        pc[p] = "write" /\ pc[q] \in {"write", "print"} /\ p # q => sec[p] # sec[q]

\* Who creates a section knows its name, and what was fetched is not nil.
Fetched ==
    \A p \in Procs : /\ pc[p] = "create" => want[p] # None
                     /\ want[p] # None /\ pc[p] # "create" => sec[p] # 0

\* Once the server runs nobody stores, and only then the registry is printed.
Quiet ==
    /\ started => \A p \in Procs : pc[p] \notin {"write", "replace"}
    /\ \A p \in Procs : pc[p] = "dump" => started

\* What there is to print and what is printed.
PrintType ==
    /\ seen \in [Procs -> Seq(Values) \cup Seq(Nat)]
    /\ out \in [Procs -> Seq(Seq(Values))]
    /\ \A p \in Procs : pc[p] = "dump" => seen[p] \in Seq(1 .. Len(name))
    /\ \A p \in Procs : pc[p] # "dump" => out[p] = <<>>

Inductive ==
    /\ OneSection /\ FetchedListed /\ PrintWhole /\ DumpWhole
    /\ HoldsSection /\ LocksHeld /\ Fetched /\ Quiet /\ PrintType

LEMMA InitHolds == Init => Inductive
<1> SUFFICES ASSUME Init PROVE Inductive
  OBVIOUS
<1>1. TypeOK
  <2>1. Len(name) = 0 /\ Len(kvs) = 0 /\ 0 \in 0 .. 0
    BY DEF Init
  <2>2. /\ name \in Seq(Spellings) /\ kvs \in Seq(Seq(Values))
        /\ sections \in Seq(1 .. 0) /\ <<>> \in Seq(Values)
    BY DEF Init
  <2> QED
    BY <2>1, <2>2 DEF Init, TypeOK
<1>2. OneSection
  <2>1. DOMAIN sections = {}
    BY DEF Init
  <2> QED
    BY <1>1, <2>1 DEF OneSection
<1>3. FetchedListed /\ PrintWhole /\ DumpWhole
  BY DEF Init, FetchedListed, PrintWhole, DumpWhole
<1>4. HoldsSection /\ LocksHeld /\ Fetched /\ Quiet /\ PrintType
  BY <1>1 DEF Init, HoldsSection, LocksHeld, Fetched, Quiet, PrintType
<1> QED
  BY <1>2, <1>3, <1>4 DEF Inductive

(***************************************************************************)
(* Types                                                                   *)
(***************************************************************************)
LEMMA LockType ==
    ASSUME TypeOK, NEW p \in Procs, NEW vs \in Seq(Values), Lock(p, vs)
    PROVE  TypeOK'
BY DEF TypeOK, Lock, Goto, store

LEMMA TypeStep ==
    ASSUME TypeOK, HoldsSection, Fetched, NEW p \in Procs, Step(p)
    PROVE  TypeOK'
<1> USE DEF TypeOK, Goto, store
<1>0. Len(name) \in Nat
  OBVIOUS
<1>1. ASSUME NEW n \in Spellings, FindSection(p, n)
      PROVE  TypeOK'
  BY <1>1, FindType DEF FindSection
<1>2. ASSUME NEW n \in Spellings, FetchSection(p, n)
      PROVE  TypeOK'
  BY <1>2, FindType DEF FetchSection
<1>3. CASE Create(p)
  <2>1. want[p] \in Spellings
    BY <1>3 DEF Create, Fetched
  <2>2. CASE findSection(want[p]) # 0
    <3>1. /\ sec' = [sec EXCEPT ![p] = findSection(want[p])]
          /\ UNCHANGED <<name, kvs, sections>>
      BY <1>3, <2>2 DEF Create
    <3>2. findSection(want[p]) \in 0 .. Len(name)
      BY FindType
    <3> QED
      BY <1>3, <3>1, <3>2 DEF Create
  <2>3. CASE findSection(want[p]) = 0
    <3>1. /\ name' = Append(name, want[p]) /\ kvs' = Append(kvs, <<>>)
          /\ sections' = Append(sections, Len(name) + 1)
          /\ sec' = [sec EXCEPT ![p] = Len(name) + 1]
      BY <1>3, <2>3 DEF Create
    <3>2. name' \in Seq(Spellings) /\ Len(name') = Len(name) + 1
      BY <2>1, <3>1
    <3>3. kvs' \in Seq(Seq(Values)) /\ Len(kvs') = Len(kvs) + 1
      BY <3>1
    <3>4. sections' \in Seq(1 .. Len(name) + 1)
      <4>1. sections \in Seq(1 .. Len(name) + 1)
        BY <1>0, SeqMonotonic
      <4> QED
        BY <1>0, <3>1, <4>1
    <3>5. sec' \in [Procs -> 0 .. Len(name) + 1]
      BY <1>0, <3>1
    <3> QED
      BY <1>3, <3>2, <3>3, <3>4, <3>5 DEF Create
  <2> QED
    BY <2>2, <2>3
<1>4. CASE ClearRegistry(p)
  BY <1>4 DEF ClearRegistry, Forget
<1>5. ASSUME NEW v \in Values, Register(p, v)
      PROVE  TypeOK'
  <2>1. sec[p] \in 1 .. Len(kvs)
    BY <1>5 DEF Register
  <2>2. kvs[sec[p]] \in Seq(Values)
    BY <2>1
  <2>3. Append(kvs[sec[p]], v) \in Seq(Values)
    BY <2>2
  <2> QED
    BY <1>5, <2>3, LockType DEF Register
<1>6. CASE ClearSection(p)
  <2>1. <<>> \in Seq(Values)
    OBVIOUS
  <2> QED
    BY <1>6, <2>1, LockType DEF ClearSection
<1>7. ASSUME NEW v \in Values, Replace(p, <<v>>)
      PROVE  TypeOK'
  BY <1>7 DEF Replace
<1>8. CASE ReplaceLocks(p)
  BY <1>8, LockType DEF ReplaceLocks
<1>9. CASE Store(p)
  <2>1. sec[p] \in 1 .. Len(kvs)
    BY <1>9 DEF Store, HoldsSection
  <2>2. kvs' \in Seq(Seq(Values)) /\ Len(kvs') = Len(kvs)
    BY <1>9, <2>1 DEF Store
  <2> QED
    BY <1>9, <2>2 DEF Store
<1>10. CASE StringBegin(p)
  BY <1>10 DEF StringBegin
<1>11. CASE StringEnd(p)
  BY <1>11 DEF StringEnd
<1>12. CASE DumpBegin(p)
  BY <1>12 DEF DumpBegin
<1>13. CASE DumpSection(p)
  BY <1>13 DEF DumpSection
<1>14. CASE DumpEnd(p)
  BY <1>14 DEF DumpEnd
<1> QED
  BY <1>1, <1>2, <1>3, <1>4, <1>5, <1>6, <1>7, <1>8, <1>9, <1>10, <1>11, <1>12,
     <1>13, <1>14 DEF Step

(***************************************************************************)
(* Names: one section for each, and it is the one that was fetched         *)
(***************************************************************************)

\* Appending a section whose name is not found.
LEMMA AppendSection ==
    ASSUME NEW nm \in Seq(Spellings), NEW ss \in Seq(1 .. Len(nm)),
           UniqueIn(nm, ss), NEW n \in Spellings, Find(nm, ss, n) = 0
    PROVE  LET nm2 == Append(nm, n)
               ss2 == Append(ss, Len(nm) + 1)
           IN  /\ ss2 \in Seq(1 .. Len(nm2)) /\ UniqueIn(nm2, ss2)
               /\ Find(nm2, ss2, n) = Len(nm) + 1
               /\ \A m : Find(nm, ss, m) # 0 => Find(nm2, ss2, m) = Find(nm, ss, m)
<1> DEFINE nm2 == Append(nm, n)
           k == Len(nm) + 1
           ss2 == Append(ss, k)
           l == Len(ss) + 1
<1>1. Len(nm) \in Nat /\ Len(ss) \in Nat /\ Len(nm2) = k /\ nm2 \in Seq(Spellings)
  OBVIOUS
<1>2. ss2 \in Seq(1 .. k)
  <2>1. ss \in Seq(1 .. k)
    BY <1>1, SeqMonotonic
  <2> QED
    BY <1>1, <2>1
<1>3. /\ DOMAIN ss = 1 .. Len(ss) /\ DOMAIN ss2 = 1 .. l /\ ss2[l] = k /\ nm2[k] = n
      /\ \A i \in DOMAIN ss : i \in DOMAIN ss2 /\ ss2[i] = ss[i] /\ nm2[ss2[i]] = nm[ss[i]]
  BY <1>1
<1>4. \A i \in DOMAIN ss2 : i \in DOMAIN ss \/ i = l
  BY <1>1, <1>3
<1>5. \A i \in DOMAIN ss : ~SameName(nm[ss[i]], n)
  <2>1. \A i \in DOMAIN ss : ss[i] # 0
    BY <1>1
  <2> QED
    BY <1>1, <2>1, FindSound
<1> HIDE DEF nm2, ss2, k, l
<1>6. UniqueIn(nm2, ss2)
  BY <1>3, <1>4, <1>5 DEF UniqueIn, SameName
<1>7. k \in Nat
  BY <1>1 DEF k
<1>8. Find(nm2, ss2, n) = k
  <2>1. l \in DOMAIN ss2 /\ SameName(nm2[ss2[l]], n)
    BY <1>1, <1>3 DEF SameName, l
  <2> QED
    <3>1. Find(nm2, ss2, n) = ss2[l]
      BY <1>2, <1>6, <1>7, <2>1, FindComplete
    <3> QED
      BY <1>3, <3>1
<1>9. ASSUME NEW m, Find(nm, ss, m) # 0
      PROVE  Find(nm2, ss2, m) = Find(nm, ss, m)
  <2>1. PICK i \in DOMAIN ss : Find(nm, ss, m) = ss[i] /\ SameName(nm[ss[i]], m)
    BY <1>1, <1>9, FindSound
  <2>2. i \in DOMAIN ss2 /\ SameName(nm2[ss2[i]], m) /\ ss2[i] = ss[i]
    BY <1>3, <2>1
  <2>3. Find(nm2, ss2, m) = ss2[i]
    BY <1>2, <1>6, <1>7, <2>2, FindComplete
  <2> QED
    BY <2>1, <2>2, <2>3
<1> QED
  BY <1>1, <1>2, <1>6, <1>8, <1>9 DEF nm2, ss2, k

LEMMA UniqueIs ==
    /\ OneSection <=> TypeOK /\ UniqueIn(name, sections)
    /\ OneSection' <=> TypeOK' /\ UniqueIn(name', sections')
BY DEF OneSection, UniqueIn

\* A step that leaves the names alone.
LEMMA SameSections ==
    ASSUME OneSection, TypeOK', UNCHANGED <<name, sections>>
    PROVE  OneSection' /\ \A n : findSection(n)' = findSection(n)
BY UniqueIs, findIs

LEMMA NamesStep ==
    ASSUME OneSection, FetchedListed, HoldsSection, Fetched, NEW p \in Procs, Step(p)
    PROVE  OneSection' /\ FetchedListed' /\ Fetched'
<1>0. TypeOK /\ TypeOK'
  BY TypeStep DEF OneSection
<1>1. pc \in [Procs -> {"idle", "create", "replace", "write", "print", "dump"}]
      /\ DOMAIN sec = Procs /\ DOMAIN want = Procs
  BY <1>0 DEF TypeOK
<1> USE DEF Goto, store
<1>2. ASSUME NEW n \in Spellings, FindSection(p, n)
      PROVE  OneSection' /\ FetchedListed' /\ Fetched'
  <2>1. UNCHANGED <<name, sections>>
    BY <1>2 DEF FindSection
  <2>2. OneSection' /\ \A m : findSection(m)' = findSection(m)
    BY <1>0, <2>1, SameSections
  <2> QED
    BY <1>1, <1>2, <2>2 DEF FindSection, FetchedListed, Fetched
<1>3. ASSUME NEW n \in Spellings, FetchSection(p, n)
      PROVE  OneSection' /\ FetchedListed' /\ Fetched'
  <2>1. UNCHANGED <<name, sections>>
    BY <1>3 DEF FetchSection
  <2>2. OneSection' /\ \A m : findSection(m)' = findSection(m)
    BY <1>0, <2>1, SameSections
  <2>3. n # None
    BY RegistryAssumption
  <2> QED
    BY <1>1, <1>3, <2>2, <2>3 DEF FetchSection, FetchedListed, Fetched
<1>4. CASE Create(p)
  <2>1. pc[p] = "create" /\ want[p] # None /\ want[p] \in Spellings
    BY <1>0, <1>4 DEF Create, Fetched, TypeOK
  <2>2. CASE findSection(want[p]) # 0
    <3>1. /\ sec' = [sec EXCEPT ![p] = findSection(want[p])]
          /\ UNCHANGED <<name, sections>>
      BY <1>4, <2>2 DEF Create
    <3>2. OneSection' /\ \A m : findSection(m)' = findSection(m)
      BY <1>0, <3>1, SameSections
    <3> QED
      BY <1>1, <1>4, <2>1, <2>2, <3>1, <3>2 DEF Create, FetchedListed, Fetched
  <2>3. CASE findSection(want[p]) = 0
    <3>1. /\ name' = Append(name, want[p])
          /\ sections' = Append(sections, Len(name) + 1)
          /\ sec' = [sec EXCEPT ![p] = Len(name) + 1]
      BY <1>4, <2>3 DEF Create
    <3>2. Find(name, sections, want[p]) = 0 /\ UniqueIn(name, sections)
      BY <2>3, findIs, UniqueIs
    <3>3. name \in Seq(Spellings) /\ sections \in Seq(1 .. Len(name))
      BY <1>0 DEF TypeOK
    <3>4. /\ UniqueIn(name', sections')
          /\ Find(name', sections', want[p]) = Len(name) + 1
          /\ \A m : Find(name, sections, m) # 0 =>
                Find(name', sections', m) = Find(name, sections, m)
      BY <2>1, <3>1, <3>2, <3>3, AppendSection
    <3>5. OneSection'
      BY <1>0, <3>4, UniqueIs
    <3>6. /\ \A m : m = want[p] => findSection(m)' = Len(name) + 1
          /\ \A m : findSection(m) # 0 => findSection(m)' = findSection(m)
      BY <3>4, findIs, Zenon
    <3>7. /\ want' = want /\ pc' = [pc EXCEPT ![p] = "idle"] /\ Len(name) + 1 # 0
      BY <1>4, <3>3 DEF Create
    <3>8. FetchedListed'
      BY <1>1, <2>1, <3>1, <3>6, <3>7 DEF FetchedListed, Fetched
    <3>9. Fetched'
      BY <1>1, <2>1, <3>1, <3>7 DEF Fetched
    <3> QED
      BY <3>5, <3>8, <3>9
  <2> QED
    BY <2>2, <2>3
<1>5. CASE ClearRegistry(p)
  <2>1. sections' = <<>>
    BY <1>5 DEF ClearRegistry
  <2>2. OneSection'
    <3>1. DOMAIN sections' = {}
      BY <2>1
    <3> QED
      BY <1>0, <3>1, UniqueIs DEF UniqueIn
  <2>3. FetchedListed' /\ Fetched'
    BY <1>1, <1>5 DEF ClearRegistry, Forget, FetchedListed, Fetched
  <2> QED
    BY <2>2, <2>3
<1>6. CASE /\ UNCHANGED <<name, sections, sec, want>>
           /\ \E l \in {"idle", "replace", "write", "print", "dump"} : Goto(p, l)
           /\ pc[p] # "create"
  <2>1. OneSection' /\ \A m : findSection(m)' = findSection(m)
    BY <1>0, <1>6, SameSections
  <2> QED
    BY <1>1, <1>6, <2>1 DEF FetchedListed, Fetched
<1>7. ASSUME NEW v \in Values, Register(p, v)
      PROVE  OneSection' /\ FetchedListed' /\ Fetched'
  BY <1>6, <1>7 DEF Register, Lock
<1>8. CASE ClearSection(p)
  BY <1>6, <1>8 DEF ClearSection, Lock
<1>9. ASSUME NEW v \in Values, Replace(p, <<v>>)
      PROVE  OneSection' /\ FetchedListed' /\ Fetched'
  BY <1>6, <1>9 DEF Replace
<1>10. CASE ReplaceLocks(p)
  BY <1>6, <1>10 DEF ReplaceLocks, Lock
<1>11. CASE Store(p)
  BY <1>6, <1>11 DEF Store
<1>12. CASE StringBegin(p)
  BY <1>6, <1>12 DEF StringBegin
<1>13. CASE StringEnd(p)
  BY <1>6, <1>13 DEF StringEnd
<1>14. CASE DumpBegin(p)
  BY <1>6, <1>14 DEF DumpBegin
<1>15. CASE DumpSection(p)
  <2>1. UNCHANGED <<name, sections, sec, want, pc>>
    BY <1>15 DEF DumpSection
  <2>2. OneSection' /\ \A m : findSection(m)' = findSection(m)
    BY <1>0, <2>1, SameSections
  <2> QED
    BY <2>1, <2>2 DEF FetchedListed, Fetched
<1>16. CASE DumpEnd(p)
  BY <1>6, <1>16 DEF DumpEnd
<1> QED
  BY <1>2, <1>3, <1>4, <1>5, <1>7, <1>8, <1>9, <1>10, <1>11, <1>12, <1>13, <1>14,
     <1>15, <1>16 DEF Step

(***************************************************************************)
(* Locks: what is printed does not change                                  *)
(***************************************************************************)
LEMMA LocksLock ==
    ASSUME TypeOK, PrintWhole, HoldsSection, LocksHeld, Quiet, NEW p \in Procs,
           NEW vs, Lock(p, vs), pc[p] \in {"idle", "replace"}
    PROVE  PrintWhole' /\ HoldsSection' /\ LocksHeld' /\ Quiet'
<1> USE DEF Goto, store, Lock
<1>1. pc \in [Procs -> {"idle", "create", "replace", "write", "print", "dump"}]
  BY DEF TypeOK
<1>2. PrintWhole'
  BY <1>1 DEF PrintWhole
<1>3. HoldsSection'
  BY <1>1 DEF HoldsSection
<1>4. LocksHeld'
  BY <1>1 DEF LocksHeld, Writing, Printing
<1>5. Quiet'
  BY <1>1 DEF Quiet
<1> QED
  BY <1>2, <1>3, <1>4, <1>5

LEMMA LocksStep ==
    ASSUME TypeOK, PrintWhole, HoldsSection, LocksHeld, Quiet, PrintType,
           NEW p \in Procs, Step(p)
    PROVE  PrintWhole' /\ HoldsSection' /\ LocksHeld' /\ Quiet'
<1>0. /\ pc \in [Procs -> {"idle", "create", "replace", "write", "print", "dump"}]
      /\ DOMAIN sec = Procs /\ DOMAIN seen = Procs /\ kvs \in Seq(Seq(Values))
      /\ Len(name) \in Nat /\ Len(kvs) = Len(name) /\ sec \in [Procs -> 0 .. Len(name)]
  BY DEF TypeOK, PrintType
<1> USE DEF Goto, store
<1> DEFINE Done == PrintWhole' /\ HoldsSection' /\ LocksHeld' /\ Quiet'
<1>1. ASSUME NEW n \in Spellings, FindSection(p, n)
      PROVE  Done
  BY <1>0, <1>1 DEF FindSection, PrintWhole, HoldsSection, LocksHeld, Quiet
<1>2. ASSUME NEW n \in Spellings, FetchSection(p, n)
      PROVE  Done
  BY <1>0, <1>2 DEF FetchSection, PrintWhole, HoldsSection, LocksHeld, Quiet
<1>3. CASE Create(p)
  <2>1. /\ pc[p] = "create" /\ pc' = [pc EXCEPT ![p] = "idle"]
        /\ UNCHANGED <<started, seen>>
        /\ \E s : sec' = [sec EXCEPT ![p] = s]
        /\ kvs' = kvs \/ kvs' = Append(kvs, <<>>)
    BY <1>3, Zenon DEF Create
  <2>2. HoldsSection' /\ LocksHeld' /\ Quiet'
    BY <1>0, <2>1 DEF HoldsSection, LocksHeld, Quiet
  <2>3. ASSUME NEW q \in Procs, pc'[q] = "print"
        PROVE  kvs'[sec'[q]] = seen'[q]
    <3>1. q # p /\ pc[q] = "print" /\ sec'[q] = sec[q] /\ seen'[q] = seen[q]
      BY <1>0, <2>1, <2>3
    <3>2. sec[q] \in 1 .. Len(kvs)
      BY <1>0, <3>1 DEF HoldsSection
    <3>3. kvs'[sec[q]] = kvs[sec[q]]
      BY <1>0, <2>1, <3>2
    <3> QED
      BY <3>1, <3>3 DEF PrintWhole
  <2> QED
    BY <2>2, <2>3 DEF PrintWhole
<1>4. CASE ClearRegistry(p)
  BY <1>0, <1>4 DEF ClearRegistry, PrintWhole, HoldsSection, LocksHeld, Quiet
<1>5. ASSUME NEW v \in Values, Register(p, v)
      PROVE  Done
  BY <1>5, LocksLock DEF Register
<1>6. CASE ClearSection(p)
  BY <1>6, LocksLock DEF ClearSection
<1>7. ASSUME NEW v \in Values, Replace(p, <<v>>)
      PROVE  Done
  BY <1>0, <1>7 DEF Replace, PrintWhole, HoldsSection, LocksHeld, Quiet
<1>8. CASE ReplaceLocks(p)
  BY <1>8, LocksLock DEF ReplaceLocks
<1>9. CASE Store(p)
  <2>1. HoldsSection' /\ LocksHeld' /\ Quiet'
    BY <1>0, <1>9 DEF Store, HoldsSection, LocksHeld, Quiet
  <2>2. ASSUME NEW q \in Procs, pc'[q] = "print"
        PROVE  kvs'[sec'[q]] = seen'[q]
    <3>1. q # p /\ pc[q] = "print" /\ sec' = sec /\ seen' = seen /\ pc[p] = "write"
      BY <1>0, <1>9, <2>2 DEF Store
    <3>2. sec[q] # sec[p]
      BY <3>1 DEF LocksHeld
    <3>3. sec[q] \in 1 .. Len(kvs)
      BY <1>0, <3>1 DEF HoldsSection
    <3>4. kvs'[sec[q]] = kvs[sec[q]]
      BY <1>0, <1>9, <3>2, <3>3 DEF Store
    <3> QED
      BY <3>1, <3>4 DEF PrintWhole
  <2> QED
    BY <2>1, <2>2 DEF PrintWhole
<1>10. CASE StringBegin(p)
  <2>1. PrintWhole' /\ HoldsSection' /\ Quiet'
    BY <1>0, <1>10 DEF StringBegin, PrintWhole, HoldsSection, Quiet
  <2>2. LocksHeld'
    BY <1>0, <1>10 DEF StringBegin, LocksHeld, Writing
  <2> QED
    BY <2>1, <2>2
<1>11. CASE StringEnd(p)
  BY <1>0, <1>11 DEF StringEnd, PrintWhole, HoldsSection, LocksHeld, Quiet
<1>12. CASE DumpBegin(p)
  BY <1>0, <1>12 DEF DumpBegin, PrintWhole, HoldsSection, LocksHeld, Quiet
<1>13. CASE DumpSection(p)
  BY <1>0, <1>13 DEF DumpSection, PrintWhole, HoldsSection, LocksHeld, Quiet
<1>14. CASE DumpEnd(p)
  BY <1>0, <1>14 DEF DumpEnd, PrintWhole, HoldsSection, LocksHeld, Quiet
<1> QED
  BY <1>1, <1>2, <1>3, <1>4, <1>5, <1>6, <1>7, <1>8, <1>9, <1>10, <1>11, <1>12,
     <1>13, <1>14 DEF Step

(***************************************************************************)
(* Printing the registry                                                   *)
(***************************************************************************)

\* Dumped and Whole over any values, while nobody stores.
DumpOf(kv, s) == IF kv[s] = <<>> THEN <<>> ELSE <<kv[s]>>
WholeOf(kv, ss) == FlattenSeq([i \in DOMAIN ss |-> DumpOf(kv, ss[i])])

LEMMA WholeIs ==
    /\ Quiet /\ started => \A ss : Whole(ss) = WholeOf(kvs, ss)
    /\ Quiet' /\ started' => \A ss : Whole(ss)' = WholeOf(kvs', ss)
<1>1. ASSUME Quiet, started, NEW ss
      PROVE  Whole(ss) = WholeOf(kvs, ss)
  <2>1. \A s : Dumped(s) = DumpOf(kvs, s)
    BY <1>1 DEF Quiet, Dumped, Writing, DumpOf
  <2>2. [i \in DOMAIN ss |-> Dumped(ss[i])] = [i \in DOMAIN ss |-> DumpOf(kvs, ss[i])]
    BY <2>1
  <2> QED
    BY <2>2, Zenon DEF Whole, WholeOf
<1>2. ASSUME Quiet', started', NEW ss
      PROVE  Whole(ss)' = WholeOf(kvs', ss)
  <2>1. \A s : Dumped(s)' = DumpOf(kvs', s)
    BY <1>2 DEF Quiet, Dumped, Writing, DumpOf
  <2>2. [i \in DOMAIN ss |-> Dumped(ss[i])'] = [i \in DOMAIN ss |-> DumpOf(kvs', ss[i])]
    BY <2>1
  <2> QED
    BY <2>2, Zenon DEF Whole, WholeOf
<1> QED
  BY <1>1, <1>2

LEMMA WholeFacts ==
    ASSUME NEW kv \in Seq(Seq(Values)), NEW ss \in Seq(1 .. Len(kv))
    PROVE  /\ WholeOf(kv, ss) \in Seq(Seq(Values))
           /\ ss = <<>> => WholeOf(kv, ss) = <<>>
           /\ ss # <<>> =>
                 WholeOf(kv, ss) = DumpOf(kv, Head(ss)) \o WholeOf(kv, Tail(ss))
<1> DEFINE d == [i \in DOMAIN ss |-> DumpOf(kv, ss[i])]
<1>1. Len(kv) \in Nat /\ Len(ss) \in Nat /\ DOMAIN ss = 1 .. Len(ss)
  OBVIOUS
<1>2. ASSUME NEW i \in DOMAIN ss
      PROVE  DumpOf(kv, ss[i]) \in Seq(Seq(Values))
  <2>1. kv[ss[i]] \in Seq(Values)
    OBVIOUS
  <2> QED
    BY <2>1 DEF DumpOf
<1>3. d \in Seq(Seq(Seq(Values))) /\ Len(d) = Len(ss)
  <2>1. d \in [1 .. Len(ss) -> Seq(Seq(Values))]
    BY <1>1, <1>2
  <2> HIDE DEF d
  <2> QED
    BY <1>1, <2>1, FunctionIsSeq
<1>4. CASE ss = <<>>
  <2>1. d = <<>>
    BY <1>4
  <2>2. WholeOf(kv, ss) = <<>>
    BY <2>1, FlattenEmpty DEF WholeOf
  <2>3. <<>> \in Seq(Seq(Values))
    OBVIOUS
  <2> QED
    BY <1>4, <2>2, <2>3
<1>5. CASE ss # <<>>
  <2>1. d # <<>>
    <3>1. Len(d) # 0
      BY <1>3, <1>5
    <3> HIDE DEF d
    <3> QED
      BY <3>1
  <2>2. Head(d) = DumpOf(kv, Head(ss))
    BY <1>1, <1>3, <1>5
  <2>3. Tail(d) = [i \in DOMAIN Tail(ss) |-> DumpOf(kv, Tail(ss)[i])]
    <3> DEFINE n == Len(ss)
    <3>1. n \in Nat /\ n # 0 /\ \A i \in 1 .. n - 1 : i + 1 \in 1 .. n
      BY <1>1, <1>5
    <3>2. Tail(ss) = [i \in 1 .. n - 1 |-> ss[i + 1]]
      BY <1>5, TailIs
    <3>3. Tail(d) = [i \in 1 .. n - 1 |-> d[i + 1]]
      <4> HIDE DEF d
      <4> QED
        BY <1>3, <2>1, TailIs
    <3>4. \A i \in 1 .. n - 1 : d[i + 1] = DumpOf(kv, ss[i + 1])
      BY <1>1, <3>1
    <3>5. \A i \in 1 .. n - 1 : Tail(ss)[i] = ss[i + 1]
      BY <3>2
    <3>6. DOMAIN Tail(ss) = 1 .. n - 1
      BY <3>2
    <3> HIDE DEF d, n
    <3>7. [i \in DOMAIN Tail(ss) |-> DumpOf(kv, Tail(ss)[i])]
            = [i \in 1 .. n - 1 |-> DumpOf(kv, ss[i + 1])]
      BY <3>5, <3>6
    <3> QED
      BY <3>3, <3>4, <3>7
  <2>4. /\ FlattenSeq(d) = Head(d) \o FlattenSeq(Tail(d))
        /\ FlattenSeq(d) \in Seq(Seq(Values))
    <3> HIDE DEF d
    <3> QED
      BY <1>3, <2>1, FlattenCons
  <2>5. /\ FlattenSeq(d) = WholeOf(kv, ss)
        /\ FlattenSeq(Tail(d)) = WholeOf(kv, Tail(ss))
    BY <2>3, Zenon DEF WholeOf
  <2> HIDE DEF d
  <2> QED
    BY <1>5, <2>2, <2>4, <2>5, Zenon
<1> QED
  BY <1>4, <1>5

\* What DumpWhole says of one goroutine.
DumpsWhole(p) == pc[p] = "dump" =>
    /\ out[p] \o Whole(seen[p]) = Whole(sections)
    /\ \A i \in DOMAIN out[p] : out[p][i] # None

LEMMA DumpIs ==
    /\ DumpWhole <=> \A p \in Procs : DumpsWhole(p)
    /\ DumpWhole' <=> \A p \in Procs : DumpsWhole(p)'
BY DEF DumpWhole, DumpsWhole

\* A step that leaves q's printing and the sections alone.
LEMMA DumpFrame ==
    ASSUME Quiet, Quiet', NEW q \in Procs, DumpsWhole(q), pc[q] = "dump",
           pc'[q] = pc[q], out'[q] = out[q], seen'[q] = seen[q],
           UNCHANGED <<kvs, sections>>
    PROVE  DumpsWhole(q)'
<1>1. pc'[q] = "dump" /\ started /\ started'
  BY DEF Quiet
<1>2. /\ Whole(seen[q]) = WholeOf(kvs, seen[q])
      /\ Whole(sections) = WholeOf(kvs, sections)
      /\ \A ss : Whole(ss)' = WholeOf(kvs', ss)
  BY <1>1, WholeIs
<1>3. out'[q] \o WholeOf(kvs', seen'[q]) = WholeOf(kvs', sections')
  BY <1>2 DEF DumpsWhole
<1>4. \A i \in DOMAIN out'[q] : out'[q][i] # None
  BY DEF DumpsWhole
<1> QED
  BY <1>2, <1>3, <1>4 DEF DumpsWhole

LEMMA PrintTypeStep ==
    ASSUME TypeOK, TypeOK', HoldsSection, Quiet, PrintType, NEW p \in Procs, Step(p)
    PROVE  PrintType'
<1>0. /\ pc \in [Procs -> {"idle", "create", "replace", "write", "print", "dump"}]
      /\ Len(name) \in Nat /\ kvs \in Seq(Seq(Values)) /\ Len(kvs) = Len(name)
      /\ sections \in Seq(1 .. Len(name)) /\ sec \in [Procs -> 0 .. Len(name)]
  BY DEF TypeOK
<1> USE DEF Goto, store
<1>1. ASSUME NEW n \in Spellings, FindSection(p, n) \/ FetchSection(p, n)
      PROVE  PrintType'
  BY <1>0, <1>1 DEF FindSection, FetchSection, PrintType
<1>2. CASE Create(p)
  <2>1. /\ pc[p] = "create" /\ pc' = [pc EXCEPT ![p] = "idle"] /\ ~Dumping
        /\ UNCHANGED <<seen, out>>
    BY <1>2 DEF Create
  <2>2. \A q \in Procs : pc'[q] # "dump" /\ pc[q] # "dump"
    BY <1>0, <2>1 DEF Dumping
  <2> QED
    BY <2>1, <2>2 DEF PrintType
<1>3. CASE ClearRegistry(p)
  BY <1>0, <1>3 DEF ClearRegistry, PrintType
<1>4. ASSUME NEW vs, Lock(p, vs), pc[p] # "dump"
      PROVE  PrintType'
  BY <1>0, <1>4 DEF Lock, PrintType
<1>5. ASSUME NEW v \in Values, Register(p, v)
      PROVE  PrintType'
  BY <1>4, <1>5 DEF Register
<1>6. CASE ClearSection(p)
  BY <1>4, <1>6 DEF ClearSection
<1>7. ASSUME NEW v \in Values, Replace(p, <<v>>)
      PROVE  PrintType'
  BY <1>0, <1>7 DEF Replace, PrintType
<1>8. CASE ReplaceLocks(p)
  BY <1>4, <1>8 DEF ReplaceLocks
<1>9. CASE Store(p)
  BY <1>0, <1>9 DEF Store, PrintType
<1>10. CASE StringBegin(p)
  <2>1. sec[p] \in 1 .. Len(kvs)
    BY <1>0, <1>10 DEF StringBegin
  <2>2. kvs[sec[p]] \in Seq(Values)
    BY <1>0, <2>1
  <2> QED
    BY <1>0, <1>10, <2>2 DEF StringBegin, PrintType
<1>11. CASE StringEnd(p)
  <2>1. <<>> \in Seq(Values)
    OBVIOUS
  <2> QED
    BY <1>0, <1>11, <2>1 DEF StringEnd, PrintType
<1>12. CASE DumpBegin(p)
  <2>1. sections \in Seq(Nat)
    <3>1. 1 .. Len(name) \subseteq Nat
      BY <1>0
    <3> QED
      BY <1>0, <3>1, SeqMonotonic
  <2> QED
    BY <1>0, <1>12, <2>1 DEF DumpBegin, PrintType
<1>13. CASE DumpSection(p)
  <2>1. pc[p] = "dump" /\ seen[p] # <<>> /\ seen[p] \in Seq(1 .. Len(name)) /\ started
    BY <1>13 DEF DumpSection, PrintType, Quiet
  <2>2. Head(seen[p]) \in 1 .. Len(name) /\ Tail(seen[p]) \in Seq(1 .. Len(name))
    BY <2>1, HeadTailType
  <2>3. Tail(seen[p]) \in Seq(Nat)
    <3>1. 1 .. Len(name) \subseteq Nat
      BY <1>0
    <3> QED
      BY <2>2, <3>1, SeqMonotonic
  <2>4. Dumped(Head(seen[p])) \in Seq(Seq(Values))
    <3>1. kvs[Head(seen[p])] \in Seq(Values)
      BY <1>0, <2>2
    <3> QED
      BY <2>1, <3>1 DEF Dumped, Writing, Quiet
  <2>5. out[p] \o Dumped(Head(seen[p])) \in Seq(Seq(Values))
    BY <2>4, ConcatProperties DEF PrintType
  <2>6. /\ out' = [out EXCEPT ![p] = out[p] \o Dumped(Head(seen[p]))]
        /\ seen' = [seen EXCEPT ![p] = Tail(seen[p])]
        /\ UNCHANGED <<pc, name>>
    BY <1>13 DEF DumpSection
  <2> QED
    BY <2>1, <2>2, <2>3, <2>5, <2>6 DEF PrintType
<1>14. CASE DumpEnd(p)
  BY <1>0, <1>14 DEF DumpEnd, PrintType
<1> QED
  BY <1>1, <1>2, <1>3, <1>5, <1>6, <1>7, <1>8, <1>9, <1>10, <1>11, <1>12, <1>13,
     <1>14 DEF Step

LEMMA DumpStep ==
    ASSUME TypeOK, DumpWhole, HoldsSection, Quiet, Quiet', PrintType,
           NEW p \in Procs, Step(p)
    PROVE  DumpWhole'
<1>0. /\ pc \in [Procs -> {"idle", "create", "replace", "write", "print", "dump"}]
      /\ Len(name) \in Nat /\ kvs \in Seq(Seq(Values)) /\ Len(kvs) = Len(name)
      /\ sections \in Seq(1 .. Len(name))
      /\ seen \in [Procs -> Seq(Values) \cup Seq(Nat)]
      /\ out \in [Procs -> Seq(Seq(Values))]
  BY DEF TypeOK, PrintType
<1>1. SUFFICES ASSUME NEW q \in Procs, pc'[q] = "dump"
               PROVE  DumpsWhole(q)'
  BY DumpIs DEF DumpsWhole
<1>2. DumpsWhole(q)
  BY DumpIs
<1> USE DEF Goto, store
\* A step of p that begins or continues no printing of the registry.
<1>3. ASSUME pc[q] = "dump" => UNCHANGED <<kvs, sections>>,
             out' = out, \A r \in Procs \ {p} : seen'[r] = seen[r],
             pc[p] # "dump", pc'[p] # "dump", \A r \in Procs \ {p} : pc'[r] = pc[r]
      PROVE  DumpsWhole(q)'
  <2>1. q # p /\ pc[q] = "dump"
    BY <1>1, <1>3
  <2> QED
    BY <1>2, <1>3, <2>1, DumpFrame
<1>4. ASSUME NEW n \in Spellings, FindSection(p, n) \/ FetchSection(p, n)
      PROVE  DumpsWhole(q)'
  BY <1>0, <1>3, <1>4 DEF FindSection, FetchSection
<1>5. CASE Create(p)
  <2>1. pc[q] # "dump"
    BY <1>5 DEF Create, Dumping
  <2> QED
    BY <1>0, <1>1, <1>5, <2>1 DEF Create
<1>6. CASE ClearRegistry(p)
  <2>1. pc[q] # "dump"
    BY <1>6 DEF ClearRegistry, Dumping
  <2> QED
    BY <1>0, <1>1, <1>6, <2>1 DEF ClearRegistry
<1>7. ASSUME NEW vs, Lock(p, vs), pc[p] # "dump"
      PROVE  DumpsWhole(q)'
  BY <1>0, <1>3, <1>7 DEF Lock
<1>8. ASSUME NEW v \in Values, Register(p, v)
      PROVE  DumpsWhole(q)'
  BY <1>7, <1>8 DEF Register
<1>9. CASE ClearSection(p)
  BY <1>7, <1>9 DEF ClearSection
<1>10. ASSUME NEW v \in Values, Replace(p, <<v>>)
      PROVE  DumpsWhole(q)'
  BY <1>0, <1>3, <1>10 DEF Replace
<1>11. CASE ReplaceLocks(p)
  BY <1>7, <1>11 DEF ReplaceLocks
<1>12. CASE Store(p)
  <2>1. pc[q] # "dump"
    BY <1>12 DEF Store, Quiet
  <2> QED
    BY <1>0, <1>1, <1>12, <2>1 DEF Store
<1>13. CASE StringBegin(p)
  BY <1>0, <1>3, <1>13 DEF StringBegin
<1>14. CASE StringEnd(p)
  BY <1>0, <1>3, <1>14 DEF StringEnd
<1>15. CASE DumpBegin(p)
  <2>1. CASE q # p
    <3>1. pc[q] = "dump" /\ pc'[q] = pc[q] /\ seen'[q] = seen[q]
      BY <1>0, <1>1, <1>15, <2>1 DEF DumpBegin
    <3> QED
      BY <1>2, <1>15, <3>1, DumpFrame DEF DumpBegin
  <2>2. CASE q = p
    <3>1. /\ out'[q] = <<>> /\ seen'[q] = sections /\ started'
          /\ sections' = sections /\ kvs' = kvs
      BY <1>0, <1>15, <2>2 DEF DumpBegin, PrintType
    <3>2. WholeOf(kvs, sections) \in Seq(Seq(Values))
      BY <1>0, WholeFacts
    <3>3. <<>> \o WholeOf(kvs, sections) = WholeOf(kvs, sections)
      BY <3>2, ConcatEmptySeq
    <3>4. \A ss : Whole(ss)' = WholeOf(kvs', ss)
      BY <3>1, WholeIs
    <3>5. out'[q] \o WholeOf(kvs', seen'[q]) = WholeOf(kvs', sections')
      BY <3>1, <3>3
    <3>6. \A i \in DOMAIN out'[q] : out'[q][i] # None
      BY <3>1
    <3> QED
      BY <3>4, <3>5, <3>6 DEF DumpsWhole
  <2> QED
    BY <2>1, <2>2
<1>16. CASE DumpSection(p)
  <2>1. CASE q # p
    <3>1. pc' = pc /\ out'[q] = out[q] /\ seen'[q] = seen[q]
      BY <1>0, <1>16, <2>1 DEF DumpSection
    <3> QED
      BY <1>1, <1>2, <1>16, <3>1, DumpFrame DEF DumpSection
  <2>2. CASE q = p
    <3> DEFINE s == Head(seen[p])
               t == Tail(seen[p])
    <3>1. /\ out'[q] = out[p] \o Dumped(s) /\ seen'[q] = t /\ started /\ started'
          /\ sections' = sections /\ kvs' = kvs /\ seen[p] # <<>> /\ pc[p] = "dump"
      BY <1>0, <1>16, <2>2 DEF DumpSection, Quiet
    <3>2. seen[p] \in Seq(1 .. Len(kvs))
      BY <1>0, <3>1 DEF PrintType
    <3>3. s \in 1 .. Len(kvs) /\ t \in Seq(1 .. Len(kvs))
      BY <3>1, <3>2, HeadTailType
    <3>4. /\ Whole(seen[p]) = WholeOf(kvs, seen[p])
          /\ Whole(sections) = WholeOf(kvs, sections)
          /\ \A ss : Whole(ss)' = WholeOf(kvs', ss)
      BY <3>1, WholeIs
    <3>5. Dumped(s) = DumpOf(kvs, s)
      BY <3>1 DEF Dumped, DumpOf, Writing, Quiet
    <3>6. WholeOf(kvs, seen[p]) = Dumped(s) \o WholeOf(kvs, t)
      BY <1>0, <3>1, <3>2, <3>5, WholeFacts
    <3>7. kvs[s] \in Seq(Values)
      BY <1>0, <3>3
    <3>8. /\ out[p] \in Seq(Seq(Values)) /\ Dumped(s) \in Seq(Seq(Values))
          /\ WholeOf(kvs, t) \in Seq(Seq(Values))
      <4>1. Dumped(s) \in Seq(Seq(Values))
        <5> HIDE DEF s
        <5>1. DumpOf(kvs, s) \in Seq(Seq(Values))
          BY <3>7 DEF DumpOf
        <5> QED
          BY <3>5, <5>1
      <4>2. WholeOf(kvs, t) \in Seq(Seq(Values))
        BY <1>0, <3>3, WholeFacts
      <4> QED
        BY <1>0, <4>1, <4>2
    <3>9. (out[p] \o Dumped(s)) \o WholeOf(kvs, t)
            = out[p] \o (Dumped(s) \o WholeOf(kvs, t))
      <4> DEFINE a == out[p] b == Dumped(s) d == WholeOf(kvs, t)
      <4>1. a \in Seq(Seq(Values)) /\ b \in Seq(Seq(Values)) /\ d \in Seq(Seq(Values))
        BY <3>8
      <4> HIDE DEF a, b, d
      <4>2. (a \o b) \o d = a \o (b \o d)
        BY <4>1, ConcatAssociative
      <4> QED
        BY <4>2 DEF a, b, d
    <3> HIDE DEF s, t
    <3>10. out'[q] \o WholeOf(kvs', seen'[q]) = WholeOf(kvs', sections')
      BY <1>2, <2>2, <3>1, <3>4, <3>6, <3>9 DEF DumpsWhole
    <3>11. \A v \in Seq(Values) : v # None
      BY RegistryAssumption
    <3>12. out'[q] \in Seq(Seq(Values))
      BY <3>1, <3>8, ConcatProperties
    <3>13. \A i \in DOMAIN out'[q] : out'[q][i] # None
      BY <3>11, <3>12
    <3> QED
      BY <3>4, <3>10, <3>13 DEF DumpsWhole
  <2> QED
    BY <2>1, <2>2
<1>17. CASE DumpEnd(p)
  <2>1. q # p
    BY <1>0, <1>1, <1>17 DEF DumpEnd
  <2>2. pc[q] = "dump" /\ pc'[q] = pc[q] /\ out'[q] = out[q] /\ seen'[q] = seen[q]
    BY <1>0, <1>1, <1>17, <2>1 DEF DumpEnd
  <2> QED
    BY <1>2, <1>17, <2>2, DumpFrame DEF DumpEnd
<1> QED
  BY <1>4, <1>5, <1>6, <1>8, <1>9, <1>10, <1>11, <1>12, <1>13, <1>14, <1>15, <1>16,
     <1>17 DEF Step

(***************************************************************************)
(* The theorems                                                            *)
(***************************************************************************)
LEMMA Preserved ==
    ASSUME Inductive, [Next]_vars
    PROVE  Inductive'
<1>1. ASSUME NEW p \in Procs, Step(p)
      PROVE  Inductive'
  <2>1. TypeOK /\ TypeOK'
    BY <1>1, TypeStep DEF Inductive, OneSection
  <2>2. OneSection' /\ FetchedListed' /\ Fetched'
    BY <1>1, NamesStep DEF Inductive
  <2>3. PrintWhole' /\ HoldsSection' /\ LocksHeld' /\ Quiet'
    BY <1>1, <2>1, LocksStep DEF Inductive
  <2>4. PrintType'
    BY <1>1, <2>1, PrintTypeStep DEF Inductive
  <2>5. DumpWhole'
    BY <1>1, <2>1, <2>3, DumpStep DEF Inductive
  <2> QED
    BY <2>2, <2>3, <2>4, <2>5 DEF Inductive
<1>2. CASE Start
  <2>1. /\ UNCHANGED <<name, kvs, sections, pc, sec, want, new, seen, out>>
        /\ started' = TRUE /\ ~started
        /\ \A p \in Procs : pc[p] \notin {"write", "replace"}
    BY <1>2 DEF Start
  <2>2. TypeOK' /\ OneSection' /\ FetchedListed'
    <3>1. TypeOK'
      BY <2>1 DEF Inductive, OneSection, TypeOK
    <3>2. OneSection' /\ \A n : findSection(n)' = findSection(n)
      BY <2>1, <3>1, SameSections DEF Inductive
    <3> QED
      BY <2>1, <3>1, <3>2 DEF Inductive, FetchedListed
  <2>3. PrintWhole' /\ HoldsSection' /\ LocksHeld' /\ Fetched' /\ Quiet' /\ PrintType'
    BY <2>1 DEF Inductive, PrintWhole, HoldsSection, LocksHeld, Fetched, Quiet, PrintType
  <2>4. \A p \in Procs : pc'[p] # "dump"
    BY <2>1 DEF Inductive, Quiet
  <2> QED
    BY <2>2, <2>3, <2>4 DEF Inductive, DumpWhole
<1>3. CASE UNCHANGED vars
  <2>1. UNCHANGED <<name, kvs, sections, started, pc, sec, want, new, seen, out>>
    BY <1>3 DEF vars, store
  <2>2. TypeOK' /\ OneSection' /\ FetchedListed'
    <3>1. TypeOK'
      BY <2>1 DEF Inductive, OneSection, TypeOK
    <3>2. OneSection' /\ \A n : findSection(n)' = findSection(n)
      BY <2>1, <3>1, SameSections DEF Inductive
    <3> QED
      BY <2>1, <3>1, <3>2 DEF Inductive, FetchedListed
  <2>3. PrintWhole' /\ HoldsSection' /\ LocksHeld' /\ Fetched' /\ Quiet' /\ PrintType'
    BY <2>1 DEF Inductive, PrintWhole, HoldsSection, LocksHeld, Fetched, Quiet, PrintType
  <2>4. ASSUME NEW q \in Procs
        PROVE  DumpsWhole(q)'
    <3>1. CASE pc[q] = "dump"
      BY <2>1, <2>3, <3>1, DumpIs, DumpFrame DEF Inductive
    <3>2. CASE pc[q] # "dump"
      BY <2>1, <3>2 DEF DumpsWhole
    <3> QED
      BY <3>1, <3>2
  <2> QED
    BY <2>2, <2>3, <2>4, DumpIs DEF Inductive
<1> QED
  BY <1>1, <1>2, <1>3 DEF Next

LEMMA Invariance == Spec => []Inductive
BY InitHolds, Preserved, PTL DEF Spec

\* However many goroutines fetch sections, and however they spell the names,
\* the registry has one section for each name (FetchSection looks twice).
THEOREM SectionsUnique == Spec => []OneSection
<1>1. Inductive => OneSection
  BY DEF Inductive
<1> QED
  BY <1>1, Invariance, PTL

\* What FetchSection returned is what any look-up of the name finds, until the
\* registry is cleared.
THEOREM SectionsListed == Spec => []FetchedListed
<1>1. Inductive => FetchedListed
  BY DEF Inductive
<1> QED
  BY <1>1, Invariance, PTL

\* A section does not change while Section.String prints it under its lock.
THEOREM SectionPrintedWhole == Spec => []PrintWhole
<1>1. Inductive => PrintWhole
  BY DEF Inductive
<1> QED
  BY <1>1, Invariance, PTL

\* Registry.String prints every section that has values, once and in order,
\* although it takes no section's lock.
THEOREM RegistryPrintedWhole == Spec => []DumpWhole
<1>1. Inductive => DumpWhole
  BY DEF Inductive
<1> QED
  BY <1>1, Invariance, PTL
=============================================================================
