-------------------------- MODULE OpenFiles_proofs --------------------------
(***************************************************************************)
(* Proofs about OpenFiles for every set of processes and size of a new     *)
(* table: every step is one of the inode table, so what InodeTable_proofs  *)
(* shows holds of the system calls too; and descriptors lead to the files  *)
(* that they were opened on.                                               *)
(*                                                                         *)
(* The second needs that Available is no used entry, and that the counts   *)
(* of the tables are right: with a count that is short a close would       *)
(* delete a table that still has entries.                                  *)
(***************************************************************************)
EXTENDS OpenFiles, InodeTable_proofs

-----------------------------------------------------------------------------
(* Over the inode table *)

LEMMA StepOnTable ==
    ASSUME TableTypeOK, [Next]_vars
    PROVE  [TableNext]_tableVars
<1>1. \A i \in Inode : View(i).data \in Data
  <2> SUFFICES ASSUME NEW i \in Inode PROVE View(i).data \in Data
    OBVIOUS
  <2>1. View(i) \in Copy
    BY ViewType
  <2> QED
    BY <2>1 DEF Copy
<1>2. ASSUME NEW p, NEW i \in Inode, NEW x, Open(p, i, x) \/ OpenRefused(p, i, x)
      PROVE  TableNext
  BY <1>1, <1>2 DEF Open, OpenRefused, TableNext
<1>3. ASSUME NEW q, NEW h, Close(q, h)
      PROVE  UNCHANGED tableVars
  BY <1>3 DEF Close
<1>4. ASSUME NEW q, NEW h, NEW i \in Inode, Pread(q, h, i) \/ Pwrite(q, h, i)
      PROVE  TableNext
  BY <1>1, <1>4 DEF Pread, Pwrite, TableNext
<1>5. ASSUME NEW i \in Inode,
             Lookup(i) \/ (\E d \in Data : SetAttributes(i, d)) \/ Make(i) \/ Unlink(i)
      PROVE  TableNext
  BY <1>5 DEF Lookup, SetAttributes, Make, Unlink, TableNext
<1>6. CASE UNCHANGED vars
  BY <1>6 DEF vars
<1> QED
  BY <1>2, <1>3, <1>4, <1>5, <1>6 DEF Next

LEMMA TableInvHere == Spec => []TableInv
<1>1. Init => TableInv
  BY TableInitInv DEF Init
<1>2. TableInv /\ [Next]_vars => TableInv'
  BY StepOnTable, TableNextInv DEF TableInv
<1> QED
  BY <1>1, <1>2, PTL DEF Spec

\* The system calls use the inode table in no other way than its actions allow.
THEOREM OpenFilesOnTable == Spec => TableSpec
<1>1. Init => TableInit
  BY DEF Init
<1>2. TableInv /\ [Next]_vars => [TableNext]_tableVars
  BY StepOnTable DEF TableInv
<1> QED
  BY <1>1, <1>2, TableInvHere, PTL DEF Spec, TableSpec

\* What the cache has of an inode that a name leads to is what the disk has.
THEOREM OpenFilesCoherent == Spec => []Coherent
BY OpenFilesOnTable, CacheCoherent, PTL

\* The cache keeps its bound, and the order of its entries.
THEOREM OpenFilesCacheOrdered == Spec => []CacheOrdered
BY OpenFilesOnTable, CacheKeepsOrder, PTL

\* ialloc returns no inode that a name leads to.
THEOREM OpenFilesCreateIsFresh == Spec => CreateIsFresh
BY OpenFilesOnTable, AllocFresh, PTL

\* Every call gets of an inode what was put into it last.
THEOREM OpenFilesImplementStore == Spec => ImplementsStore
BY OpenFilesOnTable, TableImplementsStore, PTL

-----------------------------------------------------------------------------
(* Tables *)

Mode == {"READ", "WRITE", "READ_WRITE"}

EntrySet == [mode : Mode, inode : Nat]

IsTable(tb) ==
    /\ tb.total \in Nat /\ tb.total > 3
    /\ DOMAIN tb.entry \subseteq 3..tb.total - 1
    /\ \A fd \in DOMAIN tb.entry : tb.entry[fd] \in EntrySet
    /\ tb.used = 3 + Cardinality(DOMAIN tb.entry)

LEMMA NewTableIs == IsTable(NewTable)
<1>1. NewTable.total = FirstTotal /\ NewTable.used = 3 /\ DOMAIN NewTable.entry = {}
  BY DEF NewTable
<1>2. Cardinality({}) = 0
  BY FS_EmptySet
<1> QED
  BY <1>1, <1>2, OpenAssumption DEF IsTable

LEMMA EntriesFinite ==
    ASSUME NEW tb, IsTable(tb)
    PROVE  /\ IsFiniteSet(DOMAIN tb.entry)
           /\ Cardinality(DOMAIN tb.entry) \in Nat
<1>1. tb.total - 1 \in Int /\ DOMAIN tb.entry \subseteq 3..tb.total - 1
  BY DEF IsTable
<1>2. IsFiniteSet(3..tb.total - 1)
  BY <1>1, FS_Interval
<1>3. IsFiniteSet(DOMAIN tb.entry)
  BY <1>1, <1>2, FS_Subset
<1> QED
  BY <1>3, FS_CardinalityType

\* A finite set of integers has a least member.
LEMMA MinMember ==
    ASSUME NEW S \in SUBSET Int, IsFiniteSet(S), S # {}
    PROVE  Min(S) \in S
<1> DEFINE order == {r \in S \X S : r[1] < r[2]}
           m     == First(S, order)
<1>1. \A a, b \in S : <<a, b>> \in order <=> a < b
  OBVIOUS
<1>2. TotallyOrdered(S, order)
  <2> SUFFICES ASSUME NEW i \in S, NEW k \in S
               PROVE  /\ i # k => (<<i, k>> \in order \/ <<k, i>> \in order)
                      /\ ~ (<<i, k>> \in order /\ <<k, i>> \in order)
                      /\ \A n \in S :
                            <<i, k>> \in order /\ <<k, n>> \in order => <<i, n>> \in order
    BY DEF TotallyOrdered
  <2> HIDE DEF order
  <2> QED
    BY <1>1
<1> HIDE DEF order
<1>3. m \in S /\ \A j \in S \ {m} : <<m, j>> \in order
  BY <1>2, HasFirst
<1> HIDE DEF m
<1>4. ASSUME NEW j \in S PROVE m <= j
  <2>1. j # m => m < j
    BY <1>1, <1>3
  <2> QED
    BY <1>3, <2>1
<1> QED
  BY <1>3, <1>4 DEF Min

\* The entry that an open takes is not used, and in the table.
LEMMA AvailableFree ==
    ASSUME NEW tb, IsTable(tb)
    PROVE  /\ Available(tb) \in 3..TotalFor(tb) - 1
           /\ Available(tb) \notin DOMAIN tb.entry
           /\ TotalFor(tb) \in Nat /\ TotalFor(tb) >= tb.total
<1>1. CASE IsFull(tb)
  BY <1>1 DEF IsTable, Available, TotalFor
<1>2. CASE ~ IsFull(tb)
  <2>1. NotUsed(tb) # {} /\ NotUsed(tb) \subseteq 3..tb.total - 1
    BY <1>2 DEF IsFull, NotUsed
  <2>2. tb.total \in Nat
    BY DEF IsTable
  <2>3. IsFiniteSet(NotUsed(tb))
    <3>1. IsFiniteSet(3..tb.total - 1)
      BY <2>2, FS_Interval
    <3> QED
      BY <2>1, <3>1, FS_Subset
  <2>4. Min(NotUsed(tb)) \in NotUsed(tb)
    BY <2>1, <2>2, <2>3, MinMember
  <2> QED
    BY <1>2, <2>1, <2>2, <2>4 DEF Available, TotalFor, NotUsed
<1> QED
  BY <1>1, <1>2

LEMMA WithEntryIs ==
    ASSUME NEW tb, IsTable(tb), NEW e \in EntrySet
    PROVE  /\ IsTable(WithEntry(tb, e))
           /\ WithEntry(tb, e).used > 3
           /\ DOMAIN WithEntry(tb, e).entry = DOMAIN tb.entry \cup {Available(tb)}
           /\ WithEntry(tb, e).entry[Available(tb)] = e
           /\ \A fd \in DOMAIN tb.entry : WithEntry(tb, e).entry[fd] = tb.entry[fd]
<1> DEFINE f  == Available(tb)
           ids == DOMAIN tb.entry
           nt == WithEntry(tb, e)
<1>1. /\ nt.total = TotalFor(tb) /\ nt.used = tb.used + 1
      /\ nt.entry = [fd \in ids \cup {f} |-> IF fd = f THEN e ELSE tb.entry[fd]]
  BY DEF WithEntry
<1>2. /\ f \in 3..TotalFor(tb) - 1 /\ f \notin ids
      /\ TotalFor(tb) \in Nat /\ TotalFor(tb) >= tb.total
  BY AvailableFree
<1>3. /\ tb.total \in Nat /\ tb.total > 3 /\ ids \subseteq 3..tb.total - 1
      /\ \A fd \in ids : tb.entry[fd] \in EntrySet
      /\ tb.used = 3 + Cardinality(ids)
  BY DEF IsTable
<1>4. IsFiniteSet(ids) /\ Cardinality(ids) \in Nat
  BY EntriesFinite
<1> HIDE DEF f, ids, nt
<1>5. DOMAIN nt.entry = ids \cup {f} /\ nt.entry[f] = e
  BY <1>1
<1>6. \A fd \in ids : nt.entry[fd] = tb.entry[fd]
  BY <1>1, <1>2
<1>7. Cardinality(ids \cup {f}) = Cardinality(ids) + 1
  BY <1>2, <1>4, FS_AddElement
<1>8. nt.used = 3 + Cardinality(DOMAIN nt.entry) /\ nt.used > 3
  BY <1>1, <1>3, <1>4, <1>5, <1>7
<1>9. DOMAIN nt.entry \subseteq 3..nt.total - 1 /\ nt.total \in Nat /\ nt.total > 3
  BY <1>1, <1>2, <1>3, <1>5
<1>10. \A fd \in DOMAIN nt.entry : nt.entry[fd] \in EntrySet
  BY <1>3, <1>5, <1>6
<1>11. IsTable(nt)
  BY <1>8, <1>9, <1>10 DEF IsTable
<1> QED
  BY <1>5, <1>6, <1>8, <1>11 DEF f, ids, nt

LEMMA WithoutEntryIs ==
    ASSUME NEW tb, IsTable(tb), NEW fd \in DOMAIN tb.entry
    PROVE  /\ IsTable(WithoutEntry(tb, fd))
           /\ DOMAIN WithoutEntry(tb, fd).entry = DOMAIN tb.entry \ {fd}
           /\ \A k \in DOMAIN tb.entry \ {fd} : WithoutEntry(tb, fd).entry[k] = tb.entry[k]
<1> DEFINE ids == DOMAIN tb.entry
           nt == WithoutEntry(tb, fd)
<1>1. /\ nt.total = tb.total /\ nt.used = tb.used - 1
      /\ nt.entry = [k \in ids \ {fd} |-> tb.entry[k]]
  BY DEF WithoutEntry
<1>2. /\ tb.total \in Nat /\ tb.total > 3 /\ ids \subseteq 3..tb.total - 1
      /\ \A k \in ids : tb.entry[k] \in EntrySet
      /\ tb.used = 3 + Cardinality(ids)
  BY DEF IsTable
<1>3. IsFiniteSet(ids) /\ Cardinality(ids) \in Nat /\ fd \in ids
  BY EntriesFinite
<1> HIDE DEF ids, nt
<1>4. DOMAIN nt.entry = ids \ {fd} /\ \A k \in ids \ {fd} : nt.entry[k] = tb.entry[k]
  BY <1>1
<1>5. Cardinality(ids \ {fd}) = Cardinality(ids) - 1
  BY <1>3, FS_RemoveElement
<1>6. nt.used = 3 + Cardinality(DOMAIN nt.entry)
  BY <1>1, <1>2, <1>3, <1>4, <1>5
<1>7. IsTable(nt)
  BY <1>1, <1>2, <1>4, <1>6 DEF IsTable
<1> QED
  BY <1>4, <1>7 DEF ids, nt

-----------------------------------------------------------------------------
(* What open and close do to the tables *)

\* Both keep this.
TablesSound ==
    /\ DOMAIN table \subseteq Pid
    /\ \A p \in DOMAIN table : IsTable(table[p]) /\ table[p].used > 3

\* An entry that stays is as it was.
EntryStays(p, fd) ==
    HasEntry(p, fd)' /\ table'[p].entry[fd] = table[p].entry[fd]

LEMMA SetTableDoes ==
    ASSUME NEW p, NEW tb, SetTable(p, tb)
    PROVE  /\ DOMAIN table' = DOMAIN table \cup {p}
           /\ table'[p] = tb
           /\ \A q \in DOMAIN table : q # p => table'[q] = table[q]
BY DEF SetTable

\* An open adds one entry, that was not there.
LEMMA OpenAddsEntry ==
    ASSUME TablesSound, NEW p \in Pid, NEW e \in EntrySet,
           SetTable(p, WithEntry(TableOf(p), e))
    PROVE  /\ TablesSound'
           /\ Available(TableOf(p)) \in Nat
           /\ ~ HasEntry(p, Available(TableOf(p)))
           /\ p \in DOMAIN table' /\ Available(TableOf(p)) \in DOMAIN table'[p].entry
           /\ table'[p].entry[Available(TableOf(p))] = e
           /\ \A q, fd : HasEntry(q, fd) => EntryStays(q, fd)
           /\ \A q, fd : HasEntry(q, fd)' =>
                 HasEntry(q, fd) \/ (q = p /\ fd = Available(TableOf(p)))
<1> DEFINE tb == TableOf(p)
           f  == Available(tb)
           nt == WithEntry(tb, e)
<1>1. IsTable(tb)
  BY NewTableIs DEF TableOf, TablesSound
<1>2. DOMAIN tb.entry = IF p \in DOMAIN table THEN DOMAIN table[p].entry ELSE {}
  BY DEF TableOf, NewTable
<1>3. p \in DOMAIN table => tb = table[p]
  BY DEF TableOf
<1> HIDE DEF tb
<1>4. f \notin DOMAIN tb.entry /\ f \in Nat
  BY <1>1, AvailableFree
<1>5. /\ IsTable(nt) /\ nt.used > 3 /\ nt.entry[f] = e
      /\ DOMAIN nt.entry = DOMAIN tb.entry \cup {f}
      /\ \A fd \in DOMAIN tb.entry : nt.entry[fd] = tb.entry[fd]
  BY <1>1, WithEntryIs
<1>6. /\ DOMAIN table' = DOMAIN table \cup {p} /\ table'[p] = nt
      /\ \A q \in DOMAIN table : q # p => table'[q] = table[q]
  BY SetTableDoes DEF tb
<1> HIDE DEF f, nt
<1>7. TablesSound'
  BY <1>5, <1>6 DEF TablesSound
<1>8. /\ ~ HasEntry(p, f)
      /\ p \in DOMAIN table' /\ f \in DOMAIN table'[p].entry /\ table'[p].entry[f] = e
  <2>1. ~ HasEntry(p, f)
    BY <1>2, <1>4 DEF HasEntry
  <2>2. p \in DOMAIN table' /\ table'[p] = nt /\ f \in DOMAIN nt.entry
    BY <1>5, <1>6
  <2> QED
    BY <1>5, <2>1, <2>2
<1>9. \A q, fd : HasEntry(q, fd) => EntryStays(q, fd)
  <2> SUFFICES ASSUME NEW q, NEW fd, HasEntry(q, fd) PROVE EntryStays(q, fd)
    OBVIOUS
  <2> QED
    BY <1>3, <1>5, <1>6 DEF HasEntry, EntryStays
<1>10. \A q, fd : HasEntry(q, fd)' => HasEntry(q, fd) \/ (q = p /\ fd = f)
  <2> SUFFICES ASSUME NEW q, NEW fd, HasEntry(q, fd)'
               PROVE  HasEntry(q, fd) \/ (q = p /\ fd = f)
    OBVIOUS
  <2> QED
    BY <1>2, <1>5, <1>6 DEF HasEntry
<1> QED
  BY <1>4, <1>7, <1>8, <1>9, <1>10 DEF f, tb

\* A close takes one entry away; a table that it deletes had no other.
LEMMA CloseTakesEntry ==
    ASSUME TablesSound, NEW q, NEW fd, HasEntry(q, fd), CloseEntry(q, fd)
    PROVE  /\ TablesSound'
           /\ \A r, k : HasEntry(r, k) /\ ~ (r = q /\ k = fd) => EntryStays(r, k)
           /\ \A r, k : HasEntry(r, k)' => HasEntry(r, k) /\ ~ (r = q /\ k = fd)
<1> DEFINE tb == table[q]
           nt == WithoutEntry(tb, fd)
<1>1. q \in Pid /\ q \in DOMAIN table /\ IsTable(tb) /\ fd \in DOMAIN tb.entry
  BY DEF HasEntry, TablesSound
<1>2. /\ IsTable(nt) /\ DOMAIN nt.entry = DOMAIN tb.entry \ {fd}
      /\ \A k \in DOMAIN tb.entry \ {fd} : nt.entry[k] = tb.entry[k]
  BY <1>1, WithoutEntryIs
<1>3. IF nt.used = 3 THEN DropTable(q) ELSE SetTable(q, nt)
  BY DEF CloseEntry
<1>4. /\ IsFiniteSet(DOMAIN nt.entry) /\ Cardinality(DOMAIN nt.entry) \in Nat
      /\ nt.used = 3 + Cardinality(DOMAIN nt.entry)
  <2> HIDE DEF nt
  <2> QED
    BY <1>2, EntriesFinite DEF IsTable
<1> HIDE DEF nt
<1>5. CASE nt.used = 3
  <2>1. Cardinality(DOMAIN nt.entry) = 0
    BY <1>4, <1>5
  <2>2. DOMAIN nt.entry = {}
    BY <1>4, <2>1, FS_EmptySet
  <2>3. /\ DOMAIN table' = DOMAIN table \ {q}
        /\ \A r \in DOMAIN table : r # q => table'[r] = table[r]
    BY <1>3, <1>5 DEF DropTable
  <2> QED
    BY <1>1, <1>2, <2>2, <2>3 DEF TablesSound, HasEntry, EntryStays
<1>6. CASE nt.used # 3
  <2>1. nt.used > 3
    BY <1>4, <1>6
  <2>2. /\ DOMAIN table' = DOMAIN table \cup {q} /\ table'[q] = nt
        /\ \A r \in DOMAIN table : r # q => table'[r] = table[r]
    BY <1>3, <1>6, SetTableDoes
  <2>3. TablesSound'
    BY <1>1, <1>2, <2>1, <2>2 DEF TablesSound
  <2>4. \A r, k : HasEntry(r, k) /\ ~ (r = q /\ k = fd) => EntryStays(r, k)
    <3> SUFFICES ASSUME NEW r, NEW k, HasEntry(r, k), ~ (r = q /\ k = fd)
                 PROVE  EntryStays(r, k)
      OBVIOUS
    <3> QED
      BY <1>1, <1>2, <2>2 DEF HasEntry, EntryStays
  <2>5. \A r, k : HasEntry(r, k)' => HasEntry(r, k) /\ ~ (r = q /\ k = fd)
    <3> SUFFICES ASSUME NEW r, NEW k, HasEntry(r, k)'
                 PROVE  HasEntry(r, k) /\ ~ (r = q /\ k = fd)
      OBVIOUS
    <3> QED
      BY <1>1, <1>2, <2>2 DEF HasEntry
  <2> QED
    BY <2>3, <2>4, <2>5
<1> QED
  BY <1>5, <1>6

-----------------------------------------------------------------------------
(* The invariant *)

HeldTyped ==
    /\ \A h \in held : h.pid \in Pid /\ h.inode \in Inode /\ h.fd \in Nat
    /\ loose \subseteq Pid \X Nat

EntriesOwned ==
    \A p, fd : HasEntry(p, fd) =>
        <<p, fd>> \in loose \/ \E h \in held : h.pid = p /\ h.fd = fd

\* The inductive invariant, of the tables and what the kernel keeps.
OpenInv == TablesSound /\ HeldTyped /\ EntriesOwned /\ HeldLeadsToFile

\* The type invariant and the counts of the tables follow from it.
LEMMA OpenInvImplies ==
    ASSUME TableInv, OpenInv
    PROVE  TypeOK /\ EntriesAccounted
<1>1. ASSUME NEW p \in DOMAIN table
      PROVE  /\ table[p].total \in Nat
             /\ DOMAIN table[p].entry \subseteq 3..table[p].total - 1
             /\ \A fd \in DOMAIN table[p].entry :
                   /\ table[p].entry[fd] \in EntrySet
                   /\ <<p, fd>> \in loose \/ \E h \in held : h.pid = p /\ h.fd = fd
             /\ table[p].used = 3 + Cardinality(DOMAIN table[p].entry)
             /\ table[p].used > 3
  BY <1>1 DEF OpenInv, TablesSound, IsTable, EntriesOwned, HasEntry
<1>2. TypeOK
  BY <1>1 DEF TypeOK, TableInv, OpenInv, TablesSound, HeldTyped, EntrySet, Mode
<1>3. EntriesAccounted
  BY <1>1 DEF EntriesAccounted
<1> QED
  BY <1>2, <1>3

\* What HeldLeadsToFile says of one descriptor.
LeadsToFile(h) ==
    <<h.pid, h.fd>> \notin loose =>
        /\ HasEntry(h.pid, h.fd)
        /\ table[h.pid].entry[h.fd] = [mode |-> h.mode, inode |-> h.inode]
        /\ \A g \in held : g.pid = h.pid /\ g.fd = h.fd => g = h

LEMMA LeadsToFileAll == HeldLeadsToFile <=> \A h \in held : LeadsToFile(h)
BY DEF HeldLeadsToFile, LeadsToFile

LEMMA OpenKeeps ==
    ASSUME OpenInv, NEW p \in Pid, NEW i \in Inode, NEW mode \in Access, Open(p, i, mode)
    PROVE  OpenInv'
<1> DEFINE f == Available(TableOf(p))
           e == [mode |-> mode, inode |-> i]
           n == [pid |-> p, fd |-> f, mode |-> mode, inode |-> i]
<1>1. /\ SetTable(p, WithEntry(TableOf(p), e)) /\ e \in EntrySet
      /\ held' = held \cup {n} /\ loose' = loose
  BY OpenAssumption, TableAssumption DEF Open, EntrySet, Mode, Inode
<1>2. /\ TablesSound' /\ f \in Nat /\ ~ HasEntry(p, f)
      /\ p \in DOMAIN table' /\ f \in DOMAIN table'[p].entry /\ table'[p].entry[f] = e
      /\ \A q, fd : HasEntry(q, fd) => EntryStays(q, fd)
      /\ \A q, fd : HasEntry(q, fd)' => HasEntry(q, fd) \/ (q = p /\ fd = f)
  BY <1>1, OpenAddsEntry DEF OpenInv
<1>3. n.pid = p /\ n.fd = f /\ n.mode = mode /\ n.inode = i
  OBVIOUS
<1>4. e = [mode |-> n.mode, inode |-> n.inode]
  OBVIOUS
<1> HIDE DEF f, e, n
<1>5. HeldTyped'
  BY <1>1, <1>2, <1>3 DEF OpenInv, HeldTyped
<1>6. EntriesOwned'
  BY <1>1, <1>2, <1>3 DEF OpenInv, EntriesOwned
<1>7. ASSUME NEW g \in held, <<g.pid, g.fd>> \notin loose
      PROVE  HasEntry(g.pid, g.fd) /\ ~ (g.pid = p /\ g.fd = f)
  BY <1>2, <1>7 DEF OpenInv, HeldLeadsToFile
<1>8. ASSUME NEW h \in held' PROVE LeadsToFile(h)'
  <2>1. CASE h = n
    <3>1. h.pid = p /\ h.fd = f
      BY <1>3, <2>1
    <3>2. HasEntry(h.pid, h.fd)'
      BY <1>2, <3>1 DEF HasEntry
    <3>3. table'[h.pid].entry[h.fd] = [mode |-> h.mode, inode |-> h.inode]
      BY <1>2, <1>4, <2>1, <3>1
    <3>4. ASSUME <<h.pid, h.fd>> \notin loose', NEW g \in held', g.pid = h.pid, g.fd = h.fd
          PROVE  g = h
      BY <1>1, <1>7, <2>1, <3>1, <3>4
    <3> QED
      BY <3>2, <3>3, <3>4 DEF LeadsToFile
  <2>2. CASE h # n
    <3>1. h \in held /\ LeadsToFile(h)
      BY <1>1, <2>2, <1>8, LeadsToFileAll DEF OpenInv
    <3> SUFFICES ASSUME <<h.pid, h.fd>> \notin loose'
                 PROVE  /\ HasEntry(h.pid, h.fd)'
                        /\ table'[h.pid].entry[h.fd] = [mode |-> h.mode, inode |-> h.inode]
                        /\ \A g \in held' : g.pid = h.pid /\ g.fd = h.fd => g = h
      BY DEF LeadsToFile
    <3>2. ~ (h.pid = p /\ h.fd = f) /\ EntryStays(h.pid, h.fd)
      BY <1>1, <1>2, <1>7, <3>1
    <3> QED
      BY <1>1, <1>3, <3>1, <3>2 DEF LeadsToFile, EntryStays
  <2> QED
    BY <2>1, <2>2
<1>9. HeldLeadsToFile'
  BY <1>8 DEF HeldLeadsToFile, LeadsToFile
<1> QED
  BY <1>2, <1>5, <1>6, <1>9 DEF OpenInv

LEMMA OpenRefusedKeeps ==
    ASSUME OpenInv, NEW p \in Pid, NEW i \in Inode, NEW left \in Leftover,
           OpenRefused(p, i, left)
    PROVE  OpenInv'
<1> DEFINE f == Available(TableOf(p))
           e == [mode |-> "READ", inode |-> left]
<1>1. /\ SetTable(p, WithEntry(TableOf(p), e)) /\ e \in EntrySet
      /\ held' = held /\ loose' = loose \cup {<<p, f>>}
  BY OpenAssumption DEF OpenRefused, EntrySet, Mode
<1>2. /\ TablesSound' /\ f \in Nat
      /\ \A q, fd : HasEntry(q, fd) => EntryStays(q, fd)
      /\ \A q, fd : HasEntry(q, fd)' => HasEntry(q, fd) \/ (q = p /\ fd = f)
  BY <1>1, OpenAddsEntry DEF OpenInv
<1> HIDE DEF f, e
<1>3. HeldTyped'
  BY <1>1, <1>2 DEF OpenInv, HeldTyped
<1>4. EntriesOwned'
  BY <1>1, <1>2 DEF OpenInv, EntriesOwned
<1>5. HeldLeadsToFile'
  BY <1>1, <1>2 DEF OpenInv, HeldLeadsToFile, EntryStays
<1> QED
  BY <1>2, <1>3, <1>4, <1>5 DEF OpenInv

LEMMA CloseKeeps ==
    ASSUME OpenInv, NEW q \in Pid, NEW h \in held, Close(q, h)
    PROVE  OpenInv'
<1>1. /\ held' = held \ {h} /\ loose \subseteq loose' /\ loose' \subseteq Pid \X Nat
      /\ q # h.pid => <<h.pid, h.fd>> \in loose'
      /\ q # h.pid /\ HasEntry(q, h.fd) => <<q, h.fd>> \in loose'
  BY DEF Close, OpenInv, HeldTyped
<1>2. /\ TablesSound'
      /\ \A r, k : HasEntry(r, k) /\ ~ (r = q /\ k = h.fd) => EntryStays(r, k)
      /\ \A r, k : HasEntry(r, k)' => HasEntry(r, k) /\ ~ (r = q /\ k = h.fd)
  <2>1. CASE HasEntry(q, h.fd)
    BY <2>1, CloseTakesEntry DEF Close, OpenInv
  <2>2. CASE ~ HasEntry(q, h.fd)
    <3>1. table' = table
      BY <2>2 DEF Close
    <3> QED
      BY <2>2, <3>1 DEF OpenInv, TablesSound, HasEntry, EntryStays
  <2> QED
    BY <2>1, <2>2
<1>3. HeldTyped'
  BY <1>1 DEF OpenInv, HeldTyped
<1>4. EntriesOwned'
  <2> SUFFICES ASSUME NEW p, NEW fd, HasEntry(p, fd)'
               PROVE  <<p, fd>> \in loose' \/ \E g \in held' : g.pid = p /\ g.fd = fd
    BY DEF EntriesOwned
  <2>1. HasEntry(p, fd) /\ ~ (p = q /\ fd = h.fd)
    BY <1>2
  <2>2. CASE <<p, fd>> \in loose
    BY <1>1, <2>2
  <2>3. CASE <<p, fd>> \notin loose
    <3>1. PICK g \in held : g.pid = p /\ g.fd = fd
      BY <2>1, <2>3 DEF OpenInv, EntriesOwned
    <3>2. g # h \/ <<p, fd>> \in loose'
      BY <1>1, <2>1, <3>1
    <3> QED
      BY <1>1, <3>1, <3>2
  <2> QED
    BY <2>2, <2>3
<1>5. ASSUME NEW g \in held' PROVE LeadsToFile(g)'
  <2>1. g \in held /\ g # h /\ LeadsToFile(g)
    BY <1>1, <1>5, LeadsToFileAll DEF OpenInv
  <2> SUFFICES ASSUME <<g.pid, g.fd>> \notin loose'
               PROVE  /\ HasEntry(g.pid, g.fd)'
                      /\ table'[g.pid].entry[g.fd] = [mode |-> g.mode, inode |-> g.inode]
                      /\ \A k \in held' : k.pid = g.pid /\ k.fd = g.fd => k = g
    BY DEF LeadsToFile
  <2>2. /\ HasEntry(g.pid, g.fd)
        /\ table[g.pid].entry[g.fd] = [mode |-> g.mode, inode |-> g.inode]
        /\ \A k \in held : k.pid = g.pid /\ k.fd = g.fd => k = g
    BY <1>1, <2>1 DEF LeadsToFile
  <2>3. ~ (g.pid = q /\ g.fd = h.fd)
    BY <1>1, <2>1, <2>2
  <2>4. EntryStays(g.pid, g.fd)
    BY <1>2, <2>2, <2>3
  <2> QED
    BY <1>1, <2>2, <2>4 DEF EntryStays
<1>6. HeldLeadsToFile'
  BY <1>5 DEF HeldLeadsToFile, LeadsToFile
<1> QED
  BY <1>2, <1>3, <1>4, <1>6 DEF OpenInv

LEMMA OthersKeep ==
    ASSUME OpenInv, UNCHANGED <<table, held, loose>>
    PROVE  OpenInv'
<1>1. \A p, fd : HasEntry(p, fd)' <=> HasEntry(p, fd)
  BY DEF HasEntry
<1> QED
  BY <1>1 DEF OpenInv, TablesSound, HeldTyped, EntriesOwned, HeldLeadsToFile

LEMMA OpenInvKept ==
    ASSUME OpenInv, [Next]_vars
    PROVE  OpenInv'
<1>1. CASE UNCHANGED <<table, held, loose>>
  BY <1>1, OthersKeep
<1>2. ASSUME NEW q, NEW h, NEW i, Pread(q, h, i) \/ Pwrite(q, h, i)
      PROVE  UNCHANGED <<table, held, loose>>
  BY <1>2 DEF Pread, Pwrite
<1>3. ASSUME NEW i,
             Lookup(i) \/ (\E d \in Data : SetAttributes(i, d)) \/ Make(i) \/ Unlink(i)
      PROVE  UNCHANGED <<table, held, loose>>
  BY <1>3 DEF Lookup, SetAttributes, Make, Unlink
<1>4. CASE UNCHANGED vars
  BY <1>4, OthersKeep DEF vars
<1> QED
  BY <1>1, <1>2, <1>3, <1>4, OpenKeeps, OpenRefusedKeeps, CloseKeeps DEF Next

LEMMA OpenInvAlways == Spec => []OpenInv
<1>1. Init => OpenInv
  BY DEF Init, OpenInv, TablesSound, HeldTyped, EntriesOwned, HeldLeadsToFile, HasEntry
<1> QED
  BY <1>1, OpenInvKept, PTL DEF Spec

\* The type invariant holds for every instance.
THEOREM OpenFilesTypeCorrect == Spec => []TypeOK
BY OpenInvAlways, TableInvHere, OpenInvImplies, PTL

\* A descriptor leads to the file that it was opened on, as long as the processes
\* that close files are those that opened them.
THEOREM DescriptorsLeadToFiles == Spec => []HeldLeadsToFile
BY OpenInvAlways, PTL DEF OpenInv

\* The count of every table is right, and a table goes with its last entry.  An entry
\* that no open descriptor has is one that a refused open or a close by another
\* process left behind, or has the number of such a one.
THEOREM EntriesAreAccounted == Spec => []EntriesAccounted
BY OpenInvAlways, TableInvHere, OpenInvImplies, PTL

=============================================================================
