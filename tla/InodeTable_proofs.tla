-------------------------- MODULE InodeTable_proofs -------------------------
(***************************************************************************)
(* Proofs about InodeTable for every number of inodes, size of the cache   *)
(* and kind of data: the cache agrees with the disk and stays in order,    *)
(* ialloc returns no inode in use, and the table implements InodeStore.    *)
(*                                                                         *)
(* Every action changes the cache by PutInCache or Looked.  Two lemmas say *)
(* what these leave in it: of every other inode what was there or nothing. *)
(* That is all that coherence needs; which entry pruning takes does not    *)
(* matter to it.  The order matters to CacheOrdered, which shows that      *)
(* pruning finds an entry.                                                 *)
(***************************************************************************)
EXTENDS InodeTable, FiniteSetTheorems, WellFoundedInduction, TLAPS

\* The inductive invariant.
TableInv == TableTypeOK /\ Coherent

-----------------------------------------------------------------------------
(* What the operators on the cache do *)

LEMMA RootFact == Root \in Inode
BY TableAssumption DEF Root, Inode

LEMMA CopyFacts ==
    /\ FreeCopy \in Copy
    /\ \A d \in Data : UsedCopy(d) \in Copy
    /\ \A c \in Copy, d \in Data : [c EXCEPT !.data = d] \in Copy
    /\ \A c \in Copy : [c EXCEPT !.links = 0] \in Copy
<1>1. FreeCopy \in Copy /\ \A d \in Data : UsedCopy(d) \in Copy
  BY TableAssumption DEF FreeCopy, UsedCopy, Copy
<1>2. ASSUME NEW c \in Copy, NEW d \in Data
      PROVE  [c EXCEPT !.data = d] \in Copy /\ [c EXCEPT !.links = 0] \in Copy
  <2>1. /\ c \in [type : {"free", "used"}, links : {0, 1}, data : Data]
        /\ c.links = 1 => c.type = "used"
    BY DEF Copy
  <2>2. /\ [c EXCEPT !.data = d] = [type |-> c.type, links |-> c.links, data |-> d]
        /\ [c EXCEPT !.links = 0] = [type |-> c.type, links |-> 0, data |-> c.data]
    BY <2>1
  <2> QED
    BY <2>1, <2>2 DEF Copy
<1> QED
  BY <1>1, <1>2, TableAssumption

LEMMA ViewType ==
    ASSUME TableTypeOK, NEW i \in Inode
    PROVE  View(i) \in Copy
BY DEF TableTypeOK, View

\* An entry after PutInCache is the one put, or one that was there.
LEMMA PutInCacheLeaves ==
    ASSUME TableTypeOK, NEW i \in Inode, NEW c \in Copy, PutInCache(i, c)
    PROVE  /\ DOMAIN cached' \subseteq Inode
           /\ \A k \in DOMAIN cached' : cached'[k] \in Copy
           /\ older' \subseteq (DOMAIN cached') \X (DOMAIN cached')
           /\ \A k \in DOMAIN cached' :
                 \/ k = i /\ cached'[k] = c
                 \/ k # i /\ k \in DOMAIN cached /\ cached'[k] = cached[k]
<1> DEFINE order == MovedToEnd(i)
           kept  == Kept(DOMAIN cached \cup {i}, order)
<1>1. kept \subseteq DOMAIN cached \cup {i}
  BY DEF Kept
<1>2. /\ cached' = [k \in kept |-> Entry(i, c, k)]
      /\ older' = order \cap (kept \X kept)
  BY DEF PutInCache
<1>3. DOMAIN cached' = kept
  BY <1>2
<1>4. ASSUME NEW k \in DOMAIN cached'
      PROVE  \/ k = i /\ cached'[k] = c
             \/ k # i /\ k \in DOMAIN cached /\ cached'[k] = cached[k]
  BY <1>1, <1>2, <1>3, <1>4 DEF Entry
<1>5. \A k \in DOMAIN cached' : cached'[k] \in Copy
  BY <1>4 DEF TableTypeOK
<1>6. DOMAIN cached' \subseteq Inode
  BY <1>1, <1>3 DEF TableTypeOK
<1> HIDE DEF kept, order
<1> QED
  BY <1>2, <1>3, <1>4, <1>5, <1>6

\* An entry after Looked was there, or is the one on disk.
LEMMA LookedLeaves ==
    ASSUME TableTypeOK, NEW i \in Inode, Looked(i)
    PROVE  /\ DOMAIN cached' \subseteq Inode
           /\ \A k \in DOMAIN cached' : cached'[k] \in Copy
           /\ older' \subseteq (DOMAIN cached') \X (DOMAIN cached')
           /\ \A k \in DOMAIN cached' :
                 \/ k \in DOMAIN cached /\ cached'[k] = cached[k]
                 \/ k = i /\ i \notin DOMAIN cached /\ cached'[k] = disk[i]
<1>1. CASE i \in DOMAIN cached
  <2>1. cached' = cached /\ older' = MovedToEnd(i)
    BY <1>1 DEF Looked
  <2>2. MovedToEnd(i) \subseteq (DOMAIN cached) \X (DOMAIN cached)
    BY <1>1 DEF MovedToEnd, TableTypeOK
  <2> QED
    BY <2>1, <2>2 DEF TableTypeOK
<1>2. CASE i \notin DOMAIN cached
  <2>1. disk[i] \in Copy /\ PutInCache(i, disk[i])
    BY <1>2 DEF Looked, TableTypeOK
  <2> QED
    BY <1>2, <2>1, PutInCacheLeaves
<1> QED
  BY <1>1, <1>2

\* What Coherent says of one inode.
CoherentAt(i) ==
    /\ disk[i].type = "used" /\ disk[i].links = 1
    /\ i \in DOMAIN cached => cached[i] = disk[i]

LEMMA SureView ==
    ASSUME NEW i, CoherentAt(i)
    PROVE  View(i) = disk[i]
BY DEF CoherentAt, View

\* An inode that is written alike to the disk and the cache is coherent.
LEMMA PutCoherent ==
    ASSUME TableTypeOK, NEW i \in Inode, NEW c \in Copy,
           c.type = "used", c.links = 1, Written(i, c), PutInCache(i, c)
    PROVE  CoherentAt(i)'
<1>1. disk'[i] = c
  BY DEF Written, TableTypeOK
<1>2. i \in DOMAIN cached' => cached'[i] = c
  BY PutInCacheLeaves
<1> QED
  BY <1>1, <1>2 DEF CoherentAt

\* The others stay coherent.
LEMMA OthersCoherent ==
    ASSUME TableTypeOK, NEW i \in Inode, NEW c \in Copy, NEW w \in Copy,
           Written(i, w), PutInCache(i, c) \/ Looked(i) \/ UNCHANGED cached,
           NEW k \in Inode, k # i, CoherentAt(k)
    PROVE  CoherentAt(k)'
<1>1. disk'[k] = disk[k]
  BY DEF Written, TableTypeOK
<1>2. k \in DOMAIN cached' => k \in DOMAIN cached /\ cached'[k] = cached[k]
  <2>1. CASE PutInCache(i, c)
    BY <2>1, PutInCacheLeaves
  <2>2. CASE Looked(i)
    BY <2>2, LookedLeaves
  <2>3. CASE UNCHANGED cached
    BY <2>3
  <2> QED
    BY <2>1, <2>2, <2>3
<1> QED
  BY <1>1, <1>2 DEF CoherentAt

\* Getting an inode leaves all coherent.
LEMMA LookedCoherent ==
    ASSUME TableTypeOK, NEW i \in Inode, Looked(i), UNCHANGED disk,
           NEW k \in Inode, CoherentAt(k)
    PROVE  CoherentAt(k)'
BY LookedLeaves DEF CoherentAt

LEMMA WrittenType ==
    ASSUME TableTypeOK, NEW i \in Inode, NEW c \in Copy, Written(i, c)
    PROVE  disk' \in [Inode -> Copy]
BY DEF Written, TableTypeOK

\* A free inode is none that a name leads to, errors apart.
LEMMA FreeIsFresh ==
    ASSUME TableInv, NEW i \in Inode, NextFree(i)
    PROVE  i \notin live \ unsure
BY DEF TableInv, Coherent, NextFree

LEMMA InvAt ==
    ASSUME TableInv, NEW i \in live \ unsure
    PROVE  i \in Inode /\ CoherentAt(i)
BY DEF TableInv, Coherent, CoherentAt, TableTypeOK

LEMMA AtInv ==
    ASSUME TableTypeOK', \A i \in live' \ unsure' : CoherentAt(i)'
    PROVE  TableInv'
BY DEF TableInv, Coherent, CoherentAt

-----------------------------------------------------------------------------
(* The invariant *)

LEMMA TableInitInv == TableInit => TableInv
<1> SUFFICES ASSUME TableInit PROVE TableInv
  OBVIOUS
<1>1. disk \in [Inode -> Copy]
  BY CopyFacts, TableAssumption DEF TableInit
<1>2. /\ DOMAIN cached \subseteq {Root}
      /\ \A i \in DOMAIN cached : cached[i] = UsedCopy(Blank)
      /\ older = {} /\ live = {Root} /\ unsure = {}
  BY DEF TableInit
<1>3. TableTypeOK
  BY <1>1, <1>2, RootFact, CopyFacts, TableAssumption DEF TableTypeOK
<1>4. disk[Root] = UsedCopy(Blank)
  BY RootFact DEF TableInit
<1>5. Coherent
  BY <1>2, <1>4 DEF Coherent, UsedCopy
<1> QED
  BY <1>3, <1>5 DEF TableInv

\* One lemma per action: TableInv is kept.
LEMMA GetInv ==
    ASSUME TableInv, NEW i \in Inode, Get(i)
    PROVE  TableInv'
<1>1. TableTypeOK /\ Looked(i) /\ disk' = disk /\ live' = live /\ unsure' = unsure
  BY DEF TableInv, Get
<1>2. TableTypeOK'
  BY <1>1, LookedLeaves DEF TableTypeOK
<1>3. ASSUME NEW k \in live' \ unsure' PROVE CoherentAt(k)'
  BY <1>1, <1>3, InvAt, LookedCoherent
<1> QED
  BY <1>2, <1>3, AtInv

LEMMA ChangeInv ==
    ASSUME TableInv, NEW i \in Inode, NEW d \in Data, Change(i, d)
    PROVE  TableInv'
<1> DEFINE c == [View(i) EXCEPT !.data = d]
<1>1. TableTypeOK /\ View(i) \in Copy /\ c \in Copy
  BY ViewType, CopyFacts DEF TableInv
<1>2. PutInCache(i, c) /\ live' = live
  BY DEF Change
<1>3. CASE c.links = 0
  <2>1. Written(i, FreeCopy) /\ unsure' = unsure \cup ({i} \cap live)
    BY <1>3 DEF Change
  <2>2. TableTypeOK'
    BY <1>1, <1>2, <2>1, CopyFacts, WrittenType, PutInCacheLeaves DEF TableTypeOK
  <2>3. ASSUME NEW k \in live' \ unsure' PROVE CoherentAt(k)'
    <3>1. k \in live \ unsure /\ k # i
      BY <1>2, <2>1, <2>3
    <3> QED
      BY <1>1, <1>2, <2>1, <3>1, CopyFacts, InvAt, OthersCoherent
  <2> QED
    BY <2>2, <2>3, AtInv
<1>4. CASE c.links # 0
  <2>1. Written(i, c) /\ unsure' = unsure \ {i}
    BY <1>4 DEF Change
  <2>2. TableTypeOK'
    BY <1>1, <1>2, <2>1, WrittenType, PutInCacheLeaves DEF TableTypeOK
  <2>3. ASSUME NEW k \in live' \ unsure' PROVE CoherentAt(k)'
    <3>1. CASE k = i
      <4>1. c.links = 1 /\ c.type = "used"
        BY <1>1, <1>4 DEF Copy
      <4> QED
        BY <1>1, <1>2, <2>1, <3>1, <4>1, PutCoherent
    <3>2. CASE k # i
      <4>1. k \in live \ unsure
        BY <1>2, <2>1, <2>3, <3>2
      <4> QED
        BY <1>1, <1>2, <2>1, <3>2, <4>1, InvAt, OthersCoherent
    <3> QED
      BY <3>1, <3>2
  <2> QED
    BY <2>2, <2>3, AtInv
<1> QED
  BY <1>3, <1>4

LEMMA CreateInv ==
    ASSUME TableInv, NEW i \in Inode, NEW d \in Data, Create(i, d)
    PROVE  TableInv'
<1>1. /\ TableTypeOK /\ UsedCopy(d) \in Copy
      /\ Written(i, UsedCopy(d)) /\ PutInCache(i, UsedCopy(d))
      /\ live' = live \cup {i} /\ unsure' = unsure \ {i}
  BY CopyFacts DEF TableInv, Create
<1>2. TableTypeOK'
  BY <1>1, WrittenType, PutInCacheLeaves DEF TableTypeOK
<1>3. ASSUME NEW k \in live' \ unsure' PROVE CoherentAt(k)'
  <2>1. CASE k = i
    <3>1. UsedCopy(d).links = 1 /\ UsedCopy(d).type = "used"
      BY DEF UsedCopy
    <3> QED
      BY <1>1, <2>1, <3>1, PutCoherent
  <2>2. CASE k # i
    <3>1. k \in live \ unsure
      BY <1>1, <1>3, <2>2
    <3> QED
      BY <1>1, <2>2, <3>1, InvAt, OthersCoherent
  <2> QED
    BY <2>1, <2>2
<1> QED
  BY <1>2, <1>3, AtInv

LEMMA CreateUnnamedInv ==
    ASSUME TableInv, NEW i \in Inode, NEW d \in Data, CreateUnnamed(i, d)
    PROVE  TableInv'
<1>1. /\ TableTypeOK /\ UsedCopy(d) \in Copy
      /\ Written(i, UsedCopy(d)) /\ PutInCache(i, UsedCopy(d))
      /\ live' = live /\ unsure' = unsure
  BY CopyFacts DEF TableInv, CreateUnnamed
<1>2. TableTypeOK'
  BY <1>1, WrittenType, PutInCacheLeaves DEF TableTypeOK
<1>3. ASSUME NEW k \in live' \ unsure' PROVE CoherentAt(k)'
  <2>1. k \in live \ unsure /\ k # i
    BY <1>1, <1>3, FreeIsFresh DEF CreateUnnamed
  <2> QED
    BY <1>1, <2>1, InvAt, OthersCoherent
<1> QED
  BY <1>2, <1>3, AtInv

LEMMA CreatePutFailsInv ==
    ASSUME TableInv, NEW i \in Inode, CreatePutFails(i)
    PROVE  TableInv'
<1>1. /\ TableTypeOK /\ UsedCopy(Blank) \in Copy
      /\ Written(i, UsedCopy(Blank)) /\ UNCHANGED <<cached, older>>
      /\ live' = live \cup {i} /\ unsure' = unsure \cup {i}
  BY CopyFacts, TableAssumption DEF TableInv, CreatePutFails
<1>2. TableTypeOK'
  BY <1>1, WrittenType DEF TableTypeOK
<1>3. ASSUME NEW k \in live' \ unsure' PROVE CoherentAt(k)'
  <2>1. k \in live \ unsure /\ k # i
    BY <1>1, <1>3
  <2> QED
    BY <1>1, <2>1, InvAt, OthersCoherent
<1> QED
  BY <1>2, <1>3, AtInv

LEMMA AllocCommitFailsInv ==
    ASSUME TableInv, NEW i \in Inode, AllocCommitFails(i)
    PROVE  TableInv'
<1>1. /\ TableTypeOK /\ UsedCopy(Blank) \in Copy
      /\ Written(i, UsedCopy(Blank)) /\ UNCHANGED <<cached, older>>
      /\ live' = live /\ unsure' = unsure
  BY CopyFacts, TableAssumption DEF TableInv, AllocCommitFails
<1>2. TableTypeOK'
  BY <1>1, WrittenType DEF TableTypeOK
<1>3. ASSUME NEW k \in live' \ unsure' PROVE CoherentAt(k)'
  <2>1. k \in live \ unsure /\ k # i
    BY <1>1, <1>3, FreeIsFresh DEF AllocCommitFails
  <2> QED
    BY <1>1, <2>1, InvAt, OthersCoherent
<1> QED
  BY <1>2, <1>3, AtInv

LEMMA RemoveInv ==
    ASSUME TableInv, NEW i \in Inode, Remove(i)
    PROVE  TableInv'
<1> DEFINE c == [View(i) EXCEPT !.links = 0]
<1>1. /\ TableTypeOK /\ c \in Copy /\ FreeCopy \in Copy
      /\ Written(i, FreeCopy) /\ PutInCache(i, c)
  BY ViewType, CopyFacts DEF TableInv, Remove
<1>2. /\ live' \subseteq live /\ unsure' \subseteq live'
      /\ live' \ unsure' \subseteq (live \ unsure) \ {i} /\ Root \in live'
  BY <1>1 DEF Remove, TableTypeOK
<1>3. TableTypeOK'
  BY <1>1, <1>2, WrittenType, PutInCacheLeaves DEF TableTypeOK
<1>4. ASSUME NEW k \in live' \ unsure' PROVE CoherentAt(k)'
  <2>1. k \in live \ unsure /\ k # i
    BY <1>2, <1>4
  <2> QED
    BY <1>1, <2>1, InvAt, OthersCoherent
<1> QED
  BY <1>3, <1>4, AtInv

LEMMA RemoveCommitFailsInv ==
    ASSUME TableInv, NEW i \in Inode, RemoveCommitFails(i)
    PROVE  TableInv'
<1>1. /\ TableTypeOK /\ FreeCopy \in Copy /\ i \in live
      /\ Written(i, FreeCopy) /\ Looked(i)
      /\ live' = live /\ unsure' = unsure \cup {i}
  BY CopyFacts DEF TableInv, RemoveCommitFails
<1>2. TableTypeOK'
  BY <1>1, WrittenType, LookedLeaves DEF TableTypeOK
<1>3. ASSUME NEW k \in live' \ unsure' PROVE CoherentAt(k)'
  <2>1. k \in live \ unsure /\ k # i
    BY <1>1, <1>3
  <2> QED
    BY <1>1, <2>1, InvAt, OthersCoherent
<1> QED
  BY <1>2, <1>3, AtInv

LEMMA PutRemovedAgainInv ==
    ASSUME TableInv, NEW i \in Inode, PutRemovedAgain(i)
    PROVE  TableInv'
<1>1. /\ TableTypeOK /\ i \in DOMAIN cached /\ older' = MovedToEnd(i)
      /\ UNCHANGED <<disk, cached, live, unsure>>
  BY DEF TableInv, PutRemovedAgain
<1>2. MovedToEnd(i) \subseteq (DOMAIN cached) \X (DOMAIN cached)
  BY <1>1 DEF MovedToEnd, TableTypeOK
<1>3. TableTypeOK'
  BY <1>1, <1>2 DEF TableTypeOK
<1>4. Coherent'
  BY <1>1 DEF TableInv, Coherent
<1> QED
  BY <1>3, <1>4 DEF TableInv

LEMMA TableNextInv ==
    ASSUME TableInv, [TableNext]_tableVars
    PROVE  TableInv'
<1>1. CASE UNCHANGED tableVars
  BY <1>1 DEF tableVars, TableInv, TableTypeOK, Coherent
<1>2. CASE TableNext
  BY <1>2, GetInv, ChangeInv, CreateInv, CreateUnnamedInv, CreatePutFailsInv, AllocCommitFailsInv,
     RemoveInv, RemoveCommitFailsInv, PutRemovedAgainInv DEF TableNext
<1> QED
  BY <1>1, <1>2

THEOREM TableInvariant == TableSpec => []TableInv
BY TableInitInv, TableNextInv, PTL DEF TableSpec

\* The type invariant holds for every instance.
THEOREM TableTypeCorrect == TableSpec => []TableTypeOK
BY TableInvariant, PTL DEF TableInv

\* What the cache has of an inode that a name leads to is what the disk has.
THEOREM CacheCoherent == TableSpec => []Coherent
BY TableInvariant, PTL DEF TableInv

-----------------------------------------------------------------------------
(* The order of the cache *)

LEMMA MovedOrdered ==
    ASSUME TableTypeOK, TotallyOrdered(DOMAIN cached, older), NEW i
    PROVE  TotallyOrdered(DOMAIN cached \cup {i}, MovedToEnd(i))
<1> SUFFICES ASSUME NEW j \in DOMAIN cached \cup {i}, NEW k \in DOMAIN cached \cup {i}
             PROVE  /\ j # k => (<<j, k>> \in MovedToEnd(i) \/ <<k, j>> \in MovedToEnd(i))
                    /\ ~ (<<j, k>> \in MovedToEnd(i) /\ <<k, j>> \in MovedToEnd(i))
                    /\ \A m \in DOMAIN cached \cup {i} :
                          <<j, k>> \in MovedToEnd(i) /\ <<k, m>> \in MovedToEnd(i)
                              => <<j, m>> \in MovedToEnd(i)
  BY DEF TotallyOrdered
<1>1. \A a, b : <<a, b>> \in MovedToEnd(i) <=>
                    \/ a # i /\ b # i /\ <<a, b>> \in older
                    \/ a # i /\ b = i /\ a \in DOMAIN cached
  BY DEF MovedToEnd
<1> QED
  BY <1>1 DEF TotallyOrdered

LEMMA RestrictedOrdered ==
    ASSUME NEW ids, NEW order, TotallyOrdered(ids, order), NEW kept \in SUBSET ids
    PROVE  TotallyOrdered(kept, order \cap (kept \X kept))
BY DEF TotallyOrdered

\* A finite set that is ordered has a first: among the sets of predecessors one has
\* no other of them inside.
LEMMA HasFirst ==
    ASSUME NEW ids, IsFiniteSet(ids), ids # {}, NEW order, TotallyOrdered(ids, order)
    PROVE  /\ First(ids, order) \in ids
           /\ \A j \in ids \ {First(ids, order)} : <<First(ids, order), j>> \in order
<1> DEFINE Before(k) == {j \in ids : <<j, k>> \in order}
           sets == {Before(k) : k \in ids}
<1>1. sets # {} /\ sets \subseteq FiniteSubsetsOf(ids)
  <2>1. \A S \in sets : S \subseteq ids
    OBVIOUS
  <2>2. \A S \in sets : IsFiniteSet(S)
    BY <2>1, FS_Subset
  <2>3. PICK k \in ids : TRUE
    OBVIOUS
  <2>4. Before(k) \in sets
    BY <2>3
  <2> QED
    BY <2>1, <2>2, <2>4 DEF FiniteSubsetsOf
<1>2. PICK least \in sets : \A T \in sets : <<T, least>> \notin StrictSubsetOrdering(ids)
  <2> HIDE DEF sets
  <2> QED
    BY <1>1, FS_StrictSubsetOrderingWellFounded, WFMin
<1>3. PICK k \in ids : least = Before(k)
  BY <1>2
<1>4. ASSUME NEW j \in Before(k) PROVE FALSE
  <2>1. Before(j) \subseteq Before(k)
    BY <1>4 DEF TotallyOrdered
  <2>2. j \in Before(k) /\ j \notin Before(j)
    BY <1>4 DEF TotallyOrdered
  <2>3. <<Before(j), Before(k)>> \in StrictSubsetOrdering(ids)
    BY <2>1, <2>2 DEF StrictSubsetOrdering
  <2> QED
    BY <1>2, <1>3, <1>4, <2>3
<1>5. \A j \in ids \ {k} : <<k, j>> \in order
  BY <1>3, <1>4 DEF TotallyOrdered
<1> QED
  BY <1>5 DEF First

\* A put keeps the order and the bound.
LEMMA PutInCacheOrdered ==
    ASSUME TableTypeOK, CacheOrdered, NEW i \in Inode, NEW c, PutInCache(i, c)
    PROVE  CacheOrdered'
<1> DEFINE ids   == DOMAIN cached \cup {i}
           order == MovedToEnd(i)
           kept  == Kept(ids, order)
<1>1. DOMAIN cached' = kept /\ older' = order \cap (kept \X kept)
  BY DEF PutInCache
<1>2. TotallyOrdered(ids, order)
  BY MovedOrdered DEF CacheOrdered
<1>3. /\ IsFiniteSet(DOMAIN cached) /\ IsFiniteSet(ids)
      /\ Cardinality(ids) \in Nat /\ Cardinality(ids) <= MaxCache
  <2>1. IsFiniteSet(Inode)
    BY TableAssumption, FS_Interval DEF Inode
  <2>2. IsFiniteSet(DOMAIN cached)
    BY <2>1, FS_Subset DEF TableTypeOK
  <2>3. Cardinality(DOMAIN cached) \in Nat /\ Cardinality(DOMAIN cached) < MaxCache
    BY <2>2, FS_CardinalityType DEF CacheOrdered
  <2> QED
    <3>1. IsFiniteSet(ids)
      BY <2>2, FS_AddElement
    <3>2. CASE i \in DOMAIN cached
      <4>1. ids = DOMAIN cached
        BY <3>2
      <4> QED
        BY <2>2, <2>3, <4>1, TableAssumption
    <3>3. CASE i \notin DOMAIN cached
      <4>1. Cardinality(ids) = Cardinality(DOMAIN cached) + 1
        BY <2>2, <3>3, FS_AddElement
      <4> HIDE DEF ids
      <4> QED
        BY <2>2, <2>3, <3>1, <4>1, TableAssumption
    <3> QED
      BY <3>2, <3>3
<1>4. kept \subseteq ids /\ Cardinality(kept) < MaxCache
  <2>1. CASE Cardinality(ids) < MaxCache
    BY <2>1 DEF Kept
  <2>2. CASE ~ (Cardinality(ids) < MaxCache)
    <3>1. kept = ids \ {First(ids, order)}
      BY <2>2 DEF Kept
    <3>2. First(ids, order) \in ids
      BY <1>2, <1>3, HasFirst
    <3> HIDE DEF kept, order, ids
    <3>3. Cardinality(kept) = Cardinality(ids) - 1
      BY <1>3, <3>1, <3>2, FS_RemoveElement
    <3> QED
      BY <1>3, <3>1, <3>3, TableAssumption
  <2> QED
    BY <2>1, <2>2
<1>5. TotallyOrdered(kept, order \cap (kept \X kept))
  <2> HIDE DEF kept, order, ids
  <2> QED
    BY <1>2, <1>4, RestrictedOrdered
<1> HIDE DEF kept, order, ids
<1> QED
  BY <1>1, <1>4, <1>5 DEF CacheOrdered

LEMMA MovedCacheOrdered ==
    ASSUME TableTypeOK, CacheOrdered, NEW i \in DOMAIN cached,
           older' = MovedToEnd(i), cached' = cached
    PROVE  CacheOrdered'
<1>1. DOMAIN cached \cup {i} = DOMAIN cached
  OBVIOUS
<1>2. TotallyOrdered(DOMAIN cached, MovedToEnd(i))
  BY <1>1, MovedOrdered DEF CacheOrdered
<1> QED
  BY <1>2 DEF CacheOrdered

LEMMA LookedOrdered ==
    ASSUME TableTypeOK, CacheOrdered, NEW i \in Inode, Looked(i)
    PROVE  CacheOrdered'
BY MovedCacheOrdered, PutInCacheOrdered DEF Looked

\* Every step changes the cache by a put, a get, or a move, or not at all.
LEMMA StepOnCache ==
    ASSUME TableNext
    PROVE  \/ \E i \in Inode : \E c : PutInCache(i, c)
           \/ \E i \in Inode : Looked(i)
           \/ \E i \in DOMAIN cached : older' = MovedToEnd(i) /\ cached' = cached
           \/ UNCHANGED <<cached, older>>
<1> PICK i \in Inode :
        \/ Get(i) \/ (\E d \in Data : Change(i, d))
        \/ (\E d \in Data : Create(i, d) \/ CreateUnnamed(i, d))
        \/ CreatePutFails(i) \/ AllocCommitFails(i) \/ Remove(i)
        \/ RemoveCommitFails(i) \/ PutRemovedAgain(i)
  BY DEF TableNext
<1> QED
  BY DEF Get, Change, Create, CreateUnnamed, CreatePutFails, AllocCommitFails, Remove,
     RemoveCommitFails, PutRemovedAgain

\* The cache keeps its bound, and the order of its entries.
THEOREM CacheKeepsOrder == TableSpec => []CacheOrdered
<1>1. TableInit => CacheOrdered
  <2> SUFFICES ASSUME TableInit PROVE CacheOrdered
    OBVIOUS
  <2>1. DOMAIN cached = IF MaxCache > 1 THEN {Root} ELSE {}
    BY DEF TableInit
  <2>2. Cardinality(DOMAIN cached) < MaxCache
    <3>1. CASE MaxCache > 1
      <4>1. Cardinality({Root}) = 1
        BY FS_Singleton
      <4> QED
        BY <2>1, <3>1, <4>1
    <3>2. CASE ~ (MaxCache > 1)
      <4>1. Cardinality({}) = 0
        BY FS_EmptySet
      <4> QED
        BY <2>1, <3>2, <4>1, TableAssumption
    <3> QED
      BY <3>1, <3>2
  <2>3. TotallyOrdered(DOMAIN cached, older)
    BY <2>1 DEF TableInit, TotallyOrdered
  <2> QED
    BY <2>2, <2>3 DEF CacheOrdered
<1>2. ASSUME TableTypeOK, CacheOrdered, [TableNext]_tableVars PROVE CacheOrdered'
  <2>1. CASE TableNext
    BY <1>2, <2>1, StepOnCache, PutInCacheOrdered, LookedOrdered, MovedCacheOrdered
       DEF CacheOrdered
  <2>2. CASE UNCHANGED tableVars
    BY <1>2, <2>2 DEF tableVars, CacheOrdered
  <2> QED
    BY <1>2, <2>1, <2>2
<1> QED
  BY <1>1, <1>2, TableTypeCorrect, PTL DEF TableSpec

\* ialloc returns no inode that a name leads to.
THEOREM AllocFresh == TableSpec => CreateIsFresh
<1>1. ASSUME TableInv
      PROVE  \A i \in Inode : (\E d \in Data : Create(i, d)) => i \notin live \ unsure
  BY <1>1, FreeIsFresh DEF Create
<1> QED
  BY <1>1, TableInvariant, PTL DEF TableSpec, CreateIsFresh

-----------------------------------------------------------------------------
(* The table implements InodeStore *)

\* What an inode holds that a name leads to.
LEMMA ContentAt ==
    ASSUME TableInv, NEW k \in live
    PROVE  Content[k] = IF k \in unsure THEN Unsure ELSE disk[k].data
BY InvAt, SureView DEF Content

LEMMA WrittenDisk ==
    ASSUME TableTypeOK, NEW i \in Inode, NEW c, Written(i, c)
    PROVE  /\ disk'[i] = c
           /\ \A k \in Inode \ {i} : disk'[k] = disk[k]
BY DEF Written, TableTypeOK

\* A step that writes none of the sure inodes changes nothing.
LEMMA SameContent ==
    ASSUME TableInv, TableInv', live' = live, unsure' = unsure,
           \A k \in live \ unsure : disk'[k] = disk[k]
    PROVE  Content' = Content
<1>1. ASSUME NEW k \in live PROVE Content'[k] = Content[k]
  <2>1. CASE k \in unsure
    BY <2>1 DEF Content
  <2>2. CASE k \notin unsure
    <3>1. View(k) = disk[k]
      BY <2>2, InvAt, SureView
    <3>2. CoherentAt(k)'
      BY <2>2 DEF TableInv, Coherent, CoherentAt
    <3>3. View(k)' = disk'[k]
      BY <3>2 DEF CoherentAt, View
    <3> QED
      BY <2>2, <3>1, <3>3 DEF Content
  <2> QED
    BY <2>1, <2>2
<1> QED
  BY <1>1 DEF Content

\* The others hold what they held.
LEMMA OthersContent ==
    ASSUME TableInv, TableInv', NEW i \in Inode,
           unsure' \ {i} = unsure \ {i},
           \A k \in Inode \ {i} : disk'[k] = disk[k],
           NEW k \in live, k # i, k \in live'
    PROVE  Content'[k] = Content[k]
<1>1. k \in Inode /\ (k \in unsure' <=> k \in unsure)
  BY DEF TableInv, TableTypeOK
<1>2. CASE k \in unsure
  BY <1>1, <1>2 DEF Content
<1>3. CASE k \notin unsure
  <2>1. View(k) = disk[k]
    BY <1>3, InvAt, SureView
  <2>2. CoherentAt(k)'
    BY <1>1, <1>3 DEF TableInv, Coherent, CoherentAt
  <2>3. View(k)' = disk'[k]
    BY <2>2 DEF CoherentAt, View
  <2> QED
    BY <1>1, <1>3, <2>1, <2>3 DEF Content
<1> QED
  BY <1>2, <1>3

LEMMA HoldingContent ==
    ASSUME TableInv, TableInv', NEW i \in Inode,
           live' = live \cup {i}, unsure' \ {i} = unsure \ {i},
           \A k \in Inode \ {i} : disk'[k] = disk[k]
    PROVE  Content' = Store!Holding(i, IF i \in unsure' THEN Unsure ELSE disk'[i].data)
<1> DEFINE x == IF i \in unsure' THEN Unsure ELSE disk'[i].data
<1>1. Content'[i] = x
  <2>1. CASE i \in unsure'
    BY <2>1 DEF Content
  <2>2. CASE i \notin unsure'
    <3>1. CoherentAt(i)'
      BY <2>2 DEF TableInv, Coherent, CoherentAt
    <3>2. View(i)' = disk'[i]
      BY <3>1 DEF CoherentAt, View
    <3> QED
      BY <2>2, <3>2 DEF Content
  <2> QED
    BY <2>1, <2>2
<1>2. \A k \in live : k # i => Content'[k] = Content[k]
  BY OthersContent
<1>3. Content' = [k \in live' |-> Content'[k]] /\ DOMAIN Content = live
  BY DEF Content
<1> HIDE DEF x
<1>4. Content' = Store!Holding(i, x)
  BY <1>1, <1>2, <1>3 DEF Store!Holding
<1> QED
  BY <1>4 DEF x

LEMMA WithoutContent ==
    ASSUME TableInv, TableInv', NEW i \in Inode,
           live' = live \ {i}, unsure' = unsure \ {i},
           \A k \in Inode \ {i} : disk'[k] = disk[k]
    PROVE  Content' = Store!Without(i)
<1>1. \A k \in live : k # i => Content'[k] = Content[k]
  BY OthersContent
<1>2. Content' = [k \in live' |-> Content'[k]] /\ DOMAIN Content = live
  BY DEF Content
<1> QED
  BY <1>1, <1>2 DEF Store!Without

\* One lemma per action that writes: it is a step of InodeStore or leaves Content.
LEMMA ChangeStore ==
    ASSUME TableInv, TableInv', NEW i \in Inode, NEW d \in Data, Change(i, d)
    PROVE  Store!StoreNext \/ Content' = Content
<1> DEFINE c == [View(i) EXCEPT !.data = d]
<1>1. TableTypeOK /\ View(i) \in Copy /\ unsure \subseteq live /\ live' = live
  BY ViewType DEF TableInv, TableTypeOK, Change
<1>2. DOMAIN Content = live
  BY DEF Content
<1>3. CASE c.links = 0
  <2>1. Written(i, FreeCopy) /\ unsure' = unsure \cup ({i} \cap live)
    BY <1>3 DEF Change
  <2>2. \A k \in Inode \ {i} : disk'[k] = disk[k]
    BY <1>1, <2>1, WrittenDisk
  <2>3. CASE i \in live
    <3>1. Content' = Store!Holding(i, Unsure)
      BY <1>1, <2>1, <2>2, <2>3, HoldingContent
    <3> QED
      BY <1>2, <2>3, <3>1 DEF Store!StoreNext, Store!Spoil
  <2>4. CASE i \notin live
    BY <1>1, <2>1, <2>2, <2>4, InvAt, SameContent
  <2> QED
    BY <2>3, <2>4
<1>4. CASE c.links # 0
  <2>1. Written(i, c) /\ unsure' = unsure \ {i}
    BY <1>4 DEF Change
  <2>2. disk'[i] = c /\ \A k \in Inode \ {i} : disk'[k] = disk[k]
    BY <1>1, <2>1, WrittenDisk
  <2>3. CASE i \in live
    <3>1. c.data = d
      BY <1>1 DEF Copy
    <3>2. Content' = Store!Holding(i, d)
      BY <1>1, <2>1, <2>2, <2>3, <3>1, HoldingContent
    <3> QED
      BY <1>2, <2>3, <3>2 DEF Store!StoreNext, Store!Put
  <2>4. CASE i \notin live
    BY <1>1, <2>1, <2>2, <2>4, InvAt, SameContent
  <2> QED
    BY <2>3, <2>4
<1> QED
  BY <1>3, <1>4

LEMMA NewStore ==
    ASSUME TableInv, TableInv', NEW i \in Inode, NEW x \in Data \cup {Unsure},
           NextFree(i), live' = live \cup {i}, unsure' \ {i} = unsure \ {i},
           \A k \in Inode \ {i} : disk'[k] = disk[k],
           x = IF i \in unsure' THEN Unsure ELSE disk'[i].data
    PROVE  Store!StoreNext
<1>1. Content' = Store!Holding(i, x)
  BY HoldingContent
<1>2. i \in DOMAIN Content => Content[i] = Unsure
  BY FreeIsFresh DEF Content
<1> QED
  BY <1>1, <1>2 DEF Store!StoreNext, Store!Create

LEMMA CreateStore ==
    ASSUME TableInv, TableInv', NEW i \in Inode, NEW d \in Data, Create(i, d)
    PROVE  Store!StoreNext
<1>1. /\ TableTypeOK /\ NextFree(i) /\ Written(i, UsedCopy(d))
      /\ live' = live \cup {i} /\ unsure' = unsure \ {i}
  BY DEF TableInv, Create
<1>2. disk'[i] = UsedCopy(d) /\ \A k \in Inode \ {i} : disk'[k] = disk[k]
  BY <1>1, WrittenDisk
<1>3. i \notin unsure' /\ disk'[i].data = d
  BY <1>1, <1>2 DEF UsedCopy
<1> QED
  BY <1>1, <1>2, <1>3, NewStore

LEMMA CreatePutFailsStore ==
    ASSUME TableInv, TableInv', NEW i \in Inode, CreatePutFails(i)
    PROVE  Store!StoreNext
<1>1. /\ TableTypeOK /\ NextFree(i) /\ Written(i, UsedCopy(Blank))
      /\ live' = live \cup {i} /\ unsure' = unsure \cup {i}
  BY DEF TableInv, CreatePutFails
<1>2. \A k \in Inode \ {i} : disk'[k] = disk[k]
  BY <1>1, WrittenDisk
<1> QED
  BY <1>1, <1>2, NewStore

LEMMA UnnamedStore ==
    ASSUME TableInv, TableInv', NEW i \in Inode, NextFree(i), NEW c, Written(i, c),
           live' = live, unsure' = unsure
    PROVE  Content' = Content
<1>1. \A k \in Inode \ {i} : disk'[k] = disk[k]
  BY WrittenDisk DEF TableInv
<1> QED
  BY <1>1, FreeIsFresh, InvAt, SameContent

LEMMA SpoilStore ==
    ASSUME TableInv, TableInv', NEW i \in live, live' = live, unsure' = unsure \cup {i},
           \A k \in Inode \ {i} : disk'[k] = disk[k]
    PROVE  Store!StoreNext
<1>1. i \in Inode /\ live' = live \cup {i} /\ DOMAIN Content = live
  BY DEF TableInv, TableTypeOK, Content
<1>2. Content' = Store!Holding(i, Unsure)
  BY <1>1, HoldingContent
<1> QED
  BY <1>1, <1>2 DEF Store!StoreNext, Store!Spoil

LEMMA RemoveStore ==
    ASSUME TableInv, TableInv', NEW i \in Inode, Remove(i)
    PROVE  Store!StoreNext
<1>1. TableTypeOK /\ i \in live \ {Root} /\ Written(i, FreeCopy)
  BY DEF TableInv, Remove
<1>2. \A k \in Inode \ {i} : disk'[k] = disk[k]
  BY <1>1, WrittenDisk
<1>3. CASE live' = live \ {i} /\ unsure' = unsure \ {i}
  <2>1. Content' = Store!Without(i) /\ DOMAIN Content = live
    BY <1>2, <1>3, WithoutContent DEF Content
  <2> QED
    BY <1>1, <2>1 DEF Store!StoreNext, Store!Remove
<1>4. CASE live' = live /\ unsure' = unsure \cup {i}
  BY <1>1, <1>2, <1>4, SpoilStore
<1> QED
  BY <1>3, <1>4 DEF Remove

LEMMA RemoveCommitFailsStore ==
    ASSUME TableInv, TableInv', NEW i \in Inode, RemoveCommitFails(i)
    PROVE  Store!StoreNext
<1>1. /\ TableTypeOK /\ i \in live /\ Written(i, FreeCopy)
      /\ live' = live /\ unsure' = unsure \cup {i}
  BY DEF TableInv, RemoveCommitFails
<1>2. \A k \in Inode \ {i} : disk'[k] = disk[k]
  BY <1>1, WrittenDisk
<1> QED
  BY <1>1, <1>2, SpoilStore

\* Refinement: what get_inode answers for an inode that a name leads to is what
\* was put last.
THEOREM TableImplementsStore == TableSpec => ImplementsStore
<1>1. TableInit => Store!StoreInit
  <2> SUFFICES ASSUME TableInit PROVE Store!StoreInit
    OBVIOUS
  <2>1. live = {Root} /\ unsure = {}
    BY DEF TableInit
  <2>2. View(Root).data = Blank
    BY RootFact DEF TableInit, View, UsedCopy
  <2> QED
    BY <2>1, <2>2 DEF Store!StoreInit, Content
<1>2. ASSUME TableInv, TableInv', [TableNext]_tableVars
      PROVE  [Store!StoreNext]_Content
  <2>1. CASE UNCHANGED tableVars
    BY <1>2, <2>1, SameContent DEF tableVars
  <2>2. CASE TableNext
    <3>1. PICK i \in Inode :
            \/ Get(i) \/ (\E d \in Data : Change(i, d))
            \/ (\E d \in Data : Create(i, d) \/ CreateUnnamed(i, d))
            \/ CreatePutFails(i) \/ AllocCommitFails(i) \/ Remove(i)
            \/ RemoveCommitFails(i) \/ PutRemovedAgain(i)
      BY <2>2 DEF TableNext
    <3>2. CASE Get(i) \/ PutRemovedAgain(i)
      BY <1>2, <3>2, SameContent DEF Get, PutRemovedAgain
    <3>3. CASE AllocCommitFails(i) \/ \E d \in Data : CreateUnnamed(i, d)
      BY <1>2, <3>3, UnnamedStore DEF AllocCommitFails, CreateUnnamed
    <3> QED
      BY <1>2, <3>1, <3>2, <3>3, ChangeStore, CreateStore, CreatePutFailsStore,
         RemoveStore, RemoveCommitFailsStore
  <2> QED
    BY <1>2, <2>1, <2>2
<1> QED
  BY <1>1, <1>2, TableInvariant, PTL DEF TableSpec, ImplementsStore, Store!StoreSpec

=============================================================================
