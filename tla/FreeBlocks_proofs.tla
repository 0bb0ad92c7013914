-------------------------- MODULE FreeBlocks_proofs --------------------------
(***************************************************************************)
(* Proofs about FreeBlocks for every disk geometry: the free list never    *)
(* hands out a block in use, reports a full disk only when it is full, and *)
(* implements BlockPool.                                                   *)
(*                                                                         *)
(* The inductive invariant says that some chain of list blocks records     *)
(* exactly the free blocks (Records, stated in FreeBlocks).  Each action   *)
(* is shown to preserve it by naming the chain after the step: the same    *)
(* one, the one without its second block (the head swallowed it), or the   *)
(* one with a block inserted behind the head.                              *)
(***************************************************************************)
EXTENDS FreeBlocks, FiniteSetTheorems, NatFacts, TLAPS

\* The free block ids in the slots of the list blocks s[0], ..., s[n], and that
\* the counter is not below their number.
Listed(n, s) == {disk[s[i]][p] : i \in 0..n, p \in Slot} \ {0}

Counted(n, s) == numFree >= Cardinality(Listed(n, s))

\* The inductive invariant.
IInv ==
    /\ TypeOK
    /\ owned \cap lost = {}
    /\ \E n \in Nat : \E s \in [0..n -> DataBlock] : Records(n, s) /\ Counted(n, s)

-----------------------------------------------------------------------------
(* The geometry *)

LEMMA BlockFacts ==
    /\ Head \in Nat
    /\ Head # 0
    /\ Head \in DataBlock
    /\ DataBlock \subseteq Nat
    /\ 0 \notin DataBlock
    /\ Block \subseteq DataBlock
    /\ Head \notin Block
    /\ \A b \in DataBlock : b # Head => b \in Block
BY GeometryAssumption DEF Head, DataBlock, Block

LEMMA SlotFacts ==
    /\ Slot \subseteq 1..ListLength
    /\ 1 \in 1..ListLength
    /\ 1 \notin Slot
    /\ Slot # {}
    /\ Zeros \in Content
    /\ \A p \in 1..ListLength : Zeros[p] = 0
<1>1. 2 \in Slot
  BY GeometryAssumption DEF Slot
<1> QED
  BY <1>1, GeometryAssumption DEF Slot, Zeros, Content

-----------------------------------------------------------------------------
(* The lists that create_free_blocks writes *)

\* The block counts of create_superblock and create_free_blocks: there is at
\* least one list, and the lists have a slot for every block left.
LEMMA StartCounts ==
    /\ NumFreeAtStart \in Nat
    /\ NumLists \in Nat
    /\ NumLists >= 1
    /\ FirstListedBlock = Head + NumLists
    /\ NumBlocks = FirstListedBlock + NumFreeAtStart
    /\ NumFreeAtStart <= NumLists * (ListLength - 1)
<1> DEFINE D == NumBlocks - NumInodeBlocks - 1
           m == ListLength - 1
           F == NumFreeAtStart
<1>1. D \in Nat /\ D >= 1 /\ m \in Nat /\ m >= 1 /\ ListLength = m + 1
  BY GeometryAssumption
<1>2. D * m \in Nat
  BY <1>1, ProductNat
<1>3. /\ F \in Nat
      /\ D * m = F * ListLength + ((D * m) % ListLength)
      /\ (D * m) % ListLength \in Nat
  <2> DEFINE x == D * m
  <2>1. F = x \div ListLength
    BY DEF NumFreeAtStart
  <2>2. ListLength \in Nat \ {0}
    BY GeometryAssumption
  <2>3. x \in Nat
    BY <1>2
  <2> HIDE DEF x, F
  <2>4. /\ F \in Nat
        /\ x % ListLength \in Nat
        /\ x = F * ListLength + (x % ListLength)
    <3>1. /\ x \div ListLength \in Nat
          /\ x % ListLength \in 0..ListLength-1
          /\ x = (x \div ListLength) * ListLength + (x % ListLength)
      BY <2>2, <2>3, DivMod
    <3> QED
      BY <3>1, <2>1, <2>2
  <2> QED
    BY <2>4 DEF x
<1> HIDE DEF D, m, F
<1>4. F * ListLength = F * m + F
  BY <1>1, <1>3
<1>5. F * m + F <= D * m
  BY <1>2, <1>3, <1>4, <1>1
<1>6. F < D
  <2>1. SUFFICES ASSUME D <= F PROVE FALSE
    BY <1>1, <1>3
  <2>2. D * m <= F * m
    BY <2>1, <1>1, <1>3, ProductMonotone
  <2>3. F >= 1
    BY <2>1, <1>1, <1>3
  <2>4. F * m \in Nat /\ D * m \in Nat
    BY <1>1, <1>3, ProductNat
  <2> QED
    BY <2>2, <2>3, <2>4, <1>5, <1>3
<1>7. NumLists = D - F
  BY GeometryAssumption, <1>3 DEF NumLists, D, F
<1>8. D = F + NumLists /\ NumLists \in Nat /\ NumLists >= 1
  BY <1>7, <1>6, <1>3, <1>1
<1>9. D * m = F * m + NumLists * m
  BY <1>8, <1>1, <1>3
<1>10. F <= NumLists * m
  <2>1. F * m \in Nat /\ NumLists * m \in Nat
    BY <1>1, <1>3, <1>8, ProductNat
  <2> QED
    BY <2>1, <1>9, <1>5, <1>3
<1>11. FirstListedBlock = Head + NumLists
  BY GeometryAssumption, <1>8 DEF FirstListedBlock, Head
<1>12. NumBlocks = FirstListedBlock + NumFreeAtStart
  BY GeometryAssumption, <1>8, <1>3 DEF FirstListedBlock, D, F
<1> QED
  BY <1>3, <1>8, <1>10, <1>11, <1>12 DEF F, m

\* IdAt numbers the slots of the lists without a gap and without a repetition.
LEMMA IdAtInjective ==
    ASSUME NEW i \in Nat, NEW j \in Nat, NEW p \in Slot, NEW q \in Slot,
           IdAt(i, p) = IdAt(j, q)
    PROVE  i = j /\ p = q
<1> DEFINE m == ListLength - 1
<1>1. m \in Nat /\ p \in 2..m+1 /\ q \in 2..m+1 /\ ListLength = m + 1
  BY GeometryAssumption DEF Slot
<1>2. i * m \in Nat /\ j * m \in Nat
  BY <1>1, ProductNat
<1>3. FirstListedBlock \in Nat
  BY StartCounts, BlockFacts
<1>4. i * m - p = j * m - q
  BY <1>1, <1>2, <1>3 DEF IdAt
<1>5. ~ (i < j)
  <2>1. SUFFICES ASSUME i < j PROVE FALSE
    OBVIOUS
  <2>2. (i + 1) * m <= j * m
    BY <2>1, <1>1, ProductMonotone
  <2>3. (i + 1) * m = i * m + m
    BY <1>1
  <2> HIDE DEF m
  <2> QED
    BY <2>2, <2>3, <1>1, <1>2, <1>4
<1>6. ~ (j < i)
  <2>1. SUFFICES ASSUME j < i PROVE FALSE
    OBVIOUS
  <2>2. (j + 1) * m <= i * m
    BY <2>1, <1>1, ProductMonotone
  <2>3. (j + 1) * m = j * m + m
    BY <1>1
  <2> HIDE DEF m
  <2> QED
    BY <2>2, <2>3, <1>1, <1>2, <1>4
<1>7. i = j
  BY <1>5, <1>6
<1> QED
  BY <1>7, <1>4, <1>2, <1>1

LEMMA IdAtOnto ==
    ASSUME NEW b \in FirstListedBlock .. NumBlocks - 1
    PROVE  \E i \in 0..NumLists-1 : \E p \in Slot : IdAt(i, p) = b
<1> DEFINE m == ListLength - 1
           k == b - FirstListedBlock
<1>1. m \in Nat \ {0} /\ ListLength = m + 1 /\ ListLength \in Nat
  BY GeometryAssumption
<1>2. FirstListedBlock \in Nat
  BY StartCounts, BlockFacts
<1>3. k \in Nat /\ k < NumFreeAtStart /\ b = FirstListedBlock + k
  BY <1>2, StartCounts
<1> HIDE DEF m, k
<1>4. /\ k \div m \in Nat
      /\ k % m \in 0..m-1
      /\ k = (k \div m) * m + (k % m)
  BY <1>1, <1>3, DivMod
<1>5. PICK i \in Nat, r \in 0..m-1 : k = i * m + r
  BY <1>4
<1>6. i < NumLists
  <2>1. SUFFICES ASSUME NumLists <= i PROVE FALSE
    BY StartCounts
  <2>2. NumLists * m <= i * m
    BY <2>1, <1>1, StartCounts, ProductMonotone
  <2>3. NumFreeAtStart <= NumLists * m
    BY StartCounts DEF m
  <2>4. i * m \in Nat /\ NumLists * m \in Nat
    BY <1>1, StartCounts, ProductNat
  <2> QED
    BY <2>2, <2>3, <2>4, <1>3, <1>5, StartCounts
<1>7. ListLength - r \in Slot /\ ListLength - (ListLength - r) = r
  BY <1>1 DEF Slot
<1>8. IdAt(i, ListLength - r) = FirstListedBlock + i * m + r
  BY <1>7 DEF IdAt, m
<1>9. IdAt(i, ListLength - r) = b
  <2>1. i * m \in Nat
    BY <1>1, ProductNat
  <2> QED
    BY <1>8, <1>5, <1>3, <2>1, <1>2, <1>1
<1> QED
  BY <1>6, <1>7, <1>9, StartCounts

LEMMA IdAtRange ==
    ASSUME NEW i \in Nat, NEW p \in Slot
    PROVE  IdAt(i, p) \in Nat /\ IdAt(i, p) >= FirstListedBlock
<1> DEFINE m == ListLength - 1
<1>1. m \in Nat /\ ListLength - p \in Nat
  BY GeometryAssumption DEF Slot
<1>2. i * m \in Nat
  BY <1>1, ProductNat
<1>3. FirstListedBlock \in Nat
  BY StartCounts, BlockFacts
<1> QED
  BY <1>1, <1>2, <1>3 DEF IdAt

\* create_free_blocks writes lists that record every block exactly once.
LEMMA InitIInv == Init => IInv
<1> SUFFICES ASSUME Init PROVE IInv
  OBVIOUS
<1> DEFINE n == NumLists - 1
           s == [i \in 0..n |-> Head + i]
<1>1. /\ n \in Nat
      /\ NumLists = n + 1
      /\ FirstListedBlock \in Nat
      /\ Head + NumLists = FirstListedBlock
  BY StartCounts, BlockFacts
<1>2. s \in [0..n -> DataBlock]
  BY <1>1, StartCounts, BlockFacts DEF DataBlock
<1>3. PICK old \in OldContents :
        disk = [b \in DataBlock |-> IF b < Head + NumLists
                                    THEN InitialList(b - Head) ELSE old]
  BY DEF Init
<1>4. \A i \in 0..n : s[i] = Head + i /\ s[i] \in DataBlock /\ disk[s[i]] = InitialList(i)
  <2> SUFFICES ASSUME NEW i \in 0..n
               PROVE  s[i] = Head + i /\ s[i] \in DataBlock /\ disk[s[i]] = InitialList(i)
    OBVIOUS
  <2>1. s[i] = Head + i /\ s[i] \in DataBlock
    BY <1>2
  <2>2. Head + i < Head + NumLists /\ (Head + i) - Head = i
    BY <1>1, BlockFacts, StartCounts
  <2> QED
    BY <2>1, <2>2, <1>3
<1> HIDE DEF n, s
<1>5. ASSUME NEW i \in Nat PROVE InitialList(i) \in Content
  <2>1. Head + i + 1 \in Nat
    BY BlockFacts
  <2>2. \A p \in 1..ListLength : p # 1 => IdAt(i, p) \in Nat
    BY IdAtRange, GeometryAssumption DEF Slot
  <2> QED
    BY <2>1, <2>2 DEF InitialList, Content
<1>6. TypeOK
  <2>1. old \in Content
    BY ContentsAssumption DEF Content
  <2>2. \A b \in DataBlock : b - Head \in Nat
    BY BlockFacts DEF DataBlock
  <2>3. disk \in [DataBlock -> Content]
    BY <1>3, <1>5, <2>1, <2>2
  <2> QED
    BY <2>3, StartCounts DEF Init, TypeOK
<1>7. owned \cap lost = {} /\ FreeBlock = Block
  BY DEF Init, FreeBlock
<1>8. \A i \in 0..n : \A p \in Slot :
        /\ disk[s[i]][p] = IF IdAt(i, p) < NumBlocks THEN IdAt(i, p) ELSE 0
        /\ disk[s[i]][p] # 0 => disk[s[i]][p] = IdAt(i, p) /\ IdAt(i, p) < NumBlocks
  <2> SUFFICES ASSUME NEW i \in 0..n, NEW p \in Slot
               PROVE  disk[s[i]][p] = IF IdAt(i, p) < NumBlocks THEN IdAt(i, p) ELSE 0
    OBVIOUS
  <2>1. p \in 1..ListLength /\ p # 1
    BY SlotFacts
  <2>2. InitialList(i)[p] = IF IdAt(i, p) < NumBlocks THEN IdAt(i, p) ELSE 0
    BY <2>1 DEF InitialList
  <2> QED
    BY <2>2, <1>4
<1>9. ASSUME NEW i \in 0..n, NEW p \in Slot, disk[s[i]][p] # 0
      PROVE  /\ disk[s[i]][p] \in Block
             /\ \A j \in 0..n : disk[s[i]][p] # s[j]
  <2>1. IdAt(i, p) \in Nat /\ IdAt(i, p) >= FirstListedBlock
    BY IdAtRange
  <2>2. disk[s[i]][p] = IdAt(i, p) /\ IdAt(i, p) < NumBlocks
    BY <1>8, <1>9
  <2>3. disk[s[i]][p] \in Block
    BY <2>1, <2>2, <1>1, BlockFacts, StartCounts, GeometryAssumption DEF Block
  <2>4. \A j \in 0..n : s[j] < FirstListedBlock
    BY <1>4, <1>1, BlockFacts
  <2> QED
    BY <2>1, <2>2, <2>3, <2>4, <1>4, <1>1, BlockFacts
<1>10. Records(n, s)
  <2>1. s[0] = Head
    BY <1>4, <1>1, BlockFacts
  <2>2. \A i \in 0..n : disk[s[i]][1] = IF i < n THEN s[i+1] ELSE 0
    <3> SUFFICES ASSUME NEW i \in 0..n
                 PROVE  disk[s[i]][1] = IF i < n THEN s[i+1] ELSE 0
      OBVIOUS
    <3>1. disk[s[i]][1] = IF i < NumLists - 1 THEN Head + i + 1 ELSE 0
      BY <1>4, SlotFacts DEF InitialList
    <3>2. CASE i < n
      <4>1. i + 1 \in 0..n /\ i < NumLists - 1
        BY <3>2, <1>1
      <4>2. s[i+1] = Head + (i + 1) /\ Head + (i + 1) = Head + i + 1
        BY <4>1, <1>4, BlockFacts
      <4> QED
        BY <3>1, <3>2, <4>1, <4>2
    <3>3. CASE ~ (i < n)
      BY <3>1, <3>3, <1>1
    <3> QED
      BY <3>2, <3>3
  <2>3. \A i, j \in 0..n : s[i] = s[j] => i = j
    BY <1>4, BlockFacts
  <2>4. \A i \in 1..n : s[i] \in FreeBlock
    BY <1>4, <1>7, BlockFacts, <1>1
  <2>5. \A i \in 0..n : \A p \in Slot :
          disk[s[i]][p] # 0 => /\ disk[s[i]][p] \in FreeBlock
                               /\ \A j \in 0..n : disk[s[i]][p] # s[j]
    BY <1>7, <1>9
  <2>6. \A i, j \in 0..n : \A p, q \in Slot :
          disk[s[i]][p] # 0 /\ disk[s[i]][p] = disk[s[j]][q] => i = j /\ p = q
    BY <1>8, <1>1, IdAtInjective
  <2>7. \A b \in FreeBlock : \/ \E i \in 1..n : s[i] = b
                             \/ \E i \in 0..n : \E p \in Slot : disk[s[i]][p] = b
    <3> SUFFICES ASSUME NEW b \in Block
                 PROVE  \/ \E i \in 1..n : s[i] = b
                        \/ \E i \in 0..n : \E p \in Slot : disk[s[i]][p] = b
      BY <1>7
    <3>1. CASE b < FirstListedBlock
      <4>1. b - Head \in 1..n /\ Head + (b - Head) = b
        BY <3>1, <1>1, BlockFacts, StartCounts DEF Block
      <4>2. s[b - Head] = b
        BY <4>1, <1>4, <1>1
      <4> QED
        BY <4>1, <4>2
    <3>2. CASE ~ (b < FirstListedBlock)
      <4>1. b \in FirstListedBlock .. NumBlocks - 1 /\ b < NumBlocks
        BY <3>2, <1>1, BlockFacts, GeometryAssumption DEF Block
      <4>2. 0..NumLists-1 = 0..n
        BY <1>1
      <4>3. PICK i \in 0..n, p \in Slot : IdAt(i, p) = b
        BY <4>1, <4>2, IdAtOnto
      <4>4. disk[s[i]][p] = b
        BY <4>1, <4>3, <1>8
      <4> QED
        BY <4>4
    <3> QED
      BY <3>1, <3>2
  <2> QED
    BY <1>2, <2>1, <2>2, <2>3, <2>4, <2>5, <2>6, <2>7 DEF Records
<1>11. Counted(n, s)
  <2> DEFINE ids == FirstListedBlock .. NumBlocks - 1
  <2>1. /\ NumFreeAtStart \in Nat
        /\ NumBlocks = FirstListedBlock + NumFreeAtStart
        /\ numFree = NumFreeAtStart
    BY StartCounts DEF Init
  <2>2. IsFiniteSet(ids) /\ Cardinality(ids) = NumFreeAtStart
    <3>1. FirstListedBlock \in Int /\ NumBlocks - 1 \in Int
      BY <1>1, <2>1
    <3> QED
      BY <1>1, <2>1, <3>1, FS_Interval
  <2>3. Listed(n, s) \subseteq ids
    <3> SUFFICES ASSUME NEW i \in 0..n, NEW p \in Slot, disk[s[i]][p] # 0
                 PROVE  disk[s[i]][p] \in ids
      BY DEF Listed
    <3>1. disk[s[i]][p] = IdAt(i, p) /\ IdAt(i, p) < NumBlocks
      BY <1>8
    <3>2. IdAt(i, p) \in Nat /\ IdAt(i, p) >= FirstListedBlock
      BY IdAtRange
    <3> QED
      BY <3>1, <3>2, <2>1, <1>1
  <2>4. Cardinality(Listed(n, s)) <= Cardinality(ids)
    <3> HIDE DEF ids
    <3> QED
      BY <2>2, <2>3, FS_Subset
  <2> QED
    BY <2>1, <2>2, <2>4 DEF Counted
<1> QED
  BY <1>1, <1>2, <1>6, <1>7, <1>10, <1>11 DEF IInv

-----------------------------------------------------------------------------
(* Calls of data_block_alloc *)

\* The chain is never empty, and its slots name free blocks.
LEMMA RecordsFacts ==
    ASSUME TypeOK, NEW n \in Nat, NEW s \in [0..n -> DataBlock], Records(n, s)
    PROVE  /\ 0 \in 0..n
           /\ s[0] = Head
           /\ \A p \in Slot : disk[Head][p] # 0 => disk[Head][p] \in FreeBlock
           /\ disk[Head][1] = IF n > 0 THEN s[1] ELSE 0
           /\ n > 0 => s[1] \in FreeBlock /\ s[1] # Head /\ 1 \in 0..n
           /\ FreeBlock \subseteq Block
<1>1. 0 \in 0..n /\ s[0] = Head
  BY DEF Records
<1>2. \A p \in Slot : disk[Head][p] # 0 => disk[Head][p] \in FreeBlock
  BY <1>1 DEF Records
<1>3. disk[Head][1] = IF n > 0 THEN s[1] ELSE 0
  BY <1>1 DEF Records
<1>4. n > 0 => s[1] \in FreeBlock /\ s[1] # Head /\ 1 \in 0..n
  <2>1. SUFFICES ASSUME n > 0 PROVE s[1] \in FreeBlock /\ 1 \in 0..n
    BY BlockFacts DEF FreeBlock
  <2>2. 1 \in 1..n /\ 1 \in 0..n
    BY <2>1
  <2> QED
    BY <2>2 DEF Records
<1> QED
  BY <1>1, <1>2, <1>3, <1>4 DEF FreeBlock

\* The ids in the slots are finitely many.
LEMMA ListedFinite ==
    ASSUME TypeOK, NEW n \in Nat, NEW s \in [0..n -> DataBlock], Records(n, s)
    PROVE  /\ IsFiniteSet(Listed(n, s))
           /\ Cardinality(Listed(n, s)) \in Nat
           /\ Listed(n, s) \subseteq FreeBlock
<1>1. Listed(n, s) \subseteq FreeBlock
  BY DEF Records, Listed
<1>2. Listed(n, s) \subseteq Block
  BY <1>1 DEF FreeBlock
<1>3. IsFiniteSet(Block)
  <2>1. Head + 1 \in Int /\ NumBlocks - 1 \in Int
    BY BlockFacts, GeometryAssumption
  <2> QED
    BY <2>1, FS_Interval DEF Block
<1>4. IsFiniteSet(Listed(n, s))
  BY <1>2, <1>3, FS_Subset
<1> QED
  BY <1>1, <1>4, FS_CardinalityType

\* The tail of data_block_alloc takes b, and nothing else, from the free blocks.
LEMMA HandOutFacts ==
    ASSUME TypeOK, owned \cap lost = {},
           NEW b \in FreeBlock, NEW d \in [DataBlock -> Content], HandOut(b, d)
    PROVE  /\ disk' \in [DataBlock -> Content]
           /\ \A x \in DataBlock : x # b => disk'[x] = d[x]
           /\ owned' \subseteq Block
           /\ lost' \subseteq Block
           /\ owned' \cap lost' = {}
           /\ answer' \in {"ok", "full", "eio"}
           /\ FreeBlock' = FreeBlock \ {b}
<1>1. b \in Block /\ b \in DataBlock /\ b \notin owned /\ b \notin lost
  BY BlockFacts DEF FreeBlock
<1>2. Zeros \in Content
  BY SlotFacts
<1>3. /\ disk' \in [DataBlock -> Content]
      /\ \A x \in DataBlock : x # b => disk'[x] = d[x]
  BY <1>1, <1>2 DEF HandOut
<1> QED
  BY <1>1, <1>3 DEF HandOut, FreeBlock, TypeOK

LEMMA AllocListedStep ==
    ASSUME IInv, AllocListed
    PROVE  IInv'
<1>0. PICK n \in Nat : \E s \in [0..n -> DataBlock] : Records(n, s) /\ Counted(n, s)
  BY DEF IInv
<1>1. PICK s \in [0..n -> DataBlock] : Records(n, s) /\ Counted(n, s)
  BY <1>0
<1>2. PICK p \in Slot : /\ disk[Head][p] # 0
                        /\ HandOut(disk[Head][p], [disk EXCEPT ![Head][p] = 0])
                        /\ numFree' = numFree - 1
  BY DEF AllocListed
<1>3. PICK b : b = disk[Head][p]
  OBVIOUS
<1>4. PICK d : d = [disk EXCEPT ![Head][p] = 0]
  OBVIOUS
<1>5. TypeOK /\ owned \cap lost = {}
  BY DEF IInv
<1>6. /\ d \in [DataBlock -> Content]
      /\ \A x \in DataBlock : x # Head => d[x] = disk[x]
      /\ d[Head] \in Content
      /\ \A q \in 1..ListLength : d[Head][q] = IF q = p THEN 0 ELSE disk[Head][q]
  BY <1>4, <1>5, BlockFacts, SlotFacts DEF TypeOK, Content
<1>7. b \in FreeBlock /\ b # 0
  BY <1>1, <1>2, <1>3, <1>5, RecordsFacts
<1>8. /\ disk' \in [DataBlock -> Content]
      /\ \A x \in DataBlock : x # b => disk'[x] = d[x]
      /\ owned' \subseteq Block
      /\ lost' \subseteq Block
      /\ owned' \cap lost' = {}
      /\ answer' \in {"ok", "full", "eio"}
      /\ FreeBlock' = FreeBlock \ {b}
  BY <1>2, <1>3, <1>4, <1>5, <1>6, <1>7, HandOutFacts
<1>9. TypeOK' /\ (owned \cap lost = {})'
  BY <1>2, <1>5, <1>8 DEF TypeOK
\* b is not a list block, so that the chain and its slots stay, but for slot p.
<1>10. \A i \in 0..n : s[i] # b /\ s[i] \in DataBlock
  BY <1>1, <1>2, <1>3 DEF Records
<1>11. ASSUME NEW i \in 0..n
       PROVE  /\ disk'[s[i]][1] = disk[s[i]][1]
              /\ \A q \in Slot : disk'[s[i]][q] = IF s[i] = Head /\ q = p
                                                  THEN 0 ELSE disk[s[i]][q]
  <2>1. disk'[s[i]] = d[s[i]]
    BY <1>8, <1>10
  <2>2. CASE s[i] = Head
    <3>1. 1 \in 1..ListLength /\ 1 # p /\ \A q \in Slot : q \in 1..ListLength
      BY SlotFacts
    <3>2. d[Head][1] = disk[Head][1]
      BY <3>1, <1>6
    <3>3. \A q \in Slot : d[Head][q] = IF q = p THEN 0 ELSE disk[Head][q]
      BY <3>1, <1>6
    <3> QED
      BY <2>1, <2>2, <3>2, <3>3
  <2>3. CASE s[i] # Head
    BY <2>1, <2>3, <1>6, <1>10
  <2> QED
    BY <2>2, <2>3
<1>12. Records(n, s)'
  <2>1. \A i \in 1..n : s[i] \in FreeBlock'
    BY <1>1, <1>8, <1>10 DEF Records
  <2>2. ASSUME NEW i \in 0..n, NEW q \in Slot, disk'[s[i]][q] # 0
        PROVE  /\ disk'[s[i]][q] \in FreeBlock'
               /\ disk'[s[i]][q] = disk[s[i]][q]
               /\ \A j \in 0..n : disk'[s[i]][q] # s[j]
    <3>1. disk'[s[i]][q] = disk[s[i]][q] /\ ~ (s[i] = Head /\ q = p)
      BY <1>11, <2>2
    <3>2. disk[s[i]][q] # b
      BY <3>1, <1>1, <1>2, <1>3, <2>2 DEF Records
    <3> QED
      BY <3>1, <3>2, <1>1, <1>8, <2>2 DEF Records
  <2>3. \A i, j \in 0..n : \A q, r \in Slot :
          disk'[s[i]][q] # 0 /\ disk'[s[i]][q] = disk'[s[j]][r] => i = j /\ q = r
    BY <2>2, <1>1 DEF Records
  <2>4. \A x \in FreeBlock' : \/ \E i \in 1..n : s[i] = x
                              \/ \E i \in 0..n : \E q \in Slot : disk'[s[i]][q] = x
    <3> SUFFICES ASSUME NEW x \in FreeBlock, x # b
                 PROVE  \/ \E i \in 1..n : s[i] = x
                        \/ \E i \in 0..n : \E q \in Slot : disk'[s[i]][q] = x
      BY <1>8
    <3>1. CASE \E i \in 0..n : \E q \in Slot : disk[s[i]][q] = x
      <4>1. PICK i \in 0..n, q \in Slot : disk[s[i]][q] = x
        BY <3>1
      <4>2. disk'[s[i]][q] = x
        BY <4>1, <1>11, <1>3
      <4> QED
        BY <4>2
    <3> QED
      BY <3>1, <1>1 DEF Records
  <2>5. \A i \in 0..n : disk'[s[i]][1] = IF i < n THEN s[i+1] ELSE 0
    BY <1>1, <1>11 DEF Records
  <2>6. /\ s \in [0..n -> DataBlock]
        /\ s[0] = Head
        /\ \A i, j \in 0..n : s[i] = s[j] => i = j
    BY <1>1 DEF Records
  <2>7. \A i \in 0..n : \A q \in Slot :
          disk'[s[i]][q] # 0 => /\ disk'[s[i]][q] \in FreeBlock'
                                /\ \A j \in 0..n : disk'[s[i]][q] # s[j]
    BY <2>2
  <2> QED
    BY <2>1, <2>3, <2>4, <2>5, <2>6, <2>7 DEF Records
\* The counter loses one, and so do the slots.
<1>13. Counted(n, s)'
  <2>1. /\ IsFiniteSet(Listed(n, s))
        /\ Cardinality(Listed(n, s)) \in Nat
        /\ numFree >= Cardinality(Listed(n, s))
        /\ numFree \in Int
    BY <1>1, <1>5, ListedFinite DEF Counted, TypeOK
  <2>2. b \in Listed(n, s)
    BY <1>1, <1>2, <1>3, <1>7 DEF Listed, Records
  <2>3. Listed(n, s)' \subseteq Listed(n, s) \ {b}
    <3> SUFFICES ASSUME NEW i \in 0..n, NEW q \in Slot, disk'[s[i]][q] # 0
                 PROVE  disk'[s[i]][q] \in Listed(n, s) /\ disk'[s[i]][q] # b
      BY DEF Listed
    <3>1. disk'[s[i]][q] = disk[s[i]][q] /\ ~ (s[i] = Head /\ q = p)
      BY <1>11
    <3>2. disk[s[i]][q] # b
      BY <3>1, <1>1, <1>2, <1>3 DEF Records
    <3> QED
      BY <3>1, <3>2 DEF Listed
  <2>4. /\ IsFiniteSet(Listed(n, s) \ {b})
        /\ Cardinality(Listed(n, s) \ {b}) = Cardinality(Listed(n, s)) - 1
    BY <2>1, <2>2, FS_RemoveElement
  <2>5. IsFiniteSet(Listed(n, s)') /\ Cardinality(Listed(n, s)') <= Cardinality(Listed(n, s)) - 1
    BY <2>3, <2>4, FS_Subset
  <2>6. Cardinality(Listed(n, s)') \in Nat
    BY <2>5, FS_CardinalityType
  <2> QED
    BY <2>1, <2>5, <2>6, <1>2 DEF Counted
<1> QED
  BY <1>9, <1>12, <1>13 DEF IInv

\* The head swallows the second list block s[1], which is handed out.
LEMMA AllocListBlockStep ==
    ASSUME IInv, AllocListBlock
    PROVE  IInv'
<1>0. PICK n \in Nat : \E s \in [0..n -> DataBlock] : Records(n, s) /\ Counted(n, s)
  BY DEF IInv
<1>1. PICK s \in [0..n -> DataBlock] : Records(n, s) /\ Counted(n, s)
  BY <1>0
<1>2. PICK b : b = disk[Head][1]
  OBVIOUS
<1>3. PICK d : d = [disk EXCEPT ![Head] = disk[b]]
  OBVIOUS
<1>4. /\ b # 0
      /\ b \in DataBlock
      /\ HandOut(b, d)
      /\ numFree' = numFree
      /\ \A p \in Slot : disk[Head][p] = 0
  BY <1>2, <1>3 DEF AllocListBlock, HasListedBlock
<1>5. TypeOK /\ owned \cap lost = {}
  BY DEF IInv
<1>6. /\ n > 0
      /\ b = s[1]
      /\ b \in FreeBlock
      /\ b # Head
      /\ s[0] = Head
      /\ FreeBlock \subseteq Block
  BY <1>1, <1>2, <1>4, <1>5, RecordsFacts
<1>7. /\ d \in [DataBlock -> Content]
      /\ \A x \in DataBlock : d[x] = IF x = Head THEN disk[b] ELSE disk[x]
  BY <1>3, <1>4, <1>5, BlockFacts DEF TypeOK
<1>8. /\ disk' \in [DataBlock -> Content]
      /\ \A x \in DataBlock : x # b => disk'[x] = d[x]
      /\ owned' \subseteq Block
      /\ lost' \subseteq Block
      /\ owned' \cap lost' = {}
      /\ answer' \in {"ok", "full", "eio"}
      /\ FreeBlock' = FreeBlock \ {b}
  BY <1>4, <1>5, <1>6, <1>7, HandOutFacts
<1>9. TypeOK' /\ (owned \cap lost = {})'
  BY <1>4, <1>5, <1>8 DEF TypeOK
\* The chain after the step.
<1>10. PICK m : m = n - 1
  OBVIOUS
<1>11. PICK t : t = [i \in 0..m |-> IF i = 0 THEN Head ELSE s[i+1]]
  OBVIOUS
<1>12. m \in Nat /\ n = m + 1
  BY <1>6, <1>10
<1>13. ASSUME NEW i \in 0..m
       PROVE  /\ i + 1 \in 1..n
              /\ i + 1 \in 0..n
              /\ t[i] = IF i = 0 THEN Head ELSE s[i+1]
              /\ t[i] \in DataBlock
              /\ t[i] # b
              /\ disk'[t[i]] = disk[s[i+1]]
  <2>1. i + 1 \in 1..n /\ i + 1 \in 0..n /\ s[i+1] \in DataBlock
    BY <1>12
  <2>2. t[i] = IF i = 0 THEN Head ELSE s[i+1]
    BY <1>11
  <2>3. CASE i = 0
    BY <2>1, <2>2, <2>3, <1>6, <1>7, <1>8, BlockFacts
  <2>4. CASE i # 0
    <3>1. 0 \in 0..n /\ 1 \in 0..n
      BY <1>12
    <3>2. s[i+1] # s[0] /\ s[i+1] # s[1]
      BY <1>1, <2>1, <2>4, <3>1 DEF Records
    <3> QED
      BY <2>1, <2>2, <2>4, <3>2, <1>6, <1>7, <1>8
  <2> QED
    BY <2>1, <2>2, <2>3, <2>4
<1>14. t \in [0..m -> DataBlock]
  BY <1>11, <1>13
<1>15. Records(m, t)'
  <2>1. t[0] = Head
    BY <1>12, <1>13
  <2>2. ASSUME NEW i \in 0..m
        PROVE  disk'[t[i]][1] = IF i < m THEN t[i+1] ELSE 0
    <3>1. disk'[t[i]][1] = IF i + 1 < n THEN s[(i+1)+1] ELSE 0
      BY <1>1, <1>13 DEF Records
    <3>2. CASE i < m
      <4>1. i + 1 \in 0..m /\ i + 1 < n /\ i + 1 # 0
        BY <3>2, <1>12
      <4> QED
        BY <3>1, <3>2, <4>1, <1>13
    <3>3. CASE ~ (i < m)
      <4>1. ~ (i + 1 < n)
        BY <3>3, <1>12
      <4> QED
        BY <3>1, <3>3, <4>1
    <3> QED
      BY <3>2, <3>3
  <2>3. ASSUME NEW i \in 0..m, NEW j \in 0..m, t[i] = t[j]
        PROVE  i = j
    <3>1. 0 \in 0..n /\ \A k \in 0..n : s[k] = Head => k = 0
      BY <1>1, <1>6, <1>12 DEF Records
    <3>2. i + 1 # 0 /\ j + 1 # 0
      BY <1>12
    <3>3. i = 0 <=> j = 0
      BY <3>1, <3>2, <2>3, <1>13
    <3>4. CASE i # 0
      <4>1. s[i+1] = s[j+1]
        BY <3>3, <3>4, <2>3, <1>13
      <4>2. i + 1 = j + 1
        BY <4>1, <1>1, <1>13 DEF Records
      <4> QED
        BY <4>2, <1>12
    <3> QED
      BY <3>3, <3>4
  <2>4. ASSUME NEW i \in 1..m PROVE t[i] \in FreeBlock'
    <3>1. i \in 0..m /\ i # 0
      BY <1>12
    <3> QED
      BY <3>1, <1>1, <1>8, <1>13 DEF Records
  <2>5. ASSUME NEW i \in 0..m, NEW p \in Slot, disk'[t[i]][p] # 0
        PROVE  /\ disk'[t[i]][p] \in FreeBlock'
               /\ \A j \in 0..m : disk'[t[i]][p] # t[j]
    <3>1. /\ disk[s[i+1]][p] \in FreeBlock
          /\ \A k \in 0..n : disk[s[i+1]][p] # s[k]
      BY <2>5, <1>1, <1>13 DEF Records
    <3>2. 0 \in 0..n /\ 1 \in 0..n
      BY <1>12
    <3>3. \A j \in 0..m : disk[s[i+1]][p] # t[j]
      BY <3>1, <3>2, <1>13, <1>6
    <3> QED
      BY <3>1, <3>2, <3>3, <1>13, <1>6, <1>8
  <2>6. ASSUME NEW i \in 0..m, NEW j \in 0..m, NEW p \in Slot, NEW q \in Slot,
               disk'[t[i]][p] # 0, disk'[t[i]][p] = disk'[t[j]][q]
        PROVE  i = j /\ p = q
    <3>1. i + 1 = j + 1 /\ p = q
      BY <2>6, <1>1, <1>13 DEF Records
    <3> QED
      BY <3>1, <1>12
  <2>7. ASSUME NEW x \in FreeBlock'
        PROVE  \/ \E i \in 1..m : t[i] = x
               \/ \E i \in 0..m : \E p \in Slot : disk'[t[i]][p] = x
    <3>1. x \in FreeBlock /\ x # b /\ x # 0
      BY <1>6, <1>8, BlockFacts
    <3>2. CASE \E k \in 1..n : s[k] = x
      <4>1. PICK k \in 1..n : s[k] = x
        BY <3>2
      <4>2. k # 1
        BY <4>1, <3>1, <1>6
      <4>3. k - 1 \in 1..m /\ k - 1 \in 0..m /\ k - 1 # 0 /\ (k - 1) + 1 = k
        BY <4>2, <1>12
      <4>4. t[k-1] = x
        BY <4>1, <4>3, <1>13
      <4> QED
        BY <4>3, <4>4
    <3>3. CASE \E k \in 0..n : \E p \in Slot : disk[s[k]][p] = x
      <4>1. PICK k \in 0..n, p \in Slot : disk[s[k]][p] = x
        BY <3>3
      <4>2. k # 0
        BY <4>1, <3>1, <1>4, <1>6
      <4>3. k - 1 \in 0..m /\ (k - 1) + 1 = k
        BY <4>2, <1>12
      <4>4. disk'[t[k-1]][p] = x
        BY <4>1, <4>3, <1>13
      <4> QED
        BY <4>3, <4>4
    <3> QED
      BY <3>1, <3>2, <3>3, <1>1 DEF Records
  <2> QED
    BY <1>14, <2>1, <2>2, <2>3, <2>4, <2>5, <2>6, <2>7 DEF Records
<1>16. Counted(m, t)'
  <2>1. /\ IsFiniteSet(Listed(n, s))
        /\ Cardinality(Listed(n, s)) \in Nat
        /\ numFree >= Cardinality(Listed(n, s))
        /\ numFree \in Int
    BY <1>1, <1>5, ListedFinite DEF Counted, TypeOK
  <2>2. Listed(m, t)' \subseteq Listed(n, s)
    BY <1>13 DEF Listed
  <2>3. IsFiniteSet(Listed(m, t)') /\ Cardinality(Listed(m, t)') <= Cardinality(Listed(n, s))
    BY <2>1, <2>2, FS_Subset
  <2>4. Cardinality(Listed(m, t)') \in Nat
    BY <2>3, FS_CardinalityType
  <2> QED
    BY <2>1, <2>3, <2>4, <1>4 DEF Counted
<1> QED
  BY <1>9, <1>12, <1>14, <1>15, <1>16 DEF IInv

-----------------------------------------------------------------------------
(* Steps that leave the free list alone *)

\* A step that changes neither the free blocks nor the contents of one, nor the
\* head of the chain.
LEMMA FreeListUndisturbed ==
    ASSUME IInv, TypeOK', (owned \cap lost = {})', FreeBlock' = FreeBlock,
           numFree' = numFree,
           \A x \in FreeBlock \cup {Head} : disk'[x] = disk[x]
    PROVE  IInv'
<1>0. PICK n \in Nat : \E s \in [0..n -> DataBlock] : Records(n, s) /\ Counted(n, s)
  BY DEF IInv
<1>1. PICK s \in [0..n -> DataBlock] : Records(n, s) /\ Counted(n, s)
  BY <1>0
<1>2. \A i \in 0..n : s[i] \in FreeBlock \cup {Head}
  <2> SUFFICES ASSUME NEW i \in 0..n, i # 0 PROVE s[i] \in FreeBlock
    BY <1>1 DEF Records
  <2>1. i \in 1..n
    OBVIOUS
  <2> QED
    BY <2>1, <1>1 DEF Records
<1>3. \A i \in 0..n : disk'[s[i]] = disk[s[i]]
  BY <1>2
<1>4. Records(n, s)'
  <2>1. \A i \in 0..n : disk'[s[i]][1] = IF i < n THEN s[i+1] ELSE 0
    BY <1>1, <1>3 DEF Records
  <2>2. \A i \in 0..n : \A p \in Slot :
          disk'[s[i]][p] # 0 => /\ disk'[s[i]][p] \in FreeBlock'
                                /\ \A j \in 0..n : disk'[s[i]][p] # s[j]
    BY <1>1, <1>3 DEF Records
  <2>3. \A i, j \in 0..n : \A p, q \in Slot :
          disk'[s[i]][p] # 0 /\ disk'[s[i]][p] = disk'[s[j]][q] => i = j /\ p = q
    BY <1>1, <1>3 DEF Records
  <2>4. \A b \in FreeBlock' : \/ \E i \in 1..n : s[i] = b
                              \/ \E i \in 0..n : \E p \in Slot : disk'[s[i]][p] = b
    BY <1>1, <1>3 DEF Records
  <2>5. /\ s \in [0..n -> DataBlock]
        /\ s[0] = Head
        /\ \A i, j \in 0..n : s[i] = s[j] => i = j
        /\ \A i \in 1..n : s[i] \in FreeBlock'
    BY <1>1 DEF Records
  <2> QED
    BY <2>1, <2>2, <2>3, <2>4, <2>5 DEF Records
<1>5. Counted(n, s)'
  <2>1. Listed(n, s)' = Listed(n, s)
    BY <1>3 DEF Listed
  <2> QED
    BY <1>1, <2>1 DEF Counted
<1> QED
  BY <1>4, <1>5 DEF IInv

LEMMA OwnerWriteStep ==
    ASSUME IInv, OwnerWrite
    PROVE  IInv'
<1>1. PICK b \in owned, c \in OldContents : disk' = [disk EXCEPT ![b] = c]
  BY DEF OwnerWrite
<1>2. UNCHANGED <<numFree, owned, lost, answer>>
  BY DEF OwnerWrite
<1>3. c \in Content /\ TypeOK /\ owned \cap lost = {}
  BY ContentsAssumption DEF Content, IInv
<1>4. b \in Block /\ b \in DataBlock /\ b # Head /\ b \notin FreeBlock
  BY <1>3, BlockFacts DEF TypeOK, FreeBlock
<1>5. TypeOK' /\ (owned \cap lost = {})' /\ FreeBlock' = FreeBlock
  BY <1>1, <1>2, <1>3, <1>4 DEF TypeOK, FreeBlock
<1>6. FreeBlock \cup {Head} \subseteq DataBlock
  BY BlockFacts DEF FreeBlock
<1>7. \A x \in FreeBlock \cup {Head} : disk'[x] = disk[x]
  BY <1>1, <1>3, <1>4, <1>6 DEF TypeOK
<1> QED
  BY <1>2, <1>5, <1>7, FreeListUndisturbed

\* data_block_free fails: the block is lost, the free list is as it was.
LEMMA FreeErrorStep ==
    ASSUME IInv, NEW b \in owned, NEW c \in Content,
           owned' = owned \ {b}, lost' = lost \cup {b},
           disk' = [disk EXCEPT ![b] = c] \/ disk' = disk,
           numFree' = numFree, answer' = "eio"
    PROVE  IInv'
<1>1. TypeOK /\ owned \cap lost = {}
  BY DEF IInv
<1>2. b \in Block /\ b \in DataBlock /\ b # Head /\ b \notin FreeBlock
  BY <1>1, BlockFacts DEF TypeOK, FreeBlock
<1>3. TypeOK' /\ (owned \cap lost = {})' /\ FreeBlock' = FreeBlock
  BY <1>1, <1>2 DEF TypeOK, FreeBlock
<1>4. FreeBlock \cup {Head} \subseteq DataBlock
  BY BlockFacts DEF FreeBlock
<1>5. \A x \in FreeBlock \cup {Head} : disk'[x] = disk[x]
  BY <1>1, <1>2, <1>4 DEF TypeOK
<1> QED
  BY <1>3, <1>5, FreeListUndisturbed

-----------------------------------------------------------------------------
(* Calls of data_block_free *)

\* What a successful free does to the free blocks and to the disk.
LEMMA FreeFacts ==
    ASSUME TypeOK, owned \cap lost = {},
           NEW b \in owned, NEW c \in Content, NEW h \in Content,
           owned' = owned \ {b}, lost' = lost, numFree' = numFree + 1,
           disk' = [disk EXCEPT ![b] = c, ![Head] = h], answer' = "ok"
    PROVE  /\ TypeOK'
           /\ (owned \cap lost = {})'
           /\ FreeBlock' = FreeBlock \cup {b}
           /\ b \in Block /\ b \in DataBlock /\ b # Head /\ b # 0
           /\ b \notin FreeBlock
           /\ disk'[b] = c
           /\ disk'[Head] = h
           /\ \A x \in DataBlock : x # b /\ x # Head => disk'[x] = disk[x]
<1>1. b \in Block /\ b \in DataBlock /\ b # Head /\ b # 0 /\ b \notin FreeBlock
  BY BlockFacts DEF TypeOK, FreeBlock
<1>2. /\ disk' \in [DataBlock -> Content]
      /\ disk'[b] = c
      /\ disk'[Head] = h
      /\ \A x \in DataBlock : x # b /\ x # Head => disk'[x] = disk[x]
  BY <1>1, BlockFacts DEF TypeOK
<1>3. FreeBlock' = FreeBlock \cup {b}
  BY <1>1 DEF FreeBlock
<1> QED
  BY <1>1, <1>2, <1>3 DEF TypeOK

LEMMA FreeIntoSlotStep ==
    ASSUME IInv, NEW b \in owned, FreeIntoSlot(b)
    PROVE  IInv'
<1>0. PICK n \in Nat : \E s \in [0..n -> DataBlock] : Records(n, s) /\ Counted(n, s)
  BY DEF IInv
<1>1. PICK s \in [0..n -> DataBlock] : Records(n, s) /\ Counted(n, s)
  BY <1>0
<1>2. PICK p \in Slot : /\ disk[Head][p] = 0
                        /\ WriteBoth(b, Zeros, [disk[Head] EXCEPT ![p] = b])
  BY DEF FreeIntoSlot
<1>3. PICK h : h = [disk[Head] EXCEPT ![p] = b]
  OBVIOUS
<1>4. TypeOK /\ owned \cap lost = {}
  BY DEF IInv
<1>5. b \in Nat
  BY <1>4, BlockFacts DEF TypeOK
<1>6. /\ h \in Content
      /\ \A q \in 1..ListLength : h[q] = IF q = p THEN b ELSE disk[Head][q]
  BY <1>3, <1>4, <1>5, BlockFacts, SlotFacts DEF TypeOK, Content
<1>7. CASE answer' = "eio"
  <2>1. /\ owned' = owned \ {b}
        /\ lost' = lost \cup {b}
        /\ disk' = [disk EXCEPT ![b] = Zeros] \/ disk' = disk
        /\ numFree' = numFree
    BY <1>2, <1>7 DEF WriteBoth
  <2> QED
    BY <2>1, <1>7, SlotFacts, FreeErrorStep
<1>8. CASE answer' # "eio"
  <2>1. /\ owned' = owned \ {b}
        /\ lost' = lost
        /\ numFree' = numFree + 1
        /\ disk' = [disk EXCEPT ![b] = Zeros, ![Head] = h]
        /\ answer' = "ok"
    BY <1>2, <1>3, <1>8 DEF WriteBoth
  <2>2. /\ TypeOK'
        /\ (owned \cap lost = {})'
        /\ FreeBlock' = FreeBlock \cup {b}
        /\ b \in DataBlock /\ b # Head /\ b # 0
        /\ b \notin FreeBlock
        /\ disk'[Head] = h
        /\ \A x \in DataBlock : x # b /\ x # Head => disk'[x] = disk[x]
    BY <2>1, <1>4, <1>6, SlotFacts, FreeFacts
  \* The chain stays; slot p of its head now names b.
  <2>3. 0 \in 0..n /\ s[0] = Head /\ \A i \in 0..n : s[i] = Head <=> i = 0
    BY <1>1 DEF Records
  <2>4. \A i \in 0..n : s[i] \in DataBlock /\ s[i] # b
    <3> SUFFICES ASSUME NEW i \in 0..n PROVE s[i] # b
      OBVIOUS
    <3>1. CASE i = 0
      BY <3>1, <2>2, <2>3
    <3>2. CASE i # 0
      <4>1. i \in 1..n
        BY <3>2
      <4> QED
        BY <4>1, <1>1, <2>2 DEF Records
    <3> QED
      BY <3>1, <3>2
  <2>5. ASSUME NEW i \in 0..n
        PROVE  /\ disk'[s[i]][1] = disk[s[i]][1]
               /\ \A q \in Slot : disk'[s[i]][q] = IF i = 0 /\ q = p
                                                   THEN b ELSE disk[s[i]][q]
    <3>1. CASE i = 0
      <4>1. 1 \in 1..ListLength /\ 1 # p /\ \A q \in Slot : q \in 1..ListLength
        BY SlotFacts
      <4>2. h[1] = disk[Head][1]
        BY <4>1, <1>6
      <4>3. \A q \in Slot : h[q] = IF q = p THEN b ELSE disk[Head][q]
        BY <4>1, <1>6
      <4> QED
        BY <3>1, <4>2, <4>3, <2>2, <2>3
    <3>2. CASE i # 0
      BY <3>2, <2>2, <2>3, <2>4
    <3> QED
      BY <3>1, <3>2
  \* b was in no slot.
  <2>6. \A i \in 0..n : \A q \in Slot : disk[s[i]][q] # b
    BY <1>1, <2>2 DEF Records
  <2>7. Records(n, s)'
    <3>1. \A i \in 0..n : disk'[s[i]][1] = IF i < n THEN s[i+1] ELSE 0
      BY <1>1, <2>5 DEF Records
    <3>2. \A i, j \in 0..n : s[i] = s[j] => i = j
      BY <1>1 DEF Records
    <3>3. \A i \in 1..n : s[i] \in FreeBlock'
      BY <1>1, <2>2 DEF Records
    <3>4. ASSUME NEW i \in 0..n, NEW q \in Slot, disk'[s[i]][q] # 0
          PROVE  /\ disk'[s[i]][q] \in FreeBlock'
                 /\ \A j \in 0..n : disk'[s[i]][q] # s[j]
      <4>1. CASE i = 0 /\ q = p
        BY <4>1, <2>2, <2>4, <2>5
      <4>2. CASE ~ (i = 0 /\ q = p)
        BY <4>2, <3>4, <1>1, <2>2, <2>5 DEF Records
      <4> QED
        BY <4>1, <4>2
    <3>5. ASSUME NEW i \in 0..n, NEW j \in 0..n, NEW q \in Slot, NEW r \in Slot,
                 disk'[s[i]][q] # 0, disk'[s[i]][q] = disk'[s[j]][r]
          PROVE  i = j /\ q = r
      <4>1. CASE i = 0 /\ q = p
        BY <4>1, <3>5, <2>5, <2>6
      <4>2. CASE j = 0 /\ r = p
        BY <4>2, <3>5, <2>5, <2>6
      <4>3. CASE ~ (i = 0 /\ q = p) /\ ~ (j = 0 /\ r = p)
        <5>1. disk[s[i]][q] # 0 /\ disk[s[i]][q] = disk[s[j]][r]
          BY <4>3, <3>5, <2>5
        <5> QED
          BY <5>1, <1>1 DEF Records
      <4> QED
        BY <4>1, <4>2, <4>3
    <3>6. ASSUME NEW x \in FreeBlock'
          PROVE  \/ \E i \in 1..n : s[i] = x
                 \/ \E i \in 0..n : \E q \in Slot : disk'[s[i]][q] = x
      <4>1. CASE x = b
        BY <4>1, <2>3, <2>5
      <4>2. CASE x \in FreeBlock /\ \E i \in 0..n : \E q \in Slot : disk[s[i]][q] = x
        <5>1. PICK i \in 0..n, q \in Slot : disk[s[i]][q] = x
          BY <4>2
        <5>2. x # 0
          BY <4>2, BlockFacts DEF FreeBlock
        <5>3. ~ (i = 0 /\ q = p)
          BY <5>1, <5>2, <1>2, <2>3
        <5>4. disk'[s[i]][q] = x
          BY <5>1, <5>3, <2>5
        <5> QED
          BY <5>4
      <4> QED
        BY <4>1, <4>2, <1>1, <2>2 DEF Records
    <3> QED
      BY <2>3, <3>1, <3>2, <3>3, <3>4, <3>5, <3>6 DEF Records
  <2>8. Counted(n, s)'
    <3>1. /\ IsFiniteSet(Listed(n, s))
          /\ Cardinality(Listed(n, s)) \in Nat
          /\ numFree >= Cardinality(Listed(n, s))
          /\ numFree \in Int
      BY <1>1, <1>4, ListedFinite DEF Counted, TypeOK
    <3>2. Listed(n, s)' \subseteq Listed(n, s) \cup {b}
      BY <2>5 DEF Listed
    <3>3. /\ IsFiniteSet(Listed(n, s) \cup {b})
          /\ Cardinality(Listed(n, s) \cup {b}) <= Cardinality(Listed(n, s)) + 1
      <4> DEFINE L == Listed(n, s)
      <4>1. IsFiniteSet(L) /\ Cardinality(L) \in Nat
        BY <3>1
      <4> HIDE DEF L
      <4>2. /\ IsFiniteSet(L \cup {b})
            /\ Cardinality(L \cup {b}) = IF b \in L THEN Cardinality(L) ELSE Cardinality(L) + 1
        BY <4>1, FS_AddElement
      <4>3. Cardinality(L \cup {b}) <= Cardinality(L) + 1
        BY <4>1, <4>2
      <4> QED
        BY <4>2, <4>3 DEF L
    <3>4. /\ IsFiniteSet(Listed(n, s)')
          /\ Cardinality(Listed(n, s)') <= Cardinality(Listed(n, s) \cup {b})
      BY <3>2, <3>3, FS_Subset
    <3>5. Cardinality(Listed(n, s)') \in Nat /\ Cardinality(Listed(n, s) \cup {b}) \in Nat
      BY <3>3, <3>4, FS_CardinalityType
    <3> QED
      BY <3>1, <3>3, <3>4, <3>5, <2>1 DEF Counted
  <2> QED
    BY <2>2, <2>7, <2>8 DEF IInv
<1> QED
  BY <1>7, <1>8

\* b becomes the second list block, with what the head held.
LEMMA FreeAsListBlockStep ==
    ASSUME IInv, NEW b \in owned, FreeAsListBlock(b)
    PROVE  IInv'
<1>0. PICK n \in Nat : \E s \in [0..n -> DataBlock] : Records(n, s) /\ Counted(n, s)
  BY DEF IInv
<1>1. PICK s \in [0..n -> DataBlock] : Records(n, s) /\ Counted(n, s)
  BY <1>0
<1>2. TypeOK /\ owned \cap lost = {}
  BY DEF IInv
<1>3. PICK h : h = [Zeros EXCEPT ![1] = b]
  OBVIOUS
<1>4. PICK c : c = disk[Head]
  OBVIOUS
<1>5. b \in Nat
  BY <1>2, BlockFacts DEF TypeOK
<1>6. /\ h \in Content
      /\ h[1] = b
      /\ \A p \in Slot : h[p] = 0
      /\ c \in Content
  <2>1. h \in Content /\ h[1] = b /\ \A p \in 1..ListLength : p # 1 => h[p] = 0
    BY <1>3, <1>5, SlotFacts DEF Content
  <2> QED
    BY <2>1, <1>2, <1>4, SlotFacts, BlockFacts DEF TypeOK
<1>7. WriteBoth(b, c, h)
  BY <1>3, <1>4 DEF FreeAsListBlock
<1>8. CASE answer' = "eio"
  <2>1. /\ owned' = owned \ {b}
        /\ lost' = lost \cup {b}
        /\ disk' = [disk EXCEPT ![b] = c] \/ disk' = disk
        /\ numFree' = numFree
    BY <1>7, <1>8 DEF WriteBoth
  <2> QED
    BY <2>1, <1>6, <1>8, FreeErrorStep
<1>9. CASE answer' # "eio"
  <2>1. /\ owned' = owned \ {b}
        /\ lost' = lost
        /\ numFree' = numFree + 1
        /\ disk' = [disk EXCEPT ![b] = c, ![Head] = h]
        /\ answer' = "ok"
    BY <1>7, <1>9 DEF WriteBoth
  <2>2. /\ TypeOK'
        /\ (owned \cap lost = {})'
        /\ FreeBlock' = FreeBlock \cup {b}
        /\ b \in DataBlock /\ b # Head /\ b # 0
        /\ b \notin FreeBlock
        /\ disk'[b] = c
        /\ disk'[Head] = h
        /\ \A x \in DataBlock : x # b /\ x # Head => disk'[x] = disk[x]
    BY <2>1, <1>2, <1>6, FreeFacts
  <2>3. 0 \in 0..n /\ s[0] = Head /\ \A i \in 0..n : s[i] = Head <=> i = 0
    BY <1>1 DEF Records
  <2>4. \A i \in 0..n : s[i] \in DataBlock /\ s[i] # b
    <3> SUFFICES ASSUME NEW i \in 0..n PROVE s[i] # b
      OBVIOUS
    <3>1. CASE i = 0
      BY <3>1, <2>2, <2>3
    <3>2. CASE i # 0
      <4>1. i \in 1..n
        BY <3>2
      <4> QED
        BY <4>1, <1>1, <2>2 DEF Records
    <3> QED
      BY <3>1, <3>2
  <2>5. \A i \in 0..n : \A p \in Slot : disk[s[i]][p] # b
    BY <1>1, <2>2 DEF Records
  \* The chain after the step: the head, then b, then the rest of the old chain.
  <2>6. PICK m : m = n + 1
    OBVIOUS
  <2>7. PICK t : t = [i \in 0..m |-> IF i = 0 THEN Head
                                     ELSE IF i = 1 THEN b ELSE s[i-1]]
    OBVIOUS
  <2>8. m \in Nat /\ n = m - 1 /\ 0 \in 0..m /\ 1 \in 0..m
    BY <2>6
  <2>9. t[0] = Head /\ t[1] = b /\ disk'[t[0]] = h
    BY <2>2, <2>7, <2>8
  <2>10. ASSUME NEW i \in 0..m, i # 0
         PROVE  /\ i - 1 \in 0..n
                /\ t[i] = IF i = 1 THEN b ELSE s[i-1]
                /\ t[i] \in DataBlock
                /\ t[i] # Head
                /\ disk'[t[i]] = disk[s[i-1]]
    <3>1. i - 1 \in 0..n
      BY <2>8, <2>10
    <3>2. t[i] = IF i = 1 THEN b ELSE s[i-1]
      BY <2>7, <2>10
    <3>3. CASE i = 1
      BY <3>1, <3>2, <3>3, <2>2, <2>3, <1>4
    <3>4. CASE i # 1
      <4>1. s[i-1] # Head /\ s[i-1] # b /\ s[i-1] \in DataBlock
        BY <3>1, <3>4, <2>3, <2>4, <2>10
      <4> QED
        BY <3>1, <3>2, <3>4, <4>1, <2>2
    <3> QED
      BY <3>1, <3>2, <3>3, <3>4
  <2>11. t \in [0..m -> DataBlock]
    <3>1. \A i \in 0..m : t[i] \in DataBlock
      BY <2>9, <2>10, BlockFacts
    <3> QED
      BY <3>1, <2>7
  <2>12. Records(m, t)'
    <3>1. ASSUME NEW i \in 0..m
          PROVE  disk'[t[i]][1] = IF i < m THEN t[i+1] ELSE 0
      <4>1. CASE i = 0
        BY <4>1, <2>8, <2>9, <1>6, <2>6
      <4>2. CASE i # 0
        <5>1. i - 1 \in 0..n /\ (i - 1) + 1 = i
          BY <2>8, <4>2
        <5>2. disk'[t[i]][1] = IF i - 1 < n THEN s[i] ELSE 0
          BY <5>1, <4>2, <1>1, <2>10 DEF Records
        <5>3. CASE i < m
          <6>1. i + 1 \in 0..m /\ i + 1 # 0 /\ i + 1 # 1 /\ (i + 1) - 1 = i /\ i - 1 < n
            BY <5>3, <4>2, <2>8
          <6>2. t[i+1] = s[i]
            BY <6>1, <2>10
          <6> QED
            BY <6>1, <6>2, <5>2, <5>3
        <5>4. CASE ~ (i < m)
          <6>1. ~ (i - 1 < n)
            BY <5>4, <2>8
          <6> QED
            BY <6>1, <5>2, <5>4
        <5> QED
          BY <5>3, <5>4
      <4> QED
        BY <4>1, <4>2
    <3>2. ASSUME NEW i \in 0..m, NEW j \in 0..m, t[i] = t[j]
          PROVE  i = j
      <4>1. CASE i = 0 \/ j = 0
        BY <4>1, <3>2, <2>9, <2>10
      <4>2. CASE i # 0 /\ j # 0
        <5>1. CASE i = 1 \/ j = 1
          BY <5>1, <4>2, <3>2, <2>4, <2>10
        <5>2. CASE i # 1 /\ j # 1
          <6>1. s[i-1] = s[j-1] /\ i - 1 \in 0..n /\ j - 1 \in 0..n
            BY <5>2, <4>2, <3>2, <2>10
          <6>2. i - 1 = j - 1
            BY <6>1, <1>1 DEF Records
          <6> QED
            BY <6>2
        <5> QED
          BY <5>1, <5>2
      <4> QED
        BY <4>1, <4>2
    <3>3. ASSUME NEW i \in 1..m PROVE t[i] \in FreeBlock'
      <4>1. i \in 0..m /\ i # 0
        BY <2>8
      <4>2. CASE i = 1
        BY <4>2, <2>2, <2>9
      <4>3. CASE i # 1
        <5>1. i - 1 \in 1..n
          BY <4>3, <2>8
        <5>2. s[i-1] \in FreeBlock
          BY <5>1, <1>1 DEF Records
        <5> QED
          BY <5>2, <4>1, <4>3, <2>2, <2>10
      <4> QED
        BY <4>2, <4>3
    \* The slots of the head are empty; the others are those of the old chain.
    <3>4. ASSUME NEW i \in 0..m, NEW p \in Slot, disk'[t[i]][p] # 0
          PROVE  i # 0 /\ i - 1 \in 0..n /\ disk'[t[i]][p] = disk[s[i-1]][p]
      BY <3>4, <2>9, <2>10, <1>6
    <3>5. ASSUME NEW i \in 0..m, NEW p \in Slot, disk'[t[i]][p] # 0
          PROVE  /\ disk'[t[i]][p] \in FreeBlock'
                 /\ \A j \in 0..m : disk'[t[i]][p] # t[j]
      <4>1. i - 1 \in 0..n /\ disk'[t[i]][p] = disk[s[i-1]][p]
        BY <3>4, <3>5
      <4>2. /\ disk[s[i-1]][p] \in FreeBlock
            /\ \A k \in 0..n : disk[s[i-1]][p] # s[k]
        BY <4>1, <3>5, <1>1 DEF Records
      <4>3. \A j \in 0..m : disk[s[i-1]][p] # t[j]
        <5> SUFFICES ASSUME NEW j \in 0..m PROVE disk[s[i-1]][p] # t[j]
          OBVIOUS
        <5>1. CASE j = 0
          BY <5>1, <4>2, <2>3, <2>9
        <5>2. CASE j # 0
          BY <5>2, <4>1, <4>2, <2>5, <2>10
        <5> QED
          BY <5>1, <5>2
      <4> QED
        BY <4>1, <4>2, <4>3, <2>2
    <3>6. ASSUME NEW i \in 0..m, NEW j \in 0..m, NEW p \in Slot, NEW q \in Slot,
                 disk'[t[i]][p] # 0, disk'[t[i]][p] = disk'[t[j]][q]
          PROVE  i = j /\ p = q
      <4>1. /\ i - 1 \in 0..n /\ disk'[t[i]][p] = disk[s[i-1]][p]
            /\ j - 1 \in 0..n /\ disk'[t[j]][q] = disk[s[j-1]][q]
        BY <3>4, <3>6
      <4>2. disk[s[i-1]][p] # 0 /\ disk[s[i-1]][p] = disk[s[j-1]][q]
        BY <4>1, <3>6
      <4>3. i - 1 = j - 1 /\ p = q
        BY <4>1, <4>2, <1>1 DEF Records
      <4> QED
        BY <4>3
    <3>7. ASSUME NEW x \in FreeBlock'
          PROVE  \/ \E i \in 1..m : t[i] = x
                 \/ \E i \in 0..m : \E p \in Slot : disk'[t[i]][p] = x
      <4>1. CASE x = b
        <5>1. 1 \in 1..m
          BY <2>6
        <5> QED
          BY <4>1, <5>1, <2>9
      <4>2. CASE \E k \in 1..n : s[k] = x
        <5>1. PICK k \in 1..n : s[k] = x
          BY <4>2
        <5>2. k + 1 \in 0..m /\ k + 1 \in 1..m /\ k + 1 # 0 /\ k + 1 # 1 /\ (k + 1) - 1 = k
          BY <2>6
        <5>3. t[k+1] = x
          BY <5>1, <5>2, <2>10
        <5> QED
          BY <5>2, <5>3
      <4>3. CASE \E k \in 0..n : \E p \in Slot : disk[s[k]][p] = x
        <5>1. PICK k \in 0..n, p \in Slot : disk[s[k]][p] = x
          BY <4>3
        <5>2. k + 1 \in 0..m /\ k + 1 # 0 /\ (k + 1) - 1 = k
          BY <2>6
        <5>3. disk'[t[k+1]][p] = x
          BY <5>1, <5>2, <2>10
        <5> QED
          BY <5>2, <5>3
      <4> QED
        BY <4>1, <4>2, <4>3, <1>1, <2>2 DEF Records
    <3> QED
      BY <2>9, <2>11, <3>1, <3>2, <3>3, <3>5, <3>6, <3>7 DEF Records
  <2>13. Counted(m, t)'
    <3>1. /\ IsFiniteSet(Listed(n, s))
          /\ Cardinality(Listed(n, s)) \in Nat
          /\ numFree >= Cardinality(Listed(n, s))
          /\ numFree \in Int
      BY <1>1, <1>2, ListedFinite DEF Counted, TypeOK
    <3>2. Listed(m, t)' \subseteq Listed(n, s)
      <4> SUFFICES ASSUME NEW i \in 0..m, NEW p \in Slot, disk'[t[i]][p] # 0
                   PROVE  disk'[t[i]][p] \in Listed(n, s)
        BY DEF Listed
      <4>1. i # 0
        BY <2>9, <1>6
      <4>2. i - 1 \in 0..n /\ disk'[t[i]][p] = disk[s[i-1]][p]
        BY <4>1, <2>10
      <4> QED
        BY <4>2 DEF Listed
    <3>3. IsFiniteSet(Listed(m, t)') /\ Cardinality(Listed(m, t)') <= Cardinality(Listed(n, s))
      BY <3>1, <3>2, FS_Subset
    <3>4. Cardinality(Listed(m, t)') \in Nat
      BY <3>3, FS_CardinalityType
    <3> QED
      BY <3>1, <3>3, <3>4, <2>1 DEF Counted
  <2> QED
    BY <2>2, <2>8, <2>11, <2>12, <2>13 DEF IInv
<1> QED
  BY <1>8, <1>9

-----------------------------------------------------------------------------
(* The theorems *)

LEMMA NextIInv == IInv /\ [Next]_vars => IInv'
<1> SUFFICES ASSUME IInv, [Next]_vars PROVE IInv'
  OBVIOUS
<1>1. CASE AllocListed
  BY <1>1, AllocListedStep
<1>2. CASE AllocListBlock
  BY <1>2, AllocListBlockStep
<1>3. CASE AllocFull \/ AllocDiskError
  <2>1. /\ UNCHANGED <<disk, numFree, owned, lost>>
        /\ answer' \in {"full", "eio"}
    BY <1>3 DEF AllocFull, AllocDiskError
  <2>2. TypeOK' /\ (owned \cap lost = {})' /\ FreeBlock' = FreeBlock
    BY <2>1 DEF IInv, TypeOK, FreeBlock
  <2> QED
    BY <2>1, <2>2, FreeListUndisturbed
<1>4. CASE Free
  <2>1. PICK b \in owned : FreeAsListBlock(b) \/ FreeIntoSlot(b)
    BY <1>4 DEF Free
  <2> QED
    BY <2>1, FreeAsListBlockStep, FreeIntoSlotStep
<1>5. CASE OwnerWrite
  BY <1>5, OwnerWriteStep
<1>6. CASE UNCHANGED vars
  <2>1. TypeOK' /\ (owned \cap lost = {})' /\ FreeBlock' = FreeBlock
    BY <1>6 DEF IInv, TypeOK, FreeBlock, vars
  <2>2. disk' = disk /\ numFree' = numFree
    BY <1>6 DEF vars
  <2> QED
    BY <2>1, <2>2, FreeListUndisturbed
<1> QED
  BY <1>1, <1>2, <1>3, <1>4, <1>5, <1>6 DEF Next, Alloc

\* In every reachable state some chain of list blocks records exactly the free
\* blocks, each once (data_block_alloc, data_block_free, create_free_blocks).
THEOREM FreeListInvariant == Spec => []IInv
BY InitIInv, NextIInv, PTL DEF Spec

\* The state keeps its types.
THEOREM TypeCorrect == Spec => []TypeOK
<1>1. IInv => TypeOK
  BY DEF IInv
<1> QED
  BY <1>1, FreeListInvariant, PTL

LEMMA IInvFresh == IInv => AllocIsFresh
<1> SUFFICES ASSUME IInv PROVE AllocIsFresh
  OBVIOUS
<1>1. PICK n \in Nat : \E s \in [0..n -> DataBlock] : Records(n, s)
  BY DEF IInv
<1>2. PICK s \in [0..n -> DataBlock] : Records(n, s)
  BY <1>1
<1>3. TypeOK
  BY DEF IInv
<1> QED
  BY <1>2, <1>3, RecordsFacts DEF AllocIsFresh

LEMMA IInvFull == IInv => FullMeansUsed
<1> SUFFICES ASSUME IInv, ~ HasListedBlock(disk[Head]), disk[Head][1] = 0,
                    NEW x \in FreeBlock
             PROVE  FALSE
  BY DEF FullMeansUsed
<1>1. PICK n \in Nat : \E s \in [0..n -> DataBlock] : Records(n, s)
  BY DEF IInv
<1>2. PICK s \in [0..n -> DataBlock] : Records(n, s)
  BY <1>1
<1>3. TypeOK
  BY DEF IInv
<1>4. /\ s[0] = Head
      /\ disk[Head][1] = IF n > 0 THEN s[1] ELSE 0
      /\ n > 0 => s[1] \in Block
      /\ x \in Block
  BY <1>2, <1>3, RecordsFacts
<1>5. n = 0
  BY <1>4, BlockFacts
<1>6. x # 0
  BY <1>4, BlockFacts
<1>7. \E i \in 0..n : \E p \in Slot : disk[s[i]][p] = x
  BY <1>2, <1>5 DEF Records
<1> QED
  BY <1>4, <1>5, <1>6, <1>7 DEF HasListedBlock

\* data_block_alloc never hands out a block that is in use.
THEOREM AllocFresh == Spec => []AllocIsFresh
BY IInvFresh, FreeListInvariant, PTL

\* data_block_alloc says "full" only when every block is in use or lost.
THEOREM FullOnlyWhenUsed == Spec => []FullMeansUsed
BY IInvFull, FreeListInvariant, PTL

-----------------------------------------------------------------------------
(* The chain that a walk along the pointers finds *)

\* The recursion that defines the walk has a solution.
LEMMA WalkRecursion ==
    ASSUME TypeOK
    PROVE  /\ Walk[0] = Head
           /\ \A i \in 1..NumBlocks :
                 Walk[i] = IF Walk[i-1] \in DataBlock THEN disk[Walk[i-1]][1] ELSE 0
<1> DEFINE next(v) == IF v \in DataBlock THEN disk[v][1] ELSE 0
           step == [i \in 1..NumBlocks |-> [v \in Nat |-> next(v)]]
           rec(w) == [i \in 0..NumBlocks |-> IF i = 0 THEN Head ELSE next(w[i-1])]
<1>1. \A v : next(v) \in Nat
  BY SlotFacts DEF TypeOK, Content
<1>2. step \in [1..NumBlocks -> [Nat -> Nat]]
  BY <1>1
<1>3. \E f \in [0..NumBlocks -> Nat] :
         f[0] = Head /\ \A i \in 1..NumBlocks : f[i] = step[i][f[i-1]]
  <2>1. step \in Steps(NumBlocks, Nat)
    BY <1>2 DEF Steps
  <2>2. NumBlocks \in Nat /\ Head \in Nat
    BY BlockFacts, GeometryAssumption
  <2> HIDE DEF step
  <2>3. \E f : IsRun(f, NumBlocks, Nat, Head, step)
    BY <2>1, <2>2, RecursionExists
  <2> QED
    BY <2>3 DEF IsRun
<1>4. PICK f \in [0..NumBlocks -> Nat] :
         f[0] = Head /\ \A i \in 1..NumBlocks : f[i] = step[i][f[i-1]]
  BY <1>3
<1>5. \A i \in 1..NumBlocks : i - 1 \in 0..NumBlocks /\ f[i-1] \in Nat
  BY GeometryAssumption
<1>6. \A i \in 1..NumBlocks : f[i] = next(f[i-1])
  <2> HIDE DEF next
  <2> QED
    BY <1>4, <1>5
<1> HIDE DEF next
<1>7. f = rec(f)
  BY <1>4, <1>6
<1>8. Walk = CHOOSE w : w = rec(w)
  BY DEF Walk, next
<1>9. Walk = rec(Walk)
  <2> HIDE DEF rec
  <2> QED
    BY <1>7, <1>8
<1>10. 0 \in 0..NumBlocks /\ 1..NumBlocks \subseteq 0..NumBlocks
  BY GeometryAssumption
<1>11. \A i \in 0..NumBlocks : Walk[i] = IF i = 0 THEN Head ELSE next(Walk[i-1])
  <2>1. \A w : \A i \in 0..NumBlocks :
          rec(w)[i] = IF i = 0 THEN Head ELSE next(w[i-1])
    OBVIOUS
  <2> HIDE DEF rec
  <2> QED
    BY <1>9, <2>1
<1>12. \A i \in 1..NumBlocks : Walk[i] = next(Walk[i-1])
  BY <1>10, <1>11
<1> QED
  BY <1>10, <1>11, <1>12 DEF next

\* A chain without a cycle is shorter than the disk.
LEMMA ChainFits ==
    ASSUME NEW n \in Nat, NEW s \in [0..n -> DataBlock], Records(n, s)
    PROVE  n < NumBlocks
<1>1. s \in Injection(0..n, DataBlock)
  BY DEF Records, Injection, IsInjective
<1>2. IsFiniteSet(DataBlock) /\ Cardinality(DataBlock) = NumBlocks - Head
  <2>1. PICK last : last = NumBlocks - 1
    OBVIOUS
  <2>2. Head \in Int /\ last \in Int /\ ~ (Head > last)
    BY <2>1, GeometryAssumption DEF Head
  <2>3. IsFiniteSet(Head..last) /\ Cardinality(Head..last) = last - Head + 1
    BY <2>2, FS_Interval
  <2> QED
    BY <2>1, <2>2, <2>3, GeometryAssumption DEF DataBlock
<1>3. Cardinality(0..n) = n + 1
  BY FS_Interval
<1>4. n + 1 <= NumBlocks - Head
  BY <1>1, <1>2, <1>3, FS_Injection
<1> QED
  BY <1>4, BlockFacts, GeometryAssumption

\* The walk finds every list block of the chain that records the free blocks,
\* and nothing after its end.
LEMMA WalkIsChain ==
    ASSUME TypeOK, NEW n \in Nat, NEW s \in [0..n -> DataBlock], Records(n, s)
    PROVE  /\ \A i \in 0..n : Walk[i] = s[i]
           /\ \A i \in n+1..NumBlocks : Walk[i] = 0
<1>1. n < NumBlocks
  BY ChainFits
<1> DEFINE G == {i \in 0..NumBlocks : Walk[i] = IF i <= n THEN s[i] ELSE 0}
<1>2. 0 \in G
  BY WalkRecursion, GeometryAssumption DEF Records
<1>3. ASSUME NEW i \in 0..NumBlocks, i \in G, i + 1 <= NumBlocks
      PROVE  i + 1 \in G
  <2>1. i + 1 \in 1..NumBlocks /\ (i + 1) - 1 = i /\ i + 1 \in 0..NumBlocks
    BY <1>3
  <2>2. Walk[i+1] = IF Walk[i] \in DataBlock THEN disk[Walk[i]][1] ELSE 0
    BY <2>1, WalkRecursion
  <2>3. CASE i <= n
    <3>1. i \in 0..n /\ Walk[i] = s[i] /\ s[i] \in DataBlock
      BY <1>3, <2>3
    <3>2. disk[s[i]][1] = IF i < n THEN s[i+1] ELSE 0
      BY <3>1 DEF Records
    <3>3. i < n <=> i + 1 <= n
      OBVIOUS
    <3> QED
      BY <2>1, <2>2, <3>1, <3>2, <3>3
  <2>4. CASE ~ (i <= n)
    <3>1. Walk[i] = 0 /\ ~ (i + 1 <= n)
      BY <1>3, <2>4
    <3> QED
      BY <2>1, <2>2, <3>1, BlockFacts
  <2> QED
    BY <2>3, <2>4
<1>4. 0..NumBlocks \subseteq G
  <2> HIDE DEF G
  <2> QED
    BY <1>2, <1>3, GeometryAssumption, IntervalInduction
<1>5. \A i \in 0..n : i \in 0..NumBlocks /\ i <= n
  BY <1>1, GeometryAssumption
<1>6. \A i \in n+1..NumBlocks : i \in 0..NumBlocks /\ ~ (i <= n)
  BY <1>1, GeometryAssumption
<1> QED
  BY <1>4, <1>5, <1>6

\* So the chain that the walk finds is that chain.
LEMMA ChainIsRecorded ==
    ASSUME TypeOK, NEW n \in Nat, NEW s \in [0..n -> DataBlock], Records(n, s)
    PROVE  ChainLength = n /\ Chain = s
<1>1. n < NumBlocks
  BY ChainFits
<1>2. {i \in 1..NumBlocks : Walk[i] # 0} = 1..n
  <2>1. ASSUME NEW i \in 1..NumBlocks PROVE Walk[i] # 0 <=> i <= n
    <3>1. CASE i <= n
      BY <3>1, WalkIsChain, BlockFacts
    <3>2. CASE ~ (i <= n)
      <4>1. i \in n+1..NumBlocks
        BY <3>2
      <4> QED
        BY <4>1, <3>2, WalkIsChain
    <3> QED
      BY <3>1, <3>2
  <2>2. \A i \in 1..n : i \in 1..NumBlocks
    BY <1>1, GeometryAssumption
  <2> QED
    BY <2>1, <2>2
<1>3. ChainLength = n
  <2>1. Cardinality(1..n) = n
    BY FS_Interval
  <2> QED
    BY <1>2, <2>1 DEF ChainLength
<1>4. Chain = [i \in 0..n |-> Walk[i]]
  BY <1>3 DEF Chain
<1>5. Chain = [i \in 0..n |-> s[i]]
  BY <1>4, WalkIsChain
<1> QED
  BY <1>3, <1>5

LEMMA IInvChain == IInv => FreeListSound /\ CounterNeverWraps
<1> SUFFICES ASSUME IInv PROVE FreeListSound /\ CounterNeverWraps
  OBVIOUS
<1>1. PICK n \in Nat : \E s \in [0..n -> DataBlock] : Records(n, s) /\ Counted(n, s)
  BY DEF IInv
<1>2. PICK s \in [0..n -> DataBlock] : Records(n, s) /\ Counted(n, s)
  BY <1>1
<1>3. ChainLength = n /\ Chain = s
  BY <1>2, ChainIsRecorded DEF IInv
<1>4. FreeListSound
  BY <1>2, <1>3 DEF FreeListSound
<1>5. ListedBlocks = Listed(n, s)
  BY <1>3 DEF ListedBlocks, Listed
<1> QED
  BY <1>2, <1>4, <1>5 DEF Counted, CounterNeverWraps

\* After any calls and disk errors the list blocks on disk, followed from the
\* head, record each free block exactly once and no block that is in use.
THEOREM FreeListIsSound == Spec => []FreeListSound
BY IInvChain, FreeListInvariant, PTL

\* superblock.num_free_blocks never wraps below zero: it is at least the number
\* of block ids in the list blocks.
THEOREM CounterSound == Spec => []CounterNeverWraps
BY IInvChain, FreeListInvariant, PTL

-----------------------------------------------------------------------------
(* Owners keep their data *)

LEMMA HandOutKeeps ==
    ASSUME TypeOK, owned \cap lost = {},
           NEW b \in FreeBlock, NEW d \in [DataBlock -> Content], HandOut(b, d),
           \A x \in Block : x # b => d[x] = disk[x]
    PROVE  \A x \in owned' : disk'[x] = IF x \in owned THEN disk[x] ELSE Zeros
<1>1. \A x \in owned : x \in Block /\ x \in DataBlock /\ x # b
  BY BlockFacts DEF TypeOK, FreeBlock
<1>2. b \in DataBlock /\ b \notin owned
  BY BlockFacts DEF FreeBlock
<1> QED
  BY <1>1, <1>2 DEF HandOut

LEMMA WriteBothKeeps ==
    ASSUME TypeOK, NEW b \in owned, NEW c \in Content, NEW h \in Content,
           WriteBoth(b, c, h)
    PROVE  \A x \in owned' : disk'[x] = IF x \in owned THEN disk[x] ELSE Zeros
<1> SUFFICES ASSUME NEW x \in owned, x # b PROVE disk'[x] = disk[x]
  BY DEF WriteBoth
<1>1. x \in DataBlock /\ x # Head
  BY BlockFacts DEF TypeOK
<1> QED
  BY <1>1 DEF WriteBoth, TypeOK

\* No call of the allocator changes a block that another caller holds, and a
\* block is zeroed when it is handed out.
THEOREM DataKept == Spec => OwnersKeepTheirData
<1>1. ASSUME IInv, [Next]_vars PROVE [KeepsData]_vars
  <2>1. TypeOK /\ owned \cap lost = {}
    BY <1>1 DEF IInv
  <2>2. PICK n \in Nat : \E s \in [0..n -> DataBlock] : Records(n, s)
    BY <1>1 DEF IInv
  <2>3. PICK s \in [0..n -> DataBlock] : Records(n, s)
    BY <2>2
  <2>4. disk[Head] \in Content /\ \A x \in Block : x # Head
    BY <2>1, BlockFacts DEF TypeOK
  <2>5. CASE AllocListed
    <3>1. PICK p \in Slot :
             /\ disk[Head][p] # 0
             /\ HandOut(disk[Head][p], [disk EXCEPT ![Head][p] = 0])
      BY <2>5 DEF AllocListed
    <3>2. PICK b : b = disk[Head][p]
      OBVIOUS
    <3>3. PICK d : d = [disk EXCEPT ![Head][p] = 0]
      OBVIOUS
    <3>4. b \in FreeBlock
      BY <2>1, <2>3, <3>1, <3>2, RecordsFacts
    <3>5. d \in [DataBlock -> Content] /\ \A x \in Block : d[x] = disk[x]
      BY <2>1, <2>4, <3>3, BlockFacts, SlotFacts DEF TypeOK, Content
    <3> QED
      BY <2>1, <3>1, <3>2, <3>3, <3>4, <3>5, HandOutKeeps DEF KeepsData
  <2>6. CASE AllocListBlock
    <3>1. PICK b : b = disk[Head][1]
      OBVIOUS
    <3>2. PICK d : d = [disk EXCEPT ![Head] = disk[b]]
      OBVIOUS
    <3>3. b # 0 /\ b \in DataBlock /\ HandOut(b, d)
      BY <2>6, <3>1, <3>2 DEF AllocListBlock
    <3>4. b \in FreeBlock
      BY <2>1, <2>3, <3>1, <3>3, RecordsFacts
    <3>5. d \in [DataBlock -> Content] /\ \A x \in Block : d[x] = disk[x]
      BY <2>1, <2>4, <3>2, <3>3, BlockFacts DEF TypeOK
    <3> QED
      BY <2>1, <3>3, <3>4, <3>5, HandOutKeeps DEF KeepsData
  <2>7. CASE Free
    <3>1. PICK b \in owned : FreeAsListBlock(b) \/ FreeIntoSlot(b)
      BY <2>7 DEF Free
    <3>2. b \in Nat
      BY <2>1, BlockFacts DEF TypeOK
    <3>3. CASE FreeAsListBlock(b)
      <4>1. [Zeros EXCEPT ![1] = b] \in Content
        BY <3>2, SlotFacts DEF Content
      <4> QED
        BY <2>1, <2>4, <3>3, <4>1, WriteBothKeeps
           DEF FreeAsListBlock, KeepsData
    <3>4. CASE FreeIntoSlot(b)
      <4>1. PICK p \in Slot : WriteBoth(b, Zeros, [disk[Head] EXCEPT ![p] = b])
        BY <3>4 DEF FreeIntoSlot
      <4>2. [disk[Head] EXCEPT ![p] = b] \in Content
        BY <2>4, <3>2, SlotFacts DEF Content
      <4> QED
        BY <2>1, <4>1, <4>2, SlotFacts, WriteBothKeeps DEF KeepsData
    <3> QED
      BY <3>1, <3>3, <3>4
  <2>8. CASE AllocFull \/ AllocDiskError \/ OwnerWrite \/ UNCHANGED vars
    BY <2>8 DEF AllocFull, AllocDiskError, OwnerWrite, vars, KeepsData
  <2> QED
    BY <1>1, <2>5, <2>6, <2>7, <2>8 DEF Next, Alloc, KeepsData
<1> QED
  BY <1>1, FreeListInvariant, PTL DEF Spec, OwnersKeepTheirData

-----------------------------------------------------------------------------
(* The allocator implements the abstract pool *)

LEMMA HandOutPool ==
    ASSUME TypeOK, NEW b \in FreeBlock, NEW d, HandOut(b, d)
    PROVE  Pool!PoolNext
<1>1. b \in Block /\ b \notin owned /\ b \notin lost
  BY DEF FreeBlock
<1>2. CASE answer' = "ok"
  <2>1. owned' = owned \cup {b} /\ lost' = lost
    BY <1>2 DEF HandOut
  <2>2. FreeBlock' = FreeBlock \ {b}
    BY <2>1 DEF FreeBlock
  <2> QED
    BY <1>2, <2>1, <2>2 DEF Pool!PoolNext, Pool!PoolAlloc
<1>3. CASE answer' # "ok"
  <2>1. owned' = owned /\ lost' = lost \cup {b} /\ answer' = "eio"
    BY <1>3 DEF HandOut
  <2>2. FreeBlock' = FreeBlock \ {b}
    BY <2>1 DEF FreeBlock
  <2> QED
    BY <2>1, <2>2 DEF Pool!PoolNext, Pool!PoolError
<1> QED
  BY <1>2, <1>3

LEMMA WriteBothPool ==
    ASSUME TypeOK, owned \cap lost = {}, NEW b \in owned, NEW c, NEW h,
           WriteBoth(b, c, h)
    PROVE  Pool!PoolNext
<1>1. b \in Block /\ b \notin lost
  BY DEF TypeOK
<1>2. CASE answer' = "ok"
  <2>1. owned' = owned \ {b} /\ lost' = lost
    BY <1>2 DEF WriteBoth
  <2>2. FreeBlock' = FreeBlock \cup {b}
    BY <1>1, <2>1 DEF FreeBlock
  <2> QED
    BY <1>2, <2>1, <2>2 DEF Pool!PoolNext, Pool!PoolFree
<1>3. CASE answer' # "ok"
  <2>1. owned' = owned \ {b} /\ lost' = lost \cup {b} /\ answer' = "eio"
    BY <1>3 DEF WriteBoth
  <2>2. FreeBlock' = FreeBlock
    BY <1>1, <2>1 DEF FreeBlock
  <2> QED
    BY <2>1, <2>2 DEF Pool!PoolNext, Pool!PoolError
<1> QED
  BY <1>2, <1>3

\* Refinement: FreeBlocks implements BlockPool, the free blocks being those
\* that no caller holds and no error lost.
THEOREM ImplementsPool == Spec => PoolSpec
<1>1. Init => Pool!PoolInit
  BY DEF Init, Pool!PoolInit, FreeBlock
<1>2. ASSUME IInv, [Next]_vars PROVE [Pool!PoolNext]_(Pool!poolVars)
  <2>1. TypeOK /\ owned \cap lost = {}
    BY <1>2 DEF IInv
  <2>2. AllocIsFresh /\ FullMeansUsed
    BY <1>2, IInvFresh, IInvFull
  <2>3. CASE AllocListed
    <3>1. PICK p \in Slot :
             /\ disk[Head][p] # 0
             /\ HandOut(disk[Head][p], [disk EXCEPT ![Head][p] = 0])
      BY <2>3 DEF AllocListed
    <3>2. disk[Head][p] \in FreeBlock
      BY <2>2, <3>1 DEF AllocIsFresh
    <3> QED
      BY <2>1, <3>1, <3>2, HandOutPool
  <2>4. CASE AllocListBlock
    <3>1. /\ disk[Head][1] # 0
          /\ HandOut(disk[Head][1], [disk EXCEPT ![Head] = disk[disk[Head][1]]])
      BY <2>4 DEF AllocListBlock
    <3>2. disk[Head][1] \in FreeBlock
      BY <2>2, <3>1 DEF AllocIsFresh
    <3> QED
      BY <2>1, <3>1, <3>2, HandOutPool
  <2>5. CASE AllocFull
    <3>1. FreeBlock = {} /\ FreeBlock' = FreeBlock
      BY <2>2, <2>5 DEF AllocFull, FullMeansUsed, FreeBlock
    <3> QED
      BY <2>5, <3>1 DEF AllocFull, Pool!PoolNext, Pool!PoolFull
  <2>6. CASE AllocDiskError
    <3>1. FreeBlock' = FreeBlock
      BY <2>6 DEF AllocDiskError, FreeBlock
    <3> QED
      BY <2>6, <3>1 DEF AllocDiskError, Pool!PoolNext, Pool!PoolError
  <2>7. CASE Free
    <3>1. PICK b \in owned : FreeAsListBlock(b) \/ FreeIntoSlot(b)
      BY <2>7 DEF Free
    <3>2. CASE FreeAsListBlock(b)
      BY <2>1, <3>2, WriteBothPool DEF FreeAsListBlock
    <3>3. CASE FreeIntoSlot(b)
      BY <2>1, <3>3, WriteBothPool DEF FreeIntoSlot
    <3> QED
      BY <3>1, <3>2, <3>3
  <2>8. CASE OwnerWrite \/ UNCHANGED vars
    BY <2>8 DEF OwnerWrite, vars, Pool!poolVars, FreeBlock
  <2> QED
    BY <1>2, <2>3, <2>4, <2>5, <2>6, <2>7, <2>8 DEF Next, Alloc
<1> QED
  BY <1>1, <1>2, FreeListInvariant, PTL DEF Spec, PoolSpec, Pool!PoolSpec

=============================================================================
