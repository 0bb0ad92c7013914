--------------------------- MODULE BlockMap_proofs ---------------------------
(***************************************************************************)
(* Proofs about BlockMap for every number of direct blocks, length of a    *)
(* list and size of the disk: the map of a file stays a tree through any   *)
(* writes, also those that fail half way; no write moves or drops a block  *)
(* that is in the map; and set_block_id enters a block where get_block_id  *)
(* finds it.                                                               *)
(*                                                                         *)
(* A write is followed one call of set_block_id at a time, and a call one  *)
(* pointer at a time: a block is taken from the free ones, and a pointer   *)
(* to it is entered at a place that holds none.  Between the two the block *)
(* is pending.                                                             *)
(***************************************************************************)
EXTENDS BlockMap, NatFacts, FiniteSetTheorems, TLAPS

-----------------------------------------------------------------------------
(* The map of an inode ino over the contents l of the blocks *)

Id == Block \cup {None}

Place == 0..ListLength - 1

ListType == [Place -> Id]

InodeType ==
    [direct : [0..NumDirect - 1 -> Id], single : Id, double : Id, triple : Id,
     numBlocks : Nat]

Work ==
    [ino : InodeType, list : [Block -> ListType], free : SUBSET Block,
     ok : BOOLEAN, errno : {"ok", "EDQUOT", "EIO"}]

\* The pointers in the inode, the direct ones first.
TopPlace == 0..NumDirect + 2

Top(ino, k) ==
    IF k < NumDirect THEN ino.direct[k]
    ELSE IF k = NumDirect THEN ino.single
    ELSE IF k = NumDirect + 1 THEN ino.double
    ELSE ino.triple

ListedIn(l, b) == {l[b][k] : k \in Place} \ {None}

TriplesOf(ino) == {ino.triple} \ {None}

DoublesOf(ino, l) ==
    ({ino.double} \ {None}) \cup UNION {ListedIn(l, b) : b \in TriplesOf(ino)}

SinglesOf(ino, l) ==
    ({ino.single} \ {None}) \cup UNION {ListedIn(l, b) : b \in DoublesOf(ino, l)}

ListBlocks(ino, l) == SinglesOf(ino, l) \cup DoublesOf(ino, l) \cup TriplesOf(ino)

\* A pointer to block y is at place k of list block x, or of the inode (None).
IsPointer(ino, l, x, k, y) ==
    /\ y # None
    /\ \/ x = None /\ k \in TopPlace /\ y = Top(ino, k)
       \/ x \in ListBlocks(ino, l) /\ k \in Place /\ y = l[x][k]

InMap(ino, l, y) == \E x, k : IsPointer(ino, l, x, k, y)

Tree(ino, l) ==
    \A x, k, x2, k2, y :
        IsPointer(ino, l, x, k, y) /\ IsPointer(ino, l, x2, k2, y) => x = x2 /\ k = k2

NoneFree(ino, l, f) == \A y : InMap(ino, l, y) => y \notin f

\* What holds of the work in progress.
Sound(w) ==
    /\ w \in Work
    /\ Tree(w.ino, w.list)
    /\ NoneFree(w.ino, w.list, w.free)

\* Block b is taken and no pointer leads to it yet.
Pending(w, b) ==
    /\ b \in Block
    /\ b \notin w.free
    /\ ~ InMap(w.ino, w.list, b)
    /\ w.list[b] = EmptyList

\* From w to v no pointer of the inode, and none in a block that is not free,
\* is dropped or changed.
Keeps(w, v) ==
    /\ \A k \in TopPlace : Top(w.ino, k) # None => Top(v.ino, k) = Top(w.ino, k)
    /\ v.free \subseteq w.free
    /\ \A x \in Block \ w.free : \A k \in Place :
          w.list[x][k] # None => v.list[x][k] = w.list[x][k]

\* Block y is free or in the map.
Held(w, y) == y \in w.free \/ InMap(w.ino, w.list, y)

HoldsAll(w, v) == \A y : Held(w, y) => Held(v, y)

-----------------------------------------------------------------------------
(* The geometry of the map *)

LEMMA MapFacts ==
    /\ NumDirect \in Nat
    /\ ListLength \in Nat \ {0}
    /\ Block \subseteq Nat
    /\ None \notin Block
    /\ None \in Id
    /\ EmptyList \in ListType
    /\ \A k \in Place : EmptyList[k] = None
BY MapAssumption DEF Block, None, Id, EmptyList, ListType, Place

LEMMA Bases ==
    /\ SingleBase \in Nat /\ SingleBase = NumDirect
    /\ DoubleBase \in Nat /\ DoubleBase = SingleBase + ListLength
    /\ TripleBase \in Nat /\ TripleBase = DoubleBase + ListLength * ListLength
    /\ EndOfMap \in Nat /\ EndOfMap = TripleBase + ListLength * ListLength * ListLength
    /\ ListLength * ListLength \in Nat \ {0}
    /\ ListLength * ListLength * ListLength \in Nat
    /\ SingleBase <= DoubleBase /\ DoubleBase <= TripleBase /\ TripleBase <= EndOfMap
<1>1. ListLength \in Nat /\ ListLength >= 1
  BY MapAssumption
<1>2. PICK span \in Nat : span = ListLength * ListLength
  BY <1>1, ProductNat
<1>3. 1 * ListLength <= ListLength * ListLength
  BY <1>1, ProductMonotone
<1>4. span >= 1
  BY <1>1, <1>2, <1>3
<1>5. PICK cube \in Nat : cube = span * ListLength
  BY <1>1, ProductNat
<1>6. ListLength * ListLength * ListLength = cube
  BY <1>2, <1>5
<1> QED
  BY <1>1, <1>2, <1>4, <1>6, MapAssumption
     DEF SingleBase, DoubleBase, TripleBase, EndOfMap

\* The place in a double block, and that in the single block below it.
LEMMA PlaceInDouble ==
    ASSUME NEW i \in Nat, i < ListLength * ListLength
    PROVE  i \div ListLength \in Place /\ i % ListLength \in Place
<1>1. ListLength \in Nat \ {0}
  BY MapAssumption
<1>2. i \div ListLength \in Nat /\ i % ListLength \in 0..ListLength-1
  BY <1>1, DivMod
<1>3. i \div ListLength < ListLength
  BY <1>1, DivBelow
<1> QED
  BY <1>1, <1>2, <1>3 DEF Place

LEMMA PlaceInTriple ==
    ASSUME NEW i \in Nat, i < ListLength * ListLength * ListLength
    PROVE  /\ i \div (ListLength * ListLength) \in Place
           /\ i % (ListLength * ListLength) \in Nat
           /\ i % (ListLength * ListLength) < ListLength * ListLength
<1>1. ListLength \in Nat \ {0}
  BY MapAssumption
<1>2. PICK span : span = ListLength * ListLength
  OBVIOUS
<1>3. span \in Nat \ {0}
  BY <1>2, Bases
<1>4. i < ListLength * span
  <2>1. ListLength * ListLength * ListLength = ListLength * span
    BY <1>1, <1>2
  <2> QED
    BY <2>1
<1>5. i \div span \in Nat /\ i % span \in 0..span-1
  BY <1>3, DivMod
<1>6. i \div span < ListLength
  BY <1>1, <1>3, <1>4, DivBelow
<1>7. i \div span \in Place
  BY <1>1, <1>5, <1>6 DEF Place
<1>8. i % span \in Nat /\ i % span < span
  BY <1>3, <1>5
<1> QED
  BY <1>2, <1>7, <1>8

\* The block that an allocation takes is a free one.
LEMMA TakenIsFree ==
    ASSUME NEW w \in Work, w.free # {}
    PROVE  Taken(w) \in w.free /\ Taken(w) \in Block
<1> DEFINE S == w.free
<1>1. S \in SUBSET Block
  BY DEF Work
<1>2. S \in SUBSET (0..NumBlocks)
  BY <1>1, MapAssumption DEF Block
<1> HIDE DEF S
<1>3. \E k \in S : \A j \in S : k <= j
  BY <1>2, LeastInInterval, MapAssumption DEF S
<1>4. Min(S) \in S
  BY <1>3 DEF Min
<1> QED
  BY <1>1, <1>4 DEF Taken, S

-----------------------------------------------------------------------------
(* List blocks and pointers *)

LEMMA TopTyped ==
    ASSUME NEW ino \in InodeType, NEW k \in TopPlace
    PROVE  Top(ino, k) \in Id
BY MapFacts DEF InodeType, Top, TopPlace

LEMMA PointerTyped ==
    ASSUME NEW ino \in InodeType, NEW l \in [Block -> ListType]
    PROVE  /\ ListBlocks(ino, l) \subseteq Block
           /\ \A x, k, y : IsPointer(ino, l, x, k, y) => y \in Block
           /\ \A y : InMap(ino, l, y) => y \in Block
<1>1. \A x \in Block : ListedIn(l, x) \subseteq Block
  BY DEF ListedIn, ListType, Id
<1>2. TriplesOf(ino) \subseteq Block
  BY DEF TriplesOf, InodeType, Id
<1>3. DoublesOf(ino, l) \subseteq Block
  BY <1>1, <1>2 DEF DoublesOf, InodeType, Id
<1>4. SinglesOf(ino, l) \subseteq Block
  BY <1>1, <1>3 DEF SinglesOf, InodeType, Id
<1>5. ListBlocks(ino, l) \subseteq Block
  BY <1>2, <1>3, <1>4 DEF ListBlocks
<1>6. ASSUME NEW x, NEW k, NEW y, IsPointer(ino, l, x, k, y)
      PROVE  y \in Block
  <2>1. CASE x = None /\ k \in TopPlace /\ y = Top(ino, k)
    BY <1>6, <2>1, TopTyped DEF IsPointer, Id
  <2>2. CASE x \in ListBlocks(ino, l) /\ k \in Place /\ y = l[x][k]
    BY <1>5, <1>6, <2>2 DEF IsPointer, ListType, Id
  <2> QED
    BY <1>6, <2>1, <2>2 DEF IsPointer
<1> QED
  BY <1>5, <1>6 DEF InMap

\* Each list block is in the map.
LEMMA ListBlocksInMap ==
    ASSUME NEW ino \in InodeType, NEW l \in [Block -> ListType],
           NEW y \in ListBlocks(ino, l)
    PROVE  InMap(ino, l, y)
<1>1. NumDirect \in Nat /\ NumDirect \in TopPlace /\ NumDirect + 1 \in TopPlace
      /\ NumDirect + 2 \in TopPlace
  BY MapFacts DEF TopPlace
<1>2. /\ Top(ino, NumDirect) = ino.single
      /\ Top(ino, NumDirect + 1) = ino.double
      /\ Top(ino, NumDirect + 2) = ino.triple
  BY <1>1 DEF Top
<1>3. y \in {ino.single, ino.double, ino.triple} /\ y # None => InMap(ino, l, y)
  BY <1>1, <1>2 DEF InMap, IsPointer
<1>4. ASSUME NEW x \in ListBlocks(ino, l), y \in ListedIn(l, x)
      PROVE  InMap(ino, l, y)
  <2>1. PICK k \in Place : y = l[x][k] /\ y # None
    BY <1>4 DEF ListedIn
  <2> QED
    BY <2>1 DEF InMap, IsPointer
<1>5. CASE y \in TriplesOf(ino)
  BY <1>3, <1>5 DEF TriplesOf
<1>6. CASE y \in DoublesOf(ino, l)
  <2>1. (y # None /\ y = ino.double) \/ \E x \in TriplesOf(ino) : y \in ListedIn(l, x)
    BY <1>6 DEF DoublesOf
  <2> QED
    BY <2>1, <1>3, <1>4 DEF ListBlocks
<1>7. CASE y \in SinglesOf(ino, l)
  <2>1. (y # None /\ y = ino.single) \/ \E x \in DoublesOf(ino, l) : y \in ListedIn(l, x)
    BY <1>7 DEF SinglesOf
  <2> QED
    BY <2>1, <1>3, <1>4 DEF ListBlocks
<1> QED
  BY <1>5, <1>6, <1>7 DEF ListBlocks

LEMMA SoundFacts ==
    ASSUME NEW w, Sound(w)
    PROVE  /\ w.ino \in InodeType /\ w.list \in [Block -> ListType]
           /\ w.free \subseteq Block
           /\ ListBlocks(w.ino, w.list) \subseteq Block
           /\ \A x \in ListBlocks(w.ino, w.list) :
                 x \notin w.free /\ InMap(w.ino, w.list, x)
           /\ \A y : InMap(w.ino, w.list, y) => y \in Block \ w.free
<1>1. w.ino \in InodeType /\ w.list \in [Block -> ListType] /\ w.free \subseteq Block
  BY DEF Sound, Work
<1>2. ListBlocks(w.ino, w.list) \subseteq Block
  BY <1>1, PointerTyped
<1>3. \A x \in ListBlocks(w.ino, w.list) : InMap(w.ino, w.list, x)
  BY <1>1, ListBlocksInMap
<1>4. \A y : InMap(w.ino, w.list, y) => y \in Block
  BY <1>1, PointerTyped
<1> QED
  BY <1>1, <1>2, <1>3, <1>4 DEF Sound, NoneFree

-----------------------------------------------------------------------------
(* What Keeps keeps *)

LEMMA KeepsItself ==
    ASSUME NEW w \in Work
    PROVE  Keeps(w, w)
BY DEF Keeps

LEMMA KeepsTransitive ==
    ASSUME NEW w, NEW v, NEW u, Keeps(w, v), Keeps(v, u)
    PROVE  Keeps(w, u)
<1>1. \A k \in TopPlace : Top(w.ino, k) # None => Top(u.ino, k) = Top(w.ino, k)
  BY DEF Keeps
<1>2. u.free \subseteq w.free
  BY DEF Keeps
<1>3. ASSUME NEW x \in Block \ w.free, NEW k \in Place, w.list[x][k] # None
      PROVE  u.list[x][k] = w.list[x][k]
  <2>1. x \in Block \ v.free
    BY DEF Keeps
  <2>2. v.list[x][k] = w.list[x][k]
    BY <1>3 DEF Keeps
  <2> QED
    BY <1>3, <2>1, <2>2 DEF Keeps
<1> QED
  BY <1>1, <1>2, <1>3 DEF Keeps

\* The inode's pointers to list blocks.
LEMMA KeepsTops ==
    ASSUME NEW w, NEW v, Keeps(w, v)
    PROVE  /\ w.ino.single # None => v.ino.single = w.ino.single
           /\ w.ino.double # None => v.ino.double = w.ino.double
           /\ w.ino.triple # None => v.ino.triple = w.ino.triple
           /\ \A k \in 0..NumDirect - 1 :
                 w.ino.direct[k] # None => v.ino.direct[k] = w.ino.direct[k]
<1>1. NumDirect \in Nat /\ NumDirect \in TopPlace /\ NumDirect + 1 \in TopPlace
      /\ NumDirect + 2 \in TopPlace
  BY MapFacts DEF TopPlace
<1>2. \A ino : /\ Top(ino, NumDirect) = ino.single
               /\ Top(ino, NumDirect + 1) = ino.double
               /\ Top(ino, NumDirect + 2) = ino.triple
  BY <1>1 DEF Top
<1>3. \A ino : \A k \in 0..NumDirect - 1 : k \in TopPlace /\ Top(ino, k) = ino.direct[k]
  BY <1>1 DEF Top, TopPlace
<1> QED
  BY <1>1, <1>2, <1>3 DEF Keeps

\* What is reached from the inode stays reached, by the same pointers.
LEMMA KeepsPointers ==
    ASSUME NEW w, NEW v, Sound(w), Keeps(w, v)
    PROVE  /\ TriplesOf(w.ino) \subseteq TriplesOf(v.ino)
           /\ DoublesOf(w.ino, w.list) \subseteq DoublesOf(v.ino, v.list)
           /\ SinglesOf(w.ino, w.list) \subseteq SinglesOf(v.ino, v.list)
           /\ ListBlocks(w.ino, w.list) \subseteq ListBlocks(v.ino, v.list)
           /\ \A x, k, y : IsPointer(w.ino, w.list, x, k, y) => IsPointer(v.ino, v.list, x, k, y)
           /\ \A y : InMap(w.ino, w.list, y) => InMap(v.ino, v.list, y)
<1>1. \A x \in ListBlocks(w.ino, w.list) : x \in Block \ w.free
  BY SoundFacts
<1>2. \A x \in ListBlocks(w.ino, w.list) : \A k \in Place :
        w.list[x][k] # None => v.list[x][k] = w.list[x][k]
  BY <1>1 DEF Keeps
<1>3. \A x \in ListBlocks(w.ino, w.list) : ListedIn(w.list, x) \subseteq ListedIn(v.list, x)
  BY <1>2 DEF ListedIn
<1>4. TriplesOf(w.ino) \subseteq TriplesOf(v.ino)
  BY KeepsTops DEF TriplesOf
<1>5. DoublesOf(w.ino, w.list) \subseteq DoublesOf(v.ino, v.list)
  <2>1. \A x \in TriplesOf(w.ino) : ListedIn(w.list, x) \subseteq ListedIn(v.list, x)
    BY <1>3 DEF ListBlocks
  <2>2. {w.ino.double} \ {None} \subseteq {v.ino.double} \ {None}
    BY KeepsTops
  <2> QED
    BY <1>4, <2>1, <2>2 DEF DoublesOf
<1>6. SinglesOf(w.ino, w.list) \subseteq SinglesOf(v.ino, v.list)
  <2>1. \A x \in DoublesOf(w.ino, w.list) : ListedIn(w.list, x) \subseteq ListedIn(v.list, x)
    BY <1>3 DEF ListBlocks
  <2>2. {w.ino.single} \ {None} \subseteq {v.ino.single} \ {None}
    BY KeepsTops
  <2> QED
    BY <1>5, <2>1, <2>2 DEF SinglesOf
<1>7. ListBlocks(w.ino, w.list) \subseteq ListBlocks(v.ino, v.list)
  BY <1>4, <1>5, <1>6 DEF ListBlocks
<1>8. ASSUME NEW x, NEW k, NEW y, IsPointer(w.ino, w.list, x, k, y)
      PROVE  IsPointer(v.ino, v.list, x, k, y)
  <2>1. CASE x = None /\ k \in TopPlace /\ y = Top(w.ino, k)
    BY <1>8, <2>1 DEF IsPointer, Keeps
  <2>2. CASE x \in ListBlocks(w.ino, w.list) /\ k \in Place /\ y = w.list[x][k]
    BY <1>2, <1>7, <1>8, <2>2 DEF IsPointer
  <2> QED
    BY <1>8, <2>1, <2>2 DEF IsPointer
<1> QED
  BY <1>4, <1>5, <1>6, <1>7, <1>8 DEF InMap

\* The list blocks below a list block.
LEMMA BelowDouble ==
    ASSUME NEW ino, NEW l, NEW d \in DoublesOf(ino, l), NEW k \in Place, l[d][k] # None
    PROVE  l[d][k] \in SinglesOf(ino, l)
BY DEF SinglesOf, ListedIn

LEMMA BelowTriple ==
    ASSUME NEW ino, NEW l, NEW t \in TriplesOf(ino), NEW k \in Place, l[t][k] # None
    PROVE  l[t][k] \in DoublesOf(ino, l)
BY DEF DoublesOf, ListedIn

LEMMA KeepsSingle ==
    ASSUME NEW w, NEW v, Sound(w), Keeps(w, v),
           NEW s \in SinglesOf(w.ino, w.list), NEW i \in Place,
           GetSingle(w.list, s, i) # None
    PROVE  GetSingle(v.list, s, i) = GetSingle(w.list, s, i)
<1>1. s \in Block \ w.free
  BY SoundFacts DEF ListBlocks
<1> QED
  BY <1>1 DEF GetSingle, Keeps

LEMMA KeepsDouble ==
    ASSUME NEW w, NEW v, Sound(w), Keeps(w, v),
           NEW d \in DoublesOf(w.ino, w.list),
           NEW i \in Nat, i < ListLength * ListLength,
           GetDouble(w.list, d, i) # None
    PROVE  GetDouble(v.list, d, i) = GetDouble(w.list, d, i)
<1>1. d \in Block \ w.free /\ d # None
  BY SoundFacts, MapFacts DEF ListBlocks
<1>2. PICK k \in Place : k = i \div ListLength
  BY PlaceInDouble
<1>3. PICK j \in Place : j = i % ListLength
  BY PlaceInDouble
<1>4. \A l : GetDouble(l, d, i) = GetSingle(l, l[d][k], j)
  BY <1>1, <1>2, <1>3 DEF GetDouble
<1>5. w.list[d][k] # None
  BY <1>4 DEF GetSingle
<1>6. v.list[d][k] = w.list[d][k]
  BY <1>1, <1>5 DEF Keeps
<1>7. w.list[d][k] \in SinglesOf(w.ino, w.list)
  BY <1>5, BelowDouble
<1> QED
  BY <1>4, <1>6, <1>7, KeepsSingle

LEMMA KeepsTriple ==
    ASSUME NEW w, NEW v, Sound(w), Keeps(w, v),
           NEW t \in TriplesOf(w.ino),
           NEW i \in Nat, i < ListLength * ListLength * ListLength,
           GetTriple(w.list, t, i) # None
    PROVE  GetTriple(v.list, t, i) = GetTriple(w.list, t, i)
<1>1. t \in Block \ w.free /\ t # None
  BY SoundFacts, MapFacts DEF ListBlocks
<1>2. PICK k \in Place : k = i \div (ListLength * ListLength)
  BY PlaceInTriple
<1>3. PICK j \in Nat : j = i % (ListLength * ListLength) /\ j < ListLength * ListLength
  BY PlaceInTriple
<1>4. \A l : GetTriple(l, t, i) = GetDouble(l, l[t][k], j)
  BY <1>1, <1>2, <1>3 DEF GetTriple
<1>5. w.list[t][k] # None
  BY <1>4 DEF GetDouble
<1>6. v.list[t][k] = w.list[t][k]
  BY <1>1, <1>5 DEF Keeps
<1>7. w.list[t][k] \in DoublesOf(w.ino, w.list)
  BY <1>5, BelowTriple
<1> QED
  BY <1>3, <1>4, <1>6, <1>7, KeepsDouble

\* get_block_id still finds each block where it was.
LEMMA KeepsBlock ==
    ASSUME NEW w, NEW v, Sound(w), Keeps(w, v), NEW i \in Nat,
           GetBlockId(w.list, w.ino, i) # None
    PROVE  GetBlockId(v.list, v.ino, i) = GetBlockId(w.list, w.ino, i)
<1>1. CASE i < SingleBase
  <2>1. i \in 0..NumDirect - 1
    BY <1>1, Bases
  <2> QED
    BY <1>1, <2>1, KeepsTops DEF GetBlockId
<1>2. CASE ~ (i < SingleBase) /\ i < DoubleBase
  <2>1. PICK j \in Place : j = i - SingleBase
    BY <1>2, Bases, MapFacts DEF Place
  <2>2. \A l, ino : GetBlockId(l, ino, i) = GetSingle(l, ino.single, j)
    BY <1>2, <2>1 DEF GetBlockId
  <2>3. w.ino.single # None
    BY <2>2 DEF GetSingle
  <2>4. w.ino.single \in SinglesOf(w.ino, w.list) /\ v.ino.single = w.ino.single
    BY <2>3, KeepsTops DEF SinglesOf
  <2> QED
    BY <2>2, <2>4, KeepsSingle
<1>3. CASE ~ (i < SingleBase) /\ ~ (i < DoubleBase) /\ i < TripleBase
  <2>1. PICK j \in Nat : j = i - DoubleBase /\ j < ListLength * ListLength
    BY <1>3, Bases
  <2>2. \A l, ino : GetBlockId(l, ino, i) = GetDouble(l, ino.double, j)
    BY <1>3, <2>1 DEF GetBlockId
  <2>3. w.ino.double # None
    BY <2>2 DEF GetDouble
  <2>4. w.ino.double \in DoublesOf(w.ino, w.list) /\ v.ino.double = w.ino.double
    BY <2>3, KeepsTops DEF DoublesOf
  <2> QED
    BY <2>1, <2>2, <2>4, KeepsDouble
<1>4. CASE /\ ~ (i < SingleBase) /\ ~ (i < DoubleBase) /\ ~ (i < TripleBase)
           /\ i < EndOfMap
  <2>1. PICK j \in Nat : j = i - TripleBase /\ j < ListLength * ListLength * ListLength
    BY <1>4, Bases
  <2>2. \A l, ino : GetBlockId(l, ino, i) = GetTriple(l, ino.triple, j)
    BY <1>4, <2>1 DEF GetBlockId
  <2>3. w.ino.triple # None
    BY <2>2 DEF GetTriple
  <2>4. w.ino.triple \in TriplesOf(w.ino) /\ v.ino.triple = w.ino.triple
    BY <2>3, KeepsTops DEF TriplesOf
  <2> QED
    BY <2>1, <2>2, <2>4, KeepsTriple
<1> QED
  BY <1>1, <1>2, <1>3, <1>4 DEF GetBlockId

\* No index beyond the map has a block.
LEMMA MappedIsIndex ==
    ASSUME NEW l, NEW ino, NEW i \in Nat, GetBlockId(l, ino, i) # None
    PROVE  i < EndOfMap
BY Bases DEF GetBlockId

\* get_block_id returns a block that is in the map, or none.
LEMMA MappedInMap ==
    ASSUME NEW ino \in InodeType, NEW l \in [Block -> ListType], NEW i \in Nat
    PROVE  GetBlockId(l, ino, i) \in Id
<1>1. ASSUME NEW s \in Id, NEW j \in Place
      PROVE  GetSingle(l, s, j) \in Id
  BY <1>1 DEF GetSingle, Id, ListType
<1>2. ASSUME NEW d \in Id, NEW j \in Nat, j < ListLength * ListLength
      PROVE  GetDouble(l, d, j) \in Id
  <2>1. PICK k \in Place : k = j \div ListLength
    BY <1>2, PlaceInDouble
  <2>2. PICK m \in Place : m = j % ListLength
    BY <1>2, PlaceInDouble
  <2>3. d # None => l[d][k] \in Id
    BY DEF Id, ListType
  <2>4. d # None => GetSingle(l, l[d][k], m) \in Id
    BY <2>3, <1>1
  <2> QED
    BY <2>1, <2>2, <2>4 DEF GetDouble, Id
<1>3. ASSUME NEW t \in Id, NEW j \in Nat, j < ListLength * ListLength * ListLength
      PROVE  GetTriple(l, t, j) \in Id
  <2>1. PICK k \in Place : k = j \div (ListLength * ListLength)
    BY <1>3, PlaceInTriple
  <2>2. PICK m \in Nat : m = j % (ListLength * ListLength) /\ m < ListLength * ListLength
    BY <1>3, PlaceInTriple
  <2>3. t # None => l[t][k] \in Id
    BY DEF Id, ListType
  <2>4. t # None => GetDouble(l, l[t][k], m) \in Id
    BY <2>2, <2>3, <1>2
  <2> QED
    BY <2>1, <2>2, <2>4 DEF GetTriple, Id
<1>4. CASE i < SingleBase
  <2>1. i \in 0..NumDirect - 1
    BY <1>4, Bases
  <2> QED
    BY <1>4, <2>1 DEF GetBlockId, InodeType
<1>5. CASE ~ (i < SingleBase) /\ i < DoubleBase
  <2>1. i - SingleBase \in Place
    BY <1>5, Bases, MapFacts DEF Place
  <2> QED
    BY <1>1, <1>5, <2>1 DEF GetBlockId, InodeType
<1>6. CASE ~ (i < SingleBase) /\ ~ (i < DoubleBase) /\ i < TripleBase
  <2>1. i - DoubleBase \in Nat /\ i - DoubleBase < ListLength * ListLength
    BY <1>6, Bases
  <2> QED
    BY <1>2, <1>6, <2>1 DEF GetBlockId, InodeType
<1>7. CASE /\ ~ (i < SingleBase) /\ ~ (i < DoubleBase) /\ ~ (i < TripleBase)
           /\ i < EndOfMap
  <2>1. i - TripleBase \in Nat /\ i - TripleBase < ListLength * ListLength * ListLength
    BY <1>7, Bases
  <2> QED
    BY <1>3, <1>7, <2>1 DEF GetBlockId, InodeType
<1>8. None \in Id
  BY MapFacts
<1> QED
  BY <1>4, <1>5, <1>6, <1>7, <1>8 DEF GetBlockId

-----------------------------------------------------------------------------
(* Taking a block, and entering a pointer to it *)

LEMMA SameLists ==
    ASSUME NEW ino, NEW l, NEW m, \A x \in ListBlocks(ino, l) : m[x] = l[x]
    PROVE  \A x, k, y : IsPointer(ino, m, x, k, y) => IsPointer(ino, l, x, k, y)
<1>1. \A x \in ListBlocks(ino, l) : ListedIn(m, x) = ListedIn(l, x)
  BY DEF ListedIn
<1>2. DoublesOf(ino, m) = DoublesOf(ino, l)
  <2>1. \A x \in TriplesOf(ino) : ListedIn(m, x) = ListedIn(l, x)
    BY <1>1 DEF ListBlocks
  <2> QED
    BY <2>1 DEF DoublesOf
<1>3. SinglesOf(ino, m) = SinglesOf(ino, l)
  <2>1. \A x \in DoublesOf(ino, l) : ListedIn(m, x) = ListedIn(l, x)
    BY <1>1 DEF ListBlocks
  <2> QED
    BY <1>2, <2>1 DEF SinglesOf
<1>4. ListBlocks(ino, m) = ListBlocks(ino, l)
  BY <1>2, <1>3 DEF ListBlocks
<1> QED
  BY <1>4 DEF IsPointer

LEMMA TakeRecord ==
    ASSUME NEW w \in Work, w.free # {}
    PROVE  /\ Take(w) \in Work
           /\ Take(w).ino = w.ino
           /\ Take(w).free = w.free \ {Taken(w)}
           /\ Take(w).list = [w.list EXCEPT ![Taken(w)] = EmptyList]
           /\ Take(w).ok = w.ok
           /\ Take(w).errno = w.errno
<1>1. PICK b : b = Taken(w)
  OBVIOUS
<1>2. b \in w.free /\ b \in Block
  BY <1>1, TakenIsFree
<1>3. Take(w) = [w EXCEPT !.free = w.free \ {b}, !.list = [w.list EXCEPT ![b] = EmptyList]]
  BY <1>1 DEF Take, Taken, Work
<1>4. [w.list EXCEPT ![b] = EmptyList] \in [Block -> ListType]
  BY <1>2, MapFacts DEF Work
<1> QED
  BY <1>1, <1>3, <1>4 DEF Work

\* data_block_alloc takes a free block: it is pending, the rest is as it was.
LEMMA TakeStep ==
    ASSUME NEW w, Sound(w), w.free # {}
    PROVE  /\ Sound(Take(w))
           /\ Keeps(w, Take(w))
           /\ Pending(Take(w), Taken(w))
           /\ \A y : Held(w, y) => Held(Take(w), y) \/ y = Taken(w)
           /\ \A c : Pending(w, c) => Pending(Take(w), c) /\ c # Taken(w)
           /\ \A i \in Nat : GetBlockId(w.list, w.ino, i) = None =>
                 GetBlockId(Take(w).list, Take(w).ino, i) = None
<1>1. PICK v : v = Take(w)
  OBVIOUS
<1>2. PICK b : b = Taken(w)
  OBVIOUS
<1>3. w \in Work
  BY DEF Sound
<1>4. b \in w.free /\ b \in Block
  BY <1>2, <1>3, TakenIsFree
<1>5. /\ v \in Work
      /\ v.ino = w.ino
      /\ v.free = w.free \ {b}
      /\ v.list = [w.list EXCEPT ![b] = EmptyList]
  BY <1>1, <1>2, <1>3, TakeRecord
<1>6. v.list[b] = EmptyList /\ \A x \in Block : x # b => v.list[x] = w.list[x]
  BY <1>3, <1>4, <1>5 DEF Work
<1>7. Keeps(w, v)
  BY <1>4, <1>5, <1>6 DEF Keeps
<1>8. \A x \in ListBlocks(w.ino, w.list) : v.list[x] = w.list[x]
  BY <1>4, <1>6, SoundFacts
<1>9. \A x, k, y : IsPointer(v.ino, v.list, x, k, y) <=> IsPointer(w.ino, w.list, x, k, y)
  BY <1>5, <1>7, <1>8, SameLists, KeepsPointers
<1>10. \A y : InMap(v.ino, v.list, y) <=> InMap(w.ino, w.list, y)
  BY <1>9 DEF InMap
<1>11. Sound(v)
  <2>1. Tree(v.ino, v.list)
    BY <1>9 DEF Sound, Tree
  <2>2. NoneFree(v.ino, v.list, v.free)
    BY <1>5, <1>10 DEF Sound, NoneFree
  <2> QED
    BY <1>5, <2>1, <2>2 DEF Sound
<1>12. Pending(v, b)
  BY <1>4, <1>5, <1>6, <1>10, SoundFacts DEF Pending
<1>13. \A y : Held(w, y) => Held(v, y) \/ y = b
  BY <1>5, <1>10 DEF Held
<1>14. \A c : Pending(w, c) => Pending(v, c) /\ c # b
  BY <1>4, <1>5, <1>6, <1>10 DEF Pending
<1>15. ASSUME NEW i \in Nat, GetBlockId(v.list, v.ino, i) # None
       PROVE  GetBlockId(w.list, w.ino, i) # None
  <2>1. PICK u : u = [w EXCEPT !.free = v.free]
    OBVIOUS
  <2>2. u.ino = w.ino /\ u.list = w.list /\ u.free = v.free
    BY <2>1, <1>3 DEF Work
  <2>3. Keeps(v, u)
    BY <1>5, <1>6, <2>2, MapFacts DEF Keeps
  <2> QED
    BY <1>11, <1>15, <2>2, <2>3, KeepsBlock
<1> QED
  BY <1>1, <1>2, <1>7, <1>11, <1>12, <1>13, <1>14, <1>15

\* A pointer to b at place k0 of x0 is all that v's map has and w's has not.
OnlyPointer(w, v, b, x0, k0) ==
    /\ \A k \in TopPlace : \/ Top(v.ino, k) = Top(w.ino, k)
                           \/ Top(v.ino, k) = b /\ x0 = None /\ k0 = k
    /\ \A x \in ListBlocks(w.ino, w.list) : \A k \in Place :
          \/ v.list[x][k] = w.list[x][k]
          \/ v.list[x][k] = b /\ x0 = x /\ k0 = k
    /\ IsPointer(v.ino, v.list, x0, k0, b)

\* The pending block b gets its pointer, at place k0 of x0, which held none.
LEMMA LinkStep ==
    ASSUME NEW w, NEW v \in Work, NEW b, NEW x0, NEW k0,
           Sound(w), Pending(w, b), Keeps(w, v), v.free = w.free,
           v.list[b] = EmptyList, OnlyPointer(w, v, b, x0, k0)
    PROVE  /\ Sound(v)
           /\ InMap(v.ino, v.list, b)
           /\ HoldsAll(w, v)
           /\ \A c : Pending(w, c) /\ c # b /\ v.list[c] = w.list[c] => Pending(v, c)
<1> USE DEF OnlyPointer
<1>1. /\ NumDirect \in Nat /\ NumDirect \in TopPlace /\ NumDirect + 1 \in TopPlace
      /\ NumDirect + 2 \in TopPlace
  BY MapFacts DEF TopPlace
<1>2. \A ino : /\ Top(ino, NumDirect) = ino.single
               /\ Top(ino, NumDirect + 1) = ino.double
               /\ Top(ino, NumDirect + 2) = ino.triple
  BY <1>1 DEF Top
<1>3. /\ v.ino.single \in {w.ino.single, b}
      /\ v.ino.double \in {w.ino.double, b}
      /\ v.ino.triple \in {w.ino.triple, b}
  BY <1>1, <1>2
<1>4. \A x \in ListBlocks(w.ino, w.list) : ListedIn(v.list, x) \subseteq ListedIn(w.list, x) \cup {b}
  BY DEF ListedIn
<1>5. ListedIn(v.list, b) = {}
  BY MapFacts DEF ListedIn
<1>6. TriplesOf(v.ino) \subseteq TriplesOf(w.ino) \cup {b}
  BY <1>3 DEF TriplesOf
<1>7. DoublesOf(v.ino, v.list) \subseteq DoublesOf(w.ino, w.list) \cup {b}
  <2> SUFFICES ASSUME NEW y \in DoublesOf(v.ino, v.list), y # b
               PROVE  y \in DoublesOf(w.ino, w.list)
    OBVIOUS
  <2>1. CASE y # None /\ y = v.ino.double
    BY <2>1, <1>3 DEF DoublesOf
  <2>2. CASE \E x \in TriplesOf(v.ino) : y \in ListedIn(v.list, x)
    <3>1. PICK x \in TriplesOf(w.ino) : y \in ListedIn(v.list, x)
      BY <2>2, <1>5, <1>6
    <3>2. y \in ListedIn(w.list, x)
      BY <3>1, <1>4 DEF ListBlocks
    <3> QED
      BY <3>1, <3>2 DEF DoublesOf
  <2> QED
    BY <2>1, <2>2 DEF DoublesOf
<1>8. SinglesOf(v.ino, v.list) \subseteq SinglesOf(w.ino, w.list) \cup {b}
  <2> SUFFICES ASSUME NEW y \in SinglesOf(v.ino, v.list), y # b
               PROVE  y \in SinglesOf(w.ino, w.list)
    OBVIOUS
  <2>1. CASE y # None /\ y = v.ino.single
    BY <2>1, <1>3 DEF SinglesOf
  <2>2. CASE \E x \in DoublesOf(v.ino, v.list) : y \in ListedIn(v.list, x)
    <3>1. PICK x \in DoublesOf(w.ino, w.list) : y \in ListedIn(v.list, x)
      BY <2>2, <1>5, <1>7
    <3>2. y \in ListedIn(w.list, x)
      BY <3>1, <1>4 DEF ListBlocks
    <3> QED
      BY <3>1, <3>2 DEF SinglesOf
  <2> QED
    BY <2>1, <2>2 DEF SinglesOf
<1>9. ListBlocks(v.ino, v.list) \subseteq ListBlocks(w.ino, w.list) \cup {b}
  BY <1>6, <1>7, <1>8 DEF ListBlocks
\* The only new pointer is that to b.
<1>10. ASSUME NEW x, NEW k, NEW y, IsPointer(v.ino, v.list, x, k, y)
       PROVE  \/ IsPointer(w.ino, w.list, x, k, y)
              \/ y = b /\ x = x0 /\ k = k0
  <2>1. CASE x = None /\ k \in TopPlace /\ y = Top(v.ino, k)
    BY <1>10, <2>1 DEF IsPointer
  <2>2. CASE x \in ListBlocks(v.ino, v.list) /\ k \in Place /\ y = v.list[x][k]
    <3>1. y # None
      BY <1>10 DEF IsPointer
    <3>2. x # b
      BY <2>2, <3>1, MapFacts
    <3>3. x \in ListBlocks(w.ino, w.list)
      BY <1>9, <2>2, <3>2
    <3> QED
      BY <2>2, <3>1, <3>3 DEF IsPointer
  <2> QED
    BY <1>10, <2>1, <2>2 DEF IsPointer
<1>11. \A y : InMap(v.ino, v.list, y) => InMap(w.ino, w.list, y) \/ y = b
  BY <1>10 DEF InMap
<1>12. \A x, k : ~ IsPointer(w.ino, w.list, x, k, b)
  BY DEF Pending, InMap
<1>13. Tree(v.ino, v.list)
  <2> SUFFICES ASSUME NEW x, NEW k, NEW x2, NEW k2, NEW y,
                      IsPointer(v.ino, v.list, x, k, y),
                      IsPointer(v.ino, v.list, x2, k2, y)
               PROVE  x = x2 /\ k = k2
    BY DEF Tree
  <2>1. CASE y = b
    BY <2>1, <1>10, <1>12
  <2>2. CASE y # b
    <3>1. IsPointer(w.ino, w.list, x, k, y) /\ IsPointer(w.ino, w.list, x2, k2, y)
      BY <2>2, <1>10
    <3> QED
      BY <3>1 DEF Sound, Tree
  <2> QED
    BY <2>1, <2>2
<1>14. NoneFree(v.ino, v.list, v.free)
  BY <1>11 DEF Sound, NoneFree, Pending
<1>15. InMap(v.ino, v.list, b)
  BY DEF InMap
<1>16. HoldsAll(w, v)
  BY KeepsPointers DEF HoldsAll, Held
<1>17. ASSUME NEW c, Pending(w, c), c # b, v.list[c] = w.list[c]
       PROVE  Pending(v, c)
  BY <1>11, <1>17 DEF Pending
<1> QED
  BY <1>13, <1>14, <1>15, <1>16, <1>17 DEF Sound

\* The place is in a list block.
LEMMA LinkInList ==
    ASSUME NEW w, NEW v, NEW b, Sound(w), Pending(w, b),
           NEW d \in ListBlocks(w.ino, w.list), NEW k \in Place,
           w.list[d][k] = None, v = SetSingle(w, d, k, b)
    PROVE  /\ Sound(v)
           /\ Keeps(w, v)
           /\ v.ino = w.ino /\ v.free = w.free /\ v.ok = w.ok /\ v.errno = w.errno
           /\ v.list[d][k] = b
           /\ v.list[b] = EmptyList
           /\ InMap(v.ino, v.list, b)
           /\ HoldsAll(w, v)
           /\ \A c : Pending(w, c) /\ c # b => Pending(v, c)
<1>1. w \in Work /\ w.list \in [Block -> ListType]
  BY DEF Sound, Work
<1>2. d \in Block /\ d \notin w.free /\ InMap(w.ino, w.list, d)
  BY SoundFacts
<1>3. b \in Block /\ b # d /\ b \notin w.free /\ w.list[b] = EmptyList /\ b # None
  BY <1>2, MapFacts DEF Pending
<1>4. PICK m : m = [w.list EXCEPT ![d] = [w.list[d] EXCEPT ![k] = b]]
  OBVIOUS
<1>5. /\ m \in [Block -> ListType]
      /\ \A x \in Block : x # d => m[x] = w.list[x]
      /\ \A j \in Place : m[d][j] = IF j = k THEN b ELSE w.list[d][j]
  BY <1>1, <1>2, <1>3, <1>4 DEF ListType, Id
<1>6. v = [w EXCEPT !.list = m]
  BY <1>4 DEF SetSingle
<1>7. /\ v \in Work
      /\ v.ino = w.ino /\ v.free = w.free /\ v.ok = w.ok /\ v.errno = w.errno
      /\ v.list = m
  BY <1>1, <1>5, <1>6 DEF Work
<1>8. Keeps(w, v)
  BY <1>5, <1>7 DEF Keeps
<1>9. v.list[d][k] = b /\ v.list[b] = EmptyList
  BY <1>3, <1>5, <1>7
<1>10. \A x \in ListBlocks(w.ino, w.list) : \A j \in Place :
          \/ v.list[x][j] = w.list[x][j]
          \/ v.list[x][j] = b /\ d = x /\ k = j
  BY <1>5, <1>7, SoundFacts
<1>11. d \in ListBlocks(v.ino, v.list)
  BY <1>8, KeepsPointers
<1>12. OnlyPointer(w, v, b, d, k)
  <2>1. IsPointer(v.ino, v.list, d, k, b)
    BY <1>3, <1>9, <1>11 DEF IsPointer
  <2> QED
    BY <2>1, <1>7, <1>10 DEF OnlyPointer
<1>13. /\ Sound(v)
       /\ InMap(v.ino, v.list, b)
       /\ HoldsAll(w, v)
       /\ \A c : Pending(w, c) /\ c # b /\ v.list[c] = w.list[c] => Pending(v, c)
  BY <1>7, <1>8, <1>9, <1>12, LinkStep
<1>14. ASSUME NEW c, Pending(w, c), c # b PROVE Pending(v, c)
  <2>1. c \in Block /\ c # d
    BY <1>2, <1>14 DEF Pending
  <2> QED
    BY <2>1, <1>5, <1>7, <1>13, <1>14
<1> QED
  BY <1>7, <1>8, <1>9, <1>13, <1>14

\* The place is in the inode.
LEMMA LinkInInode ==
    ASSUME NEW w, NEW v \in Work, NEW b, NEW z \in TopPlace,
           Sound(w), Pending(w, b), Top(w.ino, z) = None,
           v.list = w.list, v.free = w.free, Top(v.ino, z) = b,
           \A k \in TopPlace : k # z => Top(v.ino, k) = Top(w.ino, k)
    PROVE  /\ Sound(v)
           /\ Keeps(w, v)
           /\ InMap(v.ino, v.list, b)
           /\ HoldsAll(w, v)
           /\ \A c : Pending(w, c) /\ c # b => Pending(v, c)
<1>1. Keeps(w, v)
  BY DEF Keeps
<1>2. OnlyPointer(w, v, b, None, z)
  BY MapFacts DEF IsPointer, Pending, OnlyPointer
<1>3. v.list[b] = EmptyList
  BY DEF Pending
<1>4. /\ Sound(v)
      /\ InMap(v.ino, v.list, b)
      /\ HoldsAll(w, v)
      /\ \A c : Pending(w, c) /\ c # b /\ v.list[c] = w.list[c] => Pending(v, c)
  BY <1>1, <1>2, <1>3, LinkStep
<1> QED
  BY <1>1, <1>4

-----------------------------------------------------------------------------
(* set_block_id *)

\* What a part of set_block_id does to enter the pending block b: work w
\* becomes v.
Entered(w, v, b) ==
    /\ Sound(v)
    /\ Keeps(w, v)
    /\ v.errno = w.errno
    /\ v.ino.numBlocks = w.ino.numBlocks
    /\ v.ok => HoldsAll(w, v) /\ InMap(v.ino, v.list, b)

LEMMA SetSingleStep ==
    ASSUME NEW w, NEW b, Sound(w), w.ok, Pending(w, b),
           NEW s \in ListBlocks(w.ino, w.list), NEW i \in Place,
           GetSingle(w.list, s, i) = None
    PROVE  /\ Entered(w, SetSingle(w, s, i, b), b)
           /\ GetSingle(SetSingle(w, s, i, b).list, s, i) = b
           /\ SetSingle(w, s, i, b).ino = w.ino
<1>1. PICK v : v = SetSingle(w, s, i, b)
  OBVIOUS
<1>3. s # None
  BY SoundFacts, MapFacts
<1>4. w.list[s][i] = None
  BY <1>3 DEF GetSingle
<1>5. /\ Sound(v)
      /\ Keeps(w, v)
      /\ v.ino = w.ino /\ v.errno = w.errno
      /\ v.list[s][i] = b
      /\ InMap(v.ino, v.list, b)
      /\ HoldsAll(w, v)
  BY <1>1, <1>4, LinkInList
<1> QED
  BY <1>1, <1>3, <1>5 DEF Entered, GetSingle

\* A list block at place k of list block d, while b is pending.
LEMMA WithListStep ==
    ASSUME NEW w, NEW b, Sound(w), w.ok, Pending(w, b),
           NEW d \in ListBlocks(w.ino, w.list), NEW k \in Place
    PROVE  /\ Sound(WithList(w, d, k))
           /\ Keeps(w, WithList(w, d, k))
           /\ WithList(w, d, k).ino = w.ino
           /\ WithList(w, d, k).errno = w.errno
           /\ WithList(w, d, k).ok =>
                 /\ Pending(WithList(w, d, k), b)
                 /\ HoldsAll(w, WithList(w, d, k))
                 /\ WithList(w, d, k).list[d][k] # None
                 /\ IF w.list[d][k] # None THEN WithList(w, d, k) = w
                    ELSE WithList(w, d, k).list[WithList(w, d, k).list[d][k]] = EmptyList
<1>1. PICK v : v = WithList(w, d, k)
  OBVIOUS
<1>2. w \in Work
  BY DEF Sound
<1>3. CASE w.list[d][k] # None
  <2>1. v = w
    BY <1>1, <1>3 DEF WithList
  <2> QED
    BY <1>1, <1>2, <1>3, <2>1, KeepsItself DEF HoldsAll
<1>4. CASE w.list[d][k] = None /\ w.free = {}
  <2>1. v = [w EXCEPT !.ok = FALSE]
    BY <1>1, <1>4 DEF WithList, Failed
  <2>2. v \in Work /\ v.ino = w.ino /\ v.list = w.list /\ v.free = w.free
        /\ ~ v.ok /\ v.errno = w.errno
    BY <1>2, <2>1 DEF Work
  <2>3. Sound(v) /\ Keeps(w, v)
    BY <2>2 DEF Sound, Keeps
  <2> QED
    BY <1>1, <2>2, <2>3
<1>5. CASE w.list[d][k] = None /\ w.free # {}
  <2>1. PICK u : u = Take(w)
    OBVIOUS
  <2>2. PICK c : c = Taken(w)
    OBVIOUS
  <2>3. v = SetSingle(u, d, k, c)
    BY <1>1, <1>5, <2>1, <2>2 DEF WithList, SetSingle
  <2>4. /\ Sound(u) /\ Keeps(w, u) /\ Pending(u, c) /\ Pending(u, b) /\ b # c
        /\ \A y : Held(w, y) => Held(u, y) \/ y = c
    BY <1>5, <2>1, <2>2, TakeStep
  <2>5. u.ino = w.ino /\ u.errno = w.errno /\ u.list = [w.list EXCEPT ![c] = EmptyList]
    BY <1>2, <1>5, <2>1, <2>2, TakeRecord
  <2>6. d \in ListBlocks(u.ino, u.list)
    BY <2>4, KeepsPointers
  <2>7. d # c /\ d \in Block
    BY <2>4, <2>6, SoundFacts DEF Pending
  <2>8. u.list[d][k] = None
    BY <1>2, <1>5, <2>5, <2>7 DEF Work
  <2>9. /\ Sound(v)
        /\ Keeps(u, v)
        /\ v.ino = u.ino /\ v.errno = u.errno
        /\ v.list[d][k] = c
        /\ v.list[c] = EmptyList
        /\ InMap(v.ino, v.list, c)
        /\ HoldsAll(u, v)
        /\ Pending(v, b)
    BY <2>3, <2>4, <2>6, <2>8, LinkInList
  <2>10. Keeps(w, v)
    BY <2>4, <2>9, KeepsTransitive
  <2>11. HoldsAll(w, v)
    BY <2>4, <2>9 DEF HoldsAll, Held
  <2>12. c # None
    BY <2>4, MapFacts DEF Pending
  <2> QED
    BY <1>1, <1>5, <2>5, <2>9, <2>10, <2>11, <2>12
<1> QED
  BY <1>3, <1>4, <1>5

\* An entry made after the first part of the work.
LEMMA EnteredAfter ==
    ASSUME NEW w, NEW v, NEW u, NEW b, Keeps(w, v), HoldsAll(w, v),
           v.errno = w.errno, v.ino.numBlocks = w.ino.numBlocks, Entered(v, u, b)
    PROVE  Entered(w, u, b)
<1>1. Keeps(w, u)
  BY KeepsTransitive DEF Entered
<1> QED
  BY <1>1 DEF Entered, HoldsAll

LEMMA SetDoubleStep ==
    ASSUME NEW w, NEW b, Sound(w), w.ok, Pending(w, b),
           NEW d \in DoublesOf(w.ino, w.list),
           NEW i \in Nat, i < ListLength * ListLength,
           GetDouble(w.list, d, i) = None
    PROVE  /\ Entered(w, SetDouble(w, d, i, b), b)
           /\ SetDouble(w, d, i, b).ok => GetDouble(SetDouble(w, d, i, b).list, d, i) = b
           /\ SetDouble(w, d, i, b).ino = w.ino
<1>1. PICK u : u = SetDouble(w, d, i, b)
  OBVIOUS
<1>2. PICK k \in Place : k = i \div ListLength
  BY PlaceInDouble
<1>3. PICK j \in Place : j = i % ListLength
  BY PlaceInDouble
<1>4. PICK v : v = WithList(w, d, k)
  OBVIOUS
<1>5. u = IF ~ v.ok THEN v ELSE SetSingle(v, v.list[d][k], j, b)
  BY <1>1, <1>2, <1>3, <1>4 DEF SetDouble
<1>6. d \in ListBlocks(w.ino, w.list)
  BY DEF ListBlocks
<1>7. d \in Block /\ d \notin w.free /\ d # None
  BY <1>6, SoundFacts, MapFacts
<1>8. \A l : GetDouble(l, d, i) = GetSingle(l, l[d][k], j)
  BY <1>2, <1>3, <1>7 DEF GetDouble
<1>9. /\ Sound(v)
      /\ Keeps(w, v)
      /\ v.ino = w.ino
      /\ v.errno = w.errno
      /\ v.ok =>
            /\ Pending(v, b)
            /\ HoldsAll(w, v)
            /\ v.list[d][k] # None
            /\ IF w.list[d][k] # None THEN v = w
               ELSE v.list[v.list[d][k]] = EmptyList
  BY <1>4, <1>6, WithListStep
<1>10. CASE ~ v.ok
  BY <1>1, <1>5, <1>9, <1>10 DEF Entered
<1>11. CASE v.ok
  <2>1. PICK s : s = v.list[d][k]
    OBVIOUS
  <2>2. u = SetSingle(v, s, j, b)
    BY <1>5, <1>11, <2>1
  <2>3. d \in DoublesOf(v.ino, v.list)
    BY <1>9, KeepsPointers
  <2>4. s \in SinglesOf(v.ino, v.list) /\ s # None
    BY <1>9, <1>11, <2>1, <2>3, BelowDouble
  <2>5. s \in ListBlocks(v.ino, v.list)
    BY <2>4 DEF ListBlocks
  <2>6. GetSingle(v.list, s, j) = None
    <3>1. CASE w.list[d][k] # None
      BY <3>1, <1>8, <1>9, <1>11, <2>1
    <3>2. CASE w.list[d][k] = None
      BY <3>2, <1>9, <1>11, <2>1, MapFacts DEF GetSingle
    <3> QED
      BY <3>1, <3>2
  <2>7. Entered(v, u, b) /\ GetSingle(u.list, s, j) = b /\ u.ino = v.ino
    BY <1>9, <1>11, <2>2, <2>5, <2>6, SetSingleStep
  <2>8. d \notin v.free
    BY <1>7, <1>9 DEF Keeps
  <2>9. u.list[d][k] = s
    BY <1>7, <2>1, <2>4, <2>7, <2>8 DEF Entered, Keeps
  <2>10. GetDouble(u.list, d, i) = b
    BY <1>8, <2>7, <2>9
  <2>11. Entered(w, u, b)
    BY <1>9, <1>11, <2>7, EnteredAfter
  <2> QED
    BY <1>1, <1>9, <2>7, <2>10, <2>11
<1> QED
  BY <1>9, <1>10, <1>11

LEMMA SetTripleStep ==
    ASSUME NEW w, NEW b, Sound(w), w.ok, Pending(w, b),
           NEW t \in TriplesOf(w.ino),
           NEW i \in Nat, i < ListLength * ListLength * ListLength,
           GetTriple(w.list, t, i) = None
    PROVE  /\ Entered(w, SetTriple(w, t, i, b), b)
           /\ SetTriple(w, t, i, b).ok => GetTriple(SetTriple(w, t, i, b).list, t, i) = b
           /\ SetTriple(w, t, i, b).ino = w.ino
<1>1. PICK u : u = SetTriple(w, t, i, b)
  OBVIOUS
<1>2. PICK k \in Place : k = i \div (ListLength * ListLength)
  BY PlaceInTriple
<1>3. PICK j \in Nat : j = i % (ListLength * ListLength) /\ j < ListLength * ListLength
  BY PlaceInTriple
<1>4. PICK v : v = WithList(w, t, k)
  OBVIOUS
<1>5. u = IF ~ v.ok THEN v ELSE SetDouble(v, v.list[t][k], j, b)
  BY <1>1, <1>2, <1>3, <1>4 DEF SetTriple
<1>6. t \in ListBlocks(w.ino, w.list)
  BY DEF ListBlocks
<1>7. t \in Block /\ t \notin w.free /\ t # None
  BY <1>6, SoundFacts, MapFacts
<1>8. \A l : GetTriple(l, t, i) = GetDouble(l, l[t][k], j)
  BY <1>2, <1>3, <1>7 DEF GetTriple
<1>9. /\ Sound(v)
      /\ Keeps(w, v)
      /\ v.ino = w.ino
      /\ v.errno = w.errno
      /\ v.ok =>
            /\ Pending(v, b)
            /\ HoldsAll(w, v)
            /\ v.list[t][k] # None
            /\ IF w.list[t][k] # None THEN v = w
               ELSE v.list[v.list[t][k]] = EmptyList
  BY <1>4, <1>6, WithListStep
<1>10. CASE ~ v.ok
  BY <1>1, <1>5, <1>9, <1>10 DEF Entered
<1>11. CASE v.ok
  <2>1. PICK d : d = v.list[t][k]
    OBVIOUS
  <2>2. u = SetDouble(v, d, j, b)
    BY <1>5, <1>11, <2>1
  <2>3. t \in TriplesOf(v.ino)
    BY <1>9, KeepsPointers
  <2>4. d \in DoublesOf(v.ino, v.list) /\ d # None
    BY <1>9, <1>11, <2>1, <2>3, BelowTriple
  <2>5. GetDouble(v.list, d, j) = None
    <3>1. CASE w.list[t][k] # None
      BY <3>1, <1>8, <1>9, <1>11, <2>1
    <3>2. CASE w.list[t][k] = None
      <4>1. j \div ListLength \in Place
        BY <1>3, PlaceInDouble
      <4>2. v.list[d][j \div ListLength] = None
        BY <3>2, <4>1, <1>9, <1>11, <2>1, MapFacts
      <4> QED
        BY <4>2 DEF GetDouble, GetSingle
    <3> QED
      BY <3>1, <3>2
  <2>6. /\ Entered(v, u, b)
        /\ u.ok => GetDouble(u.list, d, j) = b
        /\ u.ino = v.ino
    BY <1>3, <1>9, <1>11, <2>2, <2>4, <2>5, SetDoubleStep
  <2>7. t \notin v.free
    BY <1>7, <1>9 DEF Keeps
  <2>8. u.list[t][k] = d
    BY <1>7, <2>1, <2>4, <2>6, <2>7 DEF Entered, Keeps
  <2>9. u.ok => GetTriple(u.list, t, i) = b
    BY <1>8, <2>6, <2>8
  <2>10. Entered(w, u, b)
    BY <1>9, <1>11, <2>6, EnteredAfter
  <2> QED
    BY <1>1, <1>9, <2>6, <2>9, <2>10
<1> QED
  BY <1>9, <1>10, <1>11

\* The place of a level's top block in the inode.
LevelPlace(level) ==
    IF level = "single" THEN NumDirect
    ELSE IF level = "double" THEN NumDirect + 1
    ELSE NumDirect + 2

LEMMA LevelFacts ==
    ASSUME NEW level \in {"single", "double", "triple"},
           NEW ino \in InodeType, NEW c \in Id
    PROVE  /\ LevelPlace(level) \in TopPlace
           /\ Top(ino, LevelPlace(level)) = ino[level]
           /\ [ino EXCEPT ![level] = c] \in InodeType
           /\ [ino EXCEPT ![level] = c].numBlocks = ino.numBlocks
           /\ [ino EXCEPT ![level] = c][level] = c
           /\ \A k \in TopPlace : Top([ino EXCEPT ![level] = c], k) =
                 IF k = LevelPlace(level) THEN c ELSE Top(ino, k)
<1>1. NumDirect \in Nat
  BY MapFacts
<1>2. CASE level = "single"
  BY <1>1, <1>2 DEF LevelPlace, TopPlace, Top, InodeType
<1>3. CASE level = "double"
  BY <1>1, <1>3 DEF LevelPlace, TopPlace, Top, InodeType
<1>4. CASE level = "triple"
  BY <1>1, <1>4 DEF LevelPlace, TopPlace, Top, InodeType
<1> QED
  BY <1>2, <1>3, <1>4

\* The top block of a level, while b is pending.
LEMMA WithTopStep ==
    ASSUME NEW w, NEW b, Sound(w), w.ok, Pending(w, b),
           NEW level \in {"single", "double", "triple"}
    PROVE  /\ Sound(WithTop(w, level))
           /\ Keeps(w, WithTop(w, level))
           /\ WithTop(w, level).errno = w.errno
           /\ WithTop(w, level).ino.numBlocks = w.ino.numBlocks
           /\ WithTop(w, level).ok =>
                 /\ Pending(WithTop(w, level), b)
                 /\ HoldsAll(w, WithTop(w, level))
                 /\ WithTop(w, level).ino[level] # None
                 /\ IF w.ino[level] # None THEN WithTop(w, level) = w
                    ELSE WithTop(w, level).list[WithTop(w, level).ino[level]] = EmptyList
<1>1. PICK v : v = WithTop(w, level)
  OBVIOUS
<1>2. w \in Work
  BY DEF Sound
<1>3. CASE w.ino[level] # None
  <2>1. v = w
    BY <1>1, <1>3 DEF WithTop
  <2> QED
    BY <1>1, <1>2, <1>3, <2>1, KeepsItself DEF HoldsAll
<1>4. CASE w.ino[level] = None /\ w.free = {}
  <2>1. v = [w EXCEPT !.ok = FALSE]
    BY <1>1, <1>4 DEF WithTop, Failed
  <2>2. v \in Work /\ v.ino = w.ino /\ v.list = w.list /\ v.free = w.free
        /\ ~ v.ok /\ v.errno = w.errno
    BY <1>2, <2>1 DEF Work
  <2>3. Sound(v) /\ Keeps(w, v)
    BY <2>2 DEF Sound, Keeps
  <2> QED
    BY <1>1, <2>2, <2>3
<1>5. CASE w.ino[level] = None /\ w.free # {}
  <2>1. PICK u : u = Take(w)
    OBVIOUS
  <2>2. PICK c : c = Taken(w)
    OBVIOUS
  <2>3. PICK ino : ino = [u.ino EXCEPT ![level] = c]
    OBVIOUS
  <2>4. v = [u EXCEPT !.ino = ino]
    BY <1>1, <1>5, <2>1, <2>2, <2>3 DEF WithTop
  <2>5. /\ Sound(u) /\ Keeps(w, u) /\ Pending(u, c) /\ Pending(u, b) /\ b # c
        /\ \A y : Held(w, y) => Held(u, y) \/ y = c
    BY <1>5, <2>1, <2>2, TakeStep
  <2>6. u \in Work /\ u.ino = w.ino /\ u.errno = w.errno
    BY <1>2, <1>5, <2>1, TakeRecord
  <2>7. c \in Id /\ c # None /\ u.ino \in InodeType
    BY <2>5, <2>6, MapFacts DEF Pending, Id, Work
  <2>8. PICK z : z = LevelPlace(level)
    OBVIOUS
  <2>9. /\ z \in TopPlace
        /\ Top(u.ino, z) = u.ino[level]
        /\ ino \in InodeType
        /\ ino.numBlocks = u.ino.numBlocks
        /\ ino[level] = c
        /\ \A k \in TopPlace : Top(ino, k) = IF k = z THEN c ELSE Top(u.ino, k)
    BY <2>3, <2>7, <2>8, LevelFacts
  <2>10. /\ v \in Work /\ v.ino = ino /\ v.list = u.list /\ v.free = u.free
         /\ v.errno = u.errno
    BY <2>4, <2>6, <2>9 DEF Work
  <2>11. /\ Sound(v)
         /\ Keeps(u, v)
         /\ InMap(v.ino, v.list, c)
         /\ HoldsAll(u, v)
         /\ Pending(v, b)
    <3>1. Top(u.ino, z) = None /\ Top(v.ino, z) = c
      BY <1>5, <2>6, <2>9, <2>10
    <3>2. \A k \in TopPlace : k # z => Top(v.ino, k) = Top(u.ino, k)
      BY <2>9, <2>10
    <3> QED
      BY <3>1, <3>2, <2>5, <2>9, <2>10, LinkInInode
  <2>12. Keeps(w, v)
    BY <2>5, <2>11, KeepsTransitive
  <2>13. HoldsAll(w, v)
    BY <2>5, <2>11 DEF HoldsAll, Held
  <2>14. v.list[c] = EmptyList
    BY <2>5, <2>10 DEF Pending
  <2> QED
    BY <1>1, <1>5, <2>6, <2>7, <2>9, <2>10, <2>11, <2>12, <2>13, <2>14
<1> QED
  BY <1>3, <1>4, <1>5

\* set_block_id enters block b at index i, where get_block_id finds it then; or
\* it fails, and everything that was in the map still is.
LEMMA SetBlockIdStep ==
    ASSUME NEW w, NEW b, Sound(w), w.ok, Pending(w, b), NEW i \in Nat,
           GetBlockId(w.list, w.ino, i) = None
    PROVE  /\ Entered(w, SetBlockId(w, i, b), b)
           /\ SetBlockId(w, i, b).ok =>
                 GetBlockId(SetBlockId(w, i, b).list, SetBlockId(w, i, b).ino, i) = b
<1>1. PICK u : u = SetBlockId(w, i, b)
  OBVIOUS
<1>2. w \in Work /\ w.ino \in InodeType /\ w.list \in [Block -> ListType]
  BY DEF Sound, Work
<1>3. b \in Id /\ b # None
  BY MapFacts DEF Pending, Id
<1>4. CASE i < SingleBase
  <2>1. i \in 0..NumDirect - 1 /\ i \in TopPlace /\ i < NumDirect
    BY <1>4, Bases DEF TopPlace
  <2>2. u = [w EXCEPT !.ino.direct[i] = b]
    BY <1>1, <1>4 DEF SetBlockId
  <2>3. PICK ino : ino = [w.ino EXCEPT !.direct = [w.ino.direct EXCEPT ![i] = b]]
    OBVIOUS
  <2>4. u = [w EXCEPT !.ino = ino]
    BY <2>2, <2>3
  <2>5. /\ ino \in InodeType
        /\ ino.single = w.ino.single /\ ino.double = w.ino.double
        /\ ino.triple = w.ino.triple /\ ino.numBlocks = w.ino.numBlocks
        /\ \A k \in 0..NumDirect - 1 : ino.direct[k] = IF k = i THEN b ELSE w.ino.direct[k]
    BY <2>1, <2>3, <1>2, <1>3 DEF InodeType
  <2>6. u \in Work /\ u.ino = ino /\ u.list = w.list /\ u.free = w.free
        /\ u.errno = w.errno
    BY <2>4, <2>5, <1>2 DEF Work
  <2>7. Top(w.ino, i) = w.ino.direct[i] /\ Top(u.ino, i) = b
    BY <2>1, <2>5, <2>6 DEF Top
  <2>8. Top(w.ino, i) = None
    BY <1>4, <2>7 DEF GetBlockId
  <2>9. \A k \in TopPlace : k # i => Top(u.ino, k) = Top(w.ino, k)
    <3> SUFFICES ASSUME NEW k \in TopPlace, k # i PROVE Top(u.ino, k) = Top(w.ino, k)
      OBVIOUS
    <3>1. k < NumDirect => k \in 0..NumDirect - 1
      BY MapFacts DEF TopPlace
    <3> QED
      BY <3>1, <2>5, <2>6 DEF Top
  <2>10. /\ Sound(u)
         /\ Keeps(w, u)
         /\ InMap(u.ino, u.list, b)
         /\ HoldsAll(w, u)
    BY <2>1, <2>6, <2>7, <2>8, <2>9, LinkInInode
  <2>11. GetBlockId(u.list, u.ino, i) = b
    BY <1>4, <2>1, <2>5, <2>6 DEF GetBlockId
  <2> QED
    BY <1>1, <2>5, <2>6, <2>10, <2>11 DEF Entered
<1>5. CASE ~ (i < SingleBase) /\ i < DoubleBase
  <2>1. PICK j \in Place : j = i - SingleBase
    BY <1>5, Bases, MapFacts DEF Place
  <2>2. PICK v : v = WithTop(w, "single")
    OBVIOUS
  <2>3. u = IF ~ v.ok THEN v ELSE SetSingle(v, v.ino.single, j, b)
    BY <1>1, <1>5, <2>1, <2>2 DEF SetBlockId
  <2>4. \A l, ino : GetBlockId(l, ino, i) = GetSingle(l, ino.single, j)
    BY <1>5, <2>1 DEF GetBlockId
  <2>5. /\ Sound(v) /\ Keeps(w, v) /\ v.errno = w.errno
        /\ v.ino.numBlocks = w.ino.numBlocks
        /\ v.ok => /\ Pending(v, b)
                   /\ HoldsAll(w, v)
                   /\ v.ino.single # None
                   /\ IF w.ino.single # None THEN v = w
                      ELSE v.list[v.ino.single] = EmptyList
    BY <2>2, WithTopStep
  <2>6. CASE ~ v.ok
    BY <1>1, <2>3, <2>5, <2>6 DEF Entered
  <2>7. CASE v.ok
    <3>1. PICK s : s = v.ino.single
      OBVIOUS
    <3>2. u = SetSingle(v, s, j, b)
      BY <2>3, <2>7, <3>1
    <3>3. s \in ListBlocks(v.ino, v.list)
      BY <2>5, <2>7, <3>1 DEF ListBlocks, SinglesOf
    <3>4. GetSingle(v.list, s, j) = None
      BY <2>4, <2>5, <2>7, <3>1, MapFacts DEF GetSingle
    <3>5. Entered(v, u, b) /\ GetSingle(u.list, s, j) = b /\ u.ino = v.ino
      BY <2>5, <2>7, <3>2, <3>3, <3>4, SetSingleStep
    <3>6. GetBlockId(u.list, u.ino, i) = b
      BY <2>4, <3>1, <3>5
    <3>7. Entered(w, u, b)
      BY <2>5, <2>7, <3>5, EnteredAfter
    <3> QED
      BY <1>1, <3>6, <3>7
  <2> QED
    BY <2>6, <2>7
<1>6. CASE ~ (i < SingleBase) /\ ~ (i < DoubleBase) /\ i < TripleBase
  <2>1. PICK j \in Nat : j = i - DoubleBase /\ j < ListLength * ListLength
    BY <1>6, Bases
  <2>2. PICK v : v = WithTop(w, "double")
    OBVIOUS
  <2>3. u = IF ~ v.ok THEN v ELSE SetDouble(v, v.ino.double, j, b)
    BY <1>1, <1>6, <2>1, <2>2 DEF SetBlockId
  <2>4. \A l, ino : GetBlockId(l, ino, i) = GetDouble(l, ino.double, j)
    BY <1>6, <2>1 DEF GetBlockId
  <2>5. /\ Sound(v) /\ Keeps(w, v) /\ v.errno = w.errno
        /\ v.ino.numBlocks = w.ino.numBlocks
        /\ v.ok => /\ Pending(v, b)
                   /\ HoldsAll(w, v)
                   /\ v.ino.double # None
                   /\ IF w.ino.double # None THEN v = w
                      ELSE v.list[v.ino.double] = EmptyList
    BY <2>2, WithTopStep
  <2>6. CASE ~ v.ok
    BY <1>1, <2>3, <2>5, <2>6 DEF Entered
  <2>7. CASE v.ok
    <3>1. PICK d : d = v.ino.double
      OBVIOUS
    <3>2. u = SetDouble(v, d, j, b)
      BY <2>3, <2>7, <3>1
    <3>3. d \in DoublesOf(v.ino, v.list)
      BY <2>5, <2>7, <3>1 DEF DoublesOf
    <3>4. GetDouble(v.list, d, j) = None
      <4>1. CASE w.ino.double # None
        BY <4>1, <2>4, <2>5, <2>7, <3>1
      <4>2. CASE w.ino.double = None
        <5>1. j \div ListLength \in Place
          BY <2>1, PlaceInDouble
        <5>2. v.list[d][j \div ListLength] = None
          BY <4>2, <5>1, <2>5, <2>7, <3>1, MapFacts
        <5> QED
          BY <5>2 DEF GetDouble, GetSingle
      <4> QED
        BY <4>1, <4>2
    <3>5. /\ Entered(v, u, b)
          /\ u.ok => GetDouble(u.list, d, j) = b
          /\ u.ino = v.ino
      BY <2>1, <2>5, <2>7, <3>2, <3>3, <3>4, SetDoubleStep
    <3>6. u.ok => GetBlockId(u.list, u.ino, i) = b
      BY <2>4, <3>1, <3>5
    <3>7. Entered(w, u, b)
      BY <2>5, <2>7, <3>5, EnteredAfter
    <3> QED
      BY <1>1, <3>6, <3>7
  <2> QED
    BY <2>6, <2>7
<1>7. CASE /\ ~ (i < SingleBase) /\ ~ (i < DoubleBase) /\ ~ (i < TripleBase)
           /\ i < EndOfMap
  <2>1. PICK j \in Nat : j = i - TripleBase /\ j < ListLength * ListLength * ListLength
    BY <1>7, Bases
  <2>2. PICK v : v = WithTop(w, "triple")
    OBVIOUS
  <2>3. u = IF ~ v.ok THEN v ELSE SetTriple(v, v.ino.triple, j, b)
    BY <1>1, <1>7, <2>1, <2>2 DEF SetBlockId
  <2>4. \A l, ino : GetBlockId(l, ino, i) = GetTriple(l, ino.triple, j)
    BY <1>7, <2>1 DEF GetBlockId
  <2>5. /\ Sound(v) /\ Keeps(w, v) /\ v.errno = w.errno
        /\ v.ino.numBlocks = w.ino.numBlocks
        /\ v.ok => /\ Pending(v, b)
                   /\ HoldsAll(w, v)
                   /\ v.ino.triple # None
                   /\ IF w.ino.triple # None THEN v = w
                      ELSE v.list[v.ino.triple] = EmptyList
    BY <2>2, WithTopStep
  <2>6. CASE ~ v.ok
    BY <1>1, <2>3, <2>5, <2>6 DEF Entered
  <2>7. CASE v.ok
    <3>1. PICK t : t = v.ino.triple
      OBVIOUS
    <3>2. u = SetTriple(v, t, j, b)
      BY <2>3, <2>7, <3>1
    <3>3. t \in TriplesOf(v.ino)
      BY <2>5, <2>7, <3>1 DEF TriplesOf
    <3>4. GetTriple(v.list, t, j) = None
      <4>1. CASE w.ino.triple # None
        BY <4>1, <2>4, <2>5, <2>7, <3>1
      <4>2. CASE w.ino.triple = None
        <5>1. j \div (ListLength * ListLength) \in Place
          BY <2>1, PlaceInTriple
        <5>2. v.list[t][j \div (ListLength * ListLength)] = None
          BY <4>2, <5>1, <2>5, <2>7, <3>1, MapFacts
        <5> QED
          BY <5>2 DEF GetTriple, GetDouble
      <4> QED
        BY <4>1, <4>2
    <3>5. /\ Entered(v, u, b)
          /\ u.ok => GetTriple(u.list, t, j) = b
          /\ u.ino = v.ino
      BY <2>1, <2>5, <2>7, <3>2, <3>3, <3>4, SetTripleStep
    <3>6. u.ok => GetBlockId(u.list, u.ino, i) = b
      BY <2>4, <3>1, <3>5
    <3>7. Entered(w, u, b)
      BY <2>5, <2>7, <3>5, EnteredAfter
    <3> QED
      BY <1>1, <3>6, <3>7
  <2> QED
    BY <2>6, <2>7
<1>8. CASE /\ ~ (i < SingleBase) /\ ~ (i < DoubleBase) /\ ~ (i < TripleBase)
           /\ ~ (i < EndOfMap)
  <2>1. u = [w EXCEPT !.ok = FALSE]
    BY <1>1, <1>8 DEF SetBlockId, Failed
  <2>2. u \in Work /\ u.ino = w.ino /\ u.list = w.list /\ u.free = w.free
        /\ ~ u.ok /\ u.errno = w.errno
    BY <1>2, <2>1 DEF Work
  <2>3. Sound(u) /\ Keeps(w, u)
    BY <2>2 DEF Sound, Keeps
  <2> QED
    BY <1>1, <2>2, <2>3 DEF Entered
<1> QED
  BY <1>4, <1>5, <1>6, <1>7, <1>8

-----------------------------------------------------------------------------
(* pwrite *)

\* The work of a write: sound, and failed exactly if it has an error.
Running == {w \in Work : Sound(w) /\ (w.ok <=> w.errno = "ok")}

\* One turn of pwrite's loop.
LEMMA WriteBlockStep ==
    ASSUME NEW w \in Running, w.ok, NEW i \in Nat
    PROVE  /\ WriteBlock(w, i) \in Running
           /\ Keeps(w, WriteBlock(w, i))
           /\ WriteBlock(w, i).ino.numBlocks = w.ino.numBlocks
           /\ WriteBlock(w, i).ok =>
                 /\ HoldsAll(w, WriteBlock(w, i))
                 /\ GetBlockId(WriteBlock(w, i).list, WriteBlock(w, i).ino, i) # None
<1>1. PICK v : v = WriteBlock(w, i)
  OBVIOUS
<1>2. w \in Work /\ Sound(w) /\ w.errno = "ok"
  BY DEF Running
<1>3. CASE GetBlockId(w.list, w.ino, i) # None
  <2>1. v = w
    BY <1>1, <1>3 DEF WriteBlock
  <2> QED
    BY <1>1, <1>2, <1>3, <2>1, KeepsItself DEF HoldsAll
<1>4. CASE GetBlockId(w.list, w.ino, i) = None /\ w.free = {}
  <2>1. v = [w EXCEPT !.ok = FALSE, !.errno = "EDQUOT"]
    BY <1>1, <1>4 DEF WriteBlock
  <2>2. v \in Work /\ v.ino = w.ino /\ v.list = w.list /\ v.free = w.free
        /\ ~ v.ok /\ v.errno # "ok"
    BY <1>2, <2>1 DEF Work
  <2>3. Sound(v) /\ Keeps(w, v)
    BY <1>2, <2>2 DEF Sound, Keeps
  <2> QED
    BY <1>1, <2>2, <2>3 DEF Running
<1>5. CASE GetBlockId(w.list, w.ino, i) = None /\ w.free # {}
  <2>1. PICK t : t = Take(w)
    OBVIOUS
  <2>2. PICK b : b = Taken(w)
    OBVIOUS
  <2>3. PICK u : u = SetBlockId(t, i, b)
    OBVIOUS
  <2>4. v = IF ~ u.ok THEN [u EXCEPT !.errno = "EIO"] ELSE u
    BY <1>1, <1>5, <2>1, <2>2, <2>3 DEF WriteBlock
  <2>5. /\ Sound(t) /\ Keeps(w, t) /\ Pending(t, b)
        /\ \A y : Held(w, y) => Held(t, y) \/ y = b
        /\ GetBlockId(t.list, t.ino, i) = None
    BY <1>2, <1>5, <2>1, <2>2, TakeStep
  <2>6. t.ok /\ t.errno = "ok" /\ t.ino = w.ino
    BY <1>2, <1>5, <2>1, TakeRecord
  <2>7. Entered(t, u, b) /\ (u.ok => GetBlockId(u.list, u.ino, i) = b)
    BY <2>3, <2>5, <2>6, SetBlockIdStep
  <2>8. Keeps(w, u)
    BY <2>5, <2>7, KeepsTransitive DEF Entered
  <2>9. u \in Work /\ Sound(u) /\ u.errno = "ok" /\ u.ino.numBlocks = w.ino.numBlocks
    BY <2>6, <2>7 DEF Entered, Sound
  <2>10. CASE ~ u.ok
    <3>1. v = [u EXCEPT !.errno = "EIO"]
      BY <2>4, <2>10
    <3>2. v \in Work /\ v.ino = u.ino /\ v.list = u.list /\ v.free = u.free
          /\ ~ v.ok /\ v.errno = "EIO"
      BY <2>9, <2>10, <3>1 DEF Work
    <3>3. Sound(v) /\ Keeps(w, v)
      BY <2>8, <2>9, <3>2 DEF Sound, Keeps
    <3> QED
      BY <1>1, <2>9, <3>2, <3>3 DEF Running
  <2>11. CASE u.ok
    <3>1. v = u
      BY <2>4, <2>11
    <3>2. HoldsAll(w, u)
      BY <2>5, <2>7, <2>11 DEF Entered, HoldsAll, Held
    <3>3. b # None
      BY <2>5, MapFacts DEF Pending
    <3> QED
      BY <1>1, <2>7, <2>8, <2>9, <2>11, <3>1, <3>2, <3>3 DEF Running
  <2> QED
    BY <2>10, <2>11
<1> QED
  BY <1>3, <1>4, <1>5

\* The turns of pwrite's loop, as Write defines them.
Loop(start, first, n) ==
    LET done[k \in 0..n] ==
            IF k = 0 THEN start
            ELSE IF ~ done[k-1].ok THEN done[k-1]
            ELSE WriteBlock(done[k-1], first + k - 1)
    IN  done

LEMMA LoopRecursion ==
    ASSUME NEW start \in Running, NEW first \in Nat, NEW n \in Nat
    PROVE  /\ Loop(start, first, n)[0] = start
           /\ \A k \in 1..n : Loop(start, first, n)[k] =
                 IF ~ Loop(start, first, n)[k-1].ok THEN Loop(start, first, n)[k-1]
                 ELSE WriteBlock(Loop(start, first, n)[k-1], first + k - 1)
<1> DEFINE turn(w, k) == IF ~ w.ok THEN w ELSE WriteBlock(w, first + k - 1)
           step == [k \in 1..n |-> [w \in Running |-> turn(w, k)]]
           rec(d) == [k \in 0..n |-> IF k = 0 THEN start ELSE turn(d[k-1], k)]
<1>1. step \in Steps(n, Running)
  <2>1. ASSUME NEW k \in 1..n, NEW w \in Running PROVE turn(w, k) \in Running
    <3>1. first + k - 1 \in Nat
      OBVIOUS
    <3> QED
      BY <3>1, WriteBlockStep
  <2> HIDE DEF turn
  <2> QED
    BY <2>1 DEF Steps
<1>2. \E f : IsRun(f, n, Running, start, step)
  <2> HIDE DEF step
  <2> QED
    BY <1>1, RecursionExists
<1>3. PICK f : IsRun(f, n, Running, start, step)
  BY <1>2
<1>4. \A k \in 1..n : f[k] = turn(f[k-1], k)
  <2>1. \A k \in 1..n : k - 1 \in 0..n
    OBVIOUS
  <2>2. \A k \in 1..n : f[k-1] \in Running
    BY <1>3, <2>1 DEF IsRun
  <2> HIDE DEF turn
  <2> QED
    BY <1>3, <2>2 DEF IsRun
<1>5. f \in [0..n -> Running] /\ f[0] = start
  BY <1>3 DEF IsRun
<1>6. f = rec(f)
  <2> HIDE DEF turn
  <2> QED
    BY <1>4, <1>5
<1>7. Loop(start, first, n) = CHOOSE d : d = rec(d)
  BY DEF Loop
<1>8. PICK done : done = Loop(start, first, n)
  OBVIOUS
<1>9. done = rec(done)
  <2> HIDE DEF rec
  <2> QED
    BY <1>6, <1>7, <1>8
<1>10. \A k \in 0..n : done[k] = IF k = 0 THEN start ELSE turn(done[k-1], k)
  <2> HIDE DEF turn
  <2>1. \A d : \A k \in 0..n : rec(d)[k] = IF k = 0 THEN start ELSE turn(d[k-1], k)
    OBVIOUS
  <2> HIDE DEF rec
  <2> QED
    BY <1>9, <2>1
<1>11. done[0] = start
  BY <1>10
<1>12. \A k \in 1..n : done[k] = turn(done[k-1], k)
  <2> HIDE DEF turn
  <2> QED
    BY <1>10
<1> QED
  BY <1>8, <1>11, <1>12

\* What holds after each turn.
LEMMA LoopFacts ==
    ASSUME NEW start \in Running, start.ok, NEW first \in Nat, NEW n \in Nat,
           NEW done, done = Loop(start, first, n)
    PROVE  \A k \in 0..n :
              /\ done[k] \in Running
              /\ Keeps(start, done[k])
              /\ done[k].ino.numBlocks = start.ino.numBlocks
              /\ done[k].ok =>
                    /\ HoldsAll(start, done[k])
                    /\ k > 0 => GetBlockId(done[k].list, done[k].ino, first + k - 1) # None
<1> DEFINE Good(k) ==
              /\ done[k] \in Running
              /\ Keeps(start, done[k])
              /\ done[k].ino.numBlocks = start.ino.numBlocks
              /\ done[k].ok =>
                    /\ HoldsAll(start, done[k])
                    /\ k > 0 => GetBlockId(done[k].list, done[k].ino, first + k - 1) # None
           G == {k \in 0..n : Good(k)}
<1>0. \A k \in 1..n : done[k] = IF ~ done[k-1].ok THEN done[k-1]
                             ELSE WriteBlock(done[k-1], first + k - 1)
  BY LoopRecursion
<1>1. done[0] = start
  BY LoopRecursion
<1>2. 0 \in G
  BY <1>1, KeepsItself DEF Running, HoldsAll
<1>3. ASSUME NEW i \in 0..n, i \in G, i + 1 <= n PROVE i + 1 \in G
  <2>1. i + 1 \in 1..n /\ (i + 1) - 1 = i /\ first + (i + 1) - 1 = first + i
        /\ first + i \in Nat /\ i + 1 \in 0..n
    BY <1>3
  <2>2. PICK w : w = done[i]
    OBVIOUS
  <2>3. PICK v : v = done[i + 1]
    OBVIOUS
  <2>4. v = IF ~ w.ok THEN w ELSE WriteBlock(w, first + i)
    <3>1. PICK j \in 1..n : j = i + 1
      BY <2>1
    <3>2. j - 1 = i /\ first + j - 1 = first + i
      BY <3>1
    <3>3. done[j] = IF ~ done[j-1].ok THEN done[j-1]
                    ELSE WriteBlock(done[j-1], first + j - 1)
      BY <1>0
    <3> QED
      BY <2>2, <2>3, <3>1, <3>2, <3>3
  <2>5. /\ w \in Running
        /\ Keeps(start, w)
        /\ w.ino.numBlocks = start.ino.numBlocks
        /\ w.ok => HoldsAll(start, w)
    BY <1>3, <2>2
  <2>6. CASE ~ w.ok
    BY <2>1, <2>3, <2>4, <2>5, <2>6
  <2>7. CASE w.ok
    <3>1. /\ v \in Running
          /\ Keeps(w, v)
          /\ v.ino.numBlocks = w.ino.numBlocks
          /\ v.ok => HoldsAll(w, v) /\ GetBlockId(v.list, v.ino, first + i) # None
      BY <2>1, <2>4, <2>5, <2>7, WriteBlockStep
    <3>2. Keeps(start, v)
      BY <2>5, <3>1, KeepsTransitive
    <3>3. v.ok => HoldsAll(start, v)
      BY <2>5, <2>7, <3>1 DEF HoldsAll
    <3> QED
      BY <2>1, <2>3, <2>5, <3>1, <3>2, <3>3
  <2> QED
    BY <2>6, <2>7
<1>4. 0..n \subseteq G
  <2> HIDE DEF G
  <2> QED
    BY <1>2, <1>3, IntervalInduction
<1> QED
  BY <1>4

-----------------------------------------------------------------------------
(* Between calls *)

\* The work that a write starts with.
Start == [ino |-> inode, list |-> list, free |-> free, ok |-> TRUE, errno |-> "ok"]

\* The inductive invariant: the map is sound, num_blocks is one that it can
\* hold, and the block that ends the file is in the map.
IInv ==
    /\ Sound(Start)
    /\ inode.numBlocks <= EndOfMap
    /\ LastBlockIsMapped
    /\ reply \in {"ok", "EFBIG", "EDQUOT", "EIO"}

\* What ino points to, ino2 does too.
FewerTops(ino, ino2) ==
    \A k \in TopPlace : Top(ino, k) # None => Top(ino2, k) = Top(ino, k)

LEMMA MaxOfTwo ==
    ASSUME NEW a \in Int, NEW b \in Int
    PROVE  Max({a, b}) = IF a >= b THEN a ELSE b
<1>1. CASE a >= b
  BY <1>1 DEF Max
<1>2. CASE ~ a >= b
  BY <1>2 DEF Max
<1> QED
  BY <1>1, <1>2

\* An inode with fewer pointers has no pointer that the other one has not.
LEMMA OlderPointers ==
    ASSUME NEW ino, NEW ino2, NEW l, FewerTops(ino, ino2)
    PROVE  \A x, k, y : IsPointer(ino, l, x, k, y) => IsPointer(ino2, l, x, k, y)
<1>1. NumDirect \in Nat /\ NumDirect \in TopPlace /\ NumDirect + 1 \in TopPlace
      /\ NumDirect + 2 \in TopPlace
  BY MapFacts DEF TopPlace
<1>2. \A z : /\ Top(z, NumDirect) = z.single
             /\ Top(z, NumDirect + 1) = z.double
             /\ Top(z, NumDirect + 2) = z.triple
  BY <1>1 DEF Top
<1>3. /\ ino.single # None => ino2.single = ino.single
      /\ ino.double # None => ino2.double = ino.double
      /\ ino.triple # None => ino2.triple = ino.triple
  BY <1>1, <1>2 DEF FewerTops
<1>4. TriplesOf(ino) \subseteq TriplesOf(ino2)
  BY <1>3 DEF TriplesOf
<1>5. DoublesOf(ino, l) \subseteq DoublesOf(ino2, l)
  BY <1>3, <1>4 DEF DoublesOf
<1>6. SinglesOf(ino, l) \subseteq SinglesOf(ino2, l)
  BY <1>3, <1>5 DEF SinglesOf
<1>7. ListBlocks(ino, l) \subseteq ListBlocks(ino2, l)
  BY <1>4, <1>5, <1>6 DEF ListBlocks
<1> QED
  BY <1>7 DEF IsPointer, FewerTops

\* Soundness of some work is soundness of the state with an inode that has
\* no other pointers.
LEMMA SoundWithOlder ==
    ASSUME NEW w, Sound(w), NEW v \in Work, v.list = w.list, v.free = w.free,
           FewerTops(v.ino, w.ino)
    PROVE  Sound(v)
<1>1. \A x, k, y : IsPointer(v.ino, v.list, x, k, y) => IsPointer(w.ino, w.list, x, k, y)
  BY OlderPointers
<1>2. Tree(v.ino, v.list)
  BY <1>1 DEF Sound, Tree
<1>3. NoneFree(v.ino, v.list, v.free)
  BY <1>1 DEF Sound, NoneFree, InMap
<1> QED
  BY <1>2, <1>3 DEF Sound

\* num_blocks is not a pointer.
LEMMA SetNumBlocks ==
    ASSUME NEW ino \in InodeType, NEW m \in Nat,
           NEW ino2, ino2 = [ino EXCEPT !.numBlocks = m]
    PROVE  /\ ino2 \in InodeType
           /\ ino2.numBlocks = m
           /\ FewerTops(ino, ino2) /\ FewerTops(ino2, ino)
           /\ \A k : Top(ino2, k) = Top(ino, k)
           /\ \A l, i : GetBlockId(l, ino2, i) = GetBlockId(l, ino, i)
           /\ \A l, y : InMap(ino2, l, y) <=> InMap(ino, l, y)
<1>1. ino2 \in InodeType
  BY DEF InodeType
<1>2. /\ ino2.numBlocks = m
      /\ ino2.direct = ino.direct /\ ino2.single = ino.single
      /\ ino2.double = ino.double /\ ino2.triple = ino.triple
  BY DEF InodeType
<1>3. \A k : Top(ino2, k) = Top(ino, k)
  BY <1>2 DEF Top
<1>4. FewerTops(ino, ino2) /\ FewerTops(ino2, ino)
  BY <1>3 DEF FewerTops
<1>5. \A l, i : GetBlockId(l, ino2, i) = GetBlockId(l, ino, i)
  BY <1>2 DEF GetBlockId
<1>6. \A l, y : InMap(ino2, l, y) <=> InMap(ino, l, y)
  BY <1>4, OlderPointers DEF InMap
<1> QED
  BY <1>1, <1>2, <1>3, <1>4, <1>5, <1>6

\* A write, whether it succeeds or fails half way.
LEMMA WriteCall ==
    ASSUME IInv, NEW first \in 0..EndOfMap, NEW n \in 1..MaxWrite, Write(first, n)
    PROVE  /\ IInv'
           /\ Keeps(Start, Start')
           /\ reply' = "ok" => HoldsAll(Start, Start')
<1>1. first \in Nat /\ n \in Nat \ {0}
  BY MapAssumption, Bases
<1>2. Sound(Start) /\ Start \in Work
  BY DEF IInv, Sound
<1>3. Start \in Running /\ Start.ok
  BY <1>2 DEF Running, Start
<1>4. /\ Start.ino = inode /\ Start.list = list /\ Start.free = free
      /\ (Start').ino = inode' /\ (Start').list = list' /\ (Start').free = free'
  BY DEF Start
<1>5. CASE first >= inode.numBlocks /\ first \notin Index
  <2>1. reply' = "EFBIG" /\ UNCHANGED <<inode, list, free>>
    BY <1>5 DEF Write
  <2>2. Start' = Start
    BY <2>1 DEF Start
  <2>3. LastBlockIsMapped'
    BY <2>1 DEF IInv, LastBlockIsMapped, BlockAt
  <2> QED
    BY <1>2, <2>1, <2>2, <2>3, KeepsItself DEF IInv
<1>6. CASE ~ (first >= inode.numBlocks /\ first \notin Index)
  <2>1. PICK done : done = Loop(Start, first, n)
    OBVIOUS
  <2>2. PICK u : u = done[n]
    OBVIOUS
  <2>3. /\ list' = u.list
        /\ free' = u.free
        /\ inode' = IF u.ok
                    THEN [u.ino EXCEPT !.numBlocks = Max({u.ino.numBlocks, first + n})]
                    ELSE inode
        /\ reply' = u.errno
    BY <1>6, <2>1, <2>2 DEF Write, Loop, Start
  <2>4. /\ u \in Running
        /\ Keeps(Start, u)
        /\ u.ino.numBlocks = inode.numBlocks
        /\ u.ok => /\ HoldsAll(Start, u)
                   /\ GetBlockId(u.list, u.ino, first + n - 1) # None
    BY <1>1, <1>3, <1>4, <2>1, <2>2, LoopFacts
  <2>5. u \in Work /\ Sound(u) /\ (u.ok <=> u.errno = "ok")
    BY <2>4 DEF Running
  <2>6. reply' \in {"ok", "EFBIG", "EDQUOT", "EIO"} /\ (reply' = "ok" <=> u.ok)
    BY <2>3, <2>5 DEF Work
  <2>7. inode \in InodeType /\ inode.numBlocks \in Nat /\ inode.numBlocks <= EndOfMap
    BY <1>2, <1>4 DEF IInv, Work, InodeType
  <2>8. u.ino \in InodeType /\ u.list \in [Block -> ListType] /\ u.free \subseteq Block
    BY <2>5 DEF Work
  <2>9. LastBlockIsMapped =>
           (inode.numBlocks > 0 => GetBlockId(list, inode, inode.numBlocks - 1) # None)
    BY DEF LastBlockIsMapped, BlockAt
  <2>10. inode.numBlocks > 0 => GetBlockId(u.list, u.ino, inode.numBlocks - 1) # None
    <3>1. inode.numBlocks > 0 => inode.numBlocks - 1 \in Nat
      BY <2>7
    <3> QED
      BY <1>2, <1>4, <2>4, <2>9, <3>1, KeepsBlock DEF IInv
  <2>11. CASE ~ u.ok
    <3>1. inode' = inode
      BY <2>3, <2>11
    <3>2. Start' \in Work
      BY <2>3, <2>7, <2>8, <3>1 DEF Start, Work
    <3>3. FewerTops(inode, u.ino)
      BY <1>4, <2>4 DEF Keeps, FewerTops
    <3>4. Sound(Start')
      BY <1>4, <2>3, <2>5, <3>1, <3>2, <3>3, SoundWithOlder
    <3>5. Keeps(Start, Start')
      BY <1>4, <2>3, <2>4, <3>1 DEF Keeps
    <3>6. LastBlockIsMapped'
      <4>1. inode.numBlocks > 0 =>
               GetBlockId(list', inode', inode.numBlocks - 1)
                  = GetBlockId(list, inode, inode.numBlocks - 1)
        <5>1. inode.numBlocks > 0 => inode.numBlocks - 1 \in Nat
          BY <2>7
        <5> QED
          BY <1>2, <1>4, <2>9, <3>5, <5>1, KeepsBlock DEF IInv
      <4> QED
        BY <2>9, <3>1, <4>1 DEF IInv, LastBlockIsMapped, BlockAt
    <3> QED
      BY <2>6, <2>7, <2>11, <3>1, <3>4, <3>5, <3>6 DEF IInv
  <2>12. CASE u.ok
    <3>1. PICK m : m = IF inode.numBlocks >= first + n THEN inode.numBlocks ELSE first + n
      OBVIOUS
    <3>2. m \in Nat /\ Max({u.ino.numBlocks, first + n}) = m
      BY <1>1, <2>4, <2>7, <3>1, MaxOfTwo
    <3>3. inode' = [u.ino EXCEPT !.numBlocks = m]
      BY <2>3, <2>12, <3>2
    <3>4. /\ inode' \in InodeType
          /\ inode'.numBlocks = m
          /\ FewerTops(inode', u.ino)
          /\ \A k : Top(inode', k) = Top(u.ino, k)
          /\ \A l, i : GetBlockId(l, inode', i) = GetBlockId(l, u.ino, i)
          /\ \A l, y : InMap(inode', l, y) <=> InMap(u.ino, l, y)
      <4>1. PICK i2 : i2 = inode'
        OBVIOUS
      <4> QED
        BY <2>8, <3>2, <3>3, <4>1, SetNumBlocks
    <3>5. Start' \in Work
      BY <2>3, <2>8, <3>4 DEF Start, Work
    <3>6. Sound(Start')
      BY <1>4, <2>3, <2>5, <3>4, <3>5, SoundWithOlder
    <3>7. Keeps(Start, Start')
      BY <1>4, <2>3, <2>4, <3>4 DEF Keeps
    <3>8. HoldsAll(Start, Start')
      BY <1>4, <2>3, <2>4, <2>12, <3>4 DEF HoldsAll, Held
    <3>9. first + n - 1 < EndOfMap
      BY <1>1, <2>4, <2>12, MappedIsIndex
    <3>10. inode'.numBlocks <= EndOfMap
      BY <1>1, <2>7, <3>1, <3>4, <3>9, Bases
    <3>11. LastBlockIsMapped'
      BY <1>1, <2>3, <2>4, <2>7, <2>10, <2>12, <3>1, <3>4 DEF LastBlockIsMapped, BlockAt
    <3> QED
      BY <2>6, <3>6, <3>7, <3>8, <3>10, <3>11 DEF IInv
  <2> QED
    BY <2>11, <2>12
<1> QED
  BY <1>5, <1>6

\* An inode as ialloc makes it points to nothing.
LEMMA EmptyInodeFacts ==
    /\ EmptyInode \in InodeType
    /\ EmptyInode.numBlocks = 0
    /\ \A l, x, k, y : ~ IsPointer(EmptyInode, l, x, k, y)
<1>1. NumDirect \in Nat
  BY MapFacts
<1>2. [k \in 0..NumDirect - 1 |-> None] \in [0..NumDirect - 1 -> Id]
  BY MapFacts
<1>3. EmptyInode \in InodeType /\ EmptyInode.numBlocks = 0
  BY <1>2, MapFacts DEF EmptyInode, InodeType
<1>4. /\ EmptyInode.single = None /\ EmptyInode.double = None /\ EmptyInode.triple = None
      /\ \A k \in 0..NumDirect - 1 : EmptyInode.direct[k] = None
  BY DEF EmptyInode
<1>5. \A k \in TopPlace : Top(EmptyInode, k) = None
  BY <1>1, <1>4 DEF Top, TopPlace
<1>6. \A l : ListBlocks(EmptyInode, l) = {}
  BY <1>4 DEF ListBlocks, SinglesOf, DoublesOf, TriplesOf
<1> QED
  BY <1>3, <1>5, <1>6 DEF IsPointer

\* With such an inode any blocks and any free ones are sound.
LEMMA SoundWhenEmpty ==
    ASSUME NEW w \in Work, w.ino = EmptyInode
    PROVE  Sound(w)
BY EmptyInodeFacts DEF Sound, Tree, NoneFree, InMap

LEMMA InitIInv ==
    ASSUME Init
    PROVE  IInv
<1>1. list \in [Block -> ListType]
  BY MapFacts DEF Init
<1>2. Start \in Work /\ Start.ino = EmptyInode
  BY <1>1, EmptyInodeFacts DEF Init, Start, Work
<1>3. inode.numBlocks = 0
  BY EmptyInodeFacts DEF Init
<1> QED
  BY <1>2, <1>3, SoundWhenEmpty, Bases DEF Init, IInv, LastBlockIsMapped

LEMMA RemoveCall ==
    ASSUME IInv, Remove
    PROVE  IInv'
<1>1. /\ inode \in InodeType /\ inode.numBlocks \in Nat
      /\ list \in [Block -> ListType] /\ free \subseteq Block
  BY DEF IInv, Sound, Start, Work, InodeType
<1>2. PICK freed :
         /\ freed = {GetBlockId(list, inode, i) : i \in 0..inode.numBlocks - 1} \ {None}
         /\ free' = free \cup freed
         /\ list' = [b \in Block |-> IF b \in freed THEN EmptyList ELSE list[b]]
  BY DEF Remove
<1>3. freed \subseteq Block
  <2>1. \A i \in 0..inode.numBlocks - 1 : i \in Nat
    BY <1>1
  <2>2. \A i \in 0..inode.numBlocks - 1 : GetBlockId(list, inode, i) \in Id
    BY <1>1, <2>1, MappedInMap
  <2> QED
    BY <1>2, <2>2 DEF Id
<1>4. list' \in [Block -> ListType]
  BY <1>1, <1>2, MapFacts
<1>5. inode' = EmptyInode /\ reply' = "ok"
  BY DEF Remove
<1>6. Start' \in Work /\ (Start').ino = EmptyInode
  BY <1>1, <1>2, <1>3, <1>4, <1>5, EmptyInodeFacts DEF Start, Work
<1>7. Sound(Start')
  BY <1>6, SoundWhenEmpty
<1>8. inode'.numBlocks = 0
  BY <1>5, EmptyInodeFacts
<1> QED
  BY <1>5, <1>7, <1>8, Bases DEF IInv, LastBlockIsMapped

LEMMA StepIInv ==
    ASSUME IInv, [Next]_vars
    PROVE  IInv'
<1>1. CASE \E first \in 0..EndOfMap, n \in 1..MaxWrite : Write(first, n)
  BY <1>1, WriteCall
<1>2. CASE Remove
  BY <1>2, RemoveCall
<1>3. CASE UNCHANGED vars
  BY <1>3 DEF vars, IInv, Start, LastBlockIsMapped, BlockAt
<1> QED
  BY <1>1, <1>2, <1>3 DEF Next

LEMMA IInvHolds == Spec => []IInv
<1>1. Init => IInv
  BY InitIInv
<1>2. IInv /\ [Next]_vars => IInv'
  BY StepIInv
<1> QED
  BY <1>1, <1>2, PTL DEF Spec

-----------------------------------------------------------------------------
(* The properties of the runs *)

\* Pointers, as the properties state them, are those of the proof.
LEMMA PointersAre ==
    /\ \A x, k, y : IsPointer(inode, list, x, k, y) <=> <<x, k, y>> \in Pointers
    /\ \A p \in Pointers : \E x, k, y : p = <<x, k, y>>
<1>1. Triples = TriplesOf(inode)
  BY DEF Triples, TriplesOf
<1>2. Doubles = DoublesOf(inode, list)
  BY <1>1 DEF Doubles, DoublesOf, Listed, ListedIn, Place
<1>3. Singles = SinglesOf(inode, list)
  BY <1>2 DEF Singles, SinglesOf, Listed, ListedIn, Place
<1>4. Singles \cup Doubles \cup Triples = ListBlocks(inode, list)
  BY <1>1, <1>2, <1>3 DEF ListBlocks
<1> DEFINE direct == {<<None, k, inode.direct[k]>> : k \in 0..NumDirect - 1}
           tops == {<<None, NumDirect, inode.single>>,
                    <<None, NumDirect + 1, inode.double>>,
                    <<None, NumDirect + 2, inode.triple>>}
           below == {<<b, k, list[b][k]>> : b \in ListBlocks(inode, list), k \in Place}
<1>5. Pointers = {p \in direct \cup tops \cup below : p[3] # None}
  BY <1>4 DEF Pointers, Place
<1>6. \A p \in direct \cup tops \cup below : \E x, k, y : p = <<x, k, y>>
  OBVIOUS
<1>7. \A x, k, y : <<x, k, y>> \in below <=>
         x \in ListBlocks(inode, list) /\ k \in Place /\ y = list[x][k]
  OBVIOUS
<1>8. \A x, k, y : <<x, k, y>> \in direct \cup tops <=>
         x = None /\ k \in TopPlace /\ y = Top(inode, k)
  <2>1. NumDirect \in Nat
    BY MapFacts
  <2>2. \A x, k, y : <<x, k, y>> \in direct <=>
           x = None /\ k \in 0..NumDirect - 1 /\ y = inode.direct[k]
    OBVIOUS
  <2>3. \A x, k, y : <<x, k, y>> \in tops <=>
           x = None /\ \/ k = NumDirect /\ y = inode.single
                       \/ k = NumDirect + 1 /\ y = inode.double
                       \/ k = NumDirect + 2 /\ y = inode.triple
    OBVIOUS
  <2>4. \A x, k, y : <<x, k, y>> \in direct \cup tops <=>
           <<x, k, y>> \in direct \/ <<x, k, y>> \in tops
    OBVIOUS
  <2>5. \A k : k \in TopPlace <=> k \in 0..NumDirect - 1 \/ k = NumDirect
                                  \/ k = NumDirect + 1 \/ k = NumDirect + 2
    BY <2>1 DEF TopPlace
  <2>6. \A k \in 0..NumDirect - 1 : Top(inode, k) = inode.direct[k]
    BY <2>1 DEF Top
  <2>7. /\ Top(inode, NumDirect) = inode.single
        /\ Top(inode, NumDirect + 1) = inode.double
        /\ Top(inode, NumDirect + 2) = inode.triple
    BY <2>1 DEF Top
  <2>8. \A k, y : k \in TopPlace /\ y = Top(inode, k) <=>
           \/ k \in 0..NumDirect - 1 /\ y = inode.direct[k]
           \/ k = NumDirect /\ y = inode.single
           \/ k = NumDirect + 1 /\ y = inode.double
           \/ k = NumDirect + 2 /\ y = inode.triple
    BY <2>5, <2>6, <2>7
  <2> HIDE DEF direct, tops
  <2> QED
    BY <2>2, <2>3, <2>4, <2>8
<1>9. \A x, k, y : <<x, k, y>>[3] = y
  OBVIOUS
<1> HIDE DEF direct, tops, below
<1>10. \A x, k, y : <<x, k, y>> \in Pointers <=>
          /\ y # None
          /\ <<x, k, y>> \in direct \cup tops \/ <<x, k, y>> \in below
  BY <1>5, <1>9
<1>11. \A x, k, y : IsPointer(inode, list, x, k, y) <=> <<x, k, y>> \in Pointers
  BY <1>7, <1>8, <1>10 DEF IsPointer
<1> QED
  BY <1>5, <1>6, <1>11

LEMMA UsedIs == \A y : y \in Used <=> InMap(inode, list, y)
<1>1. ASSUME NEW y, y \in Used
      PROVE  InMap(inode, list, y)
  <2>1. PICK p \in Pointers : p[3] = y
    BY <1>1 DEF Used
  <2>2. PICK x, k, z : p = <<x, k, z>>
    BY PointersAre
  <2>3. z = y
    BY <2>1, <2>2
  <2> QED
    BY <2>2, <2>3, PointersAre DEF InMap
<1>2. ASSUME NEW y, InMap(inode, list, y)
      PROVE  y \in Used
  <2>1. PICK x, k : IsPointer(inode, list, x, k, y)
    BY <1>2 DEF InMap
  <2>2. PICK p \in Pointers : p = <<x, k, y>>
    BY <2>1, PointersAre
  <2>3. p[3] = y
    BY <2>2
  <2> QED
    BY <2>3 DEF Used
<1> QED
  BY <1>1, <1>2

\* Types: in every state the inode and the lists hold ids of blocks, and
\* num_blocks is at most what the map can hold.
THEOREM TypesHold == Spec => []TypeOK
<1>1. ASSUME IInv
      PROVE  TypeOK
  <2>1. /\ inode \in InodeType /\ list \in [Block -> ListType] /\ free \subseteq Block
        /\ inode.numBlocks <= EndOfMap
        /\ reply \in {"ok", "EFBIG", "EDQUOT", "EIO"}
    BY <1>1 DEF IInv, Sound, Start, Work
  <2>2. /\ {inode.single, inode.double, inode.triple} \subseteq Block \cup {None}
        /\ inode.direct \in [0..NumDirect - 1 -> Block \cup {None}]
        /\ inode.numBlocks \in Nat
    BY <2>1 DEF InodeType, Id
  <2>3. inode.numBlocks \in 0..EndOfMap
    BY <2>1, <2>2, Bases
  <2>4. list \in [Block -> [0..ListLength - 1 -> Block \cup {None}]]
    BY <2>1 DEF ListType, Id, Place
  <2> QED
    BY <2>1, <2>2, <2>3, <2>4 DEF TypeOK
<1> QED
  BY <1>1, IInvHolds, PTL

\* After any writes, also those that fail half way with the disk full, and any
\* removals, the map that pwrite, set_block_id and iput leave is a tree: no
\* block has two pointers to it and no block in the map is free.
THEOREM MapStaysTree == Spec => []MapIsTree
<1>1. ASSUME IInv
      PROVE  MapIsTree
  <2>1. Tree(inode, list) /\ NoneFree(inode, list, free)
    BY <1>1 DEF IInv, Sound, Start
  <2>2. ASSUME NEW p \in Pointers, NEW q \in Pointers, p[3] = q[3]
        PROVE  p = q
    <3>1. PICK x, k, y : p = <<x, k, y>>
      BY PointersAre
    <3>2. PICK x2, k2, y2 : q = <<x2, k2, y2>>
      BY PointersAre
    <3>3. y = y2
      BY <2>2, <3>1, <3>2
    <3>4. IsPointer(inode, list, x, k, y) /\ IsPointer(inode, list, x2, k2, y)
      BY <3>1, <3>2, <3>3, PointersAre
    <3>5. x = x2 /\ k = k2
      BY <2>1, <3>4 DEF Tree
    <3> QED
      BY <3>1, <3>2, <3>3, <3>5
  <2>3. Used \cap free = {}
    BY <2>1, UsedIs DEF NoneFree
  <2> QED
    BY <2>2, <2>3 DEF MapIsTree
<1> QED
  BY <1>1, IInvHolds, PTL

\* The block that ends the file is where get_block_id looks for it: num_blocks
\* never counts an index that set_block_id has not served.
THEOREM EndIsMapped == Spec => []LastBlockIsMapped
<1>1. IInv => LastBlockIsMapped
  BY DEF IInv
<1> QED
  BY <1>1, IInvHolds, PTL

\* No write, also none that fails half way and drops its copy of the inode,
\* moves or drops a block that get_block_id finds.
THEOREM WritesMoveNothing == Spec => WritesKeepBlocks
<1>1. ASSUME IInv, [Next]_vars
      PROVE  [inode' # EmptyInode =>
                 \A i \in Index : BlockAt(i) # None => BlockAt(i)' = BlockAt(i)]_vars
  <2>1. CASE \E first \in 0..EndOfMap, n \in 1..MaxWrite : Write(first, n)
    <3>1. Sound(Start) /\ Keeps(Start, Start')
      BY <1>1, <2>1, WriteCall DEF IInv
    <3>2. /\ Start.ino = inode /\ Start.list = list
          /\ (Start').ino = inode' /\ (Start').list = list'
      BY DEF Start
    <3>3. \A i \in Index : i \in Nat
      BY Bases DEF Index
    <3>4. \A i \in Nat : GetBlockId(list, inode, i) # None =>
             GetBlockId(list', inode', i) = GetBlockId(list, inode, i)
      BY <3>1, <3>2, KeepsBlock
    <3> QED
      BY <3>3, <3>4 DEF BlockAt
  <2>2. CASE Remove
    BY <2>2 DEF Remove
  <2>3. CASE UNCHANGED vars
    BY <2>3
  <2> QED
    BY <1>1, <2>1, <2>2, <2>3 DEF Next
<1> QED
  BY <1>1, IInvHolds, PTL DEF Spec, WritesKeepBlocks

\* Every block that a successful write took, and every list block that
\* set_block_id allocated for it, is in the map: none is lost.
THEOREM WritesKeepAll == Spec => WritesLoseNothing
<1>1. ASSUME IInv, [Next]_vars
      PROVE  [(reply' = "ok" /\ inode' # EmptyInode) =>
                 free \cup Used \subseteq (free \cup Used)']_vars
  <2>1. CASE \E first \in 0..EndOfMap, n \in 1..MaxWrite : Write(first, n)
    <3>1. reply' = "ok" => HoldsAll(Start, Start')
      BY <1>1, <2>1, WriteCall
    <3>2. /\ Start.ino = inode /\ Start.list = list /\ Start.free = free
          /\ (Start').ino = inode' /\ (Start').list = list' /\ (Start').free = free'
      BY DEF Start
    <3>3. \A y : y \in Used <=> InMap(inode, list, y)
      BY UsedIs
    <3>4. (\A y : y \in Used <=> InMap(inode, list, y))'
      BY UsedIs, PTL
    <3>5. ASSUME reply' = "ok", NEW y \in free \cup Used
          PROVE  y \in (free \cup Used)'
      <4>1. Held(Start, y)
        BY <3>2, <3>3, <3>5 DEF Held
      <4>2. Held(Start', y)
        BY <3>1, <3>5, <4>1 DEF HoldsAll
      <4> QED
        BY <3>2, <3>4, <4>2 DEF Held
    <3> QED
      BY <3>5
  <2>2. CASE Remove
    BY <2>2 DEF Remove
  <2>3. CASE UNCHANGED vars
    BY <2>3
  <2> QED
    BY <1>1, <2>1, <2>2, <2>3 DEF Next
<1> QED
  BY <1>1, IInvHolds, PTL DEF Spec, WritesLoseNothing

=============================================================================
