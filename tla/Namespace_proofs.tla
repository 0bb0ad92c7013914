--------------------------- MODULE Namespace_proofs ---------------------------
(***************************************************************************)
(* Proofs about Namespace for every number of inodes and blocks, size of a *)
(* directory block and set of paths.  They assume of the renames that are  *)
(* called that those that are not refused replace nothing, or a file that  *)
(* has no block, and move no directory to another one (SoundRenames): the  *)
(* others break what is proved, as the runs that expect a violation show.  *)
(* Two theorems assume more: that nothing is replaced (NothingReplaced),   *)
(* that no rename stays within a directory (NoneWithin).                   *)
(*                                                                         *)
(* A rename that replaces counts one inode too much; `over', in the        *)
(* invariant, is how many have been so far.                                *)
(*                                                                         *)
(* A handler goes from one file system to the next by what it does to      *)
(* blocks, inodes and entries.  The lemmas follow these steps, each of     *)
(* which leads from a good file system to a good one if it is taken in the *)
(* right order; where the code takes another order (an inode is freed      *)
(* before its entry is removed), the two orders are shown to end alike.    *)
(***************************************************************************)
EXTENDS Namespace, NatFacts, FiniteSetTheorems, SequenceTheorems, TLAPS

-----------------------------------------------------------------------------
(* Types, and what holds of a file system f between calls *)

\* The names that no path has, and the entry without a name.
Reserved == {"", ".", ".."}

NoEntry == Entry(0, "")

Name == (UNION {ToSet(p) : p \in Path}) \cup Reserved

Slot == 1..EntriesPerBlock

EntryType == [ino : 0..NumInodes, name : Name]

NodeType ==
    [type : {"ordinary", "directory", "free"}, links : {0, 1}, blocks : Seq(Block)]

FsType ==
    [inode : [Inode -> NodeType], dir : [Block -> [Slot -> EntryType]],
     free : Seq(Block), numFreeInodes : Int]

BlocksOf(f, i) == ToSet(f.inode[i].blocks)

FirstBlock(f, d) == f.inode[d].blocks[1]

InUse(f) == {i \in Inode : f.inode[i].type # "free"}

Dirs(f) == {d \in Inode : f.inode[d].type = "directory"}

NodesOK(f) ==
    /\ Root \in Dirs(f)
    /\ \A i \in Inode :
          /\ f.inode[i].type = "free" => f.inode[i] = FreeInode
          /\ f.inode[i].type # "free" => f.inode[i].links = 1
          /\ f.inode[i].type = "directory" => f.inode[i].blocks # << >>
          /\ f.inode[i].type = "ordinary" =>
                \A b \in BlocksOf(f, i) : f.dir[b] = EmptyBlock

\* No block is used twice, or used and free.
Once(f) ==
    /\ IsInjective(f.free)
    /\ \A i \in Inode : /\ IsInjective(f.inode[i].blocks)
                        /\ BlocksOf(f, i) \cap ToSet(f.free) = {}
    /\ \A i, j \in Inode : i # j => BlocksOf(f, i) \cap BlocksOf(f, j) = {}

\* The first two entries of a directory.  (The root's are never changed.)
DotsOK(f) ==
    /\ \A d \in Dirs(f) :
          /\ f.dir[FirstBlock(f, d)][1] = Entry(d, ".")
          /\ f.dir[FirstBlock(f, d)][2].name = ".."
          /\ f.dir[FirstBlock(f, d)][2].ino \in Inode
    /\ f.dir[FirstBlock(f, Root)][2].ino = Root

\* Slot e of block b belongs to directory d and is not one of the first two,
\* and it holds an entry.
ChildSlot(f, d, b, e) ==
    /\ d \in Dirs(f)
    /\ b \in BlocksOf(f, d)
    /\ e \in Slot
    /\ b = FirstBlock(f, d) => e \notin {1, 2}

Child(f, d, b, e) == ChildSlot(f, d, b, e) /\ f.dir[b][e].ino # 0

\* A slot without an inode is clear.
ClearOK(f) ==
    \A d, b, e : ChildSlot(f, d, b, e) /\ f.dir[b][e].ino = 0 =>
        f.dir[b][e] = NoEntry

\* An entry names an inode in use; that of a directory names its parent.
ChildrenOK(f) ==
    \A d, b, e : Child(f, d, b, e) =>
        /\ f.dir[b][e].name \notin Reserved
        /\ f.dir[b][e].ino \in InUse(f) \ {Root}
        /\ f.dir[b][e].ino \in Dirs(f) =>
              f.dir[FirstBlock(f, f.dir[b][e].ino)][2].ino = d

\* Two entries differ in the inode, and in the name if in one directory.
UniqueOK(f) ==
    \A d, b, e, d2, b2, e2 :
        /\ Child(f, d, b, e)
        /\ Child(f, d2, b2, e2)
        /\ \/ f.dir[b][e].ino = f.dir[b2][e2].ino
           \/ d = d2 /\ f.dir[b][e].name = f.dir[b2][e2].name
        => b = b2 /\ e = e2

\* The counter is the number of free inodes, and how much rename has counted too much.
CountOK(f, over) == f.numFreeInodes = over + (NumInodes - Cardinality(InUse(f)))

Good(over, f) ==
    /\ f \in FsType
    /\ NodesOK(f)
    /\ Once(f)
    /\ DotsOK(f)
    /\ ClearOK(f)
    /\ ChildrenOK(f)
    /\ UniqueOK(f)
    /\ CountOK(f, over)

\* Block b is neither free nor in an inode; inode i has no entry.
Loose(f, b) == b \in Block \ ToSet(f.free) /\ \A i \in Inode : b \notin BlocksOf(f, i)

IsNamed(f, i) == i = Root \/ \E d, b, e : Child(f, d, b, e) /\ f.dir[b][e].ino = i

\* What can be used again, as the runs' property has it.
UsableInode(f, i) == i \in Inode /\ (IsNamed(f, i) \/ i \notin InUse(f))

UsableBlock(f, b) ==
    b \in ToSet(f.free) \/ \E i \in Inode : IsNamed(f, i) /\ b \in BlocksOf(f, i)

\* From f to g nothing usable is lost.
LosesNothing(f, g) ==
    /\ \A i : UsableInode(f, i) => UsableInode(g, i)
    /\ \A b : UsableBlock(f, b) => UsableBlock(g, b)

-----------------------------------------------------------------------------
(* Sequences of blocks *)

LEMMA SeqTail ==
    ASSUME NEW s \in Seq(Block), s # << >>, IsInjective(s)
    PROVE  /\ Head(s) \in Block /\ Head(s) \in ToSet(s)
           /\ Tail(s) \in Seq(Block)
           /\ ToSet(Tail(s)) = ToSet(s) \ {Head(s)}
           /\ IsInjective(Tail(s))
<1>1. PICK t : t = Tail(s)
  OBVIOUS
<1>2. /\ t \in Seq(Block) /\ Len(t) = Len(s) - 1 /\ Head(s) \in Block
      /\ \A i \in 1..Len(t) : t[i] = s[i+1]
  BY <1>1, HeadTailProperties
<1>3. Len(s) \in Nat /\ Len(s) >= 1 /\ DOMAIN s = 1..Len(s) /\ DOMAIN t = 1..Len(t)
      /\ Head(s) = s[1]
  BY <1>2
<1>4. \A i, j \in 1..Len(s) : s[i] = s[j] => i = j
  BY <1>3 DEF IsInjective
<1>5. IsInjective(t)
  <2>1. ASSUME NEW i \in 1..Len(t), NEW j \in 1..Len(t), t[i] = t[j] PROVE i = j
    <3>1. s[i+1] = s[j+1] /\ i+1 \in 1..Len(s) /\ j+1 \in 1..Len(s)
      BY <1>2, <1>3, <2>1
    <3> QED
      BY <1>4, <3>1
  <2> QED
    BY <1>3, <2>1 DEF IsInjective
<1>6. ASSUME NEW x \in ToSet(t) PROVE x \in ToSet(s) \ {Head(s)}
  <2>1. PICK i \in 1..Len(t) : x = t[i]
    BY <1>3 DEF ToSet
  <2>2. x = s[i+1] /\ i+1 \in 1..Len(s) /\ i+1 # 1 /\ 1 \in 1..Len(s)
    BY <1>2, <1>3, <2>1
  <2> QED
    BY <1>3, <1>4, <2>2 DEF ToSet
<1>7. ASSUME NEW x \in ToSet(s), x # Head(s) PROVE x \in ToSet(t)
  <2>1. PICK i \in 1..Len(s) : x = s[i]
    BY <1>3 DEF ToSet
  <2>2. i # 1 /\ i - 1 \in 1..Len(t) /\ (i - 1) + 1 = i
    BY <1>2, <1>3, <1>7, <2>1
  <2>3. t[i-1] = x
    BY <1>2, <2>1, <2>2
  <2> QED
    BY <1>3, <2>2, <2>3 DEF ToSet
<1>8. Head(s) \in ToSet(s)
  BY <1>3 DEF ToSet
<1> QED
  BY <1>1, <1>2, <1>5, <1>6, <1>7, <1>8

LEMMA SeqAppend ==
    ASSUME NEW s \in Seq(Block), NEW b \in Block, IsInjective(s), b \notin ToSet(s)
    PROVE  /\ Append(s, b) \in Seq(Block)
           /\ Append(s, b) # << >>
           /\ ToSet(Append(s, b)) = ToSet(s) \cup {b}
           /\ IsInjective(Append(s, b))
           /\ s # << >> => Append(s, b)[1] = s[1]
<1>1. PICK t : t = Append(s, b)
  OBVIOUS
<1>2. /\ t \in Seq(Block) /\ t # << >> /\ Len(t) = Len(s) + 1
      /\ \A i \in 1..Len(s) : t[i] = s[i]
      /\ t[Len(s) + 1] = b
  BY <1>1, AppendProperties
<1>3. Len(s) \in Nat /\ DOMAIN s = 1..Len(s) /\ DOMAIN t = 1..Len(t)
  BY <1>2
<1>4. \A i, j \in 1..Len(s) : s[i] = s[j] => i = j
  BY <1>3 DEF IsInjective
<1>5. \A i \in 1..Len(s) : s[i] # b
  BY <1>3 DEF ToSet
<1>6. \A i \in 1..Len(t) : i \in 1..Len(s) \/ i = Len(s) + 1
  BY <1>2, <1>3
<1>7. IsInjective(t)
  BY <1>2, <1>3, <1>4, <1>5, <1>6 DEF IsInjective
<1>8. \A x : x \in ToSet(t) <=> x \in ToSet(s) \/ x = b
  <2>1. \A x : x \in ToSet(t) <=> \E i \in 1..Len(t) : x = t[i]
    BY <1>3 DEF ToSet
  <2>2. \A x : x \in ToSet(s) <=> \E i \in 1..Len(s) : x = s[i]
    BY <1>3 DEF ToSet
  <2>3. \A i \in 1..Len(s) : i \in 1..Len(t)
    BY <1>2, <1>3
  <2>4. Len(s) + 1 \in 1..Len(t)
    BY <1>2, <1>3
  <2> QED
    BY <1>2, <1>6, <2>1, <2>2, <2>3, <2>4
<1>9. s # << >> => t[1] = s[1]
  <2>1. s # << >> => 1 \in 1..Len(s)
    BY <1>3
  <2> QED
    BY <1>2, <2>1
<1> QED
  BY <1>1, <1>2, <1>7, <1>8, <1>9

\* The blocks of an inode on top of the free ones, the last one first.
LEMMA SeqPush ==
    ASSUME NEW s \in Seq(Block), NEW t \in Seq(Block), IsInjective(s), IsInjective(t),
           ToSet(s) \cap ToSet(t) = {}
    PROVE  /\ Reverse(s) \o t \in Seq(Block)
           /\ ToSet(Reverse(s) \o t) = ToSet(s) \cup ToSet(t)
           /\ IsInjective(Reverse(s) \o t)
<1>1. PICK n \in Nat : n = Len(s)
  OBVIOUS
<1>2. PICK m \in Nat : m = Len(t)
  OBVIOUS
<1>3. DOMAIN s = 1..n /\ DOMAIN t = 1..m
      /\ (\A i \in 1..n : s[i] \in Block) /\ (\A i \in 1..m : t[i] \in Block)
  BY <1>1, <1>2
<1>4. PICK r : r = Reverse(s)
  OBVIOUS
<1>5. r = [i \in 1..n |-> s[(n - i) + 1]]
  BY <1>1, <1>4 DEF Reverse
<1>6. \A i \in 1..n : (n - i) + 1 \in 1..n
  OBVIOUS
<1>7. r \in Seq(Block) /\ Len(r) = n
  <2>1. r \in [1..n -> Block]
    BY <1>3, <1>5, <1>6
  <2> QED
    BY <2>1
<1>8. PICK u : u = r \o t
  OBVIOUS
<1>9. /\ u \in Seq(Block) /\ Len(u) = n + m
      /\ \A i \in 1..n + m : u[i] = IF i <= n THEN r[i] ELSE t[i - n]
  BY <1>2, <1>7, <1>8, ConcatProperties
<1>10. \A i \in 1..n : i \in 1..n + m /\ u[i] = s[(n - i) + 1]
  BY <1>5, <1>9
<1>11. \A i \in 1..n + m : i \notin 1..n => i - n \in 1..m /\ u[i] = t[i - n]
  BY <1>9
<1>12. \A i, j \in 1..n : s[i] = s[j] => i = j
  BY <1>3 DEF IsInjective
<1>13. \A i, j \in 1..m : t[i] = t[j] => i = j
  BY <1>3 DEF IsInjective
<1>14. \A i \in 1..n, j \in 1..m : s[i] # t[j]
  BY <1>3 DEF ToSet
<1>15. DOMAIN u = 1..n + m
  BY <1>9
<1>16. ASSUME NEW i \in 1..n + m, NEW j \in 1..n + m, u[i] = u[j] PROVE i = j
  <2>1. CASE i \in 1..n /\ j \in 1..n
    <3>1. (n - i) + 1 = (n - j) + 1
      BY <1>6, <1>10, <1>12, <1>16, <2>1
    <3> QED
      BY <2>1, <3>1
  <2>2. CASE i \notin 1..n /\ j \notin 1..n
    <3>1. i - n = j - n
      BY <1>11, <1>13, <1>16, <2>2
    <3> QED
      BY <3>1
  <2>3. CASE i \in 1..n /\ j \notin 1..n
    <3>1. PICK k \in 1..n : u[i] = s[k]
      BY <1>6, <1>10, <2>3
    <3>2. PICK l \in 1..m : u[j] = t[l]
      BY <1>11, <2>3
    <3> QED
      BY <1>14, <1>16, <3>1, <3>2
  <2>4. CASE i \notin 1..n /\ j \in 1..n
    <3>1. PICK k \in 1..n : u[j] = s[k]
      BY <1>6, <1>10, <2>4
    <3>2. PICK l \in 1..m : u[i] = t[l]
      BY <1>11, <2>4
    <3> QED
      BY <1>14, <1>16, <3>1, <3>2
  <2> QED
    BY <2>1, <2>2, <2>3, <2>4
<1>17. IsInjective(u)
  BY <1>15, <1>16 DEF IsInjective
<1>18. ASSUME NEW x \in ToSet(u) PROVE x \in ToSet(s) \cup ToSet(t)
  <2>1. PICK i \in 1..n + m : x = u[i]
    BY <1>15 DEF ToSet
  <2> QED
    BY <1>3, <1>6, <1>10, <1>11, <2>1 DEF ToSet
<1>19. ASSUME NEW x \in ToSet(s) PROVE x \in ToSet(u)
  <2>1. PICK i \in 1..n : x = s[i]
    BY <1>3 DEF ToSet
  <2>2. PICK j \in 1..n : j = (n - i) + 1
    BY <1>6
  <2>3. (n - j) + 1 = i
    BY <2>2
  <2> QED
    BY <1>10, <1>15, <2>1, <2>2, <2>3 DEF ToSet
<1>20. ASSUME NEW x \in ToSet(t) PROVE x \in ToSet(u)
  <2>1. PICK i \in 1..m : x = t[i]
    BY <1>3 DEF ToSet
  <2>2. PICK j \in 1..n + m : j = n + i
    OBVIOUS
  <2>3. j \notin 1..n /\ j - n = i
    BY <2>2
  <2> QED
    BY <1>11, <1>15, <2>1, <2>3 DEF ToSet
<1> QED
  BY <1>4, <1>8, <1>9, <1>17, <1>18, <1>19, <1>20

LEMMA SeqOne ==
    ASSUME NEW b \in Block
    PROVE  /\ <<b>> \in Seq(Block) /\ <<b>> # << >> /\ <<b>>[1] = b
           /\ ToSet(<<b>>) = {b} /\ IsInjective(<<b>>)
<1>1. DOMAIN <<b>> = {1} /\ <<b>>[1] = b
  OBVIOUS
<1> QED
  BY <1>1 DEF ToSet, IsInjective

\* The first place of a set of places is one of them.
LEMMA FirstIsOne ==
    ASSUME NEW n \in Nat, NEW m \in Nat, NEW S \in SUBSET ((1..n) \X (1..m)), S # {}
    PROVE  First(S) \in S
<1> DEFINE K == {s[1] : s \in S}
<1>1. K \in SUBSET (0..n) /\ K # {}
  OBVIOUS
<1>2. PICK k \in K : \A j \in K : k <= j
  <2> HIDE DEF K
  <2> QED
    BY <1>1, LeastInInterval
<1> DEFINE E == {s[2] : s \in {x \in S : x[1] = k}}
<1>3. E \in SUBSET (0..m) /\ E # {}
  OBVIOUS
<1>4. PICK e \in E : \A j \in E : e <= j
  <2> HIDE DEF E
  <2> QED
    BY <1>3, LeastInInterval
<1>5. PICK s \in S : s[1] = k /\ s[2] = e
  BY <1>4
<1>6. ASSUME NEW t \in S PROVE s[1] < t[1] \/ (s[1] = t[1] /\ s[2] <= t[2])
  <2>1. t[1] \in K /\ k <= t[1] /\ t[1] \in Nat /\ k \in Nat
    BY <1>1, <1>2
  <2>2. t[1] = k => t[2] \in E /\ e <= t[2]
    BY <1>4
  <2> QED
    BY <1>5, <2>1, <2>2
<1> QED
  BY <1>6 DEF First

-----------------------------------------------------------------------------
(* What holds in a good file system *)

LEMMA ConstantFacts ==
    /\ NumInodes \in Nat \ {0} /\ NumBlocks \in Nat \ {0}
    /\ EntriesPerBlock \in Nat /\ {1, 2} \subseteq Slot
    /\ Root \in Inode /\ Inode \subseteq 0..NumInodes /\ 0 \notin Inode /\ Inode \subseteq Nat
    /\ \A i \in 0..NumInodes : i \in Inode \/ i = 0
    /\ Reserved \subseteq Name
    /\ NoEntry \in EntryType /\ NoEntry.ino = 0 /\ NoEntry.name \in Reserved
    /\ "." \in Reserved /\ ".." \in Reserved
    /\ EmptyBlock \in [Slot -> EntryType]
    /\ \A e \in Slot : EmptyBlock[e] = NoEntry
    /\ \A i \in 0..NumInodes, n \in Name : Entry(i, n) \in EntryType
    /\ \A i, n : Entry(i, n).ino = i /\ Entry(i, n).name = n
    /\ FreeInode \in NodeType /\ FreeInode.type = "free" /\ FreeInode.blocks = << >>
<1>1. /\ NumInodes \in Nat \ {0} /\ NumBlocks \in Nat \ {0}
      /\ EntriesPerBlock \in Nat /\ {1, 2} \subseteq Slot
  <2>1. NumInodes \in Nat \ {0} /\ NumBlocks \in Nat \ {0}
    BY Zenon, NamespaceAssumption
  <2>2. EntriesPerBlock \in Nat /\ EntriesPerBlock >= 3
    BY Zenon, NamespaceAssumption
  <2>3. 1 \in Slot /\ 2 \in Slot
    BY <2>2 DEF Slot
  <2> QED
    BY <2>1, <2>2, <2>3
<1>2. /\ Root \in Inode /\ Inode \subseteq 0..NumInodes /\ 0 \notin Inode /\ Inode \subseteq Nat
      /\ \A i \in 0..NumInodes : i \in Inode \/ i = 0
  BY <1>1 DEF Root, Inode
<1>3. Reserved \subseteq Name
  BY DEF Name
<1>4. \A i \in 0..NumInodes, n \in Name : Entry(i, n) \in EntryType
  BY DEF Entry, EntryType
<1>5. \A i, n : Entry(i, n).ino = i /\ Entry(i, n).name = n
  BY DEF Entry
<1>6. /\ NoEntry \in EntryType /\ NoEntry.ino = 0 /\ NoEntry.name \in Reserved
      /\ "." \in Reserved /\ ".." \in Reserved
  <2>1. PICK n : n = ""
    BY Zenon
  <2>2. n \in Reserved
    BY Zenon, <2>1 DEF Reserved
  <2>3. NoEntry = Entry(0, n)
    BY Zenon, <2>1 DEF NoEntry
  <2>4. "." \in Reserved /\ ".." \in Reserved
    BY Zenon DEF Reserved
  <2>5. 0 \in 0..NumInodes
    BY <1>1
  <2> QED
    BY <1>3, <1>4, <1>5, <2>2, <2>3, <2>4, <2>5
<1>7. EmptyBlock \in [Slot -> EntryType] /\ \A e \in Slot : EmptyBlock[e] = NoEntry
  <2>1. EmptyBlock = [e \in Slot |-> NoEntry]
    BY Zenon DEF EmptyBlock, NoEntry, Slot
  <2> QED
    BY <1>6, <2>1
<1>8. FreeInode \in NodeType /\ FreeInode.type = "free" /\ FreeInode.blocks = << >>
  BY DEF FreeInode, NodeType
<1> QED
  BY <1>1, <1>2, <1>3, <1>4, <1>5, <1>6, <1>7, <1>8

\* The paths that calls are made with.
LEMMA PathFacts ==
    ASSUME NEW p \in Path
    PROVE  /\ p \in Seq(ToSet(p)) /\ p # << >>
           /\ \A k \in 1..Len(p) : p[k] \in Name \ Reserved
           /\ Len(p) > 1 => Front(p) \in Path
<1>1. \A q \in Path : q \in Seq(ToSet(q)) /\ q # << >> /\ (Len(q) > 1 => Front(q) \in Path)
  BY Zenon, PathAssumption
<1>2. \A q \in Path : ToSet(q) \cap Reserved = {}
  BY Zenon, PathAssumption DEF Reserved
<1>4. \A k \in 1..Len(p) : p[k] \in ToSet(p)
  BY <1>1
<1> QED
  BY <1>1, <1>2, <1>4 DEF Name

LEMMA TypedFacts ==
    ASSUME NEW f \in FsType
    PROVE  /\ f.inode \in [Inode -> NodeType] /\ f.dir \in [Block -> [Slot -> EntryType]]
           /\ f.free \in Seq(Block) /\ f.numFreeInodes \in Int
           /\ ToSet(f.free) \subseteq Block
           /\ \A i \in Inode : /\ f.inode[i] \in NodeType
                               /\ f.inode[i].blocks \in Seq(Block)
                               /\ BlocksOf(f, i) \subseteq Block
           /\ \A b \in Block, e \in Slot :
                 f.dir[b][e] \in EntryType /\ f.dir[b][e].ino \in 0..NumInodes
           /\ Dirs(f) \subseteq InUse(f) /\ InUse(f) \subseteq Inode
           /\ \A i \in Inode : i \notin InUse(f) <=> f.inode[i].type = "free"
<1>1. /\ f.inode \in [Inode -> NodeType] /\ f.dir \in [Block -> [Slot -> EntryType]]
      /\ f.free \in Seq(Block) /\ f.numFreeInodes \in Int
  BY DEF FsType
<1>2. \A s \in Seq(Block) : ToSet(s) \subseteq Block
  BY DEF ToSet
<1>3. \A i \in Inode : f.inode[i] \in NodeType /\ f.inode[i].blocks \in Seq(Block)
  BY <1>1 DEF NodeType
<1>4. \A b \in Block, e \in Slot :
         f.dir[b][e] \in EntryType /\ f.dir[b][e].ino \in 0..NumInodes
  BY <1>1 DEF EntryType
<1>5. Dirs(f) \subseteq InUse(f) /\ InUse(f) \subseteq Inode
  BY DEF Dirs, InUse
<1> QED
  BY <1>1, <1>2, <1>3, <1>4, <1>5 DEF BlocksOf, InUse

LEMMA GoodFacts ==
    ASSUME NEW over \in Nat, NEW f, Good(over, f)
    PROVE  /\ f \in FsType
           /\ \A d \in Dirs(f) : FirstBlock(f, d) \in BlocksOf(f, d)
           /\ \A i, j \in Inode : \A b : b \in BlocksOf(f, i) /\ b \in BlocksOf(f, j) => i = j
           /\ \A i \in Inode : \A b \in BlocksOf(f, i) : b \notin ToSet(f.free)
           /\ \A i \in Inode \ InUse(f) : BlocksOf(f, i) = {}
           /\ \A d, b, e : ChildSlot(f, d, b, e) =>
                 d \in Inode /\ d \in InUse(f) /\ b \in Block /\ e \in Slot
           /\ Root \in Dirs(f)
           /\ \A d \in Dirs(f) : /\ f.dir[FirstBlock(f, d)][1].ino = d
                                 /\ f.dir[FirstBlock(f, d)][2].ino # 0
           /\ \A i \in Inode : IsNamed(f, i) => i \in InUse(f)
<1>1. f \in FsType /\ NodesOK(f) /\ Once(f) /\ DotsOK(f) /\ ChildrenOK(f)
  BY DEF Good
<1>2. ASSUME NEW d \in Dirs(f) PROVE FirstBlock(f, d) \in BlocksOf(f, d)
  <2>1. PICK s \in Seq(Block) : s = f.inode[d].blocks
    BY <1>1, TypedFacts DEF Dirs
  <2>2. s # << >>
    BY <1>1, <2>1 DEF NodesOK, Dirs
  <2>3. 1 \in DOMAIN s
    BY <2>2
  <2> QED
    BY <2>1, <2>3 DEF FirstBlock, BlocksOf, ToSet
<1>3. \A i, j \in Inode : \A b : b \in BlocksOf(f, i) /\ b \in BlocksOf(f, j) => i = j
  BY <1>1 DEF Once
<1>4. \A i \in Inode : \A b \in BlocksOf(f, i) : b \notin ToSet(f.free)
  BY <1>1 DEF Once
<1>5. ASSUME NEW i \in Inode \ InUse(f) PROVE BlocksOf(f, i) = {}
  <2>1. f.inode[i].blocks = << >>
    BY <1>1, <1>5, ConstantFacts DEF NodesOK, InUse
  <2>2. DOMAIN << >> = {}
    OBVIOUS
  <2> QED
    BY <2>1, <2>2 DEF BlocksOf, ToSet
<1>6. \A d, b, e : ChildSlot(f, d, b, e) =>
         d \in Inode /\ d \in InUse(f) /\ b \in Block /\ e \in Slot
  BY <1>1, TypedFacts DEF ChildSlot
<1>7. Root \in Dirs(f)
  BY <1>1 DEF NodesOK
<1>8. \A d \in Dirs(f) : /\ f.dir[FirstBlock(f, d)][1].ino = d
                         /\ f.dir[FirstBlock(f, d)][2].ino # 0
  <2>1. 0 \notin Inode
    BY ConstantFacts
  <2>2. \A d \in Dirs(f) : f.dir[FirstBlock(f, d)][1].ino = d
    BY <1>1, ConstantFacts DEF DotsOK
  <2>3. \A d \in Dirs(f) : f.dir[FirstBlock(f, d)][2].ino \in Inode
    BY <1>1 DEF DotsOK
  <2> QED
    BY <2>1, <2>2, <2>3
<1>9. \A i \in Inode : IsNamed(f, i) => i \in InUse(f)
  BY <1>1, <1>7, TypedFacts DEF IsNamed, ChildrenOK
<1> QED
  BY <1>1, <1>2, <1>3, <1>4, <1>5, <1>6, <1>7, <1>8, <1>9

-----------------------------------------------------------------------------
(* The steps of the handlers *)

\* The entries of f and g, but those of ".", "..", are the same.
SameChildren(f, g) ==
    /\ \A d, b, e : ChildSlot(g, d, b, e) <=> ChildSlot(f, d, b, e)
    /\ \A d, b, e : ChildSlot(f, d, b, e) => g.dir[b][e] = f.dir[b][e]

LEMMA SameNamed ==
    ASSUME NEW f, NEW g, SameChildren(f, g)
    PROVE  \A i : IsNamed(g, i) <=> IsNamed(f, i)
BY DEF SameChildren, IsNamed, Child

\* What happens to blocks that no inode has leaves the file system good.
LEMMA Recounted ==
    ASSUME NEW over \in Nat, NEW f, Good(over, f), NEW g \in FsType,
           NEW k \in Nat, CountOK(g, k), g.inode = f.inode,
           IsInjective(g.free), ToSet(g.free) \subseteq ToSet(f.free),
           \A i \in Inode : \A b \in BlocksOf(f, i) : g.dir[b] = f.dir[b]
    PROVE  /\ Good(k, g)
           /\ \A i : BlocksOf(g, i) = BlocksOf(f, i)
           /\ Dirs(g) = Dirs(f) /\ InUse(g) = InUse(f)
           /\ \A d : FirstBlock(g, d) = FirstBlock(f, d)
           /\ SameChildren(f, g)
           /\ \A i : IsNamed(g, i) <=> IsNamed(f, i)
<1>1. /\ \A i : BlocksOf(g, i) = BlocksOf(f, i)
      /\ Dirs(g) = Dirs(f) /\ InUse(g) = InUse(f)
      /\ \A d : FirstBlock(g, d) = FirstBlock(f, d)
  BY DEF BlocksOf, Dirs, InUse, FirstBlock
<1>2. /\ NodesOK(f) /\ Once(f) /\ DotsOK(f) /\ ClearOK(f) /\ ChildrenOK(f)
      /\ UniqueOK(f) /\ f \in FsType
  BY DEF Good
<1>3. Dirs(f) \subseteq Inode
  BY DEF Dirs
<1>4. \A d, b, e : ChildSlot(g, d, b, e) <=> ChildSlot(f, d, b, e)
  BY <1>1 DEF ChildSlot
<1>5. \A d, b, e : ChildSlot(f, d, b, e) => g.dir[b][e] = f.dir[b][e]
  BY <1>3 DEF ChildSlot
<1>6. \A d, b, e : Child(g, d, b, e) <=> Child(f, d, b, e)
  BY <1>4, <1>5 DEF Child
<1>7. \A d \in Dirs(f) : g.dir[FirstBlock(f, d)] = f.dir[FirstBlock(f, d)]
  BY <1>3, GoodFacts
<1>8. NodesOK(g)
  BY <1>1, <1>2 DEF NodesOK
<1>9. Once(g)
  BY <1>1, <1>2 DEF Once
<1>10. DotsOK(g)
  <2>1. Root \in Dirs(f)
    BY GoodFacts
  <2>2. /\ \A d \in Dirs(g) :
              /\ g.dir[FirstBlock(g, d)][1] = Entry(d, ".")
              /\ g.dir[FirstBlock(g, d)][2].name = ".."
              /\ g.dir[FirstBlock(g, d)][2].ino \in Inode
    BY <1>1, <1>2, <1>7 DEF DotsOK
  <2>3. g.dir[FirstBlock(g, Root)][2].ino = Root
    BY <1>1, <1>2, <1>7, <2>1 DEF DotsOK
  <2> QED
    BY <2>2, <2>3 DEF DotsOK
<1>11. ClearOK(g)
  <2>1. ASSUME NEW d, NEW b, NEW e, ChildSlot(g, d, b, e), g.dir[b][e].ino = 0
        PROVE  g.dir[b][e] = NoEntry
    <3>1. ChildSlot(f, d, b, e) /\ g.dir[b][e] = f.dir[b][e]
      BY <1>4, <1>5, <2>1
    <3> QED
      BY <1>2, <2>1, <3>1 DEF ClearOK
  <2> QED
    BY <2>1 DEF ClearOK
<1>12. ChildrenOK(g)
  BY <1>1, <1>2, <1>5, <1>6, <1>7 DEF ChildrenOK, Child
<1>13. UniqueOK(g)
  BY <1>2, <1>5, <1>6 DEF UniqueOK, Child
<1>14. SameChildren(f, g)
  BY <1>4, <1>5 DEF SameChildren
<1>15. Good(k, g)
  BY <1>8, <1>9, <1>10, <1>11, <1>12, <1>13 DEF Good
<1> QED
  BY <1>1, <1>14, <1>15, SameNamed

LEMMA SpareBlocks ==
    ASSUME NEW over \in Nat, NEW f, Good(over, f), NEW g \in FsType,
           g.inode = f.inode, g.numFreeInodes = f.numFreeInodes,
           IsInjective(g.free), ToSet(g.free) \subseteq ToSet(f.free),
           \A i \in Inode : \A b \in BlocksOf(f, i) : g.dir[b] = f.dir[b]
    PROVE  /\ Good(over, g)
           /\ \A i : BlocksOf(g, i) = BlocksOf(f, i)
           /\ Dirs(g) = Dirs(f) /\ InUse(g) = InUse(f)
           /\ \A d : FirstBlock(g, d) = FirstBlock(f, d)
           /\ SameChildren(f, g)
           /\ \A i : IsNamed(g, i) <=> IsNamed(f, i)
<1>1. CountOK(g, over)
  BY DEF Good, CountOK, InUse
<1> QED
  BY <1>1, Recounted

\* data_block_alloc.
LEMMA StepAlloc ==
    ASSUME NEW over \in Nat, NEW f, Good(over, f), f.free # << >>, NEW b, b = Head(f.free),
           NEW g, g = AllocBlock(f)
    PROVE  /\ Good(over, g)
           /\ g.inode = f.inode /\ g.numFreeInodes = f.numFreeInodes
           /\ \A x \in Block \ {b} : g.dir[x] = f.dir[x]
           /\ Loose(f, b) \/ b \in ToSet(f.free)
           /\ Loose(g, b) /\ g.dir[b] = EmptyBlock
           /\ \A i \in Inode : b \notin BlocksOf(f, i)
           /\ \A i : BlocksOf(g, i) = BlocksOf(f, i)
           /\ Dirs(g) = Dirs(f) /\ InUse(g) = InUse(f)
           /\ SameChildren(f, g)
           /\ \A i : IsNamed(g, i) <=> IsNamed(f, i)
           /\ \A x : UsableBlock(f, x) => UsableBlock(g, x) \/ x = b
<1>1. /\ f \in FsType /\ f.free \in Seq(Block) /\ IsInjective(f.free)
      /\ f.dir \in [Block -> [Slot -> EntryType]]
  BY GoodFacts, TypedFacts DEF Good, Once
<1>2. /\ b \in Block /\ b \in ToSet(f.free)
      /\ Tail(f.free) \in Seq(Block)
      /\ ToSet(Tail(f.free)) = ToSet(f.free) \ {b}
      /\ IsInjective(Tail(f.free))
  BY <1>1, SeqTail
<1>3. g = [f EXCEPT !.free = Tail(f.free), !.dir = [f.dir EXCEPT ![b] = EmptyBlock]]
  BY <1>1 DEF AllocBlock, FsType
<1>4. [f.dir EXCEPT ![b] = EmptyBlock] \in [Block -> [Slot -> EntryType]]
  BY <1>1, ConstantFacts
<1>5. g \in FsType
  BY <1>1, <1>2, <1>3, <1>4 DEF FsType
<1>6. /\ g.free = Tail(f.free) /\ g.inode = f.inode /\ g.numFreeInodes = f.numFreeInodes
      /\ g.dir = [f.dir EXCEPT ![b] = EmptyBlock]
  BY <1>1, <1>3 DEF FsType
<1>7. \A i \in Inode : b \notin BlocksOf(f, i)
  BY <1>2, GoodFacts
<1>8. (\A x \in Block \ {b} : g.dir[x] = f.dir[x]) /\ g.dir[b] = EmptyBlock
  BY <1>1, <1>2, <1>6
<1>9. \A i \in Inode : \A x \in BlocksOf(f, i) : g.dir[x] = f.dir[x]
  BY <1>1, <1>7, <1>8, TypedFacts
<1>10. /\ Good(over, g)
       /\ \A i : BlocksOf(g, i) = BlocksOf(f, i)
       /\ Dirs(g) = Dirs(f) /\ InUse(g) = InUse(f)
       /\ SameChildren(f, g)
       /\ \A i : IsNamed(g, i) <=> IsNamed(f, i)
  <2>1. IsInjective(g.free) /\ ToSet(g.free) \subseteq ToSet(f.free)
    BY <1>2, <1>6
  <2>2. g.inode = f.inode /\ g.numFreeInodes = f.numFreeInodes
    BY <1>6
  <2> QED
    BY <1>5, <1>9, <2>1, <2>2, SpareBlocks
<1>11. Loose(g, b)
  BY <1>2, <1>6, <1>7, <1>10 DEF Loose
<1>12. \A x : UsableBlock(f, x) => UsableBlock(g, x) \/ x = b
  BY <1>2, <1>6, <1>10 DEF UsableBlock
<1> QED
  BY <1>2, <1>6, <1>7, <1>8, <1>10, <1>11, <1>12

\* init_dir_block.
LEMMA StepInitDir ==
    ASSUME NEW over \in Nat, NEW f, Good(over, f),
           NEW b, Loose(f, b), NEW i \in Inode, NEW p \in Inode,
           NEW g, g = InitDirBlock(f, b, i, p)
    PROVE  /\ Good(over, g)
           /\ g.inode = f.inode /\ g.free = f.free
           /\ \A x \in Block \ {b} : g.dir[x] = f.dir[x]
           /\ Loose(g, b)
           /\ g.dir[b][1] = Entry(i, ".") /\ g.dir[b][2] = Entry(p, "..")
           /\ \A e \in Slot \ {1, 2} : g.dir[b][e] = NoEntry
           /\ \A j : BlocksOf(g, j) = BlocksOf(f, j)
           /\ Dirs(g) = Dirs(f) /\ InUse(g) = InUse(f)
           /\ SameChildren(f, g)
           /\ \A j : IsNamed(g, j) <=> IsNamed(f, j)
<1> DEFINE dots == [EmptyBlock EXCEPT ![1] = Entry(i, "."), ![2] = Entry(p, "..")]
<1>1. /\ f \in FsType /\ f.dir \in [Block -> [Slot -> EntryType]] /\ b \in Block
      /\ IsInjective(f.free)
  BY GoodFacts, TypedFacts DEF Good, Once, Loose
<1>2. Entry(i, ".") \in EntryType /\ Entry(p, "..") \in EntryType
  <2>1. i \in 0..NumInodes /\ p \in 0..NumInodes /\ "." \in Name /\ ".." \in Name
    BY ConstantFacts
  <2> QED
    BY <2>1, ConstantFacts
<1>3. /\ dots \in [Slot -> EntryType]
      /\ dots[1] = Entry(i, ".") /\ dots[2] = Entry(p, "..")
      /\ \A e \in Slot \ {1, 2} : dots[e] = NoEntry
  BY <1>2, ConstantFacts
<1>4. g = [f EXCEPT !.dir = [f.dir EXCEPT ![b] = dots]]
  BY <1>1 DEF InitDirBlock, FsType
<1> HIDE DEF dots
<1>5. [f.dir EXCEPT ![b] = dots] \in [Block -> [Slot -> EntryType]]
  BY <1>1, <1>3
<1>6. /\ g.inode = f.inode /\ g.free = f.free /\ g.numFreeInodes = f.numFreeInodes
      /\ g.dir = [f.dir EXCEPT ![b] = dots]
  BY <1>1, <1>4 DEF FsType
<1>7. g \in FsType
  BY <1>1, <1>4, <1>5 DEF FsType
<1>8. (\A x \in Block \ {b} : g.dir[x] = f.dir[x]) /\ g.dir[b] = dots
  BY <1>1, <1>6
<1>9. \A j \in Inode : \A x \in BlocksOf(f, j) : g.dir[x] = f.dir[x]
  BY <1>1, <1>8, TypedFacts DEF Loose
<1>10. /\ Good(over, g)
       /\ \A j : BlocksOf(g, j) = BlocksOf(f, j)
       /\ Dirs(g) = Dirs(f) /\ InUse(g) = InUse(f)
       /\ SameChildren(f, g)
       /\ \A j : IsNamed(g, j) <=> IsNamed(f, j)
  <2>1. /\ g.inode = f.inode /\ g.numFreeInodes = f.numFreeInodes
        /\ IsInjective(g.free) /\ ToSet(g.free) \subseteq ToSet(f.free)
    <3>1. IsInjective(f.free)
      BY DEF Good, Once
    <3> QED
      BY <1>6, <3>1
  <2> QED
    BY <1>7, <1>9, <2>1, SpareBlocks
<1>11. Loose(g, b)
  BY <1>6, <1>10 DEF Loose
<1> QED
  BY <1>3, <1>6, <1>8, <1>10, <1>11

\* The slots of f are slots of g with the same entries, and new ones are clear.
GrownFrom(f, g) ==
    /\ \A d, b, e : ChildSlot(f, d, b, e) => ChildSlot(g, d, b, e) /\ g.dir[b][e] = f.dir[b][e]
    /\ \A d, b, e : ChildSlot(g, d, b, e) => ChildSlot(f, d, b, e) \/ g.dir[b][e] = NoEntry

SameParents(f, g) ==
    \A d \in Dirs(f) : g.dir[FirstBlock(g, d)][2] = f.dir[FirstBlock(f, d)][2]

LEMMA GrownTree ==
    ASSUME NEW over \in Nat, NEW f, Good(over, f),
           NEW g, GrownFrom(f, g), SameParents(f, g),
           InUse(f) \subseteq InUse(g),
           \A j \in Dirs(g) : j \in Dirs(f) \/ ~ IsNamed(f, j)
    PROVE  /\ ClearOK(g) /\ ChildrenOK(g) /\ UniqueOK(g)
           /\ \A i : IsNamed(g, i) <=> IsNamed(f, i)
<1>1. ClearOK(f) /\ ChildrenOK(f) /\ UniqueOK(f)
  BY DEF Good
<1>2. \A d, b, e : Child(g, d, b, e) <=> Child(f, d, b, e)
  BY ConstantFacts DEF GrownFrom, Child
<1>3. \A d, b, e : Child(f, d, b, e) => g.dir[b][e] = f.dir[b][e]
  BY DEF GrownFrom, Child
<1>4. ClearOK(g)
  BY <1>1 DEF ClearOK, GrownFrom
<1>5. UniqueOK(g)
  BY <1>1, <1>2, <1>3 DEF UniqueOK
<1>6. \A i : IsNamed(g, i) <=> IsNamed(f, i)
  BY <1>2, <1>3 DEF IsNamed
<1>7. ASSUME NEW d, NEW b, NEW e, Child(g, d, b, e)
      PROVE  /\ g.dir[b][e].name \notin Reserved
             /\ g.dir[b][e].ino \in InUse(g) \ {Root}
             /\ g.dir[b][e].ino \in Dirs(g) =>
                   g.dir[FirstBlock(g, g.dir[b][e].ino)][2].ino = d
  <2>1. Child(f, d, b, e) /\ g.dir[b][e] = f.dir[b][e]
    BY <1>2, <1>3, <1>7
  <2>2. PICK i : i = f.dir[b][e].ino
    OBVIOUS
  <2>3. /\ f.dir[b][e].name \notin Reserved
        /\ i \in InUse(f) \ {Root}
        /\ i \in Dirs(f) => f.dir[FirstBlock(f, i)][2].ino = d
    BY <1>1, <2>1, <2>2 DEF ChildrenOK
  <2>4. IsNamed(f, i)
    BY <2>1, <2>2 DEF IsNamed
  <2> QED
    BY <2>1, <2>2, <2>3, <2>4 DEF SameParents
<1>8. ChildrenOK(g)
  BY <1>7 DEF ChildrenOK
<1> QED
  BY <1>4, <1>5, <1>6, <1>8

LEMMA InodeCount ==
    IsFiniteSet(Inode) /\ Cardinality(Inode) = NumInodes
<1>1. NumInodes \in Nat /\ NumInodes >= 1
  BY ConstantFacts
<1>2. 1 \in Int /\ NumInodes \in Int
  BY <1>1
<1>3. IsFiniteSet(1..NumInodes) /\ Cardinality(1..NumInodes) = NumInodes
  BY <1>1, <1>2, FS_Interval
<1> QED
  BY <1>3 DEF Inode

LEMMA CountFacts ==
    ASSUME NEW S \in SUBSET Inode
    PROVE  /\ Cardinality(S) \in 0..NumInodes
           /\ \A i \in Inode \ S : Cardinality(S \cup {i}) = Cardinality(S) + 1
           /\ \A i \in S : Cardinality(S \ {i}) = Cardinality(S) - 1
<1>1. IsFiniteSet(Inode) /\ Cardinality(Inode) = NumInodes
  BY InodeCount
<1>2. IsFiniteSet(S) /\ Cardinality(S) <= Cardinality(Inode)
  BY <1>1, FS_Subset
<1>3. Cardinality(S) \in Nat
  BY <1>2, FS_CardinalityType
<1>4. \A i : IsFiniteSet(S \cup {i}) /\
             (i \notin S => Cardinality(S \cup {i}) = Cardinality(S) + 1)
  BY <1>2, FS_AddElement
<1>5. \A i \in S : Cardinality(S \ {i}) = Cardinality(S) - 1
  BY <1>2, FS_RemoveElement
<1> QED
  BY <1>1, <1>2, <1>3, <1>4, <1>5

\* ialloc: an inode that was free, in no directory, without blocks.
LEMMA StepIalloc ==
    ASSUME NEW over \in Nat, NEW f, Good(over, f),
           HasFreeInode(f), NEW i, i = NextFreeInode(f),
           NEW g, g = Ialloc(f)
    PROVE  /\ Good(over, g)
           /\ g.free = f.free /\ g.dir = f.dir
           /\ i \in Inode \ InUse(f) /\ i # Root
           /\ g.inode[i] = [type |-> "ordinary", links |-> 1, blocks |-> << >>]
           /\ \A j \in Inode \ {i} : g.inode[j] = f.inode[j]
           /\ \A j \in Inode : BlocksOf(g, j) = BlocksOf(f, j)
           /\ Dirs(g) = Dirs(f) /\ InUse(g) = InUse(f) \cup {i}
           /\ SameChildren(f, g)
           /\ ~ IsNamed(f, i)
           /\ \A j : IsNamed(g, j) <=> IsNamed(f, j)
<1> DEFINE x == [type |-> "ordinary", links |-> 1, blocks |-> << >>]
<1>1. /\ f \in FsType /\ f.inode \in [Inode -> NodeType] /\ f.numFreeInodes \in Int
      /\ NodesOK(f) /\ Once(f) /\ DotsOK(f) /\ CountOK(f, over)
  BY GoodFacts, TypedFacts DEF Good
<1>2. i \in Inode /\ f.inode[i].type = "free"
  <2>1. PICK S : S = {j \in Inode : f.inode[j].type = "free"}
    OBVIOUS
  <2>2. S \in SUBSET (0..NumInodes) /\ S # {}
    BY <2>1, ConstantFacts DEF HasFreeInode
  <2>3. \E k \in S : \A j \in S : k <= j
    BY <2>2, LeastInInterval, ConstantFacts
  <2>4. Min(S) \in S
    BY <2>3 DEF Min
  <2> QED
    BY <2>1, <2>4 DEF NextFreeInode
<1>3. x \in NodeType /\ x.type = "ordinary" /\ x.links = 1 /\ x.blocks = << >>
  BY DEF NodeType
<1>4. g = [f EXCEPT !.inode = [f.inode EXCEPT ![i] = x],
                    !.numFreeInodes = f.numFreeInodes - 1]
  BY <1>1 DEF Ialloc, FsType
<1> HIDE DEF x
<1>5. [f.inode EXCEPT ![i] = x] \in [Inode -> NodeType] /\ f.numFreeInodes - 1 \in Int
  <2>1. [f.inode EXCEPT ![i] = x] \in [Inode -> NodeType]
    BY <1>1, <1>3
  <2>2. f.numFreeInodes - 1 \in Int
    BY <1>1
  <2> QED
    BY <2>1, <2>2
<1>6. /\ g.inode = [f.inode EXCEPT ![i] = x] /\ g.dir = f.dir /\ g.free = f.free
      /\ g.numFreeInodes = f.numFreeInodes - 1
  BY <1>1, <1>4 DEF FsType
<1>7. g \in FsType
  <2>1. PICK n \in Int : n = f.numFreeInodes - 1
    BY <1>5
  <2>2. PICK y \in [Inode -> NodeType] : y = [f.inode EXCEPT ![i] = x]
    BY <1>5
  <2>3. g = [f EXCEPT !.inode = y, !.numFreeInodes = n]
    BY <1>4, <2>1, <2>2
  <2> QED
    BY <1>1, <2>3 DEF FsType
<1>8. g.inode[i] = x /\ \A j \in Inode \ {i} : g.inode[j] = f.inode[j]
  BY <1>1, <1>2, <1>6
<1>9. f.inode[i].blocks = << >>
  BY <1>1, <1>2, ConstantFacts DEF NodesOK
<1>10. \A j \in Inode : g.inode[j].blocks = f.inode[j].blocks
  BY <1>3, <1>8, <1>9
<1>11. \A j \in Inode : BlocksOf(g, j) = BlocksOf(f, j) /\ FirstBlock(g, j) = FirstBlock(f, j)
  BY <1>10 DEF BlocksOf, FirstBlock
<1>12. Dirs(g) = Dirs(f)
  BY <1>2, <1>3, <1>8 DEF Dirs
<1>13. i \in Inode \ InUse(f) /\ InUse(g) = InUse(f) \cup {i}
  BY <1>2, <1>3, <1>8 DEF InUse
<1>14. i # Root /\ ~ IsNamed(f, i)
  BY <1>1, <1>13, GoodFacts, TypedFacts
<1>15. Dirs(f) \subseteq Inode
  BY DEF Dirs
<1>16. \A d, b, e : ChildSlot(g, d, b, e) <=> ChildSlot(f, d, b, e)
  BY <1>11, <1>12, <1>15 DEF ChildSlot
<1>17. SameChildren(f, g) /\ GrownFrom(f, g)
  BY <1>6, <1>16 DEF SameChildren, GrownFrom
<1>18. SameParents(f, g)
  BY <1>6, <1>11, <1>15 DEF SameParents
<1>19. /\ ClearOK(g) /\ ChildrenOK(g) /\ UniqueOK(g)
       /\ \A j : IsNamed(g, j) <=> IsNamed(f, j)
  BY <1>12, <1>13, <1>17, <1>18, GrownTree
<1>20. NodesOK(g)
  <2>1. ASSUME NEW j \in Inode
        PROVE  /\ g.inode[j].type = "free" => g.inode[j] = FreeInode
               /\ g.inode[j].type # "free" => g.inode[j].links = 1
               /\ g.inode[j].type = "directory" => g.inode[j].blocks # << >>
               /\ g.inode[j].type = "ordinary" =>
                     \A b \in BlocksOf(g, j) : g.dir[b] = EmptyBlock
    <3>1. CASE j = i
      <4>1. BlocksOf(g, i) = {}
        BY <1>11, <1>13, GoodFacts
      <4> QED
        BY <1>3, <1>8, <3>1, <4>1
    <3>2. CASE j # i
      BY <1>1, <1>6, <1>8, <1>11, <3>2 DEF NodesOK
    <3> QED
      BY <3>1, <3>2
  <2> QED
    BY <1>1, <1>12, <2>1 DEF NodesOK
<1>21. Once(g)
  BY <1>1, <1>6, <1>10, <1>11 DEF Once
<1>22. DotsOK(g)
  <2>1. Root \in Dirs(f)
    BY GoodFacts
  <2> QED
    BY <1>1, <1>6, <1>11, <1>12, <1>15, <2>1 DEF DotsOK
<1>23. CountOK(g, over)
  <2>1. InUse(f) \in SUBSET Inode
    BY DEF InUse
  <2>2. Cardinality(InUse(f) \cup {i}) = Cardinality(InUse(f)) + 1
        /\ Cardinality(InUse(f)) \in Nat
    BY <1>13, <2>1, CountFacts
  <2>3. f.numFreeInodes = over + (NumInodes - Cardinality(InUse(f)))
    BY <1>1 DEF CountOK
  <2>4. Cardinality(InUse(g)) = Cardinality(InUse(f)) + 1
    BY <1>13, <2>2
  <2>5. g.numFreeInodes = over + (NumInodes - Cardinality(InUse(g)))
    BY <1>6, <2>2, <2>3, <2>4, ConstantFacts
  <2> QED
    BY <2>5 DEF CountOK
<1>24. Good(over, g)
  BY <1>7, <1>19, <1>20, <1>21, <1>22, <1>23 DEF Good
<1> QED
  BY <1>6, <1>8, <1>11, <1>12, <1>13, <1>14, <1>17, <1>19, <1>24 DEF x

\* The file system with inode i replaced by x, as put_inode leaves it, and the
\* copies it is given: a directory with one block, and one more block.
SetNode(f, i, x) == [f EXCEPT !.inode[i] = x]

DirNode(b) == [type |-> "directory", links |-> 1, blocks |-> <<b>>]

Longer(ino, b) == [ino EXCEPT !.blocks = Append(@, b)]

LEMMA PutRecord ==
    ASSUME NEW f \in FsType, NEW i \in Inode, NEW x \in NodeType,
           NEW g, g = SetNode(f, i, x)
    PROVE  /\ g \in FsType
           /\ g.dir = f.dir /\ g.free = f.free /\ g.numFreeInodes = f.numFreeInodes
           /\ g.inode[i] = x
           /\ \A j \in Inode \ {i} : g.inode[j] = f.inode[j]
<1>1. f.inode \in [Inode -> NodeType]
  BY TypedFacts
<1>2. g = [f EXCEPT !.inode = [f.inode EXCEPT ![i] = x]]
  BY DEF FsType, SetNode
<1>3. [f.inode EXCEPT ![i] = x] \in [Inode -> NodeType]
  BY <1>1
<1>4. /\ g.dir = f.dir /\ g.free = f.free /\ g.numFreeInodes = f.numFreeInodes
      /\ g.inode = [f.inode EXCEPT ![i] = x]
  BY <1>2 DEF FsType
<1>5. g \in FsType
  BY <1>2, <1>3 DEF FsType
<1> QED
  BY <1>1, <1>4, <1>5

\* A new inode becomes a directory of one block, which holds "." and "..".
LEMMA StepMakeDir ==
    ASSUME NEW over \in Nat, NEW f, Good(over, f), NEW i \in InUse(f) \ {Root},
           f.inode[i].type = "ordinary", BlocksOf(f, i) = {}, ~ IsNamed(f, i),
           NEW b, Loose(f, b), NEW p \in Inode,
           f.dir[b][1] = Entry(i, "."), f.dir[b][2] = Entry(p, ".."),
           \A e \in Slot \ {1, 2} : f.dir[b][e] = NoEntry,
           NEW x, x = DirNode(b),
           NEW g, g = SetNode(f, i, x)
    PROVE  /\ Good(over, g)
           /\ g.free = f.free /\ g.dir = f.dir
           /\ \A j \in Inode \ {i} : g.inode[j] = f.inode[j]
           /\ BlocksOf(g, i) = {b}
           /\ \A j \in Inode \ {i} : BlocksOf(g, j) = BlocksOf(f, j)
           /\ Dirs(g) = Dirs(f) \cup {i} /\ InUse(g) = InUse(f)
           /\ FirstBlock(g, i) = b
           /\ \A d, c, e : Child(g, d, c, e) <=> Child(f, d, c, e)
           /\ \A j : IsNamed(g, j) <=> IsNamed(f, j)
<1>1. /\ f \in FsType /\ NodesOK(f) /\ Once(f) /\ DotsOK(f) /\ CountOK(f, over)
      /\ i \in Inode /\ b \in Block /\ b \notin ToSet(f.free)
      /\ \A j \in Inode : b \notin BlocksOf(f, j)
  BY TypedFacts DEF Good, Loose
<1>2. /\ <<b>> \in Seq(Block) /\ <<b>> # << >> /\ <<b>>[1] = b
      /\ ToSet(<<b>>) = {b} /\ IsInjective(<<b>>)
  BY <1>1, SeqOne
<1>3. /\ x \in NodeType /\ x.type = "directory" /\ x.links = 1 /\ x.blocks = <<b>>
  BY <1>2 DEF NodeType, DirNode
<1>4. /\ g \in FsType
      /\ g.dir = f.dir /\ g.free = f.free /\ g.numFreeInodes = f.numFreeInodes
      /\ g.inode[i] = x
      /\ \A j \in Inode \ {i} : g.inode[j] = f.inode[j]
  BY <1>1, <1>3, PutRecord
<1>5. BlocksOf(g, i) = {b} /\ FirstBlock(g, i) = b /\ IsInjective(g.inode[i].blocks)
  BY <1>2, <1>3, <1>4 DEF BlocksOf, FirstBlock
<1>6. \A j \in Inode \ {i} : BlocksOf(g, j) = BlocksOf(f, j) /\ FirstBlock(g, j) = FirstBlock(f, j)
  BY <1>4 DEF BlocksOf, FirstBlock
<1>7. Dirs(g) = Dirs(f) \cup {i} /\ i \notin Dirs(f) /\ Dirs(f) \subseteq Inode
  BY <1>1, <1>3, <1>4 DEF Dirs
<1>8. InUse(g) = InUse(f)
  BY <1>1, <1>3, <1>4 DEF InUse
<1>9. \A d, c, e : ChildSlot(f, d, c, e) =>
         ChildSlot(g, d, c, e) /\ g.dir[c][e] = f.dir[c][e]
  BY <1>4, <1>6, <1>7 DEF ChildSlot
<1>10. \A d, c, e : ChildSlot(g, d, c, e) =>
          ChildSlot(f, d, c, e) \/ g.dir[c][e] = NoEntry
  <2>1. ASSUME NEW d, NEW c, NEW e, ChildSlot(g, d, c, e), d = i
        PROVE  g.dir[c][e] = NoEntry
    <3>1. c = b /\ e \in Slot \ {1, 2}
      BY <1>5, <2>1 DEF ChildSlot
    <3> QED
      BY <1>4, <3>1
  <2> QED
    BY <1>6, <1>7, <2>1 DEF ChildSlot
<1>11. GrownFrom(f, g)
  BY <1>9, <1>10 DEF GrownFrom
<1>12. SameParents(f, g)
  BY <1>4, <1>6, <1>7 DEF SameParents
<1>13. /\ ClearOK(g) /\ ChildrenOK(g) /\ UniqueOK(g)
       /\ \A j : IsNamed(g, j) <=> IsNamed(f, j)
  BY <1>7, <1>8, <1>11, <1>12, GrownTree
<1>14. \A d, c, e : Child(g, d, c, e) <=> Child(f, d, c, e)
  BY <1>9, <1>10, ConstantFacts DEF Child
<1>15. NodesOK(g)
  <2>1. Root \in Dirs(g)
    BY <1>1, <1>7 DEF NodesOK
  <2>2. ASSUME NEW j \in Inode
        PROVE  /\ g.inode[j].type = "free" => g.inode[j] = FreeInode
               /\ g.inode[j].type # "free" => g.inode[j].links = 1
               /\ g.inode[j].type = "directory" => g.inode[j].blocks # << >>
               /\ g.inode[j].type = "ordinary" =>
                     \A c \in BlocksOf(g, j) : g.dir[c] = EmptyBlock
    <3>1. CASE j = i
      BY <1>2, <1>3, <1>4, <3>1
    <3>2. CASE j # i
      BY <1>1, <1>4, <1>6, <3>2 DEF NodesOK
    <3> QED
      BY <3>1, <3>2
  <2> QED
    BY <2>1, <2>2 DEF NodesOK
<1>16. Once(g)
  <2>1. IsInjective(g.free)
    BY <1>1, <1>4 DEF Once
  <2>2. \A j \in Inode : IsInjective(g.inode[j].blocks)
    BY <1>1, <1>4, <1>5 DEF Once
  <2>3. \A j \in Inode : BlocksOf(g, j) \cap ToSet(g.free) = {}
    BY <1>1, <1>4, <1>5, <1>6 DEF Once
  <2>4. \A j, k \in Inode : j # k => BlocksOf(g, j) \cap BlocksOf(g, k) = {}
    BY <1>1, <1>5, <1>6 DEF Once
  <2> QED
    BY <2>1, <2>2, <2>3, <2>4 DEF Once
<1>17. DotsOK(g)
  <2>1. /\ g.dir[b][1] = Entry(i, ".") /\ g.dir[b][2] = Entry(p, "..")
        /\ g.dir[b][2].ino = p /\ g.dir[b][2].name = ".."
    BY <1>4, ConstantFacts
  <2>2. \A d \in Dirs(g) :
          /\ g.dir[FirstBlock(g, d)][1] = Entry(d, ".")
          /\ g.dir[FirstBlock(g, d)][2].name = ".."
          /\ g.dir[FirstBlock(g, d)][2].ino \in Inode
    BY <1>1, <1>4, <1>5, <1>6, <1>7, <2>1 DEF DotsOK
  <2>3. g.dir[FirstBlock(g, Root)][2].ino = Root
    BY <1>1, <1>4, <1>6, ConstantFacts DEF DotsOK
  <2> QED
    BY <2>2, <2>3 DEF DotsOK
<1>18. CountOK(g, over)
  BY <1>1, <1>4, <1>8 DEF CountOK
<1>19. Good(over, g)
  BY <1>4, <1>13, <1>15, <1>16, <1>17, <1>18 DEF Good
<1> QED
  BY <1>4, <1>5, <1>6, <1>7, <1>8, <1>13, <1>14, <1>19

\* A file or directory gets one more block.
LEMMA StepAppend ==
    ASSUME NEW over \in Nat, NEW f, Good(over, f), NEW i \in InUse(f), NEW b, Loose(f, b),
           f.dir[b] = EmptyBlock,
           NEW x, x = Longer(f.inode[i], b),
           NEW g, g = SetNode(f, i, x)
    PROVE  /\ Good(over, g)
           /\ g.free = f.free /\ g.dir = f.dir
           /\ g.inode[i] = x /\ x.links = 1
           /\ \A j \in Inode \ {i} : g.inode[j] = f.inode[j]
           /\ BlocksOf(g, i) = BlocksOf(f, i) \cup {b}
           /\ \A j \in Inode \ {i} : BlocksOf(g, j) = BlocksOf(f, j)
           /\ Dirs(g) = Dirs(f) /\ InUse(g) = InUse(f)
           /\ i \in Dirs(f) => \A e \in Slot : ChildSlot(g, i, b, e)
           /\ \A d \in Dirs(f) : FirstBlock(g, d) = FirstBlock(f, d)
           /\ \A d, c, e : Child(g, d, c, e) <=> Child(f, d, c, e)
           /\ \A j : IsNamed(g, j) <=> IsNamed(f, j)
<1>1. /\ f \in FsType /\ NodesOK(f) /\ Once(f) /\ DotsOK(f) /\ CountOK(f, over)
      /\ i \in Inode /\ b \in Block /\ b \notin ToSet(f.free)
      /\ \A j \in Inode : b \notin BlocksOf(f, j)
  BY TypedFacts DEF Good, Loose
<1>2. PICK s \in Seq(Block) : s = f.inode[i].blocks /\ IsInjective(s) /\ ToSet(s) = BlocksOf(f, i)
  BY <1>1, TypedFacts DEF Once, BlocksOf
<1>3. PICK t : t = Append(s, b)
  OBVIOUS
<1>4. /\ t \in Seq(Block) /\ t # << >> /\ ToSet(t) = ToSet(s) \cup {b} /\ IsInjective(t)
      /\ s # << >> => t[1] = s[1]
  BY <1>1, <1>2, <1>3, SeqAppend
<1>5. f.inode[i] \in NodeType /\ x = [f.inode[i] EXCEPT !.blocks = t]
  BY <1>1, <1>2, <1>3, TypedFacts DEF Longer
<1>6. /\ x \in NodeType /\ x.blocks = t
      /\ x.type = f.inode[i].type /\ x.links = f.inode[i].links
  BY <1>4, <1>5 DEF NodeType
<1>7. /\ g \in FsType
      /\ g.dir = f.dir /\ g.free = f.free /\ g.numFreeInodes = f.numFreeInodes
      /\ g.inode[i] = x
      /\ \A j \in Inode \ {i} : g.inode[j] = f.inode[j]
  BY <1>1, <1>6, PutRecord
<1>8. BlocksOf(g, i) = BlocksOf(f, i) \cup {b} /\ IsInjective(g.inode[i].blocks)
  BY <1>2, <1>4, <1>6, <1>7 DEF BlocksOf
<1>9. \A j \in Inode \ {i} : BlocksOf(g, j) = BlocksOf(f, j) /\ FirstBlock(g, j) = FirstBlock(f, j)
  BY <1>7 DEF BlocksOf, FirstBlock
<1>10. Dirs(g) = Dirs(f) /\ Dirs(f) \subseteq Inode
  BY <1>1, <1>6, <1>7 DEF Dirs
<1>11. InUse(g) = InUse(f)
  BY <1>1, <1>6, <1>7 DEF InUse
<1>12. \A d \in Dirs(f) : FirstBlock(g, d) = FirstBlock(f, d) /\ FirstBlock(f, d) # b
  <2>1. i \in Dirs(f) => s # << >>
    BY <1>1, <1>2 DEF NodesOK, Dirs
  <2>2. i \in Dirs(f) => FirstBlock(g, i) = FirstBlock(f, i)
    BY <1>2, <1>4, <1>6, <1>7, <2>1 DEF FirstBlock
  <2>3. \A d \in Dirs(f) : FirstBlock(f, d) \in BlocksOf(f, d)
    BY GoodFacts
  <2> QED
    BY <1>1, <1>9, <1>10, <2>2, <2>3
<1>13. \A d, c, e : ChildSlot(f, d, c, e) =>
         ChildSlot(g, d, c, e) /\ g.dir[c][e] = f.dir[c][e]
  BY <1>7, <1>8, <1>9, <1>10, <1>12 DEF ChildSlot
<1>14. \A d, c, e : ChildSlot(g, d, c, e) =>
          ChildSlot(f, d, c, e) \/ g.dir[c][e] = NoEntry
  <2>1. ASSUME NEW d, NEW c, NEW e, ChildSlot(g, d, c, e), c = b
        PROVE  g.dir[c][e] = NoEntry
    BY <1>7, <2>1, ConstantFacts DEF ChildSlot
  <2> QED
    BY <1>8, <1>9, <1>10, <1>12, <2>1 DEF ChildSlot
<1>15. GrownFrom(f, g)
  BY <1>13, <1>14 DEF GrownFrom
<1>16. SameParents(f, g)
  BY <1>7, <1>12 DEF SameParents
<1>17. /\ ClearOK(g) /\ ChildrenOK(g) /\ UniqueOK(g)
       /\ \A j : IsNamed(g, j) <=> IsNamed(f, j)
  BY <1>10, <1>11, <1>15, <1>16, GrownTree
<1>18. \A d, c, e : Child(g, d, c, e) <=> Child(f, d, c, e)
  BY <1>13, <1>14, ConstantFacts DEF Child
<1>19. NodesOK(g)
  <2>1. Root \in Dirs(g)
    BY <1>1, <1>10 DEF NodesOK
  <2>2. ASSUME NEW j \in Inode
        PROVE  /\ g.inode[j].type = "free" => g.inode[j] = FreeInode
               /\ g.inode[j].type # "free" => g.inode[j].links = 1
               /\ g.inode[j].type = "directory" => g.inode[j].blocks # << >>
               /\ g.inode[j].type = "ordinary" =>
                     \A c \in BlocksOf(g, j) : g.dir[c] = EmptyBlock
    <3>1. CASE j = i
      <4>1. f.inode[i].type # "free" /\ f.inode[i].links = 1
        BY <1>1 DEF NodesOK, InUse
      <4>2. f.inode[i].type = "ordinary" => \A c \in BlocksOf(f, i) : f.dir[c] = EmptyBlock
        BY <1>1 DEF NodesOK
      <4> QED
        BY <1>4, <1>6, <1>7, <1>8, <3>1, <4>1, <4>2
    <3>2. CASE j # i
      BY <1>1, <1>7, <1>9, <3>2 DEF NodesOK
    <3> QED
      BY <3>1, <3>2
  <2> QED
    BY <2>1, <2>2 DEF NodesOK
<1>20. Once(g)
  <2>1. IsInjective(g.free)
    BY <1>1, <1>7 DEF Once
  <2>2. \A j \in Inode : IsInjective(g.inode[j].blocks)
    BY <1>1, <1>7, <1>8 DEF Once
  <2>3. \A j \in Inode : BlocksOf(g, j) \cap ToSet(g.free) = {}
    BY <1>1, <1>7, <1>8, <1>9 DEF Once
  <2>4. \A j, k \in Inode : j # k => BlocksOf(g, j) \cap BlocksOf(g, k) = {}
    BY <1>1, <1>8, <1>9 DEF Once
  <2> QED
    BY <2>1, <2>2, <2>3, <2>4 DEF Once
<1>21. DotsOK(g)
  <2>1. Root \in Dirs(f)
    BY GoodFacts
  <2> QED
    BY <1>1, <1>7, <1>10, <1>12, <2>1 DEF DotsOK
<1>22. CountOK(g, over)
  BY <1>1, <1>7, <1>11 DEF CountOK
<1>23. Good(over, g)
  BY <1>7, <1>17, <1>19, <1>20, <1>21, <1>22 DEF Good
<1>24. i \in Dirs(f) => \A e \in Slot : ChildSlot(g, i, b, e)
  BY <1>8, <1>10, <1>12 DEF ChildSlot
<1>25. x.links = 1
  BY <1>1, <1>6 DEF NodesOK, InUse
<1> QED
  BY <1>7, <1>8, <1>9, <1>10, <1>11, <1>12, <1>17, <1>18, <1>23, <1>24, <1>25

\* The file system with another entry in one slot.
SetEntry(f, b, e, x) == [f EXCEPT !.dir[b][e] = x]

LEMMA EntryRecord ==
    ASSUME NEW f \in FsType, NEW b \in Block, NEW e \in Slot, NEW x \in EntryType,
           NEW g, g = SetEntry(f, b, e, x)
    PROVE  /\ g \in FsType
           /\ g.inode = f.inode /\ g.free = f.free /\ g.numFreeInodes = f.numFreeInodes
           /\ g.dir[b][e] = x
           /\ \A c \in Block \ {b} : g.dir[c] = f.dir[c]
           /\ \A c \in Block, k \in Slot : g.dir[c][k] = f.dir[c][k] \/ (c = b /\ k = e)
<1>1. f.dir \in [Block -> [Slot -> EntryType]]
  BY TypedFacts
<1>2. PICK h : h = [f.dir[b] EXCEPT ![e] = x]
  OBVIOUS
<1>3. /\ h \in [Slot -> EntryType] /\ h[e] = x
      /\ \A k \in Slot \ {e} : h[k] = f.dir[b][k]
  BY <1>1, <1>2
<1>4. g = [f EXCEPT !.dir = [f.dir EXCEPT ![b] = h]]
  BY <1>1, <1>2 DEF FsType, SetEntry
<1>5. [f.dir EXCEPT ![b] = h] \in [Block -> [Slot -> EntryType]]
  BY <1>1, <1>3
<1>6. /\ g.inode = f.inode /\ g.free = f.free /\ g.numFreeInodes = f.numFreeInodes
      /\ g.dir = [f.dir EXCEPT ![b] = h]
  BY <1>4 DEF FsType
<1>7. g \in FsType
  BY <1>4, <1>5 DEF FsType
<1>8. g.dir[b] = h /\ \A c \in Block \ {b} : g.dir[c] = f.dir[c]
  BY <1>1, <1>6
<1> QED
  BY <1>3, <1>6, <1>7, <1>8

\* What holds of either change of an entry.
LEMMA EntryFrame ==
    ASSUME NEW over \in Nat, NEW f, Good(over, f),
           NEW p, NEW b, NEW e, ChildSlot(f, p, b, e),
           NEW x \in EntryType, NEW g, g = SetEntry(f, b, e, x)
    PROVE  /\ g \in FsType /\ NodesOK(g) /\ Once(g) /\ DotsOK(g) /\ CountOK(g, over)
           /\ g.inode = f.inode /\ g.free = f.free
           /\ g.dir[b][e] = x
           /\ \A d, c, k : ChildSlot(f, d, c, k) =>
                 g.dir[c][k] = f.dir[c][k] \/ (d = p /\ c = b /\ k = e)
           /\ \A d, c, k : ChildSlot(g, d, c, k) <=> ChildSlot(f, d, c, k)
           /\ Dirs(g) = Dirs(f) /\ InUse(g) = InUse(f)
           /\ \A j : BlocksOf(g, j) = BlocksOf(f, j) /\ FirstBlock(g, j) = FirstBlock(f, j)
           /\ \A d \in Dirs(f) : g.dir[FirstBlock(f, d)][2] = f.dir[FirstBlock(f, d)][2]
<1>1. /\ f \in FsType /\ NodesOK(f) /\ Once(f) /\ DotsOK(f) /\ CountOK(f, over)
      /\ b \in Block /\ e \in Slot /\ p \in Dirs(f) /\ p \in Inode
      /\ b \in BlocksOf(f, p)
      /\ b = FirstBlock(f, p) => e \notin {1, 2}
  BY GoodFacts DEF Good, ChildSlot
<1>2. /\ g \in FsType
      /\ g.inode = f.inode /\ g.free = f.free /\ g.numFreeInodes = f.numFreeInodes
      /\ g.dir[b][e] = x
      /\ \A c \in Block \ {b} : g.dir[c] = f.dir[c]
      /\ \A c \in Block, k \in Slot : g.dir[c][k] = f.dir[c][k] \/ (c = b /\ k = e)
  BY <1>1, EntryRecord
<1>3. /\ Dirs(g) = Dirs(f) /\ InUse(g) = InUse(f)
      /\ \A j : BlocksOf(g, j) = BlocksOf(f, j) /\ FirstBlock(g, j) = FirstBlock(f, j)
  BY <1>2 DEF Dirs, InUse, BlocksOf, FirstBlock
<1>4. \A d, c, k : ChildSlot(g, d, c, k) <=> ChildSlot(f, d, c, k)
  BY <1>3 DEF ChildSlot
<1>5. \A j \in Inode : b \in BlocksOf(f, j) => j = p
  BY <1>1, GoodFacts
<1>6. Dirs(f) \subseteq Inode /\ 1 \in Slot /\ 2 \in Slot /\ Root \in Dirs(f)
      /\ \A d \in Dirs(f) : FirstBlock(f, d) \in BlocksOf(f, d) /\ FirstBlock(f, d) \in Block
  BY <1>1, GoodFacts, TypedFacts, ConstantFacts DEF Dirs
<1>7. \A d, c, k : ChildSlot(f, d, c, k) =>
         g.dir[c][k] = f.dir[c][k] \/ (d = p /\ c = b /\ k = e)
  <2>1. ASSUME NEW d, NEW c, NEW k, ChildSlot(f, d, c, k)
        PROVE  g.dir[c][k] = f.dir[c][k] \/ (d = p /\ c = b /\ k = e)
    <3>1. d \in Inode /\ c \in Block /\ k \in Slot /\ c \in BlocksOf(f, d)
      BY <2>1, GoodFacts DEF ChildSlot
    <3> QED
      BY <1>2, <1>5, <3>1
  <2> QED
    BY <2>1
<1>8. \A d \in Dirs(f) : /\ g.dir[FirstBlock(f, d)][1] = f.dir[FirstBlock(f, d)][1]
                         /\ g.dir[FirstBlock(f, d)][2] = f.dir[FirstBlock(f, d)][2]
  <2>1. ASSUME NEW d \in Dirs(f)
        PROVE  /\ g.dir[FirstBlock(f, d)][1] = f.dir[FirstBlock(f, d)][1]
               /\ g.dir[FirstBlock(f, d)][2] = f.dir[FirstBlock(f, d)][2]
    <3>1. FirstBlock(f, d) \in Block /\ (FirstBlock(f, d) = b => d = p)
      BY <1>5, <1>6
    <3> QED
      BY <1>1, <1>2, <1>6, <3>1
  <2> QED
    BY <2>1
<1>9. NodesOK(g)
  <2>1. ASSUME NEW j \in Inode, f.inode[j].type = "ordinary", NEW c \in BlocksOf(f, j)
        PROVE  g.dir[c] = EmptyBlock
    <3>1. j # p
      BY <1>1, <2>1 DEF Dirs
    <3>2. c # b /\ c \in Block
      BY <1>1, <1>5, <3>1, TypedFacts
    <3>3. f.dir[c] = EmptyBlock
      BY <1>1, <2>1 DEF NodesOK
    <3> QED
      BY <1>2, <3>2, <3>3
  <2> QED
    BY <1>1, <1>2, <1>3, <2>1 DEF NodesOK
<1>10. Once(g)
  BY <1>1, <1>2, <1>3 DEF Once
<1>11. DotsOK(g)
  BY <1>1, <1>3, <1>6, <1>8 DEF DotsOK
<1>12. CountOK(g, over)
  BY <1>1, <1>2, <1>3 DEF CountOK
<1> QED
  BY <1>2, <1>3, <1>4, <1>7, <1>8, <1>9, <1>10, <1>11, <1>12

\* An inode without an entry gets one, under a name that is new in directory p.
LEMMA StepSetEntry ==
    ASSUME NEW over \in Nat, NEW f, Good(over, f),
           NEW p, NEW b, NEW e, ChildSlot(f, p, b, e),
           f.dir[b][e].ino = 0,
           NEW i \in InUse(f) \ {Root}, ~ IsNamed(f, i),
           i \in Dirs(f) => f.dir[FirstBlock(f, i)][2].ino = p,
           NEW n \in Name \ Reserved,
           \A c, k : Child(f, p, c, k) => f.dir[c][k].name # n,
           NEW g, g = SetEntry(f, b, e, Entry(i, n))
    PROVE  /\ Good(over, g)
           /\ g.inode = f.inode /\ g.free = f.free
           /\ \A j : BlocksOf(g, j) = BlocksOf(f, j)
           /\ Dirs(g) = Dirs(f) /\ InUse(g) = InUse(f)
           /\ \A j : IsNamed(g, j) <=> IsNamed(f, j) \/ j = i
<1>1. PICK x : x = Entry(i, n)
  OBVIOUS
<1>2. x \in EntryType /\ x.ino = i /\ x.name = n /\ i # 0
  <2>1. i \in 0..NumInodes /\ i # 0
    BY ConstantFacts DEF InUse
  <2> QED
    BY <1>1, <2>1, ConstantFacts
<1>3. /\ g \in FsType /\ NodesOK(g) /\ Once(g) /\ DotsOK(g) /\ CountOK(g, over)
      /\ g.inode = f.inode /\ g.free = f.free
      /\ g.dir[b][e] = x
      /\ \A d, c, k : ChildSlot(f, d, c, k) =>
            g.dir[c][k] = f.dir[c][k] \/ (d = p /\ c = b /\ k = e)
      /\ \A d, c, k : ChildSlot(g, d, c, k) <=> ChildSlot(f, d, c, k)
      /\ Dirs(g) = Dirs(f) /\ InUse(g) = InUse(f)
      /\ \A j : BlocksOf(g, j) = BlocksOf(f, j) /\ FirstBlock(g, j) = FirstBlock(f, j)
      /\ \A d \in Dirs(f) : g.dir[FirstBlock(f, d)][2] = f.dir[FirstBlock(f, d)][2]
  BY <1>1, <1>2, EntryFrame
<1>4. \A d, c, k : Child(g, d, c, k) <=> Child(f, d, c, k) \/ (d = p /\ c = b /\ k = e)
  <2>1. ASSUME NEW d, NEW c, NEW k, Child(g, d, c, k)
        PROVE  Child(f, d, c, k) \/ (d = p /\ c = b /\ k = e)
    BY <1>3, <2>1 DEF Child
  <2>2. ASSUME NEW d, NEW c, NEW k, Child(f, d, c, k)
        PROVE  Child(g, d, c, k)
    BY <1>2, <1>3, <2>2 DEF Child
  <2>3. Child(g, p, b, e)
    BY <1>2, <1>3 DEF Child
  <2> QED
    BY <2>1, <2>2, <2>3
<1>5. ~ Child(f, p, b, e)
  BY DEF Child
<1>6. \A d, c, k : Child(f, d, c, k) => g.dir[c][k] = f.dir[c][k]
  BY <1>3, <1>5 DEF Child
<1>7. ClearOK(f) /\ ChildrenOK(f) /\ UniqueOK(f)
  BY DEF Good
<1>8. ClearOK(g)
  BY <1>2, <1>3, <1>7 DEF ClearOK
<1>9. \A d, c, k : Child(f, d, c, k) => f.dir[c][k].ino # i
  BY DEF IsNamed
<1>10. ChildrenOK(g)
  <2>1. ASSUME NEW d, NEW c, NEW k, Child(g, d, c, k)
        PROVE  /\ g.dir[c][k].name \notin Reserved
               /\ g.dir[c][k].ino \in InUse(g) \ {Root}
               /\ g.dir[c][k].ino \in Dirs(g) =>
                     g.dir[FirstBlock(g, g.dir[c][k].ino)][2].ino = d
    <3>1. CASE Child(f, d, c, k)
      BY <1>3, <1>6, <1>7, <3>1 DEF ChildrenOK
    <3>2. CASE d = p /\ c = b /\ k = e
      BY <1>2, <1>3, <3>2
    <3> QED
      BY <1>4, <2>1, <3>1, <3>2
  <2> QED
    BY <2>1 DEF ChildrenOK
<1>11. UniqueOK(g)
  <2>1. ASSUME NEW d, NEW c, NEW k, NEW d2, NEW c2, NEW k2,
               Child(g, d, c, k), Child(g, d2, c2, k2),
               \/ g.dir[c][k].ino = g.dir[c2][k2].ino
               \/ d = d2 /\ g.dir[c][k].name = g.dir[c2][k2].name
        PROVE  c = c2 /\ k = k2
    <3>1. CASE Child(f, d, c, k) /\ Child(f, d2, c2, k2)
      <4>1. g.dir[c][k] = f.dir[c][k] /\ g.dir[c2][k2] = f.dir[c2][k2]
        BY <1>6, <3>1
      <4> QED
        BY <1>7, <2>1, <3>1, <4>1 DEF UniqueOK
    <3>2. CASE Child(f, d, c, k) /\ d2 = p /\ c2 = b /\ k2 = e
      BY <1>2, <1>3, <1>6, <1>9, <2>1, <3>2
    <3>3. CASE Child(f, d2, c2, k2) /\ d = p /\ c = b /\ k = e
      BY <1>2, <1>3, <1>6, <1>9, <2>1, <3>3
    <3>4. CASE d = p /\ c = b /\ k = e /\ d2 = p /\ c2 = b /\ k2 = e
      BY <3>4
    <3> QED
      BY <1>4, <2>1, <3>1, <3>2, <3>3, <3>4
  <2> QED
    BY <2>1 DEF UniqueOK
<1>12. \A j : IsNamed(g, j) <=> IsNamed(f, j) \/ j = i
  <2>1. IsNamed(g, i)
    BY <1>2, <1>3, <1>4 DEF IsNamed
  <2>2. ASSUME NEW j, IsNamed(f, j) PROVE IsNamed(g, j)
    BY <1>4, <1>6, <2>2 DEF IsNamed
  <2>3. ASSUME NEW j, IsNamed(g, j) PROVE IsNamed(f, j) \/ j = i
    BY <1>2, <1>3, <1>4, <1>6, <2>3 DEF IsNamed
  <2> QED
    BY <2>1, <2>2, <2>3
<1>13. Good(over, g)
  BY <1>3, <1>8, <1>10, <1>11 DEF Good
<1> QED
  BY <1>3, <1>12, <1>13

\* The one entry of an inode is removed.
LEMMA StepClearEntry ==
    ASSUME NEW over \in Nat, NEW f, Good(over, f), NEW p, NEW b, NEW e, Child(f, p, b, e),
           NEW i, i = f.dir[b][e].ino,
           NEW g, g = SetEntry(f, b, e, NoEntry)
    PROVE  /\ Good(over, g)
           /\ g.inode = f.inode /\ g.free = f.free
           /\ \A j : BlocksOf(g, j) = BlocksOf(f, j)
           /\ Dirs(g) = Dirs(f) /\ InUse(g) = InUse(f)
           /\ i \in InUse(f) \ {Root}
           /\ \A j : IsNamed(g, j) <=> IsNamed(f, j) /\ j # i
           /\ \A d, c, k : Child(g, d, c, k) =>
                 Child(f, d, c, k) /\ g.dir[c][k] = f.dir[c][k]
           /\ \A d, c, k : Child(f, d, c, k) /\ f.dir[c][k].ino # i => Child(g, d, c, k)
           /\ \A d, c, k : ChildSlot(g, d, c, k) <=> ChildSlot(f, d, c, k)
           /\ \A d, c, k : ChildSlot(f, d, c, k) =>
                 g.dir[c][k] = f.dir[c][k] \/ (d = p /\ c = b /\ k = e)
           /\ \A d \in Dirs(f) : /\ FirstBlock(g, d) = FirstBlock(f, d)
                                 /\ g.dir[FirstBlock(f, d)][2] = f.dir[FirstBlock(f, d)][2]
<1>1. ChildSlot(f, p, b, e)
  BY DEF Child
<1>2. NoEntry \in EntryType /\ NoEntry.ino = 0
  BY ConstantFacts
<1>3. /\ g \in FsType /\ NodesOK(g) /\ Once(g) /\ DotsOK(g) /\ CountOK(g, over)
      /\ g.inode = f.inode /\ g.free = f.free
      /\ g.dir[b][e] = NoEntry
      /\ \A d, c, k : ChildSlot(f, d, c, k) =>
            g.dir[c][k] = f.dir[c][k] \/ (d = p /\ c = b /\ k = e)
      /\ \A d, c, k : ChildSlot(g, d, c, k) <=> ChildSlot(f, d, c, k)
      /\ Dirs(g) = Dirs(f) /\ InUse(g) = InUse(f)
      /\ \A j : BlocksOf(g, j) = BlocksOf(f, j) /\ FirstBlock(g, j) = FirstBlock(f, j)
      /\ \A d \in Dirs(f) : g.dir[FirstBlock(f, d)][2] = f.dir[FirstBlock(f, d)][2]
  BY <1>1, <1>2, EntryFrame
<1>4. \A d, c, k : Child(g, d, c, k) =>
         Child(f, d, c, k) /\ g.dir[c][k] = f.dir[c][k] /\ ~ (c = b /\ k = e)
  BY <1>2, <1>3 DEF Child
<1>5. \A d, c, k : Child(f, d, c, k) =>
         (Child(g, d, c, k) /\ g.dir[c][k] = f.dir[c][k]) \/ (d = p /\ c = b /\ k = e)
  BY <1>3 DEF Child
<1>6. ClearOK(f) /\ ChildrenOK(f) /\ UniqueOK(f)
  BY DEF Good
<1>7. i \in InUse(f) \ {Root}
  BY <1>6 DEF ChildrenOK
<1>8. ClearOK(g)
  <2>1. ASSUME NEW d, NEW c, NEW k, ChildSlot(g, d, c, k), g.dir[c][k].ino = 0
        PROVE  g.dir[c][k] = NoEntry
    <3>1. ChildSlot(f, d, c, k)
      BY <1>3, <2>1
    <3>2. CASE c = b /\ k = e
      BY <1>3, <3>2
    <3>3. CASE ~ (c = b /\ k = e)
      <4>1. g.dir[c][k] = f.dir[c][k]
        BY <1>3, <3>1, <3>3
      <4> QED
        BY <1>6, <2>1, <3>1, <4>1 DEF ClearOK
    <3> QED
      BY <3>2, <3>3
  <2> QED
    BY <2>1 DEF ClearOK
<1>9. ChildrenOK(g)
  BY <1>3, <1>4, <1>6 DEF ChildrenOK
<1>10. UniqueOK(g)
  <2>1. ASSUME NEW d, NEW c, NEW k, NEW d2, NEW c2, NEW k2,
               Child(g, d, c, k), Child(g, d2, c2, k2),
               \/ g.dir[c][k].ino = g.dir[c2][k2].ino
               \/ d = d2 /\ g.dir[c][k].name = g.dir[c2][k2].name
        PROVE  c = c2 /\ k = k2
    <3>1. /\ Child(f, d, c, k) /\ Child(f, d2, c2, k2)
          /\ g.dir[c][k] = f.dir[c][k] /\ g.dir[c2][k2] = f.dir[c2][k2]
      BY <1>4, <2>1
    <3> QED
      BY <1>6, <2>1, <3>1 DEF UniqueOK
  <2> QED
    BY <2>1 DEF UniqueOK
<1>11. \A j : IsNamed(g, j) <=> IsNamed(f, j) /\ j # i
  <2>1. ASSUME NEW j, IsNamed(g, j) PROVE IsNamed(f, j)
    BY <1>4, <2>1 DEF IsNamed
  <2>2. ASSUME NEW j, IsNamed(f, j), j # i PROVE IsNamed(g, j)
    BY <1>5, <2>2 DEF IsNamed
  <2>3. ASSUME IsNamed(g, i) PROVE FALSE
    <3>1. PICK d, c, k : Child(g, d, c, k) /\ g.dir[c][k].ino = i
      BY <1>7, <2>3 DEF IsNamed
    <3>2. Child(f, d, c, k) /\ f.dir[c][k].ino = i /\ ~ (c = b /\ k = e)
      BY <1>4, <3>1
    <3> QED
      BY <1>6, <3>2 DEF UniqueOK
  <2> QED
    BY <2>1, <2>2, <2>3
<1>12. Good(over, g)
  BY <1>3, <1>8, <1>9, <1>10 DEF Good
<1>13. \A d, c, k : Child(f, d, c, k) /\ f.dir[c][k].ino # i => Child(g, d, c, k)
  BY <1>5
<1> QED
  BY <1>3, <1>4, <1>7, <1>11, <1>12, <1>13

\* put_inode of the copy of inode i without a link.
Freed(f, i) == PutInode(f, i, [f.inode[i] EXCEPT !.links = 0])

Ended(f, t, D, z, n) ==
    [f EXCEPT !.free = t, !.dir = D, !.inode = z, !.numFreeInodes = n]

Emptied(D, s) == [b \in Block |-> IF b \in ToSet(s) THEN EmptyBlock ELSE D[b]]

Unused(N, i) == [N EXCEPT ![i] = FreeInode]

OnTop(s, t) == Reverse(s) \o t

LEMMA FreedIs ==
    ASSUME NEW f \in FsType, NEW i \in Inode, NEW s, s = f.inode[i].blocks,
           NEW t, t = OnTop(s, f.free), NEW h, h = Emptied(f.dir, s),
           NEW z, z = Unused(f.inode, i),
           NEW n, n = f.numFreeInodes + 1
    PROVE  Freed(f, i) = Ended(f, t, h, z, n)
<1>1. f.inode[i] \in NodeType
  BY TypedFacts
<1>2. PICK x : x = [f.inode[i] EXCEPT !.links = 0]
  OBVIOUS
<1>3. ~ (x.links > 0) /\ x.blocks = s
  BY <1>1, <1>2 DEF NodeType
<1>4. FreeBlocksOf(f, x) = [f EXCEPT !.free = t, !.dir = h]
  BY <1>3 DEF FreeBlocksOf, FsType, OnTop, Emptied
<1>5. Freed(f, i) = [FreeBlocksOf(f, x) EXCEPT !.inode[i] = FreeInode, !.numFreeInodes = @ + 1]
  BY <1>2, <1>3 DEF Freed, PutInode
<1>6. Freed(f, i) = [f EXCEPT !.free = t, !.dir = h, !.inode = z, !.numFreeInodes = n]
  BY <1>4, <1>5 DEF FsType, Unused
<1> QED
  BY <1>6 DEF Ended

LEMMA FreedRecord ==
    ASSUME NEW over \in Nat, NEW f, Good(over, f), NEW i \in Inode, NEW g, g = Freed(f, i)
    PROVE  /\ g \in FsType
           /\ IsInjective(g.free)
           /\ ToSet(g.free) = ToSet(f.free) \cup BlocksOf(f, i)
           /\ g.numFreeInodes = f.numFreeInodes + 1
           /\ g.inode[i] = FreeInode
           /\ \A j \in Inode \ {i} : g.inode[j] = f.inode[j]
           /\ \A b \in BlocksOf(f, i) : g.dir[b] = EmptyBlock
           /\ \A b \in Block \ BlocksOf(f, i) : g.dir[b] = f.dir[b]
<1>1. /\ f \in FsType /\ f.inode \in [Inode -> NodeType] /\ f.numFreeInodes \in Int
      /\ f.dir \in [Block -> [Slot -> EntryType]] /\ f.free \in Seq(Block)
      /\ IsInjective(f.free)
  BY TypedFacts DEF Good, Once
<1>2. PICK s \in Seq(Block) : s = f.inode[i].blocks /\ IsInjective(s)
                              /\ ToSet(s) = BlocksOf(f, i) /\ ToSet(s) \cap ToSet(f.free) = {}
  BY <1>1, TypedFacts DEF Good, Once, BlocksOf
<1>3. PICK t : t = OnTop(s, f.free)
  OBVIOUS
<1>4. t \in Seq(Block) /\ IsInjective(t) /\ ToSet(t) = ToSet(f.free) \cup BlocksOf(f, i)
  BY <1>1, <1>2, <1>3, SeqPush DEF OnTop
<1>5. PICK h : h = Emptied(f.dir, s)
  OBVIOUS
<1>6. h \in [Block -> [Slot -> EntryType]]
  BY <1>1, <1>5, ConstantFacts DEF Emptied
<1>7. PICK z : z = Unused(f.inode, i)
  OBVIOUS
<1>8. z \in [Inode -> NodeType] /\ z[i] = FreeInode /\ \A j \in Inode \ {i} : z[j] = f.inode[j]
  BY <1>1, <1>7, ConstantFacts DEF Unused
<1>9. PICK n \in Int : n = f.numFreeInodes + 1
  BY <1>1
<1>10. g = Ended(f, t, h, z, n)
  BY <1>1, <1>2, <1>3, <1>5, <1>7, <1>9, FreedIs
<1>11. g \in FsType /\ g.free = t /\ g.dir = h /\ g.inode = z /\ g.numFreeInodes = n
  BY <1>1, <1>4, <1>6, <1>8, <1>10 DEF FsType, Ended
<1>12. /\ \A b \in BlocksOf(f, i) : g.dir[b] = EmptyBlock
       /\ \A b \in Block \ BlocksOf(f, i) : g.dir[b] = f.dir[b]
  <2>1. BlocksOf(f, i) \subseteq Block
    BY <1>1, TypedFacts
  <2> QED
    BY <1>2, <1>5, <1>11, <2>1 DEF Emptied
<1> QED
  BY <1>4, <1>8, <1>9, <1>11, <1>12

\* An inode that no entry names, and that is not a directory with entries, is
\* freed with its blocks.
LEMMA StepFree ==
    ASSUME NEW over \in Nat, NEW f, Good(over, f),
           NEW i \in InUse(f) \ {Root}, ~ IsNamed(f, i),
           \A b, e : ~ Child(f, i, b, e),
           NEW g, g = Freed(f, i)
    PROVE  /\ Good(over, g)
           /\ \A j \in Inode \ {i} : BlocksOf(g, j) = BlocksOf(f, j)
           /\ BlocksOf(g, i) = {}
           /\ Dirs(g) = Dirs(f) \ {i} /\ InUse(g) = InUse(f) \ {i}
           /\ \A j : IsNamed(g, j) <=> IsNamed(f, j)
           /\ \A d, b, e : Child(g, d, b, e) <=> Child(f, d, b, e)
           /\ \A d, b, e : Child(f, d, b, e) => g.dir[b][e] = f.dir[b][e]
<1>1. /\ f \in FsType /\ NodesOK(f) /\ Once(f) /\ DotsOK(f) /\ CountOK(f, over)
      /\ ClearOK(f) /\ ChildrenOK(f) /\ UniqueOK(f)
      /\ i \in Inode /\ i # Root /\ f.numFreeInodes \in Int
  BY TypedFacts DEF Good
<1>2. /\ g \in FsType
      /\ IsInjective(g.free)
      /\ ToSet(g.free) = ToSet(f.free) \cup BlocksOf(f, i)
      /\ g.numFreeInodes = f.numFreeInodes + 1
      /\ g.inode[i] = FreeInode
      /\ \A j \in Inode \ {i} : g.inode[j] = f.inode[j]
      /\ \A b \in Block \ BlocksOf(f, i) : g.dir[b] = f.dir[b]
  BY <1>1, FreedRecord
<1>3. \A j \in Inode \ {i} : BlocksOf(g, j) = BlocksOf(f, j) /\ FirstBlock(g, j) = FirstBlock(f, j)
  BY <1>2 DEF BlocksOf, FirstBlock
<1>4. BlocksOf(g, i) = {} /\ IsInjective(g.inode[i].blocks)
  <2>1. g.inode[i].blocks = << >> /\ DOMAIN << >> = {}
    BY <1>2, ConstantFacts
  <2> QED
    BY <2>1 DEF BlocksOf, ToSet, IsInjective
<1>5. g.inode[i].type = "free"
  BY <1>2, ConstantFacts
<1>6. Dirs(g) = Dirs(f) \ {i} /\ Dirs(f) \subseteq Inode
  BY <1>1, <1>2, <1>5 DEF Dirs
<1>7. InUse(g) = InUse(f) \ {i}
  BY <1>1, <1>2, <1>5 DEF InUse
<1>8. \A j \in Inode \ {i} : \A b \in BlocksOf(f, j) : g.dir[b] = f.dir[b]
  BY <1>1, <1>2, GoodFacts, TypedFacts
<1>9. \A d, b, e : ChildSlot(g, d, b, e) <=> ChildSlot(f, d, b, e) /\ d # i
  BY <1>3, <1>6 DEF ChildSlot
<1>10. \A d, b, e : ChildSlot(f, d, b, e) /\ d # i => g.dir[b][e] = f.dir[b][e]
  BY <1>6, <1>8 DEF ChildSlot
<1>11. \A d, b, e : Child(g, d, b, e) <=> Child(f, d, b, e)
  BY <1>9, <1>10 DEF Child
<1>12. \A d, b, e : Child(f, d, b, e) => g.dir[b][e] = f.dir[b][e] /\ f.dir[b][e].ino # i
  BY <1>10 DEF Child, IsNamed
<1>13. \A d \in Dirs(g) : g.dir[FirstBlock(f, d)] = f.dir[FirstBlock(f, d)]
                          /\ FirstBlock(g, d) = FirstBlock(f, d)
  BY <1>1, <1>3, <1>6, <1>8, GoodFacts
<1>14. NodesOK(g)
  <2>1. Root \in Dirs(g)
    BY <1>1, <1>6 DEF NodesOK
  <2>2. ASSUME NEW j \in Inode
        PROVE  /\ g.inode[j].type = "free" => g.inode[j] = FreeInode
               /\ g.inode[j].type # "free" => g.inode[j].links = 1
               /\ g.inode[j].type = "directory" => g.inode[j].blocks # << >>
               /\ g.inode[j].type = "ordinary" =>
                     \A b \in BlocksOf(g, j) : g.dir[b] = EmptyBlock
    <3>1. CASE j = i
      BY <1>2, <1>5, <3>1
    <3>2. CASE j # i
      BY <1>1, <1>2, <1>3, <1>8, <3>2 DEF NodesOK
    <3> QED
      BY <3>1, <3>2
  <2> QED
    BY <2>1, <2>2 DEF NodesOK
<1>15. Once(g)
  <2>1. \A j \in Inode : IsInjective(g.inode[j].blocks)
    BY <1>1, <1>2, <1>4 DEF Once
  <2>2. \A j \in Inode : BlocksOf(g, j) \cap ToSet(g.free) = {}
    BY <1>1, <1>2, <1>3, <1>4 DEF Once
  <2>3. \A j, k \in Inode : j # k => BlocksOf(g, j) \cap BlocksOf(g, k) = {}
    BY <1>1, <1>3, <1>4 DEF Once
  <2> QED
    BY <1>2, <2>1, <2>2, <2>3 DEF Once
<1>16. DotsOK(g)
  <2>1. Root \in Dirs(g)
    BY <1>14 DEF NodesOK
  <2> QED
    BY <1>1, <1>6, <1>13, <2>1 DEF DotsOK
<1>17. ClearOK(g)
  BY <1>1, <1>9, <1>10 DEF ClearOK
<1>18. ChildrenOK(g)
  BY <1>1, <1>6, <1>7, <1>11, <1>12, <1>13 DEF ChildrenOK
<1>19. UniqueOK(g)
  BY <1>1, <1>11, <1>12 DEF UniqueOK
<1>20. CountOK(g, over)
  <2>1. InUse(f) \in SUBSET Inode
    BY DEF InUse
  <2>2. Cardinality(InUse(f) \ {i}) = Cardinality(InUse(f)) - 1
        /\ Cardinality(InUse(f)) \in 0..NumInodes /\ NumInodes \in Nat
    BY <2>1, CountFacts, ConstantFacts
  <2>3. f.numFreeInodes = over + (NumInodes - Cardinality(InUse(f)))
    BY <1>1 DEF CountOK
  <2>4. Cardinality(InUse(g)) = Cardinality(InUse(f)) - 1
    BY <1>7, <2>2
  <2>5. g.numFreeInodes = over + (NumInodes - Cardinality(InUse(g)))
    BY <1>2, <2>2, <2>3, <2>4
  <2> QED
    BY <2>5 DEF CountOK
<1>21. \A j : IsNamed(g, j) <=> IsNamed(f, j)
  BY <1>11, <1>12 DEF IsNamed
<1>22. Good(over, g)
  BY <1>2, <1>14, <1>15, <1>16, <1>17, <1>18, <1>19, <1>20 DEF Good
<1> QED
  BY <1>3, <1>4, <1>6, <1>7, <1>11, <1>12, <1>21, <1>22

-----------------------------------------------------------------------------
(* Lookup *)

\* The places of an inode are the slots of its blocks.
LEMMA PlaceFacts ==
    ASSUME NEW over \in Nat, NEW f, Good(over, f),
           NEW d \in Inode, NEW ino, ino = f.inode[d]
    PROVE  /\ \A t \in Places(ino) : ino.blocks[t[1]] \in BlocksOf(f, d) /\ t[2] \in Slot
           /\ \A b, e : b \in BlocksOf(f, d) /\ e \in Slot =>
                 \E t \in Places(ino) : ino.blocks[t[1]] = b /\ t[2] = e
           /\ \A t, u \in Places(ino) :
                 ino.blocks[t[1]] = ino.blocks[u[1]] /\ t[2] = u[2] => t = u
           /\ \A t \in Places(ino) :
                 t \in {<<1, 1>>, <<1, 2>>} <=>
                 ino.blocks[t[1]] = FirstBlock(f, d) /\ t[2] \in {1, 2}
           /\ \A S \in SUBSET Places(ino) : S # {} => First(S) \in S
<1>1. PICK s \in Seq(Block) : s = f.inode[d].blocks /\ IsInjective(s)
                              /\ BlocksOf(f, d) = ToSet(s) /\ s = ino.blocks
  BY TypedFacts DEF Good, Once, BlocksOf
<1>2. PICK n \in Nat : n = Len(s)
  BY <1>1
<1>3. DOMAIN s = 1..n /\ \A i, j \in 1..n : s[i] = s[j] => i = j
  BY <1>1, <1>2 DEF IsInjective
<1>4. Places(ino) = (1..n) \X Slot
  BY <1>1, <1>2 DEF Places, Slot
<1>5. \A t \in Places(ino) : ino.blocks[t[1]] \in BlocksOf(f, d) /\ t[2] \in Slot
  BY <1>1, <1>3, <1>4 DEF ToSet
<1>6. \A b, e : b \in BlocksOf(f, d) /\ e \in Slot =>
         \E t \in Places(ino) : ino.blocks[t[1]] = b /\ t[2] = e
  <2>1. ASSUME NEW b \in BlocksOf(f, d), NEW e \in Slot
        PROVE  \E t \in Places(ino) : ino.blocks[t[1]] = b /\ t[2] = e
    <3>1. PICK k \in 1..n : s[k] = b
      BY <1>1, <1>3 DEF ToSet
    <3>2. <<k, e>> \in Places(ino) /\ <<k, e>>[1] = k /\ <<k, e>>[2] = e
      BY <1>4
    <3> QED
      BY <1>1, <3>1, <3>2
  <2> QED
    BY <2>1
<1>7. \A t, u \in Places(ino) :
         ino.blocks[t[1]] = ino.blocks[u[1]] /\ t[2] = u[2] => t = u
  <2>1. ASSUME NEW t \in Places(ino), NEW u \in Places(ino),
               s[t[1]] = s[u[1]], t[2] = u[2]
        PROVE  t = u
    <3>1. t[1] = u[1]
      BY <1>3, <1>4, <2>1
    <3> QED
      BY <1>4, <2>1, <3>1
  <2> QED
    BY <1>1, <2>1
<1>8. ASSUME NEW t \in Places(ino)
      PROVE  t \in {<<1, 1>>, <<1, 2>>} <=>
             ino.blocks[t[1]] = FirstBlock(f, d) /\ t[2] \in {1, 2}
  <2>1. t[1] \in 1..n /\ 1 \in 1..n /\ t = <<t[1], t[2]>>
    BY <1>2, <1>4
  <2>2. ino.blocks[t[1]] = FirstBlock(f, d) <=> t[1] = 1
    BY <1>1, <1>3, <2>1 DEF FirstBlock
  <2> QED
    BY <2>1, <2>2
<1>9. \A S \in SUBSET Places(ino) : S # {} => First(S) \in S
  <2>1. EntriesPerBlock \in Nat
    BY ConstantFacts
  <2> QED
    BY <1>4, <2>1, FirstIsOne DEF Slot
<1> QED
  BY <1>5, <1>6, <1>7, <1>8, <1>9

\* A lookup finds the entry that has the name, if there is one.
LEMMA LookupFacts ==
    ASSUME NEW over \in Nat, NEW f, Good(over, f),
           NEW d \in InUse(f), NEW n \in Name \ Reserved,
           NEW r, r = Lookup(f, d, n)
    PROVE  \/ /\ r = 0
              /\ \A b, e : Child(f, d, b, e) => f.dir[b][e].name # n
           \/ \E b, e : /\ Child(f, d, b, e)
                        /\ f.dir[b][e].ino = r
                        /\ f.dir[b][e].name = n
<1>1. /\ d \in Inode /\ NodesOK(f) /\ DotsOK(f) /\ ClearOK(f) /\ f \in FsType
  BY TypedFacts DEF Good
<1>2. PICK ino : ino = f.inode[d]
  OBVIOUS
<1>3. /\ \A t \in Places(ino) : ino.blocks[t[1]] \in BlocksOf(f, d) /\ t[2] \in Slot
      /\ \A b, e : b \in BlocksOf(f, d) /\ e \in Slot =>
            \E t \in Places(ino) : ino.blocks[t[1]] = b /\ t[2] = e
      /\ \A S \in SUBSET Places(ino) : S # {} => First(S) \in S
  BY <1>1, <1>2, PlaceFacts
<1>4. PICK hits : hits = {s \in Places(ino) : f.dir[ino.blocks[s[1]]][s[2]].name = n}
  OBVIOUS
<1>5. r = IF hits = {} THEN 0
          ELSE f.dir[ino.blocks[First(hits)[1]]][First(hits)[2]].ino
  BY <1>2, <1>4 DEF Lookup, At, Absent
<1>6. CASE hits = {}
  <2>1. ASSUME NEW b, NEW e, Child(f, d, b, e) PROVE f.dir[b][e].name # n
    <3>1. PICK t \in Places(ino) : ino.blocks[t[1]] = b /\ t[2] = e
      BY <1>3, <2>1 DEF Child, ChildSlot
    <3> QED
      BY <1>4, <1>6, <3>1
  <2> QED
    BY <1>5, <1>6, <2>1
<1>7. CASE hits # {}
  <2>0. hits \in SUBSET Places(ino)
    BY <1>4
  <2>1. PICK t \in hits : t = First(hits)
    BY <1>3, <1>7, <2>0
  <2>2. PICK b \in BlocksOf(f, d), e \in Slot : b = ino.blocks[t[1]] /\ e = t[2]
    BY <1>3, <2>0
  <2>3. f.dir[b][e].name = n /\ f.dir[b][e].ino = r
    BY <1>4, <1>5, <1>7, <2>1, <2>2
  <2>4. d \in Dirs(f)
    <3>1. SUFFICES ASSUME d \notin Dirs(f) PROVE FALSE
      OBVIOUS
    <3>2. f.inode[d].type = "ordinary"
      BY <1>1, <3>1, TypedFacts DEF Dirs, InUse, NodeType
    <3>3. f.dir[b] = EmptyBlock
      BY <1>1, <3>2 DEF NodesOK
    <3> QED
      BY <2>3, <3>3, ConstantFacts
  <2>5. ASSUME b = FirstBlock(f, d), e \in {1, 2} PROVE FALSE
    <3>1. f.dir[b][1].name = "." /\ f.dir[b][2].name = ".."
      BY <1>1, <2>4, <2>5, ConstantFacts DEF DotsOK
    <3>2. n \notin {".", ".."}
      BY ConstantFacts
    <3> QED
      BY <2>3, <2>5, <3>1, <3>2
  <2>6. ChildSlot(f, d, b, e)
    BY <2>4, <2>5 DEF ChildSlot
  <2>7. f.dir[b][e].ino # 0
    BY <1>1, <2>3, <2>6, ConstantFacts DEF ClearOK
  <2> QED
    BY <2>3, <2>6, <2>7 DEF Child
<1> QED
  BY <1>6, <1>7

\* A lookup depends on the blocks of the directory only.
LEMMA LookupSame ==
    ASSUME NEW over \in Nat, NEW f, Good(over, f),
           NEW d \in Inode, NEW g, g.inode[d] = f.inode[d],
           \A b \in BlocksOf(f, d) : g.dir[b] = f.dir[b],
           NEW n
    PROVE  Lookup(g, d, n) = Lookup(f, d, n)
<1>1. PICK ino : ino = f.inode[d]
  OBVIOUS
<1>2. \A t \in Places(ino) : ino.blocks[t[1]] \in BlocksOf(f, d)
  BY <1>1, PlaceFacts
<1>3. \A t \in Places(ino) : At(g, ino, t) = At(f, ino, t)
  BY <1>2 DEF At
<1>4. PICK hits : hits = {s \in Places(ino) : At(f, ino, s).name = n}
  OBVIOUS
<1>5. hits = {s \in Places(ino) : At(g, ino, s).name = n}
  BY <1>3, <1>4
<1>6. Lookup(g, d, n) = IF hits = {} THEN Absent ELSE At(g, ino, First(hits)).ino
  BY <1>1, <1>5 DEF Lookup
<1>7. Lookup(f, d, n) = IF hits = {} THEN Absent ELSE At(f, ino, First(hits)).ino
  BY <1>1, <1>4 DEF Lookup
<1>8. hits # {} => First(hits) \in Places(ino)
  BY <1>1, <1>4, PlaceFacts
<1> QED
  BY <1>3, <1>6, <1>7, <1>8

-----------------------------------------------------------------------------
(* Path lookup *)

\* The inodes that namei reaches, one for each name of the path.
Chain(f, path) ==
    LET reached[k \in 0..Len(path)] ==
            IF k = 0 THEN Root
            ELSE LET d == reached[k-1]
                 IN  IF d = Absent THEN Absent ELSE Lookup(f, d, path[k])
    IN  reached

\* It stays in a set that every lookup leads back to.
LEMMA ChainRecursion ==
    ASSUME NEW f, NEW p, NEW n \in Nat, n = Len(p), NEW S, Root \in S, 0 \in S,
           \A d \in S \ {0}, k \in 1..n : Lookup(f, d, p[k]) \in S
    PROVE  /\ Resolve(f, p) = Chain(f, p)[n]
           /\ Chain(f, p)[0] = Root
           /\ \A k \in 1..n : Chain(f, p)[k] =
                 IF Chain(f, p)[k-1] = 0 THEN 0 ELSE Lookup(f, Chain(f, p)[k-1], p[k])
           /\ \A k \in 0..n : Chain(f, p)[k] \in S
<1> DEFINE turn(d, k) == IF d = 0 THEN 0 ELSE Lookup(f, d, p[k])
           step == [k \in 1..n |-> [d \in S |-> turn(d, k)]]
           rec(r) == [k \in 0..n |-> IF k = 0 THEN Root ELSE turn(r[k-1], k)]
<1>1. step \in Steps(n, S)
  <2>1. \A k \in 1..n, d \in S : turn(d, k) \in S
    OBVIOUS
  <2> HIDE DEF turn
  <2> QED
    BY <2>1 DEF Steps
<1>2. PICK r : IsRun(r, n, S, Root, step)
  <2> HIDE DEF step
  <2> QED
    BY <1>1, RecursionExists
<1>3. \A k \in 1..n : r[k] = turn(r[k-1], k)
  <2>1. \A k \in 1..n : k - 1 \in 0..n
    OBVIOUS
  <2>2. \A k \in 1..n : r[k-1] \in S
    BY <1>2, <2>1 DEF IsRun
  <2> HIDE DEF turn
  <2> QED
    BY <1>2, <2>2 DEF IsRun
<1>4. r \in [0..n -> S] /\ r[0] = Root
  BY <1>2 DEF IsRun
<1>5. r = rec(r)
  <2> HIDE DEF turn
  <2> QED
    BY <1>3, <1>4
<1>6. PICK c : c = Chain(f, p)
  OBVIOUS
<1>7. c = CHOOSE d : d = rec(d)
  BY <1>6 DEF Chain, Absent
<1>8. c = rec(c)
  <2> HIDE DEF rec
  <2> QED
    BY <1>5, <1>7
<1>9. \A k \in 0..n : c[k] = IF k = 0 THEN Root ELSE turn(c[k-1], k)
  <2> HIDE DEF turn
  <2>1. \A d : \A k \in 0..n : rec(d)[k] = IF k = 0 THEN Root ELSE turn(d[k-1], k)
    OBVIOUS
  <2> HIDE DEF rec
  <2> QED
    BY <1>8, <2>1
<1>10. c[0] = Root
  BY <1>9
<1>11. \A k \in 1..n : c[k] = turn(c[k-1], k)
  <2> HIDE DEF turn
  <2> QED
    BY <1>9
<1>12. Resolve(f, p) = c[n]
  BY <1>6 DEF Resolve, Chain
<1> DEFINE G == {k \in 0..n : c[k] \in S}
<1>13. 0 \in G
  BY <1>10
<1>14. ASSUME NEW k \in 0..n, k \in G, k + 1 <= n PROVE k + 1 \in G
  <2>1. k + 1 \in 1..n /\ (k + 1) - 1 = k /\ k + 1 \in 0..n
    BY <1>14
  <2>2. PICK j \in 1..n : j = k + 1 /\ j - 1 = k
    BY <2>1
  <2>3. c[j] = turn(c[k], j)
    BY <1>11, <2>2
  <2>4. c[k] \in S
    BY <1>14
  <2> QED
    BY <2>1, <2>2, <2>3, <2>4
<1>15. 0..n \subseteq G
  <2> HIDE DEF G
  <2> QED
    BY <1>13, <1>14, IntervalInduction
<1> QED
  BY <1>6, <1>10, <1>11, <1>12, <1>15

IsChain(f, p, n, c) ==
    /\ c[0] = Root
    /\ \A k \in 1..n : c[k] = IF c[k-1] = 0 THEN 0 ELSE Lookup(f, c[k-1], p[k])

\* Two file systems, and two paths, that agree on every lookup on the way.
LEMMA ChainSame ==
    ASSUME NEW f, NEW g, NEW n \in Nat, NEW p, NEW q, NEW c, NEW d,
           IsChain(f, p, n, c), IsChain(g, q, n, d),
           \A k \in 1..n : p[k] = q[k],
           \A k \in 1..n : c[k-1] # 0 => Lookup(g, c[k-1], p[k]) = Lookup(f, c[k-1], p[k])
    PROVE  c[n] = d[n]
<1>0. /\ c[0] = d[0]
      /\ \A k \in 1..n : c[k] = IF c[k-1] = 0 THEN 0 ELSE Lookup(f, c[k-1], p[k])
      /\ \A k \in 1..n : d[k] = IF d[k-1] = 0 THEN 0 ELSE Lookup(g, d[k-1], q[k])
  BY DEF IsChain
<1> DEFINE G == {k \in 0..n : c[k] = d[k]}
<1>1. 0 \in G
  BY <1>0
<1>2. ASSUME NEW k \in 0..n, k \in G, k + 1 <= n PROVE k + 1 \in G
  <2>1. PICK j \in 1..n : j = k + 1 /\ j - 1 = k /\ j \in 0..n
    BY <1>2
  <2>2. c[k] = d[k]
    BY <1>2
  <2>3. c[j] = IF c[k] = 0 THEN 0 ELSE Lookup(f, c[k], p[j])
    BY <1>0, <2>1
  <2>4. d[j] = IF d[k] = 0 THEN 0 ELSE Lookup(g, d[k], p[j])
    BY <1>0, <2>1
  <2>5. c[k] # 0 => Lookup(g, c[k], p[j]) = Lookup(f, c[k], p[j])
    BY <2>1
  <2> QED
    BY <2>1, <2>2, <2>3, <2>4, <2>5
<1>3. 0..n \subseteq G
  <2> HIDE DEF G
  <2> QED
    BY <1>1, <1>2, IntervalInduction
<1> QED
  BY <1>3

LEMMA FrontFacts ==
    ASSUME NEW path \in Path
    PROVE  /\ Len(path) \in Nat /\ Len(path) >= 1
           /\ Len(Front(path)) = Len(path) - 1
           /\ \A k \in 1..Len(path) - 1 : Front(path)[k] = path[k]
           /\ \A k \in 1..Len(path) - 1 : Front(path)[k] \in Name \ Reserved
           /\ \A k \in 1..Len(path) : path[k] \in Name \ Reserved
           /\ Last(path) = path[Len(path)]
<1>1. PICK A : path \in Seq(A)
  BY PathFacts
<1>2. PICK n \in Nat : n = Len(path) /\ n >= 1
  BY PathFacts
<1>3. PICK m \in Nat : m = n - 1 /\ \A k \in 1..m : k \in 1..n
  BY <1>2
<1>4. PICK q : q = Front(path)
  OBVIOUS
<1>5. q = SubSeq(path, 1, m)
  BY <1>2, <1>3, <1>4 DEF Front
<1>6. Len(q) = m /\ \A k \in 1..m : q[k] = path[k]
  <2>1. \A k \in 1..m : path[k] \in A
    BY <1>1, <1>2, <1>3
  <2> QED
    BY <1>3, <1>5, <2>1, SubSeqProperties
<1>7. Last(path) = path[n]
  BY <1>2 DEF Last
<1>8. \A k \in 1..n : path[k] \in Name \ Reserved
  BY <1>2, PathFacts
<1> QED
  BY <1>2, <1>3, <1>4, <1>6, <1>7, <1>8

\* What a path can reach.
Reachable(f) == {j \in Inode : IsNamed(f, j)} \cup {0}

LEMMA ReachableFacts ==
    ASSUME NEW over \in Nat, NEW f, Good(over, f)
    PROVE  /\ Root \in Reachable(f) /\ 0 \in Reachable(f)
           /\ \A j \in Reachable(f) : j = 0 \/ (j \in InUse(f) /\ IsNamed(f, j))
           /\ \A d \in Reachable(f) \ {0}, x \in Name \ Reserved :
                 Lookup(f, d, x) \in Reachable(f)
<1>1. Root \in Reachable(f) /\ 0 \in Reachable(f)
  BY ConstantFacts DEF Reachable, IsNamed
<1>2. \A j \in Reachable(f) : j = 0 \/ (j \in InUse(f) /\ IsNamed(f, j))
  BY GoodFacts DEF Reachable
<1>3. ASSUME NEW d \in Reachable(f) \ {0}, NEW x \in Name \ Reserved
      PROVE  Lookup(f, d, x) \in Reachable(f)
  <2>1. d \in InUse(f)
    BY <1>2
  <2>2. PICK r : r = Lookup(f, d, x)
    OBVIOUS
  <2>3. r = 0 \/ \E b, e : Child(f, d, b, e) /\ f.dir[b][e].ino = r
    BY <1>3, <2>1, <2>2, LookupFacts
  <2>4. ASSUME NEW b, NEW e, Child(f, d, b, e), f.dir[b][e].ino = r
        PROVE  r \in Inode /\ IsNamed(f, r)
    BY <2>4, TypedFacts DEF Good, ChildrenOK, IsNamed
  <2> QED
    BY <2>2, <2>3, <2>4 DEF Reachable
<1> QED
  BY <1>1, <1>2, <1>3

\* A path leads to nothing or to an inode that the root or an entry names, and
\* its last name is looked up in its parent.
LEMMA ResolveFacts ==
    ASSUME NEW over \in Nat, NEW f, Good(over, f),
           NEW path \in Path, NEW p, p = Parent(f, path),
           NEW i, i = Resolve(f, path)
    PROVE  /\ Last(path) \in Name \ Reserved
           /\ p = 0 \/ (p \in InUse(f) /\ IsNamed(f, p))
           /\ i = 0 \/ (i \in InUse(f) /\ IsNamed(f, i))
           /\ p = 0 => i = 0
           /\ p # 0 => i = Lookup(f, p, Last(path))
<1>1. PICK n \in Nat : n = Len(path) /\ n >= 1
  BY FrontFacts
<1>2. PICK q : q = Front(path)
  OBVIOUS
<1>3. PICK m \in Nat : /\ m = Len(q) /\ m = n - 1
                       /\ \A k \in 1..m : q[k] = path[k] /\ q[k] \in Name \ Reserved
  <2>1. PICK m \in Nat : m = n - 1
    BY <1>1
  <2> QED
    BY <1>1, <1>2, <2>1, FrontFacts
<1>4. Last(path) = path[n]
  BY <1>1, FrontFacts
<1>5. \A k \in 1..n : path[k] \in Name \ Reserved
  BY <1>1, FrontFacts
<1>17. PICK S : S = Reachable(f)
  OBVIOUS
<1>6. \A d \in S \ {0}, x \in Name \ Reserved : Lookup(f, d, x) \in S
  BY <1>17, ReachableFacts
<1>7. Root \in S /\ 0 \in S
  BY <1>17, ReachableFacts
<1>8. PICK c : c = Chain(f, path)
  OBVIOUS
<1>9. PICK d : d = Chain(f, q)
  OBVIOUS
<1>10. /\ i = c[n] /\ c[0] = Root
       /\ \A k \in 1..n : c[k] = IF c[k-1] = 0 THEN 0 ELSE Lookup(f, c[k-1], path[k])
       /\ \A k \in 0..n : c[k] \in S
  <2> QED
    BY <1>1, <1>5, <1>6, <1>7, <1>8, ChainRecursion
<1>11. /\ p = d[m] /\ d[0] = Root
       /\ \A k \in 1..m : d[k] = IF d[k-1] = 0 THEN 0 ELSE Lookup(f, d[k-1], q[k])
       /\ \A k \in 0..m : d[k] \in S
  <2>1. \A k \in 1..m : q[k] \in Name \ Reserved
    BY <1>3, <1>5
  <2>2. p = Resolve(f, q)
    BY <1>2 DEF Parent
  <2>3. \A x \in S \ {0}, k \in 1..m : Lookup(f, x, q[k]) \in S
    BY <1>6, <2>1
  <2>4. m = Len(q) /\ Root \in S /\ 0 \in S
    BY <1>3, <1>7
  <2>5. /\ Resolve(f, q) = d[m] /\ d[0] = Root
        /\ \A k \in 1..m : d[k] = IF d[k-1] = 0 THEN 0 ELSE Lookup(f, d[k-1], q[k])
    BY <1>9, <2>3, <2>4, ChainRecursion
  <2>6. \A k \in 0..m : d[k] \in S
    BY <1>9, <2>3, <2>4, ChainRecursion
  <2> QED
    BY <2>2, <2>5, <2>6
<1>12. c[m] = d[m]
  <2>1. IsChain(f, path, m, c)
    BY <1>3, <1>10 DEF IsChain
  <2>2. IsChain(f, q, m, d)
    BY <1>11 DEF IsChain
  <2>3. \A k \in 1..m : path[k] = q[k]
    BY <1>3
  <2> QED
    BY <2>1, <2>2, <2>3, ChainSame
<1>13. p \in S /\ i \in S
  BY <1>10, <1>11
<1>14. i = IF p = 0 THEN 0 ELSE Lookup(f, p, Last(path))
  <2>1. n \in 1..n /\ n - 1 = m
    BY <1>1, <1>3
  <2> QED
    BY <1>4, <1>10, <1>11, <1>12, <2>1
<1>15. \A j \in S : j = 0 \/ (j \in InUse(f) /\ IsNamed(f, j))
  BY <1>17, ReachableFacts
<1>16. Last(path) \in Name \ Reserved
  BY <1>1, <1>4, <1>5
<1> QED
  BY <1>13, <1>14, <1>15, <1>16

\* A file system as f, except for inode i, which is free.
SameBut(f, g, i) ==
    /\ g.inode[i] = FreeInode
    /\ \A j \in Inode \ {i} : /\ g.inode[j] = f.inode[j]
                              /\ \A b \in BlocksOf(f, j) : g.dir[b] = f.dir[b]

\* Once the target of a path is freed the path has the same parent as before.
LEMMA ParentKept ==
    ASSUME NEW over \in Nat, NEW f, Good(over, f), NEW path \in Path,
           NEW i, i = Resolve(f, path), i # 0, \A b, e : ~ Child(f, i, b, e),
           NEW g, SameBut(f, g, i)
    PROVE  /\ Parent(g, path) = Parent(f, path)
           /\ Parent(f, path) \notin {0, i}
<1>1. PICK n \in Nat : n = Len(path) /\ n >= 1
  BY FrontFacts
<1>2. PICK q : q = Front(path)
  OBVIOUS
<1>3. PICK m \in Nat : /\ m = Len(q) /\ m = n - 1
                       /\ \A k \in 1..m : q[k] = path[k] /\ q[k] \in Name \ Reserved
  <2>1. PICK m \in Nat : m = n - 1
    BY <1>1
  <2> QED
    BY <1>1, <1>2, <2>1, FrontFacts
<1>4. \A k \in 1..n : path[k] \in Name \ Reserved
  BY <1>1, FrontFacts
<1>5. PICK S : S = Reachable(f)
  OBVIOUS
<1>6. /\ Root \in S /\ 0 \in S
      /\ \A j \in S : j = 0 \/ j \in InUse(f)
      /\ \A d \in S \ {0}, x \in Name \ Reserved : Lookup(f, d, x) \in S
  BY <1>5, ReachableFacts
<1>7. i \in InUse(f) /\ i \in Inode
  BY ResolveFacts DEF InUse
<1>8. \A x \in Name \ Reserved : Lookup(f, i, x) = 0
  BY <1>7, LookupFacts
<1>9. ASSUME NEW x PROVE Lookup(g, i, x) = 0
  <2>1. g.inode[i].blocks = << >>
    BY ConstantFacts DEF SameBut
  <2>2. Places(g.inode[i]) = {}
    BY <2>1 DEF Places
  <2> QED
    BY <2>2 DEF Lookup, Absent
<1>10. ASSUME NEW d \in S \ {0, i}, NEW x PROVE Lookup(g, d, x) = Lookup(f, d, x)
  <2>1. d \in Inode
    BY <1>6 DEF InUse
  <2>2. g.inode[d] = f.inode[d] /\ \A b \in BlocksOf(f, d) : g.dir[b] = f.dir[b]
    BY <2>1 DEF SameBut
  <2> QED
    BY <2>1, <2>2, LookupSame
<1>11. \A d \in S \ {0}, x \in Name \ Reserved : Lookup(g, d, x) \in S
  BY <1>6, <1>9, <1>10
<1>12. PICK c : c = Chain(f, path)
  OBVIOUS
<1>13. PICK d : d = Chain(f, q)
  OBVIOUS
<1>14. PICK h : h = Chain(g, q)
  OBVIOUS
<1>15. /\ i = c[n] /\ c[0] = Root
       /\ \A k \in 1..n : c[k] = IF c[k-1] = 0 THEN 0 ELSE Lookup(f, c[k-1], path[k])
       /\ \A k \in 0..n : c[k] \in S
  BY <1>1, <1>4, <1>6, <1>12, ChainRecursion
<1>16. Parent(f, path) = d[m] /\ IsChain(f, q, m, d)
  <2>1. Parent(f, path) = Resolve(f, q)
    BY <1>2 DEF Parent
  <2>2. \A x \in S \ {0}, k \in 1..m : Lookup(f, x, q[k]) \in S
    BY <1>3, <1>6
  <2>3. m = Len(q) /\ Root \in S /\ 0 \in S
    BY <1>3, <1>6
  <2>4. /\ Resolve(f, q) = d[m] /\ d[0] = Root
        /\ \A k \in 1..m : d[k] = IF d[k-1] = 0 THEN 0 ELSE Lookup(f, d[k-1], q[k])
    BY <1>13, <2>2, <2>3, ChainRecursion
  <2> QED
    BY <2>1, <2>4 DEF IsChain
<1>17. Parent(g, path) = h[m] /\ IsChain(g, q, m, h)
  <2>1. Parent(g, path) = Resolve(g, q)
    BY <1>2 DEF Parent
  <2>2. \A x \in S \ {0}, k \in 1..m : Lookup(g, x, q[k]) \in S
    BY <1>3, <1>11
  <2>3. m = Len(q) /\ Root \in S /\ 0 \in S
    BY <1>3, <1>6
  <2>4. /\ Resolve(g, q) = h[m] /\ h[0] = Root
        /\ \A k \in 1..m : h[k] = IF h[k-1] = 0 THEN 0 ELSE Lookup(g, h[k-1], q[k])
    BY <1>14, <2>2, <2>3, ChainRecursion
  <2> QED
    BY <2>1, <2>4 DEF IsChain
<1>18. IsChain(f, path, m, c)
  BY <1>3, <1>15 DEF IsChain
<1>19. \A k \in 1..n : c[k] # 0 => c[k-1] \notin {0, i}
  BY <1>4, <1>8, <1>15
<1>20. \A k \in 0..m : c[k] \notin {0, i}
  <2> DEFINE G == {k \in 0..m : c[m - k] \notin {0, i}}
  <2>1. 0 \in G
    <3>1. n \in 1..n /\ n - 1 = m /\ m - 0 = m /\ 0 \in 0..m
      BY <1>1, <1>3
    <3> QED
      BY <1>15, <1>19, <3>1
  <2>2. ASSUME NEW k \in 0..m, k \in G, k + 1 <= m PROVE k + 1 \in G
    <3>1. PICK j \in 1..n : j = m - k /\ j - 1 = m - (k + 1) /\ k + 1 \in 0..m
      BY <1>3, <2>2
    <3>2. c[j] # 0
      BY <2>2, <3>1
    <3>3. c[j - 1] \notin {0, i}
      BY <1>19, <3>2
    <3> QED
      BY <3>1, <3>3
  <2>3. 0..m \subseteq G
    <3> HIDE DEF G
    <3> QED
      BY <2>1, <2>2, IntervalInduction
  <2>4. \A k \in 0..m : m - k \in 0..m /\ m - (m - k) = k
    OBVIOUS
  <2> QED
    BY <2>3, <2>4
<1>21. \A k \in 1..m : path[k] = q[k]
  BY <1>3
<1>22. c[m] = h[m]
  <2>1. \A k \in 1..m : k - 1 \in 0..m /\ k - 1 \in 0..n
    BY <1>3
  <2>2. \A k \in 1..m : Lookup(g, c[k-1], path[k]) = Lookup(f, c[k-1], path[k])
    BY <1>10, <1>15, <1>20, <2>1
  <2> QED
    BY <1>17, <1>18, <1>21, <2>2, ChainSame
<1>23. c[m] = d[m]
  BY <1>16, <1>18, <1>21, ChainSame
<1>24. c[m] \notin {0, i}
  BY <1>20
<1> QED
  BY <1>16, <1>17, <1>22, <1>23, <1>24

-----------------------------------------------------------------------------
(* Entries: what add_entry_to_parent and remove_entry_from_parent do *)

\* h is g with one entry less: one that names i, in a block that p has in f.
Cleared(f, p, g, i, h) ==
    \E b \in BlocksOf(f, p), e \in Slot :
        g.dir[b][e].ino = i /\ h = SetEntry(g, b, e, NoEntry)

\* remove_entry_from_parent clears an entry that names inode i, if the directory's
\* blocks, as g has them, hold one.
LEMMA RemovedIs ==
    ASSUME NEW over \in Nat, NEW f, Good(over, f), NEW p \in Inode, NEW i, NEW g,
           NEW c \in BlocksOf(f, p), NEW k \in Slot, g.dir[c][k].ino = i,
           NEW r, r = RemoveEntry(g, f.inode[p], i)
    PROVE  r.ok /\ Cleared(f, p, g, i, r.fs)
<1>1. PICK ino : ino = f.inode[p]
  OBVIOUS
<1>2. /\ \A t \in Places(ino) : ino.blocks[t[1]] \in BlocksOf(f, p) /\ t[2] \in Slot
      /\ \A S \in SUBSET Places(ino) : S # {} => First(S) \in S
  BY <1>1, PlaceFacts
<1>3. PICK t \in Places(ino) : g.dir[ino.blocks[t[1]]][t[2]].ino = i
  <2>1. PICK t \in Places(ino) : ino.blocks[t[1]] = c /\ t[2] = k
    BY <1>1, PlaceFacts
  <2> QED
    BY <2>1
<1>4. PICK hits : hits = {s \in Places(ino) : At(g, ino, s).ino = i}
  OBVIOUS
<1>5. t \in hits /\ hits \in SUBSET Places(ino)
  BY <1>3, <1>4 DEF At
<1>6. PICK s \in hits : s = First(hits)
  BY <1>2, <1>5
<1>7. PICK b \in BlocksOf(f, p), e \in Slot : b = ino.blocks[s[1]] /\ e = s[2]
  BY <1>2, <1>5
<1>8. g.dir[b][e].ino = i
  BY <1>4, <1>7 DEF At
<1>9. r = [ok |-> TRUE, fs |-> [g EXCEPT !.dir[ino.blocks[s[1]]][s[2]] = NoEntry]]
  <2>1. r = IF hits = {} THEN [ok |-> FALSE, fs |-> g]
            ELSE [ok |-> TRUE, fs |-> [g EXCEPT
                     !.dir[ino.blocks[First(hits)[1]]][First(hits)[2]] = NoEntry]]
    BY Zenon, <1>1, <1>4 DEF RemoveEntry, NoEntry
  <2>2. hits # {}
    BY <1>5
  <2> QED
    BY Zenon, <1>6, <2>1, <2>2
<1>10. r.ok /\ r.fs = SetEntry(g, b, e, NoEntry)
  BY <1>7, <1>9 DEF SetEntry
<1> QED
  BY <1>8, <1>10 DEF Cleared

\* In a directory whose blocks are as they were, the only such entry is that of
\* inode i, unless the directory's own entries name it.
LEMMA NamesOnce ==
    ASSUME NEW over \in Nat, NEW f, Good(over, f), NEW p, NEW b, NEW e, Child(f, p, b, e),
           NEW i, i = f.dir[b][e].ino, i # p, f.dir[FirstBlock(f, p)][2].ino # i,
           NEW c \in BlocksOf(f, p), NEW k \in Slot, f.dir[c][k].ino = i
    PROVE  c = b /\ k = e
<1>1. p \in Dirs(f) /\ i # 0 /\ UniqueOK(f)
  BY DEF Good, Child, ChildSlot
<1>2. c = FirstBlock(f, p) => k \notin {1, 2}
  BY <1>1, GoodFacts
<1>3. Child(f, p, c, k)
  BY <1>1, <1>2 DEF Child, ChildSlot
<1> QED
  BY <1>1, <1>3 DEF UniqueOK

LEMMA RemoveEntryIs ==
    ASSUME NEW over \in Nat, NEW f, Good(over, f), NEW p, NEW b, NEW e, Child(f, p, b, e),
           NEW i, i = f.dir[b][e].ino, i # p, f.dir[FirstBlock(f, p)][2].ino # i,
           NEW g, \A c \in BlocksOf(f, p) : g.dir[c] = f.dir[c],
           NEW r, r = RemoveEntry(g, f.inode[p], i)
    PROVE  r.ok /\ r.fs = SetEntry(g, b, e, NoEntry)
<1>1. p \in Inode /\ b \in BlocksOf(f, p) /\ e \in Slot
  BY GoodFacts DEF Child, ChildSlot
<1>2. g.dir[b][e].ino = i
  BY <1>1
<1>3. r.ok /\ Cleared(f, p, g, i, r.fs)
  BY <1>1, <1>2, RemovedIs
<1>4. PICK c \in BlocksOf(f, p), k \in Slot :
         g.dir[c][k].ino = i /\ r.fs = SetEntry(g, c, k, NoEntry)
  BY <1>3 DEF Cleared
<1>5. f.dir[c][k].ino = i
  BY <1>4
<1>6. c = b /\ k = e
  BY <1>5, NamesOnce
<1> QED
  BY <1>3, <1>4, <1>6

LEMMA PutInodeIs ==
    ASSUME NEW f, NEW i, NEW ino, ino.links = 1
    PROVE  PutInode(f, i, ino) = SetNode(f, i, ino)
<1>1. ino.links > 0
  OBVIOUS
<1> QED
  BY <1>1 DEF PutInode, SetNode

\* An inode is written back as it is.
LEMMA SameNode ==
    ASSUME NEW f \in FsType, NEW i \in Inode
    PROVE  SetNode(f, i, f.inode[i]) = f
<1>1. f.inode \in [Inode -> NodeType]
  BY TypedFacts
<1>2. [f.inode EXCEPT ![i] = f.inode[i]] = f.inode
  BY <1>1
<1>3. SetNode(f, i, f.inode[i]) = [f EXCEPT !.inode = [f.inode EXCEPT ![i] = f.inode[i]]]
  BY DEF SetNode, FsType
<1>4. [f EXCEPT !.inode = f.inode] = f
  BY DEF FsType
<1> QED
  BY <1>2, <1>3, <1>4

LEMMA NodeKeepsBlocks ==
    ASSUME NEW f \in FsType, NEW i, NEW y, NEW g, g = SetNode(f, i, y)
    PROVE  g.dir = f.dir
BY DEF SetNode, FsType

\* Inodes and blocks are written in either order.
LEMMA NodeThenEntry ==
    ASSUME NEW f \in FsType, NEW i, NEW y, NEW b, NEW e, NEW x
    PROVE  SetNode(SetEntry(f, b, e, x), i, y) = SetEntry(SetNode(f, i, y), b, e, x)
<1>1. PICK D : D = [f.dir EXCEPT ![b][e] = x]
  OBVIOUS
<1>2. PICK N : N = [f.inode EXCEPT ![i] = y]
  OBVIOUS
<1>3. SetEntry(f, b, e, x) = [f EXCEPT !.dir = D]
  BY <1>1 DEF SetEntry, FsType
<1>4. SetNode(f, i, y) = [f EXCEPT !.inode = N]
  BY <1>2 DEF SetNode, FsType
<1>5. PICK g : g = [f EXCEPT !.dir = D]
  OBVIOUS
<1>6. PICK h : h = [f EXCEPT !.inode = N]
  OBVIOUS
<1>7. SetNode(g, i, y) = [f EXCEPT !.dir = D, !.inode = N]
  BY <1>2, <1>5 DEF SetNode, FsType
<1>8. SetEntry(h, b, e, x) = [f EXCEPT !.dir = D, !.inode = N]
  BY <1>1, <1>6 DEF SetEntry, FsType
<1> QED
  BY <1>3, <1>4, <1>5, <1>6, <1>7, <1>8

\* In the gap that add_entry_to_parent finds there is no entry, nor "." or "..".
LastBlock(f, p) == f.inode[p].blocks[Len(f.inode[p].blocks)]

Gaps(f, b) == {e \in Slot : f.dir[b][e].ino = 0}

LEMMA GapFacts ==
    ASSUME NEW over \in Nat, NEW f, Good(over, f),
           NEW p \in Dirs(f), NEW last, last = LastBlock(f, p),
           NEW gaps, gaps = Gaps(f, last), gaps # {}, NEW k, k = Min(gaps)
    PROVE  ChildSlot(f, p, last, k) /\ f.dir[last][k].ino = 0
<1>0. PICK s : s = f.inode[p].blocks /\ last = s[Len(s)]
  BY DEF LastBlock
<1>1. s \in Seq(Block) /\ s # << >> /\ BlocksOf(f, p) = ToSet(s) /\ p \in Inode
  BY <1>0, TypedFacts DEF Good, NodesOK, Dirs, BlocksOf
<1>2. last \in BlocksOf(f, p)
  <2>1. Len(s) \in DOMAIN s
    BY <1>1
  <2> QED
    BY <1>0, <1>1, <2>1 DEF ToSet
<1>3. Min(gaps) \in gaps
  <2>1. EntriesPerBlock \in Nat
    BY ConstantFacts
  <2>2. gaps \in SUBSET (0..EntriesPerBlock)
    BY <2>1 DEF Slot, Gaps
  <2>3. \E l \in gaps : \A j \in gaps : l <= j
    BY <2>1, <2>2, LeastInInterval
  <2> QED
    BY <2>3 DEF Min
<1>4. PICK e \in Slot : e = Min(gaps) /\ f.dir[last][e].ino = 0
  BY <1>3 DEF Gaps
<1>5. last = FirstBlock(f, p) => e \notin {1, 2}
  <2>1. p # 0
    BY <1>1, ConstantFacts
  <2>2. f.dir[FirstBlock(f, p)][1].ino = p /\ f.dir[FirstBlock(f, p)][2].ino # 0
    BY GoodFacts
  <2> QED
    BY <1>4, <2>1, <2>2
<1> QED
  BY <1>2, <1>4, <1>5 DEF ChildSlot

\* An inode in use that has no entry may get one in p, under the name n.
MayEnter(f, p, i, n) ==
    /\ p \in Dirs(f)
    /\ i \in InUse(f) \ {Root}
    /\ ~ IsNamed(f, i)
    /\ i \in Dirs(f) => f.dir[FirstBlock(f, i)][2].ino = p
    /\ n \in Name \ Reserved
    /\ \A c, k : Child(f, p, c, k) => f.dir[c][k].name # n

\* g is f with an entry for inode i in directory p, which may have a new block.
Entered(f, g, p, i) ==
    /\ InUse(g) = InUse(f)
    /\ \A j : IsNamed(g, j) <=> IsNamed(f, j) \/ j = i
    /\ \A j \in Inode \ {p} : g.inode[j] = f.inode[j]
    /\ \A j \in Inode \ {p} : \A c \in BlocksOf(f, j) : g.dir[c] = f.dir[c]
    /\ BlocksOf(f, p) \subseteq BlocksOf(g, p)
    /\ ToSet(f.free) \subseteq ToSet(g.free) \cup BlocksOf(g, p)

\* The entry goes into a gap.
LEMMA EnterGap ==
    ASSUME NEW over \in Nat, NEW f, Good(over, f),
           NEW p, NEW i, NEW n, MayEnter(f, p, i, n),
           NEW b, NEW e, ChildSlot(f, p, b, e), f.dir[b][e].ino = 0,
           NEW g, g = SetEntry(f, b, e, Entry(i, n))
    PROVE  Good(over, g) /\ Entered(f, g, p, i)
<1>1. /\ Good(over, g)
      /\ g.inode = f.inode /\ g.free = f.free
      /\ \A j : BlocksOf(g, j) = BlocksOf(f, j)
      /\ InUse(g) = InUse(f)
      /\ \A j : IsNamed(g, j) <=> IsNamed(f, j) \/ j = i
  BY StepSetEntry DEF MayEnter
<1>2. /\ f \in FsType /\ b \in Block /\ e \in Slot /\ b \in BlocksOf(f, p) /\ p \in Inode
  BY GoodFacts DEF ChildSlot
<1>3. i \in 0..NumInodes /\ n \in Name
  BY ConstantFacts DEF MayEnter, InUse
<1>4. Entry(i, n) \in EntryType
  BY <1>3, ConstantFacts
<1>5. \A c \in Block \ {b} : g.dir[c] = f.dir[c]
  <2>1. PICK x \in EntryType : x = Entry(i, n)
    BY <1>4
  <2> QED
    BY <1>2, <2>1, EntryRecord
<1>6. \A j \in Inode \ {p} : \A c \in BlocksOf(f, j) : c \in Block \ {b}
  BY <1>2, GoodFacts, TypedFacts
<1> QED
  BY <1>1, <1>5, <1>6 DEF Entered

\* The entry goes into a new block.
LEMMA EnterNew ==
    ASSUME NEW over \in Nat, NEW f, Good(over, f),
           NEW p, NEW i, NEW n, MayEnter(f, p, i, n), f.free # << >>,
           NEW b, b = Head(f.free), NEW h, h = AllocBlock(f),
           NEW u, u = SetNode(h, p, Longer(f.inode[p], b)),
           NEW g, g = SetEntry(u, b, 1, Entry(i, n))
    PROVE  Good(over, g) /\ Entered(f, g, p, i)
<1>1. p \in Dirs(f) /\ p \in Inode /\ p \in InUse(f) /\ f \in FsType
  BY GoodFacts, TypedFacts DEF MayEnter, Dirs
<1>2. /\ Good(over, h)
      /\ h.inode = f.inode
      /\ \A x \in Block \ {b} : h.dir[x] = f.dir[x]
      /\ Loose(h, b) /\ h.dir[b] = EmptyBlock
      /\ \A j \in Inode : b \notin BlocksOf(f, j)
      /\ \A j : BlocksOf(h, j) = BlocksOf(f, j)
      /\ Dirs(h) = Dirs(f) /\ InUse(h) = InUse(f)
      /\ SameChildren(f, h)
      /\ \A j : IsNamed(h, j) <=> IsNamed(f, j)
  BY StepAlloc
<1>3. ToSet(f.free) \subseteq ToSet(h.free) \cup {b}
  <2>1. f.free \in Seq(Block) /\ IsInjective(f.free)
    BY <1>1, TypedFacts DEF Good, Once
  <2>2. h.free = Tail(f.free)
    BY <1>1 DEF AllocBlock, FsType
  <2>3. ToSet(Tail(f.free)) = ToSet(f.free) \ {b}
    BY <2>1, SeqTail
  <2> QED
    BY <2>2, <2>3
<1>4. PICK x : x = Longer(h.inode[p], b)
  OBVIOUS
<1>5. /\ Good(over, u)
      /\ u.free = h.free /\ u.dir = h.dir
      /\ \A j \in Inode \ {p} : u.inode[j] = h.inode[j]
      /\ BlocksOf(u, p) = BlocksOf(h, p) \cup {b}
      /\ \A j \in Inode \ {p} : BlocksOf(u, j) = BlocksOf(h, j)
      /\ Dirs(u) = Dirs(h) /\ InUse(u) = InUse(h)
      /\ \A e \in Slot : ChildSlot(u, p, b, e)
      /\ \A d \in Dirs(h) : FirstBlock(u, d) = FirstBlock(h, d)
      /\ \A d, c, e : Child(u, d, c, e) <=> Child(h, d, c, e)
      /\ \A j : IsNamed(u, j) <=> IsNamed(h, j)
  <2>1. u = SetNode(h, p, x) /\ p \in InUse(h) /\ p \in Dirs(h)
    BY <1>1, <1>2, <1>4
  <2> QED
    BY <1>2, <1>4, <2>1, StepAppend
<1>6. \A c, k : Child(u, p, c, k) => u.dir[c][k].name # n
  BY <1>2, <1>5 DEF MayEnter, SameChildren, Child
<1>7. i \in Dirs(u) => u.dir[FirstBlock(u, i)][2].ino = p
  <2>1. SUFFICES ASSUME i \in Dirs(f) PROVE u.dir[FirstBlock(u, i)][2].ino = p
    BY <1>2, <1>5
  <2>2. FirstBlock(h, i) = FirstBlock(f, i) /\ i \in Inode
    BY <1>2, <2>1 DEF FirstBlock, Dirs
  <2>3. FirstBlock(f, i) \in Block \ {b}
    BY <1>1, <1>2, <2>1, <2>2, GoodFacts, TypedFacts
  <2>4. u.dir[FirstBlock(u, i)] = f.dir[FirstBlock(f, i)]
    BY <1>2, <1>5, <2>1, <2>2, <2>3
  <2> QED
    BY <2>1, <2>4 DEF MayEnter
<1>8. MayEnter(u, p, i, n)
  BY <1>2, <1>5, <1>6, <1>7 DEF MayEnter
<1>9. ChildSlot(u, p, b, 1) /\ u.dir[b][1].ino = 0
  <2>1. 1 \in Slot
    BY ConstantFacts
  <2> QED
    BY <1>2, <1>5, <2>1, ConstantFacts
<1>10. Good(over, g) /\ Entered(u, g, p, i)
  BY <1>5, <1>8, <1>9, EnterGap
<1>11. \A j \in Inode \ {p} : \A c \in BlocksOf(f, j) : u.dir[c] = f.dir[c]
  BY <1>1, <1>2, <1>5, TypedFacts
<1>12. /\ InUse(g) = InUse(f)
       /\ \A j : IsNamed(g, j) <=> IsNamed(f, j) \/ j = i
       /\ \A j \in Inode \ {p} : g.inode[j] = f.inode[j]
  BY <1>2, <1>5, <1>10 DEF Entered
<1>13. \A j \in Inode \ {p} : \A c \in BlocksOf(f, j) : g.dir[c] = f.dir[c]
  BY <1>2, <1>5, <1>10, <1>11 DEF Entered
<1>14. /\ BlocksOf(f, p) \subseteq BlocksOf(g, p)
       /\ ToSet(f.free) \subseteq ToSet(g.free) \cup BlocksOf(g, p)
  BY <1>2, <1>3, <1>5, <1>10 DEF Entered
<1> QED
  BY <1>10, <1>12, <1>13, <1>14 DEF Entered

Added(f, i, n, r, ino, b, gaps) ==
    /\ ino.blocks # << >> /\ gaps # {} =>
          /\ r.ok = TRUE /\ r.ino = ino
          /\ r.fs = SetEntry(f, b, Min(gaps), Entry(i, n))
    /\ ~ (ino.blocks # << >> /\ gaps # {}) /\ f.free # << >> =>
          /\ r.ok = TRUE /\ r.ino = Longer(ino, Head(f.free))
          /\ r.fs = SetEntry(AllocBlock(f), Head(f.free), 1, Entry(i, n))
    /\ ~ (ino.blocks # << >> /\ gaps # {}) /\ f.free = << >> =>
          r.ok = FALSE /\ r.ino = ino /\ r.fs = f

LEMMA AddEntryIs ==
    ASSUME NEW f, NEW p, NEW i, NEW n, NEW ino, ino = f.inode[p],
           NEW r, r = AddEntry(f, ino, i, n),
           NEW last, last = LastBlock(f, p), NEW gaps, gaps = Gaps(f, last)
    PROVE  Added(f, i, n, r, ino, last, gaps)
<1>1. last = ino.blocks[Len(ino.blocks)]
  BY DEF LastBlock
<1>2. gaps = {e \in 1..EntriesPerBlock : f.dir[ino.blocks[Len(ino.blocks)]][e].ino = 0}
  BY <1>1 DEF Gaps, Slot
<1>3. r = IF ino.blocks # << >> /\ gaps # {}
          THEN [ok |-> TRUE, ino |-> ino, fs |-> SetEntry(f, last, Min(gaps), Entry(i, n))]
          ELSE IF f.free # << >>
          THEN [ok |-> TRUE, ino |-> Longer(ino, Head(f.free)),
                fs |-> SetEntry(AllocBlock(f), Head(f.free), 1, Entry(i, n))]
          ELSE [ok |-> FALSE, ino |-> ino, fs |-> f]
  BY <1>1, <1>2 DEF AddEntry, Longer, SetEntry
<1> QED
  BY <1>3 DEF Added

\* add_entry_to_parent, and the put_inode of the parent after it.
LEMMA EnterIs ==
    ASSUME NEW over \in Nat, NEW f, Good(over, f),
           NEW p, NEW i, NEW n, MayEnter(f, p, i, n),
           NEW r, r = AddEntry(f, f.inode[p], i, n),
           NEW g, g = PutInode(r.fs, p, r.ino)
    PROVE  \/ r.ok /\ Good(over, g) /\ Entered(f, g, p, i)
           \/ ~ r.ok /\ r.fs = f
<1>1. p \in Dirs(f) /\ p \in Inode /\ f \in FsType /\ f.inode[p].links = 1
  BY GoodFacts DEF MayEnter, Dirs, Good, NodesOK
<1>2. PICK ino : ino = f.inode[p]
  OBVIOUS
<1>3. PICK s : s = ino.blocks
  OBVIOUS
<1>4. PICK last : last = LastBlock(f, p)
  OBVIOUS
<1>5. PICK gaps : gaps = Gaps(f, last)
  OBVIOUS
<1>6. PICK b : b = Head(f.free)
  OBVIOUS
<1>7. /\ s # << >> /\ gaps # {} =>
            /\ r.ok = TRUE /\ r.ino = ino
            /\ r.fs = SetEntry(f, last, Min(gaps), Entry(i, n))
      /\ ~ (s # << >> /\ gaps # {}) /\ f.free # << >> =>
            /\ r.ok = TRUE /\ r.ino = Longer(ino, b)
            /\ r.fs = SetEntry(AllocBlock(f), b, 1, Entry(i, n))
      /\ ~ (s # << >> /\ gaps # {}) /\ f.free = << >> => r.ok = FALSE /\ r.fs = f
  <2>1. Added(f, i, n, r, ino, last, gaps)
    BY <1>2, <1>4, <1>5, AddEntryIs
  <2> QED
    BY <1>3, <1>6, <2>1 DEF Added
<1>8. CASE s # << >> /\ gaps # {}
  <2>1. PICK e : e = Min(gaps)
    OBVIOUS
  <2>2. ChildSlot(f, p, last, e) /\ f.dir[last][e].ino = 0
    <3>1. p \in Dirs(f) /\ last = LastBlock(f, p) /\ gaps # {}
      BY <1>1, <1>4, <1>8
    <3> QED
      BY <1>5, <2>1, <3>1, GapFacts
  <2>3. PICK u : u = SetEntry(f, last, e, Entry(i, n))
    OBVIOUS
  <2>4. Good(over, u) /\ Entered(f, u, p, i)
    BY <2>2, <2>3, EnterGap
  <2>5. r.ok /\ r.fs = u /\ r.ino = ino
    BY <1>7, <1>8, <2>1, <2>3
  <2>6. u.inode = f.inode
    BY <2>3, <1>1 DEF SetEntry, FsType
  <2>7. g = SetNode(u, p, u.inode[p])
    BY <1>1, <1>2, <2>5, <2>6, PutInodeIs
  <2>8. g = u
    BY <1>1, <2>4, <2>7, SameNode DEF Good
  <2> QED
    BY <2>4, <2>5, <2>8
<1>9. CASE ~ (s # << >> /\ gaps # {}) /\ f.free # << >>
  <2>1. PICK h : h = AllocBlock(f)
    OBVIOUS
  <2>2. PICK x : x = Longer(ino, b)
    OBVIOUS
  <2>3. PICK y : y = Entry(i, n)
    OBVIOUS
  <2>4. PICK u : u = SetNode(h, p, x)
    OBVIOUS
  <2>5. PICK v : v = SetEntry(u, b, 1, y)
    OBVIOUS
  <2>6. Good(over, v) /\ Entered(f, v, p, i)
    BY <1>2, <1>6, <1>9, <2>1, <2>2, <2>3, <2>4, <2>5, EnterNew
  <2>7. r.ok /\ r.fs = SetEntry(h, b, 1, y) /\ r.ino = x
    BY <1>7, <1>9, <2>1, <2>2, <2>3
  <2>8. x.links = 1 /\ h \in FsType
    BY <1>1, <1>2, <1>6, <1>9, <2>1, <2>2, StepAlloc, TypedFacts DEF Good, Longer, NodeType
  <2>9. g = SetNode(SetEntry(h, b, 1, y), p, x)
    BY <2>7, <2>8, PutInodeIs
  <2>10. g = v
    BY <2>4, <2>5, <2>8, <2>9, NodeThenEntry
  <2> QED
    BY <2>6, <2>7, <2>10
<1>10. CASE ~ (s # << >> /\ gaps # {}) /\ f.free = << >>
  BY <1>7, <1>10
<1> QED
  BY <1>8, <1>9, <1>10

-----------------------------------------------------------------------------
(* Steps that may be taken in either order *)

\* Entries of two blocks.
LEMMA EntriesCommute ==
    ASSUME NEW f \in FsType, NEW b \in Block, NEW e, NEW x,
           NEW c \in Block, c # b, NEW k, NEW y, NEW g, NEW h,
           g = SetEntry(f, b, e, x), h = SetEntry(f, c, k, y)
    PROVE  SetEntry(g, c, k, y) = SetEntry(h, b, e, x)
<1>1. f.dir \in [Block -> [Slot -> EntryType]]
  BY TypedFacts
<1>2. PICK B : B = [f.dir[b] EXCEPT ![e] = x]
  OBVIOUS
<1>3. PICK C : C = [f.dir[c] EXCEPT ![k] = y]
  OBVIOUS
<1>4. PICK D : D = [f.dir EXCEPT ![b] = B]
  OBVIOUS
<1>5. PICK E : E = [f.dir EXCEPT ![c] = C]
  OBVIOUS
<1>6. g = [f EXCEPT !.dir = D] /\ h = [f EXCEPT !.dir = E]
  BY <1>2, <1>3, <1>4, <1>5 DEF SetEntry, FsType
<1>7. D[c] = f.dir[c] /\ E[b] = f.dir[b]
  BY <1>1, <1>4, <1>5
<1>8. SetEntry(g, c, k, y) = [f EXCEPT !.dir = [D EXCEPT ![c] = C]]
  BY <1>3, <1>6, <1>7 DEF SetEntry, FsType
<1>9. SetEntry(h, b, e, x) = [f EXCEPT !.dir = [E EXCEPT ![b] = B]]
  BY <1>2, <1>6, <1>7 DEF SetEntry, FsType
<1>10. [D EXCEPT ![c] = C] = [E EXCEPT ![b] = B]
  BY <1>1, <1>4, <1>5
<1> QED
  BY <1>8, <1>9, <1>10

\* Two entries of a block.
LEMMA SlotsCommute ==
    ASSUME NEW f \in FsType, NEW b \in Block, NEW e, NEW x, NEW k, NEW y, k # e,
           NEW g, NEW h, g = SetEntry(f, b, e, x), h = SetEntry(f, b, k, y)
    PROVE  SetEntry(g, b, k, y) = SetEntry(h, b, e, x)
<1>1. f.dir \in [Block -> [Slot -> EntryType]]
  BY TypedFacts
<1>2. PICK B : B = [f.dir[b] EXCEPT ![e] = x]
  OBVIOUS
<1>3. PICK C : C = [f.dir[b] EXCEPT ![k] = y]
  OBVIOUS
<1>4. PICK D : D = [f.dir EXCEPT ![b] = B]
  OBVIOUS
<1>5. PICK E : E = [f.dir EXCEPT ![b] = C]
  OBVIOUS
<1>6. g = [f EXCEPT !.dir = D] /\ h = [f EXCEPT !.dir = E]
  BY <1>2, <1>3, <1>4, <1>5 DEF SetEntry, FsType
<1>7. D[b] = B /\ E[b] = C
  BY <1>1, <1>4, <1>5
<1>8. PICK M : M = [B EXCEPT ![k] = y]
  OBVIOUS
<1>9. PICK N : N = [C EXCEPT ![e] = x]
  OBVIOUS
<1>10. M = N
  BY <1>1, <1>2, <1>3, <1>8, <1>9
<1>11. SetEntry(g, b, k, y) = [f EXCEPT !.dir = [D EXCEPT ![b] = M]]
  BY <1>6, <1>7, <1>8 DEF SetEntry, FsType
<1>12. SetEntry(h, b, e, x) = [f EXCEPT !.dir = [E EXCEPT ![b] = N]]
  BY <1>6, <1>7, <1>9 DEF SetEntry, FsType
<1>13. [D EXCEPT ![b] = M] = [E EXCEPT ![b] = M]
  BY <1>1, <1>4, <1>5
<1> QED
  BY <1>10, <1>11, <1>12, <1>13

\* An entry that is written and then cleared again, in a slot that was clear.
LEMMA EntryUndone ==
    ASSUME NEW f \in FsType, NEW b \in Block, NEW e \in Slot, NEW x \in EntryType,
           f.dir[b][e] = NoEntry, NEW g, g = SetEntry(f, b, e, x)
    PROVE  SetEntry(g, b, e, NoEntry) = f
<1>1. f.dir \in [Block -> [Slot -> EntryType]]
  BY TypedFacts
<1>2. PICK B : B = [f.dir[b] EXCEPT ![e] = x]
  OBVIOUS
<1>3. PICK D : D = [f.dir EXCEPT ![b] = B]
  OBVIOUS
<1>4. g = [f EXCEPT !.dir = D]
  BY <1>2, <1>3 DEF SetEntry, FsType
<1>5. D[b] = B
  BY <1>1, <1>3
<1>6. PICK C : C = [B EXCEPT ![e] = NoEntry]
  OBVIOUS
<1>7. C = f.dir[b]
  BY <1>1, <1>2, <1>6
<1>8. SetEntry(g, b, e, NoEntry) = [f EXCEPT !.dir = [D EXCEPT ![b] = C]]
  BY <1>4, <1>5, <1>6 DEF SetEntry, FsType
<1>9. [D EXCEPT ![b] = C] = f.dir
  BY <1>1, <1>3, <1>7
<1>10. [f EXCEPT !.dir = f.dir] = f
  BY DEF FsType
<1> QED
  BY <1>8, <1>9, <1>10

\* An inode that is written twice.
LEMMA NodeTwice ==
    ASSUME NEW f \in FsType, NEW i \in Inode, NEW x, NEW y, NEW g, g = SetNode(f, i, x)
    PROVE  SetNode(g, i, y) = SetNode(f, i, y)
<1>1. f.inode \in [Inode -> NodeType]
  BY TypedFacts
<1>2. PICK N : N = [f.inode EXCEPT ![i] = x]
  OBVIOUS
<1>3. g = [f EXCEPT !.inode = N]
  BY <1>2 DEF SetNode, FsType
<1>4. SetNode(g, i, y) = [f EXCEPT !.inode = [N EXCEPT ![i] = y]]
  BY <1>3 DEF SetNode, FsType
<1>5. SetNode(f, i, y) = [f EXCEPT !.inode = [f.inode EXCEPT ![i] = y]]
  BY DEF SetNode, FsType
<1>6. [N EXCEPT ![i] = y] = [f.inode EXCEPT ![i] = y]
  BY <1>1, <1>2
<1> QED
  BY <1>4, <1>5, <1>6

\* An entry, and the allocation of another block.
LEMMA AllocThenEntry ==
    ASSUME NEW f \in FsType, NEW b \in Block, NEW e, NEW x, b # Head(f.free),
           NEW g, NEW h, g = SetEntry(f, b, e, x), h = AllocBlock(f)
    PROVE  AllocBlock(g) = SetEntry(h, b, e, x)
<1>1. f.dir \in [Block -> [Slot -> EntryType]]
  BY TypedFacts
<1>2. PICK t : t = Tail(f.free)
  OBVIOUS
<1>3. PICK c : c = Head(f.free)
  OBVIOUS
<1>4. PICK B : B = [f.dir[b] EXCEPT ![e] = x]
  OBVIOUS
<1>5. PICK D : D = [f.dir EXCEPT ![b] = B]
  OBVIOUS
<1>6. PICK E : E = [f.dir EXCEPT ![c] = EmptyBlock]
  OBVIOUS
<1>7. g = [f EXCEPT !.dir = D]
  BY <1>4, <1>5 DEF SetEntry, FsType
<1>8. h = [f EXCEPT !.free = t, !.dir = E]
  BY <1>2, <1>3, <1>6 DEF AllocBlock, FsType
<1>9. E[b] = f.dir[b]
  BY <1>1, <1>3, <1>6
<1>10. AllocBlock(g) = [f EXCEPT !.free = t, !.dir = [D EXCEPT ![c] = EmptyBlock]]
  <2>1. g.free = f.free /\ g.dir = D
    BY <1>7 DEF FsType
  <2>2. AllocBlock(g) = [g EXCEPT !.free = t, !.dir = [D EXCEPT ![c] = EmptyBlock]]
    BY <1>2, <1>3, <1>7, <2>1 DEF AllocBlock, FsType
  <2> QED
    BY <1>7, <2>2 DEF FsType
<1>11. SetEntry(h, b, e, x) = [f EXCEPT !.free = t, !.dir = [E EXCEPT ![b] = B]]
  BY <1>4, <1>8, <1>9 DEF SetEntry, FsType
<1>12. [D EXCEPT ![c] = EmptyBlock] = [E EXCEPT ![b] = B]
  BY <1>1, <1>3, <1>5, <1>6
<1> QED
  BY <1>10, <1>11, <1>12

\* An entry, and the end of an inode that has not its block.
LEMMA FreeThenEntry ==
    ASSUME NEW f \in FsType, NEW i \in Inode, NEW b \in Block, b \notin BlocksOf(f, i),
           NEW e \in Slot, NEW x \in EntryType,
           NEW g, NEW h, g = SetEntry(f, b, e, x), h = Freed(f, i)
    PROVE  SetEntry(h, b, e, x) = Freed(g, i)
<1>1. f.dir \in [Block -> [Slot -> EntryType]]
  BY TypedFacts
<1>2. PICK s : s = f.inode[i].blocks /\ b \notin ToSet(s)
  BY DEF BlocksOf
<1>3. PICK t : t = OnTop(s, f.free)
  OBVIOUS
<1>4. PICK z : z = Unused(f.inode, i)
  OBVIOUS
<1>5. PICK n : n = f.numFreeInodes + 1
  OBVIOUS
<1>6. PICK B : B = [f.dir[b] EXCEPT ![e] = x]
  OBVIOUS
<1>7. PICK D : D = [f.dir EXCEPT ![b] = B]
  OBVIOUS
<1>8. PICK E : E = Emptied(f.dir, s)
  OBVIOUS
<1>9. g = [f EXCEPT !.dir = D]
  BY <1>6, <1>7 DEF SetEntry, FsType
<1>10. h = Ended(f, t, E, z, n)
  BY <1>2, <1>3, <1>4, <1>5, <1>8, FreedIs
<1>11. E[b] = f.dir[b]
  BY <1>2, <1>8 DEF Emptied
<1>12. SetEntry(h, b, e, x) =
          [f EXCEPT !.free = t, !.dir = [E EXCEPT ![b] = B], !.inode = z, !.numFreeInodes = n]
  BY <1>6, <1>10, <1>11 DEF SetEntry, FsType, Ended
<1>13. PICK F : F = Emptied(D, s)
  OBVIOUS
<1>14. g \in FsType /\ g.inode = f.inode /\ g.free = f.free
       /\ g.numFreeInodes = f.numFreeInodes /\ g.dir = D
  <2>1. g \in FsType
    BY EntryRecord
  <2>2. g.inode = f.inode /\ g.free = f.free /\ g.numFreeInodes = f.numFreeInodes
        /\ g.dir = D
    BY <1>9 DEF FsType
  <2> QED
    BY <2>1, <2>2
<1>15. Freed(g, i) = Ended(g, t, F, z, n)
  BY <1>2, <1>3, <1>4, <1>5, <1>13, <1>14, FreedIs
<1>16. Freed(g, i) = [f EXCEPT !.free = t, !.dir = F, !.inode = z, !.numFreeInodes = n]
  BY <1>9, <1>15 DEF FsType, Ended
<1>17. F = [E EXCEPT ![b] = B]
  <2>1. D[b] = B /\ \A c \in Block \ {b} : D[c] = f.dir[c]
    BY <1>1, <1>7
  <2>2. \A c \in Block : F[c] = [E EXCEPT ![b] = B][c]
    BY <1>2, <1>8, <1>13, <2>1 DEF Emptied
  <2> QED
    BY <1>8, <1>13, <2>2 DEF Emptied
<1> QED
  BY <1>12, <1>16, <1>17

\* What add_entry_to_parent leaves alone, and that an entry of another directory
\* may be cleared before it or after it.
LEMMA AddThenEntry ==
    ASSUME NEW over \in Nat, NEW f, Good(over, f),
           NEW p \in Dirs(f), NEW i \in InUse(f), NEW n \in Name,
           NEW d \in Inode \ {p}, NEW b \in BlocksOf(f, d), NEW e \in Slot,
           NEW h, h = SetEntry(f, b, e, NoEntry),
           NEW ino, ino = f.inode[p],
           NEW r, r = AddEntry(f, ino, i, n),
           NEW w, w = AddEntry(h, ino, i, n)
    PROVE  /\ w.ok = r.ok
           /\ ~ r.ok => r.fs = f
           /\ r.ok => /\ w.ino = r.ino /\ r.ino.links = 1
                      /\ r.fs \in FsType
                      /\ w.fs = SetEntry(r.fs, b, e, NoEntry)
                      /\ \A c \in BlocksOf(f, d) : r.fs.dir[c] = f.dir[c]
<1>1. p \in Inode /\ f \in FsType /\ ino.links = 1 /\ b \in Block
      /\ BlocksOf(f, d) \subseteq Block /\ NoEntry \in EntryType /\ ino \in NodeType
  BY TypedFacts, ConstantFacts DEF Dirs, Good, NodesOK
<1>2. PICK s : s = ino.blocks
  OBVIOUS
<1>3. PICK last : last = LastBlock(f, p)
  OBVIOUS
<1>4. PICK gaps : gaps = Gaps(f, last)
  OBVIOUS
<1>5. PICK q : q = Head(f.free)
  OBVIOUS
<1>6. PICK y : y = Entry(i, n) /\ y \in EntryType
  <2>1. i \in 0..NumInodes
    BY ConstantFacts DEF InUse
  <2> QED
    BY <2>1, ConstantFacts
<1>7. PICK k : k = Min(gaps)
  OBVIOUS
<1>8. PICK long : long = Longer(ino, q)
  OBVIOUS
<1>9. /\ s # << >> /\ gaps # {} =>
            r.ok = TRUE /\ r.ino = ino /\ r.fs = SetEntry(f, last, k, y)
      /\ ~ (s # << >> /\ gaps # {}) /\ f.free # << >> =>
            r.ok = TRUE /\ r.ino = long /\ r.fs = SetEntry(AllocBlock(f), q, 1, y)
      /\ ~ (s # << >> /\ gaps # {}) /\ f.free = << >> => r.ok = FALSE /\ r.fs = f
  <2>1. Added(f, i, n, r, ino, last, gaps)
    BY <1>3, <1>4, AddEntryIs
  <2> QED
    BY <1>2, <1>5, <1>6, <1>7, <1>8, <2>1 DEF Added
<1>10. /\ h \in FsType /\ h.inode = f.inode /\ h.free = f.free
       /\ \A c \in Block \ {b} : h.dir[c] = f.dir[c]
  BY <1>1, EntryRecord
<1>11. PICK gapsH : gapsH = Gaps(h, last)
  OBVIOUS
<1>12. /\ s # << >> /\ gapsH # {} =>
            w.ok = TRUE /\ w.ino = ino /\ w.fs = SetEntry(h, last, Min(gapsH), y)
       /\ ~ (s # << >> /\ gapsH # {}) /\ f.free # << >> =>
            w.ok = TRUE /\ w.ino = long /\ w.fs = SetEntry(AllocBlock(h), q, 1, y)
       /\ ~ (s # << >> /\ gapsH # {}) /\ f.free = << >> => w.ok = FALSE /\ w.fs = h
  <2>1. ino = h.inode[p] /\ last = LastBlock(h, p) /\ q = Head(h.free) /\ h.free = f.free
    BY <1>3, <1>5, <1>10 DEF LastBlock
  <2>2. Added(h, i, n, w, ino, last, gapsH)
    BY <1>11, <2>1, AddEntryIs
  <2> QED
    BY <1>2, <1>6, <1>8, <2>1, <2>2 DEF Added
<1>13. s # << >> => last \in BlocksOf(f, p)
  <2>1. s \in Seq(Block) /\ BlocksOf(f, p) = ToSet(s)
    BY <1>1, <1>2, TypedFacts DEF BlocksOf
  <2>2. s # << >> => Len(s) \in DOMAIN s
    BY <2>1
  <2>3. last = s[Len(s)]
    BY <1>2, <1>3 DEF LastBlock
  <2> QED
    BY <2>1, <2>2, <2>3 DEF ToSet
<1>14. s # << >> => last \in Block /\ last \notin BlocksOf(f, d)
  BY <1>1, <1>13, GoodFacts, TypedFacts
<1>15. s # << >> => gapsH = gaps
  BY <1>4, <1>10, <1>11, <1>14 DEF Gaps
<1>16. CASE s # << >> /\ gaps # {}
  <2>1. k \in Slot
    <3>1. ChildSlot(f, p, last, k)
      <4>1. last = LastBlock(f, p) /\ gaps # {}
        BY <1>3, <1>16
      <4> QED
        BY <1>4, <1>7, <4>1, GapFacts
    <3> QED
      BY <3>1 DEF ChildSlot
  <2>2. PICK u : u = SetEntry(f, last, k, y)
    OBVIOUS
  <2>3. u \in FsType /\ \A c \in Block \ {last} : u.dir[c] = f.dir[c]
    <3>1. last \in Block /\ y \in EntryType
      BY <1>6, <1>14, <1>16
    <3>2. f \in FsType
      BY <1>1
    <3> QED
      BY <2>1, <2>2, <3>1, <3>2, EntryRecord
  <2>4. r.ok = TRUE /\ r.ino = ino /\ r.fs = u
    BY <1>9, <1>16, <2>2
  <2>5. w.ok = TRUE /\ w.ino = ino /\ w.fs = SetEntry(h, last, k, y)
    BY <1>7, <1>12, <1>15, <1>16
  <2>6. SetEntry(h, last, k, y) = SetEntry(u, b, e, NoEntry)
    BY <1>1, <1>14, <1>16, <2>2, EntriesCommute
  <2>7. \A c \in BlocksOf(f, d) : u.dir[c] = f.dir[c]
    BY <1>1, <1>14, <1>16, <2>3
  <2> QED
    BY <1>1, <2>3, <2>4, <2>5, <2>6, <2>7
<1>17. CASE ~ (s # << >> /\ gaps # {}) /\ f.free # << >>
  <2>1. PICK a : a = AllocBlock(f)
    OBVIOUS
  <2>2. a \in FsType /\ q \in Block /\ \A c \in Block \ {q} : a.dir[c] = f.dir[c]
    BY <1>5, <1>17, <2>1, StepAlloc DEF Good, Loose
  <2>3. q \notin BlocksOf(f, d)
    BY <1>5, <1>17, <2>1, StepAlloc
  <2>4. 1 \in Slot
    BY ConstantFacts
  <2>5. PICK u : u = SetEntry(a, q, 1, y)
    OBVIOUS
  <2>6. u \in FsType /\ \A c \in Block \ {q} : u.dir[c] = a.dir[c]
    BY <1>6, <2>2, <2>4, <2>5, EntryRecord
  <2>7. r.ok = TRUE /\ r.ino = long /\ r.fs = u
    BY <1>9, <1>17, <2>1, <2>5
  <2>8. w.ok = TRUE /\ w.ino = long /\ w.fs = SetEntry(AllocBlock(h), q, 1, y)
    BY <1>10, <1>12, <1>15, <1>17
  <2>9. PICK v : v = SetEntry(a, b, e, NoEntry)
    OBVIOUS
  <2>10. b # q
    BY <2>3
  <2>11. AllocBlock(h) = v
    BY <1>1, <1>5, <2>1, <2>9, <2>10, AllocThenEntry
  <2>12. SetEntry(v, q, 1, y) = SetEntry(u, b, e, NoEntry)
    BY <1>1, <2>2, <2>5, <2>9, <2>10, EntriesCommute
  <2>13. \A c \in BlocksOf(f, d) : u.dir[c] = f.dir[c]
    BY <1>1, <2>2, <2>3, <2>6
  <2>14. long.links = 1
    BY <1>1, <1>8 DEF Longer, NodeType
  <2> QED
    BY <2>6, <2>7, <2>8, <2>11, <2>12, <2>13, <2>14
<1>18. CASE ~ (s # << >> /\ gaps # {}) /\ f.free = << >>
  BY <1>9, <1>10, <1>12, <1>15, <1>18
<1> QED
  BY <1>16, <1>17, <1>18

-----------------------------------------------------------------------------
(* Handlers *)

\* A path that leads to nothing has a new name for its parent; one that leads
\* to an inode leads to an entry of its parent.
LEMMA LastNameFacts ==
    ASSUME NEW over \in Nat, NEW f, Good(over, f),
           NEW path \in Path, NEW p, p = Parent(f, path), p # 0,
           NEW i, i = Resolve(f, path)
    PROVE  /\ p \in InUse(f) /\ p \in Inode /\ IsNamed(f, p)
           /\ Last(path) \in Name \ Reserved
           /\ i = 0 => \A b, e : Child(f, p, b, e) => f.dir[b][e].name # Last(path)
           /\ i # 0 => /\ i \in InUse(f) \ {Root} /\ i \in Inode /\ IsNamed(f, i)
                       /\ \E b, e : Child(f, p, b, e) /\ f.dir[b][e].ino = i
<1>1. PICK n : n = Last(path)
  OBVIOUS
<1>2. n \in Name \ Reserved /\ p \in InUse(f) /\ IsNamed(f, p) /\ i = Lookup(f, p, n)
  BY <1>1, ResolveFacts
<1>3. \/ /\ i = 0
         /\ \A b, e : Child(f, p, b, e) => f.dir[b][e].name # n
      \/ \E b, e : Child(f, p, b, e) /\ f.dir[b][e].ino = i /\ f.dir[b][e].name = n
  BY <1>2, LookupFacts
<1>4. \A b, e : Child(f, p, b, e) => f.dir[b][e].ino \in InUse(f) \ {Root} /\ f.dir[b][e].ino # 0
  BY DEF Child, Good, ChildrenOK
<1>5. InUse(f) \subseteq Inode
  BY DEF InUse
<1>6. i # 0 => \E b, e : Child(f, p, b, e) /\ f.dir[b][e].ino = i
  BY <1>3
<1>7. i # 0 => i \in InUse(f) \ {Root} /\ i \in Inode /\ IsNamed(f, i)
  BY <1>4, <1>5, <1>6 DEF IsNamed
<1>8. i = 0 => \A b, e : Child(f, p, b, e) => f.dir[b][e].name # n
  BY <1>3, <1>4
<1> QED
  BY <1>1, <1>2, <1>5, <1>6, <1>7, <1>8

\* A directory on the way to an inode does not name it in its own entries: no
\* directory is among what is in it.
LEMMA NotInDots ==
    ASSUME NEW over \in Nat, NEW f, Good(over, f), NEW path \in Path,
           NEW p, p = Parent(f, path), NEW i, i = Resolve(f, path), i # 0
    PROVE  p \in Dirs(f) /\ i # p /\ f.dir[FirstBlock(f, p)][2].ino # i
<1>1. UniqueOK(f) /\ ChildrenOK(f) /\ DotsOK(f)
  BY DEF Good
<1>2. p # 0
  BY ResolveFacts
<1>3. PICK b, e : Child(f, p, b, e) /\ f.dir[b][e].ino = i
  BY <1>2, LastNameFacts
<1>4. /\ p \in Dirs(f) /\ p \in Inode /\ IsNamed(f, p)
      /\ i \in Inode /\ i # Root
  BY <1>2, <1>3, LastNameFacts DEF Child, ChildSlot
<1>5. SUFFICES ASSUME i = p \/ f.dir[FirstBlock(f, p)][2].ino = i PROVE FALSE
  BY <1>4
<1>6. p # Root
  BY <1>1, <1>4, <1>5 DEF DotsOK
<1>7. PICK d, c, k : Child(f, d, c, k) /\ f.dir[c][k].ino = p
  BY <1>4, <1>6 DEF IsNamed
<1>8. \A u, v, x, y : Child(f, u, x, y) /\ Child(f, v, x, y) => u = v
  BY GoodFacts DEF Child, ChildSlot
<1>9. d \in {p, i}
  <2>1. CASE i = p
    BY <1>1, <1>3, <1>7, <1>8, <2>1 DEF UniqueOK
  <2>2. CASE f.dir[FirstBlock(f, p)][2].ino = i
    BY <1>1, <1>4, <1>7, <2>2 DEF ChildrenOK
  <2> QED
    BY <1>5, <2>1, <2>2
<1>10. PICK S : S = Reachable(f) \ {p, i}
  OBVIOUS
<1>11. Root \in S /\ 0 \in S
  BY <1>2, <1>4, <1>6, <1>10, ReachableFacts
<1>12. ASSUME NEW u \in S \ {0}, NEW x \in Name \ Reserved
       PROVE  Lookup(f, u, x) \in S
  <2>1. PICK r : r = Lookup(f, u, x)
    OBVIOUS
  <2>2. u \in InUse(f) /\ u \notin {p, i} /\ r \in Reachable(f)
    BY <1>10, <1>12, <2>1, ReachableFacts
  <2>3. r = 0 \/ \E y, z : Child(f, u, y, z) /\ f.dir[y][z].ino = r
    BY <1>12, <2>1, <2>2, LookupFacts
  <2>4. ASSUME NEW y, NEW z, Child(f, u, y, z), f.dir[y][z].ino = r, r \in {p, i}
        PROVE  FALSE
    <3>1. CASE r = p
      BY <1>1, <1>7, <1>8, <1>9, <2>2, <2>4, <3>1 DEF UniqueOK
    <3>2. CASE r = i
      BY <1>1, <1>3, <1>8, <2>2, <2>4, <3>2 DEF UniqueOK
    <3> QED
      BY <2>4, <3>1, <3>2
  <2>5. r \notin {p, i}
    BY <1>2, <2>3, <2>4
  <2> QED
    BY <1>10, <2>1, <2>2, <2>5
<1>13. PICK q : q = Front(path)
  OBVIOUS
<1>14. PICK m \in Nat : m = Len(q) /\ \A j \in 1..m : q[j] \in Name \ Reserved
  <2>1. PICK m \in Nat : m = Len(path) - 1
    BY FrontFacts
  <2> QED
    BY <1>13, <2>1, FrontFacts
<1>15. p = Chain(f, q)[m]
  <2>1. p = Resolve(f, q)
    BY <1>13 DEF Parent
  <2>2. \A u \in S \ {0}, j \in 1..m : Lookup(f, u, q[j]) \in S
    BY <1>12, <1>14
  <2> QED
    BY <1>11, <1>14, <2>1, <2>2, ChainRecursion
<1>16. Chain(f, q)[m] \in S
  <2>1. \A u \in S \ {0}, j \in 1..m : Lookup(f, u, q[j]) \in S
    BY <1>12, <1>14
  <2>2. \A j \in 0..m : Chain(f, q)[j] \in S
    BY <1>11, <1>14, <2>1, ChainRecursion
  <2> QED
    BY <2>2
<1> QED
  BY <1>10, <1>15, <1>16

\* The check of rmdir finds every entry of the directory.
LEMMA EmptyFacts ==
    ASSUME NEW over \in Nat, NEW f, Good(over, f),
           NEW i \in Inode, IsEmptyDirectory(f, f.inode[i])
    PROVE  \A b, e : ~ Child(f, i, b, e)
<1>1. PICK ino : ino = f.inode[i]
  OBVIOUS
<1>2. \A t \in Places(ino) : t \in {<<1, 1>>, <<1, 2>>} \/ At(f, ino, t) = NoEntry
  BY Zenon, <1>1 DEF IsEmptyDirectory, NoEntry
<1>3. ASSUME NEW b, NEW e, Child(f, i, b, e) PROVE FALSE
  <2>1. PICK t \in Places(ino) : ino.blocks[t[1]] = b /\ t[2] = e
    BY <1>1, <1>3, PlaceFacts DEF Child, ChildSlot
  <2>2. t \notin {<<1, 1>>, <<1, 2>>}
    BY <1>1, <1>3, <2>1, PlaceFacts DEF Child, ChildSlot
  <2>3. f.dir[b][e] = NoEntry
    BY <1>2, <2>1, <2>2 DEF At
  <2> QED
    BY <1>3, <2>3, ConstantFacts DEF Child
<1> QED
  BY <1>3

\* Between f and g only inode i and its blocks may have been lost.
LosesOnly(f, g, i) ==
    /\ \A x : UsableInode(f, x) => UsableInode(g, x) \/ x = i
    /\ \A b : UsableBlock(f, b) => UsableBlock(g, b) \/ b \in BlocksOf(g, i)

\* The entry finds them again.
LEMMA EnterLosesNothing ==
    ASSUME NEW over \in Nat, NEW f, NEW m, Good(over, m),
           NEW p \in Inode, NEW i \in Inode, i # p, IsNamed(m, p),
           LosesOnly(f, m, i), NEW g, Entered(m, g, p, i)
    PROVE  LosesNothing(f, g)
<1>1. /\ InUse(g) = InUse(m)
      /\ \A j : IsNamed(g, j) <=> IsNamed(m, j) \/ j = i
      /\ BlocksOf(m, p) \subseteq BlocksOf(g, p)
      /\ ToSet(m.free) \subseteq ToSet(g.free) \cup BlocksOf(g, p)
  BY DEF Entered
<1>2. \A j \in Inode : BlocksOf(m, j) \subseteq BlocksOf(g, j)
  <2>1. \A j \in Inode \ {p} : BlocksOf(g, j) = BlocksOf(m, j)
    BY DEF Entered, BlocksOf
  <2> QED
    BY <1>1, <2>1
<1>3. \A x : UsableInode(f, x) => UsableInode(g, x)
  BY <1>1 DEF LosesOnly, UsableInode
<1>4. ASSUME NEW b, UsableBlock(f, b) PROVE UsableBlock(g, b)
  <2>1. b \in ToSet(m.free) \/ (\E j \in Inode : IsNamed(m, j) /\ b \in BlocksOf(m, j))
        \/ b \in BlocksOf(m, i)
    BY <1>4 DEF LosesOnly, UsableBlock
  <2> QED
    BY <1>1, <1>2, <2>1 DEF UsableBlock
<1> QED
  BY <1>3, <1>4 DEF LosesNothing

\* The end of mkdir and mknod.
LEMMA EnterStep ==
    ASSUME NEW over \in Nat, Good(over, fs),
           NEW m, Good(over, m), NEW p \in Inode, NEW i, NEW n, MayEnter(m, p, i, n),
           IsNamed(m, p), m.inode[p] = fs.inode[p], LosesOnly(fs, m, i),
           Enter(m, p, i, n)
    PROVE  Good(over, fs') /\ reply' \in {"ok", "silent"} /\ (reply' = "ok" => LosesNothing(fs, fs'))
<1>1. PICK r : r = AddEntry(m, m.inode[p], i, n)
  OBVIOUS
<1>2. PICK g : g = PutInode(r.fs, p, r.ino)
  OBVIOUS
<1>3. IF r.ok THEN fs' = g /\ reply' = "ok" ELSE fs' = m /\ reply' = "silent"
  BY <1>1, <1>2 DEF Enter
<1>4. \/ r.ok /\ Good(over, g) /\ Entered(m, g, p, i)
      \/ ~ r.ok /\ r.fs = m
  BY <1>1, <1>2, EnterIs
<1>5. i \in Inode /\ i # p
  BY DEF MayEnter, InUse
<1>6. Entered(m, g, p, i) => LosesNothing(fs, g)
  BY <1>5, EnterLosesNothing
<1> QED
  BY <1>3, <1>4, <1>6

\* mknod
LEMMA MknodStep ==
    ASSUME NEW over \in Nat, Good(over, fs), NEW path \in Path, Mknod(path)
    PROVE  /\ Good(over, fs') /\ reply' \in {"ok", "error", "silent"}
           /\ reply' = "ok" => LosesNothing(fs, fs')
<1>1. CASE Refuse
  BY <1>1 DEF Refuse
<1>2. CASE ~ CannotCreate(path) /\ HasFreeInode(fs)
           /\ Enter(Ialloc(fs), Parent(fs, path), NextFreeInode(fs), Last(path))
  <2>1. PICK p : p = Parent(fs, path)
    OBVIOUS
  <2>2. PICK n : n = Last(path)
    OBVIOUS
  <2>3. PICK i : i = NextFreeInode(fs)
    OBVIOUS
  <2>4. PICK m : m = Ialloc(fs)
    OBVIOUS
  <2>5. p # 0 /\ Resolve(fs, path) = 0 /\ fs.inode[p].type = "directory"
    BY <1>2, <2>1 DEF CannotCreate, Absent, Mknod, ParentChecked
  <2>6. /\ p \in InUse(fs) /\ p \in Inode /\ IsNamed(fs, p) /\ n \in Name \ Reserved
        /\ \A b, e : Child(fs, p, b, e) => fs.dir[b][e].name # n
    BY <2>1, <2>2, <2>5, LastNameFacts
  <2>7. /\ Good(over, m)
        /\ m.free = fs.free /\ m.dir = fs.dir
        /\ i \in Inode \ InUse(fs) /\ i # Root
        /\ \A j \in Inode \ {i} : m.inode[j] = fs.inode[j]
        /\ \A j \in Inode : BlocksOf(m, j) = BlocksOf(fs, j)
        /\ Dirs(m) = Dirs(fs) /\ InUse(m) = InUse(fs) \cup {i}
        /\ SameChildren(fs, m)
        /\ ~ IsNamed(fs, i)
        /\ \A j : IsNamed(m, j) <=> IsNamed(fs, j)
    BY <1>2, <2>3, <2>4, StepIalloc
  <2>8. i # p /\ p \in Dirs(m) /\ i \notin Dirs(m)
    BY <2>5, <2>6, <2>7 DEF Dirs, InUse
  <2>9. \A b, e : Child(m, p, b, e) => m.dir[b][e].name # n
    BY <2>6, <2>7 DEF SameChildren, Child
  <2>10. MayEnter(m, p, i, n)
    BY <2>6, <2>7, <2>8, <2>9 DEF MayEnter
  <2>11. LosesOnly(fs, m, i)
    BY <2>7 DEF LosesOnly, UsableInode, UsableBlock
  <2>12. Enter(m, p, i, n)
    BY <1>2, <2>1, <2>2, <2>3, <2>4
  <2> QED
    BY <2>6, <2>7, <2>8, <2>10, <2>11, <2>12, EnterStep
<1> QED
  BY <1>1, <1>2 DEF Mknod

\* The directory that mkdir makes, before it has an entry.
LEMMA MadeDirectory ==
    ASSUME NEW over \in Nat, NEW f, Good(over, f), f.free # << >>, HasFreeInode(f),
           NEW p \in Dirs(f), IsNamed(f, p), NEW n \in Name \ Reserved,
           \A b, e : Child(f, p, b, e) => f.dir[b][e].name # n,
           NEW b, b = Head(f.free), NEW i, i = NextFreeInode(f),
           NEW m, m = SetNode(InitDirBlock(Ialloc(AllocBlock(f)), b, i, p), i, DirNode(b))
    PROVE  /\ Good(over, m)
           /\ MayEnter(m, p, i, n)
           /\ IsNamed(m, p)
           /\ m.inode[p] = f.inode[p]
           /\ LosesOnly(f, m, i)
<1>1. PICK a : a = AllocBlock(f)
  OBVIOUS
<1>2. PICK c : c = Ialloc(a)
  OBVIOUS
<1>3. PICK d : d = InitDirBlock(c, b, i, p)
  OBVIOUS
<1>4. PICK x : x = DirNode(b)
  OBVIOUS
<1>5. m = SetNode(d, i, x) /\ p \in Inode
  BY <1>1, <1>2, <1>3, <1>4 DEF Dirs
<1>6. /\ Good(over, a)
      /\ a.inode = f.inode
      /\ Loose(a, b) /\ \A j : BlocksOf(a, j) = BlocksOf(f, j)
      /\ Dirs(a) = Dirs(f) /\ InUse(a) = InUse(f)
      /\ SameChildren(f, a)
      /\ \A j : IsNamed(a, j) <=> IsNamed(f, j)
      /\ \A y : UsableBlock(f, y) => UsableBlock(a, y) \/ y = b
  BY <1>1, StepAlloc
<1>7. HasFreeInode(a) /\ i = NextFreeInode(a)
  BY <1>6 DEF HasFreeInode, NextFreeInode
<1>8. /\ Good(over, c)
      /\ c.free = a.free /\ c.dir = a.dir
      /\ i \in Inode \ InUse(a) /\ i # Root
      /\ c.inode[i] = [type |-> "ordinary", links |-> 1, blocks |-> << >>]
      /\ \A j \in Inode \ {i} : c.inode[j] = a.inode[j]
      /\ \A j \in Inode : BlocksOf(c, j) = BlocksOf(a, j)
      /\ Dirs(c) = Dirs(a) /\ InUse(c) = InUse(a) \cup {i}
      /\ SameChildren(a, c)
      /\ ~ IsNamed(a, i)
      /\ \A j : IsNamed(c, j) <=> IsNamed(a, j)
  BY <1>2, <1>6, <1>7, StepIalloc
<1>9. Loose(c, b)
  BY <1>6, <1>8 DEF Loose
<1>10. /\ Good(over, d)
       /\ d.inode = c.inode /\ d.free = c.free
       /\ Loose(d, b)
       /\ d.dir[b][1] = Entry(i, ".") /\ d.dir[b][2] = Entry(p, "..")
       /\ \A e \in Slot \ {1, 2} : d.dir[b][e] = NoEntry
       /\ \A j : BlocksOf(d, j) = BlocksOf(c, j)
       /\ Dirs(d) = Dirs(c) /\ InUse(d) = InUse(c)
       /\ SameChildren(c, d)
       /\ \A j : IsNamed(d, j) <=> IsNamed(c, j)
  BY <1>3, <1>5, <1>8, <1>9, StepInitDir
<1>11. /\ d.inode[i].type = "ordinary" /\ BlocksOf(d, i) = {} /\ ~ IsNamed(d, i)
       /\ i \in InUse(d) \ {Root}
  <2>1. BlocksOf(a, i) = {}
    BY <1>6, <1>8, GoodFacts
  <2> QED
    BY <1>8, <1>10, <2>1
<1>12. /\ Good(over, m)
       /\ m.free = d.free /\ m.dir = d.dir
       /\ \A j \in Inode \ {i} : m.inode[j] = d.inode[j]
       /\ BlocksOf(m, i) = {b}
       /\ \A j \in Inode \ {i} : BlocksOf(m, j) = BlocksOf(d, j)
       /\ Dirs(m) = Dirs(d) \cup {i} /\ InUse(m) = InUse(d)
       /\ FirstBlock(m, i) = b
       /\ \A u, v, e : Child(m, u, v, e) <=> Child(d, u, v, e)
       /\ \A j : IsNamed(m, j) <=> IsNamed(d, j)
  BY <1>4, <1>5, <1>10, <1>11, StepMakeDir
<1>13. p \in InUse(f) /\ i # p
  BY <1>6, <1>8, TypedFacts DEF Good
<1>14. m.inode[p] = f.inode[p] /\ IsNamed(m, p) /\ p \in Dirs(m)
  BY <1>5, <1>6, <1>8, <1>10, <1>12, <1>13
<1>15. \A v, e : Child(m, p, v, e) => m.dir[v][e].name # n
  <2>1. \A v, e : Child(d, p, v, e) => Child(c, p, v, e) /\ d.dir[v][e] = c.dir[v][e]
    BY <1>10 DEF SameChildren, Child
  <2>2. \A v, e : Child(c, p, v, e) => Child(a, p, v, e) /\ c.dir[v][e] = a.dir[v][e]
    BY <1>8 DEF SameChildren, Child
  <2>3. \A v, e : Child(a, p, v, e) => Child(f, p, v, e) /\ a.dir[v][e] = f.dir[v][e]
    BY <1>6 DEF SameChildren, Child
  <2> QED
    BY <1>12, <2>1, <2>2, <2>3
<1>16. m.dir[FirstBlock(m, i)][2].ino = p
  BY <1>10, <1>12, ConstantFacts
<1>17. MayEnter(m, p, i, n)
  BY <1>11, <1>12, <1>14, <1>15, <1>16 DEF MayEnter
<1>18. \A y : UsableInode(f, y) => UsableInode(m, y) \/ y = i
  BY <1>6, <1>8, <1>10, <1>12 DEF UsableInode
<1>19. \A y : UsableBlock(f, y) => UsableBlock(m, y) \/ y \in BlocksOf(m, i)
  <2>1. ASSUME NEW y, UsableBlock(a, y) PROVE UsableBlock(m, y)
    <3>1. CASE y \in ToSet(a.free)
      BY <1>8, <1>10, <1>12, <3>1 DEF UsableBlock
    <3>2. ASSUME NEW j \in Inode, IsNamed(a, j), y \in BlocksOf(a, j)
          PROVE  UsableBlock(m, y)
      <4>1. j # i
        BY <1>8, <3>2
      <4>2. IsNamed(m, j) /\ y \in BlocksOf(m, j)
        BY <1>8, <1>10, <1>12, <3>2, <4>1
      <4> QED
        BY <4>2 DEF UsableBlock
    <3> QED
      BY <2>1, <3>1, <3>2 DEF UsableBlock
  <2> QED
    BY <1>6, <1>12, <2>1
<1> QED
  BY <1>12, <1>14, <1>17, <1>18, <1>19 DEF LosesOnly

\* mkdir
LEMMA MkdirStep ==
    ASSUME NEW over \in Nat, Good(over, fs), NEW path \in Path, Mkdir(path)
    PROVE  /\ Good(over, fs') /\ reply' \in {"ok", "error", "silent"}
           /\ reply' = "ok" => LosesNothing(fs, fs')
<1>1. CASE Refuse
  BY <1>1 DEF Refuse
<1>2. CASE fs.free # << >> /\ fs' = AllocBlock(fs) /\ reply' = "error"
  BY <1>2, StepAlloc
<1> DEFINE p == Parent(fs, path)
           i == NextFreeInode(fs)
           b == Head(fs.free)
           n == Last(path)
           d == InitDirBlock(Ialloc(AllocBlock(fs)), b, i, p)
           x == [type |-> "directory", links |-> 1, blocks |-> <<b>>]
<1>3. CASE ~ CannotCreate(path) /\ fs.free # << >> /\ HasFreeInode(fs)
           /\ Enter(PutInode(d, i, x), p, i, n)
  <2>1. p # 0 /\ Resolve(fs, path) = 0 /\ fs.inode[p].type = "directory"
    BY <1>3 DEF CannotCreate, Absent, Mkdir, ParentChecked
  <2>2. PICK m : m = PutInode(d, i, x)
    OBVIOUS
  <2>3. m = SetNode(d, i, DirNode(b))
    <3>1. x = DirNode(b)
      BY DEF DirNode
    <3>2. x.links = 1
      OBVIOUS
    <3> HIDE DEF d, x
    <3> QED
      BY <2>2, <3>1, <3>2, PutInodeIs
  <2> HIDE DEF x
  <2>4. /\ p \in InUse(fs) /\ p \in Inode /\ IsNamed(fs, p) /\ n \in Name \ Reserved
        /\ \A c, e : Child(fs, p, c, e) => fs.dir[c][e].name # n
    <3>1. PICK q : q = p
      OBVIOUS
    <3> QED
      BY <2>1, <3>1, LastNameFacts
  <2>5. p \in Dirs(fs)
    BY <2>1, <2>4 DEF Dirs
  <2>6. PICK q : q = p
    OBVIOUS
  <2>7. PICK j : j = i
    OBVIOUS
  <2>8. PICK l : l = n
    OBVIOUS
  <2>9. PICK h : h = b
    OBVIOUS
  <2>10. m = SetNode(InitDirBlock(Ialloc(AllocBlock(fs)), h, j, q), j, DirNode(h))
    BY <2>3, <2>6, <2>7, <2>9
  <2>11. /\ q \in Dirs(fs) /\ IsNamed(fs, q) /\ l \in Name \ Reserved /\ q \in Inode
         /\ \A c, e : Child(fs, q, c, e) => fs.dir[c][e].name # l
         /\ h = Head(fs.free) /\ j = NextFreeInode(fs)
         /\ fs.free # << >> /\ HasFreeInode(fs)
         /\ Enter(m, q, j, l)
    BY <1>3, <2>2, <2>4, <2>5, <2>6, <2>7, <2>8, <2>9
  <2> HIDE DEF p, i, b, n, d
  <2>12. /\ Good(over, m) /\ MayEnter(m, q, j, l) /\ IsNamed(m, q)
         /\ m.inode[q] = fs.inode[q] /\ LosesOnly(fs, m, j)
    BY <2>10, <2>11, MadeDirectory
  <2> QED
    BY <2>11, <2>12, EnterStep
<1> QED
  BY <1>1, <1>2, <1>3 DEF Mkdir

\* An inode that is freed, seen from the other inodes.
LEMMA FreedSameBut ==
    ASSUME NEW over \in Nat, NEW f, Good(over, f), NEW i \in Inode, NEW g, g = Freed(f, i)
    PROVE  SameBut(f, g, i) /\ g \in FsType
<1>1. /\ g \in FsType
      /\ g.inode[i] = FreeInode
      /\ \A j \in Inode \ {i} : g.inode[j] = f.inode[j]
      /\ \A b \in Block \ BlocksOf(f, i) : g.dir[b] = f.dir[b]
  BY FreedRecord
<1>2. ASSUME NEW j \in Inode \ {i}, NEW b \in BlocksOf(f, j) PROVE g.dir[b] = f.dir[b]
  <2>1. b \in Block
    BY TypedFacts DEF Good
  <2>2. b \notin BlocksOf(f, i)
    BY GoodFacts
  <2> QED
    BY <1>1, <2>1, <2>2
<1> QED
  BY <1>1, <1>2 DEF SameBut

\* g is f without inode t and without its entry.
Without(f, g, t) ==
    /\ InUse(g) = InUse(f) \ {t}
    /\ \A j \in Inode \ {t} : g.inode[j] = f.inode[j]
    /\ \A d, b, e : Child(g, d, b, e) =>
          Child(f, d, b, e) /\ g.dir[b][e] = f.dir[b][e] /\ f.dir[b][e].ino # t
    /\ \A d, b, e : Child(f, d, b, e) /\ f.dir[b][e].ino # t => Child(g, d, b, e)

\* unlink and rmdir free the inode and then remove its entry; they end as if the
\* entry had been removed first.
LEMMA DropIs ==
    ASSUME NEW over \in Nat, NEW f, Good(over, f),
           NEW path \in Path, NEW i, i = Resolve(f, path), i # 0,
           \A b, e : ~ Child(f, i, b, e),
           NEW r, r = Drop(f, path, i)
    PROVE  r.ok /\ Good(over, r.fs) /\ LosesNothing(f, r.fs) /\ Without(f, r.fs, i)
<1>1. PICK g : g = Freed(f, i)
  OBVIOUS
<1>2. i \in InUse(f) /\ i \in Inode
  BY ResolveFacts DEF InUse
<1>3. SameBut(f, g, i) /\ g \in FsType
  BY <1>1, <1>2, FreedSameBut
<1>4. PICK p : p = Parent(f, path)
  OBVIOUS
<1>5. Parent(g, path) = p /\ p \notin {0, i}
  BY <1>3, <1>4, ParentKept
<1>6. PICK b, e : Child(f, p, b, e) /\ f.dir[b][e].ino = i
  BY <1>4, <1>5, LastNameFacts
<1>7. i # Root /\ p \in Inode /\ IsNamed(f, p)
  BY <1>4, <1>5, LastNameFacts
<1>8. /\ p \in Dirs(f) /\ f.inode[p].links = 1 /\ f \in FsType
      /\ b \in BlocksOf(f, p) /\ b \in Block /\ e \in Slot
  BY <1>6, GoodFacts DEF Child, ChildSlot, Good, NodesOK, Dirs
<1>9. g.inode[p] = f.inode[p] /\ \A c \in BlocksOf(f, p) : g.dir[c] = f.dir[c]
  BY <1>3, <1>5, <1>7 DEF SameBut
<1>10. PICK w : w = RemoveEntry(g, f.inode[p], i)
  OBVIOUS
<1>11. w.ok /\ w.fs = SetEntry(g, b, e, NoEntry)
  <2>1. i # p /\ f.dir[FirstBlock(f, p)][2].ino # i
    BY <1>4, NotInDots
  <2> QED
    BY <1>6, <1>9, <1>10, <2>1, RemoveEntryIs
<1>12. r = IF w.ok THEN [ok |-> TRUE, fs |-> PutInode(w.fs, p, f.inode[p])]
           ELSE [ok |-> FALSE, fs |-> g]
  BY <1>1, <1>5, <1>9, <1>10 DEF Drop, Freed
<1>13. PICK u : u = SetEntry(g, b, e, NoEntry)
  OBVIOUS
<1>14. r.ok /\ r.fs = PutInode(u, p, f.inode[p])
  BY <1>11, <1>12, <1>13
<1>15. NoEntry \in EntryType
  BY ConstantFacts
<1>16. u \in FsType /\ u.inode = g.inode
  BY <1>3, <1>8, <1>13, <1>15, EntryRecord
<1>17. r.fs = u
  <2>1. r.fs = SetNode(u, p, u.inode[p])
    BY <1>8, <1>9, <1>14, <1>16, PutInodeIs
  <2> QED
    BY <1>7, <1>16, <2>1, SameNode
<1>18. PICK h : h = SetEntry(f, b, e, NoEntry)
  OBVIOUS
<1>19. u = Freed(h, i)
  <2>1. b \notin BlocksOf(f, i)
    BY <1>2, <1>5, <1>7, <1>8, GoodFacts
  <2> QED
    BY <1>1, <1>2, <1>8, <1>13, <1>15, <1>18, <2>1, FreeThenEntry
<1>20. /\ Good(over, h)
       /\ h.inode = f.inode /\ h.free = f.free
       /\ \A j : BlocksOf(h, j) = BlocksOf(f, j)
       /\ InUse(h) = InUse(f)
       /\ \A j : IsNamed(h, j) <=> IsNamed(f, j) /\ j # i
       /\ \A d, c, k : Child(h, d, c, k) =>
             Child(f, d, c, k) /\ h.dir[c][k] = f.dir[c][k]
       /\ \A d, c, k : Child(f, d, c, k) /\ f.dir[c][k].ino # i => Child(h, d, c, k)
  BY <1>6, <1>18, StepClearEntry
<1>21. /\ Good(over, u)
       /\ \A j \in Inode \ {i} : BlocksOf(u, j) = BlocksOf(h, j)
       /\ InUse(u) = InUse(h) \ {i}
       /\ \A j : IsNamed(u, j) <=> IsNamed(h, j)
       /\ \A d, c, k : Child(u, d, c, k) <=> Child(h, d, c, k)
       /\ \A d, c, k : Child(h, d, c, k) => u.dir[c][k] = h.dir[c][k]
  <2>1. i \in InUse(h) \ {Root} /\ ~ IsNamed(h, i) /\ \A c, k : ~ Child(h, i, c, k)
    BY <1>2, <1>7, <1>20
  <2> QED
    BY <1>19, <1>20, <2>1, StepFree
<1>22. /\ ToSet(u.free) = ToSet(f.free) \cup BlocksOf(f, i)
       /\ \A j \in Inode \ {i} : u.inode[j] = f.inode[j]
  BY <1>2, <1>19, <1>20, FreedRecord
<1>23. \A x : UsableInode(f, x) => UsableInode(u, x)
  BY <1>20, <1>21 DEF UsableInode
<1>24. \A x : UsableBlock(f, x) => UsableBlock(u, x)
  BY <1>20, <1>21, <1>22 DEF UsableBlock
<1>25. \A d, c, k : Child(u, d, c, k) =>
          Child(f, d, c, k) /\ u.dir[c][k] = f.dir[c][k] /\ f.dir[c][k].ino # i
  <2>1. ~ IsNamed(u, i)
    BY <1>20, <1>21
  <2> QED
    BY <1>20, <1>21, <2>1 DEF IsNamed
<1>26. Without(f, u, i)
  BY <1>20, <1>21, <1>22, <1>25 DEF Without
<1> QED
  BY <1>14, <1>17, <1>21, <1>23, <1>24, <1>26 DEF LosesNothing

LEMMA DroppedStep ==
    ASSUME NEW over \in Nat, Good(over, fs), NEW path \in Path, Resolve(fs, path) # 0,
           \A b, e : ~ Child(fs, Resolve(fs, path), b, e),
           Dropped(path)
    PROVE  Good(over, fs') /\ reply' = "ok" /\ LosesNothing(fs, fs')
<1>1. PICK i : i = Resolve(fs, path)
  OBVIOUS
<1>2. PICK r : r = Drop(fs, path, i)
  OBVIOUS
<1>3. fs' = r.fs /\ reply' = IF r.ok THEN "ok" ELSE "silent"
  BY <1>1, <1>2 DEF Dropped
<1>4. r.ok /\ Good(over, r.fs) /\ LosesNothing(fs, r.fs)
  BY <1>1, <1>2, DropIs
<1> QED
  BY <1>3, <1>4

\* unlink
LEMMA UnlinkStep ==
    ASSUME NEW over \in Nat, Good(over, fs), NEW path \in Path, Unlink(path)
    PROVE  /\ Good(over, fs') /\ reply' \in {"ok", "error", "silent"}
           /\ reply' = "ok" => LosesNothing(fs, fs')
<1>1. CASE Refuse \/ (reply' = "silent" /\ UNCHANGED fs)
  BY <1>1 DEF Refuse
<1>2. CASE /\ Resolve(fs, path) # 0
           /\ fs.inode[Resolve(fs, path)].type = "ordinary"
           /\ Dropped(path)
  <2>1. \A b, e : ~ Child(fs, Resolve(fs, path), b, e)
    BY <1>2 DEF Child, ChildSlot, Dirs
  <2> QED
    BY <1>2, <2>1, DroppedStep
<1> QED
  BY <1>1, <1>2 DEF Unlink, Absent

\* rmdir
LEMMA RmdirStep ==
    ASSUME NEW over \in Nat, Good(over, fs), NEW path \in Path, Rmdir(path)
    PROVE  /\ Good(over, fs') /\ reply' \in {"ok", "error", "silent"}
           /\ reply' = "ok" => LosesNothing(fs, fs')
<1>1. CASE Refuse
  BY <1>1 DEF Refuse
<1>2. CASE /\ Resolve(fs, path) # 0
           /\ IsEmptyDirectory(fs, fs.inode[Resolve(fs, path)])
           /\ Dropped(path)
  <2>1. PICK i : i = Resolve(fs, path)
    OBVIOUS
  <2>2. i \in Inode
    BY <1>2, <2>1, ResolveFacts DEF InUse
  <2>3. \A b, e : ~ Child(fs, i, b, e)
    BY <1>2, <2>1, <2>2, EmptyFacts
  <2> QED
    BY <1>2, <2>1, <2>3, DroppedStep
<1> QED
  BY <1>1, <1>2 DEF Rmdir, Absent

\* The move of a file adds the new entry and then removes the old one; it ends
\* as if the old one had been removed first.
LEMMA MoveStep ==
    ASSUME NEW over \in Nat, NEW f, Good(over, f), NEW old \in Path, NEW new \in Path,
           NEW i, i = Resolve(f, old), i # 0, f.inode[i].type = "ordinary",
           Resolve(f, new) = 0,
           NEW p, p = Parent(f, new), p # 0, f.inode[p].type = "directory",
           NEW d, d = Parent(f, old), d # p,
           RenameInto(f, old, new)
    PROVE  /\ Good(over, fs') /\ reply' \in {"ok", "silent"}
           /\ reply' = "ok" => LosesNothing(f, fs')
<1>1. Good(over, f) /\ f \in FsType
  BY DEF Good
<1>2. PICK n : n = Last(new)
  OBVIOUS
<1>3. /\ p \in InUse(f) /\ p \in Inode /\ IsNamed(f, p) /\ n \in Name \ Reserved
      /\ \A b, e : Child(f, p, b, e) => f.dir[b][e].name # n
      /\ p \in Dirs(f)
  <2>1. /\ p \in InUse(f) /\ p \in Inode /\ IsNamed(f, p) /\ n \in Name \ Reserved
        /\ \A b, e : Child(f, p, b, e) => f.dir[b][e].name # n
    BY <1>2, LastNameFacts
  <2> QED
    BY <2>1 DEF Dirs
<1>4. d # 0
  BY ResolveFacts
<1>5. /\ d \in Inode /\ IsNamed(f, d)
      /\ i \in InUse(f) \ {Root} /\ i \in Inode
      /\ \E b, e : Child(f, d, b, e) /\ f.dir[b][e].ino = i
  BY <1>4, LastNameFacts
<1>6. PICK b, e : Child(f, d, b, e) /\ f.dir[b][e].ino = i
  BY <1>5
<1>7. b \in BlocksOf(f, d) /\ b \in Block /\ e \in Slot /\ d \in Dirs(f)
  BY <1>1, <1>6, GoodFacts DEF Child, ChildSlot
<1>8. i \notin Dirs(f) /\ i # d /\ i # p /\ \A c, k : ~ Child(f, i, c, k)
  <2>1. i \notin Dirs(f)
    BY DEF Dirs
  <2> QED
    BY <1>3, <1>7, <2>1 DEF Child, ChildSlot
<1>9. PICK h : h = SetEntry(f, b, e, NoEntry)
  OBVIOUS
<1>10. /\ Good(over, h)
       /\ h.inode = f.inode /\ h.free = f.free
       /\ \A j : BlocksOf(h, j) = BlocksOf(f, j)
       /\ Dirs(h) = Dirs(f) /\ InUse(h) = InUse(f)
       /\ \A j : IsNamed(h, j) <=> IsNamed(f, j) /\ j # i
       /\ \A u, c, k : Child(h, u, c, k) => Child(f, u, c, k) /\ h.dir[c][k] = f.dir[c][k]
  BY <1>1, <1>6, <1>9, StepClearEntry
<1>11. MayEnter(h, p, i, n) /\ IsNamed(h, p)
  <2>1. \A c, k : Child(h, p, c, k) => h.dir[c][k].name # n
    BY <1>3, <1>10
  <2> QED
    BY <1>3, <1>5, <1>8, <1>10, <2>1 DEF MayEnter
<1>12. LosesOnly(f, h, i)
  BY <1>5, <1>10 DEF LosesOnly, UsableInode, UsableBlock
<1>13. PICK ino : ino = f.inode[p]
  OBVIOUS
<1>14. PICK r : r = AddEntry(f, ino, i, n)
  OBVIOUS
<1>15. PICK w : w = AddEntry(h, ino, i, n)
  OBVIOUS
<1>16. /\ w.ok = r.ok
       /\ ~ r.ok => r.fs = f
       /\ r.ok => /\ w.ino = r.ino /\ r.ino.links = 1
                  /\ r.fs \in FsType
                  /\ w.fs = SetEntry(r.fs, b, e, NoEntry)
                  /\ \A c \in BlocksOf(f, d) : r.fs.dir[c] = f.dir[c]
  <2>1. d \in Inode \ {p} /\ n \in Name /\ i \in InUse(f)
    BY <1>3, <1>5
  <2> QED
    BY <1>1, <1>3, <1>7, <1>9, <1>13, <1>14, <1>15, <2>1, AddThenEntry
<1>17. PICK put : put = PutInode(r.fs, p, r.ino)
  OBVIOUS
<1>18. PICK g : g = PutInode(w.fs, p, w.ino)
  OBVIOUS
<1>19. r.ok => Good(over, g) /\ Entered(h, g, p, i)
  <2>1. w = AddEntry(h, h.inode[p], i, n)
    BY <1>10, <1>13, <1>15
  <2>2. Good(over, h)
    BY <1>10
  <2>3. w.ok => Good(over, g) /\ Entered(h, g, p, i)
    BY <1>11, <1>18, <2>1, <2>2, EnterIs
  <2> QED
    BY <1>16, <2>3
<1>20. r.ok => g = SetEntry(put, b, e, NoEntry)
  <2>1. SUFFICES ASSUME r.ok PROVE g = SetEntry(put, b, e, NoEntry)
    OBVIOUS
  <2>2. PICK a : a = r.fs /\ a \in FsType /\ w.fs = SetEntry(a, b, e, NoEntry)
    BY <1>16, <2>1
  <2>3. PICK y : y = r.ino /\ y = w.ino /\ y.links = 1
    BY <1>16, <2>1
  <2>4. put = SetNode(a, p, y)
    BY <1>17, <2>2, <2>3, PutInodeIs
  <2>5. g = SetNode(SetEntry(a, b, e, NoEntry), p, y)
    BY <1>18, <2>2, <2>3, PutInodeIs
  <2> QED
    BY <2>2, <2>4, <2>5, NodeThenEntry
<1>21. r.ok => \A c \in BlocksOf(f, d) : put.dir[c] = f.dir[c]
  <2>1. SUFFICES ASSUME r.ok PROVE \A c \in BlocksOf(f, d) : put.dir[c] = f.dir[c]
    OBVIOUS
  <2>2. put = SetNode(r.fs, p, r.ino)
    BY <1>16, <1>17, <2>1, PutInodeIs
  <2>3. put.dir = r.fs.dir
    BY <1>16, <2>1, <2>2 DEF SetNode, FsType
  <2> QED
    BY <1>16, <2>1, <2>3
<1>22. PICK x : x = RemoveEntry(put, f.inode[d], i)
  OBVIOUS
<1>23. r.ok => x.ok /\ x.fs = g
  <2>1. r.ok => x.ok /\ x.fs = SetEntry(put, b, e, NoEntry)
    <3>1. i # d /\ f.dir[FirstBlock(f, d)][2].ino # i
      BY NotInDots
    <3> QED
      BY <1>1, <1>6, <1>21, <1>22, <3>1, RemoveEntryIs
  <2> QED
    BY <1>20, <2>1
<1>24. r.ok => PutInode(g, d, f.inode[d]) = g
  <2>1. SUFFICES ASSUME r.ok PROVE PutInode(g, d, f.inode[d]) = g
    OBVIOUS
  <2>2. g \in FsType /\ g.inode[d] = f.inode[d]
    BY <1>5, <1>10, <1>19, <2>1 DEF Good, Entered
  <2>3. f.inode[d].links = 1
    BY <1>1, <1>7 DEF Good, NodesOK, Dirs
  <2>4. PutInode(g, d, f.inode[d]) = SetNode(g, d, g.inode[d])
    BY <2>2, <2>3, PutInodeIs
  <2> QED
    BY <1>5, <2>2, <2>4, SameNode
<1>25. IF ~ r.ok THEN fs' = f /\ reply' = "silent"
       ELSE IF ~ x.ok THEN fs' = put /\ reply' = "silent"
       ELSE fs' = PutInode(x.fs, d, f.inode[d]) /\ reply' = "ok"
  BY <1>2, <1>13, <1>14, <1>17, <1>22 DEF RenameInto
<1>26. r.ok => LosesNothing(f, g)
  BY <1>3, <1>5, <1>8, <1>10, <1>11, <1>12, <1>19, EnterLosesNothing
<1> QED
  BY <1>1, <1>19, <1>23, <1>24, <1>25, <1>26


\* Inode i has its entry, slot e of block b, in directory p, and may have the new
\* name n there.
Renamable(f, p, b, e, i, n) ==
    /\ Child(f, p, b, e)
    /\ i = f.dir[b][e].ino
    /\ i # p /\ f.dir[FirstBlock(f, p)][2].ino # i
    /\ n \in Name \ Reserved
    /\ \A c, k : Child(f, p, c, k) => f.dir[c][k].name # n

LEMMA RenamableFacts ==
    ASSUME NEW over \in Nat, NEW f, Good(over, f),
           NEW p, NEW b, NEW e, NEW i, NEW n, Renamable(f, p, b, e, i, n)
    PROVE  /\ i \in InUse(f) \ {Root} /\ n \in Name
           /\ i \in Dirs(f) => f.dir[FirstBlock(f, i)][2].ino = p
BY DEF Good, ChildrenOK, Renamable, Child

\* A rename within a directory reads the directory once more before it enters the
\* new name, and then removes the first entry that names the inode.  If the new
\* entry is in a gap, that may be the new one: then all is as before.
LEMMA WithinGap ==
    ASSUME NEW over \in Nat, NEW f, Good(over, f),
           NEW p, NEW b, NEW e, NEW i, NEW n, Renamable(f, p, b, e, i, n),
           NEW c, NEW k, ChildSlot(f, p, c, k), f.dir[c][k].ino = 0,
           NEW g, g = SetEntry(f, c, k, Entry(i, n)),
           NEW x, x = RemoveEntry(g, f.inode[p], i)
    PROVE  x.ok /\ Good(over, x.fs) /\ x.fs.inode = f.inode
<1>1. /\ f \in FsType /\ p \in Dirs(f) /\ p \in Inode
      /\ b \in BlocksOf(f, p) /\ b \in Block /\ e \in Slot
      /\ c \in BlocksOf(f, p) /\ c \in Block /\ k \in Slot
  BY GoodFacts DEF Renamable, Child, ChildSlot
<1>2. /\ i \in InUse(f) \ {Root} /\ i # 0
      /\ i \in Dirs(f) => f.dir[FirstBlock(f, i)][2].ino = p
      /\ f.dir[c][k] = NoEntry
  BY DEF Good, ChildrenOK, ClearOK, Renamable, Child
<1>3. PICK y \in EntryType : y = Entry(i, n) /\ y.ino = i
  BY <1>2, ConstantFacts DEF Renamable, InUse
<1>4. /\ g.inode = f.inode /\ g.dir[c][k] = y
      /\ \A u \in Block, v \in Slot : g.dir[u][v] = f.dir[u][v] \/ (u = c /\ v = k)
  BY <1>1, <1>3, EntryRecord
<1>5. x.ok /\ Cleared(f, p, g, i, x.fs)
  <2>1. g.dir[c][k].ino = i
    BY <1>3, <1>4
  <2> QED
    BY <1>1, <2>1, RemovedIs
<1>6. PICK u \in BlocksOf(f, p), v \in Slot :
         g.dir[u][v].ino = i /\ x.fs = SetEntry(g, u, v, NoEntry)
  BY <1>5 DEF Cleared
<1>7. CASE u = c /\ v = k
  <2>1. x.fs = f
    BY <1>1, <1>2, <1>3, <1>6, <1>7, EntryUndone
  <2> QED
    BY <1>5, <2>1
<1>8. CASE ~ (u = c /\ v = k)
  <2>1. u \in Block
    BY <1>1, TypedFacts
  <2>2. f.dir[u][v].ino = i
    BY <1>4, <1>6, <1>8, <2>1
  <2>3. u = b /\ v = e
    BY <2>2, NamesOnce DEF Renamable
  <2>4. PICK h : h = SetEntry(f, b, e, NoEntry)
    OBVIOUS
  <2>5. /\ Good(over, h) /\ h.inode = f.inode
        /\ Dirs(h) = Dirs(f) /\ InUse(h) = InUse(f)
        /\ ~ IsNamed(h, i)
        /\ \A d, s, t : Child(h, d, s, t) => Child(f, d, s, t) /\ h.dir[s][t] = f.dir[s][t]
        /\ ChildSlot(h, p, c, k)
        /\ h.dir[c][k] = f.dir[c][k] \/ (c = b /\ k = e)
        /\ \A d \in Dirs(f) : /\ FirstBlock(h, d) = FirstBlock(f, d)
                              /\ h.dir[FirstBlock(f, d)][2] = f.dir[FirstBlock(f, d)][2]
    BY <2>4, StepClearEntry DEF Renamable
  <2>6. x.fs = SetEntry(h, c, k, y)
    <3>1. x.fs = SetEntry(g, b, e, NoEntry)
      BY <1>6, <2>3
    <3>2. CASE c = b
      <4>1. e # k
        BY <1>8, <2>3, <3>2
      <4> QED
        BY <1>1, <1>3, <2>4, <3>1, <3>2, <4>1, SlotsCommute
    <3>3. CASE c # b
      BY <1>1, <1>3, <2>4, <3>1, <3>3, EntriesCommute
    <3> QED
      BY <3>2, <3>3
  <2>7. MayEnter(h, p, i, n)
    BY <1>1, <1>2, <2>5 DEF Renamable, MayEnter
  <2>8. h.dir[c][k].ino = 0
    BY <1>8, <2>3, <2>5
  <2>9. Good(over, x.fs)
    BY <1>3, <2>5, <2>6, <2>7, <2>8, EnterGap
  <2>10. x.fs.inode = f.inode
    <3>1. NoEntry \in EntryType /\ h \in FsType
      BY <2>5, ConstantFacts DEF Good
    <3> QED
      BY <1>1, <2>5, <2>6, <3>1, EntryRecord
  <2> QED
    BY <1>5, <2>9, <2>10
<1> QED
  BY <1>7, <1>8

\* If it is in a new block, the copy of the directory that is written back last has
\* not that block: the inode has no entry any more.
LEMMA WithinNew ==
    ASSUME NEW over \in Nat, NEW f, Good(over, f),
           NEW p, NEW b, NEW e, NEW i, NEW n, Renamable(f, p, b, e, i, n),
           f.free # << >>, NEW q, q = Head(f.free),
           NEW h, h = AllocBlock(f), NEW z, z = SetEntry(h, q, 1, Entry(i, n)),
           NEW y, NEW g, g = SetNode(z, p, y),
           NEW x, x = RemoveEntry(g, f.inode[p], i)
    PROVE  x.ok /\ Good(over, SetNode(x.fs, p, f.inode[p]))
<1>1. /\ f \in FsType /\ p \in Dirs(f) /\ p \in Inode
      /\ b \in BlocksOf(f, p) /\ b \in Block /\ e \in Slot
  BY GoodFacts DEF Renamable, Child, ChildSlot
<1>2. /\ Good(over, h) /\ h \in FsType
      /\ h.inode = f.inode /\ h.numFreeInodes = f.numFreeInodes
      /\ \A c \in Block \ {q} : h.dir[c] = f.dir[c]
      /\ \A j \in Inode : q \notin BlocksOf(f, j)
      /\ SameChildren(f, h)
      /\ \A j : BlocksOf(h, j) = BlocksOf(f, j)
      /\ q \in Block
  BY StepAlloc DEF Good, Loose
<1>3. PICK v \in EntryType : v = Entry(i, n)
  <2>1. i \in InUse(f) /\ n \in Name
    BY DEF Good, ChildrenOK, Renamable
  <2> QED
    BY <2>1, ConstantFacts DEF InUse
<1>4. /\ z \in FsType /\ z.inode = h.inode /\ z.free = h.free
      /\ z.numFreeInodes = h.numFreeInodes
      /\ \A c \in Block \ {q} : z.dir[c] = h.dir[c]
  <2>1. PICK o \in Slot : o = 1
    BY ConstantFacts
  <2>2. z = SetEntry(h, q, o, v)
    BY <1>3, <2>1
  <2> QED
    BY <1>2, <1>3, <2>2, EntryRecord
<1>5. /\ Good(over, z) /\ SameChildren(h, z)
      /\ \A j : BlocksOf(z, j) = BlocksOf(h, j)
  <2>1. \A j \in Inode : \A c \in BlocksOf(h, j) : z.dir[c] = h.dir[c]
    BY <1>1, <1>2, <1>4, TypedFacts
  <2>2. IsInjective(z.free) /\ ToSet(z.free) \subseteq ToSet(h.free)
    <3>1. Once(h)
      BY <1>2 DEF Good
    <3>2. IsInjective(h.free)
      BY <3>1 DEF Once
    <3> QED
      BY <1>4, <3>2
  <2>3. /\ Good(over, h) /\ z \in FsType
        /\ z.inode = h.inode /\ z.numFreeInodes = h.numFreeInodes
    BY <1>2, <1>4
  <2> QED
    BY <2>1, <2>2, <2>3, SpareBlocks
<1>6. Child(z, p, b, e)
  <2>1. Child(f, p, b, e)
    BY DEF Renamable
  <2>2. Child(h, p, b, e)
    BY <1>2, <2>1 DEF SameChildren, Child
  <2> QED
    BY <1>5, <2>2 DEF SameChildren, Child
<1>7. \A c \in BlocksOf(f, p) : g.dir[c] = f.dir[c]
  <2>1. g.dir = z.dir
    BY <1>4, NodeKeepsBlocks
  <2>2. \A c \in BlocksOf(f, p) : c \in Block \ {q}
    BY <1>1, <1>2, TypedFacts
  <2> QED
    BY <1>2, <1>4, <2>1, <2>2
<1>8. x.ok /\ x.fs = SetEntry(g, b, e, NoEntry)
  BY <1>7, RemoveEntryIs DEF Renamable
<1>9. PICK w : w = SetEntry(z, b, e, NoEntry)
  OBVIOUS
<1>10. x.fs = SetNode(w, p, y)
  BY <1>4, <1>8, <1>9, NodeThenEntry
<1>11. Good(over, w) /\ w.inode = z.inode
  BY <1>5, <1>6, <1>9, StepClearEntry
<1>12. SetNode(x.fs, p, f.inode[p]) = w
  <2>1. w \in FsType /\ w.inode[p] = f.inode[p]
    BY <1>2, <1>4, <1>11 DEF Good
  <2>2. SetNode(x.fs, p, f.inode[p]) = SetNode(w, p, f.inode[p])
    BY <1>1, <1>10, <2>1, NodeTwice
  <2> QED
    BY <1>1, <2>1, <2>2, SameNode
<1> QED
  BY <1>8, <1>11, <1>12

LEMMA WithinStep ==
    ASSUME NEW over \in Nat, NEW f, Good(over, f),
           NEW p, NEW b, NEW e, NEW i, NEW n, Renamable(f, p, b, e, i, n),
           NEW r, r = AddEntry(f, f.inode[p], i, n),
           NEW g, g = PutInode(r.fs, p, r.ino),
           NEW x, x = RemoveEntry(g, f.inode[p], i)
    PROVE  r.ok => x.ok /\ Good(over, PutInode(x.fs, p, f.inode[p]))
<1>1. p \in Dirs(f) /\ p \in Inode /\ f \in FsType /\ f.inode[p].links = 1
  <2>1. p \in Dirs(f) /\ f \in FsType
    BY GoodFacts DEF Renamable, Child, ChildSlot
  <2>2. NodesOK(f)
    BY DEF Good
  <2> QED
    BY <2>1, <2>2 DEF Dirs, NodesOK
<1>2. PICK ino : ino = f.inode[p]
  OBVIOUS
<1>3. PICK s : s = ino.blocks
  OBVIOUS
<1>4. PICK last : last = LastBlock(f, p)
  OBVIOUS
<1>5. PICK gaps : gaps = Gaps(f, last)
  OBVIOUS
<1>6. PICK q : q = Head(f.free)
  OBVIOUS
<1>7. PICK k : k = Min(gaps)
  OBVIOUS
<1>8. PICK h : h = AllocBlock(f)
  OBVIOUS
<1>9. PICK y : y = Longer(ino, q)
  OBVIOUS
<1>10. /\ s # << >> /\ gaps # {} =>
             r.ok = TRUE /\ r.ino = ino /\ r.fs = SetEntry(f, last, k, Entry(i, n))
       /\ ~ (s # << >> /\ gaps # {}) /\ f.free # << >> =>
             r.ok = TRUE /\ r.ino = y /\ r.fs = SetEntry(h, q, 1, Entry(i, n))
       /\ ~ (s # << >> /\ gaps # {}) /\ f.free = << >> => r.ok = FALSE
  <2>1. Added(f, i, n, r, ino, last, gaps)
    BY <1>2, <1>4, <1>5, AddEntryIs
  <2> QED
    BY <1>3, <1>6, <1>7, <1>8, <1>9, <2>1 DEF Added
<1>11. CASE s # << >> /\ gaps # {}
  <2>1. ChildSlot(f, p, last, k) /\ f.dir[last][k].ino = 0
    BY <1>1, <1>4, <1>5, <1>7, <1>11, GapFacts
  <2>2. PICK u : u = SetEntry(f, last, k, Entry(i, n))
    OBVIOUS
  <2>3. u \in FsType /\ u.inode = f.inode
    <3>1. i \in InUse(f) /\ n \in Name /\ last \in Block /\ k \in Slot
      <4>1. i \in InUse(f) /\ n \in Name
        BY RenamableFacts
      <4>2. last \in Block /\ k \in Slot
        BY <2>1, GoodFacts
      <4> QED
        BY <4>1, <4>2
    <3>2. PICK v \in EntryType : v = Entry(i, n)
      BY <3>1, ConstantFacts DEF InUse
    <3> QED
      BY <1>1, <2>2, <3>1, <3>2, EntryRecord
  <2>4. g = u
    <3>1. g = SetNode(u, p, u.inode[p])
      BY <1>1, <1>2, <1>10, <1>11, <2>2, <2>3, PutInodeIs
    <3> QED
      BY <1>1, <2>3, <3>1, SameNode
  <2>5. x.ok /\ Good(over, x.fs) /\ x.fs.inode = f.inode
    BY <2>1, <2>2, <2>4, WithinGap
  <2>6. PutInode(x.fs, p, f.inode[p]) = SetNode(x.fs, p, x.fs.inode[p])
    <3>1. x.fs.inode[p] = f.inode[p]
      BY <2>5
    <3>2. PutInode(x.fs, p, f.inode[p]) = SetNode(x.fs, p, f.inode[p])
      BY <1>1, PutInodeIs
    <3> QED
      BY <3>1, <3>2
  <2>7. PutInode(x.fs, p, f.inode[p]) = x.fs
    BY <1>1, <2>5, <2>6, SameNode DEF Good
  <2> QED
    BY <2>5, <2>7
<1>12. CASE ~ (s # << >> /\ gaps # {}) /\ f.free # << >>
  <2>1. PICK z : z = SetEntry(h, q, 1, Entry(i, n))
    OBVIOUS
  <2>2. y.links = 1
    BY <1>1, <1>2, <1>9, TypedFacts DEF Longer, NodeType
  <2>3. g = SetNode(z, p, y)
    BY <1>10, <1>12, <2>1, <2>2, PutInodeIs
  <2>4. x.ok /\ Good(over, SetNode(x.fs, p, f.inode[p]))
    BY <1>6, <1>8, <1>12, <2>1, <2>3, WithinNew
  <2>5. PutInode(x.fs, p, f.inode[p]) = SetNode(x.fs, p, f.inode[p])
    BY <1>1, PutInodeIs
  <2> QED
    BY <2>4, <2>5
<1>13. CASE ~ (s # << >> /\ gaps # {}) /\ f.free = << >>
  BY <1>10, <1>13
<1> QED
  BY <1>11, <1>12, <1>13

\* The end of a rename: within a directory, or the move of a file.
LEMMA IntoStep ==
    ASSUME NEW over \in Nat, NEW f, Good(over, f), NEW old \in Path, NEW new \in Path,
           NEW i, i = Resolve(f, old), i # 0, Resolve(f, new) = 0,
           NEW p, p = Parent(f, new), p # 0, f.inode[p].type = "directory",
           NEW d, d = Parent(f, old), d = p \/ f.inode[i].type = "ordinary",
           RenameInto(f, old, new)
    PROVE  /\ Good(over, fs') /\ reply' \in {"ok", "silent"}
           /\ reply' = "ok" /\ d # p => LosesNothing(f, fs')
<1>1. CASE d # p
  <2>1. f.inode[i].type = "ordinary"
    BY <1>1
  <2> QED
    BY <1>1, <2>1, MoveStep
<1>2. CASE d = p
  <2>1. p \in Dirs(f) /\ i # p /\ f.dir[FirstBlock(f, p)][2].ino # i
    <3>1. d \in Dirs(f) /\ i # d /\ f.dir[FirstBlock(f, d)][2].ino # i
      BY NotInDots
    <3> QED
      BY <1>2, <3>1
  <2>2. PICK n : n = Last(new)
    OBVIOUS
  <2>3. n \in Name \ Reserved /\ \A b, e : Child(f, p, b, e) => f.dir[b][e].name # n
    <3>1. PICK z : z = Resolve(f, new) /\ z = 0
      OBVIOUS
    <3>2. Last(new) \in Name \ Reserved
      BY <3>1, LastNameFacts
    <3>3. \A b, e : Child(f, p, b, e) => f.dir[b][e].name # Last(new)
      BY <3>1, LastNameFacts
    <3> QED
      BY <2>2, <3>2, <3>3
  <2>4. PICK b, e : Child(f, p, b, e) /\ f.dir[b][e].ino = i
    <3>1. d # 0
      BY <1>2
    <3>2. \E b, e : Child(f, d, b, e) /\ f.dir[b][e].ino = i
      BY <3>1, LastNameFacts
    <3> QED
      BY <1>2, <3>2
  <2>5. PICK r : r = AddEntry(f, f.inode[p], i, n)
    OBVIOUS
  <2>6. PICK g : g = PutInode(r.fs, p, r.ino)
    OBVIOUS
  <2>7. PICK x : x = RemoveEntry(g, f.inode[p], i)
    OBVIOUS
  <2>8. IF ~ r.ok THEN fs' = f /\ reply' = "silent"
        ELSE IF ~ x.ok THEN fs' = g /\ reply' = "silent"
        ELSE fs' = PutInode(x.fs, p, f.inode[p]) /\ reply' = "ok"
    BY <1>2, <2>2, <2>5, <2>6, <2>7 DEF RenameInto
  <2>9. r.ok => x.ok /\ Good(over, PutInode(x.fs, p, f.inode[p]))
    <3>1. Renamable(f, p, b, e, i, n)
      BY <2>1, <2>3, <2>4 DEF Renamable
    <3> QED
      BY <2>5, <2>6, <2>7, <3>1, WithinStep
  <2> QED
    BY <1>2, <2>8, <2>9
<1> QED
  BY <1>1, <1>2

\* rename writes the copy of the target back once more when the target is gone: an
\* empty one frees no block again, but the counter goes up.
LEMMA PutAgain ==
    ASSUME NEW f \in FsType, NEW i \in Inode, f.inode[i].blocks = << >>,
           NEW ino, ino.links = 0, ino.blocks = << >>
    PROVE  PutInode(f, i, ino) = Freed(f, i)
<1>1. PICK x : x = [f.inode[i] EXCEPT !.links = 0]
  OBVIOUS
<1>2. ~ (x.links > 0) /\ ~ (ino.links > 0) /\ x.blocks = ino.blocks
  BY <1>1, TypedFacts DEF NodeType
<1>3. FreeBlocksOf(f, x) = FreeBlocksOf(f, ino)
  BY <1>2 DEF FreeBlocksOf
<1>4. PutInode(f, i, x) = PutInode(f, i, ino)
  BY <1>2, <1>3 DEF PutInode
<1> QED
  BY <1>1, <1>4 DEF Freed

LEMMA CountedAgain ==
    ASSUME NEW over \in Nat, NEW f, Good(over, f), NEW i \in Inode \ InUse(f),
           NEW g, g = Freed(f, i), NEW k, k = over + 1
    PROVE  /\ Good(k, g) /\ g.inode = f.inode
           /\ InUse(g) = InUse(f) /\ SameChildren(f, g) /\ LosesNothing(f, g)
<1>1. /\ f \in FsType /\ f.inode[i] = FreeInode /\ BlocksOf(f, i) = {}
      /\ CountOK(f, over)
  BY GoodFacts, TypedFacts DEF Good, NodesOK
<1>2. /\ g \in FsType
      /\ IsInjective(g.free)
      /\ ToSet(g.free) = ToSet(f.free)
      /\ g.numFreeInodes = f.numFreeInodes + 1
      /\ g.inode[i] = f.inode[i]
      /\ \A j \in Inode \ {i} : g.inode[j] = f.inode[j]
      /\ \A b \in Block : g.dir[b] = f.dir[b]
  <2>1. /\ g \in FsType
        /\ IsInjective(g.free)
        /\ ToSet(g.free) = ToSet(f.free) \cup BlocksOf(f, i)
        /\ g.numFreeInodes = f.numFreeInodes + 1
        /\ g.inode[i] = FreeInode
        /\ \A j \in Inode \ {i} : g.inode[j] = f.inode[j]
        /\ \A b \in Block \ BlocksOf(f, i) : g.dir[b] = f.dir[b]
    BY FreedRecord
  <2> QED
    BY <1>1, <2>1
<1>3. g.inode = f.inode
  <2>1. f.inode \in [Inode -> NodeType]
    BY <1>1, TypedFacts
  <2>2. g.inode \in [Inode -> NodeType]
    BY <1>2, TypedFacts
  <2>3. \A j \in Inode : g.inode[j] = f.inode[j]
    BY <1>2
  <2> QED
    BY <2>1, <2>2, <2>3
<1>4. k \in Nat /\ CountOK(g, k)
  <2>1. PICK n : n = NumInodes - Cardinality(InUse(f))
    OBVIOUS
  <2>2. InUse(g) = InUse(f)
    BY <1>3 DEF InUse
  <2>3. n \in Int
    <3>1. Cardinality(InUse(f)) \in 0..NumInodes /\ NumInodes \in Nat
      BY ConstantFacts, CountFacts DEF InUse
    <3> QED
      BY <2>1, <3>1
  <2>4. f.numFreeInodes = over + n
    BY <1>1, <2>1 DEF CountOK
  <2>5. g.numFreeInodes = k + n
    BY <1>2, <2>3, <2>4
  <2> QED
    BY <2>1, <2>2, <2>5 DEF CountOK
<1>5. \A j \in Inode : \A b \in BlocksOf(f, j) : g.dir[b] = f.dir[b]
  BY <1>1, <1>2, TypedFacts
<1>6. /\ Good(k, g)
      /\ \A j : BlocksOf(g, j) = BlocksOf(f, j)
      /\ InUse(g) = InUse(f) /\ SameChildren(f, g)
      /\ \A j : IsNamed(g, j) <=> IsNamed(f, j)
  BY <1>2, <1>3, <1>4, <1>5, Recounted
<1>7. \A x : UsableInode(f, x) => UsableInode(g, x)
  BY <1>6 DEF UsableInode
<1>8. \A b : UsableBlock(f, b) => UsableBlock(g, b)
  BY <1>2, <1>6 DEF UsableBlock
<1> QED
  BY <1>3, <1>6, <1>7, <1>8 DEF LosesNothing

\* Without inode t a path leads where it did before, unless that was t.
Gone(r, t) == IF r = t THEN 0 ELSE r

LEMMA LookupWithout ==
    ASSUME NEW over \in Nat, NEW f, Good(over, f), NEW k \in Nat, NEW g, Good(k, g),
           NEW t \in Inode, Without(f, g, t),
           NEW d \in InUse(f) \ {t}, NEW x \in Name \ Reserved,
           NEW r, r = Lookup(f, d, x), NEW s, s = Lookup(g, d, x)
    PROVE  s = Gone(r, t)
<1>1. UniqueOK(f) /\ t # 0
  BY ConstantFacts DEF Good
<1>2. d \in InUse(g)
  BY DEF Without
<1>3. \/ /\ r = 0
         /\ \A b, e : Child(f, d, b, e) => f.dir[b][e].name # x
      \/ \E b, e : Child(f, d, b, e) /\ f.dir[b][e].ino = r /\ f.dir[b][e].name = x
  BY LookupFacts
<1>4. \/ /\ s = 0
         /\ \A b, e : Child(g, d, b, e) => g.dir[b][e].name # x
      \/ \E b, e : Child(g, d, b, e) /\ g.dir[b][e].ino = s /\ g.dir[b][e].name = x
  BY <1>2, LookupFacts
<1>5. /\ \A b, e : Child(g, d, b, e) =>
            Child(f, d, b, e) /\ g.dir[b][e] = f.dir[b][e] /\ f.dir[b][e].ino # t
      /\ \A b, e : Child(f, d, b, e) /\ f.dir[b][e].ino # t => Child(g, d, b, e)
  BY DEF Without
<1>6. CASE r = 0 /\ \A b, e : Child(f, d, b, e) => f.dir[b][e].name # x
  <2>1. s = 0
    BY <1>4, <1>5, <1>6
  <2> QED
    BY <1>1, <1>6, <2>1 DEF Gone
<1>7. CASE \E b, e : Child(f, d, b, e) /\ f.dir[b][e].ino = r /\ f.dir[b][e].name = x
  <2>1. PICK b, e : Child(f, d, b, e) /\ f.dir[b][e].ino = r /\ f.dir[b][e].name = x
    BY <1>7
  <2>2. \A u, v : Child(f, d, u, v) /\ f.dir[u][v].name = x => u = b /\ v = e
    BY <1>1, <2>1 DEF UniqueOK
  <2>3. CASE r = t
    <3>1. \A u, v : Child(g, d, u, v) => g.dir[u][v].name # x
      BY <1>5, <2>1, <2>2, <2>3
    <3>2. s = 0
      BY <1>4, <3>1
    <3> QED
      BY <2>3, <3>2 DEF Gone
  <2>4. CASE r # t
    <3>1. Child(g, d, b, e) /\ g.dir[b][e].name = x
      BY <1>5, <2>1, <2>4
    <3>2. PICK u, v : Child(g, d, u, v) /\ g.dir[u][v].ino = s /\ g.dir[u][v].name = x
      BY <1>4, <3>1
    <3>3. u = b /\ v = e
      BY <1>5, <2>2, <3>2
    <3>4. s = r
      BY <1>5, <2>1, <3>2, <3>3
    <3> QED
      BY <2>4, <3>4 DEF Gone
  <2> QED
    BY <2>3, <2>4
<1> QED
  BY <1>3, <1>6, <1>7

LEMMA ResolveWithout ==
    ASSUME NEW over \in Nat, NEW f, Good(over, f), NEW k \in Nat, NEW g, Good(k, g),
           NEW t \in Inode, Without(f, g, t), \A b, e : ~ Child(f, t, b, e),
           NEW q, NEW n \in Nat, n = Len(q), \A m \in 1..n : q[m] \in Name \ Reserved
    PROVE  Resolve(g, q) = Gone(Resolve(f, q), t)
<1>1. PICK c : c = Chain(f, q)
  OBVIOUS
<1>2. PICK w : w = Chain(g, q)
  OBVIOUS
<1>3. PICK S : S = Reachable(f)
  OBVIOUS
<1>4. PICK T : T = Reachable(g)
  OBVIOUS
<1>5. /\ Resolve(f, q) = c[n] /\ c[0] = Root
      /\ \A m \in 1..n : c[m] = IF c[m-1] = 0 THEN 0 ELSE Lookup(f, c[m-1], q[m])
      /\ \A m \in 0..n : c[m] = 0 \/ c[m] \in InUse(f)
  <2>1. Root \in S /\ 0 \in S
    BY <1>3, ReachableFacts
  <2>2. \A d \in S \ {0}, m \in 1..n : Lookup(f, d, q[m]) \in S
    BY <1>3, ReachableFacts
  <2>3. /\ Resolve(f, q) = c[n] /\ c[0] = Root
        /\ \A m \in 1..n : c[m] = IF c[m-1] = 0 THEN 0 ELSE Lookup(f, c[m-1], q[m])
        /\ \A m \in 0..n : c[m] \in S
    BY <1>1, <2>1, <2>2, ChainRecursion
  <2>4. \A j \in S : j = 0 \/ j \in InUse(f)
    BY <1>3, ReachableFacts
  <2> QED
    BY <2>3, <2>4
<1>6. /\ Resolve(g, q) = w[n] /\ w[0] = Root
      /\ \A m \in 1..n : w[m] = IF w[m-1] = 0 THEN 0 ELSE Lookup(g, w[m-1], q[m])
  <2>1. Root \in T /\ 0 \in T
    BY <1>4, ReachableFacts
  <2>2. \A d \in T \ {0}, m \in 1..n : Lookup(g, d, q[m]) \in T
    BY <1>4, ReachableFacts
  <2> QED
    BY <1>2, <2>1, <2>2, ChainRecursion
<1>7. t # 0 /\ t # Root
  <2>1. Root \in InUse(g)
    BY GoodFacts, TypedFacts
  <2> QED
    BY <2>1, ConstantFacts DEF Without
<1>8. \A x \in Name \ Reserved : t \in InUse(f) => Lookup(f, t, x) = 0
  <2>1. SUFFICES ASSUME NEW x \in Name \ Reserved, t \in InUse(f) PROVE Lookup(f, t, x) = 0
    OBVIOUS
  <2>2. PICK r : r = Lookup(f, t, x)
    OBVIOUS
  <2>3. r = 0 \/ \E b, e : Child(f, t, b, e)
    BY <2>1, <2>2, LookupFacts
  <2> QED
    BY <2>2, <2>3
<1>9. \A d \in InUse(f) \ {t}, x \in Name \ Reserved :
         Lookup(g, d, x) = Gone(Lookup(f, d, x), t)
  BY LookupWithout
<1> DEFINE G == {m \in 0..n : w[m] = Gone(c[m], t)}
<1>10. 0 \in G
  BY <1>5, <1>6, <1>7 DEF Gone
<1>11. ASSUME NEW m \in 0..n, m \in G, m + 1 <= n PROVE m + 1 \in G
  <2>1. PICK j \in 1..n : j = m + 1 /\ j - 1 = m
    BY <1>11
  <2>2. w[m] = Gone(c[m], t) /\ q[j] \in Name \ Reserved /\ (c[m] = 0 \/ c[m] \in InUse(f))
    BY <1>5, <1>11
  <2>3. PICK x : x = q[j] /\ x \in Name \ Reserved
    BY <2>2
  <2>4. PICK u : u = c[m] /\ (u = 0 \/ u \in InUse(f)) /\ w[m] = Gone(u, t)
    BY <2>2
  <2>5. /\ c[j] = IF u = 0 THEN 0 ELSE Lookup(f, u, x)
        /\ w[j] = IF w[m] = 0 THEN 0 ELSE Lookup(g, w[m], x)
    BY <1>5, <1>6, <2>1, <2>3, <2>4
  <2>6. w[j] = Gone(c[j], t)
    <3>1. CASE u = 0
      BY <1>7, <2>4, <2>5, <3>1 DEF Gone
    <3>2. CASE u = t
      BY <1>7, <1>8, <2>3, <2>4, <2>5, <3>2 DEF Gone
    <3>3. CASE u # 0 /\ u # t
      <4>1. w[m] = u
        BY <2>4, <3>3 DEF Gone
      <4>2. Lookup(g, u, x) = Gone(Lookup(f, u, x), t)
        BY <1>9, <2>3, <2>4, <3>3
      <4> QED
        BY <2>5, <3>3, <4>1, <4>2
    <3> QED
      BY <3>1, <3>2, <3>3
  <2> QED
    BY <2>1, <2>6
<1>12. 0..n \subseteq G
  <2> HIDE DEF G
  <2> QED
    BY <1>10, <1>11, IntervalInduction
<1>13. w[n] = Gone(c[n], t)
  BY <1>12
<1> QED
  BY <1>5, <1>6, <1>13

LEMMA WithoutSame ==
    ASSUME NEW f, NEW g, NEW t, Without(f, g, t),
           NEW h, h.inode = g.inode, InUse(h) = InUse(g), SameChildren(g, h)
    PROVE  Without(f, h, t)
<1>1. \A d, b, e : Child(h, d, b, e) <=> Child(g, d, b, e)
  BY DEF SameChildren, Child
<1>2. \A d, b, e : Child(g, d, b, e) => h.dir[b][e] = g.dir[b][e]
  BY DEF SameChildren, Child
<1>3. \A d, b, e : Child(h, d, b, e) =>
         Child(f, d, b, e) /\ h.dir[b][e] = f.dir[b][e] /\ f.dir[b][e].ino # t
  BY <1>1, <1>2 DEF Without
<1>4. \A d, b, e : Child(f, d, b, e) /\ f.dir[b][e].ino # t => Child(h, d, b, e)
  BY <1>1 DEF Without
<1> QED
  BY <1>3, <1>4 DEF Without

LEMMA PathWithout ==
    ASSUME NEW over \in Nat, NEW f, Good(over, f), NEW k \in Nat, NEW g, Good(k, g),
           NEW t \in Inode, Without(f, g, t), \A b, e : ~ Child(f, t, b, e),
           NEW path \in Path
    PROVE  /\ Resolve(g, path) = Gone(Resolve(f, path), t)
           /\ Parent(g, path) = Gone(Parent(f, path), t)
<1>1. PICK n \in Nat : n = Len(path) /\ n >= 1
  BY FrontFacts
<1>2. \A m \in 1..n : path[m] \in Name \ Reserved
  BY <1>1, FrontFacts
<1>3. PICK q : q = Front(path)
  OBVIOUS
<1>4. PICK l \in Nat : l = Len(q) /\ \A m \in 1..l : q[m] \in Name \ Reserved
  <2>1. PICK l \in Nat : l = n - 1
    BY <1>1
  <2> QED
    BY <1>1, <1>3, <2>1, FrontFacts
<1>5. Resolve(g, path) = Gone(Resolve(f, path), t)
  BY <1>1, <1>2, ResolveWithout
<1>6. Resolve(g, q) = Gone(Resolve(f, q), t)
  BY <1>4, ResolveWithout
<1> QED
  BY <1>3, <1>5, <1>6 DEF Parent

LEMMA WhatFacts ==
    ASSUME NEW over \in Nat, Good(over, fs), NEW path \in Path, NEW i, i = Resolve(fs, path)
    PROVE  /\ What(path) = "nothing" => i = 0
           /\ What(path) = "emptyFile" =>
                 i # 0 /\ fs.inode[i].type = "ordinary" /\ fs.inode[i].blocks = << >>
           /\ i # 0 /\ What(path) \notin {"directory", "fullDirectory"} =>
                 fs.inode[i].type = "ordinary"
<1>1. fs \in FsType /\ (i = 0 \/ i \in InUse(fs))
  BY ResolveFacts DEF Good
<1>2. i # 0 => fs.inode[i].type \in {"ordinary", "directory"}
  <2>1. \A j \in InUse(fs) : fs.inode[j].type \in {"ordinary", "directory"}
    BY <1>1, TypedFacts DEF InUse, NodeType
  <2> QED
    BY <1>1, <2>1
<1>3. What(path) =
        IF i = 0 THEN "nothing"
        ELSE IF fs.inode[i].type = "directory" /\ ~ IsEmptyDirectory(fs, fs.inode[i])
        THEN "fullDirectory"
        ELSE IF fs.inode[i].type = "ordinary" /\ fs.inode[i].blocks = << >>
        THEN "emptyFile"
        ELSE fs.inode[i].type
  BY DEF What, Absent
<1> QED
  BY <1>2, <1>3

\* What the theorems assume of the renames that are called: what a rename replaces,
\* if anything, is a file without a block, and directories stay where they are.  (A
\* rename onto a directory that is not empty is refused.)
SoundRenames ==
    \A k \in RenameKinds :
        \/ k.onto = "fullDirectory"
        \/ /\ k.onto \in {"nothing", "emptyFile"}
           /\ k.what \in {"directory", "fullDirectory"} => k.within

\* What some of them assume besides: nothing is replaced; and no rename is within a
\* directory.
NothingReplaced == \A k \in RenameKinds : k.onto \in {"nothing", "fullDirectory"}

NoneWithin == \A k \in RenameKinds : k.onto = "fullDirectory" \/ ~ k.within

\* rename, onto nothing and then onto an empty file.
LEMMA RenameToNothing ==
    ASSUME SoundRenames, NEW over \in Nat, Good(over, fs), NEW old \in Path, NEW new \in Path,
           Rename(old, new), What(new) = "nothing", RenameInto(fs, old, new)
    PROVE  /\ Good(over, fs') /\ reply' \in {"ok", "silent"}
           /\ NoneWithin /\ reply' = "ok" => LosesNothing(fs, fs')
<1>1. PICK i : i = Resolve(fs, old)
  OBVIOUS
<1>2. PICK p : p = Parent(fs, new)
  OBVIOUS
<1>3. PICK d : d = Parent(fs, old)
  OBVIOUS
<1>4. i # 0 /\ p # 0 /\ fs.inode[p].type = "directory" /\ Resolve(fs, new) = 0
  <2>1. i # 0 /\ p # 0 /\ fs.inode[p].type = "directory"
    BY <1>1, <1>2 DEF Rename, ParentChecked, Absent
  <2> QED
    BY <2>1, WhatFacts
<1>5. PICK k \in RenameKinds : k.what = What(old) /\ k.onto = "nothing" /\ k.within = (d = p)
  BY <1>2, <1>3 DEF Rename, RenameKind
<1>6. d = p \/ fs.inode[i].type = "ordinary"
  <2>1. What(old) \in {"directory", "fullDirectory"} => d = p
    BY <1>5 DEF SoundRenames
  <2> QED
    BY <1>1, <1>4, <2>1, WhatFacts
<1>7. NoneWithin => d # p
  BY <1>5 DEF NoneWithin
<1> QED
  BY <1>1, <1>2, <1>3, <1>4, <1>6, <1>7, IntoStep

LEMMA RenameToEmptyFile ==
    ASSUME SoundRenames, NEW over \in Nat, Good(over, fs), NEW old \in Path, NEW new \in Path,
           Rename(old, new), What(new) = "emptyFile", RenameOnto(old, new),
           NEW next, next = over + 1
    PROVE  /\ Good(next, fs') /\ reply' \in {"ok", "silent"}
           /\ NoneWithin /\ reply' = "ok" => LosesNothing(fs, fs')
           /\ Resolve(fs, new) # 0
<1>1. PICK i : i = Resolve(fs, old)
  OBVIOUS
<1>2. PICK p : p = Parent(fs, new)
  OBVIOUS
<1>3. PICK d : d = Parent(fs, old)
  OBVIOUS
<1>4. PICK t : t = Resolve(fs, new)
  OBVIOUS
<1>5. /\ i # 0 /\ p # 0 /\ fs.inode[p].type = "directory"
      /\ t # 0 /\ t # i
      /\ fs.inode[t].type = "ordinary" /\ fs.inode[t].blocks = << >>
  <2>1. i # 0 /\ t # i /\ p # 0 /\ fs.inode[p].type = "directory"
    BY <1>1, <1>2, <1>4 DEF Rename, ParentChecked, Absent
  <2> QED
    BY <1>4, <2>1, WhatFacts
<1>6. PICK k \in RenameKinds : k.what = What(old) /\ k.onto = "emptyFile" /\ k.within = (d = p)
  BY <1>2, <1>3 DEF Rename, RenameKind
<1>7. d = p \/ fs.inode[i].type = "ordinary"
  <2>1. What(old) \in {"directory", "fullDirectory"} => d = p
    BY <1>6 DEF SoundRenames
  <2> QED
    BY <1>1, <1>5, <2>1, WhatFacts
<1>8. NoneWithin => d # p
  BY <1>6 DEF NoneWithin
<1>9. t \in InUse(fs) /\ t \in Inode /\ \A b, e : ~ Child(fs, t, b, e)
  <2>1. t \in InUse(fs) /\ t \in Inode
    BY <1>4, <1>5, ResolveFacts DEF InUse
  <2> QED
    BY <1>5, <2>1 DEF Child, ChildSlot, Dirs
<1>10. PICK r : r = Drop(fs, new, t)
  OBVIOUS
<1>11. PICK f : f = r.fs
  OBVIOUS
<1>12. r.ok /\ Good(over, f) /\ LosesNothing(fs, f) /\ Without(fs, f, t)
  BY <1>4, <1>5, <1>9, <1>10, <1>11, DropIs
<1>13. t \in Inode \ InUse(f) /\ f \in FsType /\ f.inode[t].blocks = << >>
  <2>1. t \notin InUse(f)
    BY <1>12 DEF Without
  <2>2. f.inode[t] = FreeInode
    BY <1>9, <1>12, <2>1 DEF Good, NodesOK, InUse
  <2> QED
    BY <1>9, <1>12, <2>1, <2>2, ConstantFacts DEF Good
<1>14. PICK ino : ino = [fs.inode[t] EXCEPT !.links = 0]
  OBVIOUS
<1>15. ino.links = 0 /\ ino.blocks = << >>
  <2>1. fs.inode[t] \in NodeType
    BY <1>9, GoodFacts, TypedFacts
  <2> QED
    BY <1>5, <1>14, <2>1 DEF NodeType
<1>16. PICK u : u = PutInode(f, t, ino)
  OBVIOUS
<1>17. next \in Nat /\ Good(next, u) /\ u.inode = f.inode
       /\ InUse(u) = InUse(f) /\ SameChildren(f, u) /\ LosesNothing(f, u)
  <2>1. u = Freed(f, t)
    BY <1>13, <1>15, <1>16, PutAgain
  <2> QED
    BY <1>12, <1>13, <2>1, CountedAgain
<1>18. RenameInto(u, old, new)
  BY <1>4, <1>10, <1>11, <1>12, <1>14, <1>16 DEF RenameOnto
<1>19. Without(fs, u, t)
  BY <1>12, <1>17, WithoutSame
<1>20. Resolve(u, old) = i /\ Resolve(u, new) = 0
  <2>1. Resolve(u, old) = Gone(i, t)
    BY <1>1, <1>9, <1>17, <1>19, PathWithout
  <2>2. Resolve(u, new) = Gone(t, t)
    BY <1>4, <1>9, <1>17, <1>19, PathWithout
  <2> QED
    BY <1>5, <2>1, <2>2 DEF Gone
<1>21. d \in Inode /\ p \in Inode /\ d # t /\ p # t
  <2>1. d # 0
    BY <1>1, <1>3, <1>5, ResolveFacts
  <2>2. /\ d \in Inode
        /\ \E b, e : Child(fs, d, b, e)
    BY <1>1, <1>3, <1>5, <2>1, LastNameFacts
  <2>3. /\ p \in Inode
        /\ \E b, e : Child(fs, p, b, e)
    BY <1>2, <1>4, <1>5, LastNameFacts
  <2> QED
    BY <1>9, <2>2, <2>3
<1>22. Parent(u, old) = d /\ Parent(u, new) = p
  <2>1. Parent(u, old) = Gone(d, t)
    BY <1>3, <1>9, <1>17, <1>19, PathWithout
  <2>2. Parent(u, new) = Gone(p, t)
    BY <1>2, <1>9, <1>17, <1>19, PathWithout
  <2> QED
    BY <1>21, <2>1, <2>2 DEF Gone
<1>23. u.inode[p] = fs.inode[p] /\ u.inode[i] = fs.inode[i]
  <2>1. i \in Inode
    BY <1>1, <1>5, ResolveFacts DEF InUse
  <2> QED
    BY <1>5, <1>19, <1>21, <2>1 DEF Without
<1>24. /\ Good(next, fs') /\ reply' \in {"ok", "silent"}
       /\ reply' = "ok" /\ d # p => LosesNothing(u, fs')
  <2>1. u.inode[p].type = "directory" /\ (d = p \/ u.inode[i].type = "ordinary")
    BY <1>5, <1>7, <1>23
  <2> QED
    BY <1>5, <1>17, <1>18, <1>20, <1>22, <2>1, IntoStep
<1>25. LosesNothing(u, fs') => LosesNothing(fs, fs')
  BY <1>12, <1>17 DEF LosesNothing
<1> QED
  BY <1>4, <1>5, <1>8, <1>24, <1>25

LEMMA RenameStep ==
    ASSUME SoundRenames, NEW over \in Nat, Good(over, fs), NEW old \in Path, NEW new \in Path,
           Rename(old, new)
    PROVE  /\ reply' \in {"ok", "error", "silent"}
           /\ \/ Good(over, fs')
              \/ Good(over + 1, fs') /\ Resolve(fs, new) # 0 /\ ~ NothingReplaced
           /\ NoneWithin /\ reply' = "ok" => LosesNothing(fs, fs')
<1>1. CASE Refuse
  BY <1>1 DEF Refuse
<1>2. CASE What(new) = "nothing" /\ RenameInto(fs, old, new)
  BY <1>2, RenameToNothing
<1>3. CASE What(new) \in {"emptyFile", "ordinary", "directory"} /\ RenameOnto(old, new)
  <2>1. PICK k \in RenameKinds : k.onto = What(new)
    BY DEF Rename, RenameKind
  <2>2. What(new) = "emptyFile" /\ ~ NothingReplaced
    BY <1>3, <2>1 DEF SoundRenames, NothingReplaced
  <2>3. PICK next : next = over + 1
    OBVIOUS
  <2>4. /\ Good(next, fs') /\ reply' \in {"ok", "silent"}
        /\ NoneWithin /\ reply' = "ok" => LosesNothing(fs, fs')
        /\ Resolve(fs, new) # 0
    BY <1>3, <2>2, <2>3, RenameToEmptyFile
  <2> QED
    BY <2>2, <2>3, <2>4
<1> QED
  BY <1>1, <1>2, <1>3 DEF Rename

\* pwrite
LEMMA ExtendStep ==
    ASSUME NEW over \in Nat, Good(over, fs), NEW path \in Path, Extend(path)
    PROVE  /\ Good(over, fs') /\ reply' \in {"ok", "error", "silent"}
           /\ reply' = "ok" => LosesNothing(fs, fs')
<1>1. CASE Refuse
  BY <1>1 DEF Refuse
<1> DEFINE b == Head(fs.free)
           i == Resolve(fs, path)
           x == [fs.inode[i] EXCEPT !.blocks = Append(@, b)]
<1>2. CASE /\ i # 0 /\ fs.free # << >>
           /\ fs' = PutInode(AllocBlock(fs), i, x) /\ reply' = "ok"
  <2>1. PICK j : j = i
    OBVIOUS
  <2>2. PICK c : c = b
    OBVIOUS
  <2>3. PICK h : h = AllocBlock(fs)
    OBVIOUS
  <2>4. PICK y : y = Longer(fs.inode[j], c)
    OBVIOUS
  <2>5. j \in InUse(fs) /\ j \in Inode /\ IsNamed(fs, j)
    BY <1>2, <2>1, ResolveFacts DEF InUse
  <2>6. fs.free # << >> /\ fs' = PutInode(h, j, y) /\ c = Head(fs.free)
    BY <1>2, <2>1, <2>2, <2>3, <2>4 DEF Longer
  <2> HIDE DEF b, i, x
  <2>7. /\ Good(over, h)
        /\ h.inode = fs.inode
        /\ Loose(h, c) /\ h.dir[c] = EmptyBlock
        /\ \A k : BlocksOf(h, k) = BlocksOf(fs, k)
        /\ InUse(h) = InUse(fs)
        /\ \A k : IsNamed(h, k) <=> IsNamed(fs, k)
        /\ \A k : UsableBlock(fs, k) => UsableBlock(h, k) \/ k = c
    BY <2>3, <2>6, StepAlloc
  <2>8. PICK g : g = SetNode(h, j, y)
    OBVIOUS
  <2>9. /\ Good(over, g)
        /\ g.free = h.free
        /\ y.links = 1
        /\ BlocksOf(g, j) = BlocksOf(h, j) \cup {c}
        /\ \A k \in Inode \ {j} : BlocksOf(g, k) = BlocksOf(h, k)
        /\ InUse(g) = InUse(h)
        /\ \A k : IsNamed(g, k) <=> IsNamed(h, k)
    BY <2>4, <2>5, <2>7, <2>8, StepAppend
  <2>10. fs' = g
    BY <2>6, <2>8, <2>9, PutInodeIs
  <2>11. \A k : UsableInode(fs, k) => UsableInode(g, k)
    BY <2>7, <2>9 DEF UsableInode
  <2>12. \A k : UsableBlock(fs, k) => UsableBlock(g, k)
    BY <2>5, <2>7, <2>9 DEF UsableBlock
  <2> QED
    BY <1>2, <2>9, <2>10, <2>11, <2>12 DEF LosesNothing
<1> QED
  BY <1>1, <1>2 DEF Extend, Absent

-----------------------------------------------------------------------------
(* The invariant *)

\* A new file system has the root directory, in block 1, and nothing else.
LEMMA InitGood ==
    ASSUME Init
    PROVE  Good(0, fs)
<1>1. PICK root : root = [type |-> "directory", links |-> 1, blocks |-> <<1>>]
  OBVIOUS
<1>2. PICK dots : dots = [EmptyBlock EXCEPT ![1] = Entry(Root, "."), ![2] = Entry(Root, "..")]
  OBVIOUS
<1>3. fs = [inode |-> [i \in Inode |-> IF i = Root THEN root ELSE FreeInode],
            dir |-> [b \in Block |-> IF b = 1 THEN dots ELSE EmptyBlock],
            free |-> [k \in 1..NumBlocks - 1 |-> k + 1],
            numFreeInodes |-> NumInodes - 1]
  BY <1>1, <1>2 DEF Init
<1>4. 1 \in Block /\ NumBlocks \in Nat /\ NumBlocks - 1 \in Nat
  BY ConstantFacts DEF Block
<1>5. /\ root \in NodeType /\ root.type = "directory" /\ root.links = 1
      /\ root.blocks = <<1>> /\ root.blocks # << >> /\ root.blocks[1] = 1
      /\ ToSet(root.blocks) = {1} /\ IsInjective(root.blocks)
  <2>1. /\ <<1>> \in Seq(Block) /\ <<1>> # << >> /\ <<1>>[1] = 1
        /\ ToSet(<<1>>) = {1} /\ IsInjective(<<1>>)
    BY <1>4, SeqOne
  <2> QED
    BY <1>1, <2>1 DEF NodeType
<1>6. /\ dots \in [Slot -> EntryType]
      /\ dots[1] = Entry(Root, ".") /\ dots[2] = Entry(Root, "..")
      /\ \A e \in Slot \ {1, 2} : dots[e] = NoEntry
  <2>1. Entry(Root, ".") \in EntryType /\ Entry(Root, "..") \in EntryType
    BY ConstantFacts
  <2>2. /\ EmptyBlock \in [Slot -> EntryType] /\ {1, 2} \subseteq Slot
        /\ \A e \in Slot : EmptyBlock[e] = NoEntry
    BY ConstantFacts
  <2>3. PICK x : x = Entry(Root, ".") /\ x \in EntryType
    BY <2>1
  <2>4. PICK y : y = Entry(Root, "..") /\ y \in EntryType
    BY <2>1
  <2>5. dots = [EmptyBlock EXCEPT ![1] = x, ![2] = y]
    BY <1>2, <2>3, <2>4
  <2>6. dots \in [Slot -> EntryType] /\ dots[1] = x /\ dots[2] = y
    BY <2>2, <2>3, <2>4, <2>5
  <2>7. \A e \in Slot \ {1, 2} : dots[e] = NoEntry
    BY <2>2, <2>5
  <2> QED
    BY <2>3, <2>4, <2>6, <2>7
<1>7. /\ fs.free \in Seq(Block) /\ IsInjective(fs.free) /\ 1 \notin ToSet(fs.free)
  <2>1. PICK s : s = [k \in 1..NumBlocks - 1 |-> k + 1]
    OBVIOUS
  <2>2. DOMAIN s = 1..NumBlocks - 1 /\ \A k \in 1..NumBlocks - 1 : s[k] = k + 1
    BY <2>1
  <2>3. \A k \in 1..NumBlocks - 1 : k + 1 \in Block /\ k + 1 # 1
    BY <1>4 DEF Block
  <2>4. s \in [1..NumBlocks - 1 -> Block]
    BY <2>1, <2>3
  <2>5. s \in Seq(Block)
    BY <1>4, <2>4
  <2>6. \A k, l \in 1..NumBlocks - 1 : k + 1 = l + 1 => k = l
    BY <1>4
  <2>7. IsInjective(s)
    BY <2>2, <2>6 DEF IsInjective
  <2>8. 1 \notin ToSet(s)
    BY <2>2, <2>3 DEF ToSet
  <2> QED
    BY <1>3, <2>1, <2>5, <2>7, <2>8
<1>8. PICK free : free = fs.free
  OBVIOUS
<1>9. PICK n : n = NumInodes - 1 /\ n \in Int
  <2>1. NumInodes \in Nat
    BY ConstantFacts
  <2> QED
    BY <2>1
<1>10. /\ fs = [inode |-> [i \in Inode |-> IF i = Root THEN root ELSE FreeInode],
                dir |-> [b \in Block |-> IF b = 1 THEN dots ELSE EmptyBlock],
                free |-> free, numFreeInodes |-> n]
       /\ free \in Seq(Block)
  BY <1>3, <1>7, <1>8, <1>9
<1>11. FreeInode \in NodeType /\ EmptyBlock \in [Slot -> EntryType] /\ Root \in Inode
  BY ConstantFacts
<1>12. fs \in FsType
  BY <1>5, <1>6, <1>9, <1>10, <1>11 DEF FsType
<1>13. /\ fs.inode[Root] = root
       /\ \A i \in Inode \ {Root} : fs.inode[i] = FreeInode
       /\ fs.dir[1] = dots
  BY <1>4, <1>10, <1>11
<1>14. /\ Dirs(fs) = {Root} /\ InUse(fs) = {Root}
       /\ BlocksOf(fs, Root) = {1} /\ FirstBlock(fs, Root) = 1
       /\ \A i \in Inode \ {Root} : BlocksOf(fs, i) = {}
  <2>1. FreeInode.type = "free" /\ FreeInode.blocks = << >>
    BY ConstantFacts
  <2>2. ToSet(<< >>) = {}
    BY DEF ToSet
  <2> QED
    BY <1>5, <1>11, <1>13, <2>1, <2>2 DEF Dirs, InUse, BlocksOf, FirstBlock
<1>15. \A d, b, e : ChildSlot(fs, d, b, e) => fs.dir[b][e] = NoEntry
  BY <1>6, <1>13, <1>14 DEF ChildSlot
<1>16. \A d, b, e : ~ Child(fs, d, b, e)
  BY <1>15, ConstantFacts DEF Child
<1>17. NodesOK(fs)
  <2>1. FreeInode.type = "free" /\ FreeInode.blocks = << >>
    BY ConstantFacts
  <2> QED
    BY <1>5, <1>13, <1>14, <2>1 DEF NodesOK
<1>18. Once(fs)
  <2>1. \A i \in Inode : IsInjective(fs.inode[i].blocks)
    <3>1. FreeInode.blocks = << >> /\ IsInjective(<< >>)
      BY ConstantFacts DEF IsInjective
    <3> QED
      BY <1>5, <1>13, <3>1
  <2>2. \A i \in Inode : BlocksOf(fs, i) \cap ToSet(fs.free) = {}
    BY <1>7, <1>14
  <2>3. \A i, j \in Inode : i # j => BlocksOf(fs, i) \cap BlocksOf(fs, j) = {}
    BY <1>14
  <2> QED
    BY <1>7, <2>1, <2>2, <2>3 DEF Once
<1>19. DotsOK(fs)
  <2>1. \A i, m : Entry(i, m).ino = i /\ Entry(i, m).name = m
    BY ConstantFacts
  <2> QED
    BY <1>6, <1>11, <1>13, <1>14, <2>1 DEF DotsOK
<1>20. ClearOK(fs)
  BY <1>15 DEF ClearOK
<1>21. ChildrenOK(fs) /\ UniqueOK(fs)
  BY <1>16 DEF ChildrenOK, UniqueOK
<1>22. CountOK(fs, 0)
  <2>1. Cardinality({Root}) = 1
    BY FS_Singleton
  <2>2. fs.numFreeInodes = NumInodes - 1
    BY <1>9, <1>10
  <2>3. InUse(fs) = {Root}
    BY <1>14
  <2>4. PICK k \in Nat : k = NumInodes
    BY ConstantFacts
  <2>5. fs.numFreeInodes = 0 + (k - 1)
    BY <2>2, <2>4
  <2> QED
    BY <2>1, <2>3, <2>4, <2>5 DEF CountOK
<1> QED
  BY <1>12, <1>17, <1>18, <1>19, <1>20, <1>21, <1>22 DEF Good

Replies == {"ok", "error", "silent"}

\* A rename that replaces something.
Replaces == \E old, new \in Path : Resolve(fs, new) # Absent /\ Rename(old, new)

\* Every call leads from a good file system to a good one.  If it succeeds it loses
\* nothing, unless it is a rename within a directory.
LEMMA NextStep ==
    ASSUME SoundRenames, NEW over \in Nat, Good(over, fs), Next
    PROVE  /\ reply' \in Replies
           /\ Good(over, fs') \/ (Good(over + 1, fs') /\ Replaces /\ ~ NothingReplaced)
           /\ NoneWithin /\ reply' = "ok" => LosesNothing(fs, fs')
<1>1. DirPath \subseteq Path /\ FilePath \subseteq Path
  BY Zenon, NamespaceAssumption
<1>2. CASE \E path \in DirPath : Mkdir(path)
  BY <1>1, <1>2, MkdirStep DEF Replies
<1>3. CASE \E path \in FilePath : Mknod(path)
  BY <1>1, <1>3, MknodStep DEF Replies
<1>4. CASE \E path \in Path : Unlink(path)
  BY <1>4, UnlinkStep DEF Replies
<1>5. CASE \E path \in Path : Rmdir(path)
  BY <1>5, RmdirStep DEF Replies
<1>6. CASE \E path \in Path : Extend(path)
  BY <1>6, ExtendStep DEF Replies
<1>7. CASE \E old, new \in Path : Rename(old, new)
  <2>1. PICK old \in Path, new \in Path : Rename(old, new)
    BY <1>7
  <2>2. /\ reply' \in Replies
        /\ Good(over, fs') \/ (Good(over + 1, fs') /\ Resolve(fs, new) # 0 /\ ~ NothingReplaced)
        /\ NoneWithin /\ reply' = "ok" => LosesNothing(fs, fs')
    BY <2>1, RenameStep DEF Replies
  <2>3. Resolve(fs, new) # 0 => Replaces
    BY <2>1 DEF Replaces, Absent
  <2> QED
    BY <2>2, <2>3
<1> QED
  BY <1>2, <1>3, <1>4, <1>5, <1>6, <1>7 DEF Next

\* The invariant that the theorems follow from; and the stronger one if nothing is
\* replaced: the counter is exact.
GoodFs(f) == \E over \in Nat : Good(over, f)

IInv == GoodFs(fs) /\ reply \in Replies

ExactInv == Good(0, fs) /\ reply \in Replies

LEMMA Invariant ==
    ASSUME SoundRenames
    PROVE  Spec => []IInv
<1>1. Init => IInv
  BY InitGood DEF Init, IInv, GoodFs, Replies
<1>2. IInv /\ [Next]_vars => IInv'
  <2>1. ASSUME IInv, UNCHANGED vars PROVE IInv'
    BY <2>1 DEF IInv, vars
  <2>2. ASSUME IInv, Next PROVE IInv'
    <3>1. PICK over \in Nat : Good(over, fs)
      BY <2>2 DEF IInv, GoodFs
    <3>2. PICK next \in Nat : next = over + 1
      OBVIOUS
    <3>3. reply' \in Replies /\ (Good(over, fs') \/ Good(next, fs'))
      BY <2>2, <3>1, <3>2, NextStep
    <3>4. GoodFs(fs')
      BY <3>3 DEF GoodFs
    <3> QED
      BY <3>3, <3>4 DEF IInv
  <2> QED
    BY <2>1, <2>2
<1> QED
  BY <1>1, <1>2, PTL DEF Spec

LEMMA ExactInvariant ==
    ASSUME SoundRenames, NothingReplaced
    PROVE  Spec => []ExactInv
<1>1. Init => ExactInv
  BY InitGood DEF Init, ExactInv, Replies
<1>2. ExactInv /\ [Next]_vars => ExactInv'
  <2>1. ASSUME ExactInv, UNCHANGED vars PROVE ExactInv'
    BY <2>1 DEF ExactInv, vars
  <2>2. ASSUME ExactInv, Next PROVE ExactInv'
    BY <2>2, NextStep DEF ExactInv
  <2> QED
    BY <2>1, <2>2
<1> QED
  BY <1>1, <1>2, PTL DEF Spec

-----------------------------------------------------------------------------
(* The properties of the runs, as functions of the file system *)

EntriesIn(f) ==
    {c \in UNION {{d} \X (Places(f.inode[d]) \ {<<1, 1>>, <<1, 2>>}) : d \in Dirs(f)} :
        At(f, f.inode[c[1]], c[2]).ino # 0}

EntryAt(f, c) == At(f, f.inode[c[1]], c[2])

\* The block and the slot of an entry.
BlockAt(f, c) == f.inode[c[1]].blocks[c[2][1]]

SlotAt(c) == c[2][2]

NamedIn(f) == {Root} \cup {EntryAt(f, c).ino : c \in EntriesIn(f)}

LEMMA EntriesAre ==
    ASSUME NEW over \in Nat, NEW f, Good(over, f)
    PROVE  /\ \A c \in EntriesIn(f) :
                 /\ Child(f, c[1], BlockAt(f, c), SlotAt(c))
                 /\ EntryAt(f, c) = f.dir[BlockAt(f, c)][SlotAt(c)]
           /\ \A d, b, e : Child(f, d, b, e) =>
                 \E c \in EntriesIn(f) : c[1] = d /\ EntryAt(f, c) = f.dir[b][e]
           /\ \A c, k \in EntriesIn(f) :
                 BlockAt(f, c) = BlockAt(f, k) /\ SlotAt(c) = SlotAt(k) => c = k
<1>1. f \in FsType /\ Dirs(f) \subseteq Inode
  BY DEF Good, Dirs
<1>2. \A d \in Inode : \A t \in Places(f.inode[d]) :
         /\ f.inode[d].blocks[t[1]] \in BlocksOf(f, d) /\ t[2] \in Slot
         /\ t \in {<<1, 1>>, <<1, 2>>} <=>
               f.inode[d].blocks[t[1]] = FirstBlock(f, d) /\ t[2] \in {1, 2}
  <2>1. SUFFICES ASSUME NEW d \in Inode
                 PROVE  \A t \in Places(f.inode[d]) :
                   /\ f.inode[d].blocks[t[1]] \in BlocksOf(f, d) /\ t[2] \in Slot
                   /\ t \in {<<1, 1>>, <<1, 2>>} <=>
                         f.inode[d].blocks[t[1]] = FirstBlock(f, d) /\ t[2] \in {1, 2}
    OBVIOUS
  <2> QED
    BY PlaceFacts
<1>3. \A d \in Inode : \A b, e : b \in BlocksOf(f, d) /\ e \in Slot =>
         \E t \in Places(f.inode[d]) : f.inode[d].blocks[t[1]] = b /\ t[2] = e
  BY PlaceFacts
<1>4. \A d \in Inode : \A t, u \in Places(f.inode[d]) :
         f.inode[d].blocks[t[1]] = f.inode[d].blocks[u[1]] /\ t[2] = u[2] => t = u
  BY PlaceFacts
<1>5. ASSUME NEW c \in EntriesIn(f)
      PROVE  /\ c[1] \in Dirs(f) /\ c[2] \in Places(f.inode[c[1]]) /\ c = <<c[1], c[2]>>
             /\ c[2] \notin {<<1, 1>>, <<1, 2>>}
             /\ EntryAt(f, c).ino # 0
             /\ EntryAt(f, c) = f.dir[BlockAt(f, c)][SlotAt(c)]
  <2>1. PICK d \in Dirs(f) : c \in {d} \X (Places(f.inode[d]) \ {<<1, 1>>, <<1, 2>>})
    BY DEF EntriesIn
  <2>2. EntryAt(f, c).ino # 0
    BY DEF EntriesIn, EntryAt
  <2>3. c[1] = d /\ c[2] \in Places(f.inode[d]) \ {<<1, 1>>, <<1, 2>>} /\ c = <<c[1], c[2]>>
    BY <2>1
  <2>4. EntryAt(f, c) = f.dir[BlockAt(f, c)][SlotAt(c)]
    BY DEF EntryAt, At, BlockAt, SlotAt
  <2> QED
    BY <2>2, <2>3, <2>4
<1>6. ASSUME NEW c \in EntriesIn(f)
      PROVE  Child(f, c[1], BlockAt(f, c), SlotAt(c))
  <2>1. PICK d : d = c[1]
    OBVIOUS
  <2>2. PICK t : t = c[2]
    OBVIOUS
  <2>3. /\ d \in Dirs(f) /\ d \in Inode /\ t \in Places(f.inode[d])
        /\ t \notin {<<1, 1>>, <<1, 2>>}
    BY <1>1, <1>5, <2>1, <2>2
  <2>4. PICK b : b = BlockAt(f, c) /\ b = f.inode[d].blocks[t[1]]
    BY <2>1, <2>2 DEF BlockAt
  <2>5. PICK e : e = SlotAt(c) /\ e = t[2]
    BY <2>2 DEF SlotAt
  <2>6. ChildSlot(f, d, b, e)
    BY <1>2, <2>3, <2>4, <2>5 DEF ChildSlot
  <2>7. f.dir[b][e].ino # 0
    BY <1>5, <2>4, <2>5
  <2>8. Child(f, d, b, e)
    BY <2>6, <2>7 DEF Child
  <2> QED
    BY <2>1, <2>4, <2>5, <2>8
<1>7. ASSUME NEW d, NEW b, NEW e, Child(f, d, b, e)
      PROVE  \E c \in EntriesIn(f) : c[1] = d /\ EntryAt(f, c) = f.dir[b][e]
  <2>1. /\ d \in Dirs(f) /\ d \in Inode /\ b \in BlocksOf(f, d) /\ e \in Slot
        /\ b = FirstBlock(f, d) => e \notin {1, 2}
        /\ f.dir[b][e].ino # 0
    BY <1>1, <1>7 DEF Child, ChildSlot
  <2>2. PICK t \in Places(f.inode[d]) : f.inode[d].blocks[t[1]] = b /\ t[2] = e
    BY <1>3, <2>1
  <2>3. t \notin {<<1, 1>>, <<1, 2>>}
    BY <1>2, <2>1, <2>2
  <2>4. PICK c : c = <<d, t>>
    OBVIOUS
  <2>5. c[1] = d /\ c[2] = t /\ c \in {d} \X (Places(f.inode[d]) \ {<<1, 1>>, <<1, 2>>})
    BY <2>3, <2>4
  <2>6. EntryAt(f, c) = f.dir[b][e]
    BY <2>2, <2>5 DEF EntryAt, At
  <2>7. c \in EntriesIn(f)
    BY <2>1, <2>5, <2>6 DEF EntriesIn, EntryAt
  <2> QED
    BY <2>5, <2>6, <2>7
<1>8. ASSUME NEW c \in EntriesIn(f), NEW k \in EntriesIn(f),
             BlockAt(f, c) = BlockAt(f, k), SlotAt(c) = SlotAt(k)
      PROVE  c = k
  <2>1. /\ BlockAt(f, c) \in BlocksOf(f, c[1]) /\ c[1] \in Inode
        /\ BlockAt(f, k) \in BlocksOf(f, k[1]) /\ k[1] \in Inode
    BY <1>1, <1>6 DEF Child, ChildSlot
  <2>2. c[1] = k[1]
    BY <1>8, <2>1, GoodFacts
  <2>3. c[2] = k[2]
    <3>1. PICK d \in Inode : d = c[1] /\ d = k[1]
      BY <2>1, <2>2
    <3>2. PICK t : t = c[2]
      OBVIOUS
    <3>3. PICK u : u = k[2]
      OBVIOUS
    <3>4. t \in Places(f.inode[d]) /\ u \in Places(f.inode[d])
      BY <1>5, <3>1, <3>2, <3>3
    <3>5. f.inode[d].blocks[t[1]] = f.inode[d].blocks[u[1]] /\ t[2] = u[2]
      BY <1>8, <3>1, <3>2, <3>3 DEF BlockAt, SlotAt
    <3> QED
      BY <1>4, <3>2, <3>3, <3>4, <3>5
  <2> QED
    BY <1>5, <2>2, <2>3
<1> QED
  BY <1>5, <1>6, <1>7, <1>8

LEMMA NamedAre ==
    ASSUME NEW over \in Nat, NEW f, Good(over, f)
    PROVE  /\ NamedIn(f) \subseteq Inode
           /\ \A i : i \in NamedIn(f) <=> IsNamed(f, i)
<1>1. \A i : i \in NamedIn(f) <=> IsNamed(f, i)
  BY EntriesAre DEF NamedIn, IsNamed
<1>2. \A i : IsNamed(f, i) => i \in Inode
  <2>1. ChildrenOK(f) /\ Root \in Inode
    BY ConstantFacts DEF Good
  <2> QED
    BY <2>1 DEF IsNamed, ChildrenOK, InUse
<1> QED
  BY <1>1, <1>2

LEMMA GoodTypeOK ==
    ASSUME IInv
    PROVE  TypeOK
<1>1. PICK over \in Nat : Good(over, fs)
  BY DEF IInv, GoodFs
<1>2. fs \in FsType /\ CountOK(fs, over)
  BY <1>1 DEF Good
<1>3. \A i \in Inode : /\ fs.inode[i].type \in {"ordinary", "directory", "free"}
                       /\ fs.inode[i].links \in {0, 1}
                       /\ ToSet(fs.inode[i].blocks) \subseteq Block
  BY <1>2, TypedFacts DEF NodeType, BlocksOf
<1>4. \A b \in Block, e \in 1..EntriesPerBlock : fs.dir[b][e].ino \in 0..NumInodes
  BY <1>2, TypedFacts DEF Slot
<1>5. ToSet(fs.free) \subseteq Block
  BY <1>2, TypedFacts
<1>6. fs.numFreeInodes \in Nat
  <2>1. InUse(fs) \in SUBSET Inode
    BY DEF InUse
  <2>2. Cardinality(InUse(fs)) \in 0..NumInodes /\ NumInodes \in Nat
    BY <2>1, CountFacts, ConstantFacts
  <2>3. fs.numFreeInodes = over + (NumInodes - Cardinality(InUse(fs)))
    BY <1>2 DEF CountOK
  <2> QED
    BY <2>2, <2>3
<1> QED
  BY <1>3, <1>4, <1>5, <1>6 DEF TypeOK, IInv, Replies

LEMMA GoodBlocksUsedOnce ==
    ASSUME IInv
    PROVE  BlocksUsedOnce
<1>1. PICK over \in Nat : Good(over, fs)
  BY DEF IInv, GoodFs
<1> QED
  BY <1>1 DEF Good, Once, BlocksUsedOnce, Allocated, BlocksOf

LEMMA GoodCount ==
    ASSUME ExactInv
    PROVE  FreeInodeCountExact
<1>1. CountOK(fs, 0) /\ InUse(fs) = Allocated
  BY DEF ExactInv, Good, InUse, Allocated
<1>2. PICK n \in Int : n = NumInodes - Cardinality(InUse(fs))
  <2>1. Cardinality(InUse(fs)) \in 0..NumInodes /\ NumInodes \in Nat
    BY CountFacts, ConstantFacts DEF InUse
  <2> QED
    BY <2>1
<1>3. fs.numFreeInodes = n
  BY <1>1, <1>2 DEF CountOK
<1> QED
  BY <1>1, <1>2, <1>3 DEF FreeInodeCountExact

LEMMA NumFreeIs ==
    ASSUME NEW f
    PROVE  NumFree(f) = NumInodes - Cardinality(InUse(f)) /\ NumFree(f) \in Int
<1>1. PICK S : S = InUse(f)
  OBVIOUS
<1>2. S \in SUBSET Inode /\ {i \in Inode : f.inode[i].type = "free"} = Inode \ S
  BY <1>1 DEF InUse
<1>3. IsFiniteSet(Inode) /\ Cardinality(Inode) = NumInodes /\ NumInodes \in Nat
  BY ConstantFacts, InodeCount
<1>4. Cardinality(Inode \ S) = NumInodes - Cardinality(Inode \cap S)
  BY <1>3, FS_Difference
<1>5. Inode \cap S = S /\ Cardinality(S) \in 0..NumInodes
  BY <1>2, CountFacts
<1>6. NumFree(f) = NumInodes - Cardinality(S)
  BY <1>2, <1>4, <1>5 DEF NumFree
<1> QED
  BY <1>1, <1>3, <1>5, <1>6

\* What CountFollows says of a call.
LEMMA StepCounts ==
    ASSUME SoundRenames, IInv, Next
    PROVE  fs'.numFreeInodes - fs.numFreeInodes = NumFree(fs') - NumFree(fs) \/ Replaces
<1>1. PICK over \in Nat : Good(over, fs)
  BY DEF IInv, GoodFs
<1>2. Good(over, fs') \/ Replaces
  BY <1>1, NextStep
<1>3. ASSUME Good(over, fs')
      PROVE  fs'.numFreeInodes - fs.numFreeInodes = NumFree(fs') - NumFree(fs)
  <2>1. PICK n \in Int : n = NumFree(fs) /\ n = NumInodes - Cardinality(InUse(fs))
    BY NumFreeIs
  <2>2. PICK m \in Int : m = NumFree(fs') /\ m = NumInodes - Cardinality(InUse(fs'))
    BY NumFreeIs
  <2>3. fs.numFreeInodes = over + n
    BY <1>1, <2>1 DEF Good, CountOK
  <2>4. fs'.numFreeInodes = over + m
    BY <1>3, <2>2 DEF Good, CountOK
  <2> QED
    BY <2>1, <2>2, <2>3, <2>4
<1> QED
  BY <1>2, <1>3

LEMMA GoodEntriesSound ==
    ASSUME IInv
    PROVE  EntriesSound
<1>1. PICK over \in Nat : Good(over, fs)
  BY DEF IInv, GoodFs
<1>2. Good(over, fs) /\ fs \in FsType /\ DotsOK(fs) /\ ChildrenOK(fs) /\ UniqueOK(fs)
  BY <1>1 DEF Good
<1>3. Allocated = InUse(fs) /\ Directories = Dirs(fs)
  BY DEF Allocated, Directories, InUse, Dirs
<1>4. Children = EntriesIn(fs) /\ \A c : ChildOf(c) = EntryAt(fs, c)
  BY <1>3 DEF Children, ChildPlaces, EntriesIn, ChildOf, EntryAt
<1>5. \A c \in Children :
         /\ Child(fs, c[1], BlockAt(fs, c), SlotAt(c))
         /\ ChildOf(c) = fs.dir[BlockAt(fs, c)][SlotAt(c)]
  BY <1>2, <1>4, EntriesAre
<1>6. \A d : At(fs, fs.inode[d], <<1, 1>>) = fs.dir[FirstBlock(fs, d)][1]
  BY DEF At, FirstBlock
<1>7. \A d : At(fs, fs.inode[d], <<1, 2>>) = fs.dir[FirstBlock(fs, d)][2]
  BY DEF At, FirstBlock
<1>8. \A d \in Directories : At(fs, fs.inode[d], <<1, 1>>) = Entry(d, ".")
  BY <1>2, <1>3, <1>6 DEF DotsOK
<1>9. ASSUME NEW c \in Children, ChildOf(c).ino \in Directories
      PROVE  At(fs, fs.inode[ChildOf(c).ino], <<1, 2>>) = Entry(c[1], "..")
  <2>1. PICK d : d = ChildOf(c).ino /\ d \in Dirs(fs)
    BY <1>3, <1>9
  <2>2. PICK x : x = fs.dir[FirstBlock(fs, d)][2]
    OBVIOUS
  <2>3. x.ino = c[1]
    BY <1>2, <1>5, <2>1, <2>2 DEF ChildrenOK
  <2>4. x.name = ".."
    BY <1>2, <2>1, <2>2 DEF DotsOK
  <2>5. x \in EntryType
    <3>1. FirstBlock(fs, d) \in Block /\ 2 \in Slot
      BY <1>2, <2>1, GoodFacts, TypedFacts, ConstantFacts
    <3> QED
      BY <1>2, <2>2, <3>1, TypedFacts
  <2>6. x = [ino |-> x.ino, name |-> x.name]
    BY <2>5 DEF EntryType
  <2> QED
    BY <1>7, <2>1, <2>2, <2>3, <2>4, <2>6 DEF Entry
<1>10. \A c \in Children : ChildOf(c).ino \in Allocated \ {Root}
  BY <1>2, <1>3, <1>5 DEF ChildrenOK
<1>11. ASSUME NEW c \in Children, NEW k \in Children \ {c}
       PROVE  /\ ChildOf(c).ino # ChildOf(k).ino
              /\ c[1] = k[1] => ChildOf(c).name # ChildOf(k).name
  <2>1. ~ (BlockAt(fs, c) = BlockAt(fs, k) /\ SlotAt(c) = SlotAt(k))
    BY <1>2, <1>4, EntriesAre
  <2> QED
    BY <1>2, <1>5, <2>1 DEF UniqueOK
<1> QED
  BY <1>8, <1>9, <1>10, <1>11 DEF EntriesSound, DotEntriesSound

\* What the runs call usable is what the lemmas call so.
LEMMA UsableAre ==
    ASSUME NEW over \in Nat, NEW f, Good(over, f)
    PROVE  /\ \A i : i \in NamedIn(f) \cup (Inode \ InUse(f)) <=> UsableInode(f, i)
           /\ \A b : b \in ToSet(f.free) \cup UNION {ToSet(f.inode[i].blocks) : i \in NamedIn(f)}
                     <=> UsableBlock(f, b)
<1>1. /\ NamedIn(f) \subseteq Inode
      /\ \A i : i \in NamedIn(f) <=> IsNamed(f, i)
  BY NamedAre
<1>2. \A i : i \in NamedIn(f) \cup (Inode \ InUse(f)) <=> UsableInode(f, i)
  BY <1>1 DEF UsableInode
<1>3. \A b : b \in ToSet(f.free) \cup UNION {ToSet(f.inode[i].blocks) : i \in NamedIn(f)}
             <=> UsableBlock(f, b)
  BY <1>1 DEF UsableBlock, BlocksOf
<1> QED
  BY <1>2, <1>3

LEMMA StepLosesNothing ==
    ASSUME SoundRenames, NoneWithin, IInv, Next, reply' = "ok"
    PROVE  UsableInodes \subseteq UsableInodes' /\ UsableBlocks \subseteq UsableBlocks'
<1>0. PICK over \in Nat : Good(over, fs)
  BY DEF IInv, GoodFs
<1>1. PICK next \in Nat : Good(next, fs') /\ LosesNothing(fs, fs')
  <2>1. over + 1 \in Nat
    OBVIOUS
  <2> QED
    BY <1>0, <2>1, NextStep
<1>2. /\ UsableInodes = NamedIn(fs) \cup (Inode \ InUse(fs))
      /\ UsableInodes' = NamedIn(fs') \cup (Inode \ InUse(fs'))
  BY DEF UsableInodes, Named, Children, ChildPlaces, ChildOf, Directories, Allocated,
         NamedIn, EntriesIn, EntryAt, Dirs, InUse
<1>3. /\ UsableBlocks = ToSet(fs.free)
                        \cup UNION {ToSet(fs.inode[i].blocks) : i \in NamedIn(fs)}
      /\ UsableBlocks' = ToSet(fs'.free)
                         \cup UNION {ToSet(fs'.inode[i].blocks) : i \in NamedIn(fs')}
  BY DEF UsableBlocks, Named, Children, ChildPlaces, ChildOf, Directories, Allocated,
         NamedIn, EntriesIn, EntryAt, Dirs, InUse
<1>4. \A i \in UsableInodes : i \in UsableInodes'
  BY <1>0, <1>1, <1>2, UsableAre DEF LosesNothing
<1>5. \A b \in UsableBlocks : b \in UsableBlocks'
  BY <1>0, <1>1, <1>3, UsableAre DEF LosesNothing
<1> QED
  BY <1>4, <1>5

-----------------------------------------------------------------------------
(* Theorems *)

\* As long as renames are sound, the types of the state; and the superblock's counter
\* of free inodes is never below zero: no ialloc (inodes_handler.c) makes the unsigned
\* number wrap.
THEOREM NamespaceTyped ==
    ASSUME SoundRenames
    PROVE  Spec => []TypeOK
<1>1. IInv => TypeOK
  BY GoodTypeOK
<1> QED
  BY <1>1, Invariant, PTL

\* As long as no rename replaces a directory, or a file that has a block, or moves a
\* directory to another one: wherever calls fail, no data block is in two files or
\* directories, twice in one, both in use and free, or free twice.  (A file that has a
\* block and is replaced has it freed twice, by unlink and by rename.)
THEOREM NoBlockUsedTwice ==
    ASSUME SoundRenames
    PROVE  Spec => []BlocksUsedOnce
<1>1. IInv => BlocksUsedOnce
  BY GoodBlocksUsedOnce
<1> QED
  BY <1>1, Invariant, PTL

\* As long as no directory is moved to another one, whose ".." rename leaves as it
\* was, and none is replaced, nor a file that has a block: between calls the entries of
\* directories form a tree.  Each names an inode in use, no inode has two, no directory
\* has two of one name, and "." and ".." name the directory itself and the one that
\* holds its entry.
THEOREM DirectoriesAreATree ==
    ASSUME SoundRenames
    PROVE  Spec => []EntriesSound
<1>1. IInv => EntriesSound
  BY GoodEntriesSound
<1> QED
  BY <1>1, Invariant, PTL

\* Under the same assumption: every call but a rename that replaces a file, the ones
\* that fail after ialloc included, changes the superblock's counter by as much as the
\* number of free inodes.
THEOREM CounterFollowsInodes ==
    ASSUME SoundRenames
    PROVE  Spec => CountFollows
<1>1. ASSUME IInv, [Next]_vars
      PROVE  [ \/ fs'.numFreeInodes - fs.numFreeInodes = NumFree(fs') - NumFree(fs)
               \/ \E old, new \in Path : Resolve(fs, new) # Absent /\ Rename(old, new) ]_vars
  BY <1>1, StepCounts DEF Replaces
<1> QED
  BY <1>1, Invariant, PTL DEF Spec, CountFollows

\* If no rename replaces anything at all, and none moves a directory to another one,
\* the counter is the number of free inodes after every call.
THEOREM FreeInodesAreCounted ==
    ASSUME SoundRenames, NothingReplaced
    PROVE  Spec => []FreeInodeCountExact
<1>1. ExactInv => FreeInodeCountExact
  BY GoodCount
<1> QED
  BY <1>1, ExactInvariant, PTL

\* As long as renames are sound and none stays within a directory, where it may lose
\* what it renames: a call that succeeds makes no inode and no block unreachable.
\* What was free or in a named inode before is free or in a named inode after.
THEOREM SuccessKeepsEverything ==
    ASSUME SoundRenames, NoneWithin
    PROVE  Spec => SuccessLosesNothing
<1>1. ASSUME IInv, [Next]_vars
      PROVE  [ reply' = "ok" => /\ UsableInodes \subseteq UsableInodes'
                                /\ UsableBlocks \subseteq UsableBlocks' ]_vars
  BY <1>1, StepLosesNothing
<1> QED
  BY <1>1, Invariant, PTL DEF Spec, SuccessLosesNothing

=============================================================================
