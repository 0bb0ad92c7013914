----------------------------- MODULE BlockMap ------------------------------
(***************************************************************************)
(* The block map of a file: the direct and indirect blocks by which        *)
(* get_block_id and set_block_id (src/block_utils.c) find the block at an  *)
(* index, as pwrite (src/syscalls2.c) fills it and iput                    *)
(* (src/inodes_handler.c) empties it.                                      *)
(*                                                                         *)
(* A write runs on a copy of the inode, which it puts back only at its     *)
(* end; what it changes in indirect blocks is on disk at once.  A write    *)
(* that fails half way drops the copy.                                     *)
(*                                                                         *)
(* Left out: the bytes within a block (a write covers whole blocks), disk  *)
(* errors, num_allocated_blocks (a count only lstat reports), and which      *)
(* free block an allocation takes: it takes the lowest.                    *)
(***************************************************************************)
EXTENDS Integers, FiniteSets, FiniteSetsExt

CONSTANTS
    NumDirect,      \* NUM_DIRECT_BLOCKS (16)
    ListLength,     \* BLOCK_ID_LIST_LENGTH (512)
    NumBlocks,      \* data blocks, numbered from 1
    MaxWrite        \* bound on the blocks of one write

ASSUME MapAssumption ==
    /\ NumDirect \in Nat
    /\ ListLength \in Nat \ {0}
    /\ NumBlocks \in Nat
    /\ MaxWrite \in Nat

\* The indices each level serves, and the first one that none does.
SingleBase == NumDirect
DoubleBase == SingleBase + ListLength
TripleBase == DoubleBase + ListLength * ListLength
EndOfMap   == TripleBase + ListLength * ListLength * ListLength

Index == 0..EndOfMap - 1

Block == 1..NumBlocks

None == 0

EmptyList == [k \in 0..ListLength - 1 |-> None]

EmptyInode ==
    [direct |-> [k \in 0..NumDirect - 1 |-> None],
     single |-> None, double |-> None, triple |-> None, numBlocks |-> 0]

VARIABLES
    inode,      \* the file's inode, as it was put last
    list,       \* the contents of every block, read as a block_id_list
    free,       \* the free blocks
    reply       \* how the last call ended: "ok" or an errno

vars == <<inode, list, free, reply>>

-----------------------------------------------------------------------------
(* get_block_id: ino is an inode or a copy, l the contents of the blocks. *)

GetSingle(l, s, i) == IF s = None THEN None ELSE l[s][i]

GetDouble(l, d, i) ==
    IF d = None THEN None
    ELSE GetSingle(l, l[d][i \div ListLength], i % ListLength)

GetTriple(l, t, i) ==
    LET span == ListLength * ListLength
    IN  IF t = None THEN None ELSE GetDouble(l, l[t][i \div span], i % span)

GetBlockId(l, ino, i) ==
    IF i < SingleBase THEN ino.direct[i]
    ELSE IF i < DoubleBase THEN GetSingle(l, ino.single, i - SingleBase)
    ELSE IF i < TripleBase THEN GetDouble(l, ino.double, i - DoubleBase)
    ELSE IF i < EndOfMap THEN GetTriple(l, ino.triple, i - TripleBase)
    ELSE None

-----------------------------------------------------------------------------
(* set_block_id.  The work in progress is a record: the copy of the inode  *)
(* (ino), the contents and the free blocks on disk, and whether the call   *)
(* still goes well.                                                        *)

\* data_block_alloc in work w: the block it returns, and what is left.
Taken(w) == Min(w.free)

Take(w) == [w EXCEPT !.free = @ \ {Min(@)}, !.list[Min(w.free)] = EmptyList]

Failed(w) == [w EXCEPT !.ok = FALSE]

SetSingle(w, s, i, b) == [w EXCEPT !.list[s][i] = b]

\* The list block at place k of list block d, allocated if there is none.
WithList(w, d, k) ==
    IF w.list[d][k] # None THEN w
    ELSE IF w.free = {} THEN Failed(w)
    ELSE [Take(w) EXCEPT !.list[d][k] = Taken(w)]

\* Mutant of SetDouble: place and index within the list are swapped.
SetDoubleSwapped(w, d, i, b) ==
    LET k == i % ListLength
        v == WithList(w, d, k)
    IN  IF ~ v.ok THEN v ELSE SetSingle(v, v.list[d][k], i \div ListLength, b)

SetDouble(w, d, i, b) ==
    LET k == i \div ListLength
        v == WithList(w, d, k)
    IN  IF ~ v.ok THEN v ELSE SetSingle(v, v.list[d][k], i % ListLength, b)

SetTriple(w, t, i, b) ==
    LET span == ListLength * ListLength
        k == i \div span
        v == WithList(w, t, k)
    IN  IF ~ v.ok THEN v ELSE SetDouble(v, v.list[t][k], i % span, b)

\* Mutant of WithTop: a top block is allocated whether there is one or not.
WithNewTop(w, level) ==
    IF w.free = {} THEN Failed(w)
    ELSE [Take(w) EXCEPT !.ino[level] = Taken(w)]

\* The top block of a level, allocated if the copy of the inode has none.
WithTop(w, level) ==
    IF w.ino[level] # None THEN w
    ELSE IF w.free = {} THEN Failed(w)
    ELSE [Take(w) EXCEPT !.ino[level] = Taken(w)]

\* Mutant of SetBlockId: an index beyond the map is taken for a direct one.
SetBlockIdUnchecked(w, i, b) ==
    IF i < SingleBase THEN [w EXCEPT !.ino.direct[i] = b] ELSE w

SetBlockId(w, i, b) ==
    IF i < SingleBase THEN [w EXCEPT !.ino.direct[i] = b]
    ELSE IF i < DoubleBase
    THEN LET v == WithTop(w, "single")
         IN  IF ~ v.ok THEN v ELSE SetSingle(v, v.ino.single, i - SingleBase, b)
    ELSE IF i < TripleBase
    THEN LET v == WithTop(w, "double")
         IN  IF ~ v.ok THEN v ELSE SetDouble(v, v.ino.double, i - DoubleBase, b)
    ELSE IF i < EndOfMap
    THEN LET v == WithTop(w, "triple")
         IN  IF ~ v.ok THEN v ELSE SetTriple(v, v.ino.triple, i - TripleBase, b)
    ELSE Failed(w)

-----------------------------------------------------------------------------
(* pwrite and iput *)

\* Mutant of WriteBlock: the map makes room first, and the block is allocated then.
WriteBlockLate(w, i) ==
    IF GetBlockId(w.list, w.ino, i) # None THEN w
    ELSE IF w.free = {} THEN [w EXCEPT !.ok = FALSE, !.errno = "EDQUOT"]
    ELSE LET v == SetBlockId(w, i, Taken(w))
         IN  IF ~ v.ok THEN [v EXCEPT !.errno = "EIO"]
             ELSE IF v.free = {} THEN [v EXCEPT !.ok = FALSE, !.errno = "EDQUOT"]
             ELSE Take(v)

\* Mutant of WriteBlock: a block that the map does not take is written all the same.
WriteBlockAnyway(w, i) ==
    IF GetBlockId(w.list, w.ino, i) # None THEN w
    ELSE IF w.free = {} THEN [w EXCEPT !.ok = FALSE, !.errno = "EDQUOT"]
    ELSE [SetBlockId(Take(w), i, Taken(w)) EXCEPT !.ok = TRUE]

\* One turn of pwrite's loop, at index i: a block that is not there is
\* allocated first and entered into the map then.
WriteBlock(w, i) ==
    IF GetBlockId(w.list, w.ino, i) # None THEN w
    ELSE IF w.free = {} THEN [w EXCEPT !.ok = FALSE, !.errno = "EDQUOT"]
    ELSE LET v == SetBlockId(Take(w), i, Taken(w))
         IN  IF ~ v.ok THEN [v EXCEPT !.errno = "EIO"]
             ELSE v

\* syscalls2__pwrite of n whole blocks from index first on.  Only the first
\* index is checked against the range of the map, and only past the end.
Write(first, n) ==
    LET start == [ino |-> inode, list |-> list, free |-> free,
                  ok |-> TRUE, errno |-> "ok"]
        done[k \in 0..n] ==
            IF k = 0 THEN start
            ELSE IF ~ done[k-1].ok THEN done[k-1]
            ELSE WriteBlock(done[k-1], first + k - 1)
    IN  IF first >= inode.numBlocks /\ first \notin Index
        THEN /\ reply' = "EFBIG"
             /\ UNCHANGED <<inode, list, free>>
        ELSE /\ list' = done[n].list
             /\ free' = done[n].free
             /\ inode' = IF done[n].ok
                         THEN [done[n].ino EXCEPT !.numBlocks = Max({@, first + n})]
                         ELSE inode
             /\ reply' = done[n].errno

\* iput of the inode with no link left, and ialloc of it for a new file.
Remove ==
    /\ inode # EmptyInode
    /\ LET freed == {GetBlockId(list, inode, i) : i \in 0..inode.numBlocks - 1} \ {None}
       IN  /\ free' = free \cup freed
           /\ list' = [b \in Block |-> IF b \in freed THEN EmptyList ELSE list[b]]
    /\ inode' = EmptyInode
    /\ reply' = "ok"

Init ==
    /\ inode = EmptyInode
    /\ list = [b \in Block |-> EmptyList]
    /\ free = Block
    /\ reply = "ok"

Next ==
    \/ \E first \in 0..EndOfMap, n \in 1..MaxWrite : Write(first, n)
    \/ Remove

Spec == Init /\ [][Next]_vars

-----------------------------------------------------------------------------
(* Properties *)

BlockAt(i) == GetBlockId(list, inode, i)

\* The list blocks that can be reached from the inode.
Listed(b) == {list[b][k] : k \in 0..ListLength - 1} \ {None}

Triples == {inode.triple} \ {None}

Doubles == ({inode.double} \ {None}) \cup UNION {Listed(b) : b \in Triples}

Singles == ({inode.single} \ {None}) \cup UNION {Listed(b) : b \in Doubles}

\* The pointers in use: where one is, and the block it leads to.
Pointers ==
    {p \in {<<None, k, inode.direct[k]>> : k \in 0..NumDirect - 1}
           \cup {<<None, NumDirect, inode.single>>,
                 <<None, NumDirect + 1, inode.double>>,
                 <<None, NumDirect + 2, inode.triple>>}
           \cup {<<b, k, list[b][k]>> : b \in Singles \cup Doubles \cup Triples,
                                        k \in 0..ListLength - 1} :
        p[3] # None}

Used == {p[3] : p \in Pointers}

\* Types of the state.
TypeOK ==
    /\ {inode.single, inode.double, inode.triple} \subseteq Block \cup {None}
    /\ inode.direct \in [0..NumDirect - 1 -> Block \cup {None}]
    /\ inode.numBlocks \in 0..EndOfMap
    /\ list \in [Block -> [0..ListLength - 1 -> Block \cup {None}]]
    /\ free \subseteq Block
    /\ reply \in {"ok", "EFBIG", "EDQUOT", "EIO"}

\* After any writes, some of them failed half way, and removals, the file's map
\* is a tree: no block has two pointers to it, and none in use is free.
MapIsTree ==
    /\ \A p, q \in Pointers : p[3] = q[3] => p = q
    /\ Used \cap free = {}

\* No write, also none that fails half way, moves the block of an index that
\* has one: what is in the file stays where a read finds it.
WritesKeepBlocks ==
    [][ inode' # EmptyInode =>
            \A i \in Index : BlockAt(i) # None => BlockAt(i)' = BlockAt(i) ]_vars

\* The map finds the block that ends the file: set_block_id and get_block_id
\* agree on the place of an index, and num_blocks counts no block that a
\* failed write has not entered.
LastBlockIsMapped == inode.numBlocks > 0 => BlockAt(inode.numBlocks - 1) # None

\* A write that succeeds loses no block: what it took is in the map.
WritesLoseNothing ==
    [][ (reply' = "ok" /\ inode' # EmptyInode) =>
            free \cup Used \subseteq (free \cup Used)' ]_vars

\* "Update the inode and free inode and data blocks if link count reaches 0":
\* when a file goes all blocks that it used are free.
RemoveFreesAll ==
    [][ inode' = EmptyInode /\ inode # EmptyInode => Used \subseteq free' ]_vars

\* "Number of blocks that are used": no index from num_blocks on has a block.
NothingPastEnd == \A i \in Index : i >= inode.numBlocks => BlockAt(i) = None

=============================================================================
