----------------------------- MODULE FreeBlocks -----------------------------
(***************************************************************************)
(* The data block allocator (src/data_blocks_handler.c) over the disk that *)
(* create_free_blocks (src/mkfs.c) lays out.                               *)
(*                                                                         *)
(* The free blocks are recorded in list blocks.  A list block holds        *)
(* ListLength block ids: position 1 is the id of the next list block (0:   *)
(* none), the other positions ("slots") hold ids of free blocks or 0.  The *)
(* first data block is the head of the chain for ever; every other list    *)
(* block is itself a free block, handed out when the head runs empty.      *)
(*                                                                         *)
(* Left out: block 0, where commit_superblock copies the counter, because  *)
(* nothing reads it back while the program runs, and the contents of the   *)
(* superblock and inode blocks, which belong to other components.  A block *)
(* write takes effect as a whole or not at all.                            *)
(***************************************************************************)
EXTENDS Integers, FiniteSets

CONSTANTS
    NumBlocks,       \* NUM_BLOCKS: blocks on the disk, numbered from 0
    NumInodeBlocks,  \* NUM_INODE_BLOCKS: inode blocks, after the superblock
    ListLength,      \* BLOCK_ID_LIST_LENGTH: ids in a block (512)
    OldContents,     \* what a block may hold when read as a list of ids,
                     \*   before it is first used and after its owner wrote it
    MaxCount         \* bound: no block is freed once the counter reaches it

ASSUME GeometryAssumption ==
    /\ NumInodeBlocks \in Nat
    /\ NumBlocks \in Nat
    /\ NumBlocks >= NumInodeBlocks + 2
    /\ ListLength \in Nat
    /\ ListLength >= 2
    /\ MaxCount \in Nat

ASSUME ContentsAssumption ==
    /\ OldContents # {}
    /\ OldContents \subseteq [1..ListLength -> Nat]

\* get_block_number_of_first_datablock: the head of the chain of list blocks.
Head == 1 + NumInodeBlocks

DataBlock == Head .. NumBlocks - 1

Block == Head + 1 .. NumBlocks - 1   \* the blocks that can be handed out

Slot == 2..ListLength

Content == [1..ListLength -> Nat]

Zeros == [p \in 1..ListLength |-> 0]

VARIABLES
    disk,            \* the data blocks, each read as a list of block ids
    numFree,         \* superblock.num_free_blocks
    owned,           \* history: blocks callers of data_block_alloc hold
    lost,            \* history: blocks lost to a disk error
    answer           \* how the last call ended: "ok", "full" or "eio"

vars == <<disk, numFree, owned, lost, answer>>

-----------------------------------------------------------------------------
(* create_superblock and create_free_blocks: of the D data blocks one in   *)
(* ListLength, rounded up, becomes a list block; the others are numbered   *)
(* into the lists in ascending order, each list filled from its last slot  *)
(* to its first.  A block that holds no list keeps its old contents.       *)

NumFreeAtStart ==
    ((NumBlocks - NumInodeBlocks - 1) * (ListLength - 1)) \div ListLength

NumLists == NumBlocks - (1 + NumInodeBlocks + NumFreeAtStart)

FirstListedBlock == 1 + NumInodeBlocks + NumLists

\* The id create_free_blocks reaches at position p of list number i.
IdAt(i, p) == FirstListedBlock + i * (ListLength - 1) + (ListLength - p)

InitialList(i) ==
    [p \in 1..ListLength |->
        IF p = 1 THEN (IF i < NumLists - 1 THEN Head + i + 1 ELSE 0)
                 ELSE (IF IdAt(i, p) < NumBlocks THEN IdAt(i, p) ELSE 0)]

Init ==
    /\ \E old \in OldContents :
          disk = [b \in DataBlock |-> IF b < Head + NumLists
                                      THEN InitialList(b - Head)
                                      ELSE old]
    /\ numFree = NumFreeAtStart
    /\ owned = {}
    /\ lost = {}
    /\ answer = "ok"

-----------------------------------------------------------------------------
(* data_block_alloc *)

\* has_at_least_one_datablock_number_left_without_pointer
HasListedBlock(list) == \E p \in Slot : list[p] # 0

\* Mutant of HandOut: the block is returned as its last user left it.
HandOutUnzeroed(b, d) ==
    /\ disk' = d
    /\ owned' = owned \cup {b}
    /\ answer' = "ok"
    /\ UNCHANGED lost

\* The tail of data_block_alloc, once the head no longer lists b and the disk
\* is d: zero b on disk and return it.  When that write fails the call returns
\* -1, with b no longer on the list.
HandOut(b, d) ==
    \/ /\ disk' = [d EXCEPT ![b] = Zeros]
       /\ owned' = owned \cup {b}
       /\ answer' = "ok"
       /\ UNCHANGED lost
    \/ /\ disk' = d
       /\ lost' = lost \cup {b}
       /\ answer' = "eio"
       /\ UNCHANGED owned

\* Mutants of AllocListed: the last slot is taken even when it holds 0, and the
\* slot taken still names the block.
AllocLastSlot ==
    /\ HasListedBlock(disk[Head])
    /\ HandOut(disk[Head][ListLength], [disk EXCEPT ![Head][ListLength] = 0])
    /\ numFree' = numFree - 1

AllocKeepingSlot ==
    \E p \in Slot :
        /\ disk[Head][p] # 0
        /\ \A q \in Slot : q > p => disk[Head][q] = 0
        /\ HandOut(disk[Head][p], disk)
        /\ numFree' = numFree - 1

\* get_first_free_datablock_starting_from_end_of_block_and_set_0: the id in
\* the last slot that holds one.
AllocListed ==
    \E p \in Slot :
        /\ disk[Head][p] # 0
        /\ \A q \in Slot : q > p => disk[Head][q] = 0
        /\ HandOut(disk[Head][p], [disk EXCEPT ![Head][p] = 0])
        /\ numFree' = numFree - 1

\* Mutants of AllocListBlock: the list block is handed out without its contents
\* moving to the head, and the counter counts it.
AllocListBlockUncopied ==
    /\ ~ HasListedBlock(disk[Head])
    /\ disk[Head][1] # 0
    /\ HandOut(disk[Head][1], [disk EXCEPT ![Head] = Zeros])
    /\ UNCHANGED numFree

AllocListBlockCounted ==
    /\ ~ HasListedBlock(disk[Head])
    /\ disk[Head][1] # 0
    /\ HandOut(disk[Head][1], [disk EXCEPT ![Head] = disk[disk[Head][1]]])
    /\ numFree' = numFree - 1

\* The head lists no block: the next list block becomes the block handed out,
\* after its contents moved to the head.  read_block refuses an id that is not
\* on the disk.
AllocListBlock ==
    /\ ~ HasListedBlock(disk[Head])
    /\ LET next == disk[Head][1] IN
          /\ next # 0
          /\ next \in DataBlock
          /\ HandOut(next, [disk EXCEPT ![Head] = disk[next]])
    /\ UNCHANGED numFree

\* Mutant of AllocFull: the pointer to the next list block is not looked at.
AllocFullAtEmptyHead ==
    /\ ~ HasListedBlock(disk[Head])
    /\ answer' = "full"
    /\ UNCHANGED <<disk, numFree, owned, lost>>

\* No slot and no next list block: -1.
AllocFull ==
    /\ ~ HasListedBlock(disk[Head])
    /\ disk[Head][1] = 0
    /\ answer' = "full"
    /\ UNCHANGED <<disk, numFree, owned, lost>>

\* A read, or the write of the head, fails: -1 and nothing changed.
AllocDiskError ==
    /\ answer' = "eio"
    /\ UNCHANGED <<disk, numFree, owned, lost>>

Alloc == AllocListed \/ AllocListBlock \/ AllocFull \/ AllocDiskError

-----------------------------------------------------------------------------
(* data_block_free *)

\* is_datablock_full_of_free_datablock_numbers
IsFull(list) == \A p \in Slot : list[p] # 0

\* The two writes of data_block_free: block b gets contents c, then the head
\* gets contents h.  When the first or the second fails the call returns -1;
\* its callers (iput) drop the block all the same.
WriteBoth(b, c, h) ==
    /\ owned' = owned \ {b}
    /\ \/ /\ disk' = [disk EXCEPT ![b] = c, ![Head] = h]
          /\ numFree' = numFree + 1
          /\ answer' = "ok"
          /\ UNCHANGED lost
       \/ /\ \/ disk' = [disk EXCEPT ![b] = c]
             \/ UNCHANGED disk
          /\ lost' = lost \cup {b}
          /\ answer' = "eio"
          /\ UNCHANGED numFree

\* Mutant of FreeAsListBlock: the new head does not point to b.
FreeAsListBlockUnlinked(b) ==
    /\ IsFull(disk[Head])
    /\ WriteBoth(b, disk[Head], Zeros)

\* The head is full: b becomes the list block that holds what the head held,
\* and the head an empty list that points to b.
FreeAsListBlock(b) ==
    /\ IsFull(disk[Head])
    /\ WriteBoth(b, disk[Head], [Zeros EXCEPT ![1] = b])

\* get_ith_position_of_free_spot...: b goes into the first slot that holds 0.
FreeIntoSlot(b) ==
    \E p \in Slot :
        /\ disk[Head][p] = 0
        /\ \A q \in Slot : q < p => disk[Head][q] # 0
        /\ WriteBoth(b, Zeros, [disk[Head] EXCEPT ![p] = b])

Free ==
    \E b \in owned :
        /\ numFree < MaxCount
        /\ FreeAsListBlock(b) \/ FreeIntoSlot(b)

\* The owner of a block writes it (bwrite).
OwnerWrite ==
    \E b \in owned, c \in OldContents :
        /\ disk' = [disk EXCEPT ![b] = c]
        /\ UNCHANGED <<numFree, owned, lost, answer>>

Next == Alloc \/ Free \/ OwnerWrite

Spec == Init /\ [][Next]_vars

-----------------------------------------------------------------------------
(* The chain of list blocks, as the code would walk it. *)

\* The i-th list block of the chain, the head being number 0; 0 past its end.
Walk == LET w[i \in 0..NumBlocks] ==
                IF i = 0 THEN Head
                ELSE IF w[i-1] \in DataBlock THEN disk[w[i-1]][1] ELSE 0
        IN  w

\* The blocks no caller holds and no error lost.
FreeBlock == Block \ (owned \cup lost)

\* s[0], ..., s[n] is the chain of list blocks, and together they record
\* exactly the free blocks, each once.  Every clause is about a way in which
\* the lists could go wrong.
Records(n, s) ==
    \* The chain starts at the head, follows the pointers and ends at n,
    /\ s \in [0..n -> DataBlock]
    /\ s[0] = Head
    /\ \A i \in 0..n : disk[s[i]][1] = IF i < n THEN s[i+1] ELSE 0
    \* without a cycle,
    /\ \A i, j \in 0..n : s[i] = s[j] => i = j
    \* through blocks that nobody else uses.
    /\ \A i \in 1..n : s[i] \in FreeBlock
    \* A slot names a free block that is not a list block,
    /\ \A i \in 0..n : \A p \in Slot :
          disk[s[i]][p] # 0 => /\ disk[s[i]][p] \in FreeBlock
                               /\ \A j \in 0..n : disk[s[i]][p] # s[j]
    \* and no other slot names the same block.
    /\ \A i, j \in 0..n : \A p, q \in Slot :
          disk[s[i]][p] # 0 /\ disk[s[i]][p] = disk[s[j]][q] => i = j /\ p = q
    \* Every free block is a list block or is named by one.
    /\ \A b \in FreeBlock : \/ \E i \in 1..n : s[i] = b
                            \/ \E i \in 0..n : \E p \in Slot : disk[s[i]][p] = b

ChainLength == Cardinality({i \in 1..NumBlocks : Walk[i] # 0})

Chain == [i \in 0..ChainLength |-> Walk[i]]

\* The free block ids held in the slots of the list blocks.
ListedBlocks ==
    {disk[Chain[i]][p] : i \in 0..ChainLength, p \in Slot} \ {0}

-----------------------------------------------------------------------------
(* Properties *)

\* Types of the state.
TypeOK ==
    /\ disk \in [DataBlock -> Content]
    /\ numFree \in Int
    /\ owned \subseteq Block
    /\ lost \subseteq Block
    /\ answer \in {"ok", "full", "eio"}

\* After any sequence of calls and disk errors of data_block_alloc and
\* data_block_free, the list blocks on disk record each free block exactly
\* once, and no block that a caller holds.
FreeListSound == Records(ChainLength, Chain)

\* The block the next data_block_alloc would take from a slot or from the head
\* of the chain is a free block, never one that a file already uses.
AllocIsFresh ==
    /\ \A p \in Slot : disk[Head][p] # 0 => disk[Head][p] \in FreeBlock
    /\ disk[Head][1] # 0 => disk[Head][1] \in FreeBlock

\* data_block_alloc says that the disk is full only when every block is in
\* use (or was lost): no free block becomes unreachable behind an empty head.
FullMeansUsed ==
    (~ HasListedBlock(disk[Head]) /\ disk[Head][1] = 0) => FreeBlock = {}

\* superblock.num_free_blocks, an unsigned integer that data_block_alloc
\* decrements for every block taken from a slot, never wraps below zero.
CounterNeverWraps == numFree >= Cardinality(ListedBlocks)

\* A call changes no block that another caller holds, and a block is zeroed
\* when it is handed out: what a caller reads from its block is zeros or what
\* it wrote, whatever list or file used the block before.
KeepsData ==
    (owned' # owned \/ lost' # lost) =>
        \A b \in owned' : disk'[b] = IF b \in owned THEN disk[b] ELSE Zeros

OwnersKeepTheirData == [][KeepsData]_vars

\* The superblock's counter is the number of ids in the list blocks, as
\* create_free_blocks establishes and as test_mkfs.c asserts after it.
CountMatchesList == numFree = Cardinality(ListedBlocks)

\* The allocator implements the abstract pool: every step of it is a step that
\* BlockPool allows on the free, owned and lost blocks.
Pool == INSTANCE BlockPool WITH free <- FreeBlock

PoolSpec == Pool!PoolSpec

=============================================================================
