----------------------------- MODULE InodeTable ----------------------------
(***************************************************************************)
(* The inodes on disk (src/inodes_handler.c) behind the cache of           *)
(* src/inode_table.c: a bounded table in the order of last use, written    *)
(* through, which ialloc and ifree go around.                              *)
(*                                                                         *)
(* An action is what a handler does with one inode between its first and   *)
(* its last use of it: Get (get_inode), Change (get_inode, put_inode),     *)
(* Create (ialloc, put_inode), Remove (get_inode, put_inode without        *)
(* links).  Get also stands for a Change or a Remove whose write fails,    *)
(* for then nothing is put.                                                *)
(*                                                                         *)
(* A copy of an inode is its type, its links and the rest, `data'.  Left   *)
(* out: num_free_inodes and the freeing of data blocks (Namespace), errors *)
(* of reads.                                                               *)
(***************************************************************************)
EXTENDS Integers, FiniteSets

CONSTANTS
    NumInodes,      \* NUM_INODES
    MaxCache,       \* MAX_CACHE_SIZE (1024)
    Data,           \* what an inode may hold
    Blank,          \* what a free or new inode holds
    Unsure          \* for the view as an InodeStore

ASSUME TableAssumption ==
    /\ NumInodes \in Nat \ {0}
    /\ MaxCache \in Nat \ {0}
    /\ Blank \in Data
    /\ Unsure \notin Data

Inode == 1..NumInodes

Root == 1

\* No copy is free and has a link.
Copy ==
    {c \in [type : {"free", "used"}, links : {0, 1}, data : Data] :
        c.links = 1 => c.type = "used"}

FreeCopy == [type |-> "free", links |-> 0, data |-> Blank]

UsedCopy(d) == [type |-> "used", links |-> 1, data |-> d]

VARIABLES
    disk,       \* the copy of every inode on disk
    cached,     \* the copies in the cache
    older,      \* the order of the cache: <<i, k>> when i comes before k
    live,       \* history: the inodes that names lead to
    unsure      \* history: those whose last write or free a disk error has
                \* ended half way

tableVars == <<disk, cached, older, live, unsure>>

-----------------------------------------------------------------------------
(* The cache *)

\* The order with i as its last: HASH_DEL and HASH_ADD, or HASH_REPLACE.
MovedToEnd(i) ==
    {r \in older : r[1] # i /\ r[2] # i} \cup ((DOMAIN cached \ {i}) \X {i})

First(ids, order) == CHOOSE k \in ids : \A j \in ids \ {k} : <<k, j>> \in order

\* Mutant of Kept: the cache is pruned when it is over its size.
KeptUpTo(ids, order) ==
    IF Cardinality(ids) <= MaxCache THEN ids ELSE ids \ {First(ids, order)}

\* The entries that pruning leaves of ids.
Kept(ids, order) ==
    IF Cardinality(ids) < MaxCache THEN ids ELSE ids \ {First(ids, order)}

\* Mutant of Entry: an entry that was there is not replaced.
EntryKept(i, c, k) == IF k \in DOMAIN cached THEN cached[k] ELSE c

\* The copy in entry k when c is put into entry i.
Entry(i, c, k) == IF k = i THEN c ELSE cached[k]

PutInCache(i, c) ==
    LET order == MovedToEnd(i)
        kept  == Kept(DOMAIN cached \cup {i}, order)
    IN  /\ cached' = [k \in kept |-> Entry(i, c, k)]
        /\ older' = order \cap (kept \X kept)

\* What get_inode answers.
View(i) == IF i \in DOMAIN cached THEN cached[i] ELSE disk[i]

\* The cache after get_inode: a hit moves the entry, a miss makes one.
Looked(i) ==
    IF i \in DOMAIN cached
    THEN /\ older' = MovedToEnd(i)
         /\ UNCHANGED cached
    ELSE PutInCache(i, disk[i])

\* Mutant of Written: what is in the cache is written when it leaves it.
WrittenIfUncached(i, c) ==
    disk' = IF i \in DOMAIN cached THEN disk ELSE [disk EXCEPT ![i] = c]

\* The inode's block is read, changed and written.
Written(i, c) == disk' = [disk EXCEPT ![i] = c]

-----------------------------------------------------------------------------
(* Actions *)

Get(i) ==
    /\ Looked(i)
    /\ UNCHANGED <<disk, live, unsure>>

\* The caller puts the copy that it got with d in it.  A copy without links (of
\* an inode that is freed already) is freed again.
Change(i, d) ==
    LET c == [View(i) EXCEPT !.data = d]
    IN  /\ PutInCache(i, c)
        /\ IF c.links = 0
           THEN /\ Written(i, FreeCopy)
                /\ unsure' = unsure \cup ({i} \cap live)
           ELSE /\ Written(i, c)
                /\ unsure' = unsure \ {i}
        /\ UNCHANGED live

\* Mutant of NextFree: the cache is searched, not the disk.
NextOutsideCache(i) ==
    /\ i \in Inode \ DOMAIN cached
    /\ \A k \in Inode \ DOMAIN cached : i <= k

\* next_free_inode_number answers i.
NextFree(i) ==
    /\ i \in Inode
    /\ disk[i].type = "free"
    /\ \A k \in Inode : disk[k].type = "free" => i <= k

Create(i, d) ==
    /\ NextFree(i)
    /\ Written(i, UsedCopy(d))
    /\ PutInCache(i, UsedCopy(d))
    /\ live' = live \cup {i}
    /\ unsure' = unsure \ {i}

\* The parent has no room for the entry of the new inode.
CreateUnnamed(i, d) ==
    /\ NextFree(i)
    /\ Written(i, UsedCopy(d))
    /\ PutInCache(i, UsedCopy(d))
    /\ UNCHANGED <<live, unsure>>

\* put_inode fails after ialloc, and nobody looks: the inode is named, and the
\* cache may still have a copy from before.
CreatePutFails(i) ==
    /\ NextFree(i)
    /\ Written(i, UsedCopy(Blank))
    /\ live' = live \cup {i}
    /\ unsure' = unsure \cup {i}
    /\ UNCHANGED <<cached, older>>

\* ialloc writes the inode and then fails to write the superblock.
AllocCommitFails(i) ==
    /\ NextFree(i)
    /\ Written(i, UsedCopy(Blank))
    /\ UNCHANGED <<cached, older, live, unsure>>

\* The freed inode is put into the cache as it was, without links.  Its name may
\* stay, when the directory cannot be written.
Remove(i) ==
    /\ i \in live \ {Root}
    /\ Written(i, FreeCopy)
    /\ PutInCache(i, [View(i) EXCEPT !.links = 0])
    /\ \/ live' = live \ {i} /\ unsure' = unsure \ {i}
       \/ live' = live /\ unsure' = unsure \cup {i}

\* ifree writes the inode and then fails to write the superblock: the name stays.
RemoveCommitFails(i) ==
    /\ i \in live \ {Root}
    /\ Written(i, FreeCopy)
    /\ Looked(i)
    /\ unsure' = unsure \cup {i}
    /\ UNCHANGED live

\* rename puts the target once more that unlink or rmdir has removed for it.  It
\* is among the last in the cache, and has not been pruned since.
PutRemovedAgain(i) ==
    /\ i \in DOMAIN cached \ live
    /\ cached[i].links = 0 /\ disk[i].type = "free"
    /\ older' = MovedToEnd(i)
    /\ UNCHANGED <<disk, cached, live, unsure>>

-----------------------------------------------------------------------------

\* create_fs has put the root.
TableInit ==
    /\ disk = [i \in Inode |-> IF i = Root THEN UsedCopy(Blank) ELSE FreeCopy]
    /\ cached = [i \in (IF MaxCache > 1 THEN {Root} ELSE {}) |-> UsedCopy(Blank)]
    /\ older = {}
    /\ live = {Root}
    /\ unsure = {}

TableNext ==
    \E i \in Inode :
        \/ Get(i)
        \/ \E d \in Data : Change(i, d)
        \/ \E d \in Data : Create(i, d) \/ CreateUnnamed(i, d)
        \/ CreatePutFails(i)
        \/ AllocCommitFails(i)
        \/ Remove(i)
        \/ RemoveCommitFails(i)
        \/ PutRemovedAgain(i)

TableSpec == TableInit /\ [][TableNext]_tableVars

-----------------------------------------------------------------------------
(* Properties *)

TableTypeOK ==
    /\ disk \in [Inode -> Copy]
    /\ DOMAIN cached \subseteq Inode
    /\ \A i \in DOMAIN cached : cached[i] \in Copy
    /\ older \subseteq (DOMAIN cached) \X (DOMAIN cached)
    /\ unsure \subseteq live
    /\ live \subseteq Inode
    /\ Root \in live

\* An inode that a name leads to is allocated on disk, and the cache, if it has
\* it, has what is on disk: no stale copy of an older inode of that number, and
\* none that pruning lets an older one reappear behind.  Errors make an
\* exception of the inode they happen at.
Coherent ==
    \A i \in live \ unsure :
        /\ disk[i].type = "used" /\ disk[i].links = 1
        /\ i \in DOMAIN cached => cached[i] = disk[i]

TotallyOrdered(ids, order) ==
    \A i, k \in ids :
        /\ i # k => (<<i, k>> \in order \/ <<k, i>> \in order)
        /\ ~ (<<i, k>> \in order /\ <<k, i>> \in order)
        /\ \A m \in ids : <<i, k>> \in order /\ <<k, m>> \in order => <<i, m>> \in order

\* The cache stays below its size, and its order is a total one of the entries it
\* has: pruning always finds a first, and an entry is in it once.
CacheOrdered ==
    /\ Cardinality(DOMAIN cached) < MaxCache
    /\ TotallyOrdered(DOMAIN cached, older)

\* ialloc returns no inode that a name leads to.  It reads the disk and not the
\* cache, where freed inodes stay as they were.
CreateIsFresh ==
    [][\A i \in Inode :
          (\E d \in Data : Create(i, d)) => i \notin live \ unsure]_tableVars

\* What names lead to, as get_inode shows it.
Content == [i \in live |-> IF i \in unsure THEN Unsure ELSE View(i).data]

Store == INSTANCE InodeStore WITH content <- Content

\* What get_inode answers for an inode that a name leads to is what was put last;
\* getting and pruning never change it, nor does what happens at other inodes.
ImplementsStore == Store!StoreSpec

=============================================================================
