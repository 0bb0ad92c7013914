----------------------------- MODULE Namespace -----------------------------
(***************************************************************************)
(* The name space: the handlers of src/syscalls1.c over directory blocks   *)
(* (src/common.c), path lookup (src/namei.c) and inodes                    *)
(* (src/inodes_handler.c).                                                 *)
(*                                                                         *)
(* A handler runs as one step.  It works on copies of inodes, which it     *)
(* reads with get_inode and writes back with put_inode: the copies are the *)
(* arguments and results of the operators below, in the order of the code. *)
(*                                                                         *)
(* Left out: attributes (owner, mode, times), which chmod, chown and       *)
(* utimens set and which no handler here branches on; disk errors; the     *)
(* inode cache, which for an allocated inode holds what the disk holds;    *)
(* indirect blocks (files and directories have NUM_DIRECT_BLOCKS at most). *)
(* The allocator is seen as a stack of free blocks: the block freed last   *)
(* is handed out first, and freeing a block twice puts it there twice.     *)
(* The kernel has checked a call before it reaches a handler: the parent   *)
(* of a path is a directory or is missing, and a path to rename exists.    *)
(***************************************************************************)
EXTENDS Integers, Sequences, FiniteSets, SequencesExt, FiniteSetsExt

CONSTANTS
    NumInodes,          \* NUM_INODES
    NumBlocks,          \* data blocks for directories and files
    EntriesPerBlock,    \* BLOCK_SIZE / NAMEI_ENTRY_SIZE: entries in a block (64)
    LongNames,          \* names that do not fit in a directory entry
    Path,               \* bound: the paths that calls are made with, each a
                        \*   sequence of names; namei sees no other form
    DirPath, FilePath,  \* bound: the paths mkdir and mknod are called with
    MaxFileBlocks,      \* bound on the blocks of a file
    RenameKinds,        \* bound: which renames are called, see RenameKind
    MaxFreeInodes       \* bound: no rename replaces anything once the counter
                        \*   of free inodes reaches it

ASSUME NamespaceAssumption ==
    /\ NumInodes \in Nat \ {0}
    /\ NumBlocks \in Nat \ {0}
    /\ EntriesPerBlock \in Nat /\ EntriesPerBlock >= 3
    /\ MaxFileBlocks \in Nat
    /\ MaxFreeInodes \in Nat
    /\ DirPath \subseteq Path /\ FilePath \subseteq Path

ASSUME PathAssumption ==
    \A p \in Path : /\ p \in Seq(ToSet(p))
                    /\ p # << >>
                    /\ ToSet(p) \cap {"", ".", ".."} = {}
                    /\ Len(p) > 1 => Front(p) \in Path

Inode == 1..NumInodes
Block == 1..NumBlocks
Root == 1                                    \* ROOT_INODE_NUMBER
Absent == 0                                  \* no inode: namei returns -1

Entry(i, name) == [ino |-> i, name |-> name]

EmptyBlock == [e \in 1..EntriesPerBlock |-> Entry(0, "")]

FreeInode == [type |-> "free", links |-> 0, blocks |-> << >>]

VARIABLES
    fs,     \* the file system: inode (by number: type, links_nb and the blocks
            \*   in file order), dir (the contents of each block as a dir_block),
            \*   free (the free blocks, next one first), numFreeInodes (the
            \*   superblock's counter)
    reply   \* the last handler's answer: "ok" (0), "error" (-1 with errno set)
            \*   or "silent" (-1 with errno left as it was)

vars == <<fs, reply>>

-----------------------------------------------------------------------------
(* Blocks and inodes *)

\* data_block_alloc: the block on top of the stack, zeroed.
AllocBlock(f) ==
    [f EXCEPT !.free = Tail(@), !.dir[Head(f.free)] = EmptyBlock]

HasFreeInode(f) == \E i \in Inode : f.inode[i].type = "free"

\* next_free_inode_number
NextFreeInode(f) == Min({i \in Inode : f.inode[i].type = "free"})

\* Mutant of Ialloc: each of the two commits counts the inode.
IallocTwiceCounted(f) ==
    [f EXCEPT !.inode[NextFreeInode(f)] =
                  [type |-> "ordinary", links |-> 1, blocks |-> << >>],
              !.numFreeInodes = @ - 2]

\* ialloc, which leaves the inode ordinary, with one link.
Ialloc(f) ==
    [f EXCEPT !.inode[NextFreeInode(f)] =
                  [type |-> "ordinary", links |-> 1, blocks |-> << >>],
              !.numFreeInodes = @ - 1]

\* The loop of iput that frees the blocks of copy ino.
FreeBlocksOf(f, ino) ==
    [f EXCEPT !.free = Reverse(ino.blocks) \o @,
              !.dir = [b \in Block |-> IF b \in ToSet(ino.blocks)
                                       THEN EmptyBlock ELSE @[b]]]

\* Mutants of PutInode: a freed inode is not counted, the inode on disk stays as
\* it was, and the loop over the blocks ends one block early.
PutInodeUncounted(f, i, ino) ==
    IF ino.links > 0
    THEN [f EXCEPT !.inode[i] = ino]
    ELSE [FreeBlocksOf(f, ino) EXCEPT !.inode[i] = FreeInode]

PutInodeKept(f, i, ino) ==
    IF ino.links > 0
    THEN [f EXCEPT !.inode[i] = ino]
    ELSE [FreeBlocksOf(f, ino) EXCEPT !.numFreeInodes = @ + 1]

PutInodeShortLoop(f, i, ino) ==
    LET seen == [ino EXCEPT !.blocks = SubSeq(@, 1, Len(@) - 1)]
    IN  IF ino.links > 0
        THEN [f EXCEPT !.inode[i] = ino]
        ELSE [FreeBlocksOf(f, seen) EXCEPT !.inode[i] = FreeInode,
                                           !.numFreeInodes = @ + 1]

\* put_inode of copy ino of inode i.  With no link left iput frees the blocks
\* of the copy and then the inode (ifree).
PutInode(f, i, ino) ==
    IF ino.links > 0
    THEN [f EXCEPT !.inode[i] = ino]
    ELSE [FreeBlocksOf(f, ino) EXCEPT !.inode[i] = FreeInode,
                                      !.numFreeInodes = @ + 1]

-----------------------------------------------------------------------------
(* Directories *)

\* The entries of the directory whose inode copy is ino, by place: <<k, e>> is
\* entry e of its k-th block.
Places(ino) == (1..Len(ino.blocks)) \X (1..EntriesPerBlock)

At(f, ino, place) == f.dir[ino.blocks[place[1]]][place[2]]

\* The first place of a set, in the order in which the code scans them.
First(places) ==
    CHOOSE s \in places : \A t \in places :
        s[1] < t[1] \/ (s[1] = t[1] /\ s[2] <= t[2])

\* check_data_block_for_next_entry over the blocks of directory d.
Lookup(f, d, name) ==
    LET hits == {s \in Places(f.inode[d]) : At(f, f.inode[d], s).name = name}
    IN  IF hits = {} THEN Absent ELSE At(f, f.inode[d], First(hits)).ino

\* namei: from the root, one name after the other.
Resolve(f, path) ==
    LET reached[k \in 0..Len(path)] ==
            IF k = 0 THEN Root
            ELSE LET d == reached[k-1]
                 IN  IF d = Absent THEN Absent ELSE Lookup(f, d, path[k])
    IN  reached[Len(path)]

\* get_parent_inode_id
Parent(f, path) == Resolve(f, Front(path))

\* init_dir_block, written to block b.
InitDirBlock(f, b, self, parent) ==
    [f EXCEPT !.dir[b] = [EmptyBlock EXCEPT ![1] = Entry(self, "."),
                                            ![2] = Entry(parent, "..")]]

\* add_entry_to_parent for the copy ino of the parent: the first gap in the
\* last block, or a new block added to the copy.
AddEntry(f, ino, i, name) ==
    LET last == ino.blocks[Len(ino.blocks)]
        gaps == {e \in 1..EntriesPerBlock : f.dir[last][e].ino = 0}
        new == Head(f.free)
    IN  IF ino.blocks # << >> /\ gaps # {}
        THEN [ok |-> TRUE, ino |-> ino,
              fs |-> [f EXCEPT !.dir[last][Min(gaps)] = Entry(i, name)]]
        ELSE IF f.free # << >>
        THEN [ok |-> TRUE, ino |-> [ino EXCEPT !.blocks = Append(@, new)],
              fs |-> [AllocBlock(f) EXCEPT !.dir[new][1] = Entry(i, name)]]
        ELSE [ok |-> FALSE, ino |-> ino, fs |-> f]

\* Mutant of RemoveEntry: the entry keeps its inode number.
RemoveEntryName(f, ino, i) ==
    LET hits == {s \in Places(ino) : At(f, ino, s).ino = i}
        s == First(hits)
    IN  IF hits = {} THEN [ok |-> FALSE, fs |-> f]
        ELSE [ok |-> TRUE,
              fs |-> [f EXCEPT !.dir[ino.blocks[s[1]]][s[2]].name = ""]]

\* remove_entry_from_parent for the copy ino of the parent: the first entry
\* that names inode i.
RemoveEntry(f, ino, i) ==
    LET hits == {s \in Places(ino) : At(f, ino, s).ino = i}
        s == First(hits)
    IN  IF hits = {} THEN [ok |-> FALSE, fs |-> f]
        ELSE [ok |-> TRUE,
              fs |-> [f EXCEPT !.dir[ino.blocks[s[1]]][s[2]] = Entry(0, "")]]

\* Mutant of IsEmptyDirectory: one place too many is skipped.
IsEmptyAfterThree(f, ino) ==
    \A s \in Places(ino) : (s[1] = 1 /\ s[2] <= 3) \/ At(f, ino, s) = Entry(0, "")

\* The emptiness check of rmdir: every place but the first two is clear.
IsEmptyDirectory(f, ino) ==
    \A s \in Places(ino) : s \in {<<1, 1>>, <<1, 2>>} \/ At(f, ino, s) = Entry(0, "")

-----------------------------------------------------------------------------
(* Handlers *)

Init ==
    \* create_fs; create_root_dir: the root's copy carries the one link ialloc
    \* gave it.
    /\ fs = [inode |-> [i \in Inode |->
                           IF i = Root
                           THEN [type |-> "directory", links |-> 1, blocks |-> <<1>>]
                           ELSE FreeInode],
             dir |-> [b \in Block |->
                         IF b = 1 THEN [EmptyBlock EXCEPT ![1] = Entry(Root, "."),
                                                          ![2] = Entry(Root, "..")]
                                  ELSE EmptyBlock],
             free |-> [k \in 1..NumBlocks - 1 |-> k + 1],
             numFreeInodes |-> NumInodes - 1]
    /\ reply = "ok"

Refuse ==
    /\ reply' = "error"
    /\ UNCHANGED fs

\* The kernel has found the parent of path to be a directory, if it exists.
ParentChecked(path) ==
    LET parent == Parent(fs, path)
    IN  parent # Absent => fs.inode[parent].type = "directory"

\* The checks mkdir and mknod share: EEXIST, ENAMETOOLONG, ENOENT.
CannotCreate(path) ==
    \/ Resolve(fs, path) # Absent
    \/ Last(path) \in LongNames
    \/ Parent(fs, path) = Absent

\* The end of mkdir and mknod: inode i of file system made gets its entry in
\* the directory parent, whose copy was read before.
Enter(made, parent, i, name) ==
    LET added == AddEntry(made, fs.inode[parent], i, name)
    IN  IF added.ok
        THEN /\ fs' = PutInode(added.fs, parent, added.ino)
             /\ reply' = "ok"
        ELSE /\ fs' = made
             /\ reply' = "silent"

\* syscalls1__mkdir
Mkdir(path) ==
    /\ ParentChecked(path)
    /\ \/ /\ CannotCreate(path) \/ fs.free = << >>
          /\ Refuse
       \/ \* ialloc fails: the block stays allocated.
          /\ ~ CannotCreate(path)
          /\ fs.free # << >>
          /\ ~ HasFreeInode(fs)
          /\ fs' = AllocBlock(fs)
          /\ reply' = "error"
       \/ /\ ~ CannotCreate(path)
          /\ fs.free # << >>
          /\ HasFreeInode(fs)
          /\ LET parent == Parent(fs, path)
                 b == Head(fs.free)
                 i == NextFreeInode(fs)
                 formatted == InitDirBlock(Ialloc(AllocBlock(fs)), b, i, parent)
                 made == PutInode(formatted, i,
                                  [type |-> "directory", links |-> 1, blocks |-> <<b>>])
             IN  Enter(made, parent, i, Last(path))

\* syscalls1__mknod
Mknod(path) ==
    /\ ParentChecked(path)
    /\ \/ /\ CannotCreate(path) \/ ~ HasFreeInode(fs)
          /\ Refuse
       \/ /\ ~ CannotCreate(path)
          /\ HasFreeInode(fs)
          /\ Enter(Ialloc(fs), Parent(fs, path), NextFreeInode(fs), Last(path))

\* The part that unlink and rmdir share: free inode i, then remove its entry
\* from the parent of path.
Drop(f, path, i) ==
    LET freed == PutInode(f, i, [f.inode[i] EXCEPT !.links = 0])
        parent == Parent(freed, path)
        removed == RemoveEntry(freed, freed.inode[parent], i)
    IN  IF removed.ok
        THEN [ok |-> TRUE,
              fs |-> PutInode(removed.fs, parent, freed.inode[parent])]
        ELSE [ok |-> FALSE, fs |-> freed]

Dropped(path) ==
    LET dropped == Drop(fs, path, Resolve(fs, path))
    IN  /\ fs' = dropped.fs
        /\ reply' = IF dropped.ok THEN "ok" ELSE "silent"

\* syscalls1__unlink
Unlink(path) ==
    LET i == Resolve(fs, path)
    IN  /\ ParentChecked(path)
        /\ \/ /\ i = Absent
              /\ Refuse
           \/ /\ i # Absent
              /\ fs.inode[i].type # "ordinary"
              /\ reply' = "silent"
              /\ UNCHANGED fs
           \/ /\ i # Absent
              /\ fs.inode[i].type = "ordinary"
              /\ Dropped(path)

\* syscalls1__rmdir: ENOENT, ENOTDIR and ENOTEMPTY, or the directory goes.
Rmdir(path) ==
    LET i == Resolve(fs, path)
        removable == /\ i # Absent
                     /\ fs.inode[i].type = "directory"
                     /\ IsEmptyDirectory(fs, fs.inode[i])
    IN  /\ ParentChecked(path)
        /\ \/ ~ removable /\ Refuse
           \/ removable /\ Dropped(path)

\* What a path names: nothing, a file, which may have no block, or a directory,
\* which may be full.
What(path) ==
    LET i == Resolve(fs, path)
    IN  IF i = Absent THEN "nothing"
        ELSE IF fs.inode[i].type = "directory" /\ ~ IsEmptyDirectory(fs, fs.inode[i])
        THEN "fullDirectory"
        ELSE IF fs.inode[i].type = "ordinary" /\ fs.inode[i].blocks = << >>
        THEN "emptyFile"
        ELSE fs.inode[i].type

\* What a rename renames, what it replaces, and whether it stays in a directory.
RenameKind(old, new) ==
    [what |-> What(old), onto |-> What(new), within |-> Parent(fs, old) = Parent(fs, new)]

\* syscalls1__rename, once the target of new, if any, is gone: f is the file
\* system then.  Both parents are read before either is written.
RenameInto(f, old, new) ==
    LET i == Resolve(f, old)
        newParent == Parent(f, new)
        oldParent == Parent(f, old)
        added == AddEntry(f, f.inode[newParent], i, Last(new))
        put == PutInode(added.fs, newParent, added.ino)
        removed == RemoveEntry(put, f.inode[oldParent], i)
    IN  IF ~ added.ok
        THEN fs' = f /\ reply' = "silent"
        ELSE IF ~ removed.ok
        THEN fs' = put /\ reply' = "silent"
        ELSE /\ fs' = PutInode(removed.fs, oldParent, f.inode[oldParent])
             /\ reply' = "ok"

\* The removal of the target of new, by unlink or rmdir and then by put_inode
\* of the copy once more; then the rename.
RenameOnto(old, new) ==
    LET target == Resolve(fs, new)
        dropped == Drop(fs, new, target)
    IN  \/ /\ ~ dropped.ok
           /\ fs' = dropped.fs
           /\ reply' = "silent"
        \/ /\ dropped.ok
           /\ RenameInto(PutInode(dropped.fs, target, [fs.inode[target] EXCEPT !.links = 0]),
                         old, new)

\* syscalls1__rename.  The kernel looks up both parents and the old path, and
\* refuses to replace a path by itself and to move a directory into itself.
Rename(old, new) ==
    /\ Resolve(fs, old) \notin {Absent, Resolve(fs, new)}
    /\ ParentChecked(old)
    /\ Parent(fs, new) # Absent
    /\ ParentChecked(new)
    /\ ~ IsPrefix(old, new)
    /\ RenameKind(old, new) \in RenameKinds
    /\ \/ /\ Last(new) \in LongNames \/ What(new) = "fullDirectory"
          /\ Refuse
       \/ /\ What(new) = "nothing"
          /\ Last(new) \notin LongNames
          /\ RenameInto(fs, old, new)
       \/ /\ What(new) \in {"emptyFile", "ordinary", "directory"}
          /\ fs.numFreeInodes < MaxFreeInodes
          /\ RenameOnto(old, new)

\* The part of pwrite that the name space sees: a file gets one more block.
Extend(path) ==
    LET i == Resolve(fs, path)
    IN  /\ ParentChecked(path)
        /\ i # Absent
        /\ fs.inode[i].type = "ordinary"
        /\ Len(fs.inode[i].blocks) < MaxFileBlocks
        /\ \/ /\ fs.free = << >>
              /\ Refuse
           \/ /\ fs.free # << >>
              /\ fs' = PutInode(AllocBlock(fs), i,
                           [fs.inode[i] EXCEPT !.blocks = Append(@, Head(fs.free))])
              /\ reply' = "ok"

Next ==
    \/ \E path \in DirPath : Mkdir(path)
    \/ \E path \in FilePath : Mknod(path)
    \/ \E path \in Path : \/ Unlink(path)
                          \/ Rmdir(path)
                          \/ Extend(path)
    \/ \E old, new \in Path : Rename(old, new)

Spec == Init /\ [][Next]_vars

\* The tree of names that file system f stands for: the type of each path that
\* leads to an inode.
TreeOf(f) ==
    [p \in {q \in Path : Resolve(f, q) # Absent} |-> f.inode[Resolve(f, p)].type]

-----------------------------------------------------------------------------
(* Properties *)

Allocated == {i \in Inode : fs.inode[i].type # "free"}

Directories == {d \in Allocated : fs.inode[d].type = "directory"}

\* The places of directory d but those of "." and "..".
ChildPlaces(d) == Places(fs.inode[d]) \ {<<1, 1>>, <<1, 2>>}

\* The entries in use, other than "." and "..", as <<directory, place>>.
Children ==
    {c \in UNION {{d} \X ChildPlaces(d) : d \in Directories} :
        At(fs, fs.inode[c[1]], c[2]).ino # 0}

ChildOf(c) == At(fs, fs.inode[c[1]], c[2])

\* Types of the state; the unsigned counter of free inodes does not wrap.
TypeOK ==
    /\ \A i \in Inode : /\ fs.inode[i].type \in {"ordinary", "directory", "free"}
                        /\ fs.inode[i].links \in {0, 1}
                        /\ ToSet(fs.inode[i].blocks) \subseteq Block
    /\ \A b \in Block, e \in 1..EntriesPerBlock : fs.dir[b][e].ino \in 0..NumInodes
    /\ ToSet(fs.free) \subseteq Block
    /\ fs.numFreeInodes \in Nat
    /\ reply \in {"ok", "error", "silent"}

\* Whatever calls were made, and whichever failed half way: no data block is in
\* two files or directories, twice in one, both in use and free, or free twice.
BlocksUsedOnce ==
    /\ IsInjective(fs.free)
    /\ \A i \in Allocated :
          /\ IsInjective(fs.inode[i].blocks)
          /\ ToSet(fs.inode[i].blocks) \cap ToSet(fs.free) = {}
          /\ \A j \in Allocated \ {i} :
                ToSet(fs.inode[i].blocks) \cap ToSet(fs.inode[j].blocks) = {}

\* "add entries for '.' and '..'": a directory's own entries name the directory
\* itself and the directory that holds its entry.  (mkdir makes them; a rename that
\* moves the directory to another one leaves its ".." as it was.)
DotEntriesSound ==
    /\ \A d \in Directories : At(fs, fs.inode[d], <<1, 1>>) = Entry(d, ".")
    /\ \A c \in Children :
          ChildOf(c).ino \in Directories =>
              At(fs, fs.inode[ChildOf(c).ino], <<1, 2>>) = Entry(c[1], "..")

\* As long as no directory moves to another one, the entries say where every
\* inode is: an entry names an allocated inode other than the root, no inode has
\* two entries and no directory two equal names, and "." and ".." are right.
EntriesSound ==
    /\ DotEntriesSound
    /\ \A c \in Children :
          /\ ChildOf(c).ino \in Allocated \ {Root}
          /\ \A d \in Children \ {c} :
                /\ ChildOf(c).ino # ChildOf(d).ino
                /\ c[1] = d[1] => ChildOf(c).name # ChildOf(d).name

\* superblock.num_free_inodes is the number of free inodes: ialloc decreases
\* the "count of number of free inodes in the file system", ifree increases it.
FreeInodeCountExact == fs.numFreeInodes = NumInodes - Cardinality(Allocated)

NumFree(f) == Cardinality({i \in Inode : f.inode[i].type = "free"})

\* Every call, however far it gets before it fails, changes the counter by as much
\* as the number of free inodes; but for a rename that replaces what has the new
\* name.
CountFollows ==
    [][ \/ fs'.numFreeInodes - fs.numFreeInodes = NumFree(fs') - NumFree(fs)
        \/ \E old, new \in Path : Resolve(fs, new) # Absent /\ Rename(old, new) ]_vars

\* The inodes that some entry names, and the inodes and blocks that are free or
\* belong to one of those: all others can never be used again.
Named == {Root} \cup {ChildOf(c).ino : c \in Children}

UsableInodes == Named \cup (Inode \ Allocated)

UsableBlocks ==
    ToSet(fs.free) \cup UNION {ToSet(fs.inode[i].blocks) : i \in Named}

\* A call that succeeds loses neither an inode nor a block, whatever it
\* created, removed, moved or extended.
SuccessLosesNothing ==
    [][ reply' = "ok" => /\ UsableInodes \subseteq UsableInodes'
                         /\ UsableBlocks \subseteq UsableBlocks' ]_vars

\* "Remove entry from old parent inode": after a rename that succeeds the inode
\* has the new path and the old path is gone.
RenameMoves ==
    [][ \A old, new \in Path :
          (Rename(old, new) /\ reply' = "ok") =>
              /\ Resolve(fs', new) = Resolve(fs, old)
              /\ Resolve(fs', old) = Absent ]_vars

=============================================================================
