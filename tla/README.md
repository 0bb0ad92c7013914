# FSTR in TLA+

Specifications of FSTR, the user space file system in this repository
(`src/src/`, C over FUSE), checked with TLC and proved with TLAPS. `PROJECT.json`
maps every definition to the source lines it stands for.

## 1. The system

| Component | State | Operations | Used by |
|---|---|---|---|
| FUSE bridge (`fstr.c`) | none | one function per file system call, `-errno` on failure | the kernel |
| name space calls (`syscalls1.c`) | none of its own | mkdir, mknod, unlink, rmdir, rename, readdir, lstat, chmod, chown, utimens | bridge |
| open files (`syscalls2.c`) | a descriptor table per process | open, close, pread, pwrite | bridge |
| path lookup, directories (`namei.c`, `common.c`) | directory blocks | namei, init_dir_block, add/remove entry | calls |
| inode table (`inode_table.c`) | up to 1023 cached inodes in the order of last use | get_inode, put_inode | calls, lookup |
| inode handler (`inodes_handler.c`) | inode blocks, `num_free_inodes` | iget, iput, ialloc, ifree | inode table, calls |
| block map (`block_utils.c`) | direct and indirect blocks of an inode | get_block_id, set_block_id | calls, lookup, iput |
| block allocator (`data_blocks_handler.c`) | the chain of list blocks on disk, `num_free_blocks` | data_block_alloc, data_block_free, bread, bwrite | calls, block map, iput |
| mkfs (`mkfs.c`) | none | create_fs, at every start of the program | `main` |
| disk (`disk_emulator.c`) | one file descriptor | read_block, write_block | everything |

Components call each other directly and share the superblock, a global
variable. A handler copies inodes out of the table, works on the copies and
puts them back: two copies of one inode in one handler, or in two, can overwrite
each other. Nothing is locked. Since `create_fs` formats the disk at every start
(`fstr.c:148`), nothing survives a restart and there is no recovery to specify.

What is hard here, and what makes each component correct:

* **allocator**: a block is at every time exactly one of listed, in the chain of
  lists, in use, or lost to a disk error. Free blocks become list blocks and the
  reverse. The lists must never name a used block, name one twice, form a
  cycle, or hide a free block; a new block must read as zeros.
* **name space**: several blocks and inodes change in one call, and calls fail
  half way for want of a block or an inode. No block is used twice, the
  directories stay a tree, the counter follows the inodes, failing calls change no path
  (several kinds of rename break these, see section 4).
* **inode table**: an inode reads as it was last put, although ialloc and ifree
  go around the cache, freed inodes stay in it, and old entries are pruned.
* **block map**: what was set at an index is read there, and freeing a file
  frees the indirect blocks too (it does not).
* **open files and file data**: a descriptor leads to the file it was opened on,
  however tables grow and entries are used again;
  a read returns what was written, and nothing past the end; every loop ends.
* **threads**: FUSE runs handlers concurrently; none of the above is protected.

`PROJECT.json` lists each of these hazards at its line.

## 2. Modules

| Module | Models | Lines of the code |
|---|---|---|
| `BlockPool` | what the allocator promises | abstract |
| `FreeBlocks` | the allocator over the disk that mkfs lays out | `data_blocks_handler.c`, `mkfs.c:36-126` |
| `FreeBlocks_proofs` | theorems about `FreeBlocks` | |
| `NatFacts` | lemmas about numbers that several proofs cite: least elements, induction over an interval, recursion, division | |
| `DirTree` | what the name space promises | abstract |
| `Namespace` | the handlers of `syscalls1.c` over inodes and directory blocks | `syscalls1.c`, `common.c`, `namei.c`, `inodes_handler.c` |
| `Namespace_proofs` | theorems about `Namespace` | |
| `NamespaceTree` | `Namespace` with the tree it stands for as a history variable | |
| `BlockMap` | the direct and indirect blocks of one file under pwrite and iput | `block_utils.c`, `syscalls2.c:280-510`, `inodes_handler.c:30-47` |
| `BlockMap_proofs` | theorems about `BlockMap` | |
| `FlatFile` | what pread and pwrite promise | abstract |
| `FileIO` | the loops of pread and pwrite over the blocks of files, step by step, of several threads | `syscalls2.c:181-186, 279-510`, `data_blocks_handler.c:88-144` |
| `FileIO_proofs` | theorems about `FileIO`, whatever threads there are | |
| `FlatFile_proofs` | theorems about `FileIO` when calls do not overlap: files keep what is written, and `FlatFile` is implemented | |
| `InodeStore` | what the inode table promises | abstract |
| `InodeTable` | the inodes on disk behind the cache | `inode_table.c`, `inodes_handler.c` |
| `InodeTable_proofs` | theorems about `InodeTable` | |
| `OpenFiles` | the descriptor tables, and every system call's use of one inode, over `InodeTable` | `syscalls2.c:34-277, 323-510`, `syscalls1.c`, `fstr.c` |
| `OpenFiles_proofs` | theorems about `OpenFiles` | |
| `MCFreeBlocks`, `MCNamespace`, `MCNamespaceTree`, `MCFileIO`, `MCOpenFiles` | the instances TLC checks | |

### FreeBlocks

`disk` holds the data blocks, each read as `struct block_id_list`: position 1 is
the id of the next list block, the other positions name free blocks or hold 0.
`numFree` is `superblock.num_free_blocks`. `owned` and `lost` are history: the
blocks that callers hold, and those that left the lists in a call that a disk
error ended. The actions of data_block_alloc are `AllocListed` (a slot of the
head), `AllocListBlock` (the head is empty: the next list block, after its
contents moved to the head), `AllocFull` and `AllocDiskError`; `HandOut` is the
common end, with the zeroing write that may fail. `Free` is data_block_free in its two cases,
`FreeAsListBlock` and `FreeIntoSlot`, over `WriteBoth`, the two writes of which
either may fail. Its callers (iput) go on after a failure, so a block whose free
failed is lost. `OwnerWrite` is bwrite by an owner.

`Records(n, s)` is what the lists must be at every moment: `s[0] .. s[n]` is the
chain of list blocks, it has no cycle, and its members and the ids in its slots
are exactly the free blocks, each once. `FreeListSound` states it for the chain
as one walks it on disk.

`Pool`, the instance of `BlockPool` with `free <- FreeBlock`, is the refinement:
`FreeBlock` is the set of blocks neither owned nor lost, with no word of the
lists; that an allocation returns a block of it, and that "full" means it is
empty, is what the lists have to achieve.

### Namespace

`fs` is the file system: `inode` (type, links and blocks of every inode), `dir`
(the entries in every block, as `struct dir_block`), `free` (the free blocks)
and `numFreeInodes` (the superblock's counter). `reply` tells how the last
handler answered: `"ok"`, `"error"` (-1 with errno set) or `"silent"` (-1 with errno
as it was; the bridge then returns whatever errno holds, which may be 0).

One action per handler: `Mkdir`, `Mknod`, `Unlink`, `Rmdir`, `Rename`, and `Extend`, which
is the part of pwrite that the name space sees. A handler is one step. Within
it operators such as `PutInode`, `AddEntry` and `RemoveEntry` take a file system
and the copy of an inode and return a file system, in the order of the code, so
stale copies and half-done calls come out as they do there: mkdir leaks its
block when no inode is free; mkdir and mknod leave an inode without an entry when
the parent has no room; rename reads both parents before it writes one.

Its allocator is a stack of free blocks. `FreeBlocks` justifies this: what
callers may rely on is `BlockPool`, and the stack is one of its behaviours that
also keeps what a second free of one block does (the block is listed twice). The
kernel has walked the path before a handler runs (`ParentChecked`, and the first
lines of `Rename`): FUSE looks every component up with getattr.

Several kinds of rename do not do what they should, so `RenameKinds`, a bound, says which kinds a
run calls: what is renamed, what it replaces (`What`: nothing, a file with or without
a block, a directory, empty or not), and whether it stays in its directory.

`BlocksUsedOnce` and `EntriesSound` are what a half-done handler or a removal by inode number
would break. `DotEntriesSound`, the part of `EntriesSound` about "." and "..", is checked
by itself where directories move. `CountFollows` compares the superblock's counter with the inodes step by
step, and leaves out the renames that replace something, which count one too many;
`FreeInodeCountExact` is the same for states, and does not hold once one of these was called.
`SuccessLosesNothing` follows every inode and block through a call that answers 0.

`DirTree` is the promise: calls create, delete and move paths, and a call that
fails changes none. With the renames of the run `namespace` the code keeps it but for one
exception, which `DirTree` names:
`LoseTarget`. A rename removes its target first and looks for room later, so when
the directory's last block is full and no block is free the call fails and the
target is gone. TLC evaluates a mapping under a prime slowly, so
`NamespaceTree` carries the mapped tree as the history variable `tree`.

### BlockMap

One file: `inode` as it was put last, `list` the contents of every block read as a
list of ids, `free` the free blocks (`data_block_alloc` as in `BlockPool`, taking the
lowest). `GetBlockId` and `SetBlockId` are get_block_id and set_block_id, level
by level; `WithTop` and `WithList` are the allocations on the way down. `Write` is
pwrite on whole blocks, one `WriteBlock` per turn of its loop. It works on a
record of the inode's copy (`ino`) and the disk, which differ in one point: when
the loop fails, the disk keeps what was done and the copy is dropped.
`Remove` is the last iput: it walks the indices below `num_blocks`.

`MapIsTree` compares all pointers reachable from the inode with each other and
with `free`. It is what would fail if a block entered the map before it left the
free blocks, or if a failed write left half of its work where the next finds it.

### FileIO

The handlers of read and write, as steps of the threads of the FUSE loop. A call
begins, takes its copy of the inode, turns in its loop once per block, and ends,
where it puts the copy back; steps of threads interleave. `loc[t]` holds the locals:
the copy (`ino`), the block it is at (`pos`), the place in it (`at`), and the bytes to go
(`rest`). A turn of pwrite over a hole is two steps, `AllocRead` and `AllocWrite`,
because data_block_alloc reads the head of the free lists and writes it back.
`Begin` is the kernel's: it lets one write at a time into a file.

`written` is history: the size and bytes that the writes which returned should have
made. `WrittenStays` compares it with blocks and inodes whenever no call is under way.
`TurnsFit` is about the copies in between: the code subtracts the offset in the last block
from the end of the file without a sign (`syscalls2.c:375`), so an offset behind
the end would copy far beyond the block.
In `MCFileIO` it is also what `FlatFile` is instantiated with. `FlatFile` has
a file as a row of bytes, and calls that take effect when they return. Where
the code does otherwise the abstract module names it: `ReadOn` (the last block is
exactly full, and a read goes on past the end: `syscalls2.c:370` compares an offset within the
block with 4096), `ReadNothing` (the size does not fit the `int` of
`get_size_of_file`), a write of no bytes past the end, which moves the end, and
`WriteFails`, after which some of the bytes are in the file.

### InodeTable and OpenFiles

`InodeTable` has the inodes on `disk`, the copies `cached`, and the order of the
cache as a relation (`older`). A copy is its type, its links and `data`, which stands for all
other fields. An action is what a handler does with one inode, from get_inode to
put_inode. A handler of the code is a series of such actions on several inodes. `live` and
`unsure` are history: the inodes that names lead to, and those where a disk
error ended the last write or free half way. ialloc and ifree write the disk and
leave the cache as it is (`CreatePutFails`, `AllocCommitFails`, `RemoveCommitFails`, and
`Remove`, after which the cache keeps the freed inode without links).

`Coherent` says why that works: what the cache has of an inode that a name leads to
is what the disk has. `InodeStore` is the promise: `Content`, what get_inode
answers for each of these inodes, changes by puts, creations and removals only.

`OpenFiles` extends it by `table`, the descriptor table of each process, and `held`, the
descriptors that the kernel keeps (`fi->fh`), with the mode and inode they were opened
for. Tables start with 8 entries, three of them taken, double when they are
full, and are deleted with their last entry. The code looks a descriptor up in the
table of the process that calls, which need not be the one that opened the file.
`Close` is called by the last process that has the file. When that is
another one, the code closes nothing, or an entry of the caller's. `loose`
names the entries that come apart in this way, and the ones that `OpenRefused` (O_APPEND for
reading) leaves behind, whose inode number is whatever the memory held. All
other entries must match: `HeldLeadsToFile`, `EntriesAccounted`.

Between the modules: `OpenFiles!Pread` and `Pwrite` end in the put of the inode whose copy
`FileIO` computes; `FileIO` takes blocks as `BlockPool` promises them, and maps them as
`BlockMap` does, in one table.

## 3. Runs

| Run | Instance | Shows |
|---|---|---|
| `free_blocks` | 5 data blocks, 3 ids to a block | all allocator properties and the refinement of `BlockPool` |
| `free_blocks_count` | the same | **violation** of `CountMatchesList` |
| `namespace` | 6 inodes, 3 blocks of 3 entries, 6 paths, files of one block, renames of a file to another directory, also onto a file without a block | all name space properties and the refinement of `DirTree` |
| `namespace_replace` | 4 inodes, 4 blocks of 3 entries, 6 paths, renames that replace a file with a block | **violation** of `FreeInodeCountExact` |
| `namespace_rename_within` | the same, renames within a directory | **violation** of `RenameMoves` |
| `namespace_move_directory` | the same, renames of a directory into another one | **violation** of `DotEntriesSound` |
| `block_map` | 5 blocks, 1 direct, 2 ids to a list, writes of 1 or 2 blocks | the map stays a tree, writes keep it and lose nothing |
| `block_map_remove` | the same | **violation** of `RemoveFreesAll` |
| `block_map_end` | the same | **violation** of `NothingPastEnd` |
| `file_io` | 1 thread, 2 files, 2 blocks of 2 bytes, 3 indices, an int up to 4 | reads and writes as `FlatFile`, writes stay, turns fit their block, every call ends |
| `file_race` | 2 threads, 1 file, 2 blocks of 2 bytes | **violation** of `WrittenStays` |
| `open_files` | 2 processes, 3 inodes, a cache of 2, tables of 4 entries, at most 2 used | descriptors lead to files, the cache is coherent and ordered, `InodeStore` is implemented |

Bounds and why they are enough:

* `free_blocks`: with three ids to a block and five data blocks mkfs makes two
  list blocks, the second not full. Blocks turn from data to list blocks and
  back, the disk fills up, and errors lose blocks. The chain has at most one block beyond
  the head; that longer ones behave alike is what the proofs add. `MaxCount` stops frees when the counter has drifted to 5; only the
  counter depends on it. The proofs cover every geometry.
* `namespace`: three entries to a block is the least that has room beside `.` and `..`. A root
  of two full blocks and a second directory are the least in which a rename removes
  its target and then finds no room; they take all three blocks, and inodes run out as well,
  so every failing branch is taken. `MaxFileBlocks` keeps files to one block. mkdir is called
  with two paths, one of them within the other. `MaxFreeInodes` bounds the counter, which grows by one
  with every replacement (see the findings): none is called once it is 1. The names that are not
  the directory's are symmetric: no constant and no property tells them apart. States are
  compared by `fs` only (`VIEW`): no handler reads `reply`, and `tree` is a function of `fs`, so two
  states with one `fs` have the same successors. The properties of steps are evaluated on
  every step that TLC generates, with the reply of that step.
* `block_map`: with two ids to a list the map has 15 indices on four levels, each
  with a first and a last index and, from the double level on, two lists. One
  index behind the triple block takes four blocks, so five let a second one
  share its lists or run out half way down. Writes of two blocks cross
  every border between levels, and the end of the map.
* `RenameKinds`: in the passing run a file, with or without a block, goes to another directory, onto
  nothing or onto a file without a block. That last one is not sound either: the
  counter of free inodes goes up twice, which `CountFollows` leaves out and `namespace_replace`
  is about; what else the properties say still holds after it. With a block it does
  not: the block is freed twice too, two of the next directories would share it, and
  `BlocksUsedOnce` and the refinement would break. Renames onto an empty directory free its
  block twice in the same way. Renames within a directory and of directories
  have violation runs of their own.
* `file_io`: two bytes to a block are a first and a last one. The offsets and
  lengths start and end calls at, before and behind every border of a block, leave holes, run over
  the end of the map, and need more blocks than there are. A file of three blocks is longer than
  `IntMax` = 4, and wraps to a negative size. One byte value is enough to tell it
  from zero; the blocks hold that value at the start, so that one that is not
  zeroed shows. One thread: what two do to a file is `file_race`. That
  `TurnsFit` holds with several threads is a theorem (`TurnsStayInBlock`) and not seen by this run.
* `open_files`: `MaxCache` = 3 means two entries, so the third inode prunes the cache. Tables of four
  entries have one free at first, so the second open grows the table.
  One access mode, because modes are only compared. An unset inode number may be 2, that of a file
  (`Leftover`). `MaxEntries` bounds the
  entries in use and left over together. The processes are symmetric; the state properties and the
  two properties of steps do not tell them apart. The proofs cover every number of each.

Deadlock is checked in every run. Fairness is assumed in `FileIO` only: weak fairness of each
thread's `Step`. A handler neither waits nor takes a lock, and the kernel schedules
its thread, so a step that it can take it takes. Nothing makes calls begin. `CallsEnd` is
what follows: the loops run out of bytes or meet the end of the file. In
the other modules every call ends in the step that starts it, and no liveness is claimed.

## 4. What the code does not keep

1. `num_free_blocks` drifts (`free_blocks_count`). A block that becomes a list
   block is counted as free, and a list block handed out is not counted as
   used. `tests/test_mkfs.c:81` asserts equality right after mkfs. The drift is one
   way: the counter is never below the number of listed blocks
   (`CounterNeverWraps`), so it does not wrap.
2. Replacing rename frees the target's inode and blocks twice (`namespace_replace`): the
   counter of inodes goes up by two, and a block of the target is listed as free twice, so
   that two files or directories can be given it.
3. Rename within a directory (`namespace_rename_within`): removal goes by inode
   number, and a stale copy of the directory is written over the new one.
4. A directory that is renamed into another one keeps the old one as its `..`
   (`namespace_move_directory`). The removal of entries goes by inode number and starts at the
   dot entries (`common.c:94`), so a later removal of that old parent from within the moved
   directory could take the stale `..` for its entry.
5. iput frees the data blocks of a file and none of its indirect blocks
   (`block_map_remove`).
6. A pwrite that fails half way drops its copy of the inode. Blocks it entered into an
   existing indirect block stay in the map, past the end of the file, and
   iput does not reach them (`block_map_end`). Blocks under a new indirect block are
   lost.
7. A pread that overlaps a pwrite of the same file puts its old copy of the inode
   back (`file_race`): the write has returned, and its bytes are gone.

Seen in the code, without a run: add_entry_to_parent looks for room in the last
block of a directory only, so gaps before it are never filled; utimens adds times instead of setting them. The
exceptions that `FlatFile` names, and `loose` in `OpenFiles`, are what the passing runs
allow the code.

## 5. Proofs

`FreeBlocks_proofs` proves for every geometry that satisfies `GeometryAssumption`
(at least one data block, at least two ids to a block) and every old content of
the disk:

| Theorem | Statement |
|---|---|
| `FreeListInvariant` | `Spec => []IInv` |
| `TypeCorrect` | `Spec => []TypeOK` |
| `AllocFresh` | `Spec => []AllocIsFresh` |
| `FullOnlyWhenUsed` | `Spec => []FullMeansUsed` |
| `DataKept` | `Spec => OwnersKeepTheirData` |
| `ImplementsPool` | `Spec => PoolSpec` |
| `FreeListIsSound` | `Spec => []FreeListSound` |
| `CounterSound` | `Spec => []CounterNeverWraps` |

None of the properties is inductive. From "the head names a free block" alone
nothing follows about the block that becomes the head when it runs empty. The
invariant `IInv` is type correctness, that no block is both owned and lost, and
that some `n` and `s` satisfy `Records(n, s)` and `Counted(n, s)`. Quantifying over the chain, instead
of computing it, is what makes the steps go through without induction: each
gives the new chain from the old one. Freeing into a full head inserts the block
after `s[0]`; allocating a list block drops `s[1]`; the other steps keep it. The
initial chain is `Head .. Head + NumLists - 1`, and that the fill loop of mkfs
numbers every other data block exactly once is lemmas `StartCounts`,
`IdAtInjective`, `IdAtOnto` and `IdAtRange`, about division and rounding.
`FreeListUndisturbed` says that a write to a block off the chain keeps `Records`. The
refinement uses it for owners' writes and failed calls.

`FreeListSound` and `CounterNeverWraps` speak of the chain as one walks it on disk, a
recursive function. The library's induction theorems take an operator, which the installed
provers cannot instantiate; `NatFacts` states induction over an interval for a set of
numbers instead (`IntervalInduction`: its complement would have a least member),
and from it that a function defined by recursion exists and satisfies its equation
(`RecursionExists`). With these the walk is total (`WalkRecursion`), it agrees with `s`
turn by turn (`WalkIsChain`), and `s` has at most as many members as there are blocks, being injective
(`ChainFits`), so the walk reaches its end. `Counted` is part of the invariant
because only an allocation from a slot decrements the counter, and what it is
compared with, a cardinality, changes by one id in such a step and stays as it is when a list block is taken.

`InodeTable_proofs` proves for every number of inodes, size of the cache and kind of
data (`TableAssumption`):

| Theorem | Statement |
|---|---|
| `TableInvariant` | `TableSpec => []TableInv` |
| `CacheCoherent` | `TableSpec => []Coherent` |
| `CacheKeepsOrder` | `TableSpec => []CacheOrdered` |
| `AllocFresh` | `TableSpec => CreateIsFresh` |
| `TableImplementsStore` | `TableSpec => ImplementsStore` |

`TableInv` is types and `Coherent`, which is inductive with them: every action changes
the cache by a put or a get, which leave of every other inode what was there, or nothing
(`PutInCacheLeaves`, `LookedLeaves`), and ialloc takes an inode that is free
on disk, hence none that is coherent and in use. Which entry pruning takes does not matter to coherence;
`CacheKeepsOrder` adds that there is one. A finite set with a total order has a first
(`HasFirst`): of its sets of predecessors, one is smallest. The refinement
maps every action to a put, a creation, a removal or a stutter of
`InodeStore`, from `Content` before and after it (`HoldingContent`, `WithoutContent`, `SameContent`).

`OpenFiles_proofs` proves for every set of processes and size of a new table
(`OpenAssumption`):

| Theorem | Statement |
|---|---|
| `OpenFilesOnTable` | `Spec => TableSpec`, and with it the four properties above |
| `OpenFilesTypeCorrect` | `Spec => []TypeOK` |
| `DescriptorsLeadToFiles` | `Spec => []HeldLeadsToFile` |
| `EntriesAreAccounted` | `Spec => []EntriesAccounted` |

`OpenInv` is the inductive invariant: tables within their size with an exact count, entries that
the kernel or `loose` accounts for, and `HeldLeadsToFile`. The count is needed for descriptors too:
a close deletes the table at a count of three, and must not take another's entry along
(`CloseTakesEntry`). `EntriesAccounted` excuses what `loose` names: an open refused for O_APPEND does keep an entry that
nobody will give back. What the theorem says of these is that there are no others, and that
they are counted. Its counterpart `OpenAddsEntry` rests on the entry that open
takes not being in use (`AvailableFree`). `MaxEntries` is not used: the proofs hold without the bound.

`FileIO_proofs` proves for every number of threads and files, size of a block, of the
block map and of an int (`FileAssumption`):

| Theorem | Statement |
|---|---|
| `FileInvariant` | `Spec => []FileInv` |
| `FileTypeCorrect` | `Spec => []TypeOK` |
| `TurnsStayInBlock` | `Spec => []TurnsFit` |

`FileInv` types the locals too, the copy of the inode among them, and says where a pread is between
two turns (`ReadLoop`): in the last block it is not behind the end of the file, and after
its first turn it is at the start of a block, at the end, or done. The second part is needed because the
code subtracts the offset in the block in the first turn only. The first one starts with the check
of the offset against the size: an int that wrapped is below the number it was made from
(`ToIntBelow`), so a size beyond 2 GB makes the check stricter, never weaker. Both
are about the thread's own copy of the inode, hence hold whatever other threads put
(`StepFrame`): the races of `file_race` lose data, but move no copy out of its block.

`FlatFile_proofs` proves, under the same `FileAssumption`:

| Theorem | Statement, if `OneThread` |
|---|---|
| `WritesStay` | `Spec => []WrittenStays` |
| `ImplementsFlat` | `Spec => ImplementsFlatFile` |

`OneThread` says that one thread serves all calls, so that they do not overlap. It cannot be
dropped: with two threads a pread puts an old copy of the inode over that of a finished
pwrite, and two pwrites take the same free block (`file_race` has a behaviour that breaks
`WrittenStays`). Sizes of blocks, map, files and ints, and the calls, are not restricted.

Between two calls the inodes and the blocks are what `written` says (`Settled`). During a
pwrite they are not: its copy of the inode has blocks that no inode has, blocks of the file
hold bytes of a write that has not returned, and the end of the copy moves with
each new block and is set right at the end only. `Kept` is the invariant that holds then
too. It puts the copy of the write under way in the place of its inode (`Live`) and says:

- no block is in two places of those maps, and none of them is free (`Disjoint`), so a turn of the
  loop changes bytes of its own file only;
- the copy has the inode's blocks and the byte of the call at every offset from the start of
  the call to where the loop is (`Reached`, `Touched`), what was written before everywhere
  else, and the file held zeros wherever the inode has no block (`WriteOK`);
- the end of the copy is that of the inode, or the start of the last block that the loop
  has entered, with the loop behind that point (`EndOfCopy`). From this `GrownEnd` derives that the end
  the code computes from `pos` and `at` is the greater of the old size and the end of
  the write: also when the write ends with a block, where the code stores the block before and a full
  last block;
- a pread's buffer holds the bytes of its file from its offset to where the loop is, its copy is the
  inode, and behind the last block that block is full (`ReadOK`).

A write that fails drops its copy, and what it has put into blocks that the file had before
stays there: `written` takes over the call's byte at the offsets of the call where the file now
holds it, and nothing else. That the file then holds just this is a fact about the code,
`FailedBytes`: by `WriteOK` the bytes of the file's own blocks are
the old ones, or within the call's offsets the call's, since a block that only the copy had is no longer in the
file, where there were zeros before. The zeros rest on blocks being zeroed when they
are taken (`FreshBytes`); `OldBlock` is the mutant that drops it.

For the refinement every step that ends a call is a step of `FlatFile`, and the others, the turns of the
loops, are stuttering. Most of it is `Kept` at the end of a call. Three cases are less direct: a pread
that ends past the size must be in a full last block (`FlatReadEnd` is then `ReadOn`); one that
takes its offset for one past the end although it is not must have met a size beyond
`IntMax` (`ToIntSmall`, `ReadNothing`); and a failed write must have put its byte at some
set of its offsets, which is that of the bytes that changed (`FlatWriteFails`).

`BlockMap_proofs` proves for every number of direct blocks, length of a list, size of the
disk and of a write (`MapAssumption`):

| Theorem | Statement |
|---|---|
| `TypesHold` | `Spec => []TypeOK` |
| `MapStaysTree` | `Spec => []MapIsTree` |
| `EndIsMapped` | `Spec => []LastBlockIsMapped` |
| `WritesMoveNothing` | `Spec => WritesKeepBlocks` |
| `WritesKeepAll` | `Spec => WritesLoseNothing` |

`IInv` is `Sound(Start)` (types, no block with two pointers, no block in the map that is
free), that `num_blocks` is at most what the map holds, and `LastBlockIsMapped`. Every one of these
needs the others: a write keeps a pointer only because a block in the map is not handed
out again. A write is not one step but a loop over calls that each
take up to four blocks, so `Sound` is stated for the work in progress (`Work`) and followed
through it: `TakeStep` (a free block is taken, and no pointer leads to it: it is
`Pending`), `LinkStep` (a pointer to a pending block is entered where there was none),
and from these `WithListStep`, `WithTopStep`, `SetSingleStep`, `SetDoubleStep`, `SetTripleStep`,
`SetBlockIdStep`, `WriteBlockStep` in the order in which the code calls. Each also states what
it `Keeps` (no pointer changes or goes), that what was free or in the map stays so or is
pending, and that get_block_id then finds the new block at the index:
the places that set_block_id and get_block_id compute are the same (`PlaceInDouble`,
`PlaceInTriple`). `LoopFacts` is the induction over the turns. A write that fails drops its
copy of the inode and keeps the disk; `OlderPointers` says that an inode with fewer pointers
reaches no more, which is why the state is sound then too.

`Namespace_proofs` proves for every number of inodes and blocks, size of a directory block,
of a file and set of paths (`NamespaceAssumption`, `PathAssumption`: a path is a sequence of
names other than "." and "..", and the path of its parent is one too):

| Theorem | Statement | Assumed of `RenameKinds` |
|---|---|---|
| `NamespaceTyped` | `Spec => []TypeOK` | `SoundRenames` |
| `NoBlockUsedTwice` | `Spec => []BlocksUsedOnce` | `SoundRenames` |
| `DirectoriesAreATree` | `Spec => []EntriesSound` | `SoundRenames` |
| `CounterFollowsInodes` | `Spec => CountFollows` | `SoundRenames` |
| `FreeInodesAreCounted` | `Spec => []FreeInodeCountExact` | `SoundRenames`, `NothingReplaced` |
| `SuccessKeepsEverything` | `Spec => SuccessLosesNothing` | `SoundRenames`, `NoneWithin` |

The theorems are about the renames whose effect they describe, and not about all that the
code can be asked for:

- `SoundRenames`: a rename is refused because its target is a directory that is not empty, or it
  replaces nothing or a file without a block, and a directory gets a new name in
  its own directory only. It leaves out what `namespace_replace` shows (a block freed twice breaks
  `BlocksUsedOnce`) and `namespace_move_directory` (a stale `..` breaks `EntriesSound`).
- `NothingReplaced`: no rename replaces anything. Every replacement adds one to the counter, which
  breaks `FreeInodeCountExact` at once.
- `NoneWithin`: no rename stays within a directory. One that does may lose the inode
  (`namespace_rename_within`), which breaks `SuccessLosesNothing` but not the tree.

Failures are not restricted: of blocks, of inodes, of the entry after the inode is made, of
the entry after the target of a rename is gone.

`IInv` is that `Good(over, fs)` holds for some `over`, and the type of `reply`. `over` is the number of
replacements, by which the counter exceeds the free inodes: only with it is the rest inductive. With
`NothingReplaced` it stays 0 (`ExactInvariant`). `Good` is stated over an arbitrary file system `f`, since a handler goes through several that are no state: types; a free inode is blank
and an inode in use has one link; no block is used twice; the dot entries; a slot without an
inode number is clear; an entry names an inode in use, and the ".." of a directory names the
directory that has its entry; entries are unique; the counter is `over` above the number of free inodes. The properties need
each other: removing the *first* entry with an inode number removes the right one
only because no other has it (`UniqueOK`) and because the parent's ".." names another inode: a directory
is not found below what is in it, for then the path to it would be a cycle (`NotInDots`); and a new entry goes into a gap
of the last block, which is no dot entry only because those hold inodes.

The lemmas follow the pieces the handlers are made of, each from a good file system to
a good one: `StepAlloc`, `StepInitDir`, `StepIalloc`, `StepMakeDir`, `StepAppend`, `StepSetEntry`,
`StepClearEntry`, `StepFree`. The code does not take them in an order that keeps `Good` in
between: unlink and rmdir free the inode while its entry is still there, and rename
gives an inode a second entry before it removes the first. For these the two orders are shown to end
in the same file system (`FreeThenEntry`, `AddThenEntry`, `AllocThenEntry`), and the proof
follows the good one; that the parent is still found after its child is freed is
`ParentKept`. A rename within a directory reads the directory before and after its new entry: if
that is in a gap, either entry may be the one removed, and the result is good both
times (`WithinGap`); if it is in a new block, the old copy of the directory, put back last, drops that
block and the entry (`WithinNew`). A rename onto a file drops it as unlink does, so every other path
leads where it led (`ResolveWithout`), and the second free of the blank inode changes nothing but the
counter (`CountedAgain`). `Resolve` is a recursive function over a path; `ResolveFacts` says where it leads
by induction over the path (`Chain`, `IntervalInduction`). A handler is then a lemma of
its own (`MknodStep`, `MkdirStep`, `UnlinkStep`, `RmdirStep`, `RenameStep`, `ExtendStep`), with
`LosesNothing` for its success, and `StepCounts` for the counter. What fails half way keeps `Good` and may lose an inode or a block.

Only model-checked: of `NamespaceTree` `ImplementsDirTree`. `CallsEnd` is liveness and out of the
prover's reach.

## 6. Not modelled, and the plan

In order:

1. `Threads`: two calls of the name space in steps of one disk access each, over the
   shared superblock and disk offset (`disk_emulator.c:112-117`), and two
   allocations at once; `FileIO` has the steps of data_block_alloc already.
2. Disk errors in the middle of a name space handler.
3. `Geometry`: the `int` and `float` arithmetic of `common.h:37-44`.
4. Proofs: the refinement of `DirTree`.

Assumed of the surroundings: the kernel walks a path before it calls, lets one write at
a time into a file, and gives a descriptor back once, by the last process that has the
file; libfuse hides a file that is removed while it is open (`OpenFiles!Unlink`). Failing
reads are modelled in `FreeBlocks` only. The
hash table is one step: what two threads do inside uthash at once is left out.

Left out for good: the values of attributes (no state that another call
branches on), logging, uthash, the test framework and the benchmark. Crash
recovery: the disk is formatted at every start.
