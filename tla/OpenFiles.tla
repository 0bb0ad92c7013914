----------------------------- MODULE OpenFiles -----------------------------
(***************************************************************************)
(* Open files: the descriptor table of every process (src/syscalls2.c) and *)
(* the calls that reach inodes through descriptors and through paths, over *)
(* InodeTable.                                                             *)
(*                                                                         *)
(* The kernel keeps the descriptor that an open returns (fi->fh) with the  *)
(* open file, and hands it to the calls of every process that has the file *)
(* open: the one that opened it, and its children.  The code looks it up   *)
(* in the table of the process that calls.                                 *)
(*                                                                         *)
(* Left out: byte_offset, which nothing reads, O_CREAT, which FUSE does    *)
(* not pass, and the loops over blocks (FileIO).  Data of an inode stands  *)
(* for all its fields; Change(i, View(i).data) changes times only.         *)
(***************************************************************************)
EXTENDS InodeTable, FiniteSetsExt

CONSTANTS
    Pid,            \* processes
    FirstTotal,     \* the entries of a new table (8)
    Access,         \* the access modes of opens, of "READ", "WRITE", "READ_WRITE"
    Leftover,       \* what an inode number that is not set may be
    MaxEntries      \* bound on the used entries of all tables

ASSUME OpenAssumption ==
    /\ FirstTotal \in Nat /\ FirstTotal > 3
    /\ Access \subseteq {"READ", "WRITE", "READ_WRITE"}
    /\ Leftover \subseteq Nat

VARIABLES
    table,      \* the descriptor table of every process that has one
    held,       \* history: the descriptors that the kernel keeps
    loose       \* history: entries that have come apart from what the kernel
                \* keeps, as <<pid, fd>>

vars == <<tableVars, table, held, loose>>

Files == live \ {Root}

-----------------------------------------------------------------------------
(* Descriptor tables.  The entries of a table are those from 3 on that are   *)
(* not FD_NOT_USED.                                                          *)

\* allocate_file_descriptor_table
NewTable == [total |-> FirstTotal, used |-> 3, entry |-> [fd \in {} |-> 0]]

TableOf(p) == IF p \in DOMAIN table THEN table[p] ELSE NewTable

NotUsed(tb) == (3..tb.total - 1) \ DOMAIN tb.entry

\* find_available_fd finds none.
IsFull(tb) == tb.total = tb.used \/ NotUsed(tb) = {}

\* Mutant of Available: the entries after the used ones are taken in turn.
AvailableByCount(tb) == tb.used

\* The entry that allocate_file_descriptor_entry takes: the first that is not
\* used, or the first behind a full table.
Available(tb) == IF IsFull(tb) THEN tb.total ELSE Min(NotUsed(tb))

\* Mutant of TotalFor: the array grows, its size is not noted.
TotalKept(tb) == tb.total

\* The size of the table that has room for one more.
TotalFor(tb) == IF IsFull(tb) THEN 2 * tb.total ELSE tb.total

WithEntry(tb, e) ==
    [total |-> TotalFor(tb),
     used  |-> tb.used + 1,
     entry |-> [fd \in DOMAIN tb.entry \cup {Available(tb)} |->
                    IF fd = Available(tb) THEN e ELSE tb.entry[fd]]]

\* get_file_descriptor_entry finds one.
HasEntry(p, fd) == p \in DOMAIN table /\ fd \in DOMAIN table[p].entry

\* delete_file_descriptor_entry
WithoutEntry(tb, fd) ==
    [total |-> tb.total,
     used  |-> tb.used - 1,
     entry |-> [k \in DOMAIN tb.entry \ {fd} |-> tb.entry[k]]]

SetTable(p, tb) ==
    table' = [q \in DOMAIN table \cup {p} |-> IF q = p THEN tb ELSE table[q]]

\* delete_file_descriptor_table
DropTable(p) == table' = [q \in DOMAIN table \ {p} |-> table[q]]

-----------------------------------------------------------------------------
(* Open and close *)

InBounds == Cardinality(held) + Cardinality(loose) < MaxEntries

\* The entry is made before the inode is put, and whether it can be put is not
\* looked at.
Open(p, i, mode) ==
    LET tb == TableOf(p)
    IN  /\ InBounds
        /\ i \in Files
        /\ SetTable(p, WithEntry(tb, [mode |-> mode, inode |-> i]))
        /\ held' = held \cup
               {[pid |-> p, fd |-> Available(tb), mode |-> mode, inode |-> i]}
        /\ Change(i, View(i).data) \/ Get(i)
        /\ UNCHANGED loose

\* O_APPEND for reading fails with EACCES, but the entry has been made.  Its inode
\* number is not set: it is what was left there in the memory.
OpenRefused(p, i, left) ==
    LET tb == TableOf(p)
    IN  /\ InBounds
        /\ i \in Files
        /\ SetTable(p, WithEntry(tb, [mode |-> "READ", inode |-> left]))
        /\ loose' = loose \cup {<<p, Available(tb)>>}
        /\ Get(i)
        /\ UNCHANGED held

\* Mutant of CloseEntry: the table is never deleted.
CloseEntryOnly(p, fd) == SetTable(p, WithoutEntry(table[p], fd))

\* The entry goes, and with the last one the table.
CloseEntry(p, fd) ==
    LET tb == WithoutEntry(table[p], fd)
    IN  IF tb.used = 3 THEN DropTable(p) ELSE SetTable(p, tb)

\* The last process that has the file open gives the descriptor back.  If that is
\* not the one that opened it, the entry stays; one of its own may go.
Close(q, h) ==
    /\ h \in held
    /\ held' = held \ {h}
    /\ IF HasEntry(q, h.fd) THEN CloseEntry(q, h.fd) ELSE UNCHANGED table
    /\ loose' = IF q = h.pid THEN loose
                ELSE loose \cup {<<h.pid, h.fd>>}
                           \cup (IF HasEntry(q, h.fd) THEN {<<q, h.fd>>} ELSE {})
    /\ UNCHANGED tableVars

-----------------------------------------------------------------------------
(* Calls through descriptors and paths.  One that ends early, or whose put   *)
(* fails, has got the inode only.                                            *)

\* Process q calls with the descriptor fd, and an entry in one of the modes is
\* found for it.  (Otherwise the call fails with EBADF.)
Reaches(q, h, modes, i) ==
    /\ h \in held
    /\ HasEntry(q, h.fd)
    /\ table[q].entry[h.fd].mode \in modes
    /\ table[q].entry[h.fd].inode = i

Pread(q, h, i) ==
    /\ Reaches(q, h, {"READ", "READ_WRITE"}, i)
    /\ Change(i, View(i).data) \/ Get(i)
    /\ UNCHANGED <<table, held, loose>>

Pwrite(q, h, i) ==
    /\ Reaches(q, h, {"WRITE", "READ_WRITE"}, i)
    /\ Get(i) \/ \E d \in Data : Change(i, d)
    /\ UNCHANGED <<table, held, loose>>

\* namei, lstat, readdir
Lookup(i) ==
    /\ i \in live
    /\ Get(i)
    /\ UNCHANGED <<table, held, loose>>

\* utimens, chmod, chown; entries of a directory
SetAttributes(i, d) ==
    /\ i \in live
    /\ Change(i, d)
    /\ UNCHANGED <<table, held, loose>>

\* mknod, mkdir
Make(i) ==
    /\ \/ \E d \in Data : Create(i, d) \/ CreateUnnamed(i, d)
       \/ CreatePutFails(i)
       \/ AllocCommitFails(i)
    /\ UNCHANGED <<table, held, loose>>

\* unlink, rmdir, and rename onto another: libfuse hides files that are open.
Unlink(i) ==
    /\ \A h \in held : h.inode # i
    /\ Remove(i) \/ RemoveCommitFails(i) \/ PutRemovedAgain(i)
    /\ UNCHANGED <<table, held, loose>>

-----------------------------------------------------------------------------

Init ==
    /\ TableInit
    /\ table = [p \in {} |-> NewTable]
    /\ held = {}
    /\ loose = {}

Next ==
    \/ \E p \in Pid, i \in Inode :
          \/ \E mode \in Access : Open(p, i, mode)
          \/ \E left \in Leftover : OpenRefused(p, i, left)
    \/ \E q \in Pid, h \in held :
          \/ Close(q, h)
          \/ \E i \in Inode : Pread(q, h, i) \/ Pwrite(q, h, i)
    \/ \E i \in Inode :
          \/ Lookup(i)
          \/ \E d \in Data : SetAttributes(i, d)
          \/ Make(i)
          \/ Unlink(i)

Spec == Init /\ [][Next]_vars

-----------------------------------------------------------------------------
(* Properties *)

\* Types of the state.
TypeOK ==
    /\ TableTypeOK
    /\ DOMAIN table \subseteq Pid
    /\ \A p \in DOMAIN table :
          /\ table[p].total \in Nat
          /\ DOMAIN table[p].entry \subseteq 3..table[p].total - 1
          /\ \A fd \in DOMAIN table[p].entry :
                table[p].entry[fd] \in
                    [mode : {"READ", "WRITE", "READ_WRITE"}, inode : Nat]
    /\ \A h \in held : h.pid \in Pid /\ h.inode \in Inode
    /\ loose \subseteq Pid \X Nat

\* As long as the processes that close files are those that opened them, and other
\* closes have not hit the entry, a descriptor that the kernel keeps leads to the
\* file it was opened on, in the mode it was opened in, however tables grow and
\* entries are used again; and the kernel has it once.
HeldLeadsToFile ==
    \A h \in held : <<h.pid, h.fd>> \notin loose =>
        /\ HasEntry(h.pid, h.fd)
        /\ table[h.pid].entry[h.fd] = [mode |-> h.mode, inode |-> h.inode]
        /\ \A g \in held : g.pid = h.pid /\ g.fd = h.fd => g = h

\* The count of a table is that of its entries, by which open knows a full table
\* and close one to delete: no process without entries has a table.  An entry
\* belongs to a descriptor that the kernel keeps, or has a number at which an entry
\* was left behind before: by an open that was refused (O_APPEND for reading), or by
\* a close that another process made.
EntriesAccounted ==
    \A p \in DOMAIN table :
        /\ table[p].used = 3 + Cardinality(DOMAIN table[p].entry)
        /\ table[p].used > 3
        /\ \A fd \in DOMAIN table[p].entry :
              <<p, fd>> \in loose \/ \E h \in held : h.pid = p /\ h.fd = fd

=============================================================================
