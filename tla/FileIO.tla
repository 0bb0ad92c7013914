------------------------------- MODULE FileIO ------------------------------
(***************************************************************************)
(* Reading and writing of files: the loops of pread and pwrite             *)
(* (src/syscalls2.c) over the blocks of a file, as steps of the threads    *)
(* that FUSE runs them in.                                                 *)
(*                                                                         *)
(* A call works on a copy of the inode that it takes at its start and puts *)
(* back at its end.  Steps of several threads interleave; nothing is       *)
(* locked.  One step is the start, one turn of the loop, or the end; a     *)
(* turn that allocates is two steps, for data_block_alloc reads the head   *)
(* of the free lists and writes it back.                                   *)
(*                                                                         *)
(* Left out: the block map (here one table; BlockMap has its levels), list *)
(* blocks of the allocator (FreeBlocks), descriptors (OpenFiles), times,   *)
(* num_allocated_blocks, disk errors.  A block that is allocated for the   *)
(* first time holds what an older file or the disk had in it.              *)
(***************************************************************************)
EXTENDS Integers, Sequences, FiniteSets, FiniteSetsExt

CONSTANTS
    Thread,
    File,
    NumBlocks,      \* data blocks, numbered from 1
    BlockSize,      \* BLOCK_SIZE (4096)
    EndOfMap,       \* the number of indices of the block map
    IntMax,         \* INT_MAX (2^31 - 1)
    Byte, Offset, Length    \* the bytes, offsets and lengths that calls have

ASSUME FileAssumption ==
    /\ {NumBlocks, EndOfMap, IntMax} \subseteq Nat
    /\ BlockSize \in Nat \ {0}
    /\ Byte \cup Offset \cup Length \subseteq Nat

Block == 1..NumBlocks

Unmapped == 0

NoCall == [op |-> "none"]

Answer(n, read) == [n |-> n, bytes |-> read]

NoAnswer == Answer(0, <<>>)

Call ==
    [op : {"read"}, file : File, offset : Offset, n : Length, byte : {0}]
        \cup [op : {"write"}, file : File, offset : Offset, n : Length, byte : Byte]

VARIABLES
    inode,      \* num_blocks, num_used_bytes_in_last_block and map of every file
    data,       \* the bytes of every block
    free,       \* the ids in the head of the free lists
    call,       \* the call every thread is in, or NoCall
    loc,        \* the local variables of every thread
    reply,      \* the answer to every thread's last call
    written     \* history: the size and bytes that the finished writes made

vars == <<inode, data, free, call, loc, reply, written>>

NoBytes == [i \in 0..BlockSize - 1 |-> 0]

EmptyInode ==
    [numBlocks |-> 0, used |-> 0, map |-> [i \in 0..EndOfMap - 1 |-> Unmapped]]

Idle ==
    [pc |-> "idle", ino |-> EmptyInode, pos |-> 0, at |-> 0, rest |-> 0,
     buf |-> <<>>, seen |-> {}]

-----------------------------------------------------------------------------
(* Helpers *)

\* A number as an int that wraps around.
ToInt(x) == ((x + IntMax + 1) % (2 * (IntMax + 1))) - (IntMax + 1)

SizeInBytes(ino) ==
    IF ino.numBlocks = 0 THEN 0 ELSE (ino.numBlocks - 1) * BlockSize + ino.used

GetSizeOfFile(ino) == ToInt(SizeInBytes(ino))

InRange(pos) == pos \in 1..EndOfMap

GetIthBlock(ino, pos) == IF InRange(pos) THEN ino.map[pos - 1] ELSE Unmapped

\* set_ith_datablock_number, for a position in range.
SetIthBlock(ino, pos, b) ==
    [ino EXCEPT !.map[pos - 1] = b,
                !.used = IF ino.numBlocks < pos THEN 0 ELSE @,
                !.numBlocks = Max({@, pos})]

\* The block with n bytes from at on written.
Overwritten(block, at, n, byte) ==
    [i \in DOMAIN block |-> IF i \in at..at + n - 1 THEN byte ELSE block[i]]

\* Mutant of Advanced: the offset in the block is not wrapped.
AdvancedOn(l, n) ==
    [l EXCEPT !.pc = "turn", !.at = @ + n, !.rest = @ - n, !.seen = {},
              !.pos = IF (l.at + n) % BlockSize = 0 THEN @ + 1 ELSE @]

\* The locals after a turn that has dealt with n bytes.
Advanced(l, n) ==
    LET at == (l.at + n) % BlockSize
    IN  [l EXCEPT !.pc = "turn", !.at = at, !.rest = @ - n, !.seen = {},
                  !.pos = IF at = 0 THEN @ + 1 ELSE @]

\* The byte of file f at offset i, past its end too.
Content(f, i) ==
    LET b == GetIthBlock(inode[f], (i \div BlockSize) + 1)
    IN  IF b = Unmapped THEN 0 ELSE data[b][i % BlockSize]

Bytes(f) == [i \in 0..EndOfMap * BlockSize - 1 |-> Content(f, i)]

-----------------------------------------------------------------------------
(* Steps of both calls *)

\* The kernel lets one write at a time into a file.
Begin(t) ==
    /\ call[t] = NoCall
    /\ \E c \in Call :
          /\ c.op = "write" =>
                ~ \E u \in Thread : call[u].op = "write" /\ call[u].file = c.file
          /\ call' = [call EXCEPT ![t] = c]
    /\ loc' = [loc EXCEPT ![t].pc = "start"]
    /\ reply' = [reply EXCEPT ![t] = NoAnswer]
    /\ UNCHANGED <<inode, data, free, written>>

Return(t, answer) ==
    /\ call' = [call EXCEPT ![t] = NoCall]
    /\ loc' = [loc EXCEPT ![t] = Idle]
    /\ reply' = [reply EXCEPT ![t] = answer]

\* The locals when the loop starts.
Started(t) ==
    LET c == call[t]
    IN  [Idle EXCEPT !.pc = "turn", !.ino = inode[c.file], !.rest = c.n,
                     !.pos = (c.offset \div BlockSize) + 1,
                     !.at = c.offset % BlockSize]

At(t, pc, op) == call[t].op = op /\ loc[t].pc = pc

-----------------------------------------------------------------------------
(* syscalls2__pread *)

ReadStart(t) ==
    /\ At(t, "start", "read")
    /\ IF call[t].offset >= GetSizeOfFile(inode[call[t].file])
       THEN Return(t, NoAnswer)
       ELSE /\ loc' = [loc EXCEPT ![t] = Started(t)]
            /\ UNCHANGED <<call, reply>>
    /\ UNCHANGED <<inode, data, free, written>>

\* Mutant of AtEnd: the end is looked for behind the last block only.
AtEndOfBlocks(l) == l.pos > l.ino.numBlocks

AtEnd(l) == l.pos = l.ino.numBlocks /\ l.at = l.ino.used

\* Mutant of ToCopyOfBlock: the offset in the first block is forgotten.
ToCopyOfWholeBlock(t) == Min({BlockSize, loc[t].rest})

\* The bytes that a turn copies from the block, wherever the file ends.  Also a
\* mutant of ToCopy.
ToCopyOfBlock(t) ==
    IF loc[t].rest = call[t].n THEN Min({BlockSize - loc[t].at, loc[t].rest})
                               ELSE Min({BlockSize, loc[t].rest})

\* The bytes that a turn copies.
ToCopy(t) ==
    LET l == loc[t]
    IN  IF l.pos = l.ino.numBlocks THEN Min({ToCopyOfBlock(t), l.ino.used - l.at})
                                   ELSE ToCopyOfBlock(t)

ReadTurn(t) ==
    LET l == loc[t]
        b == GetIthBlock(l.ino, l.pos)
        n == ToCopy(t)
        copied == [k \in 1..n |-> IF b = Unmapped THEN 0 ELSE data[b][l.at + k - 1]]
    IN  /\ At(t, "turn", "read")
        /\ l.rest > 0
        /\ ~ AtEnd(l)
        /\ loc' = [loc EXCEPT ![t] = [Advanced(l, n) EXCEPT !.buf = @ \o copied]]
        /\ UNCHANGED <<inode, data, free, call, reply, written>>

\* The end of the file is reached: the inode is not put.
ReadReachesEnd(t) ==
    /\ At(t, "turn", "read")
    /\ loc[t].rest > 0
    /\ AtEnd(loc[t])
    /\ Return(t, Answer(Len(loc[t].buf), loc[t].buf))
    /\ UNCHANGED <<inode, data, free, written>>

\* All is read: the copy of the inode is put, with the time of the access.
ReadEnd(t) ==
    /\ At(t, "turn", "read")
    /\ loc[t].rest = 0
    /\ inode' = [inode EXCEPT ![call[t].file] = loc[t].ino]
    /\ Return(t, Answer(Len(loc[t].buf), loc[t].buf))
    /\ UNCHANGED <<data, free, written>>

-----------------------------------------------------------------------------
(* syscalls2__pwrite *)

\* The call fails: the copy of the inode is dropped.  What it has written to
\* blocks of the file stays: each byte in its range is the old one or its own.
WriteFails(t) ==
    LET c == call[t]
    IN  /\ Return(t, Answer(-1, <<>>))
        /\ written' = [written EXCEPT ![c.file].bytes =
                          [i \in DOMAIN @ |-> IF /\ i \in c.offset..c.offset + c.n - 1
                                                 /\ Content(c.file, i) = c.byte
                                              THEN c.byte ELSE @[i]]]
        /\ UNCHANGED inode

\* EFBIG is looked for at the first byte only, and only past the end.
WriteStart(t) ==
    LET c == call[t]
    IN  /\ At(t, "start", "write")
        /\ IF /\ c.offset >= GetSizeOfFile(inode[c.file])
              /\ ~ InRange((c.offset \div BlockSize) + 1)
           THEN WriteFails(t)
           ELSE /\ loc' = [loc EXCEPT ![t] = Started(t)]
                /\ UNCHANGED <<inode, call, reply, written>>
        /\ UNCHANGED <<data, free>>

ToWrite(l) == Min({BlockSize - l.at, l.rest})

\* A turn over a block that is there.
WriteTurn(t) ==
    LET l == loc[t]
        b == GetIthBlock(l.ino, l.pos)
    IN  /\ At(t, "turn", "write")
        /\ l.rest > 0
        /\ b # Unmapped
        /\ data' = [data EXCEPT ![b] = Overwritten(@, l.at, ToWrite(l), call[t].byte)]
        /\ loc' = [loc EXCEPT ![t] = Advanced(l, ToWrite(l))]
        /\ UNCHANGED <<inode, free, call, reply, written>>

\* A turn over a hole, first step: data_block_alloc reads the head of the lists.
AllocRead(t) ==
    LET l == loc[t]
    IN  /\ At(t, "turn", "write")
        /\ l.rest > 0
        /\ GetIthBlock(l.ino, l.pos) = Unmapped
        /\ loc' = [loc EXCEPT ![t].pc = "alloc", ![t].seen = free]
        /\ UNCHANGED <<inode, data, free, call, reply, written>>

AllocFull(t) ==
    /\ At(t, "alloc", "write")
    /\ loc[t].seen = {}
    /\ WriteFails(t)
    /\ UNCHANGED <<data, free>>

\* Mutant of FreshBlock: the block is not zeroed.
OldBlock(b) == data[b]

FreshBlock(b) == NoBytes

\* Second step: the head is written back without the block, the block is zeroed,
\* entered into the copy of the inode and written.
AllocWrite(t) ==
    LET l == loc[t]
        b == Min(l.seen)
        n == ToWrite(l)
    IN  /\ At(t, "alloc", "write")
        /\ l.seen # {}
        /\ free' = l.seen \ {b}
        /\ IF InRange(l.pos)
           THEN /\ data' = [data EXCEPT ![b] =
                               Overwritten(FreshBlock(b), l.at, n, call[t].byte)]
                /\ loc' = [loc EXCEPT ![t] =
                              Advanced([l EXCEPT !.ino = SetIthBlock(@, l.pos, b)], n)]
                /\ UNCHANGED <<inode, call, reply, written>>
           ELSE /\ data' = [data EXCEPT ![b] = FreshBlock(b)]
                /\ WriteFails(t)

\* Mutant of Grown: the end is moved only into a new block.
GrownByBlocks(l) ==
    IF l.pos > l.ino.numBlocks /\ l.at > 0
    THEN [l.ino EXCEPT !.numBlocks = l.pos, !.used = l.at]
    ELSE l.ino

\* The copy of the inode with its end moved to where the write ended.
Grown(l) ==
    IF \/ l.pos > l.ino.numBlocks
       \/ l.pos = l.ino.numBlocks /\ l.at > l.ino.used
    THEN IF l.at = 0
         THEN [l.ino EXCEPT !.numBlocks = l.pos - 1, !.used = BlockSize]
         ELSE [l.ino EXCEPT !.numBlocks = l.pos, !.used = l.at]
    ELSE l.ino

WriteEnd(t) ==
    LET c == call[t]
        w == written[c.file]
    IN  /\ At(t, "turn", "write")
        /\ loc[t].rest = 0
        /\ inode' = [inode EXCEPT ![c.file] = Grown(loc[t])]
        /\ written' = [written EXCEPT ![c.file] =
                          [size  |-> Max({w.size, c.offset + c.n}),
                           bytes |-> Overwritten(w.bytes, c.offset, c.n, c.byte)]]
        /\ Return(t, Answer(c.n, <<>>))
        /\ UNCHANGED <<data, free>>

-----------------------------------------------------------------------------

Init ==
    /\ inode = [f \in File |-> EmptyInode]
    /\ \E old \in Byte : data = [b \in Block |-> [i \in 0..BlockSize - 1 |-> old]]
    /\ free = Block
    /\ call = [t \in Thread |-> NoCall]
    /\ loc = [t \in Thread |-> Idle]
    /\ reply = [t \in Thread |-> NoAnswer]
    /\ written = [f \in File |-> [size |-> 0, bytes |-> Bytes(f)]]

Step(t) ==
    \/ ReadStart(t)
    \/ ReadTurn(t)
    \/ ReadReachesEnd(t)
    \/ ReadEnd(t)
    \/ WriteStart(t)
    \/ WriteTurn(t)
    \/ AllocRead(t)
    \/ AllocFull(t)
    \/ AllocWrite(t)
    \/ WriteEnd(t)

Next == \E t \in Thread : Begin(t) \/ Step(t)

\* A thread that has a call to serve goes on with it: nothing in the handlers
\* waits, and the kernel schedules every thread.  No call has to come.
Spec == Init /\ [][Next]_vars /\ \A t \in Thread : WF_vars(Step(t))

-----------------------------------------------------------------------------
(* Properties *)

\* Types of the state.
TypeOK ==
    /\ inode \in [File -> [numBlocks : Nat, used : 0..BlockSize,
                           map : [0..EndOfMap - 1 -> Block \cup {Unmapped}]]]
    /\ data \in [Block -> [0..BlockSize - 1 -> Byte \cup {0}]]
    /\ free \subseteq Block
    /\ \A t \in Thread :
          /\ call[t] \in Call \cup {NoCall}
          /\ loc[t].pc \in {"idle", "start", "turn", "alloc"}
          /\ (loc[t].pc = "idle") <=> (call[t] = NoCall)
          /\ loc[t].at \in 0..BlockSize - 1
          /\ loc[t].rest \in Nat
          /\ loc[t].buf \in Seq(Byte \cup {0})

\* What a turn of pread's loop copies lies in the block it has read, fits what the
\* caller's buffer has left, and is one byte at least: with the copy of the inode
\* that the call holds, num_used_bytes_in_last_block - current_offset_in_block
\* is never below zero.  Calls that overlap do not change this: a call looks at
\* its own copy only.
TurnsFit ==
    \A t \in Thread :
        At(t, "turn", "read") /\ loc[t].rest > 0 /\ ~ AtEnd(loc[t]) =>
            ToCopy(t) \in 1..Min({loc[t].rest, BlockSize - loc[t].at})

\* While no call is under way a file is what the writes that have returned made
\* it: as long as they said, with their bytes where they put them and zeros where
\* none wrote.  So no read changes it, no write another file, and nothing that a
\* call holds in its copy of the inode is lost.  A write that failed may have put
\* its byte at some of its offsets; elsewhere, and in size, it changed nothing.
WrittenStays ==
    (\A t \in Thread : call[t] = NoCall) =>
        \A f \in File : /\ written[f].size = SizeInBytes(inode[f])
                        /\ written[f].bytes = Bytes(f)

\* Every call ends: the loops run out of bytes, or find the end of the file.
CallsEnd == \A t \in Thread : call[t] # NoCall ~> call[t] = NoCall

=============================================================================
