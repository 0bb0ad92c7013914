----------------------------- MODULE BlockPool -----------------------------
(***************************************************************************)
(* What the data block allocator promises its callers, with no word of how *)
(* it remembers the free blocks: data_block_alloc hands out a free block   *)
(* and says "full" only when there is none, data_block_free takes an owned *)
(* block back, and a disk error costs at most the block the failing call   *)
(* was about.  FreeBlocks, the allocator of src/data_blocks_handler.c,     *)
(* implements this specification.                                          *)
(***************************************************************************)

CONSTANT Block      \* the data blocks the allocator manages

VARIABLES
    free,           \* blocks a call of data_block_alloc may return
    owned,          \* blocks handed out and not given back
    lost,           \* blocks a disk error made unreachable
    answer          \* how the last call ended: "ok", "full" or "eio"

poolVars == <<free, owned, lost, answer>>

PoolInit ==
    /\ free = Block
    /\ owned = {}
    /\ lost = {}
    /\ answer = "ok"

\* data_block_alloc returns 0.
PoolAlloc ==
    \E b \in free :
        /\ free' = free \ {b}
        /\ owned' = owned \cup {b}
        /\ answer' = "ok"
        /\ UNCHANGED lost

\* data_block_alloc returns -1 because the disk is full.
PoolFull ==
    /\ free = {}
    /\ answer' = "full"
    /\ UNCHANGED <<free, owned, lost>>

\* data_block_free returns 0.
PoolFree ==
    \E b \in owned :
        /\ owned' = owned \ {b}
        /\ free' = free \cup {b}
        /\ answer' = "ok"
        /\ UNCHANGED lost

\* A call returns -1 because of the disk.  It may lose a block, and only the
\* one it was about: a free block being handed out, or the block being freed.
PoolError ==
    /\ answer' = "eio"
    /\ \/ UNCHANGED <<free, owned, lost>>
       \/ \E b \in free :
             /\ free' = free \ {b}
             /\ lost' = lost \cup {b}
             /\ UNCHANGED owned
       \/ \E b \in owned :
             /\ owned' = owned \ {b}
             /\ lost' = lost \cup {b}
             /\ UNCHANGED free

PoolNext == PoolAlloc \/ PoolFull \/ PoolFree \/ PoolError

PoolSpec == PoolInit /\ [][PoolNext]_poolVars

=============================================================================
