SPECIFICATION Spec
CONSTANTS
    NumBlocks = 7
    NumInodeBlocks = 1
    ListLength = 3
    MaxCount = 5
    OldContents <- MCOldContents
INVARIANTS
    TypeOK
    FreeListSound
    AllocIsFresh
    FullMeansUsed
    CounterNeverWraps
PROPERTIES
    OwnersKeepTheirData
    PoolSpec
