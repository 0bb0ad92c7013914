SPECIFICATION Spec
CONSTANTS
    NumDirect = 1
    ListLength = 2
    NumBlocks = 5
    MaxWrite = 2
INVARIANTS
    TypeOK
    MapIsTree
    LastBlockIsMapped
PROPERTIES
    WritesKeepBlocks
    WritesLoseNothing
