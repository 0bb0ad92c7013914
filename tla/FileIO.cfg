SPECIFICATION Spec
CONSTANTS
    Thread = {t1}
    File = {f1, f2}
    NumBlocks = 2
    BlockSize = 2
    EndOfMap = 3
    IntMax = 4
    Byte = {1}
    Offset = {0, 1, 3, 5, 6}
    Length = {0, 1, 3}
INVARIANTS
    TypeOK
    TurnsFit
    WrittenStays
PROPERTIES
    ImplementsFlatFile
    CallsEnd
