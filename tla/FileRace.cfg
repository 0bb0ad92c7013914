SPECIFICATION Spec
CONSTANTS
    Thread = {t1, t2}
    File = {f1}
    NumBlocks = 2
    BlockSize = 2
    EndOfMap = 2
    IntMax = 7
    Byte = {1}
    Offset = {0, 1}
    Length = {1, 2}
INVARIANTS
    WrittenStays
