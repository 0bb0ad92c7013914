SPECIFICATION Spec
CONSTANTS
    NumInodes = 3
    MaxCache = 3
    Data = {d1, d2}
    Blank = d1
    Unsure = unsure
    Pid = {p1, p2}
    FirstTotal = 4
    Access = {"READ_WRITE"}
    Leftover = {2}
    MaxEntries = 2
SYMMETRY MCSymmetry
INVARIANTS
    TypeOK
    Coherent
    CacheOrdered
    HeldLeadsToFile
    EntriesAccounted
PROPERTIES
    CreateIsFresh
    ImplementsStore
