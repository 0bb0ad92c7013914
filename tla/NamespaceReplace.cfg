SPECIFICATION Spec
CONSTANTS
    NumInodes = 4
    NumBlocks = 4
    EntriesPerBlock = 3
    LongNames = {"long"}
    Path <- MCPath
    DirPath <- MCPath
    FilePath <- MCPath
    MaxFreeInodes = 4
    MaxFileBlocks = 1
    RenameKinds <- MCReplaceFile
INVARIANTS
    FreeInodeCountExact
