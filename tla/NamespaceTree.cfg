SPECIFICATION TreeSpec
CONSTANTS
    Sub = Sub
    Name1 = Name1
    Name2 = Name2
    Name3 = Name3
    Long = Long
    NumInodes = 6
    NumBlocks = 3
    EntriesPerBlock = 3
    LongNames = {Long}
    Path <- MCPath
    DirPath <- MCDirPath
    FilePath <- MCFilePath
    MaxFreeInodes = 1
    MaxFileBlocks = 1
    RenameKinds <- MCMoveAndReplace
SYMMETRY MCSymmetry
VIEW MCView
INVARIANTS
    TypeOK
    BlocksUsedOnce
    EntriesSound
PROPERTIES
    CountFollows
    SuccessLosesNothing
    ImplementsDirTree
