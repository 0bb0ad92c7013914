SPECIFICATION Spec
CONSTANTS
    NumDirect = 1
    ListLength = 2
    NumBlocks = 5
    MaxWrite = 2
PROPERTIES
    RemoveFreesAll
