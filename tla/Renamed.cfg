SPECIFICATION LocalSpec
CONSTANTS
    Names = {1, 2, 3}
    MaxFiles = 3
    Capacity = 1
    AnyRename = TRUE
INVARIANTS
    Readable
