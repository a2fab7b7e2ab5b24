SPECIFICATION MCSpec
CONSTANTS
    f1 = f1
    f2 = f2
    f3 = f3
    c1 = c1
    c2 = c2
    c3 = c3
    c4 = c4
    Files <- MCFiles
    Cells <- MCCells
    MaxFreq = 3
    NULL = NULL
    Names = {1, 2, 3, 4}
    MaxFiles = 4
    Capacity = 2
    AnyRename = FALSE
    MSS = 2
    Lens = {1, 3}
    Bytes = 4
    SndSize = 2
    RcvSize = 4
    EntrySize = 2
    MaxEntries = 2
    Ahead = 2
    Senders = {1, 2, 3}
    MaxTime = 3
INVARIANTS
    TypeOK
    ListIntegrity
    SweepSound
    AgedListIntact
    Readable
    SndLossExact
    RcvLossExact
    Intact
    UnitsAccounted
    WorkerAwake
PROPERTIES
    SecondChanceGiven
    SweepEnds
    ImplementsSecondChance
    ImplementsAgeOrder
CHECK_DEADLOCK FALSE
