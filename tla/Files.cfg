SPECIFICATION MCSpec
CONSTANTS
    n1 = n1
    n2 = n2
    n3 = n3
    m1 = m1
    m2 = m2
    m3 = m3
    p1 = p1
    p2 = p2
    q1 = q1
    w1 = w1
    w2 = w2
    dirA = dirA
    fileF = fileF
    fileG = fileG
    fileAB = fileAB
    Nodes = {n1, n2}
    Procs = {n1, n2}
    Home <- OnePerNode
    Paths = {p1, p2}
    Writes = {w1}
    Intents = {"stat", "read", "write", "unlink"}
    SsdLimit = 1
    Coordination = "sessions"
    Discipline = "directories"
    None = None
    Link = Link
    Root = Root
    Dirs = {dirA}
    Files = {fileF, fileG, fileAB}
    Parent <- MCParent
    Prefixed <- NoPrefixedName
SYMMETRY MCSymmetry
VIEW MCView
INVARIANTS
    TypeOK
    Durable
    CloseToOpen
    WriterUpToDate
    QueueCovers
    NamesTyped
    
    
    PlacedDurable
    PlacedUpToDate
PROPERTIES
    SafeRemoval
    PlacedRemovals
