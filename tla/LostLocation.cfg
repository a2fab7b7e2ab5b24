SPECIFICATION Spec
CONSTANTS
    n1 = n1
    n2 = n2
    n3 = n3
    p1 = p1
    p2 = p2
    w1 = w1
    w2 = w2
    Nodes = {n1, n2}
    Procs = {n1, n2, n3}
    Home <- SharedNode
    Paths = {p1}
    Writes = {w1}
    Intents = {"stat", "read", "write", "unlink"}
    SsdLimit = 1
    Coordination = "writers"
    None = None
    Link = Link
INVARIANTS
    LocationHasFile
