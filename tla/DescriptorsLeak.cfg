SPECIFICATION MCSpec
CHECK_DEADLOCK FALSE
CONSTANTS
    m1 = m1
    m2 = m2
    h1 = h1
    h2 = h2
    r = r
    k1 = k1
    k2 = k2
    k3 = k3
    v1 = v1
    v2 = v2
    NoValue = NoValue
    None = None
    Garbage = Garbage
    Listener = Listener
    Killed = Killed
    Mounts = {m1, m2}
    Servers = {h1, h2, r}
    Keys = {k1, k2, k3}
    Values = {v1, v2}
    Owner <- MCOwner
    Replica = r
    Conns = {1, 2, 3, 4, 5, 6, 7, 8}
    CacheSize = 1
    Workload <- MCWorkload
    MaxCalls <- MCMaxCalls
    MaxCrashes = 1
    Hash <- MCHash
    Size = 1
    magicNumber = 2
    Load = 7
    MaxSize = 4
    MaxRecords = 4
INVARIANTS
    DescriptorsBounded
