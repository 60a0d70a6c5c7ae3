SPECIFICATION FairSpec
CONSTANTS
    p1 = p1
    p2 = p2
    a1 = a1
    a2 = a2
    b1 = b1
    u1 = u1
    u2 = u2
    c1 = c1
    c2 = c2
    c3 = c3
    c4 = c4
    c5 = c5
    c6 = c6
    None = None
    Replica = {p1, p2}
    Thread = {a1, a2, b1}
    Reader = {}
    On <- TwoReplicas
    Conn = {c1, c2, c3, c4}
    MaxIdle = 2
    MaxDepth = 1
    Gin = {}
    Hazards = {"crash"}
INVARIANT NothingLeaked
PROPERTY ImplementsGlobalLock Served
