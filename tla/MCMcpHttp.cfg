SPECIFICATION HttpSpec
CONSTANTS
    c1 = c1
    c2 = c2
    s1 = s1
    s2 = s2
    s3 = s3
    g1 = g1
    g2 = g2
    nobody = nobody
    Calls = {c1, c2}
    Conns = {s1, s2, s3}
    Streams = {g1, g2}
    Nobody = nobody
    MaxAsks = 1
    MaxRoots = 1
    MaxSlots = 1
    MaxSessions = 2
SYMMETRY Symmetry
CHECK_DEADLOCK FALSE
INVARIANTS
    HttpTypeOK
    RepliesMatch
    RootsFresh
    StreamOwned
