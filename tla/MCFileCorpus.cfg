SPECIFICATION Spec
CONSTANTS
    p = p
    q = q
    r = r
    g = g
    s = s
    small = small
    large = large
    Calls = {p, q, r}
    Files = {g, s}
    Wanted <- Asks
    KindOf <- GoAndScript
    Versions = {small, large}
    Size <- Lengths
    MaxReadBytes = 1
    MaxReadEntries = 1
    MaxParseBytes <- TreeBytes
    MaxParseEntries <- TwoTrees
    ReadWorkers = 1
    ParseWorkers <- Gates
    MaxEdits = 1
INVARIANTS
    TypeOK
    Accounted
    ContentNotLost
    ReadOnce
    Agreement
    ScriptsAllOrNone
PROPERTIES
    RetainedForGood
    Termination
