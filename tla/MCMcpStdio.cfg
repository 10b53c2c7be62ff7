SPECIFICATION StdioSpec
CONSTANTS
    pipe = pipe
    nobody = nobody
    Calls = {1, 2}
    Conns = {pipe}
    Pipe = pipe
    Nobody = nobody
    MaxAsks = 1
    MaxRoots = 1
    MaxMishaps = 1
    Capacity = 2
INVARIANTS
    StdioTypeOK
    RepliesMatch
    NoneForgotten
    NothingLeft
PROPERTIES
    Termination
