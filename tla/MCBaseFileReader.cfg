SPECIFICATION Spec
CONSTANTS
    r1 = r1
    r2 = r2
    r3 = r3
    a = a
    b = b
    t = t
    l = l
    x = x
    none = none
    None = none
    Reads = {r1, r2, r3}
    Paths = {a, b, t, l, x}
    Kind <- KindOf
    Budget = 1
INVARIANTS
    TypeOK
    AnswersAsShow
    NoProcessLeft
PROPERTIES
    Termination
