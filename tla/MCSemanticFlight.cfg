SPECIFICATION Spec
CONSTANTS
    a1 = a1
    a2 = a2
    b1 = b1
    t1 = t1
    t2 = t2
    q1 = q1
    q2 = q2
    q3 = q3
    p1 = p1
    none = none
    earlier = earlier
    gaveup = gaveup
    None = none
    Earlier = earlier
    Before = {q2, q3}
    GaveUp = gaveup
    Calls = {a1, a2, b1, t1, t2}
    Requests = {q1, q2, q3}
    Programs = {p1}
    KeyOf <- Asks
INVARIANTS
    TypeOK
PROPERTIES
    SharedPromise
    Termination
