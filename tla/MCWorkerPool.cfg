SPECIFICATION Spec
CONSTANTS
    N = 4
    CPUs = 3
    MaxParallelWorkers = 16
    MaxFileScanWorkers = 4
INVARIANTS
    TypeOK
    EachItemOnce
    PassRunsThrough
PROPERTIES
    PassPromise
    Termination
