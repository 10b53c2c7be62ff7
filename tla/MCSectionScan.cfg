SPECIFICATION Spec
CONSTANTS
    t1 = t1
    f1 = f1
    f2 = f2
    N = 3
    Parallelism = 2
    Targets = {t1}
    Files = {f1, f2}
    TargetOf <- TwoFiles
    MaxReadErrors = 1
    Verdicts <- OnlyWarning
INVARIANTS
    TypeOK
    CallbackSerial
    FailedWalkNeverClean
    DegradationReported
    ReportedOnce
    StreamMatchesResults
PROPERTIES
    GateHolds
    Termination
