SPECIFICATION Spec
CONSTANTS
    t1 = t1
    f1 = f1
    f2 = f2
    N = 2
    Parallelism = 2
    Targets = {t1}
    Files = {f1}
    TargetOf <- OneFile
    MaxReadErrors = 1
    Verdicts <- Mixed
INVARIANTS
    CrashedSectionReadsFail
