SPECIFICATION Spec
CONSTANTS
    s1 = s1
    s2 = s2
    a = a
    b = b
    m = m
    c1 = c1
    c2 = c2
    v1 = v1
    v2 = v2
    Scans = {s1}
    Configs = {c1}
    Sources = {a}
    Package <- Alone
    Manifests = {}
    Hidden = {}
    Versions = {v1, v2}
    Retains = TRUE
    QuietTree = FALSE
    MaxScans = 2
    MaxEdits = 1
CHECK_DEADLOCK FALSE
INVARIANTS
    UnlistedNeverTrusted
