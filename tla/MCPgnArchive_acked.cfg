SPECIFICATION Spec
CONSTANTS
    r1 = r1
    r2 = r2
    t1 = t1
    t2 = t2
    v1 = v1
    v2 = v2
    Reporters = {r1}
    Threads = {t1}
    Watchers = {v1}
    MaxGames = 2
    MaxFailures = 1
SYMMETRY Symmetry
INVARIANTS
    AcknowledgedIsStored
CHECK_DEADLOCK FALSE
