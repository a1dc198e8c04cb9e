SPECIFICATION Spec
CONSTANTS
    m1 = m1
    m2 = m2
    t1 = t1
    t2 = t2
    Machines = {m1, m2}
    Threads = {t1, t2}
    TotalPairs = 2
    MaxExpiries = 1
    MaxFailures = 1
    MaxEdits = 1
    MaxCredit = 2
    EarlyStop = FALSE
SYMMETRY Symmetry
INVARIANTS
    TypeOK
    ProgressIsReal
    ProgressIsCredited
PROPERTIES
    FinishedIsComplete
CHECK_DEADLOCK FALSE
