SPECIFICATION Spec
CONSTANTS
    m1 = m1
    m2 = m2
    t1 = t1
    t2 = t2
    Machines = {m1, m2}
    Threads = {t1}
    TotalPairs = 2
    MaxExpiries = 1
    MaxFailures = 0
    MaxEdits = 0
    MaxCredit = 2
    EarlyStop = FALSE
INVARIANTS
    SingleRunner
CHECK_DEADLOCK FALSE
