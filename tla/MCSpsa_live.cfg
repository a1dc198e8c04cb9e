SPECIFICATION FairSpec
CONSTANTS
    m1 = m1
    m2 = m2
    t1 = t1
    t2 = t2
    Machines = {m1, m2}
    Threads = {t1}
    TotalPairs = 2
    MaxExpiries = 1
    MaxFailures = 1
    MaxEdits = 0
    MaxCredit = 2
    EarlyStop = TRUE
PROPERTIES
    TuningFinishes
CHECK_DEADLOCK FALSE
