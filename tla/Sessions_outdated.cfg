SPECIFICATION FairSpec
CONSTANTS
    w1 = w1
    k1 = k1
    t1 = t1
    t2 = t2
    Password = Password
    Workers = {w1}
    Keys = {k1}
    Threads = {t1, t2}
    MaxVersion = 0
    MaxSessions = 2
    MaxEvents = 1
PROPERTIES
    OutdatedRestarts
CHECK_DEADLOCK FALSE
