SPECIFICATION FairSpec
CONSTANTS
    w1 = w1
    k1 = k1
    Password = Password
    t1 = t1
    t2 = t2
    Workers = {w1}
    Keys = {k1}
    Threads = {t1, t2}
    MaxVersion = 1
    MaxSessions = 2
    MaxEvents = 3
INVARIANTS
    TypeOK
    SessionIsConsistent
    ShutdownOnlyWhenRevoked
PROPERTIES
    RevokedShutsDown
    StopReachesWorker
CHECK_DEADLOCK FALSE
