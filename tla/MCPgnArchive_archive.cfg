SPECIFICATION FairSpec
CONSTANTS
    r1 = r1
    r2 = r2
    t1 = t1
    t2 = t2
    v1 = v1
    v2 = v2
    Reporters = {r1}
    Threads = {t1, t2}
    Watchers = {v1}
    MaxGames = 3
    MaxFailures = 2
INVARIANTS
    TypeOK
    NoGameArchivedTwice
    ProcessedIsArchived
    UnprocessedIsKept
PROPERTIES
    ImplementsPartStore
    CommittedIsArchived
CHECK_DEADLOCK FALSE
