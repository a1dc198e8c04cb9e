SPECIFICATION WorkersSpec
CONSTANTS
    n1 = n1
    n2 = n2
    t1 = t1
    t2 = t2
    t3 = t3
    t4 = t4
    t5 = t5
    PrepTests = {t1, t2, t3, t4, t5}
    Side <- MCSide
    BrokenShas = {"broken"}
    WrongShas = {"wrong"}
    GoneShas = {"gone", "missing"}
    NoNet = NoNet
    NoBinary = NoBinary
    Torn = Torn
    NoTest = NoTest
    SameDevice = FALSE
    MaxMishaps = 2
    MaxAgings = 1
    h1 = h1
    h2 = h2
    h3 = h3
    g1 = g1
    g2 = g2
    g3 = g3
    g4 = g4
    Nothing = Nothing
    Worlds <- MCWorlds
    MaxSelChanges = 2
    Loops = {"first", "second", "piped", "named", "own"}
    Acks = {"first", "second"}
    Named = {"first", "second", "named"}
    Shells = {"first", "second", "named", "piped"}
    Keyed = {"first", "second", "named", "piped"}
    Nobody = Nobody
    MaxSupEvents = 4
    Processes = {"p", "q"}
    Migration = "migrate"
    NoFile = 0
    MaxFiles = 7
    MaxEnds = 3
INVARIANTS
    WorkersTypeOK
    GamesUseTheRightFiles
    BenchStopIsDeserved
    AssignmentFits
PROPERTIES
    AsksForWork
    TestsAreServed
    RevokedStaysDown
    MachinesServed
    OneSetOfWatchers
CHECK_DEADLOCK FALSE
