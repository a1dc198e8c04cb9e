SPECIFICATION ServerSpec
CONSTANTS
    s1 = s1
    s2 = s2
    CreationThreads = {s1, s2}
    Forms <- MCForms
    KitTexts <- MCKitTexts
    Commands <- MCCommands
    UseCrossApproval = FALSE
    Absent = Absent
    MaxTests = 2
    MaxPageChanges = 2
    MaxSubmits = 1
    NetEngines = {"e1", "e2"}
    Contents = {"c1", "c2"}
    AuxNames = {"aux"}
    u1 = u1
    u2 = u2
    NetThreads = {u1, u2}
    MaxNetworks = 2
    MaxForms = 4
    NoRow = NoRow
    NoRequest = NoRequest
    m1 = m1
    m2 = m2
    Tuners = {m1, m2}
    LastBatch = 3
    MaxRows = 3
    MaxRuns = 2
    MaxUntidy = 1
    MaxMishaps = 1
INVARIANTS
    ServerTypeOK
    AtMostOneDefault
    NetworkHasItsFile
    NewTestsCanRun
    ProfileCountsAreReal
    CurveIsComplete
SYMMETRY Symmetry
CHECK_DEADLOCK FALSE
