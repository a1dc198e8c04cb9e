SPECIFICATION Spec
CONSTANTS
    w1 = w1
    w2 = w2
    t1 = t1
    t2 = t2
    e1 = e1
    e2 = e2
    LLR <- Balance
    LowerLLR <- MCLowerLLR
    UpperLLR = 1
    Workers = {w1, w2}
    Threads = {t1}
    Editors = {e1}
    Ops <- EditOps
    StartRows <- ReadyAll
    MaxGames = 3
    Pairs <- MCPairs
    Allot = 2
    MaxPairs = 4
    MaxFailures = 0
    MaxEdits = 1
SYMMETRY Symmetry
INVARIANTS
    TypeOK
    VerdictSound
    TestCountsReports
    OpeningsDisjoint
CHECK_DEADLOCK FALSE
