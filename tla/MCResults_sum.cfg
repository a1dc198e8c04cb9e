SPECIFICATION Spec
CONSTANTS
    w1 = w1
    w2 = w2
    t1 = t1
    t2 = t2
    e1 = e1
    e2 = e2
    LLR <- Balance
    LowerLLR <- MCLowerLLR
    UpperLLR = 1
    Workers = {w1, w2}
    Threads = {t1, t2}
    Editors = {e1}
    Ops = {"MODIFY"}
    StartRows <- ReadyGames
    MaxGames = 3
    Pairs <- OnePair
    Allot = 2
    MaxPairs = 4
    MaxFailures = 0
    MaxEdits = 1
INVARIANTS
    TestIsSumOfResults
CHECK_DEADLOCK FALSE
