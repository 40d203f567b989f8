CONSTANTS
    Threads = {t1, t2, t3}
    Names = {a, b}
    Sems = {s1, s2}
    NULL = NULL
SPECIFICATION FairSpec
INVARIANTS NamesLive OpenLive NoSemLeak
PROPERTY OperationsFinish
