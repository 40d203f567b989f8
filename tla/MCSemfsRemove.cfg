CONSTANTS
    Threads = {t1, t2}
    Names = {a}
    Sems = {s1, s2}
    NULL = NULL
SPECIFICATION Spec
INVARIANT DestroyedUnheld
