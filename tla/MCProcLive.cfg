\* As MCProc.cfg with one process fewer, two statuses, so that one child's
\* status can be told from another's, fairness, and no symmetry.
CONSTANTS
    PROCS_MAX = 3
    PID_MAX = 13
    kproc = kproc
    Procs = {kproc, a, b}
    Status = {s0, s1}
    NULL = NULL
SPECIFICATION FairSpec
PROPERTIES ImplementsWaitExit WaitReturns
