\* A table of 3 slots (the kernel and two processes), pids 2..13, and one more
\* process lifetime than there are slots.
CONSTANTS
    PROCS_MAX = 3
    PID_MAX = 13
    kproc = kproc
    Procs = {kproc, a, b, c}
    Status = {s0}
    NULL = NULL
SPECIFICATION SumSpec
SYMMETRY UserSymmetry
INVARIANTS TypeOK  TableConsistent PidOwned WaitSound WaitExactlyOwnKids 
PROPERTY ZombieKept
