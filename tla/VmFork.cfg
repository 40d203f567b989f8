SPECIFICATION Spec
CONSTANTS
    CPUs = {c1}
    Procs = {p1, p2}
    first = p1
    NPAGES = 1
    NFRAMES = 6
    swap_slots = 2
    L2_SIZE = 2
    NULL = NULL
PROPERTY ForkExact
CHECK_DEADLOCK FALSE
