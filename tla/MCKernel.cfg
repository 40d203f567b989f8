CONSTANTS
    t1 = t1
    t2 = t2
    t3 = t3
    NULL = NULL
    Threads = {t1, t2, t3}
    Sems = {s}
    Locks = {l, m}
    CVs = {v}
    initial_count = 1
    MaxCount = 2
SPECIFICATION PartsSpec
INVARIANTS NoLostWakeup FramesAndSlots   
            TrapSound
PROPERTY ImplementsMonitor
VIEW live
CHECK_DEADLOCK FALSE
