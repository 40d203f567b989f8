CONSTANTS
    NCPU = 2
    b1 = b1
    b2 = b2
    Threads = {b1, b2, t1, t2}
    NULL = NULL
    Boot <- MCBoot
SPECIFICATION Spec
INVARIANTS InOnePlace IdleNotified MigrationNeverShort StackSafe
SYMMETRY symmetry
