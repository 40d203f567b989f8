CONSTANTS
    Readers = {r1, r2}
    UINT_MAX = 2
SPECIFICATION Spec
INVARIANT NoStrandedReader
