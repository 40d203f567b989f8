CONSTANTS
    LhdThreads = {t1}
    LhdRaw = {}
    LhdTries = 2
    LhdMaxErrors = 1
    LhdBadWrites = TRUE
SPECIFICATION LhdSpec
INVARIANT ReadBack
CHECK_DEADLOCK FALSE
