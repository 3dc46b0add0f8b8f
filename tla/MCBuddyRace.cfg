CONSTANTS
    POOL_ORDER = 2
    MIN_ORDER = 0
    NULL = NULL
    Unknown = Unknown
    HEAD = HEAD
    Process = {p1, p2}
SPECIFICATION RaceSpec
INVARIANT BlockInPool
