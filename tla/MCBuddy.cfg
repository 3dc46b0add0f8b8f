CONSTANTS
    POOL_ORDER = 4
    MIN_ORDER = 1
    NULL = NULL
    Unknown = Unknown
SPECIFICATION BuddySpec
INVARIANT Partition
INVARIANT FreeIsSafe
INVARIANT AllocFailsOnlyWhenFull
PROPERTY Refinement
