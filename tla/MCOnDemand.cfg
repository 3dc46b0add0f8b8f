CONSTANTS
    PETMEM_REGION_START = 4
    PETMEM_REGION_END = 12
    Requests <- MCRequests
    MAX_NODES = 4
    NONE = NONE
    MAX_PDPE64_ENTRIES = 3
    MAX_PDE64_ENTRIES = 2
    MAX_PTE64_ENTRIES = 2
    Touched <- MCTouched
    MIN_ORDER = 0
    NULL = NULL
    Unknown = Unknown
    Regions <- MCRegions
    PAGE_OFFSET = 48
    ADDRESSES = 64
SPECIFICATION PagingSpec
INVARIANT NoOrphan
INVARIANT MappedInUse
INVARIANT FrameExclusive
INVARIANT PoolsTileTheMemory
INVARIANT Contiguous
INVARIANT Combined
PROPERTY RangesKept
PROPERTY WalkStaysInRange
PROPERTY CallsEnd
