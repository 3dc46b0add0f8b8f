CONSTANTS
    Enqueuer = {e1, e2}
    Dequeuer = d1
    MAX_NODES = 4
    NULL = NULL
    Garbage = Garbage
    ITERATIONS = 1
    EMPTIES = 1
SPECIFICATION Spec
INVARIANT NoUseAfterFree
