CONSTANTS
    Enqueuer = {e1, e2}
    Dequeuer = d1
    MAX_NODES = 6
    NULL = NULL
    Garbage = Garbage
    ITERATIONS = 2
    EMPTIES = 1
SPECIFICATION Spec
INVARIANT ListIntact
INVARIANT TailNearEnd
INVARIANT FIFO
PROPERTY AllReturn
