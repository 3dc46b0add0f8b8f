CONSTANTS
    MaxThreads = 3
    RetVal = {v1, v2}
    NULL = NULL
SPECIFICATION Spec
INVARIANT OnePlace
INVARIANT BlockedOnTheLiving
INVARIANT JoinDelivers
INVARIANT NoCrash
PROPERTY EveryReadyRuns
