CONSTANTS
    INT_MIN <- MCIntMin
    INT_MAX = 9
    Thread <- MCThread
    ITERATIONS = 3
    RW_ITERATIONS = 3
    MaxCalls = 6
SPECIFICATION DriverSpec
INVARIANT MutualExclusion
INVARIANT TestsSucceed
PROPERTY DriverEnds
