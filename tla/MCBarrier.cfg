CONSTANTS
    INT_MIN <- MCIntMin
    INT_MAX = 3
    Thread = {t1, t2, t3}
    MaxCalls = 10
SPECIFICATION BarrierSpec
INVARIANT OnePhase
PROPERTY Refinement
PROPERTY Released
