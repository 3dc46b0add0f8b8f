CONSTANTS
    Keys = {1, 2, 3}
    Values = {1}
    Width = 1
    primes <- MCPrimes
    load_factors <- MCLoadFactors
    do_hash <- MCHash
    MAX_ENTRIES = 3
SPECIFICATION Spec
INVARIANT CountsEntries
INVARIANT IteratesOverAll
PROPERTY Refinement
