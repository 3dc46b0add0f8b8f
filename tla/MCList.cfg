CONSTANTS
    Heads = {h1, h2}
    Entries = {e1, e2, e3}
    LIST_POISON1 = LIST_POISON1
    LIST_POISON2 = LIST_POISON2
SPECIFICATION ListSpec
INVARIANT Ring
PROPERTY Refinement
