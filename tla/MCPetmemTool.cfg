CONSTANTS
    bitmap_entries = 5
    num_blocks = 2
SPECIFICATION ToolSpec
INVARIANT RegionIsRight
INVARIANT GivesUpRightly
PROPERTY Ends
