CONSTANTS
    CellBase = 10
    Boards <- MCBoards
    MAX_HARTS = 2
    Self = 11
    MEGAPAGE_SIZE = 2
    MaxDepth = 5
    FifoDepth = 2
    MaxSends <- MCSends
    MaxConsole <- MCConsole
    MaxTyped <- MCTyped
SPECIFICATION FairSpec
INVARIANTS
    TreeRight
    FenceFirst
    ConsoleRight
PROPERTY CallsEnd
CHECK_DEADLOCK FALSE
