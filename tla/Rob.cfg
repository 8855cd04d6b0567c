CONSTANTS
    CoreWidth = 2
    NumRows = 2
    MaxBrCount = 1
    Ports = 1
    Mixes <- RowMixes
SPECIFICATION FairSpec
INVARIANTS
    RingRight
    CommitRight
    RollbackRight
    XcptRight
PROPERTY RollbackEnds
