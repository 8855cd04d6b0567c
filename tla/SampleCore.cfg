CONSTANTS
    Programs <- AllPrograms
    CoreWidth = 2
    RobSize = 3
SPECIFICATION FairSpec
INVARIANTS
    Transparent
    NotSpeculative
    CountExact
    OvershootBound
    OverflowHidden
PROPERTY Terminates
