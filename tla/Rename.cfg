CONSTANTS
    PlWidth = 2
    Lregs = {1}
    NumPregs = 5
    MaxBrCount = 2
    RobSize = 2
SPECIFICATION Spec
VIEW View
INVARIANTS
    MapTableRight
    OperandsRight
    FreeListRight
    BusyRight
    TagsRight
