CONSTANTS
    NL = 3
    NS = 3
    Locs <- LocsDef
    Line <- LineDef
    IOLocs <- IODef
    Programs <- ProgramsDef
    Refetch = 3
    MaxTrouble = 2
    Patience = 24
    Starts <- StartsDef
SPECIFICATION Spec
INVARIANTS
    AssertionsHold
    WritesRight
    Coherent
    DrainsInTime
