CONSTANTS
    Code <- MCCode
    ExitNr = 93
    Ret = 100
    BrkNr = 214
    Bogus = 3656
    ENOSYS = 38
    MaxPeriods = 4
    MaxSignals = 2
SPECIFICATION FairSpec
INVARIANT SamplingGoesOn
PROPERTIES
    Invisible
    ToolEnds
