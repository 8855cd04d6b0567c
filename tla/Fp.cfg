SPECIFICATION Spec
CONSTANTS
    F16 <- Fm16
    F32 <- Fm32
    F64 <- Fm64
    F128 <- Fm128
    F80 <- Fm80
    ExtraBits = 2
    JamBits = 3
    I32 <- MCI32
    UI32 <- MCUI32
    I64 <- MCI64
    UI64 <- MCUI64
    Pairs <- MCPairs
    Triples <- MCTriples
    Singles <- MCSingles
    Ints <- MCInts
    Sigs <- MCSigs
    Fixeds <- MCFixeds
    Aliased <- MCAliased
    FpInsns <- MCFpInsns
    MemInsns <- MCMemInsns
    CsrInsns <- MCCsrInsns
INVARIANTS ArithmeticRight DecisionsRight EmulatedRight
