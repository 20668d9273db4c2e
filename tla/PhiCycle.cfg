SPECIFICATION RunSpec
CONSTANTS
    Programs <- PhiCyclePrograms
    Literal <- MCLiteral
    MaxPreheaderBlocks = 6
    MaxConversions = 1
    MaxRounds = 20
    MaxQuiet = 30
INVARIANT
    ReplacementsResolve
