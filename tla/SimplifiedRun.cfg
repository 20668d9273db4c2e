SPECIFICATION RunSpec
CONSTANTS
    Programs <- MCPrograms
    Literal <- MCLiteral
    MaxPreheaderBlocks = 6
    MaxConversions = 1
    MaxRounds = 20
    MaxQuiet = 30
INVARIANTS
    SameEvents
    ReadyForBackEnd
    PreheadersKept
    RoundsEnd
