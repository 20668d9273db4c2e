SPECIFICATION Spec
CONSTANTS
    MaxBlocks = 24
    MaxValues = 160
    MaxFunctions = 4
    MaxEdges = 16
    MaxWork = 2000
    MaxRounds = 8
    Bits = 8
    MaxQuiet = 16
    MaxInlineInsts = 3
    MaxInlined = 6
    MaxLocalized = 2
    MaxVariants = 2
    MaxAddedFunctions = 2
    MaxAddedBlocks = 8
    MaxAddedInsts = 20
    MaxSpecializedInsts = 12
    MaxTrips = 4
    MaxCostlyTrips = 2
    MaxBodyInsts = 6
    MaxCloned = 16
    MaxSourceBlocks = 4
    MaxGeneralBlocks = 4
    MaxSourceInsts = 10
    MaxInstSlots = 12
    MaxCallsiteCost = 24
    MaxHoists = 2
    MaxPromotions = 2
    MaxCandidates = 6
    MaxNewValues = 40
    FunctionLimit <- MCFunctionLimit
    GeneralLimit <- MCFunctionLimit
    ModuleLimit <- MCModuleLimit
    RecursiveRounds = 2
    Inputs <- MCFlatGlobals
INVARIANT SameEvents
