SPECIFICATION Spec
CONSTANTS
    Graphs <- MCGraphs
    MaxLayoutBlocks = 7
    MaxRotatedLoops = 2
INVARIANTS
    TypeOK
    OrderComplete
PROPERTY FollowsControlFlow
