SPECIFICATION FairSpec
CONSTANTS
    IntLocation <- MCIntLocation
    FloatLocation <- MCFloatLocation
    Remat <- MCRemat
    Before <- MCBefore
    Edges <- MCEdges
    Junk = junk
    MaxParallelPhiCopies = 4
INVARIANT TypeOK
PROPERTY CycleScratchFree ImplementsParallelMove Termination
CHECK_DEADLOCK FALSE
