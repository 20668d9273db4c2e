CONSTANT Graphs <- MCGraphs
SPECIFICATION Spec
INVARIANTS
    TypeOK
    FingersProcessed
    LinksClimb
    DominatesExact
    FrontierExact
    AvailabilityExact
PROPERTY DominatorsOnlyRise
