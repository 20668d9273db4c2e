SPECIFICATION Spec
CONSTANTS
    Bits = 8
    ImmLimit = 4
    IntArgs = 1
    FloatArgs = 1
    MaxArgs = 3
INVARIANTS ResultsExact ArgumentsArrive OnlyScratchChanges
