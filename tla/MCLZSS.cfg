CONSTANTS
    Inputs <- ShortInputs
    Window = 5
    MaxMatch = 5
    FlagBits = 3
    SizeModulus = 16
    Escape = 2
    Lengths = 8
    Middles = 2
    Lows = 2
SPECIFICATION Spec
INVARIANTS
    TypeOK
    RoundTrip
    WholeRead
    TilesReturn
CHECK_DEADLOCK FALSE
