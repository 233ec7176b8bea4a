CONSTANTS
    Inputs <- Tilemaps
    Window = 4096
    MaxMatch = 18
    FlagBits = 8
    SizeModulus = 65536
    Escape = 26
    Lengths = 64
    Middles = 4
    Lows = 256
SPECIFICATION Spec
INVARIANT TilemapReturns
CHECK_DEADLOCK FALSE
