SPECIFICATION Spec
CONSTANTS
    Sizes = {1, 2}
    Bounds <- MCBounds
    SndBufSize = 2
    None = None
INVARIANTS
    LostAreListed
PROPERTIES
    ImplementsStream
    Delivered
CHECK_DEADLOCK FALSE
