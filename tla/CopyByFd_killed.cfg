CONSTANTS
    MaxSize = 1
    BufBlocks = 1
    MidCall = TRUE
    ZeroWrites = FALSE
SPECIFICATION Spec
INVARIANT NeverKilled
CHECK_DEADLOCK FALSE
