CONSTANTS
    MaxSize = 2
    BufBlocks = 1
    MidCall = FALSE
    ZeroWrites = TRUE
SPECIFICATION Spec
INVARIANT SuccessComplete
