\* SIGALRM never meets a system call halfway, writes accept something.
CONSTANTS
    MaxSize = 3
    BufBlocks = 2
    MidCall = FALSE
    ZeroWrites = FALSE
SPECIFICATION FairSpec
INVARIANTS
    AlarmConfined
    SuccessComplete
PROPERTIES
    RefinesFileCopy
    Returns
