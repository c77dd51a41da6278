\* All behaviours of the signals and of write: what holds whatever happens.
CONSTANTS
    MaxSize = 3
    BufBlocks = 2
    MidCall = TRUE
    ZeroWrites = TRUE
SPECIFICATION Spec
INVARIANTS
    Integrity
    HandlesClosedOnce
    ErrnoTellsCause
    ProgressHonest
    PromptStop
\* A signal may kill the process.
CHECK_DEADLOCK FALSE
