CONSTANTS
    MaxSize = 1
    MaxFds = 1
    MaxTemps = 1
SPECIFICATION Spec
INVARIANT FdsClosed
