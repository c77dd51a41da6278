CONSTANTS
    MaxSize = 3
    MaxFds = 2
    MaxTemps = 2
SPECIFICATION Spec
INVARIANTS
    WholeFileShown
    NothingLeft
