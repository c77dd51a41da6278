CONSTANTS
    d = d
    e = e
    f = f
    g = g
    x = x
    y = y
    root = root
    none = none
    Dirs <- MCDirs
    Files <- MCFiles
    Root = root
    None = none
    Names <- MCNames
    Initial <- MCInitial
    ArgLists <- MCArgLists
SPECIFICATION Spec
INVARIANTS


    LastIsDirectory
\* A finished command takes no step.
CHECK_DEADLOCK FALSE
