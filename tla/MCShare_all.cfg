CONSTANTS
    d = d
    e = e
    b = b
    f = f
    g = g
    x = x
    top = top
    Dirs <- MCDirs
    Files <- MCFiles
    Added <- MCAdded
    Top = top
    Parent <- MCParent
    Args <- MCArgs
    ArgLists <- MCArgLists
    Rank <- MCRank
    Fit = 2
SPECIFICATION ShareSpec
INVARIANTS
    NothingSilent
    OnlyAsked
    StopsAtInterrupt
    AllHandlesClosed
    ListedTruly
\* A finished command takes no step.
CHECK_DEADLOCK FALSE
