CONSTANTS
    d = d
    e = e
    u = u
    f = f
    g = g
    h = h
    k = k
    Files <- MCFiles
    Entries <- MCEntries
    Names <- MCNames
    Path <- MCPath
    Destinations <- Present
    Output <- MCOutput
    Args <- MCWhole
    RemoteSource = FALSE
    OutputOption = FALSE
SPECIFICATION Spec
INVARIANT DirectoriesClosed
\* A finished command takes no step.
CHECK_DEADLOCK FALSE
