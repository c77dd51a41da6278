CONSTANTS
    d = d
    e = e
    u = u
    f = f
    g = g
    h = h
    k = k
    Files <- MCFiles
    Entries <- MCEntries
    Names <- MCNames
    Path <- MCPath
    Destinations <- Present
    Output <- MCOutput
    Args <- MCWhole
    RemoteSource = TRUE
    OutputOption = TRUE
SPECIFICATION Spec
INVARIANT RecursiveOnRequest
\* A finished command takes no step.
CHECK_DEADLOCK FALSE
