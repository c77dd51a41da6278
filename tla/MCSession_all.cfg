CONSTANTS
    alice = alice
    bob = bob
    secret = secret
    share = share
    top = top
    sub = sub
    Users <- MCUsers
    Passes <- MCPasses
    Places <- MCPlaces
    Dirs <- MCDirs
    Root = top
    MaxArgs = 2
SPECIFICATION Spec
INVARIANTS
    ConnectedAsAsked
    FilesAsUser
    ListingsAsAsked
    StopsAtInterrupt
\* The program exits.
CHECK_DEADLOCK FALSE
