CONSTANTS
    MaxSize = 3
    Rollback = 1
    RemoteSource = FALSE
SPECIFICATION Spec
INVARIANT HandlesGivenBack
