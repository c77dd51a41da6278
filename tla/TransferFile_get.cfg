\* Other clients may do anything.
CONSTANTS
    MaxSize = 4
    Rollback = 2
    RemoteSource = TRUE
SPECIFICATION Spec
INVARIANTS
    ResumeRepairs
    NothingBeyond
    HandlesGivenBack
PROPERTIES
    OnlyWithConsent
    ResumeKeeps
