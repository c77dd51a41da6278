CONSTANTS
    Lines <- MCLines
    Patterns <- MCPatterns
    Matching <- MCMatching
    Unescaped <- MCUnescaped
    Tree <- MCTree
    Dirs <- MCDirs
    Failing = TRUE
SPECIFICATION GlobSpec
INVARIANT ExpandsExactly
PROPERTY Terminates
\* A globbed line takes no step.
CHECK_DEADLOCK FALSE
