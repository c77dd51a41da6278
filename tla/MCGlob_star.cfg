CONSTANTS
    Lines <- MCStarLines
    Patterns <- MCStarPatterns
    Matching <- MCStarMatching
    Unescaped <- MCUnescaped
    Tree <- MCStarTree
    Dirs <- MCStarDirs
    Failing = FALSE
SPECIFICATION GlobSpec
PROPERTY Terminates
\* A globbed line takes no step.
CHECK_DEADLOCK FALSE
