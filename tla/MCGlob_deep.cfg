CONSTANTS
    Lines <- MCDeepLines
    Patterns <- MCPatterns
    Matching <- MCMatching
    Unescaped <- MCUnescaped
    Tree <- MCTree
    Dirs <- MCDirs
    Failing = FALSE
SPECIFICATION GlobSpec
INVARIANT ExpandsExactly
\* A globbed line takes no step.
CHECK_DEADLOCK FALSE
