CONSTANTS
    Lines <- MCBackslashLines
    Patterns <- MCPatterns
    Matching <- MCMatching
    Unescaped <- MCBackslashUnescaped
    Tree <- MCTree
    Dirs <- MCDirs
    Failing = FALSE
SPECIFICATION GlobSpec
INVARIANT ExpandsExactly
\* A globbed line takes no step.
CHECK_DEADLOCK FALSE
