------------------------------ MODULE Globbing ------------------------------
(***************************************************************************)
(* Glob, with names for its variables that differ from those of Line, so   *)
(* that one module can speak of both.                                      *)
(***************************************************************************)
CONSTANTS Lines, Patterns, Matching, Unescaped, Tree, Dirs, Failing     \* see Glob

VARIABLES globbing, globintr, tokens, globpos, call, cut, stack, matched, typedline, failed

Glb == INSTANCE Glob WITH
    pc <- globbing, intr <- globintr, pos <- globpos, found <- matched,
    line <- typedline

ASSUME GlobAssumption == Glb!WellFormed

GlobSpec == Glb!Spec

-----------------------------------------------------------------------------
\* A command gets exactly the files its patterns match, in order (see Glob).
ExpandsExactly == Glb!ExpandsExactly

\* Globbing ends (see Glob).
Terminates == Glb!Terminates

\* GLB_OK means that no directory failed (see Glob).
ErrorsReported == Glb!ErrorsReported
=============================================================================
