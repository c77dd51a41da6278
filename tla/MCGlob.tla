------------------------------- MODULE MCGlob -------------------------------
(***************************************************************************)
(* Small trees for Glob: directories 1 and 2, with files of the same       *)
(* names, file 3, and below 2 another directory; and a directory with one  *)
(* file that is called `*'.                                                *)
(***************************************************************************)
EXTENDS Naturals, Globbing

\* 10 is `*', 11 `[45]*', 12 `[12]', and 13 a pattern no file matches; 14 is
\* 11 quoted, and 15 is 2 with a backslash before it; 9 is a name no file has.
MCPatterns == {10, 11, 12, 13}
MCMatching == [p \in MCPatterns |->
    CASE p = 10 -> 1 .. 6 [] p = 11 -> {4, 5} [] p = 12 -> {1, 2} [] p = 13 -> {}]

\* 4 has a backslash in its name, too; no file is called 7 or 8.
MCUnescaped == [c \in {4, 13, 14, 15} |->
    CASE c = 4 -> 7 [] c = 13 -> 8 [] c = 14 -> 11 [] c = 15 -> 2]

MCDirs == {<<>>, <<1>>, <<2>>, <<2, 5>>}
MCTree == {<<1>>, <<2>>, <<3>>, <<1, 4>>, <<1, 5>>, <<2, 4>>, <<2, 5>>, <<2, 5, 6>>}

\* At most one component follows the first wildcard.
MCTokens == {<<10>>, <<10, 5>>, <<12, 11>>, <<2, 10>>, <<2, 5, 10>>, <<2, 11, 6>>,
             <<9>>, <<9, 10>>, <<3>>, <<2, 4>>, <<13>>, <<14>>, <<15, 5>>}
MCLines  == {<<t, u>> : t, u \in MCTokens} \cup {<<>>}

\* `*/5/6', two components behind a wildcard.
MCDeepLines == {<<<<10, 5, 6>>>>}

\* A backslash before a pattern, and in what comes last of its matches.
MCBackslashLines     == {<<<<15, 10>>>>, <<<<2, 10>>>>}
MCBackslashUnescaped == [c \in {5, 15} |-> IF c = 5 THEN 7 ELSE 2]

\* The file `*'.
MCStarPatterns == {10}
MCStarMatching == [p \in {10} |-> {10}]
MCStarTree     == {<<10>>}
MCStarDirs     == {<<>>}
MCStarLines    == {<<<<10>>>>}
=============================================================================
