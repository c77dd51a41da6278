------------------------------ MODULE MCShare ------------------------------
(***************************************************************************)
(* A share for Share: d contains e and f, e contains b, b contains g, and  *)
(* others may add a file to e.  rm gets g, and e above it; ls gets e, or g *)
(* and b.                                                                  *)
(***************************************************************************)
EXTENDS Share, TLC

CONSTANTS d, e, b, f, g, x, top     \* model values

MCDirs   == {d, e, b}
MCFiles  == {f, g}
MCAdded  == {x}
MCParent == (d :> top) @@ (e :> d) @@ (f :> d) @@ (b :> e) @@ (g :> b)
               @@ (x :> e)
MCArgs     == <<g, e>>
MCArgLists == {<<e>>, <<g, b>>}
MCRank     == (d :> 1) @@ (e :> 2) @@ (f :> 3) @@ (g :> 4) @@ (b :> 5) @@ (x :> 6)
=============================================================================
