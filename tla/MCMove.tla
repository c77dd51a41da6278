------------------------------- MODULE MCMove -------------------------------
(***************************************************************************)
(* A share for Move: directories d and e, file f, and file g in e.  Others *)
(* may make a directory x and a file y.                                    *)
(***************************************************************************)
EXTENDS Move, TLC

CONSTANTS d, e, f, g, x, y, root, none     \* model values

MCDirs    == {d, e, x}
MCFiles   == {f, g, y}
MCNames   == {"d", "e", "f", "n"}
MCInitial == (d :> <<root, "d">>) @@ (e :> <<root, "e">>) @@ (f :> <<root, "f">>)
                @@ (g :> <<e, "f">>) @@ (x :> none) @@ (y :> none)

\* `mv f e' meets a file of the name f in e, `mv e/f d' keeps the path e/f.
MCArgLists ==
    {<<p>> : p \in {<<"f">>}} \cup
    {<<p, q>> : p, q \in {<<"f">>, <<"d">>, <<"e">>, <<"e", "f">>, <<"n">>}} \cup
    {<<<<"f">>, <<"d">>, <<"e", "f">>>>, <<<<"d">>, <<"f">>, <<"e">>>>,
     <<<<"d">>, <<"e", "f">>, <<"f">>>>}
=============================================================================
