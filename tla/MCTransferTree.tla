--------------------------- MODULE MCTransferTree ---------------------------
(***************************************************************************)
(* A small source for TransferTree: a directory d with a directory e in    *)
(* it, and ../u.  Arguments name a directory below another, a file twice   *)
(* (once by itself), and everything; the files h and k have one name, and, *)
(* as arguments go, one destination.                                       *)
(***************************************************************************)
EXTENDS TransferTree

CONSTANTS d, e, u, f, g, h, k      \* model values: directories d, e, u; files

MCFiles   == {f, g, h, k}
MCEntries == [n \in {d, e, u} |-> CASE n = d -> <<f, e>> [] n = e -> <<g, h>> [] n = u -> <<k>>]
MCArgs    == <<e, h, d, u>>
MCWhole   == <<d>>

MCNames == {"/", "..", "d", "e", "u", "f", "g", "h", "o"}
MCPath  == [n \in {d, e, u, f, g, h, k} |->
              CASE n = d -> <<"d">>           [] n = e -> <<"d", "e">>
                [] n = f -> <<"d", "f">>      [] n = g -> <<"d", "e", "g">>
                [] n = h -> <<"d", "e", "h">> [] n = u -> <<"..", "u">>
                [] n = k -> <<"..", "u", "h">>]
MCOutput == <<"o">>

\* Each of these may be there, and be a file; d, d/e and h may be directories.
Places == {<<"d">>, <<"d", "e">>, <<"d", "f">>, <<"d", "e", "g">>, <<"h">>}
MCDestinations ==
    {D \in [dirs : SUBSET {<<"d">>, <<"d", "e">>, <<"h">>}, files : SUBSET Places] :
       /\ D.dirs \cap D.files = {}
       /\ \A p \in D.dirs \cup D.files : Parents(p) \subseteq D.dirs}
Present == {[dirs |-> D.dirs \cup {<<>>}, files |-> D.files] : D \in MCDestinations}
=============================================================================
