------------------------------- MODULE MCLine -------------------------------
(***************************************************************************)
(* Small lines: the blank, the quote, a star, the backslash and the        *)
(* letters a and b.  The command a works on remote files, b on local ones; *)
(* put is called bb.                                                       *)
(***************************************************************************)
EXTENDS Line

CONSTANTS null, undefined     \* model values

MCLetters  == {Blank, Quote, Star, Backslash, 97, 98}
MCCommands == {<<97>>, <<98>>, <<98, 98>>}
MCOnShare  == {<<97>>, <<98, 98>>}
MCPut      == <<98, 98>>

\* Remote: `a a', `a*', `a*''; local: `b'a', `b\', `b \b'.
MCRemote == {<<97, 32, 97>>, <<97, 42>>, <<97, 42, 39>>}
MCLocal  == {<<98, 39, 97>>, <<98, 92>>, <<98, 32, 92, 98>>}

\* Words: -l, -lo, -ol, -o, -x, -lx, --, -, the empty word, p, and a pattern.
MCWords ==
    {<<45, 108>>, <<45, 108, 111>>, <<45, 111, 108>>, <<45, 111>>, <<45, 108, 120>>,
     <<45, 45>>, <<45>>, <<>>, <<112>>, <<42>>}
MCWordLists  == {<<<<97>>>>} \cup {<<<<97>>, v>> : v \in MCWords}
                    \cup {<<<<97>>, v, w>> : v, w \in MCWords}
MCPattern    == <<42>>
MCFoundLists == {<<<<112>>>>, <<<<45, 108>>, <<112>>>>, <<<<112>>, <<112>>, <<113>>>>}
MCPlain      == {108}
MCWithArg    == {111}
MCDash       == 45

MCComps  == {"", ".", "..", "u", "v"}
MCInputs == [absolute : BOOLEAN, comps : UNION {[1 .. n -> MCComps] : n \in 1 .. 4}]
MCLength == [c \in MCComps |-> IF c = "" THEN 0 ELSE IF c = ".." THEN 2 ELSE 1]
=============================================================================
