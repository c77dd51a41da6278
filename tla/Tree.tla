-------------------------------- MODULE Tree --------------------------------
(* The directories and files of a share. *)

CONSTANTS
    Dirs, Files,   \* the directories and files of the share, except for
    Top,           \* the one everything is in
    Parent,        \* where each of them is
    Added          \* files other clients may create

Nodes == Dirs \cup Files \cup Added

\* n and all directories above it.
Upward == {S \in SUBSET Nodes : \A n \in S : Parent[n] \in S \cup {Top}}
Above  == [n \in Nodes |-> {a \in Nodes : \A S \in Upward : n \in S => a \in S}]
=============================================================================
