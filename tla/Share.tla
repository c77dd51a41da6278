------------------------------- MODULE Share -------------------------------
(***************************************************************************)
(* Two users of samblah on one share: one of them removes (RemoveTree)     *)
(* what the other is listing (ListTree).  They share what exists on the    *)
(* server and nothing else; each has an int_signal and handles of its own. *)
(***************************************************************************)
EXTENDS RemoveTree

CONSTANTS Rank, ArgLists, Fit     \* see ListTree

ASSUME ShareAssumption ==
    /\ Rank \in [Nodes -> Nat] /\ ArgLists \subseteq Seq(Nodes) /\ Fit \in Nat
    /\ \A n \in Nodes : Parent[n] # Top => n \notin Above[Parent[n]]

VARIABLES lpc, lintr, lropt, args, k, dir, todo, got, lstack, open, shown, failed

lvars == <<lpc, lintr, lropt, args, k, dir, todo, got, lstack, open, shown, failed>>

List == INSTANCE ListTree WITH pc <- lpc, intr <- lintr, ropt <- lropt, stack <- lstack

ShareInit == Init /\ List!Init

ShareNext ==
    \/ Next /\ UNCHANGED lvars
    \/ List!Next /\ UNCHANGED <<pc, intr, ropt, walk, handles, warned, late>>

ShareSpec == ShareInit /\ [][ShareNext]_<<vars, lvars>>

-----------------------------------------------------------------------------
\* See ListTree: also while the other user removes what is being listed.
ListedTruly == List!ListedTruly

(***************************************************************************)
(* Both users give every directory handle back, also after SIGINT          *)
(* (smbhlp.c:252-261, cmdls.c:189-200), and ls has none when it goes into  *)
(* a directory below.                                                      *)
(***************************************************************************)
AllHandlesClosed == HandlesClosed /\ (lpc # "read" => ~open)
=============================================================================
