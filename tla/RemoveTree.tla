----------------------------- MODULE RemoveTree -----------------------------
(***************************************************************************)
(* cmd_rm (cmds.c) and smbhlp_remove (smbhlp.c): remote files and, with    *)
(* -r, directories with all they contain are removed.  smbhlp_remove calls *)
(* itself for every entry; its activations that read a directory are the   *)
(* frames of a stack.  Other clients may add files meanwhile, any request  *)
(* may fail, and SIGINT may arrive between any two of them.                *)
(* (X_Fault: see CopyByFd.)                                                *)
(***************************************************************************)
EXTENDS Naturals, Sequences, FiniteSets, Tree

CONSTANT Args      \* the arguments after globbing

ASSUME RemoveAssumption ==
    /\ Dirs \cap (Files \cup Added) = {} /\ Top \notin Nodes
    /\ Parent \in [Nodes -> Dirs \cup {Top}]
    /\ Args \in Seq(Dirs \cup Files) \ {<<>>}

VARIABLES
    pc,        \* "arg", "stat", "unlink", "opendir", "entry", "rmdir" or "done"
    intr,      \* int_signal
    ropt,      \* option -r
    next,      \* index of the next argument
    node,      \* path
    stack,     \* activations of smbhlp_remove reading a directory
    handles,   \* directory handles that are open
    exists,    \* what exists on the server
    warned,    \* history: what a warning was printed about
    late       \* history: files and directories removed since SIGINT, up to 2

walk == <<next, node, stack>>
vars == <<pc, intr, ropt, walk, handles, exists, warned, late>>

Inside(d) == {n \in exists : Parent[n] = d}

\* The arguments and all that is below them.
Arguments == {Args[i] : i \in DOMAIN Args}
Downward  == {S \in SUBSET Nodes : \A n \in Nodes : Parent[n] \in S => n \in S}
Covered   == {n \in Nodes : \A S \in Downward : Arguments \subseteq S => n \in S}

Frame   == stack[Len(stack)]
Caller(s) == IF s = <<>> THEN "arg" ELSE "entry"

Returns == pc' = Caller(stack) /\ UNCHANGED walk
Warn    == warned' = warned \cup {node}

Remove ==
    /\ exists' = exists \ {node}
    /\ late' = IF intr /\ late < 2 THEN late + 1 ELSE late

-----------------------------------------------------------------------------
\* while (*argv != NULL && !int_signal)
ArgLoopEnds == intr \/ next > Len(Args)

NextArg ==
    /\ pc = "arg" /\ ~ArgLoopEnds
    /\ node' = Args[next] /\ next' = next + 1
    /\ pc' = IF ropt THEN "stat" ELSE "unlink"
    /\ UNCHANGED <<intr, ropt, stack, handles, exists, warned, late>>

CommandEnds ==
    /\ pc = "arg" /\ ArgLoopEnds /\ pc' = "done"
    /\ UNCHANGED <<intr, ropt, walk, handles, exists, warned, late>>

Stat ==
    /\ pc = "stat"
    /\ \/ /\ node \in exists
          /\ pc' = IF node \in Dirs THEN "opendir" ELSE "unlink"
          /\ UNCHANGED <<walk, warned>>
       \/ Returns /\ Warn
    /\ UNCHANGED <<intr, ropt, handles, exists, late>>

\* A directory cannot be unlinked.
Unlink ==
    /\ pc = "unlink" /\ Returns
    /\ \/ node \in exists \ Dirs /\ Remove /\ UNCHANGED warned
       \/ Warn /\ UNCHANGED <<exists, late>>
    /\ UNCHANGED <<intr, ropt, handles>>

\* Among the entries are `.' and `..', unless that is above the share.
Entries_Fault(d) == (Inside(d) \cup {d, Parent[d]}) \ {Top}
\* "avoid removing "." and ".." recursively"
Entries(d) == Inside(d)

\* libsmbclient reads the whole directory at once.
OpenDir ==
    /\ pc = "opendir"
    /\ \/ /\ node \in exists
          /\ stack' = Append(stack, [dir |-> node, todo |-> Entries(node)])
          /\ handles' = handles \cup {node} /\ pc' = "entry"
          /\ UNCHANGED <<next, node, warned>>
       \/ Returns /\ Warn /\ UNCHANGED handles
    /\ UNCHANGED <<intr, ropt, exists, late>>

MoreEntries_Fault == Frame.todo # {}
\* while (!int_signal && readdir ...)
MoreEntries == ~intr /\ Frame.todo # {}

\* smbhlp_remove for an entry, unless its path is too long: that is warned
\* of under the name of the directory.
NextEntry ==
    /\ pc = "entry" /\ MoreEntries
    /\ \E n \in Frame.todo :
          /\ stack' = [stack EXCEPT ![Len(stack)].todo = @ \ {n}]
          /\ \/ pc' = "stat" /\ node' = n /\ UNCHANGED warned
             \/ warned' = warned \cup {Frame.dir} /\ UNCHANGED <<pc, node>>
    /\ UNCHANGED <<intr, ropt, next, handles, exists, late>>

Leave(s) == stack' = s /\ pc' = Caller(s) /\ UNCHANGED next

ClosedAtInterrupt_Fault == handles
ClosedAtInterrupt == handles \ {Frame.dir}

Outer == SubSeq(stack, 1, Len(stack) - 1)

LeaveInterrupted ==
    /\ pc = "entry" /\ intr /\ Leave(Outer)
    /\ handles' = ClosedAtInterrupt
    /\ UNCHANGED <<intr, ropt, node, exists, warned, late>>

AfterCloseFails_Fault == warned
AfterCloseFails == warned \cup {Frame.dir}

(***************************************************************************)
(* The directory ends, or readdir fails, which smbhlp_remove cannot tell.  *)
(* If it cannot be closed it is left.                                      *)
(***************************************************************************)
CloseDir ==
    /\ pc = "entry" /\ ~intr
    /\ handles' = handles \ {Frame.dir} /\ node' = Frame.dir
    /\ \/ pc' = "rmdir" /\ stack' = Outer /\ UNCHANGED <<next, warned>>
       \/ Leave(Outer) /\ warned' = AfterCloseFails
    /\ UNCHANGED <<intr, ropt, exists, late>>

\* The server removes empty directories only.
Rmdir ==
    /\ pc = "rmdir" /\ Returns
    /\ \/ node \in exists /\ Inside(node) = {} /\ Remove /\ UNCHANGED warned
       \/ Warn /\ UNCHANGED <<exists, late>>
    /\ UNCHANGED <<intr, ropt, handles>>

-----------------------------------------------------------------------------
OtherAdds ==
    /\ pc # "done"
    /\ \E n \in Added : /\ n \notin exists /\ Parent[n] \in exists \cup {Top}
                        /\ exists' = exists \cup {n}
    /\ UNCHANGED <<pc, intr, ropt, walk, handles, warned, late>>

Interrupt ==
    /\ pc # "done" /\ ~intr /\ intr' = TRUE
    /\ UNCHANGED <<pc, ropt, walk, handles, exists, warned, late>>

Init ==
    /\ pc = "arg" /\ intr = FALSE /\ ropt \in BOOLEAN
    /\ next = 1 /\ node = Args[1] /\ stack = <<>> /\ handles = {}
    /\ exists = Dirs \cup Files /\ warned = {} /\ late = 0

Next ==
    \/ NextArg \/ CommandEnds \/ Stat \/ Unlink \/ OpenDir \/ NextEntry
    \/ LeaveInterrupted \/ CloseDir \/ Rmdir
    \/ OtherAdds \/ Interrupt

Spec == Init /\ [][Next]_vars

-----------------------------------------------------------------------------
TypeOK ==
    /\ pc \in {"arg", "stat", "unlink", "opendir", "entry", "rmdir", "done"}
    /\ intr \in BOOLEAN /\ ropt \in BOOLEAN
    /\ next \in 1 .. Len(Args) + 1 /\ node \in Nodes
    /\ stack \in Seq([dir : Dirs, todo : SUBSET Nodes])
    /\ handles \subseteq Dirs /\ exists \subseteq Nodes
    /\ warned \subseteq Nodes /\ late \in 0 .. 2

(***************************************************************************)
(* Nothing stays behind in silence: after a command that was not           *)
(* interrupted, whatever is left of the arguments was warned of, or a      *)
(* directory above it was, also when a directory could only be read in     *)
(* part or others added to it (smbhlp.c:212-269).                          *)
(***************************************************************************)
NothingSilent ==
    pc = "done" /\ ~intr =>
       \A n \in exists \cap Covered : Above[n] \cap Covered \cap warned # {}

(***************************************************************************)
(* Nothing is removed but the arguments and what is in them; without -r,   *)
(* no directory (smbhlp.c:201-216, 233-235).                               *)
(***************************************************************************)
OnlyAsked ==
    /\ (Dirs \cup Files) \ Covered \subseteq exists
    /\ ~ropt => Dirs \subseteq exists

\* After SIGINT at most the file or directory whose turn had come is removed
\* (smbhlp.c:232, 253, cmds.c:912).
StopsAtInterrupt == late <= 1

\* Every directory handle is closed, also after SIGINT (smbhlp.c:252-261).
HandlesClosed == pc = "done" => handles = {}
=============================================================================
