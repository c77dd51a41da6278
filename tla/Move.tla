-------------------------------- MODULE Move --------------------------------
(***************************************************************************)
(* cmd_mv (cmds.c) and smbhlp_move (smbhlp.c): something is renamed, or    *)
(* things are moved into a directory, with requests that rely on what      *)
(* earlier requests saw while other clients change the share.  A path is a *)
(* sequence of names; the share is a function from things to their places, *)
(* so what is in a directory moves with it.  (X_Fault: see CopyByFd.)      *)
(***************************************************************************)
EXTENDS Naturals, SequencesExt

CONSTANTS
    Dirs, Files,   \* what is on the share, or will be put there by others
    Root, None,    \* the directory paths begin in; nothing
    Names,         \* the names paths are made of
    Initial,       \* where each thing is at the start, None if nowhere
    ArgLists       \* the arguments mv may be given, after globbing

Things == Dirs \cup Files
Places == (Dirs \cup {Root}) \X Names
Paths  == Seq(Names) \ {<<>>}

ASSUME MoveAssumption ==
    /\ Dirs \cap Files = {} /\ {Root, None} \cap Things = {} /\ Root # None
    /\ None \notin (Things \cup {Root, None}) \X Names
    /\ ArgLists \subseteq Seq(Paths)

\* No two things are in one place, and the directory of each is there.
ASSUME ShareAssumption ==
    /\ Initial \in [Things -> Places \cup {None}]
    /\ \A t, u \in Things : Initial[t] = Initial[u] => t = u \/ Initial[t] = None
    /\ \A t \in Things : Initial[t] # None /\ Initial[t][1] \in Dirs =>
          Initial[Initial[t][1]] # None

VARIABLES
    pc,        \* "count", "last", "first", "second", "rename" or "done"
    intr,      \* int_signal
    args,      \* argv
    i,         \* the argument whose turn it is
    below,     \* is the target below the last argument, or is it that?
    place,     \* where each thing is: a directory and a name in it
    warned,    \* history: arguments a warning was printed about
    moved,     \* history: what each argument named when it was renamed
    blind,     \* history: stat failed although something was there
    meddled    \* history: what other clients made or removed

command == <<args, i, below>>
history == <<warned, moved, blind>>
vars == <<pc, intr, command, place, history, meddled>>

-----------------------------------------------------------------------------
In(pl, d, n) ==
    IF \E t \in Things : pl[t] = <<d, n>>
    THEN CHOOSE t \in Things : pl[t] = <<d, n>> ELSE None

\* What a path leads to, name after name, when things are where pl says.
Walk(pl, path) ==
    LET at[k \in 0 .. Len(path)] ==
          IF k = 0 THEN Root ELSE In(pl, at[k - 1], path[k])
    IN  at

\* What a path names, and everything it passes through.
At(path)      == Walk(place, path)[Len(path)]
Through(path) == {Walk(place, path)[k] : k \in 0 .. Len(path) - 1}
IsDir(t)      == t \in Dirs \cup {Root}

LastArg == args[Len(args)]

\* targetpath: the last argument, a slash and the whole of the other one.
Target(k) == IF below THEN LastArg \o args[k] ELSE LastArg

\* The server renames whatever there is; libsmbclient removes a file that is
\* in the way, and then may still fail.
Replaced(t) == IF t = None THEN place ELSE [place EXCEPT ![t] = None]

Renamed(from, to) ==
    LET what == At(from)  there == At(to)  parent == At(Front(to)) IN
    /\ what \in Things /\ IsDir(parent) /\ what \notin Through(to)
    /\ there # what /\ there \in Files \cup {None}
    /\ place' = [Replaced(there) EXCEPT ![what] = <<parent, Last(to)>>]

NotRenamed(to) ==
    \/ place' = place
    \/ At(to) \in Files /\ place' = Replaced(At(to))

Warn   == warned' = warned \cup {i}
Refuse == pc' = "done" /\ warned' = DOMAIN args

-----------------------------------------------------------------------------
Count ==
    /\ pc = "count"
    /\ \/ Len(args) < 2 /\ Refuse
       \/ Len(args) = 2 /\ pc' = "first" /\ UNCHANGED warned
       \/ Len(args) > 2 /\ pc' = "last" /\ UNCHANGED warned
    /\ UNCHANGED <<intr, command, place, moved, blind, meddled>>

(***************************************************************************)
(* "last argument must be directory": the test is the other way round, so  *)
(* it must be anything but a directory.                                    *)
(***************************************************************************)
StatLast ==
    /\ pc = "last"
    /\ \/ /\ At(LastArg) \notin Dirs \cup {Root, None}
          /\ pc' = "rename" /\ below' = TRUE /\ UNCHANGED warned
       \/ Refuse /\ UNCHANGED below
    /\ UNCHANGED <<intr, args, i, place, moved, blind, meddled>>

StatFirst ==
    /\ pc = "first"
    /\ \/ At(args[1]) # None /\ pc' = "second" /\ UNCHANGED warned
       \/ Refuse
    /\ UNCHANGED <<intr, command, place, moved, blind, meddled>>

AfterStat_Fault(t) == "rename"
\* A file in the place of the second argument is not replaced.
AfterStat(t) == IF t = None \/ IsDir(t) THEN "rename" ELSE "done"

\* Any failure of the second stat is taken for nothing being there.
StatSecond ==
    /\ pc = "second"
    /\ \E seen \in {At(LastArg), None} :
          /\ below' = IsDir(seen) /\ blind' = (seen # At(LastArg))
          /\ pc' = AfterStat(seen)
          /\ warned' = IF pc' = "done" THEN DOMAIN args ELSE warned
    /\ UNCHANGED <<intr, args, i, place, moved, meddled>>

\* for (i = 0; !int_signal && i < argnum - 1; ++i); of two arguments the
\* first is renamed without a look at int_signal.
LoopEnds == i = Len(args) \/ (intr /\ Len(args) > 2)

AfterFailure_Fault == UNCHANGED warned
AfterFailure == Warn

\* The path of the target may be too long, which is one of the failures.
Rename ==
    /\ pc = "rename" /\ ~LoopEnds /\ i' = i + 1
    /\ \/ /\ Renamed(args[i], Target(i)) /\ UNCHANGED warned
          /\ moved' = [moved EXCEPT ![i] = At(args[i])]
       \/ NotRenamed(Target(i)) /\ AfterFailure /\ UNCHANGED moved
    /\ UNCHANGED <<pc, intr, args, below, blind, meddled>>

CommandEnds ==
    /\ pc = "rename" /\ LoopEnds /\ pc' = "done"
    /\ UNCHANGED <<intr, command, place, history, meddled>>

-----------------------------------------------------------------------------
\* Another client removes something, with what is in it, or makes something.
OtherClient ==
    /\ pc # "done"
    /\ \E t \in Things :
          \/ place[t] # None /\ place' = [place EXCEPT ![t] = None]
          \/ /\ place[t] = None
             /\ \E p \in ToSet(args) :
                   /\ At(p) = None /\ IsDir(At(Front(p)))
                   /\ place' = [place EXCEPT ![t] = <<At(Front(p)), Last(p)>>]
          /\ t \notin meddled /\ meddled' = meddled \cup {t}
    /\ UNCHANGED <<pc, intr, command, history>>

Interrupt ==
    /\ pc # "done" /\ ~intr /\ intr' = TRUE
    /\ UNCHANGED <<pc, command, place, history, meddled>>

Init ==
    /\ pc = "count" /\ intr = FALSE /\ place = Initial
    /\ args \in ArgLists /\ i = 1 /\ below = FALSE
    /\ warned = {} /\ moved = [k \in DOMAIN args |-> None] /\ blind = FALSE
    /\ meddled = {}

Next ==
    \/ Count \/ StatLast \/ StatFirst \/ StatSecond \/ Rename \/ CommandEnds
    \/ OtherClient \/ Interrupt

Spec == Init /\ [][Next]_vars

-----------------------------------------------------------------------------
TypeOK ==
    /\ pc \in {"count", "last", "first", "second", "rename", "done"}
    /\ args \in ArgLists /\ i \in Nat \ {0} /\ (pc = "rename" => i <= Len(args))
    /\ intr \in BOOLEAN /\ below \in BOOLEAN /\ blind \in BOOLEAN
    /\ place \in [Things -> Places \cup {None}]
    /\ warned \subseteq DOMAIN args /\ meddled \subseteq Things
    /\ moved \in [DOMAIN args -> Things \cup {None}]

Removed == {t \in meddled : Initial[t] # None}

(***************************************************************************)
(* Everything is moved or warned of: an argument whose turn has come, and  *)
(* every one if SIGINT did not end the command, is warned of, or what it   *)
(* named is at or below the last argument, under its whole path, unless    *)
(* others removed it or a directory.                                       *)
(* This holds also when the last argument becomes a directory between the  *)
(* stat and the renames (smbhlp.c:120-196).                                *)
(***************************************************************************)
MovedOrTold ==
    \A k \in 1 .. Len(args) - 1 :
       k < i \/ (pc = "done" /\ ~intr) =>
          \/ k \in warned
          \/ moved[k] # None /\ moved[k] \in {At(LastArg), At(LastArg \o args[k])}
          \/ Removed \cap (Dirs \cup {moved[k]}) # {}

(***************************************************************************)
(* No file that others leave alone is lost, unless something of its name   *)
(* is moved into a directory, or it could not be seen: the name of a file  *)
(* as a second argument is refused (smbhlp.c:164-196).                     *)
(***************************************************************************)
NothingLost ==
    \A f \in Files \ meddled :
       Initial[f] # None /\ place[f] = None =>
          \/ blind
          \/ below /\ \E k \in 1 .. i : Last(args[k]) = Initial[f][2]

\* "last argument must be directory" (smbhlp.c:128): more than one thing is
\* moved only if the last argument is one.
LastIsDirectory ==
    pc = "rename" /\ Len(args) > 2 /\ meddled = {} => At(LastArg) \in Dirs
=============================================================================
