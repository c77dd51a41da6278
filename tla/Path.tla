-------------------------------- MODULE Path --------------------------------
(***************************************************************************)
(* Remote paths (smbwrap.c): evalpath, which rewrites a string in place,   *)
(* and smb_chdir and evaluri, which call it.  A path that begins with a    *)
(* slash is the sequence of what is between its slashes; `' is what is     *)
(* between two that follow each other.  Of the lengths of names only their *)
(* sum is kept, for the buffer.  (X_Fault: see CopyByFd.)                  *)
(***************************************************************************)
EXTENDS Integers, SequencesExt

CONSTANTS
    Inputs,     \* paths of users: [absolute, comps], comps not being empty
    Length,     \* the length of a component
    MaxPath     \* SMB_PATH_MAXLEN

VARIABLES
    cwd,        \* smb_path
    uri,        \* the path of the last request
    asserted,   \* has assert(r) held?
    place,      \* history: the directory the user is in
    target      \* history: what the last request is for

vars == <<cwd, uri, asserted, place, target>>

Strlen(path) ==
    LET sum[n \in 0 .. Len(path)] == IF n = 0 THEN 0 ELSE sum[n - 1] + 1 + Length[path[n]]
    IN  sum[Len(path)]

Others(path, c) ==
    LET kept[n \in 0 .. Len(path)] ==
          IF n = 0 THEN <<>>
          ELSE IF path[n] = c THEN kept[n - 1] ELSE Append(kept[n - 1], path[n])
    IN  kept[Len(path)]
Without(path, c) == Append(Others(Front(path), c), Last(path))

\* Everything between the slash in front of the first `..' and the one behind.
Before(i) == IF i = 1 THEN 0 ELSE i - 2

Ups(path) == {i \in 1 .. Len(path) - 1 : path[i] = ".."}

UpOnce(path) ==
    LET i == CHOOSE j \in Ups(path) : \A m \in Ups(path) : j <= m
    IN  IF Ups(path) = {} THEN path
        ELSE SubSeq(path, 1, Before(i)) \o SubSeq(path, i + 1, Len(path))

\* Each time the path becomes shorter.
AllUp(path) ==
    LET after[n \in 0 .. Len(path)] == IF n = 0 THEN path ELSE UpOnce(after[n - 1])
    IN  after[Len(path)]

\* A last `.' or `..', and a slash at the end.
EndUp(path) ==
    IF Last(path) # ".." THEN path
    ELSE SubSeq(path, 1, Before(Len(path))) \o <<"">>
EndDot(path)   == IF Last(path) = "." THEN Append(Front(path), "") ELSE path
EndSlash(path) == IF Len(path) > 1 /\ Last(path) = "" THEN Front(path) ELSE path

Joined(old, new) == IF new.absolute THEN new.comps ELSE old \o new.comps

Rewrite(path) ==
    EndSlash(EndUp(AllUp(EndDot(Without(Without(path, ""), ".")))))

\* The path stays as it is if the result does not fit.
EvalFits(old, new) == Strlen(Rewrite(Joined(old, new))) <= MaxPath
Evalpath(old, new) == IF EvalFits(old, new) THEN Rewrite(Joined(old, new)) ELSE old

NewLength(new) == Strlen(new.comps) - (IF new.absolute THEN 0 ELSE 1)
Fits(old, new) == Strlen(old) + 1 + NewLength(new) <= MaxPath

Restored_Fault(new) == Evalpath(cwd, new)
\* strcpy(smb_path, save)
Restored(new) == cwd

-----------------------------------------------------------------------------
\* The same, one component after the other, the root being <<>>.
Step(at, c) ==
    IF c \in {"", "."} THEN at
    ELSE IF c = ".." THEN SubSeq(at, 1, Len(at) - 1)
    ELSE Append(at, c)
Way(at, comps) ==
    LET way[n \in 0 .. Len(comps)] == IF n = 0 THEN at ELSE Step(way[n - 1], comps[n])
    IN  way[Len(comps)]
Walk(at, new) == Way(IF new.absolute THEN <<>> ELSE at, new.comps)

\* evaluri: smb_path holds the new path for a moment.
Request(new) ==
    /\ IF Fits(cwd, new)
       THEN uri' = Evalpath(cwd, new) /\ target' = Walk(place, new) /\ cwd' = Restored(new)
       ELSE UNCHANGED <<uri, target, cwd>>
    /\ UNCHANGED <<asserted, place>>

\* smb_chdir: the directory is opened first, which may fail.
Chdir(new) ==
    /\ \/ /\ Fits(cwd, new)
          /\ uri' = Evalpath(cwd, new) /\ target' = Walk(place, new)
          /\ \/ /\ cwd' = Evalpath(cwd, new) /\ asserted' = EvalFits(cwd, new)
                /\ place' = Walk(place, new)
             \/ UNCHANGED <<cwd, asserted, place>>
       \/ ~Fits(cwd, new) /\ UNCHANGED vars

\* The URI is in a buffer of the function that asks for it.
NextRequest ==
    /\ uri' = <<"">> /\ target' = <<>> /\ UNCHANGED <<cwd, asserted, place>>

Init ==
    /\ cwd = <<"">> /\ uri = <<"">> /\ asserted = TRUE
    /\ place = <<>> /\ target = <<>>

-----------------------------------------------------------------------------
AsPath(at) == IF at = <<>> THEN <<"">> ELSE at

(***************************************************************************)
(* Requests go to the path the user means and cd leads where it leads one  *)
(* component after the other, through any number of commands; the working  *)
(* directory fits its buffer, and the assertion that a directory which     *)
(* could be opened can be changed to holds (smbwrap.c:148-175, 612-695).   *)
(***************************************************************************)
PathsEvaluated ==
    /\ cwd = AsPath(place) /\ uri = AsPath(target)
    /\ Strlen(cwd) <= MaxPath /\ asserted
=============================================================================
