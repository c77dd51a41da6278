-------------------------------- MODULE Page --------------------------------
(***************************************************************************)
(* The command page (cmds.c) and transfer_get_fd (transfer.c): a remote    *)
(* file is copied to a temporary file, which the pager is started on.      *)
(* The copy is the one FileCopy describes, which copybyfd implements; here *)
(* are its caller's error paths, SIGINT, and what remains of a command     *)
(* when the next one is given.  (X_Fault: see CopyByFd.)                   *)
(***************************************************************************)
EXTENDS Naturals

CONSTANTS
    MaxSize,    \* bound: blocks of the largest file
    MaxFds,     \* the descriptors the process may open
    MaxTemps    \* bound: temporary files that can be there

ASSUME PageAssumption == MaxSize \in Nat /\ MaxFds \in Nat /\ MaxTemps \in Nat

VARIABLES
    pc,       \* "prompt", "open", "stat", "copy", "discard", "pager" or "unlink"
    intr,     \* int_signal
    fds,      \* descriptors open on temporary files
    source,   \* is the remote file open?
    temps,    \* temporary files in the directory
    left,     \* history: those of them that could not be removed
    phase, result, size, start, pos, dst      \* the copy, see FileCopy

copy == <<phase, result, size, start, pos, dst>>
vars == <<pc, intr, fds, source, temps, left, copy>>

Copy == INSTANCE FileCopy

-----------------------------------------------------------------------------
\* The prompt clears int_signal; cmd_page begins with mkstemp, which fails
\* when no descriptor is left, or for a reason of its own.
MakeTemp ==
    /\ pc = "prompt" /\ intr' = FALSE
    /\ \/ /\ fds < MaxFds /\ temps < MaxTemps
          /\ fds' = fds + 1 /\ temps' = temps + 1 /\ pc' = "open"
       \/ UNCHANGED <<pc, fds, temps>>
    /\ UNCHANGED <<source, left, copy>>

Open ==
    /\ pc = "open"
    /\ \/ source' = TRUE /\ pc' = "stat"
       \/ pc' = "discard" /\ UNCHANGED source
    /\ UNCHANGED <<intr, fds, temps, left, copy>>

AfterStatFails_Fault == source
\* (void)smb_close(sourcefd)
AfterStatFails == FALSE

\* The copy begins, into a file that is empty.
Stat ==
    /\ pc = "stat"
    /\ \/ /\ Copy!Begin /\ dst' = Copy!OldFile(0)
          /\ pc' = "copy" /\ UNCHANGED source
       \/ pc' = "discard" /\ source' = AfterStatFails /\ UNCHANGED copy
    /\ UNCHANGED <<intr, fds, temps, left>>

\* After SIGINT the calls under way still end (CopyByFd says how many).
CopySome ==
    /\ pc = "copy"
    /\ \E k \in Copy!Positions : Copy!Move(k)
    /\ UNCHANGED <<pc, intr, fds, source, temps, left>>

AfterCopy_Fault(res) == "pager"
\* if (!transfer_get_fd(...))
AfterCopy(res) == IF res = "ok" THEN "pager" ELSE "discard"

\* copybyfd closes both handles; it fails at the latest when it sees SIGINT.
CopyEnds ==
    /\ pc = "copy"
    /\ (~intr /\ Copy!Finish) \/ Copy!Abort
    /\ fds' = fds - 1 /\ source' = FALSE
    /\ pc' = AfterCopy(result')
    /\ UNCHANGED <<intr, temps, left>>

\* system(3), which SIGINT does not reach.
Pager ==
    /\ pc = "pager" /\ pc' = "unlink"
    /\ UNCHANGED <<intr, fds, source, temps, left, copy>>

Unlink ==
    /\ pc \in {"discard", "unlink"} /\ pc' = "prompt"
    /\ \/ temps' = temps - 1 /\ UNCHANGED left
       \/ left' = left + 1 /\ UNCHANGED temps
    /\ UNCHANGED <<intr, fds, source, copy>>

Interrupt ==
    /\ pc \notin {"prompt", "pager"} /\ ~intr /\ intr' = TRUE
    /\ UNCHANGED <<pc, fds, source, temps, left, copy>>

Init ==
    /\ pc = "prompt" /\ intr = FALSE
    /\ fds = 0 /\ source = FALSE /\ temps = 0 /\ left = 0
    /\ Copy!Init

Next ==
    \/ MakeTemp \/ Open \/ Stat \/ CopySome \/ CopyEnds \/ Pager \/ Unlink
    \/ Interrupt

Spec == Init /\ [][Next]_vars

-----------------------------------------------------------------------------
TypeOK ==
    /\ pc \in {"prompt", "open", "stat", "copy", "discard", "pager", "unlink"}
    /\ intr \in BOOLEAN /\ source \in BOOLEAN
    /\ fds \in 0 .. MaxFds /\ temps \in 0 .. MaxTemps /\ left \in 0 .. temps
    /\ Copy!TypeOK

\* The pager is started on the whole file or not at all, whatever fails
\* and whenever SIGINT arrives (transfer.c:102-109, cmds.c:747-758).
WholeFileShown ==
    pc = "pager" =>
       \A i \in Copy!Positions : dst[i] = IF i <= size THEN i ELSE Copy!Absent

(***************************************************************************)
(* Whichever way a command ends, the remote file is closed and no          *)
(* temporary file stays behind, unless it cannot be removed                *)
(* (transfer.c:83-106, cmds.c:748, 760).                                   *)
(***************************************************************************)
NothingLeft == pc = "prompt" => temps = left /\ ~source

(***************************************************************************)
(* "fd will be always closed" (cmds.c:747): no descriptor survives a       *)
(* command.                                                                *)
(***************************************************************************)
FdsClosed == pc = "prompt" => fds = 0
=============================================================================
