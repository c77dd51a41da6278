---------------------------- MODULE TransferFile ----------------------------
(***************************************************************************)
(* transferfile and askonexist (transfer.c): one file is brought to a      *)
(* destination that may already exist, by overwriting, resuming, skipping  *)
(* or asking.  The copy itself is the one FileCopy promises (CopyByFd      *)
(* implements it).  The same file is transferred again and again, after    *)
(* failures and with other answers, while other clients of the share       *)
(* create and remove the destination.                                      *)
(*                                                                         *)
(* Block i of the source holds i.  Old stands for any other contents: of a *)
(* file somebody else made, or of blocks that a broken connection left     *)
(* behind damaged.  (X_Fault: see CopyByFd.)                               *)
(***************************************************************************)
EXTENDS Integers

CONSTANTS
    MaxSize,        \* bound: blocks in the largest file
    Rollback,       \* RESUME_ROLLBACK in blocks
    RemoteSource    \* TRUE for get, FALSE for put (argument remotesource)

ASSUME TransferAssumption ==
    /\ MaxSize \in Nat \ {0} /\ Rollback \in Nat
    /\ RemoteSource \in BOOLEAN

VARIABLES
    pc,        \* the next call of transferfile; "idle" between transfers
    intr,      \* int_signal
    mode,      \* *dexist of the running invocation
    ssize,     \* blocks in the source
    there,     \* does the destination exist?
    dst,       \* its contents
    dlen,      \* dst.st_size, as stat found it
    offset,    \* offset
    pos,       \* file offset of the destination's handle while copying
    open,      \* the open handles
    result,    \* how the last transfer ended: "none", "ok", "failed", "kept"
    granted,   \* history: the most the user allowed for an existing file
    swapped,   \* history: another client removed the destination between the
               \* stat(2) and the open(2) of this transfer's resume
    lost,      \* another client removed the destination while this transfer had
               \* it open: what the handle writes has no name any more
    made,      \* history: the destination is this transfer's own creation
    ours       \* history: nobody else wrote the destination's contents

disk  == <<there, dst, ours>>
told  == <<mode, granted, swapped, lost>>
place == <<dlen, offset, pos>>
vars  == <<pc, intr, ssize, disk, told, place, open, result, made>>

FC == INSTANCE FileCopy WITH
        phase <- IF pc = "copy" THEN "copying" ELSE "idle",
        size <- ssize, start <- offset

Positions == 1 .. MaxSize
Sizes     == 0 .. MaxSize
Exists    == {"ask", "resume", "overwrite", "skip"}     \* VAR_ASK, ...
Larger(a, b) == IF a > b THEN a ELSE b

\* st_size of file f.
Length(f) == CHOOSE n \in Sizes :
                \A i \in Positions : i <= n <=> f[i] # FC!Absent

Go(from, to) == pc = from /\ pc' = to

\* transferfile returns without having called copybyfd.
GiveUp(from, how) ==
    /\ Go(from, "idle") /\ result' = how
    /\ UNCHANGED <<intr, ssize, disk, told, place, made>>

-----------------------------------------------------------------------------
(***************************************************************************)
(* A command (cmd_get, cmd_put) takes the mode from an option or from the  *)
(* variable onexist, and calls transferfile for the file.                  *)
(***************************************************************************)
Command ==
    /\ Go("idle", "open")
    /\ mode' \in Exists
    /\ granted' = IF mode' \in {"resume", "overwrite"} THEN mode' ELSE "none"
    /\ intr' = FALSE /\ made' = FALSE /\ swapped' = FALSE /\ lost' = FALSE
    /\ result' = "none"
    /\ dlen' = 0 /\ offset' = 0 /\ pos' = 0
    /\ UNCHANGED <<ssize, disk, open>>

Exclusive_Fault == FALSE
\* O_EXCL is among the flags unless the file is to be truncated.
Exclusive == mode # "overwrite"

Truncating == mode = "overwrite"

\* The destination is opened, and emptied or created with it.
OpenDestination ==
    /\ Go("open", "source")
    /\ ~(there /\ Exclusive)
    /\ there' = TRUE /\ made' = ~there
    /\ dst' = IF there /\ ~Truncating THEN dst ELSE FC!OldFile(0)
    /\ ours' = IF there /\ ~Truncating THEN ours ELSE TRUE
    /\ open' = open \cup {"dst"}
    /\ UNCHANGED <<intr, ssize, told, place, result>>

\* EEXIST: skip, or look at both files to resume or to ask.
DestinationExists ==
    /\ there /\ Exclusive
    /\ \/ mode = "skip" /\ GiveUp("open", "kept")
       \/ /\ mode # "skip" /\ Go("open", "stat")
          /\ UNCHANGED <<intr, ssize, disk, told, place, result, made>>
    /\ UNCHANGED open

OpenFails == GiveUp("open", "failed") /\ UNCHANGED open

TooLarge_Fault == FALSE
\* "already as large as or larger than source"
TooLarge == ssize <= dlen'

Stat ==
    /\ UNCHANGED open
    /\ \/ /\ there /\ dlen' = Length(dst)
          /\ \/ mode = "resume" /\ ~TooLarge /\ Go("stat", "reopen")
             \/ mode = "resume" /\ TooLarge /\ Go("stat", "idle")
             \/ mode = "ask" /\ Go("stat", "ask")
          /\ result' = IF pc' = "idle" THEN "kept" ELSE result
          /\ UNCHANGED <<intr, ssize, disk, told, offset, pos, made>>
       \/ GiveUp("stat", "failed")

(***************************************************************************)
(* The user's answer, with "all" or without (see TransferTree for what     *)
(* "all" means to later files).  On Overwrite and Resume transferfile      *)
(* calls itself with the answer: the destination is opened afresh.         *)
(***************************************************************************)
Answer ==
    /\ ~intr
    /\ \/ \E a \in {"overwrite", "resume"} :
             /\ Go("ask", "open")
             /\ ~(a = "resume" /\ ssize <= dlen)
             /\ mode' = a /\ granted' = a /\ UNCHANGED <<swapped, lost>>
             /\ dlen' = 0
             /\ UNCHANGED <<intr, ssize, disk, offset, pos, result, made>>
       \/ ssize <= dlen /\ GiveUp("ask", "kept")       \* resume
       \/ GiveUp("ask", "kept")                        \* skip
    /\ UNCHANGED open

\* Cancel counts as an interrupt; at end of input, on a line too long and
\* after SIGINT there is no answer.
NoAnswer ==
    /\ Go("ask", "idle") /\ result' = "failed"
    /\ intr' \in {intr, TRUE}
    /\ UNCHANGED <<ssize, disk, told, place, made, open>>

ResumeAt_Fault1 == dlen
ResumeAt_Fault2 == 0
\* Where to go on in a file of dlen blocks.
ResumeAt == Larger(dlen - Rollback, 0)

HandlesLeft == IF RemoteSource THEN open ELSE open \cup {"dst"}

(***************************************************************************)
(* The destination is opened again, without O_EXCL, and positioned.  When  *)
(* that fails the handle is closed with close(2), whatever it is.          *)
(***************************************************************************)
Reopen ==
    \/ /\ there /\ Go("reopen", "source")
       /\ offset' = ResumeAt
       /\ open' = open \cup {"dst"}
       /\ UNCHANGED <<intr, ssize, disk, told, dlen, pos, result, made>>
    \/ there /\ ResumeAt > 0 /\ GiveUp("reopen", "failed") /\ open' = HandlesLeft
    \/ GiveUp("reopen", "failed") /\ UNCHANGED open

\* The source is opened, positioned and looked at, all before the first copy.
OpenSource ==
    /\ Go("source", "copy")
    /\ pos' = offset
    /\ open' = open \cup {"src"}
    /\ UNCHANGED <<intr, ssize, disk, told, dlen, offset, result, made>>

SourceFails_Fault == GiveUp("source", "failed") /\ open' = open \ {"src"}
SourceFails == GiveUp("source", "failed") /\ open' = open \ {"src", "dst"}

-----------------------------------------------------------------------------
(* copybyfd, as FileCopy promises; it closes both handles. *)

CopyBlocks ==
    /\ pc' = pc
    /\ ~lost /\ pos <= Length(dst)
    /\ \E k \in Positions : FC!Move(k)
    /\ UNCHANGED <<intr, there, ours, told, dlen, offset, open, made>>

\* The destination became shorter than offset before it was opened again:
\* the first write leaves a hole, which the file system fills.
CopyBeyondEnd ==
    /\ pc = "copy" /\ pc' = pc
    /\ ~lost /\ pos > Length(dst)
    /\ \E k \in Positions :
          /\ pos + k <= ssize /\ pos' = pos + k
          /\ dst' = FC!Stored([i \in Positions |-> IF i <= pos /\ dst[i] = FC!Absent
                                 THEN FC!Old ELSE dst[i]], pos, pos, k)
    /\ UNCHANGED <<intr, ssize, there, ours, told, dlen, offset, open, result, made>>

\* The destination was removed: nothing that has a name changes.
CopyUnseen ==
    /\ pc = "copy" /\ lost /\ pos < ssize
    /\ pos' \in pos + 1 .. ssize
    /\ UNCHANGED <<pc, intr, ssize, disk, told, dlen, offset, open, result, made>>

CopyEnds ==
    /\ pc' = "idle" /\ FC!Finish
    /\ open' = open \ {"src", "dst"}
    /\ UNCHANGED <<intr, there, ours, told, dlen, made>>

(***************************************************************************)
(* The copy fails.  What had been written last, up to Rollback blocks, may *)
(* not have arrived as it was written: this is what RESUME_ROLLBACK,       *)
(* "bytes to retransfer of file" (samblah.h:44), provides for.             *)
(***************************************************************************)
CopyFails ==
    /\ Go("copy", "idle") /\ result' = "failed"
    /\ \E bad \in SUBSET {i \in Positions : /\ ~lost /\ i > offset
                                           /\ i > pos - Rollback /\ i <= pos} :
          dst' = [i \in Positions |-> IF i \in bad THEN FC!Old ELSE dst[i]]
    /\ open' = open \ {"src", "dst"}
    /\ UNCHANGED <<intr, ssize, there, ours, told, place, made>>

-----------------------------------------------------------------------------
(* The user's SIGINT, and other clients of the share. *)

Interrupt ==
    /\ ~intr /\ pc # "idle" /\ intr' = TRUE
    /\ UNCHANGED <<pc, ssize, disk, told, place, open, result, made>>

OtherCreates ==
    /\ ~there
    /\ there' = TRUE /\ ours' = FALSE
    /\ \E n \in Sizes : dst' = FC!OldFile(n)
    /\ UNCHANGED <<pc, intr, ssize, told, place, open, result, made>>

\* Also while samblah has it open: a handle outlives the name of its file.
OtherRemoves ==
    /\ there
    /\ there' = FALSE /\ dst' = FC!OldFile(0) /\ ours' = TRUE
    /\ result' = IF pc = "idle" THEN "none" ELSE result
    /\ swapped' = (swapped \/ pc = "reopen")
    /\ lost' = (lost \/ pc \in {"source", "copy"})
    /\ UNCHANGED <<pc, intr, ssize, mode, granted, place, open, made>>

-----------------------------------------------------------------------------
Init ==
    /\ pc = "idle" /\ intr = FALSE /\ mode = "ask" /\ ssize \in Sizes
    /\ there = FALSE /\ dst = FC!OldFile(0)
    /\ dlen = 0 /\ offset = 0 /\ pos = 0
    /\ open = {} /\ result = "none"
    /\ granted = "none" /\ swapped = FALSE /\ lost = FALSE
    /\ made = FALSE /\ ours = TRUE

Transfer ==
    \/ Command \/ OpenDestination \/ DestinationExists \/ OpenFails \/ Stat
    \/ Answer \/ NoAnswer \/ Reopen \/ OpenSource \/ SourceFails
    \/ CopyBlocks \/ CopyBeyondEnd \/ CopyUnseen \/ CopyEnds \/ CopyFails

Next == Transfer \/ Interrupt \/ OtherCreates \/ OtherRemoves

Spec == Init /\ [][Next]_vars

-----------------------------------------------------------------------------
TypeOK ==
    /\ pc \in {"idle", "open", "stat", "ask", "reopen", "source", "copy"}
    /\ intr \in BOOLEAN /\ mode \in Exists /\ ssize \in Sizes
    /\ there \in BOOLEAN /\ dst \in FC!Files
    /\ dlen \in Sizes /\ offset \in Sizes /\ pos \in Sizes
    /\ open \in SUBSET {"src", "dst"}
    /\ result \in {"none", "ok", "failed", "kept"}
    /\ granted \in {"none", "resume", "overwrite"}
    /\ made \in BOOLEAN /\ ours \in BOOLEAN
    /\ swapped \in BOOLEAN /\ lost \in BOOLEAN

(***************************************************************************)
(* A file that was there before is changed by samblah only after the user  *)
(* said so, by option, variable or answer -- also when another client      *)
(* creates it a moment before transferfile opens it (transfer.c:297-315).  *)
(***************************************************************************)
OnlyWithConsent ==
    [][there /\ there' /\ dst' # dst => made \/ granted # "none"]_vars

(***************************************************************************)
(* Permission to resume is no permission to lose anything: but for the     *)
(* last Rollback blocks stat counted, what exists stays as it is, however  *)
(* the transfer ends (transfer.c:329-357).                                 *)
(***************************************************************************)
ResumeKeeps ==
    [][there /\ there' /\ granted = "resume" /\ ~made =>
         \A i \in Positions :
            i <= dlen - Rollback /\ dst[i] # FC!Absent => dst'[i] = dst[i]]_vars

(***************************************************************************)
(* After any number of failed, damaged and resumed transfers a transfer    *)
(* that succeeds leaves exactly the source, if nobody else wrote the file  *)
(* or removed it under the transfer: the rollback covers all damage        *)
(* (transfer.c:343-347).                                                   *)
(***************************************************************************)
ResumeRepairs ==
    result = "ok" /\ ours /\ ~lost =>
        dst = [i \in Positions |-> IF i <= ssize THEN i ELSE FC!Absent]

(***************************************************************************)
(* A successful transfer, whatever was there before, ends where the source *)
(* does (transfer.c:297-301, 331 and 370), unless another client replaced  *)
(* the destination just between the stat and the open of a resume, or      *)
(* removed it after the open.                                              *)
(***************************************************************************)
NothingBeyond == result = "ok" /\ ~swapped /\ ~lost => Length(dst) = ssize

\* transferfile gives its handles back on every return (transfer.c:386-404).
HandlesGivenBack == pc = "idle" => open = {}

=============================================================================
