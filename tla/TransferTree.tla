---------------------------- MODULE TransferTree ----------------------------
(***************************************************************************)
(* cmd_get and cmd_put (cmds.c) and transfer (transfer.c): the arguments   *)
(* of one command are transferred one after another, directories with all  *)
(* they contain.  transfer calls itself for every entry; its activations   *)
(* are the frames of a stack.  A file is one step here (TransferFile and   *)
(* CopyByFd are its detail), apart from the question askonexist asks.      *)
(* A path at the destination is a sequence of names; the empty one is `.'. *)
(* Nobody else changes the destination meanwhile.  (X_Fault: see CopyByFd.)*)
(***************************************************************************)
EXTENDS Integers, Sequences, FiniteSets

CONSTANTS
    Args,           \* the arguments after globbing, a sequence of nodes
    Entries,        \* for each directory of the source, its entries in order
    Files,          \* the files of the source
    Names,          \* the names in paths, "/" and ".." among them
    Path,           \* the path of each node, as names; "/" begins an absolute one
    Destinations,   \* what may be at the destination before: directories, files
    RemoteSource,   \* TRUE for get, FALSE for put
    OutputOption,   \* may the command have been given -o ?
    Output          \* the path that follows -o

Dirs  == DOMAIN Entries
Nodes == Dirs \cup Files

Inside(d) == {Entries[d][i] : i \in DOMAIN Entries[d]}

\* n and the directories on the way to n.
Upward == {S \in SUBSET Nodes : \A d \in Dirs : Inside(d) \cap S # {} => d \in S}
Above  == [n \in Nodes |-> {a \in Nodes : \A S \in Upward : n \in S => a \in S}]

ASSUME TreeAssumption ==
    /\ Dirs \cap Files = {} /\ Args \in Seq(Nodes) /\ Args # <<>>
    /\ \A d \in Dirs : Entries[d] \in Seq(Nodes)
    /\ RemoteSource \in BOOLEAN /\ OutputOption \in BOOLEAN

\* Directories may be `.', files and entries have a name.
ASSUME PathAssumption ==
    /\ Path \in [Nodes -> Seq(Names)] /\ Output \in Seq(Names) \ {<<>>}
    /\ \A n \in Files \cup UNION {Inside(d) : d \in Dirs} : Path[n] # <<>>
    /\ \A D \in Destinations :
          /\ D.dirs \subseteq Seq(Names) /\ D.files \subseteq Seq(Names)
          /\ <<>> \in D.dirs

\* A path is an entry of one directory only, once, and not above itself.
ASSUME OnePlace ==
    /\ \A d, e \in Dirs : \A i \in DOMAIN Entries[d], j \in DOMAIN Entries[e] :
          Entries[d][i] = Entries[e][j] => d = e /\ i = j
    /\ \A d \in Dirs : Inside(d) \cap Above[d] = {}

VARIABLES
    pc,        \* "arg", "transfer", "entry", "file", "ask" or "done"
    intr,      \* int_signal
    ropt,      \* option -r
    oopt,      \* option -o, whose argument is the destination
    onexist,   \* what -c, -f, -s or the variable onexist say
    next,      \* index of the next argument
    node,      \* spath of the transfer about to begin
    dst,       \* dpath of it
    stack,     \* activations of transfer that walk a directory, outermost first
    exist,     \* what to do with existing destinations; outlives each file
    opendirs,  \* directories of the source that are open
    dstdirs,   \* the directories at the destination
    dstfiles,  \* the files there
    handled,   \* history: how often each file was transferred or left alone
    lost,      \* history: nodes given up, with or without a warning
    forall,    \* history: has an answer been given for all files?
    late       \* history: files begun since SIGINT, up to 2

opts == <<ropt, oopt, onexist>>
walk == <<next, node, dst, stack>>
dest == <<dstdirs, dstfiles>>
hist == <<handled, lost, forall, late>>
vars == <<pc, intr, opts, walk, exist, opendirs, dest, hist>>

Exists == {"ask", "resume", "overwrite", "skip"}

LastOf(s) == s[Len(s)]
ButLast(s) == SubSeq(s, 1, Len(s) - 1)

\* How many of the first k arguments contain file f.
Covering(f, k) == Cardinality({i \in 1 .. k : Args[i] \in Above[f]})

\* The number of arguments the command transfers: with -o, one.
ArgCount == IF oopt THEN 1 ELSE Len(Args)

\* Where control goes when a transfer returns.
Caller == IF stack = <<>> THEN "arg" ELSE "entry"

Returns(from) == pc = from /\ pc' = Caller

\* The first k of the directories a path leads through, itself the last.
Chain(p, k) == {SubSeq(p, 1, i) : i \in 1 .. k}
Parents(p)  == Chain(p, Len(p) - 1)

-----------------------------------------------------------------------------
\* `!int_signal && *argv != NULL'; with -o there is no loop.
ArgLoopEnds == (intr /\ ~oopt) \/ next > ArgCount

Skipped(n) == lost' = lost \cup {n}

Accepted(n) == oopt \/ ropt \/ n \in Files

AfterRefused_Fault == next
AfterRefused == next + 1

Elsewhere(n) == Path[n] # <<>> /\ Path[n][1] \in {"/", ".."}

\* oarg: files go to the directory the user is in, and so does what is in a
\* directory from elsewhere.
Destination(n) ==
    IF oopt THEN Output
    ELSE IF n \in Files THEN <<LastOf(Path[n])>>
    ELSE IF Elsewhere(n) THEN <<>> ELSE Path[n]

(***************************************************************************)
(* The loop over the arguments.  With -o the argument goes to transfer     *)
(* unseen; otherwise one that cannot be examined, and a directory without  *)
(* -r, is refused.                                                         *)
(***************************************************************************)
NextArg ==
    /\ pc = "arg" /\ ~ArgLoopEnds
    /\ \/ /\ Accepted(Args[next])
          /\ pc' = "transfer" /\ next' = next + 1
          /\ node' = Args[next] /\ dst' = Destination(Args[next])
          /\ UNCHANGED lost
       \/ /\ ~oopt /\ Skipped(Args[next]) /\ next' = AfterRefused
          /\ UNCHANGED <<pc, node, dst>>
    /\ UNCHANGED <<intr, opts, stack, exist, opendirs, dest, handled, forall, late>>

CommandEnds ==
    /\ pc = "arg" /\ ArgLoopEnds /\ pc' = "done"
    /\ UNCHANGED <<intr, opts, walk, exist, opendirs, dest, hist>>

\* transfer finds a file, and does not look at int_signal.
ToFile ==
    /\ pc = "transfer" /\ node \in Files /\ pc' = "file"
    /\ late' = IF intr /\ late < 2 THEN late + 1 ELSE late
    /\ UNCHANGED <<intr, opts, walk, exist, opendirs, dest, handled, lost, forall>>

Made_Fault == {dst} \ dstfiles
\* What mkpath makes when nothing fails.  EEXIST is no error to it, whatever
\* it is that exists.
Made == Chain(dst, Len(dst)) \ dstfiles

(***************************************************************************)
(* transfer finds a directory: mkpath makes it and all directories above   *)
(* it at the destination, then it is opened.  A plain file above it makes  *)
(* mkpath fail (ENOTDIR), but one in its own place does not: the directory *)
(* is walked as if it had been made.                                       *)
(***************************************************************************)
EnterDirectory ==
    /\ pc = "transfer" /\ node \in Dirs /\ ~intr
    /\ Parents(dst) \cap dstfiles = {}
    /\ dstdirs' = dstdirs \cup Made
    /\ opendirs' = opendirs \cup {node}
    /\ stack' = Append(stack, [dir |-> node, dst |-> dst, at |-> 1])
    /\ pc' = "entry"
    /\ UNCHANGED <<intr, opts, next, node, dst, exist, dstfiles, hist>>

\* stat, mkpath or opendir fails, mkpath possibly halfway.
TransferFails ==
    /\ Returns("transfer") /\ Skipped(node)
    /\ \E k \in 0 .. Len(dst) : /\ Chain(dst, k) \cap dstfiles = {}
                                /\ node \in Files => k = 0
                                /\ dstdirs' = dstdirs \cup Chain(dst, k)
    /\ UNCHANGED <<intr, opts, walk, exist, opendirs, dstfiles, handled, forall, late>>

-----------------------------------------------------------------------------
Frame == LastOf(stack)

MoreEntries_Fault == Frame.at <= Len(Entries[Frame.dir])
\* while (!int_signal && readdir ...)
MoreEntries == ~intr /\ Frame.at <= Len(Entries[Frame.dir])

AfterEntry_Fault == Frame.at
AfterEntry == Frame.at + 1

\* The next entry is transferred, unless its path is too long or there is no
\* memory for it.
NextEntry ==
    /\ pc = "entry" /\ MoreEntries
    /\ LET n == Entries[Frame.dir][Frame.at] IN
          \/ /\ pc' = "transfer" /\ node' = n /\ UNCHANGED lost
             /\ dst' = Append(Frame.dst, LastOf(Path[n]))
          \/ Skipped(n) /\ UNCHANGED <<pc, node, dst>>
    /\ stack' = [stack EXCEPT ![Len(stack)].at = AfterEntry]
    /\ UNCHANGED <<intr, opts, next, exist, opendirs, dest, handled, forall, late>>

ClosedAtInterrupt_Fault == opendirs
ClosedAtInterrupt ==
    IF RemoteSource THEN opendirs \ {Frame.dir} ELSE opendirs

(***************************************************************************)
(* The directory is finished, or the user interrupted.  An entry readdir   *)
(* fails to return ends the directory like its last one.                   *)
(***************************************************************************)
LeaveDirectory ==
    /\ pc = "entry"
    /\ stack' = ButLast(stack)
    /\ pc' = IF Len(stack) = 1 THEN "arg" ELSE "entry"
    /\ opendirs' = IF intr THEN ClosedAtInterrupt ELSE opendirs \ {Frame.dir}
    /\ lost' = lost \cup {Entries[Frame.dir][i] :
                             i \in Frame.at .. Len(Entries[Frame.dir])}
    /\ UNCHANGED <<intr, opts, next, node, dst, exist, dest, handled, forall, late>>

-----------------------------------------------------------------------------
\* The directory dpath is in exists.
Room == ButLast(dst) \in dstdirs

\* A directory is never opened for writing.
Written == IF dst \in dstdirs THEN dstfiles ELSE dstfiles \cup {dst}

\* transferfile is done with the file: transferred it or left it alone.
Handled ==
    /\ handled' = [handled EXCEPT ![node] = @ + 1]
    /\ dstfiles' = Written

\* No question is needed: the destination is new, or exist says what to do.
File ==
    /\ Returns("file") /\ Room /\ Handled
    /\ \/ dst \notin dstdirs \cup dstfiles
       \/ exist = "skip"
       \/ exist # "ask" /\ dst \in dstfiles
    /\ UNCHANGED <<intr, opts, walk, exist, opendirs, dstdirs, lost, forall, late>>

\* Whatever fails, the destination may have been created or emptied.
FileFails ==
    /\ Returns("file") /\ Skipped(node)
    /\ dstfiles' = dstfiles \/ (Room /\ dstfiles' = Written)
    /\ UNCHANGED <<intr, opts, walk, exist, opendirs, dstdirs, handled, forall, late>>

\* EEXIST, whatever exists.  After SIGINT askonexist asks nothing and fails.
AskFirst ==
    /\ pc = "file" /\ dst \in dstdirs \cup dstfiles /\ exist = "ask" /\ ~intr
    /\ pc' = "ask"
    /\ UNCHANGED <<intr, opts, walk, exist, opendirs, dest, hist>>

Stored_Fault(a, all) == a
\* An answer with `!' is stored through the pointer the command passed down.
Stored(a, all) == IF all THEN a ELSE exist

\* Only skip does no harm to a directory in the place of a file.
Answer ==
    /\ ~intr /\ Returns("ask")
    /\ \E a \in {"overwrite", "resume", "skip"}, all \in BOOLEAN :
          /\ exist' = Stored(a, all) /\ forall' = (forall \/ all)
          /\ \/ (a = "skip" \/ dst \in dstfiles) /\ Handled /\ UNCHANGED lost
             \/ Skipped(node) /\ UNCHANGED <<handled, dstfiles>>
    /\ UNCHANGED <<intr, opts, walk, opendirs, dstdirs, late>>

\* Cancel sets int_signal; without an answer only this file is given up.
\* SIGINT alone does not end the wait (SA_RESTART, interface.c:40).
NoAnswer ==
    /\ Returns("ask") /\ Skipped(node)
    /\ intr' \in {intr, TRUE}
    /\ UNCHANGED <<opts, walk, exist, opendirs, dest, handled, forall, late>>

Interrupt ==
    /\ ~intr /\ pc # "done" /\ intr' = TRUE
    /\ UNCHANGED <<pc, opts, walk, exist, opendirs, dest, hist>>

-----------------------------------------------------------------------------
Init ==
    /\ pc = "arg" /\ intr = FALSE
    /\ ropt \in BOOLEAN /\ oopt \in {FALSE, OutputOption}
    /\ ~(ropt /\ oopt)
    /\ next = 1 /\ node = Args[1] /\ dst = <<>> /\ stack = <<>>
    /\ onexist \in Exists /\ exist = onexist
    /\ \E D \in Destinations : dstdirs = D.dirs /\ dstfiles = D.files
    /\ opendirs = {}
    /\ handled = [f \in Files |-> 0] /\ lost = {} /\ forall = FALSE /\ late = 0

Step ==
    \/ NextArg \/ CommandEnds \/ ToFile \/ EnterDirectory \/ TransferFails
    \/ NextEntry \/ LeaveDirectory \/ File \/ FileFails \/ AskFirst

\* What the user may do, or not do.
User == Answer \/ NoAnswer \/ Interrupt

Next == Step \/ User

Spec == Init /\ [][Next]_vars /\ WF_vars(Step)

-----------------------------------------------------------------------------
TypeOK ==
    /\ pc \in {"arg", "transfer", "entry", "file", "ask", "done"}
    /\ intr \in BOOLEAN /\ ropt \in BOOLEAN /\ oopt \in BOOLEAN
    /\ next \in 1 .. ArgCount + 1 /\ node \in Nodes /\ dst \in Seq(Names)
    /\ stack \in Seq([dir : Dirs, dst : Seq(Names), at : Nat])
    /\ \A i \in DOMAIN stack : stack[i].at \in 1 .. Len(Entries[stack[i].dir]) + 1
    /\ onexist \in Exists /\ exist \in Exists /\ opendirs \subseteq Dirs
    /\ dstdirs \subseteq Seq(Names) /\ dstfiles \subseteq Seq(Names)
    /\ handled \in [Files -> Nat] /\ lost \subseteq Nodes
    /\ forall \in BOOLEAN /\ late \in 0 .. 2

(***************************************************************************)
(* A command the user does not interrupt deals with every file of every    *)
(* argument, once for each argument it is part of, unless the file or a    *)
(* directory above it had to be given up; and it never deals with one      *)
(* more often (transfer.c:171-239, cmds.c:319-344).                        *)
(***************************************************************************)
WholeTree ==
    \A f \in Files :
       /\ handled[f] <= Covering(f, next - 1)
       /\ pc = "done" /\ ~intr =>
             \/ handled[f] = Covering(f, ArgCount)
             \/ Above[f] \cap lost # {}

(***************************************************************************)
(* Entries go into directories that exist all the way up, also when the    *)
(* argument was a directory below another (mkpath).  Only in the place of  *)
(* the last one there may be a file, as mkpath and transfer take every     *)
(* EEXIST for success (transfer.c:153-154, 686); nothing below such a file *)
(* is walked.                                                              *)
(***************************************************************************)
ParentsExist ==
    \A i \in DOMAIN stack :
       /\ Parents(stack[i].dst) \subseteq dstdirs
       /\ stack[i].dst \in dstdirs \/ (i = Len(stack) /\ stack[i].dst \in dstfiles)

(***************************************************************************)
(* "Creates a path like `mkdir -p'" (transfer.c:663), which fails where a  *)
(* file is in the place of a directory: what is walked is a directory at   *)
(* the destination.                                                        *)
(***************************************************************************)
IntoDirectories == \A i \in DOMAIN stack : stack[i].dst \in dstdirs

(***************************************************************************)
(* "`{overwrite,resume,skip} all' is kept for all arguments in argv"       *)
(* (cmds.c:308-309): the user is not asked again, in whichever directory   *)
(* the answer was given; and an answer for one file is none for others.    *)
(***************************************************************************)
AllMeansAll == IF forall THEN pc # "ask" ELSE exist = onexist

\* After SIGINT, or Cancel, at most the one file is begun whose turn had
\* already come (transfer.c:171, cmds.c:319 and 833).
StopsAtInterrupt == late <= 1

\* Every directory that was opened is closed, also after SIGINT
\* (transfer.c:125-126, 241-252).
DirectoriesClosed == pc = "done" => opendirs = {}

\* "recursive when ropt is true" (transfer.c:38-39): otherwise no directory
\* is walked.
RecursiveOnRequest == stack # <<>> => ropt

(***************************************************************************)
(* The command comes to its end, unless the user leaves a question of      *)
(* askonexist unanswered: nothing else is waited for.                      *)
(***************************************************************************)
Terminates == <>(pc = "done") \/ <>[](pc = "ask")
=============================================================================
