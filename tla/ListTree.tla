------------------------------ MODULE ListTree ------------------------------
(***************************************************************************)
(* cmd_ls (cmds.c) and cmdls.c: the arguments are examined and the files   *)
(* among them printed, then what is in the directories and, with -r, in    *)
(* the directories below.  A directory is read and closed before one below *)
(* it is listed, so one handle is open at most.  What is on the server is  *)
(* changed by others: see Share.  (X_Fault: see CopyByFd.)                 *)
(***************************************************************************)
EXTENDS Naturals, Sequences, FiniteSets, Functions, Tree

CONSTANTS
    Rank,          \* numbers that order names as strcmp does
    ArgLists,      \* the arguments ls may be given, after globbing
    Fit            \* how many columns of names fit the terminal; 1 for -l

VARIABLES
    pc,       \* "begin", "stat", "next", "open", "read" or "done"
    intr,     \* int_signal
    ropt,     \* option -r
    args,     \* argv
    k,        \* index of the next argument to examine
    dir,      \* directory
    todo,     \* entries that have not been read
    got,      \* entries
    stack,    \* activations of the loop over the directories among entries
    open,     \* is the directory open?
    exists,   \* what exists on the server
    shown,    \* history: how often each was printed
    failed    \* history: what a request failed for

walk == <<args, k, dir, todo, got, stack, open>>
vars == <<pc, intr, ropt, walk, exists, shown, failed>>

Inside(d) == {n \in exists : Parent[n] = d}

namecmp(m, n) == Rank[m] <= Rank[n]
filecmp(m, n) ==
    IF m \in Dirs <=> n \in Dirs THEN namecmp(m, n) ELSE n \in Dirs

\* list_sort: qsort may leave what is equal in any order.
Orders(s) ==
    {[i \in DOMAIN s |-> s[p[i]]] : p \in Bijection(DOMAIN s, DOMAIN s)}
ByName(s) ==
    {t \in Orders(s) : \A i, j \in DOMAIN t : i < j => namecmp(t[i], t[j])}
FilesFirst(s) ==
    {t \in Orders(s) : \A i, j \in DOMAIN t : i < j => filecmp(t[i], t[j])}

filecount(s) == Cardinality({i \in DOMAIN s : s[i] \notin Dirs})

\* printls: the places where n is printed
Screen == INSTANCE Screen
Places(n, s) ==
    LET rows == Screen!Columns(s, Fit) IN
    UNION {{<<i, j>> : j \in {c \in DOMAIN rows[i] : rows[i][c] = n}} : i \in DOMAIN rows}

Shows(count, s) ==
    shown' = [n \in Nodes |->
                 shown[n] + Cardinality(Places(n, SubSeq(s, 1, count)))]
Fails(n) == failed' = failed \cup {n}
Push(s)  == stack' = Append(stack, [entries |-> s, i |-> filecount(s) + 1])

Frame == stack[Len(stack)]
Outer == SubSeq(stack, 1, Len(stack) - 1)

-----------------------------------------------------------------------------
\* One argument that is a directory is not printed itself.
Begin ==
    /\ pc = "begin"
    /\ \/ /\ Len(args) = 1 /\ args[1] \in exists \cap Dirs
          /\ dir' = args[1] /\ pc' = "open"
       \/ pc' = "stat" /\ UNCHANGED dir
    /\ UNCHANGED <<intr, ropt, args, k, todo, got, stack, open, exists, shown, failed>>

StatEnds == intr \/ k > Len(args)

\* statlist
StatArg ==
    /\ pc = "stat" /\ ~StatEnds /\ k' = k + 1
    /\ \/ /\ args[k] \in exists
          /\ got' = Append(got, args[k]) /\ UNCHANGED failed
       \/ Fails(args[k]) /\ UNCHANGED got
    /\ UNCHANGED <<pc, intr, ropt, args, dir, todo, stack, open, exists, shown>>

PrintFiles ==
    /\ pc = "stat" /\ StatEnds /\ pc' = "next"
    /\ \E s \in FilesFirst(got) : Shows(filecount(s), s) /\ Push(s)
    /\ got' = <<>>
    /\ UNCHANGED <<intr, ropt, args, k, dir, todo, open, exists, failed>>

\* for (i = filecount(entries); !int_signal && i < list_count(entries); ++i)
NextDir ==
    /\ pc = "next"
    /\ IF stack = <<>> THEN pc' = "done" /\ UNCHANGED <<dir, stack>>
       ELSE IF intr \/ Frame.i > Len(Frame.entries)
       THEN stack' = Outer /\ UNCHANGED <<pc, dir>>
       ELSE /\ dir' = Frame.entries[Frame.i] /\ pc' = "open"
            /\ stack' = [stack EXCEPT ![Len(stack)].i = @ + 1]
    /\ UNCHANGED <<intr, ropt, args, k, todo, got, open, exists, shown, failed>>

\* statdir: nothing is said of a directory that cannot be opened.
OpenDir ==
    /\ pc = "open"
    /\ \/ /\ ~intr /\ dir \in exists
          /\ todo' = Inside(dir) /\ open' = TRUE
          /\ pc' = "read" /\ UNCHANGED failed
       \/ /\ IF intr THEN UNCHANGED failed ELSE Fails(dir)
          /\ pc' = "next" /\ UNCHANGED <<todo, open>>
    /\ UNCHANGED <<intr, ropt, args, k, dir, got, stack, exists, shown>>

AfterStatFails_Fault(n) == {}
\* continue: the entries behind one that is gone are still read.
AfterStatFails(n) == todo \ {n}

StatEntry ==
    /\ pc = "read" /\ ~intr
    /\ \E n \in todo :
          \/ /\ n \in exists /\ todo' = todo \ {n}
             /\ got' = Append(got, n) /\ UNCHANGED failed
          \/ todo' = AfterStatFails(n) /\ Fails(n) /\ UNCHANGED got
    /\ UNCHANGED <<pc, intr, ropt, args, k, dir, stack, open, exists, shown>>

ClosedAtInterrupt_Fault == open
\* (void)smb_closedir(dh)
ClosedAtInterrupt == FALSE

CloseInterrupted ==
    /\ pc = "read" /\ intr /\ open' = ClosedAtInterrupt /\ pc' = "next"
    /\ todo' = {} /\ got' = <<>>
    /\ UNCHANGED <<intr, ropt, args, k, dir, stack, exists, shown, failed>>

(***************************************************************************)
(* The end of the directory, or an error of readdir, which looks the same. *)
(* The entries are printed, unless the directory cannot be closed.         *)
(***************************************************************************)
CloseDir ==
    /\ pc = "read" /\ ~intr /\ open' = FALSE /\ pc' = "next"
    /\ todo' = {} /\ got' = <<>>
    /\ \/ /\ \E s \in ByName(got) : Shows(Len(s), s)
          /\ IF ropt THEN \E s \in FilesFirst(got) : Push(s) ELSE UNCHANGED stack
          /\ IF todo = {} THEN UNCHANGED failed ELSE Fails(dir)
       \/ Fails(dir) /\ UNCHANGED <<stack, shown>>
    /\ UNCHANGED <<intr, ropt, args, k, dir, exists>>

Interrupt ==
    /\ pc # "done" /\ ~intr /\ intr' = TRUE
    /\ UNCHANGED <<pc, ropt, walk, exists, shown, failed>>

Init ==
    /\ pc = "begin" /\ intr = FALSE /\ ropt \in BOOLEAN
    /\ args \in ArgLists /\ k = 1 /\ dir = Top /\ todo = {} /\ got = <<>> /\ stack = <<>>
    /\ open = FALSE
    /\ shown = [n \in Nodes |-> 0] /\ failed = {}

Next ==
    \/ Begin \/ StatArg \/ PrintFiles \/ NextDir \/ OpenDir \/ StatEntry
    \/ CloseInterrupted \/ CloseDir \/ Interrupt

-----------------------------------------------------------------------------
\* Is n to be printed for an argument a?
Covers(a, n) ==
    IF a \notin Dirs THEN n = a
    ELSE IF ropt THEN n # a /\ a \in Above[n] ELSE Parent[n] = a

Times(n) == Cardinality({i \in DOMAIN args : Covers(args[i], n)})

(***************************************************************************)
(* What is there all the time is printed once for every argument that      *)
(* covers it, unless a request for it or a directory above it failed or    *)
(* SIGINT came; nothing is printed more often, also when it is removed     *)
(* while ls is on its way (cmdls.c:35-207).                                *)
(***************************************************************************)
ListedTruly ==
    \A n \in Nodes :
       /\ shown[n] <= Times(n)
       /\ pc = "done" /\ ~intr /\ n \in exists \ Added /\ shown[n] < Times(n) =>
             Above[n] \cap failed # {}
=============================================================================
