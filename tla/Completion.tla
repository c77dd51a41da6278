----------------------------- MODULE Completion -----------------------------
(***************************************************************************)
(* complete.c: readline asks what the word between start and end can       *)
(* become.  The answer is a vector: what all matches begin with, quoted,   *)
(* followed by the matches, followed by NULL.  (X_Fault: see CopyByFd.)    *)
(***************************************************************************)
EXTENDS Tokens, FiniteSetsExt

CONSTANTS
    Commands,        \* the names of the commands
    OnShare,         \* those that work on remote files (CMD_MUSTCONN)
    Put,             \* put, which completes local files
    Local, Remote    \* the files

ASSUME CompletionAssumption ==
    /\ IsFiniteSet(Commands \cup Local \cup Remote)
    /\ Commands \cup Local \cup Remote \subseteq Seq(Nat)

\* strcmp
Less(s, t) ==
    \/ IsStrictPrefix(s, t)
    \/ \E n \in DOMAIN s \cap DOMAIN t :
          s[n] < t[n] /\ SubSeq(s, 1, n - 1) = SubSeq(t, 1, n - 1)

\* fnmatch, of a name in one directory
Matches(pattern, name) ==
    LET M[p \in Nat, n \in Nat] ==
          IF p > Len(pattern) THEN n > Len(name)
          ELSE IF pattern[p] = Star
          THEN M[p + 1, n] \/ (n <= Len(name) /\ M[p, n + 1])
          ELSE LET q == IF pattern[p] = Backslash /\ p < Len(pattern) THEN p + 1 ELSE p
               IN  n <= Len(name) /\ name[n] = pattern[q] /\ M[q + 1, n + 1]
    IN  M[1, 1]

\* cmptype; the type of an unrecognized command is local, too.
FilesFor(command, connected) ==
    IF command \in OnShare \ {Put}
    THEN IF connected THEN Remote ELSE {}
    ELSE Local

CmdMatch(token) == {c \in Commands : IsPrefix(token, c)}

\* `*' is added at the end so there is something to match.
FileMatch(token, files) == {f \in files : Matches(Append(token, Star), f)}

\* Commonlead compares to the end of the shorter string.
CommonLead(first, last) ==
    LET same == {n \in 0 .. Len(first) : IsPrefix(SubSeq(first, 1, n), last)}
    IN  SubSeq(first, 1, Max(same))

\* What the word can become: no files without a token that readline got right.
Candidates(line, start, end, connected) ==
    LET read == Partial(line, start, end)
        toks == Abs(read.tokens)
    IN  IF read.index = 0 THEN {}
        ELSE IF read.index = 1 THEN CmdMatch(toks[1])
        ELSE FileMatch(toks[read.index], FilesFor(toks[1], connected))

\* list_sort: at n is what n - 1 others come before.
InOrder(names) ==
    [n \in 1 .. Cardinality(names) |->
        CHOOSE f \in names : Cardinality({g \in names : Less(g, f)}) = n - 1]

\* In order, the first and the last have in common what all of them have.
Answer(matches) ==
    LET sorted == InOrder(matches)
        list   == AddAll(NewList, sorted)
    IN  ListPrepend(list, Quoted(CommonLead(Head(sorted), Last(sorted))))
=============================================================================
