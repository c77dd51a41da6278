-------------------------------- MODULE Glob --------------------------------
(***************************************************************************)
(* smbglob.c: every argument with a wildcard is replaced by the files it   *)
(* matches.  tokenmatch2 walks the directories, calling itself for each    *)
(* component; its activations that read a directory are the frames of a    *)
(* stack.  All of them work in one buffer, from which each cuts its        *)
(* component by writing a NUL over the slash that follows it.              *)
(* A token and a path are sequences of components, which are numbers in    *)
(* the order of the strings; fnmatch is the function Matching.  `a\*', a   *)
(* token that was quoted, and the file `a*' are two different components.  *)
(* (X_Fault: see CopyByFd.)                                                *)
(***************************************************************************)
EXTENDS Naturals, Sequences, SequencesExt

CONSTANTS
    Lines,      \* command lines (without the command), sequences of tokens
    Patterns,   \* the components with a wildcard; a file may be called so too
    Matching,   \* for each of them, the names it matches
    Unescaped,  \* for the components with a backslash, what unescape makes of them
    Tree,       \* the paths that exist
    Dirs,       \* those that are directories, <<>> among them
    Failing     \* may system calls fail?

\* What is above a file of the tree is a directory of it (see Globbing).
WellFormed ==
    /\ Lines \subseteq Seq(Seq(Nat)) /\ Matching \in [Patterns -> SUBSET Nat]
    /\ \A c \in DOMAIN Unescaped : Unescaped[c] \in Nat
    /\ Tree \subseteq Seq(Nat) /\ IsFiniteSet(Tree)
    /\ Dirs \subseteq Tree \cup {<<>>} /\ Failing \in BOOLEAN
    /\ \A p \in Tree : p # <<>> /\ Front(p) \in Dirs

VARIABLES
    pc,       \* "next", "match", "done" (GLB_OK) or "interrupted" (GLB_INTR)
    intr,     \* int_signal
    tokens,   \* the command line
    pos,      \* index of the token to be globbed next
    call,     \* the activation of tokenmatch2 about to begin, or NoCall
    cut,      \* the components of the token that a NUL follows by now
    stack,    \* activations reading a directory, outermost first
    found,    \* newtokens
    line,     \* history: the command line as typed
    failed    \* history: what failed on files that exist

match == <<call, cut, stack, found>>
vars  == <<pc, intr, tokens, pos, match, line, failed>>

Name(p)    == p[Len(p)]
Inside(p)  == {q \in Tree : Len(q) = Len(p) + 1 /\ Front(q) = p}
Globbable(t) == \E i \in DOMAIN t : t[i] \in Patterns

Unescape(t) ==
    [i \in DOMAIN t |-> IF t[i] \in DOMAIN Unescaped THEN Unescaped[t[i]] ELSE t[i]]

\* tokenmatch2(path, token) where token begins at component `at'; 0 is NULL.
Call(path, k) == [path |-> path, at |-> k]
NoCall        == Call(<<>>, 0)

Less(p, q) ==
    \E i \in DOMAIN q :
       /\ \A j \in 1 .. i - 1 : j \in DOMAIN p /\ p[j] = q[j]
       /\ i \notin DOMAIN p \/ p[i] < q[i]

-----------------------------------------------------------------------------
AfterLiteral_Fault == pos
\* tokenglob: a token without wildcards, or without matches, is unescaped.
AfterLiteral == pos + 1

TakeLiterally ==
    tokens' = [tokens EXCEPT ![pos] = Unescape(@)] /\ pos' = AfterLiteral

\* Also the last file put in for a pattern, whose name nobody has escaped.
Literal ==
    /\ pc = "next" /\ pos <= Len(tokens) /\ ~Globbable(tokens[pos])
    /\ TakeLiterally
    /\ UNCHANGED <<pc, intr, match, line, failed>>

BeginToken ==
    /\ pc = "next" /\ pos <= Len(tokens) /\ Globbable(tokens[pos])
    /\ pc' = "match" /\ call' = Call(<<>>, 1)
    /\ cut' = {} /\ found' = {}
    /\ UNCHANGED <<intr, tokens, pos, stack, line, failed>>

LineEnds ==
    /\ pc = "next" /\ pos > Len(tokens) /\ pc' = "done"
    /\ UNCHANGED <<intr, tokens, pos, match, line, failed>>

\* GLB_INTR: every activation closes its directory and returns.
Interrupted ==
    /\ pc' = "interrupted" /\ call' = NoCall /\ stack' = <<>>
    /\ UNCHANGED <<intr, tokens, pos, cut, found, line, failed>>

-----------------------------------------------------------------------------
Token     == tokens[pos]
Component == Token[call.at]

\* strchr(token, '/'): where the next component begins, 0 for nowhere.
Rest == IF call.at = Len(Token) \/ call.at \in cut THEN 0 ELSE call.at + 1

Calling == pc = "match" /\ call # NoCall
Cut     == cut' = cut \cup {call.at}

EntryTest == Calling /\ intr /\ Interrupted

\* token == NULL: the path is a match.
AddMatch ==
    /\ Calling /\ ~intr /\ call.at = 0
    /\ found' = found \cup {call.path} /\ call' = NoCall
    /\ UNCHANGED <<pc, intr, tokens, pos, cut, stack, line, failed>>

\* A component without wildcards, still escaped: go on if the file exists.
Exact ==
    /\ Calling /\ ~intr /\ call.at # 0 /\ Component \notin Patterns /\ Cut
    /\ LET npath == Append(call.path, Component) IN
          \/ /\ call' = IF npath \in Tree THEN Call(npath, Rest) ELSE NoCall
             /\ UNCHANGED failed
          \/ Failing /\ call' = NoCall /\ failed' = failed \cup {"stat"}
    /\ UNCHANGED <<pc, intr, tokens, pos, stack, found, line>>

\* A component with wildcards: open the directory, an empty path being `.'.
ReadDirectory ==
    /\ Calling /\ ~intr /\ call.at # 0 /\ Component \in Patterns /\ Cut
    /\ call' = NoCall
    /\ \/ /\ call.path \in Dirs
          /\ stack' = Append(stack, [path |-> call.path, rest |-> Rest,
                todo |-> {q \in Inside(call.path) : Name(q) \in Matching[Component]}])
          /\ UNCHANGED failed
       \/ call.path \notin Dirs /\ UNCHANGED <<stack, failed>>
       \/ Failing /\ failed' = failed \cup {"directory"} /\ UNCHANGED stack
    /\ UNCHANGED <<pc, intr, tokens, pos, found, line>>

-----------------------------------------------------------------------------
Frame   == Last(stack)
Reading == pc = "match" /\ call = NoCall /\ stack # <<>>

\* The entries come in any order.
NextEntry ==
    /\ Reading /\ ~intr
    /\ \E q \in Frame.todo :
          /\ call' = Call(q, Frame.rest)
          /\ stack' = [stack EXCEPT ![Len(stack)].todo = @ \ {q}]
    /\ UNCHANGED <<pc, intr, tokens, pos, cut, found, line, failed>>

StopReading_Fault == FALSE
\* `if (int_signal)' behind the loop.
StopReading == intr

ReadInterrupted == Reading /\ StopReading /\ Interrupted

\* The directory ends, or readdir fails, which looks the same; the value of
\* closedir is forgotten.
EndDirectory ==
    /\ Reading /\ ~StopReading
    /\ \/ (Frame.todo = {} \/ intr) /\ UNCHANGED failed
       \/ Failing /\ failed' = failed \cup {"directory"}       \* readdir or closedir fails
    /\ stack' = Front(stack)
    /\ UNCHANGED <<pc, intr, tokens, pos, call, cut, found, line>>

-----------------------------------------------------------------------------
\* list_sort: at n is what n - 1 others come before.
Sorted(S) ==
    [n \in 1 .. Cardinality(S) |->
        CHOOSE p \in S : Cardinality({q \in S : Less(q, p)}) = n - 1]

\* `pos + list_count(newtokens) - 1'
NextPos == pos + Cardinality(found) - 1

\* tokenmatch is back: its matches, if any, take the place of the token.
Replace ==
    /\ pc = "match" /\ call = NoCall /\ stack = <<>> /\ pc' = "next"
    /\ IF found = {} THEN TakeLiterally
       ELSE /\ tokens' = SubSeq(tokens, 1, pos - 1) \o Sorted(found)
                            \o SubSeq(tokens, pos + 1, Len(tokens))
            /\ pos' = NextPos
    /\ UNCHANGED <<intr, match, line, failed>>

Interrupt ==
    /\ pc \in {"next", "match"} /\ ~intr /\ intr' = TRUE
    /\ UNCHANGED <<pc, tokens, pos, match, line, failed>>

Init ==
    /\ pc = "next" /\ intr = FALSE /\ pos = 1
    /\ line \in Lines /\ tokens = line
    /\ call = NoCall /\ cut = {} /\ stack = <<>> /\ found = {}
    /\ failed = {}

Step ==
    \/ Literal \/ BeginToken \/ LineEnds \/ EntryTest \/ AddMatch \/ Exact
    \/ ReadDirectory \/ NextEntry \/ ReadInterrupted \/ EndDirectory \/ Replace

Next == Step \/ Interrupt

Spec == Init /\ [][Next]_vars /\ WF_vars(Step)

-----------------------------------------------------------------------------
Frames == [path : Dirs, rest : Nat, todo : SUBSET Tree]

TypeOK ==
    /\ pc \in {"next", "match", "done", "interrupted"} /\ intr \in BOOLEAN
    /\ tokens \in Seq(Seq(Nat)) /\ pos \in 1 .. Len(tokens) + 1
    /\ call \in [path : Tree \cup {<<>>}, at : Nat]
    /\ stack \in Seq(Frames) /\ found \subseteq Tree
    /\ pc = "match" =>
          /\ call.at <= Len(Token) /\ cut \subseteq DOMAIN Token \cup {0}
          /\ \A i \in DOMAIN stack : stack[i].rest <= Len(Token)
    /\ line \in Lines /\ failed \subseteq {"directory", "stat"}

\* The files a token stands for, in order; if there are none, what it says.
Matches(t) ==
    {p \in Tree : /\ Len(p) = Len(t)
                  /\ \A i \in DOMAIN t : IF t[i] \in Patterns
                                         THEN p[i] \in Matching[t[i]]
                                         ELSE p[i] = Unescape(t)[i]}
Meaning(t) ==
    IF Globbable(t) /\ Matches(t) # {} THEN Sorted(Matches(t)) ELSE <<Unescape(t)>>

(***************************************************************************)
(* "Patterns ... are replaced with the files they match" (samblah.1,       *)
(* Features): the command gets, for every token, exactly the files it      *)
(* matches, in order.  A walk that SIGINT cuts short gives no command any  *)
(* arguments, so that no rm or put works on half of them                   *)
(* (smbglob.c:143-147, 204, 230-234).                                      *)
(***************************************************************************)
ExpandsExactly ==
    pc = "done" /\ failed = {} =>
       tokens = FlattenSeq([i \in DOMAIN line |-> Meaning(line[i])])

(***************************************************************************)
(* Globbing ends: "On success it returns the index of the next element to  *)
(* be expanded" (smbglob.c:43-44).                                         *)
(***************************************************************************)
Terminates == <>(pc \in {"done", "interrupted"})

(***************************************************************************)
(* GLB_DIRERR is "error opening/reading/closing directory" (samblah.h:143):*)
(* such an error is not a success.                                         *)
(***************************************************************************)
ErrorsReported == pc = "done" => "directory" \notin failed
=============================================================================
