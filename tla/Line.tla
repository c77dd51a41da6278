-------------------------------- MODULE Line --------------------------------
(***************************************************************************)
(* The way of a line from the keyboard to a request (do_line, do_command): *)
(* typed and completed (Completion), read as words (Tokens), its patterns  *)
(* replaced (smbglob), its options taken (Options), and its operand used   *)
(* as a path (Path).  The list of words, egetopt's position and the        *)
(* directory are what one step leaves to the next, or a line to the next   *)
(* line.  What the words are is no longer the typed characters: any of     *)
(* WordLists stands for them, and after the first command lines are not    *)
(* typed any more but recalled.  (X_Fault: see CopyByFd.)                  *)
(***************************************************************************)
EXTENDS Completion

CONSTANTS
    Letters, MaxLine,          \* characters that are typed; bound on their number
    WordLists,                 \* the words of a line
    Pattern, FoundLists,       \* a word that is a pattern; files it may match
    Plain, WithArg, Dash,      \* see Options
    Inputs, Length, MaxPath    \* see Path

ASSUME LineAssumption ==
    /\ MaxLine \in Nat /\ Letters \subseteq Nat /\ Plain \cap WithArg = {}
    /\ WordLists \cup FoundLists \subseteq Seq(Seq(Nat)) \ {<<>>}

ASSUME PathAssumption ==
    /\ \A new \in Inputs : /\ new.absolute \in BOOLEAN
                            /\ new.comps \in Seq(DOMAIN Length) \ {<<>>}
    /\ Length \in [DOMAIN Length -> Nat] /\ {"", ".", ".."} \subseteq DOMAIN Length
    /\ Length[""] = 0 /\ MaxPath \in Nat \ {0}

VARIABLES
    phase,        \* "edit", "glob", "options", "path" or "prompt"
    line,         \* rl_line_buffer
    recalled,     \* bound: is the line one of readline's history?
    connected,
    answer,       \* what complete returned for the last key, and where
    args,         \* tokens, a List
    words,        \* history: the words it stands for
    at,           \* where globbing is
    parsing, ind, reset, pos, given,           \* see Options
    cwd, uri, asserted, place, target          \* see Path

typed   == <<line, answer>>
list    == <<args, words, at>>
options == <<parsing, ind, reset, pos, given>>
path    == <<cwd, uri, asserted, place, target>>
vars    == <<phase, recalled, connected, typed, list, options, path>>

Opt == INSTANCE Options WITH argv <- Abs(args)
Pth == INSTANCE Path

NoAnswer == [list |-> NewList, matches |-> {}, start |-> 0]
Typed(l) == line' = l /\ answer' = NoAnswer

-----------------------------------------------------------------------------
Type ==
    /\ phase = "edit" /\ ~recalled /\ Len(line) < MaxLine
    /\ \E c \in Letters : Typed(Append(line, c))
    /\ UNCHANGED <<phase, recalled, connected, list, options, path>>

(***************************************************************************)
(* Tab, at the end of the line.  Readline decides where the word begins,   *)
(* sometimes wrongly; it is empty only behind a blank which isquoted tells *)
(* it is no part of a word.  Of a sole match it may write a blank behind.  *)
(***************************************************************************)
Tab ==
    LET end == Len(line) + 1 IN
    /\ phase = "edit" /\ ~recalled /\ Len(line) <= MaxLine
    /\ \E start \in 1 .. end :
          LET matches == Candidates(line, start, end, connected)
              reply   == Answer(matches)
          IN
          /\ start = end /\ start > 1 => line[start - 1] = Blank /\ ~IsQuoted(line, start - 1)
          /\ matches # {}
          /\ answer' = [list |-> reply, matches |-> matches, start |-> start]
          /\ \E space \in {<<>>} \cup (IF reply.count = 2 THEN {<<Blank>>} ELSE {}) :
                line' = SubSeq(line, 1, start - 1) \o Abs(reply)[1] \o space
    /\ UNCHANGED <<phase, recalled, connected, list, options, path>>

Empty(l) == ToSet(l) \subseteq {Blank}

\* Lines of blanks and lines with unbalanced quotes end here.
Enter ==
    /\ phase = "edit"
    /\ \/ /\ Empty(line) \/ Unbalanced(line)
          /\ ~recalled /\ UNCHANGED <<phase, recalled, list>>
       \/ /\ recalled \/ ~(Empty(line) \/ Unbalanced(line))
          /\ \E w \in WordLists : words' = w /\ args' = AddAll(NewList, w)
          /\ at' = 2 /\ phase' = "glob" /\ recalled' = TRUE
    /\ Typed(<<>>) /\ UNCHANGED <<connected, options, path>>

\* Enter leaves at 2: the first word is the command.
GlobEnds == at > args.count

\* tokenglob returns the position of the last match (but see Glob).
NextWord(found) == at + Len(found) - 1

(***************************************************************************)
(* smbglob and tokenglob: a pattern becomes its matches, of which there is *)
(* one at least, or stays as it is.  (Words left alone lose their          *)
(* backslashes: see Glob; WordLists has words without any.)                *)
(***************************************************************************)
GlobWord ==
    /\ phase = "glob" /\ ~GlobEnds
    /\ \/ /\ args.elems[at - 1] = Pattern
          /\ \E found \in FoundLists :
                /\ args' = ListReplace(args, at - 1, AddAll(NewList, found))
                /\ words' = ReplaceSubSeqAt(at, found, <<Pattern>>, words)
                /\ at' = NextWord(found)
       \/ at' = at + 1 /\ UNCHANGED <<args, words>>
    /\ UNCHANGED <<phase, recalled, connected, typed, options, path>>

CommandBegins ==
    /\ phase = "glob" /\ GlobEnds
    /\ phase' = "options" /\ Opt!Begin
    /\ UNCHANGED <<recalled, connected, typed, list, path>>

\* The command calls egetopt until it knows all options, or gives up.
TakeOption ==
    /\ phase = "options" /\ parsing = "yes" /\ Opt!Egetopt
    /\ UNCHANGED <<phase, recalled, connected, typed, list, path>>

\* The list is freed; if there is an operand, it is a path.
TakeOperand ==
    /\ phase = "options" /\ parsing # "yes"
    /\ phase' = IF parsing = "run" /\ ind <= args.count THEN "path" ELSE "edit"
    /\ args' = NewList /\ words' = <<>> /\ at' = 2
    /\ parsing' = "no" /\ ind' = 2 /\ given' = <<>> /\ UNCHANGED <<reset, pos>>
    /\ UNCHANGED <<recalled, connected, typed, path>>

\* The directory of cd or the file of a request.
UseOperand ==
    /\ phase = "path" /\ phase' = "prompt"
    /\ \E new \in Inputs : Pth!Chdir(new) \/ Pth!Request(new)
    /\ UNCHANGED <<recalled, connected, typed, list, options>>

Prompt ==
    /\ phase = "prompt" /\ phase' = "edit" /\ Pth!NextRequest
    /\ UNCHANGED <<recalled, connected, typed, list, options>>

Init ==
    /\ phase = "edit" /\ recalled = FALSE /\ connected \in BOOLEAN
    /\ line = <<>> /\ answer = NoAnswer
    /\ args = NewList /\ words = <<>> /\ at = 2
    /\ Opt!Init /\ Pth!Init

Next ==
    \/ Type \/ Tab \/ Enter \/ GlobWord \/ CommandBegins \/ TakeOption
    \/ TakeOperand \/ UseOperand \/ Prompt

Spec == Init /\ [][Next]_vars

-----------------------------------------------------------------------------
\* A reference for quoting, which looks at the number of quotes only.
QuotesBefore(n) == Cardinality({m \in 1 .. n - 1 : line[m] = Quote})
Odd(n)          == QuotesBefore(n) % 2 = 1
IsQuote(n)      == n \in DOMAIN line /\ line[n] = Quote
Separates(n)    == line[n] = Blank /\ ~Odd(n)

\* Of the quotes in a row from b on, does the one at n make a pair with the
\* one behind it?  The first of them may open the quotes.
RowBegins(n)    == CHOOSE b \in 1 .. n : /\ ~IsQuote(b - 1)
                                         /\ \A m \in b .. n : IsQuote(m)
FirstOfPair(n)  ==
    /\ IsQuote(n) /\ IsQuote(n + 1)
    /\ (n - RowBegins(n)) % 2 = (IF Odd(RowBegins(n)) THEN 0 ELSE 1)

Inside(n) == IF IsQuote(n) THEN FirstOfPair(n) \/ FirstOfPair(n - 1) ELSE Odd(n)

Meant(n) ==
    IF IsQuote(n) THEN IF FirstOfPair(n) THEN <<Quote>> ELSE <<>>
    ELSE Escaped(line[n], Odd(n))

\* Where words begin, and where the one that begins at b ends.
Begins == {n \in DOMAIN line : ~Separates(n) /\ (n = 1 \/ Separates(n - 1))}
EndOf(b) ==
    CHOOSE e \in b .. Len(line) :
       /\ \A m \in b .. e : ~Separates(m)
       /\ e = Len(line) \/ Separates(e + 1)
Span(b, e) == FlattenSeq([m \in 1 .. e - b + 1 |-> Meant(b + m - 1)])

\* The word behind w - 1 others is the one with number w.
BeginsBefore(n) == Cardinality({b \in Begins : b < n})
WordsMeant ==
    IF Begins = {} THEN <<<<>>>>
    ELSE [w \in 1 .. Cardinality(Begins) |->
            LET b == CHOOSE c \in Begins : BeginsBefore(c) = w - 1
            IN  Span(b, EndOf(b))]

(***************************************************************************)
(* Every line is read as it is quoted, and readline is told the same: what *)
(* the tokenizer takes for a part of a word, isquoted calls quoted, and    *)
(* no other blank (parsecl.c:109-240).  The list of words is never empty,  *)
(* as do_line asserts (interface.c:135), and ends with NULL.               *)
(***************************************************************************)
ReadAsQuoted ==
    /\ Unbalanced(line) = Odd(Len(line) + 1)
    /\ ~Unbalanced(line) => Abs(Tokenize(line)) = WordsMeant /\ Fits(Tokenize(line))
    /\ \A n \in DOMAIN line : IsQuoted(line, n) = Inside(n)

Common(names) ==
    LET one == CHOOSE f \in names : TRUE
        shared == {n \in 0 .. Len(one) : \A f \in names : IsPrefix(SubSeq(one, 1, n), f)}
    IN  SubSeq(one, 1, Max(shared))

(***************************************************************************)
(* What completion writes into the line is read back as what all matches   *)
(* have in common, and as no pattern, and the words before it are as they  *)
(* were (complete.c:61-93, parsecl.c:79-102).  An exception are names with *)
(* a backslash that need no quotes.                                        *)
(***************************************************************************)
ReadsBack ==
    LET common == Common(answer.matches)
        read   == Abs(Tokenize(line))
        before == SubSeq(line, 1, answer.start - 1)
    IN  answer.matches # {} /\ common # <<>> =>
           /\ ToSet(Tail(Abs(answer.list))) = answer.matches
           /\ Front(read) = IF ToSet(before) \subseteq {Blank} THEN <<>>
                            ELSE Abs(Tokenize(before))
           /\ Backslash \notin ToSet(common) \/ NeedsQuotes(common) =>
                 /\ Unescape(Last(read)) = common
                 /\ \A f \in Local \cup Remote : Matches(Last(read), f) => f = common

(***************************************************************************)
(* The lists are the sequences they stand for and end with NULL, whatever  *)
(* has been added, put in front and replaced (list.c:17-197): the command  *)
(* gets the words of the line, a pattern's matches in its place, and       *)
(* readline a vector that ends.                                            *)
(***************************************************************************)
ListsHold ==
    /\ Abs(args) = words /\ Fits(args)
    /\ Fits(answer.list)

OptionsAsGiven == Opt!OptionsAsGiven
PathsEvaluated == Pth!PathsEvaluated
=============================================================================
