------------------------------ MODULE Options ------------------------------
(***************************************************************************)
(* egetopt.c, as every command calls it: in a loop until -1 is returned,   *)
(* or until it complains and the command prints its usage.  The position   *)
(* in a word of several options is a static variable, which survives a     *)
(* command that gives up in the middle of one.  (X_Fault: see CopyByFd.)   *)
(***************************************************************************)
EXTENDS Integers, Sequences

CONSTANTS
    Plain, WithArg,   \* the letters of optstr, without and with a colon
    Dash

VARIABLES
    argv,      \* the command and its words, which are sequences of characters
    parsing,   \* "no", "yes", "usage" or "run"
    ind,       \* eoptind, the command being 1
    reset,     \* eoptreset
    pos,       \* pos, the first character being 1 and 0 for -1
    given      \* what egetopt returned: letters, with eoptarg

vars == <<argv, parsing, ind, reset, pos, given>>

IsOption(word) == Len(word) > 1 /\ word[1] = Dash

\* A command begins: eoptind = 1; eoptreset = 1.
ResetAtStart_Fault == reset
ResetAtStart == TRUE

Begin ==
    /\ parsing' = "yes" /\ ind' = 2 /\ reset' = ResetAtStart /\ given' = <<>>
    /\ UNCHANGED pos

\* A position behind the word "should not happen"; the word is passed over
\* (behind the last one there is only NULL, and this ends, too).
Kept   == IF reset THEN 0 ELSE pos
Behind == ind <= Len(argv) /\ Kept # 0 /\ Kept > Len(argv[ind])
Here   == IF Behind THEN ind + 1 ELSE ind
Fresh  == Behind \/ Kept = 0

\* -1, "--" being passed over
Ends ==
    /\ \/ Here > Len(argv) /\ pos' = Kept /\ UNCHANGED ind
       \/ /\ Here <= Len(argv) /\ Fresh /\ pos' = 0
          /\ \/ ~IsOption(argv[Here]) /\ ind' = Here
             \/ argv[Here] = <<Dash, Dash>> /\ ind' = Here + 1
    /\ parsing' = "run" /\ UNCHANGED given

\* The character of the next option, if there is one.
At     == IF Fresh THEN 2 ELSE Kept
InWord ==
    /\ Here <= Len(argv)
    /\ Fresh => IsOption(argv[Here]) /\ argv[Here] # <<Dash, Dash>>
Char == argv[Here][At]
Rest == SubSeq(argv[Here], At + 1, Len(argv[Here]))

Illegal ==
    /\ InWord /\ Char \notin Plain \cup WithArg
    /\ parsing' = "usage" /\ pos' = At /\ ind' = Here /\ UNCHANGED given

PlainOption ==
    /\ InWord /\ Char \in Plain
    /\ given' = Append(given, <<Char>>) /\ UNCHANGED parsing
    /\ IF Rest = <<>> THEN pos' = 0 /\ ind' = Here + 1
       ELSE pos' = At + 1 /\ ind' = Here

\* The argument is the rest of the word or the next word.
OptionWithArg ==
    /\ InWord /\ Char \in WithArg /\ pos' = 0
    /\ \/ /\ Rest # <<>> /\ ind' = Here + 1
          /\ given' = Append(given, <<Char, Rest>>) /\ UNCHANGED parsing
       \/ /\ Rest = <<>> /\ Here < Len(argv) /\ ind' = Here + 2
          /\ given' = Append(given, <<Char, argv[Here + 1]>>) /\ UNCHANGED parsing
       \/ /\ Rest = <<>> /\ Here = Len(argv) /\ ind' = Here + 1
          /\ parsing' = "usage" /\ UNCHANGED given

\* One call of egetopt.
Egetopt ==
    /\ parsing = "yes" /\ reset' = FALSE
    /\ Ends \/ Illegal \/ PlainOption \/ OptionWithArg

Init ==
    /\ parsing = "no" /\ ind = 2 /\ reset = FALSE /\ pos = 0 /\ given = <<>>

-----------------------------------------------------------------------------
\* The first character of a word that is no option without an argument.
FirstOther(w) ==
    CHOOSE n \in 2 .. Len(w) + 1 :
       /\ \A m \in 2 .. n - 1 : w[m] \in Plain
       /\ n = Len(w) + 1 \/ w[n] \notin Plain

\* What a line means from its k-th word on, word after word and without a
\* position that is kept.
Reading ==
    LET Nothing(k, ok) == [given |-> <<>>, operand |-> k, ok |-> ok]
        With(o, m)     == [m EXCEPT !.given = o \o @]
        From[k \in 2 .. Len(argv) + 1] ==
          IF k > Len(argv) \/ ~IsOption(argv[k]) THEN Nothing(k, TRUE)
          ELSE IF argv[k] = <<Dash, Dash>> THEN Nothing(k + 1, TRUE)
          ELSE LET w     == argv[k]
                   n     == FirstOther(w)
                   plain == [m \in 1 .. n - 2 |-> <<w[m + 1]>>] IN
            IF n > Len(w) THEN With(plain, From[k + 1])
            ELSE IF w[n] \notin WithArg THEN Nothing(k, FALSE)
            ELSE IF n < Len(w)
            THEN With(Append(plain, <<w[n], SubSeq(w, n + 1, Len(w))>>), From[k + 1])
            ELSE IF k < Len(argv)
            THEN With(Append(plain, <<w[n], argv[k + 1]>>), From[k + 2])
            ELSE Nothing(k, FALSE)
    IN  From

Meaning == Reading[2]

(***************************************************************************)
(* A command gets the options and operands of its own words, or prints its *)
(* usage if these are wrong, whatever the command before it left behind    *)
(* (egetopt.c:26-101, cmds.c:430-447).                                     *)
(***************************************************************************)
OptionsAsGiven ==
    /\ parsing = "run"   => Meaning.ok /\ given = Meaning.given /\ ind = Meaning.operand
    /\ parsing = "usage" => ~Meaning.ok
=============================================================================
