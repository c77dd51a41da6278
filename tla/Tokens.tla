------------------------------- MODULE Tokens -------------------------------
(***************************************************************************)
(* How a line is read: tokenize_generic, unescape, quote and isquoted of   *)
(* parsecl.c, and completion (complete.c), which reads the line with the   *)
(* same function and writes into it what must be read back.  Characters    *)
(* are numbers in the order of their codes; only blanks, quotes, a         *)
(* character special to fnmatch and the backslash are told apart.          *)
(* (X_Fault: see CopyByFd.)                                                *)
(***************************************************************************)
EXTENDS Lists, SequencesExt

Blank     == 32
Quote     == 39
Star      == 42
Backslash == 92
Special   == {Star, Backslash}      \* "\\?*[]"

\* The token at the end of a list is the one being read.
Start(line) ==
    LET i == CHOOSE j \in 1 .. Len(line) + 1 :
                /\ j = Len(line) + 1 \/ line[j] # Blank
                /\ \A b \in 1 .. j - 1 : line[b] = Blank
    IN  [i |-> i, token |-> <<>>, tokens |-> NewList,
         inquote |-> FALSE, intoken |-> TRUE, start |-> i, end |-> 0]

\* Inside quotes, two quotes stand for one.
PairedQuote(line, s) ==
    s.inquote /\ s.i < Len(line) /\ line[s.i + 1] = Quote

Escaped(c, inquote) ==
    IF inquote /\ c \in Special THEN <<Backslash, c>> ELSE <<c>>

Begun(s) ==
    [s EXCEPT !.intoken = TRUE, !.start = IF s.intoken THEN @ ELSE s.i]

EndToken(s) ==
    [s EXCEPT !.end = s.i, !.tokens = ListAdd(@, s.token), !.token = <<>>,
              !.intoken = FALSE]

\* The switch, for the character at i.
Advance(line, s) ==
    LET c == line[s.i]  b == Begun(s)  next == [s EXCEPT !.i = @ + 1] IN
    IF c = Quote THEN
        IF PairedQuote(line, s)
        THEN [b EXCEPT !.i = @ + 2, !.token = Append(@, Quote)]
        ELSE [b EXCEPT !.i = @ + 1, !.inquote = ~@]
    ELSE IF c = Blank /\ ~s.intoken THEN next
    ELSE IF c = Blank /\ ~s.inquote THEN [EndToken(s) EXCEPT !.i = @ + 1]
    ELSE [b EXCEPT !.i = @ + 1, !.token = @ \o Escaped(c, s.inquote)]

AtEnd(line) ==
    LET After[n \in 0 .. Len(line)] ==
          IF n = 0 THEN Start(line)
          ELSE LET s == After[n - 1]
               IN  IF s.i > Len(line) THEN s ELSE Advance(line, s)
    IN  After[Len(line)]

\* tokenize_escape: no tokens if the quotes are unbalanced.
Unbalanced(line) == AtEnd(line).inquote
Tokenize(line) ==
    LET s == AtEnd(line) IN (IF s.intoken THEN EndToken(s) ELSE s).tokens

(***************************************************************************)
(* tokenize_partial_escape: a missing quote is added, and if start and end *)
(* are those of the last token, or of a new one, index is its number.  The *)
(* positions are those before which a token starts and ends.               *)
(***************************************************************************)
Partial(line, start, end) ==
    LET s == AtEnd(line)
        t == IF s.intoken THEN EndToken(s) ELSE s
    IN  IF start = end /\ start # 1
        THEN LET new == ListAdd(t.tokens, <<>>) IN [tokens |-> new, index |-> new.count]
        ELSE [tokens |-> t.tokens,
              index  |-> IF t.start = start /\ t.end = end THEN t.tokens.count ELSE 0]

Unescape(token) ==
    LET From[n \in Nat] ==
          IF n > Len(token) THEN <<>>
          ELSE IF token[n] = Backslash /\ n < Len(token)
          THEN <<token[n + 1]>> \o From[n + 2]
          ELSE <<token[n]>> \o From[n + 1]
    IN  From[1]

Doubled_Fault(c) == <<c>>
Doubled(c) == IF c = Quote THEN <<Quote, Quote>> ELSE <<c>>

\* strpbrk(token, " \t'*?[]")
NeedsQuotes(token) == \E c \in ToSet(token) : c \in {Blank, Quote, Star}

Quoted(token) ==
    IF NeedsQuotes(token)
    THEN <<Quote>> \o FlattenSeq([n \in DOMAIN token |-> Doubled(token[n])]) \o <<Quote>>
    ELSE token

EndOfPair_Fault(n) == n
\* A pair is passed over as a whole.
EndOfPair(n) == n + 1

AtPair(line, s) == line[s.i] = Quote /\ PairedQuote(line, s)

Passes(line, index, s) ==
    /\ s.i <= Len(line) /\ s.i # index
    /\ ~(AtPair(line, s) /\ s.i + 1 = index)

PassOver(line, s) ==
    IF AtPair(line, s) THEN [s EXCEPT !.i = EndOfPair(@) + 1]
    ELSE [s EXCEPT !.i = @ + 1, !.inquote = IF line[s.i] = Quote THEN ~@ ELSE @]

\* What readline asks of the character at index.
IsQuoted(line, index) ==
    LET After[n \in 0 .. Len(line)] ==
          IF n = 0 THEN [i |-> 1, inquote |-> FALSE]
          ELSE LET s == After[n - 1]
               IN  IF Passes(line, index, s) THEN PassOver(line, s) ELSE s
        s == After[Len(line)]
    IN  /\ s.i <= Len(line)
        /\ IF line[s.i] = Quote THEN AtPair(line, s) ELSE s.inquote
=============================================================================
