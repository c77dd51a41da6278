------------------------------- MODULE Screen -------------------------------
(***************************************************************************)
(* What is laid out for a terminal: names in columns (misc.c) and the line *)
(* that shows the progress of a copy (transfer.c).  Of a name or a number  *)
(* only its length counts.                                                 *)
(***************************************************************************)
EXTENDS Integers, Sequences

-----------------------------------------------------------------------------
\* How many groups of k it takes for n.
Groups(n, k) == (n + k - (IF n % k = 0 THEN k ELSE n % k)) \div k

(***************************************************************************)
(* printcolumns: the rows in which the names of s are printed, when fit    *)
(* columns fit.  They go down one column and then down the next.           *)
(***************************************************************************)
Rows(s, fit) == IF fit <= 1 THEN Len(s) ELSE Groups(Len(s), fit)
Cols(s, fit) == IF fit <= 1 THEN 1 ELSE Groups(Len(s), Rows(s, fit))

Columns(s, fit) ==
    [i \in 1 .. Rows(s, fit) |->
        [j \in {c \in 1 .. Cols(s, fit) : (c - 1) * Rows(s, fit) + i <= Len(s)} |->
            s[(j - 1) * Rows(s, fit) + i]]]

-----------------------------------------------------------------------------
PROGRESSLINE_MAXLEN == 1024

Least(a, b) == IF a < b THEN a ELSE b

Eta  == 13     \* what is kept for "   01:49 ETA " and " 122.2 KB/s "
Name == 15     \* the least for a name, a colon and two spaces
Size == 9      \* for " 9352 KB"
Bar  == 25     \* the least for a bar; the most is 50

progresslen(width) == Least(width, PROGRESSLINE_MAXLEN)
totallen(width)    == progresslen(width) - Eta

SizeShown(width) == totallen(width) - Name >= Size
BarShown(width)  == totallen(width) - Name - Size >= Bar

sizelen(width) == IF SizeShown(width) THEN Size ELSE 0

\* The name may have what the others leave, and needs no more than itself.
filelen(width, name) ==
    Least(totallen(width) - sizelen(width) - (IF BarShown(width) THEN Bar ELSE 0),
          name + 3)

barlen(width, name) ==
    IF BarShown(width)
    THEN Least(totallen(width) - filelen(width, name) - Size, 50) ELSE 0

space(width, name) ==
    totallen(width) - sizelen(width) - filelen(width, name) + 2 - barlen(width, name)

\* What is printed of a name: all of it, or three dots and its end.
Dotted(width, name)  == name > filelen(width, name) - 3
Printed(width, name) ==
    IF Dotted(width, name) THEN 3 + (filelen(width, name) - 6) ELSE name

\* makeprogress: how long the line is before the ETA is appended.
makeprogress(width, name) ==
    IF totallen(width) < Name THEN 0
    ELSE Printed(width, name) + 1 + space(width, name) + barlen(width, name)
            + sizelen(width)

\* (int)(0.5 + (double)barlen * ratio), barlen without the bars at its ends.
starlen(inner, done, end) ==
    IF end = 0 THEN inner ELSE (end + 2 * inner * done) \div (2 * end)

\* printprogress, printcompleted: how much of the line is written.
LineLength(width, name) ==
    IF progresslen(width) < Eta THEN 0 ELSE makeprogress(width, name) + Eta

-----------------------------------------------------------------------------
(***************************************************************************)
(* The bytes per second, from those of the last second and the average so  *)
(* far; elapsed is in microseconds.                                        *)
(***************************************************************************)
Measured(average, bytes, elapsed) ==
    IF average <= 1 THEN (1000000 * bytes) \div elapsed
    ELSE (8 * average * elapsed + 2000000 * bytes) \div (10 * elapsed)

Average(average, bytes, elapsed) ==
    LET m == Measured(average, bytes, elapsed) IN IF m <= 0 THEN 1 ELSE m

Seconds(left, average) == left \div average

\* The two numbers of an ETA of less than a day.
large(seconds) == seconds \div (IF seconds >= 3600 THEN 3600 ELSE 60)
small(seconds) ==
    IF seconds >= 3600 THEN (seconds % 3600) \div 60 ELSE seconds % 60
=============================================================================
