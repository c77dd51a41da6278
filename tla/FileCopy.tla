------------------------------ MODULE FileCopy ------------------------------
(***************************************************************************)
(* What a caller of copybyfd (transfer.c) is promised, and nothing about   *)
(* how: a destination file receives a source file from one position on, in *)
(* order, in pieces, until the source is exhausted or the copy gives up.   *)
(*                                                                         *)
(* A file is a function from positions to what is stored there.  The unit  *)
(* is a block, so that TLC meets every case of the buffer arithmetic with  *)
(* a handful of positions.  Position i of the source holds the value i;    *)
(* the destination holds i where it has received it, Old where it still    *)
(* has what was there before this copy, Absent beyond its end.             *)
(***************************************************************************)
EXTENDS Integers

CONSTANT MaxSize        \* bound: blocks in the largest file

VARIABLES
    phase,    \* "idle" between copies, "copying" during one
    result,   \* how the last copy ended: "none" yet, "ok" or "failed"
    size,     \* blocks in the source
    start,    \* blocks of the destination the copy was told to keep
    pos,      \* blocks of the destination that are known to be right
    dst       \* the destination file

vars == <<phase, result, size, start, pos, dst>>

Absent    == 0
Old       == -1
Positions == 1 .. MaxSize
Sizes     == 0 .. MaxSize
Files     == [Positions -> {Old, Absent} \cup Positions]

\* A file of n blocks, none of them from this copy.
OldFile(n) == [i \in Positions |-> IF i <= n THEN Old ELSE Absent]

\* file f after k blocks were stored at position at, read from position from.
Stored(f, at, from, k) ==
    [i \in Positions |-> IF i \in at+1 .. at+k THEN from + (i - at) ELSE f[i]]

TypeOK ==
    /\ phase \in {"idle", "copying"}
    /\ result \in {"none", "ok", "failed"}
    /\ size \in Sizes /\ start \in Sizes /\ pos \in Sizes
    /\ dst \in Files

Init ==
    /\ phase = "idle" /\ result = "none"
    /\ size = 0 /\ start = 0 /\ pos = 0
    /\ dst = OldFile(0)

(***************************************************************************)
(* The caller opened a destination of n blocks, no longer than the source, *)
(* and moved to block o of both files.                                     *)
(***************************************************************************)
Begin ==
    /\ phase = "idle"
    /\ \E len \in Sizes : \E n \in 0 .. len : \E o \in 0 .. n :
          size' = len /\ start' = o /\ pos' = o /\ dst' = OldFile(n)
    /\ phase' = "copying" /\ result' = "none"

Move(k) ==
    /\ phase = "copying"
    /\ pos + k <= size
    /\ dst' = Stored(dst, pos, pos, k)
    /\ pos' = pos + k
    /\ UNCHANGED <<phase, result, size, start>>

\* Success may be reported only when nothing of the source is missing.
Finish ==
    /\ phase = "copying" /\ pos = size
    /\ phase' = "idle" /\ result' = "ok"
    /\ UNCHANGED <<size, start, pos, dst>>

Abort ==
    /\ phase = "copying"
    /\ phase' = "idle" /\ result' = "failed"
    /\ UNCHANGED <<size, start, pos, dst>>

Next == Begin \/ (\E k \in Positions : Move(k)) \/ Finish \/ Abort

Spec == Init /\ [][Next]_vars
=============================================================================
