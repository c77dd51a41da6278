------------------------------- MODULE Lists -------------------------------
(***************************************************************************)
(* The containers of list.c: a vector of elements that grows, a count, and *)
(* a terminating NULL, which those who use the vector as argv or as the    *)
(* answer to readline rely on.  What realloc adds to the vector is         *)
(* Undefined until it is written.  (X_Fault: see CopyByFd.)                *)
(***************************************************************************)
EXTENDS Integers, Sequences

CONSTANTS
    Null,        \* the terminating NULL
    Undefined    \* memory that has not been written

\* The first count of the elements are the sequence a list stands for.
Abs(list) == [j \in 1 .. list.count |-> list.elems[j - 1]]

(***************************************************************************)
(* What every function of list.c needs and keeps: the terminating NULL     *)
(* follows the elements, inside the vector.                                *)
(***************************************************************************)
Fits(list) ==
    /\ list.count \in Nat /\ list.size \in Nat /\ list.count < list.size
    /\ DOMAIN list.elems = 0 .. list.size - 1
    /\ list.elems[list.count] = Null

Larger(m, n) == IF m > n THEN m ELSE n

Needed_Fault(list, n) == list.count + n
\* "Check if list can hold count more elements", and the NULL
Needed(list, n) == list.count + n + 1

ExpandFor(list, n) ==
    IF Needed(list, n) <= list.size THEN list
    ELSE LET max == Larger(2 * list.size, Needed(list, n)) IN
         [list EXCEPT !.size = max,
                      !.elems = [j \in 0 .. max - 1 |->
                          IF j < list.size THEN list.elems[j] ELSE Undefined]]

NewList == [elems |-> [j \in {0} |-> Null], count |-> 0, size |-> 1]

ListAdd(list, x) ==
    LET e == ExpandFor(list, 1) IN
    [e EXCEPT !.elems = [@ EXCEPT ![e.count] = x, ![e.count + 1] = Null],
              !.count = @ + 1]

\* list_add of one after the other
AddAll(list, s) ==
    LET After[n \in 0 .. Len(s)] ==
          IF n = 0 THEN list ELSE ListAdd(After[n - 1], s[n])
    IN  After[Len(s)]

\* The elements and the NULL are shifted, the last one first.
ListPrepend(list, x) ==
    LET e == ExpandFor(list, 1) IN
    [e EXCEPT !.elems = [j \in DOMAIN @ |->
                  IF j = 0 THEN x ELSE IF j <= e.count + 1 THEN @[j - 1] ELSE @[j]],
              !.count = @ + 1]

(***************************************************************************)
(* The element at index becomes those of new.  The elements behind it are  *)
(* moved by the number of elements that come in addition, the last one     *)
(* first; if new is empty they are moved down, and that order makes all of *)
(* them the NULL.                                                          *)
(***************************************************************************)
ListReplace(list, index, new) ==
    LET e == ExpandFor(list, new.count)
        extra == new.count - 1
    IN  [e EXCEPT !.elems = [j \in DOMAIN @ |->
                  IF j \in index .. index + extra THEN new.elems[j - index]
                  ELSE IF j \in index + 1 + extra .. e.count + extra
                  THEN @[IF extra < 0 THEN e.count ELSE j - extra]
                  ELSE @[j]],
              !.count = @ + extra]
=============================================================================
