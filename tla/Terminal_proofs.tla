--------------------------- MODULE Terminal_proofs ---------------------------
(***************************************************************************)
(* What comes from the terminal and goes to it.  For every list:           *)
(* list_add, list_prepend and list_replace do to the vector what they      *)
(* should do to the sequence it stands for, and leave room for the         *)
(* terminating NULL; so the words of every line, with any words and        *)
(* matches, are in such lists.  For every command and every words: egetopt *)
(* returns the options that are there.  For every line: the tokenizer and  *)
(* isquoted read it as it is quoted.  For every path: evalpath leads where *)
(* its components lead.  For every width of the terminal and every length  *)
(* of a name: the line of progress fits.  For every line and every tree:   *)
(* patterns become the files they match.                                   *)
(***************************************************************************)
EXTENDS Line, Screen, Globbing, WellFoundedInduction, SequenceTheorems, FiniteSetTheorems, TLAPS

IsList(lst) ==
    lst = [elems |-> lst.elems, count |-> lst.count, size |-> lst.size]

\* What Fits says, for those who take list apart.
LEMMA FitsMeans ==
    ASSUME NEW lst, Fits(lst)
    PROVE  /\ lst.count \in Nat /\ lst.size \in Nat /\ lst.count < lst.size
           /\ DOMAIN lst.elems = 0 .. lst.size - 1 /\ lst.elems[lst.count] = Null
           /\ \A j \in 1 .. lst.count : Abs(lst)[j] = lst.elems[j - 1]
  BY DEF Fits, Abs

\* "Check if list can hold count more elements, if not, more memory is taken".
LEMMA ExpandHolds ==
    ASSUME NEW lst, IsList(lst), Fits(lst), NEW n \in Nat
    PROVE  LET e == ExpandFor(lst, n) IN
           /\ IsList(e) /\ Fits(e) /\ e.count = lst.count /\ lst.count + n < e.size
           /\ \A j \in 0 .. lst.count : e.elems[j] = lst.elems[j]
<1> DEFINE e   == ExpandFor(lst, n)
           max == Larger(2 * lst.size, lst.count + n + 1)
<1>1. /\ lst.count \in Nat /\ lst.size \in Nat /\ lst.count < lst.size
      /\ DOMAIN lst.elems = 0 .. lst.size - 1 /\ lst.elems[lst.count] = Null
    BY FitsMeans
<1>2. CASE lst.count + n + 1 <= lst.size
  <2>1. e = lst
      BY <1>2 DEF ExpandFor, Needed
  <2>. QED
      BY <1>1, <1>2, <2>1
<1>3. CASE ~(lst.count + n + 1 <= lst.size)
  <2> DEFINE more == [j \in 0 .. max - 1 |->
                         IF j < lst.size THEN lst.elems[j] ELSE Undefined]
  <2>1. e = [lst EXCEPT !.size = max, !.elems = more]
      BY <1>3 DEF ExpandFor, Needed
  <2>2. max \in Nat /\ lst.count + n < max
      BY <1>1 DEF Larger
  <2> HIDE DEF max
  <2>3. \A j \in 0 .. lst.count : more[j] = lst.elems[j]
      BY <1>1, <2>2
  <2>4. DOMAIN more = 0 .. max - 1 /\ more[lst.count] = Null
      BY <1>1, <2>3
  <2> HIDE DEF more, e
  <2>5. e = [elems |-> more, count |-> lst.count, size |-> max]
      BY <2>1 DEF IsList
  <2>6. IsList(e) /\ e.elems = more /\ e.count = lst.count /\ e.size = max
      BY <2>5 DEF IsList
  <2>7. Fits(e)
      BY <1>1, <2>2, <2>4, <2>6 DEF Fits
  <2>. QED
      BY <1>1, <2>2, <2>3, <2>6, <2>7 DEF e
<1>. QED
    BY <1>1, <1>2, <1>3

(***************************************************************************)
(* list_add puts x behind the elements (list.c:124-132).                   *)
(***************************************************************************)
THEOREM AddHolds ==
    ASSUME NEW lst, IsList(lst), Fits(lst), NEW x
    PROVE  LET r == ListAdd(lst, x) IN
           /\ IsList(r) /\ Fits(r) /\ r.count = lst.count + 1
           /\ \A j \in 1 .. lst.count + 1 :
                 Abs(r)[j] = IF j <= lst.count THEN Abs(lst)[j] ELSE x
<1> DEFINE e == ExpandFor(lst, 1)
           r == ListAdd(lst, x)
           n == lst.count
<1>1. /\ IsList(e) /\ Fits(e) /\ e.count = n /\ n + 1 < e.size
      /\ \A j \in 0 .. n : e.elems[j] = lst.elems[j]
    BY ExpandHolds
<1>2. /\ n \in Nat /\ e.size \in Nat /\ DOMAIN e.elems = 0 .. e.size - 1
      /\ \A j \in 1 .. n : Abs(lst)[j] = lst.elems[j - 1]
    BY <1>1, FitsMeans
<1> DEFINE new == [e.elems EXCEPT ![n] = x, ![n + 1] = Null]
<1>3. r = [e EXCEPT !.elems = new, !.count = n + 1]
    BY <1>1 DEF ListAdd
<1> HIDE DEF e, n
<1>4. /\ DOMAIN new = 0 .. e.size - 1 /\ new[n + 1] = Null /\ new[n] = x
      /\ \A j \in 0 .. n - 1 : new[j] = lst.elems[j]
  <2>1. DOMAIN new = 0 .. e.size - 1
      BY <1>2
  <2>2. n \in DOMAIN e.elems /\ n + 1 \in DOMAIN e.elems /\ n # n + 1
      BY <1>1, <1>2
  <2>3. new[n + 1] = Null /\ new[n] = x
      BY <2>2
  <2>4. ASSUME NEW j \in 0 .. n - 1 PROVE new[j] = lst.elems[j]
    <3>1. j \in DOMAIN e.elems /\ j \in 0 .. n /\ j # n /\ j # n + 1
        BY <1>1, <1>2
    <3>. QED
        BY <1>1, <3>1
  <2>. QED
      BY <2>1, <2>3, <2>4
<1> HIDE DEF new, r
<1>5. r = [elems |-> new, count |-> n + 1, size |-> e.size]
    BY <1>1, <1>3 DEF IsList
<1>6. IsList(r) /\ r.elems = new /\ r.count = n + 1 /\ r.size = e.size
    BY <1>5 DEF IsList
<1>7. Fits(r)
    BY <1>1, <1>2, <1>4, <1>6 DEF Fits
<1>8. \A j \in 1 .. n + 1 : Abs(r)[j] = new[j - 1]
    BY <1>6 DEF Abs
<1>9. \A j \in 1 .. n + 1 : Abs(r)[j] = IF j <= n THEN Abs(lst)[j] ELSE x
    BY <1>2, <1>4, <1>8
<1>. QED
    BY <1>6, <1>7, <1>9 DEF r, n

(***************************************************************************)
(* list_prepend puts x before the elements (list.c:139-152).               *)
(***************************************************************************)
THEOREM PrependHolds ==
    ASSUME NEW lst, IsList(lst), Fits(lst), NEW x
    PROVE  LET r == ListPrepend(lst, x) IN
           /\ IsList(r) /\ Fits(r) /\ r.count = lst.count + 1
           /\ \A j \in 1 .. lst.count + 1 :
                 Abs(r)[j] = IF j = 1 THEN x ELSE Abs(lst)[j - 1]
<1> DEFINE e == ExpandFor(lst, 1)
           r == ListPrepend(lst, x)
           n == lst.count
<1>1. /\ IsList(e) /\ Fits(e) /\ e.count = n /\ n + 1 < e.size
      /\ \A j \in 0 .. n : e.elems[j] = lst.elems[j]
    BY ExpandHolds
<1>2. /\ n \in Nat /\ e.size \in Nat /\ DOMAIN e.elems = 0 .. e.size - 1
      /\ lst.elems[n] = Null
      /\ \A j \in 1 .. n : Abs(lst)[j] = lst.elems[j - 1]
    BY <1>1, FitsMeans
<1> DEFINE new == [j \in DOMAIN e.elems |->
                      IF j = 0 THEN x ELSE IF j <= n + 1 THEN e.elems[j - 1] ELSE e.elems[j]]
<1>3. r = [e EXCEPT !.elems = new, !.count = n + 1]
    BY <1>1 DEF ListPrepend
<1> HIDE DEF e, n
<1>4. /\ DOMAIN new = 0 .. e.size - 1 /\ new[n + 1] = Null /\ new[0] = x
      /\ \A j \in 1 .. n : new[j] = lst.elems[j - 1]
  <2>1. DOMAIN new = 0 .. e.size - 1
      BY <1>2
  <2>2. new[0] = x
      BY <1>1, <1>2
  <2>3. /\ n + 1 \in DOMAIN e.elems /\ n + 1 # 0 /\ n + 1 - 1 = n
        /\ e.elems[n] = Null
      BY <1>1, <1>2
  <2>4. new[n + 1] = e.elems[n + 1 - 1]
      BY <1>2, <2>3
  <2>5. ASSUME NEW j \in 1 .. n PROVE new[j] = lst.elems[j - 1]
      BY <1>1, <1>2
  <2>. QED
      BY <2>1, <2>2, <2>3, <2>4, <2>5
<1> HIDE DEF new, r
<1>5. r = [elems |-> new, count |-> n + 1, size |-> e.size]
    BY <1>1, <1>3 DEF IsList
<1>6. IsList(r) /\ r.elems = new /\ r.count = n + 1 /\ r.size = e.size
    BY <1>5 DEF IsList
<1>7. Fits(r)
    BY <1>1, <1>2, <1>4, <1>6 DEF Fits
<1>8. \A j \in 1 .. n + 1 : Abs(r)[j] = new[j - 1]
    BY <1>6 DEF Abs
<1>9. \A j \in 1 .. n + 1 : Abs(r)[j] = IF j = 1 THEN x ELSE Abs(lst)[j - 1]
  <2> SUFFICES ASSUME NEW j \in 1 .. n + 1
               PROVE  Abs(r)[j] = IF j = 1 THEN x ELSE Abs(lst)[j - 1]
      OBVIOUS
  <2>1. CASE j = 1
      BY <1>4, <1>8, <2>1
  <2>2. CASE j # 1
    <3>1. j - 1 \in 1 .. n /\ j \in Int
        BY <1>2, <2>2
    <3>. QED
        BY <1>2, <1>4, <1>8, <2>2, <3>1
  <2>. QED
      BY <2>1, <2>2
<1>. QED
    BY <1>6, <1>7, <1>9 DEF r, n

(***************************************************************************)
(* list_replace puts the elements of a list that is not empty in the place *)
(* of one element (list.c:173-197).                                        *)
(***************************************************************************)
THEOREM ReplaceHolds ==
    ASSUME NEW lst, IsList(lst), Fits(lst), NEW new, Fits(new), new.count > 0,
           NEW index \in 0 .. lst.count - 1
    PROVE  LET r == ListReplace(lst, index, new)
               m == new.count
           IN  /\ IsList(r) /\ Fits(r) /\ r.count = lst.count + m - 1
               /\ \A j \in 1 .. lst.count + m - 1 :
                     Abs(r)[j] = IF j <= index THEN Abs(lst)[j]
                                 ELSE IF j <= index + m THEN Abs(new)[j - index]
                                 ELSE Abs(lst)[j - (m - 1)]
<1> DEFINE m == new.count
           n == lst.count
           e == ExpandFor(lst, m)
           r == ListReplace(lst, index, new)
<1>1. m \in Nat /\ m > 0 /\ \A j \in 1 .. m : Abs(new)[j] = new.elems[j - 1]
    BY FitsMeans
<1>2. /\ n \in Nat /\ lst.elems[n] = Null
      /\ \A j \in 1 .. n : Abs(lst)[j] = lst.elems[j - 1]
    BY FitsMeans
<1>3. /\ IsList(e) /\ Fits(e) /\ e.count = n /\ n + m < e.size
      /\ \A j \in 0 .. n : e.elems[j] = lst.elems[j]
    BY <1>1, ExpandHolds
<1>4. e.size \in Nat /\ DOMAIN e.elems = 0 .. e.size - 1
    BY <1>3, FitsMeans
<1> DEFINE vec == [j \in DOMAIN e.elems |->
                      IF j \in index .. index + (m - 1) THEN new.elems[j - index]
                      ELSE IF j \in index + 1 + (m - 1) .. n + (m - 1)
                      THEN e.elems[IF m - 1 < 0 THEN n ELSE j - (m - 1)]
                      ELSE e.elems[j]]
<1>5. r = [e EXCEPT !.elems = vec, !.count = n + (m - 1)]
    BY <1>3 DEF ListReplace
<1> HIDE DEF e, n, m
<1>6. index \in Nat /\ index < n /\ n + m - 1 \in Nat /\ n + (m - 1) = n + m - 1
    BY <1>1, <1>2 DEF n
<1>7. /\ DOMAIN vec = 0 .. e.size - 1
      /\ \A j \in 0 .. index - 1 : vec[j] = lst.elems[j]
  <2>1. DOMAIN vec = 0 .. e.size - 1
      BY <1>4
  <2>2. ASSUME NEW j \in 0 .. index - 1
        PROVE  vec[j] = lst.elems[j]
    <3>1. /\ j \in DOMAIN e.elems /\ j \in 0 .. n
          /\ j \notin index .. index + (m - 1)
          /\ j \notin index + 1 + (m - 1) .. n + (m - 1)
        BY <1>1, <1>2, <1>3, <1>4, <1>6
    <3>. QED
        BY <1>3, <3>1
  <2>. QED
      BY <2>1, <2>2
<1>8. \A j \in index .. index + m - 1 : vec[j] = new.elems[j - index]
    BY <1>1, <1>2, <1>3, <1>4, <1>6
<1>9. ASSUME NEW j \in index + m .. n + m - 1
      PROVE  vec[j] = lst.elems[j - (m - 1)]
  <2>1. j \in DOMAIN e.elems /\ j - (m - 1) \in 0 .. n /\ ~(m - 1 < 0)
      BY <1>1, <1>2, <1>3, <1>4, <1>6
  <2>2. j \notin index .. index + (m - 1) /\ j \in index + 1 + (m - 1) .. n + (m - 1)
      BY <1>1, <1>2, <1>6
  <2>3. vec[j] = e.elems[j - (m - 1)]
      BY <2>1, <2>2
  <2>. QED
      BY <1>3, <2>1, <2>3
<1> HIDE DEF vec, r
<1>10. vec[n + m - 1] = Null
  <2>1. PICK k \in index + m .. n + m - 1 : k = n + m - 1 /\ k - (m - 1) = n
      BY <1>1, <1>2, <1>6
  <2>2. vec[k] = lst.elems[k - (m - 1)]
      BY <1>9
  <2>. QED
      BY <1>2, <2>1, <2>2
<1>11. r = [elems |-> vec, count |-> n + m - 1, size |-> e.size]
    BY <1>3, <1>5, <1>6 DEF IsList
<1>12. IsList(r) /\ r.elems = vec /\ r.count = n + m - 1 /\ r.size = e.size
    BY <1>11 DEF IsList
<1>13. Fits(r)
    BY <1>1, <1>2, <1>3, <1>4, <1>6, <1>7, <1>10, <1>12 DEF Fits
<1>14. \A j \in 1 .. n + m - 1 : Abs(r)[j] = vec[j - 1]
    BY <1>12 DEF Abs
<1>15. ASSUME NEW j \in 1 .. n + m - 1
       PROVE  Abs(r)[j] = IF j <= index THEN Abs(lst)[j]
                          ELSE IF j <= index + m THEN Abs(new)[j - index]
                          ELSE Abs(lst)[j - (m - 1)]
  <2>1. CASE j <= index
    <3>1. j - 1 \in 0 .. index - 1 /\ j \in 1 .. n
        BY <1>6, <1>2, <2>1
    <3>. QED
        BY <1>2, <1>7, <1>14, <2>1, <3>1
  <2>2. CASE index < j /\ j <= index + m
    <3>1. j - 1 \in index .. index + m - 1 /\ j - index \in 1 .. m
            /\ (j - 1) - index = (j - index) - 1 /\ ~(j <= index)
        BY <1>1, <1>6, <2>2
    <3>. QED
        BY <1>1, <1>8, <1>14, <2>2, <3>1
  <2>3. CASE index + m < j
    <3>1. j - 1 \in index + m .. n + m - 1 /\ j - (m - 1) \in 1 .. n
            /\ (j - 1) - (m - 1) = (j - (m - 1)) - 1 /\ ~(j <= index) /\ ~(j <= index + m)
        BY <1>1, <1>2, <1>6, <2>3
    <3>. QED
        BY <1>2, <1>9, <1>14, <2>3, <3>1
  <2>. QED
      BY <1>1, <1>6, <2>1, <2>2, <2>3
<1>. QED
    BY <1>12, <1>13, <1>15 DEF r, n, m

-----------------------------------------------------------------------------
LEMMA Induction ==
    ASSUME NEW S, 0 \in S, \A n \in Nat : n \in S => n + 1 \in S
    PROVE  Nat \subseteq S
<1> DEFINE T == Nat \ S
           R == OpToRel(<, Nat)
<1> SUFFICES ASSUME T # {} PROVE FALSE
    OBVIOUS
<1>1. PICK x \in T : \A y \in T : ~(<<y, x>> \in R)
    BY NatLessThanWellFounded, WFMin
<1>2. x \in Nat /\ x # 0 /\ x - 1 \in Nat /\ x - 1 < x /\ (x - 1) + 1 = x
  <2> HIDE DEF R
  <2>1. x \in Nat /\ x # 0
      OBVIOUS
  <2>. QED
      BY <2>1
<1>3. <<x - 1, x>> \in R
    BY <1>2 DEF OpToRel
<1>4. x - 1 \in S
    BY <1>1, <1>2, <1>3
<1>. QED
    BY <1>1, <1>2, <1>4

\* A list as every function of list.c leaves it, and what it stands for.
Holds(lst, s) ==
    /\ IsList(lst) /\ Fits(lst) /\ lst.count = Len(s)
    /\ \A j \in 1 .. Len(s) : Abs(lst)[j] = s[j]

LEMMA NewHolds == IsList(NewList) /\ Fits(NewList) /\ NewList.count = 0
<1>1. /\ NewList.elems = [j \in {0} |-> Null] /\ NewList.count = 0 /\ NewList.size = 1
    BY DEF NewList
<1>2. IsList(NewList)
    BY DEF IsList, NewList
<1>3. DOMAIN NewList.elems = 0 .. 0 /\ NewList.elems[0] = Null
    BY <1>1
<1>. QED
    BY <1>1, <1>2, <1>3 DEF Fits

\* What AddAll chooses.
IsAdded(f, lst, s, n) ==
    f = [k \in 0 .. n |-> IF k = 0 THEN lst ELSE ListAdd(f[k - 1], s[k])]

LEMMA AddedExists ==
    ASSUME NEW lst, NEW s, NEW n \in Nat
    PROVE  \E f : IsAdded(f, lst, s, n)
<1> DEFINE S == {m \in Nat : \E f : IsAdded(f, lst, s, m)}
<1>1. 0 \in S
  <2> DEFINE f == [k \in 0 .. 0 |-> lst]
  <2>1. IsAdded(f, lst, s, 0)
      BY DEF IsAdded
  <2>. QED
      BY <2>1
<1>2. ASSUME NEW m \in Nat, m \in S PROVE m + 1 \in S
  <2>1. PICK f : IsAdded(f, lst, s, m)
      BY <1>2
  <2> DEFINE g == [k \in 0 .. m + 1 |->
                      IF k <= m THEN f[k] ELSE ListAdd(f[m], s[m + 1])]
             h == [k \in 0 .. m + 1 |-> IF k = 0 THEN lst ELSE ListAdd(g[k - 1], s[k])]
  <2>2. ASSUME NEW k \in 0 .. m + 1 PROVE g[k] = h[k]
    <3>1. CASE k = 0
        BY <2>1, <3>1 DEF IsAdded
    <3>2. CASE k # 0 /\ k <= m
      <4>1. k \in 0 .. m /\ k - 1 \in 0 .. m + 1 /\ k - 1 <= m
          BY <3>2
      <4>2. g[k] = f[k] /\ g[k - 1] = f[k - 1] /\ h[k] = ListAdd(g[k - 1], s[k])
          BY <3>2, <4>1
      <4>3. f[k] = ListAdd(f[k - 1], s[k])
          BY <2>1, <3>2, <4>1 DEF IsAdded
      <4>. QED
          BY <4>2, <4>3
    <3>3. CASE k = m + 1
      <4>1. k - 1 = m /\ k # 0 /\ ~(k <= m) /\ m \in 0 .. m + 1 /\ m <= m
          BY <3>3
      <4>. QED
          BY <3>3, <4>1
    <3>. QED
        BY <3>1, <3>2, <3>3
  <2>3. IsAdded(g, lst, s, m + 1)
      BY <2>2 DEF IsAdded
  <2> HIDE DEF g, h
  <2>. QED
      BY <2>3
<1>3. Nat \subseteq S
  <2> HIDE DEF S
  <2>. QED
      BY <1>1, <1>2, Induction
<1>. QED
    BY <1>3

\* Elements added to a new list are what it stands for.
LEMMA AddAllHolds ==
    ASSUME NEW s, Len(s) \in Nat
    PROVE  Holds(AddAll(NewList, s), s)
<1> DEFINE L == Len(s)
           f == CHOOSE g : IsAdded(g, NewList, s, L)
           S == {n \in Nat : n <= L =>
                    /\ IsList(f[n]) /\ Fits(f[n]) /\ f[n].count = n
                    /\ \A j \in 1 .. n : Abs(f[n])[j] = s[j]}
<1>1. IsAdded(f, NewList, s, L)
    BY AddedExists, Zenon
<1>2. AddAll(NewList, s) = f[L]
    BY DEF AddAll, IsAdded
<1> HIDE DEF f
<1>3. f[0] = NewList /\ \A n \in 1 .. L : f[n] = ListAdd(f[n - 1], s[n])
    BY <1>1 DEF IsAdded
<1>4. 0 \in S
    BY <1>3, NewHolds
<1>5. ASSUME NEW n \in Nat, n \in S PROVE n + 1 \in S
  <2> SUFFICES ASSUME n + 1 <= L
               PROVE  /\ IsList(f[n + 1]) /\ Fits(f[n + 1]) /\ f[n + 1].count = n + 1
                      /\ \A j \in 1 .. n + 1 : Abs(f[n + 1])[j] = s[j]
      OBVIOUS
  <2>1. /\ f[n + 1] = ListAdd(f[n], s[n + 1])
        /\ IsList(f[n]) /\ Fits(f[n]) /\ f[n].count = n
        /\ \A j \in 1 .. n : Abs(f[n])[j] = s[j]
    <3>1. n + 1 \in 1 .. L /\ (n + 1) - 1 = n /\ n <= L
        OBVIOUS
    <3>. QED
        BY <1>3, <1>5, <3>1
  <2> DEFINE r == ListAdd(f[n], s[n + 1])
  <2>2. /\ IsList(r) /\ Fits(r) /\ r.count = n + 1
        /\ \A j \in 1 .. n + 1 : Abs(r)[j] = IF j <= n THEN Abs(f[n])[j] ELSE s[n + 1]
      BY <2>1, AddHolds
  <2> HIDE DEF r
  <2>3. ASSUME NEW j \in 1 .. n + 1 PROVE Abs(r)[j] = s[j]
    <3>1. CASE j <= n
        BY <2>1, <2>2, <3>1
    <3>2. CASE ~(j <= n)
      <4>1. j = n + 1
          BY <3>2
      <4>. QED
          BY <2>2, <3>2, <4>1
    <3>. QED
        BY <3>1, <3>2
  <2>. QED
      BY <2>1, <2>2, <2>3 DEF r
<1>6. Nat \subseteq S
  <2> HIDE DEF S
  <2>. QED
      BY <1>4, <1>5, Induction
<1>7. L \in S
    BY <1>6
<1>. QED
    BY <1>2, <1>7 DEF Holds

\* What the tokenizer has read is in a list.
IsReading(s) ==
    /\ {"i", "token", "tokens", "inquote", "intoken", "start", "end"} \subseteq DOMAIN s
    /\ IsList(s.tokens) /\ Fits(s.tokens)

IsRead(f, text, n) ==
    f = [k \in 0 .. n |->
           IF k = 0 THEN Start(text)
           ELSE LET s == f[k - 1] IN IF s.i > Len(text) THEN s ELSE Advance(text, s)]

LEMMA ReadExists ==
    ASSUME NEW text, NEW n \in Nat
    PROVE  \E f : IsRead(f, text, n)
<1> DEFINE S == {m \in Nat : \E f : IsRead(f, text, m)}
           Next1(s) == IF s.i > Len(text) THEN s ELSE Advance(text, s)
<1>1. 0 \in S
  <2> DEFINE f == [k \in 0 .. 0 |-> Start(text)]
  <2>1. IsRead(f, text, 0)
      BY DEF IsRead
  <2>. QED
      BY <2>1
<1>2. ASSUME NEW m \in Nat, m \in S PROVE m + 1 \in S
  <2>1. PICK f : IsRead(f, text, m)
      BY <1>2
  <2> DEFINE g == [k \in 0 .. m + 1 |-> IF k <= m THEN f[k] ELSE Next1(f[m])]
             h == [k \in 0 .. m + 1 |-> IF k = 0 THEN Start(text) ELSE Next1(g[k - 1])]
  <2>2. ASSUME NEW k \in 0 .. m + 1 PROVE g[k] = h[k]
    <3> HIDE DEF Next1
    <3>1. CASE k = 0
        BY <2>1, <3>1 DEF IsRead
    <3>2. CASE k # 0 /\ k <= m
      <4>1. k \in 0 .. m /\ k - 1 \in 0 .. m + 1 /\ k - 1 <= m
          BY <3>2
      <4>2. g[k] = f[k] /\ g[k - 1] = f[k - 1] /\ h[k] = Next1(g[k - 1])
          BY <3>2, <4>1
      <4>3. f[k] = Next1(f[k - 1])
          BY <2>1, <3>2, <4>1 DEF IsRead, Next1
      <4>. QED
          BY <4>2, <4>3
    <3>3. CASE k = m + 1
      <4>1. k - 1 = m /\ k # 0 /\ ~(k <= m) /\ m \in 0 .. m + 1 /\ m <= m
          BY <3>3
      <4>. QED
          BY <3>3, <4>1
    <3>. QED
        BY <3>1, <3>2, <3>3
  <2>3. IsRead(g, text, m + 1)
    <3>1. g = h
        BY <2>2
    <3>. QED
        BY <3>1 DEF IsRead
  <2> HIDE DEF g, h
  <2>. QED
      BY <2>3
<1>3. Nat \subseteq S
  <2> HIDE DEF S
  <2>. QED
      BY <1>1, <1>2, Induction
<1>. QED
    BY <1>3

\* One character, or a pair of quotes, is read.
LEMMA AdvanceKeeps ==
    ASSUME NEW text, NEW s, IsReading(s)
    PROVE  IsReading(Advance(text, s)) /\ IsReading(EndToken(s))
<1> DEFINE b == Begun(s)
           e == EndToken(s)
<1>1. IsReading(b) /\ b.tokens = s.tokens
    BY DEF IsReading, Begun
<1>2. IsReading(e)
  <2>1. IsList(ListAdd(s.tokens, s.token)) /\ Fits(ListAdd(s.tokens, s.token))
      BY AddHolds DEF IsReading
  <2>2. /\ DOMAIN e = DOMAIN s /\ e.tokens = ListAdd(s.tokens, s.token)
      BY DEF IsReading, EndToken
  <2>. QED
      BY <2>1, <2>2 DEF IsReading
<1> HIDE DEF b, e
<1>3. ASSUME NEW r, IsReading(r), NEW v
      PROVE  IsReading([r EXCEPT !.i = v])
    BY <1>3 DEF IsReading
<1>4. ASSUME NEW r, IsReading(r), NEW v, NEW t
      PROVE  IsReading([r EXCEPT !.i = v, !.token = t])
    BY <1>4 DEF IsReading
<1>5. ASSUME NEW r, IsReading(r), NEW v, NEW q
      PROVE  IsReading([r EXCEPT !.i = v, !.inquote = q])
    BY <1>5 DEF IsReading
<1>. QED
    BY <1>1, <1>2, <1>3, <1>4, <1>5 DEF Advance, b, e

LEMMA AtEndReads ==
    ASSUME NEW text, Len(text) \in Nat
    PROVE  IsReading(AtEnd(text))
<1> DEFINE L == Len(text)
           f == CHOOSE g : IsRead(g, text, L)
           S == {n \in Nat : n <= L => IsReading(f[n])}
<1>1. IsRead(f, text, L)
    BY ReadExists, Zenon
<1>2. AtEnd(text) = f[L]
    BY DEF AtEnd, IsRead
<1> HIDE DEF f
<1>3. /\ f[0] = Start(text)
      /\ \A n \in 1 .. L : \/ f[n] = f[n - 1]
                           \/ f[n] = Advance(text, f[n - 1])
    BY <1>1 DEF IsRead
<1>4. 0 \in S
  <2>1. IsReading(Start(text))
      BY NewHolds DEF Start, IsReading
  <2>. QED
      BY <1>3, <2>1
<1>5. ASSUME NEW n \in Nat, n \in S PROVE n + 1 \in S
  <2> SUFFICES ASSUME n + 1 <= L PROVE IsReading(f[n + 1])
      OBVIOUS
  <2>1. n + 1 \in 1 .. L /\ (n + 1) - 1 = n /\ n <= L
      OBVIOUS
  <2>2. IsReading(f[n]) /\ (f[n + 1] = f[n] \/ f[n + 1] = Advance(text, f[n]))
      BY <1>3, <1>5, <2>1
  <2>. QED
      BY <2>2, AdvanceKeeps
<1>6. Nat \subseteq S
  <2> HIDE DEF S
  <2>. QED
      BY <1>4, <1>5, Induction
<1>7. L \in S
    BY <1>6
<1>. QED
    BY <1>2, <1>7

(***************************************************************************)
(* Whatever is read, the words are in a list that ends with NULL, which    *)
(* do_line and complete walk along (parsecl.c:143-240, interface.c:133).   *)
(***************************************************************************)
THEOREM WordsInAList ==
    ASSUME NEW text, Len(text) \in Nat
    PROVE  IsList(Tokenize(text)) /\ Fits(Tokenize(text))
<1>1. IsReading(AtEnd(text)) /\ IsReading(EndToken(AtEnd(text)))
    BY AtEndReads, AdvanceKeeps
<1>. QED
    BY <1>1 DEF Tokenize, IsReading

-----------------------------------------------------------------------------
LEMMA AnswerHolds ==
    ASSUME NEW names, IsFiniteSet(names)
    PROVE  Fits(Answer(names))
<1> DEFINE sorted == InOrder(names)
           lst    == AddAll(NewList, sorted)
           x      == Quoted(CommonLead(Head(sorted), Last(sorted)))
<1>1. Len(sorted) \in Nat
  <2>1. Cardinality(names) \in Nat
      BY FS_CardinalityType
  <2>. QED
      BY <2>1 DEF InOrder
<1> HIDE DEF sorted
<1>2. IsList(lst) /\ Fits(lst)
    BY <1>1, AddAllHolds DEF Holds
<1> HIDE DEF lst, x
<1>3. Fits(ListPrepend(lst, x))
    BY <1>2, PrependHolds
<1>4. Answer(names) = ListPrepend(lst, x)
    BY DEF Answer, sorted, lst, x
<1>. QED
    BY <1>3, <1>4

LEMMA CandidatesFinite ==
    ASSUME NEW text, NEW b, NEW e, NEW c
    PROVE  IsFiniteSet(Candidates(text, b, e, c))
<1>1. Candidates(text, b, e, c) \subseteq Commands \cup Local \cup Remote
    BY DEF Candidates, CmdMatch, FileMatch, FilesFor
<1>. QED
    BY <1>1, FS_Subset, CompletionAssumption

\* The list of words is what it stands for, and globbing is behind the command.
ListInv ==
    /\ Holds(args, words) /\ words \in Seq(Seq(Nat))
    /\ Fits(answer.list) /\ at \in Nat /\ at >= 2
    /\ phase \in {"glob", "options"} => words # <<>>

LEMMA HoldsIs ==
    ASSUME ListInv
    PROVE  ListsHold
<1>1. args.count = Len(words) /\ \A j \in 1 .. Len(words) : Abs(args)[j] = words[j]
    BY DEF ListInv, Holds
<1>2. words = [j \in 1 .. Len(words) |-> words[j]]
    BY DEF ListInv
<1>3. Abs(args) = words
    BY <1>1, <1>2 DEF Abs
<1>. QED
    BY <1>3 DEF ListInv, Holds, ListsHold

\* The word at an index becomes the words found.
LEMMA GlobHolds ==
    ASSUME NEW lst, NEW s \in Seq(Seq(Nat)), Holds(lst, s), NEW k \in 1 .. lst.count,
           NEW found \in Seq(Seq(Nat)), found # <<>>, NEW p
    PROVE  LET t == ReplaceSubSeqAt(k, found, <<p>>, s) IN
           t \in Seq(Seq(Nat)) \ {<<>>} /\ Holds(ListReplace(lst, k - 1, AddAll(NewList, found)), t)
<1> DEFINE W == Seq(Nat)
           new == AddAll(NewList, found)
           m == Len(found)
           n == Len(s)
           a == SubSeq(s, 1, k - 1)
           z == SubSeq(s, k + 1, n)
           t == (a \o found) \o z
           r == ListReplace(lst, k - 1, new)
<1>1. m \in Nat /\ m > 0 /\ n \in Nat /\ lst.count = n /\ k \in Nat /\ k <= n /\ k > 0
    BY DEF Holds
<1>2. Holds(new, found)
    BY <1>1, AddAllHolds
<1>3. ReplaceSubSeqAt(k, found, <<p>>, s) = t
    BY <1>1 DEF ReplaceSubSeqAt
<1>4. /\ a \in Seq(W) /\ Len(a) = k - 1 /\ \A j \in 1 .. k - 1 : a[j] = s[j]
      /\ z \in Seq(W) /\ Len(z) = n - k /\ \A j \in 1 .. n - k : z[j] = s[k + j]
    BY <1>1
<1> HIDE DEF W, new, a, z
<1> DEFINE b == a \o found
<1>5. /\ b \in Seq(W) /\ Len(b) = k - 1 + m
      /\ \A j \in 1 .. k - 1 + m : b[j] = IF j <= k - 1 THEN a[j] ELSE found[j - (k - 1)]
  <2>1. a \in Seq(W) /\ found \in Seq(W) /\ Len(a) = k - 1 /\ Len(found) = m
      BY <1>4 DEF W
  <2> HIDE DEF m
  <2>2. /\ a \o found \in Seq(W) /\ Len(a \o found) = Len(a) + Len(found)
        /\ \A j \in 1 .. Len(a) + Len(found) :
              (a \o found)[j] = IF j <= Len(a) THEN a[j] ELSE found[j - Len(a)]
      BY <2>1, ConcatProperties
  <2>. QED
      BY <2>1, <2>2
<1> HIDE DEF b
<1>6. /\ t \in Seq(W) /\ Len(t) = n + m - 1
      /\ \A j \in 1 .. n + m - 1 : t[j] = IF j <= k - 1 + m THEN b[j] ELSE z[j - (k - 1 + m)]
  <2>1. /\ b \o z \in Seq(W) /\ Len(b \o z) = Len(b) + Len(z)
        /\ \A j \in 1 .. Len(b) + Len(z) :
              (b \o z)[j] = IF j <= Len(b) THEN b[j] ELSE z[j - Len(b)]
      BY <1>4, <1>5, ConcatProperties
  <2>2. Len(b) = k - 1 + m /\ Len(b) + Len(z) = n + m - 1
    <3>1. Len(b) = k - 1 + m /\ Len(z) = n - k
        BY <1>4, <1>5
    <3> HIDE DEF m, n, t
    <3>2. (k - 1 + m) + (n - k) = n + m - 1
        BY <1>1
    <3>. QED
        BY <3>1, <3>2
  <2>. QED
      BY <2>1, <2>2 DEF b
<1> HIDE DEF t, m, n
<1>7. \A j \in 1 .. n + m - 1 :
         t[j] = IF j <= k - 1 THEN s[j]
                ELSE IF j <= k - 1 + m THEN found[j - (k - 1)] ELSE s[j - (m - 1)]
  <2> SUFFICES ASSUME NEW j \in 1 .. n + m - 1
               PROVE  t[j] = IF j <= k - 1 THEN s[j]
                             ELSE IF j <= k - 1 + m THEN found[j - (k - 1)] ELSE s[j - (m - 1)]
      OBVIOUS
  <2>1. CASE j <= k - 1
      BY <1>1, <1>4, <1>5, <1>6, <2>1
  <2>2. CASE ~(j <= k - 1) /\ j <= k - 1 + m
    <3>1. j \in 1 .. k - 1 + m
        BY <1>1, <2>2
    <3>2. t[j] = b[j] /\ b[j] = found[j - (k - 1)]
        BY <1>5, <1>6, <2>2, <3>1
    <3>. QED
        BY <2>2, <3>2
  <2>3. CASE ~(j <= k - 1 + m)
    <3>1. PICK i \in 1 .. n - k : i = j - (k - 1 + m) /\ k + i = j - (m - 1)
        BY <1>1, <2>3
    <3>2. t[j] = z[j - (k - 1 + m)]
        BY <1>6, <2>3
    <3>3. z[i] = s[k + i]
        BY <1>4
    <3>4. ~(j <= k - 1)
        BY <1>1, <2>3
    <3>. QED
        BY <2>3, <3>1, <3>2, <3>3, <3>4
  <2>. QED
      BY <1>1, <2>1, <2>2, <2>3
<1>8. /\ IsList(r) /\ Fits(r) /\ r.count = n + m - 1
      /\ \A j \in 1 .. n + m - 1 :
            Abs(r)[j] = IF j <= k - 1 THEN Abs(lst)[j]
                        ELSE IF j <= (k - 1) + m THEN Abs(new)[j - (k - 1)]
                        ELSE Abs(lst)[j - (m - 1)]
  <2>1. /\ IsList(lst) /\ Fits(lst) /\ Fits(new) /\ new.count = m
        /\ k - 1 \in 0 .. lst.count - 1
      BY <1>1, <1>2 DEF Holds, m
  <2>2. LET q == ListReplace(lst, k - 1, new)
        IN  /\ IsList(q) /\ Fits(q) /\ q.count = lst.count + new.count - 1
            /\ \A j \in 1 .. lst.count + new.count - 1 :
                  Abs(q)[j] = IF j <= k - 1 THEN Abs(lst)[j]
                              ELSE IF j <= (k - 1) + new.count THEN Abs(new)[j - (k - 1)]
                              ELSE Abs(lst)[j - (new.count - 1)]
    <3>1. new.count > 0
        BY <1>1, <2>1
    <3>. QED
        BY <2>1, <3>1, ReplaceHolds
  <2>. QED
      BY <1>1, <2>1, <2>2
<1> HIDE DEF r
<1>9. ASSUME NEW j \in 1 .. n + m - 1 PROVE Abs(r)[j] = t[j]
  <2>0. /\ \A i \in 1 .. n : Abs(lst)[i] = s[i]
        /\ \A i \in 1 .. m : Abs(new)[i] = found[i]
      BY <1>2 DEF Holds, m, n
  <2>1. CASE j <= k - 1
      BY <1>1, <1>7, <1>8, <2>0, <2>1
  <2>2. CASE ~(j <= k - 1) /\ j <= k - 1 + m
    <3>1. j - (k - 1) \in 1 .. m
        BY <1>1, <2>2
    <3>. QED
        BY <1>7, <1>8, <2>0, <2>2, <3>1
  <2>3. CASE ~(j <= k - 1 + m)
    <3>1. j - (m - 1) \in 1 .. n /\ ~(j <= k - 1)
        BY <1>1, <2>3
    <3>. QED
        BY <1>7, <1>8, <2>0, <2>3, <3>1
  <2>. QED
      BY <2>1, <2>2, <2>3
<1>10. t # <<>>
  <2>1. Len(t) # 0
      BY <1>1, <1>6
  <2>. QED
      BY <2>1
<1>. QED
    BY <1>3, <1>6, <1>8, <1>9, <1>10 DEF Holds, W, r, new

LEMMA ListInit == Init => ListInv
<1>1. Holds(NewList, <<>>)
    BY NewHolds DEF Holds
<1>. QED
    BY <1>1, NewHolds DEF Init, ListInv, NoAnswer

LEMMA ListStep == ListInv /\ [Next]_vars => ListInv'
<1> SUFFICES ASSUME ListInv, [Next]_vars PROVE ListInv'
    OBVIOUS
<1>0. /\ Holds(args, words) /\ words \in Seq(Seq(Nat))
      /\ Fits(answer.list) /\ at \in Nat /\ at >= 2
      /\ phase \in {"glob", "options"} => words # <<>>
    BY DEF ListInv
<1>1. CASE Type
    BY <1>0, <1>1, NewHolds DEF Type, Typed, NoAnswer, list, ListInv, Holds
<1>2. CASE Tab
  <2>1. UNCHANGED <<phase, list>>
      BY <1>2 DEF Tab
  <2>2. Fits(answer'.list)
    <3>1. PICK s : LET m == Candidates(line, s, Len(line) + 1, connected)
                   IN  answer' = [list |-> Answer(m), matches |-> m, start |-> s]
        BY <1>2 DEF Tab
    <3>. QED
        BY <3>1, CandidatesFinite, AnswerHolds
  <2>. QED
      BY <1>0, <2>1, <2>2 DEF list, ListInv, Holds
<1>3. CASE Enter
  <2>1. Fits(answer'.list)
      BY <1>3, NewHolds DEF Enter, Typed, NoAnswer
  <2>2. CASE UNCHANGED <<phase, list>>
      BY <1>0, <2>1, <2>2 DEF list, ListInv, Holds
  <2>3. CASE \E w \in WordLists : words' = w /\ args' = AddAll(NewList, w) /\ at' = 2
    <3>1. PICK w \in WordLists : words' = w /\ args' = AddAll(NewList, w) /\ at' = 2
        BY <2>3
    <3>2. w \in Seq(Seq(Nat)) /\ Len(w) \in Nat /\ w # <<>>
        BY LineAssumption
    <3>3. Holds(args', words')
        BY <3>1, <3>2, AddAllHolds
    <3>. QED
        BY <2>1, <3>1, <3>2, <3>3 DEF ListInv, Holds
  <2>. QED
      BY <1>3, <2>2, <2>3 DEF Enter
<1>4. CASE GlobWord
  <2>1. at <= args.count /\ answer' = answer /\ phase' = phase /\ phase = "glob"
    <3>1. args.count = Len(words) /\ Len(words) \in Nat
        BY <1>0 DEF Holds
    <3>. QED
        BY <1>0, <1>4, <3>1 DEF GlobWord, GlobEnds, typed
  <2>2. CASE at' = at + 1 /\ UNCHANGED <<args, words>>
      BY <1>0, <2>1, <2>2 DEF ListInv, Holds
  <2>3. CASE \E found \in FoundLists :
                /\ args' = ListReplace(args, at - 1, AddAll(NewList, found))
                /\ words' = ReplaceSubSeqAt(at, found, <<Pattern>>, words)
                /\ at' = NextWord(found)
    <3>1. PICK found \in FoundLists :
                /\ args' = ListReplace(args, at - 1, AddAll(NewList, found))
                /\ words' = ReplaceSubSeqAt(at, found, <<Pattern>>, words)
                /\ at' = NextWord(found)
        BY <2>3
    <3>2. found \in Seq(Seq(Nat)) /\ found # <<>> /\ Len(found) \in Nat \ {0}
        BY LineAssumption
    <3>3. at \in 1 .. args.count
      <4>1. args.count \in Nat
          BY <1>0 DEF Holds
      <4>. QED
          BY <1>0, <2>1, <4>1
    <3>4. words' \in Seq(Seq(Nat)) \ {<<>>} /\ Holds(args', words')
        BY <1>0, <3>1, <3>2, <3>3, GlobHolds
    <3>5. at' \in Nat /\ at' >= 2
        BY <1>0, <3>1, <3>2 DEF NextWord
    <3>. QED
        BY <1>0, <2>1, <3>4, <3>5 DEF ListInv, Holds
  <2>. QED
      BY <1>4, <2>2, <2>3 DEF GlobWord
<1>5. CASE CommandBegins \/ TakeOption \/ UseOperand \/ Prompt
    BY <1>0, <1>5 DEF CommandBegins, TakeOption, UseOperand, Prompt, list, typed, ListInv, Holds
<1>6. CASE TakeOperand
  <2>1. /\ args' = NewList /\ words' = <<>> /\ at' = 2 /\ answer' = answer
        /\ phase' \notin {"glob", "options"}
      BY <1>6 DEF TakeOperand, typed
  <2>2. Holds(NewList, <<>>)
      BY NewHolds DEF Holds
  <2>. QED
      BY <1>0, <2>1, <2>2 DEF ListInv, Holds
<1>7. CASE UNCHANGED vars
    BY <1>0, <1>7 DEF vars, list, typed, ListInv, Holds
<1>. QED
    BY <1>1, <1>2, <1>3, <1>4, <1>5, <1>6, <1>7 DEF Next

(***************************************************************************)
(* The lists are what they stand for and end with NULL, whatever was       *)
(* added, put in front and replaced, for any words and files found.        *)
(***************************************************************************)
THEOREM ListsAlwaysHold == Spec => []ListsHold
<1>1. ListInv => ListsHold
    BY HoldsIs
<1>. QED
    BY ListInit, ListStep, <1>1, PTL DEF Spec

-----------------------------------------------------------------------------
\* The letters without an argument end before n.
LettersEnd(w, n) == n = Len(w) + 1 \/ w[n] \notin Plain

\* What egetopt returns: a letter, or a letter and its argument.
Returned == Seq(Nat) \cup (Nat \X Seq(Nat))
Meanings == [given : Seq(Returned), operand : Nat, ok : BOOLEAN]

\* The parts of Reading, for any words.
Nothing(k, ok) == [given |-> <<>>, operand |-> k, ok |-> ok]
With(o, m)     == [m EXCEPT !.given = o \o @]
LettersTo(w, c) == [m \in 1 .. c - 2 |-> <<w[m + 1]>>]

WordMeans(f, v, k) ==
    IF k > Len(v) \/ ~Opt!IsOption(v[k]) THEN Nothing(k, TRUE)
    ELSE IF v[k] = <<Dash, Dash>> THEN Nothing(k + 1, TRUE)
    ELSE LET w == v[k]
             n == Opt!FirstOther(w) IN
      IF n > Len(w) THEN With(LettersTo(w, n), f[k + 1])
      ELSE IF w[n] \notin WithArg THEN Nothing(k, FALSE)
      ELSE IF n < Len(w)
      THEN With(Append(LettersTo(w, n), <<w[n], SubSeq(w, n + 1, Len(w))>>), f[k + 1])
      ELSE IF k < Len(v)
      THEN With(Append(LettersTo(w, n), <<w[n], v[k + 1]>>), f[k + 2])
      ELSE Nothing(k, FALSE)

IsMeaning(f, v, b) == f = [k \in b .. Len(v) + 1 |-> WordMeans(f, v, k)]

LEMMA ReadingIs == Opt!Reading = CHOOSE f : IsMeaning(f, Abs(args), 2)
  BY DEF Opt!Reading, IsMeaning, WordMeans, Nothing, With, LettersTo

LEMMA WordMeansSame ==
    ASSUME NEW f, NEW g, NEW v, Len(v) \in Nat, NEW k \in Nat,
           k <= Len(v) => f[k + 1] = g[k + 1],
           k < Len(v) => f[k + 2] = g[k + 2]
    PROVE  WordMeans(f, v, k) = WordMeans(g, v, k)
<1>1. CASE k > Len(v)
    BY <1>1, Zenon DEF WordMeans
<1>2. CASE k = Len(v)
  <2>1. ~(k < Len(v)) /\ f[k + 1] = g[k + 1]
      BY <1>2
  <2>. QED
      BY <2>1, Zenon DEF WordMeans
<1>3. CASE k < Len(v)
  <2>1. f[k + 1] = g[k + 1] /\ f[k + 2] = g[k + 2]
      BY <1>3
  <2>. QED
      BY <2>1, Zenon DEF WordMeans
<1>. QED
    BY <1>1, <1>2, <1>3

LEMMA MeaningExists ==
    ASSUME NEW v, Len(v) \in Nat \ {0}
    PROVE  \E f : IsMeaning(f, v, 2)
<1> DEFINE N == Len(v)
           S == {m \in Nat : m < N => \E f : IsMeaning(f, v, N + 1 - m)}
<1>1. 0 \in S
  <2> DEFINE f == [k \in N + 1 .. N + 1 |-> Nothing(k, TRUE)]
  <2>1. \A k \in N + 1 .. N + 1 : WordMeans(f, v, k) = Nothing(k, TRUE)
    <3>1. \A k \in N + 1 .. N + 1 : k > N
        OBVIOUS
    <3>. QED
        BY <3>1, Zenon DEF WordMeans
  <2>3. IsMeaning(f, v, N + 1)
      BY <2>1 DEF IsMeaning
  <2>2. N + 1 - 0 = N + 1
      OBVIOUS
  <2>. QED
      BY <2>3, <2>2
<1>2. ASSUME NEW m \in Nat, m \in S PROVE m + 1 \in S
  <2> SUFFICES ASSUME m + 1 < N PROVE \E f : IsMeaning(f, v, N + 1 - (m + 1))
      OBVIOUS
  <2> DEFINE b == N + 1 - (m + 1)
  <2>1. PICK f : IsMeaning(f, v, b + 1)
    <3>1. m < N /\ N + 1 - m = b + 1
        OBVIOUS
    <3>. QED
        BY <1>2, <3>1
  <2>0. b \in Nat /\ b <= N /\ b > 1
      OBVIOUS
  <2> HIDE DEF b
  <2>2. \A k \in b + 1 .. N + 1 : f[k] = WordMeans(f, v, k)
      BY <2>1 DEF IsMeaning
  <2> DEFINE g == [k \in b .. N + 1 |-> IF k > b THEN f[k] ELSE WordMeans(f, v, k)]
  <2>3. \A k \in b + 1 .. N + 1 : g[k] = f[k]
      BY <2>0
  <2>4. g[b] = WordMeans(f, v, b) /\ DOMAIN g = b .. N + 1
      BY <2>0
  <2> HIDE DEF g
  <2>5. ASSUME NEW k \in b .. N + 1 PROVE g[k] = WordMeans(g, v, k)
    <3>1. WordMeans(f, v, k) = WordMeans(g, v, k)
      <4>1. /\ k \in Nat
            /\ k <= N => k + 1 \in b + 1 .. N + 1
            /\ k < N => k + 2 \in b + 1 .. N + 1
          BY <2>0
      <4>2. (k <= N => f[k + 1] = g[k + 1]) /\ (k < N => f[k + 2] = g[k + 2])
          BY <2>3, <4>1
      <4>. QED
        <5>1. /\ k \in Nat /\ Len(v) \in Nat
              /\ k <= Len(v) => f[k + 1] = g[k + 1]
              /\ k < Len(v) => f[k + 2] = g[k + 2]
            BY <4>1, <4>2
        <5>. QED
            BY ONLY <5>1, WordMeansSame
    <3>2. g[k] = WordMeans(f, v, k)
      <4>1. CASE k = b
          BY <2>4, <4>1
      <4>2. CASE k # b
        <5>1. k \in b + 1 .. N + 1
            BY <2>0, <4>2
        <5>. QED
            BY <2>2, <2>3, <5>1
      <4>. QED
          BY <4>1, <4>2
    <3>. QED
        BY <3>1, <3>2
  <2>6. IsMeaning(g, v, b)
    <3>1. g = [k \in b .. N + 1 |-> g[k]]
        BY <2>4 DEF g
    <3>. QED
        BY <2>5, <3>1 DEF IsMeaning
  <2>. QED
      BY <2>6 DEF b
<1>3. Nat \subseteq S
  <2> HIDE DEF S
  <2>. QED
      BY <1>1, <1>2, Induction
<1>4. PICK m \in Nat : m = N - 1 /\ m < N /\ N + 1 - m = 2
    OBVIOUS
<1>5. m \in S
    BY <1>3
<1>. QED
    BY <1>4, <1>5

LEMMA FirstOtherAt ==
    ASSUME NEW w \in Seq(Nat), NEW n \in 2 .. Len(w) + 1,
           \A m \in 2 .. n - 1 : w[m] \in Plain, LettersEnd(w, n)
    PROVE  Opt!FirstOther(w) = n
<1> DEFINE Is(i) == /\ \A m \in 2 .. i - 1 : w[m] \in Plain
                    /\ i = Len(w) + 1 \/ w[i] \notin Plain
<1>1. Is(n)
    BY DEF LettersEnd
<1>2. ASSUME NEW i \in 2 .. Len(w) + 1, Is(i) PROVE i = n
  <2>1. ~(i < n)
    <3> SUFFICES ASSUME i < n PROVE FALSE
        OBVIOUS
    <3>1. i \in 2 .. n - 1 /\ i # Len(w) + 1
        OBVIOUS
    <3>. QED
        BY <1>2, <3>1
  <2>2. ~(n < i)
    <3> SUFFICES ASSUME n < i PROVE FALSE
        OBVIOUS
    <3>1. n \in 2 .. i - 1 /\ n # Len(w) + 1
        OBVIOUS
    <3>. QED
        BY <1>2, <3>1 DEF LettersEnd
  <2>. QED
      BY <2>1, <2>2
<1>3. Opt!FirstOther(w) = CHOOSE i \in 2 .. Len(w) + 1 : Is(i)
    BY DEF Opt!FirstOther
<1> HIDE DEF Is
<1>. QED
    BY <1>1, <1>2, <1>3

LEMMA FirstOtherIs ==
    ASSUME NEW w \in Seq(Nat), Len(w) > 1
    PROVE  LET n == Opt!FirstOther(w) IN
           /\ n \in 2 .. Len(w) + 1 /\ LettersEnd(w, n)
           /\ \A m \in 2 .. n - 1 : w[m] \in Plain
<1> DEFINE T == {n \in 2 .. Len(w) + 1 : LettersEnd(w, n)}
           R == OpToRel(<, Nat)
<1>0. Len(w) \in Nat
    OBVIOUS
<1>1. Len(w) + 1 \in T
    BY <1>0 DEF LettersEnd
<1>2. PICK n \in T : \A y \in T : ~(<<y, n>> \in R)
  <2>1. T \subseteq Nat /\ T # {}
      BY <1>1
  <2> HIDE DEF T, R
  <2>. QED
      BY <2>1, NatLessThanWellFounded, WFMin DEF R
<1>3. ASSUME NEW m \in 2 .. n - 1 PROVE w[m] \in Plain
  <2>1. m \in 2 .. Len(w) + 1 /\ m \in Nat /\ n \in Nat /\ m < n
      OBVIOUS
  <2>2. <<m, n>> \in R
      BY <2>1 DEF OpToRel
  <2>3. m \notin T
      BY <1>2, <2>2
  <2>. QED
      BY <2>1, <2>3 DEF LettersEnd
<1>4. Opt!FirstOther(w) = n
    BY <1>3, FirstOtherAt
<1>. QED
    BY <1>3, <1>4

Understood(v) == CHOOSE f : IsMeaning(f, v, 2)

LEMMA WithIs ==
    ASSUME NEW o \in Seq(Returned), NEW m \in Meanings
    PROVE  /\ With(o, m) \in Meanings
           /\ With(o, m) = [given |-> o \o m.given, operand |-> m.operand, ok |-> m.ok]
<1>1. m = [given |-> m.given, operand |-> m.operand, ok |-> m.ok]
      /\ m.given \in Seq(Returned) /\ m.operand \in Nat /\ m.ok \in BOOLEAN
    BY DEF Meanings
<1>2. o \o m.given \in Seq(Returned)
    BY <1>1, ConcatProperties
<1> DEFINE x == o \o m.given
<1>3. With(o, m) = [given |-> x, operand |-> m.operand, ok |-> m.ok]
  <2>1. With(o, m) = [m EXCEPT !.given = x]
      BY DEF With
  <2> HIDE DEF x
  <2>. QED
      BY <1>1, <2>1
<1>. QED
    BY <1>1, <1>2, <1>3 DEF Meanings

LEMMA WithWith ==
    ASSUME NEW o \in Seq(Returned), NEW p \in Seq(Returned), NEW m \in Meanings
    PROVE  o \o p \in Seq(Returned) /\ With(o, With(p, m)) = With(o \o p, m)
<1>1. o \o p \in Seq(Returned)
    BY ConcatProperties
<1>2. PICK u \in Seq(Returned) : u = m.given
    BY DEF Meanings
<1>2a. (o \o p) \o u = o \o (p \o u)
    BY ConcatAssociative
<1>3. (o \o p) \o m.given = o \o (p \o m.given)
    BY <1>2, <1>2a
<1>4. /\ With(p, m) \in Meanings
      /\ With(p, m) = [given |-> p \o m.given, operand |-> m.operand, ok |-> m.ok]
    BY WithIs
<1>5. With(o, With(p, m)) = [given |-> o \o (p \o m.given), operand |-> m.operand, ok |-> m.ok]
  <2>1. PICK q \in Meanings : q = With(p, m)
      BY <1>4
  <2>2. q.given = p \o m.given /\ q.operand = m.operand /\ q.ok = m.ok
      BY <1>4, <2>1
  <2>3. With(o, q) = [given |-> o \o q.given, operand |-> q.operand, ok |-> q.ok]
      BY WithIs
  <2>. QED
      BY <2>1, <2>2, <2>3
<1>6. With(o \o p, m) = [given |-> (o \o p) \o m.given, operand |-> m.operand, ok |-> m.ok]
    BY <1>1, WithIs
<1>. QED
    BY <1>1, <1>3, <1>5, <1>6

LEMMA NothingIs ==
    ASSUME NEW k \in Nat, NEW ok \in BOOLEAN
    PROVE  Nothing(k, ok) \in Meanings
  BY DEF Nothing, Meanings

LEMMA LettersIs ==
    ASSUME NEW w \in Seq(Nat), NEW n \in 2 .. Len(w) + 1
    PROVE  /\ LettersTo(w, n) \in Seq(Returned) /\ Len(LettersTo(w, n)) = n - 2
           /\ \A m \in 1 .. n - 2 : LettersTo(w, n)[m] = <<w[m + 1]>>
<1>1. n - 2 \in Nat /\ \A m \in 1 .. n - 2 : m + 1 \in 1 .. Len(w)
    OBVIOUS
<1>2. \A m \in 1 .. n - 2 : w[m + 1] \in Nat
    BY <1>1
<1>3. \A m \in 1 .. n - 2 : <<w[m + 1]>> \in Seq(Nat)
    BY <1>2
<1>4. \A m \in 1 .. n - 2 : <<w[m + 1]>> \in Returned
    BY <1>3 DEF Returned
<1>. QED
    BY <1>1, <1>4 DEF LettersTo

LEMMA MeantIs ==
    ASSUME NEW v, Len(v) \in Nat \ {0}
    PROVE  \A k \in 2 .. Len(v) + 1 : Understood(v)[k] = WordMeans(Understood(v), v, k)
<1>1. IsMeaning(Understood(v), v, 2)
    BY MeaningExists, Zenon DEF Understood
<1> DEFINE f == Understood(v)
<1> HIDE DEF f
<1>2. f = [k \in 2 .. Len(v) + 1 |-> WordMeans(f, v, k)]
    BY <1>1 DEF IsMeaning, f
<1>3. \A k \in 2 .. Len(v) + 1 : f[k] = WordMeans(f, v, k)
    BY <1>2
<1>. QED
    BY <1>3 DEF f

LEMMA WordMeansType ==
    ASSUME NEW v \in Seq(Seq(Nat)), NEW f, NEW k \in 2 .. Len(v) + 1,
           k <= Len(v) => f[k + 1] \in Meanings,
           k < Len(v) => f[k + 2] \in Meanings
    PROVE  WordMeans(f, v, k) \in Meanings
<1> DEFINE w == v[k]
           n == Opt!FirstOther(w)
<1>0. k \in Nat /\ k + 1 \in Nat /\ Len(v) \in Nat
    OBVIOUS
<1>1. CASE k > Len(v) \/ ~Opt!IsOption(v[k])
    BY <1>0, <1>1, NothingIs DEF WordMeans
<1>2. CASE ~(k > Len(v) \/ ~Opt!IsOption(v[k])) /\ v[k] = <<Dash, Dash>>
    BY <1>0, <1>2, NothingIs DEF WordMeans
<1>3. CASE ~(k > Len(v) \/ ~Opt!IsOption(v[k])) /\ v[k] # <<Dash, Dash>>
  <2>1. k <= Len(v) /\ w \in Seq(Nat) /\ Len(w) > 1
      BY <1>3 DEF Opt!IsOption
  <2>2. n \in 2 .. Len(w) + 1
      BY <2>1, FirstOtherIs
  <2>3. LettersTo(w, n) \in Seq(Returned)
      BY <2>1, <2>2, LettersIs
  <2>4. WordMeans(f, v, k) =
          IF n > Len(w) THEN With(LettersTo(w, n), f[k + 1])
          ELSE IF w[n] \notin WithArg THEN Nothing(k, FALSE)
          ELSE IF n < Len(w)
          THEN With(Append(LettersTo(w, n), <<w[n], SubSeq(w, n + 1, Len(w))>>), f[k + 1])
          ELSE IF k < Len(v)
          THEN With(Append(LettersTo(w, n), <<w[n], v[k + 1]>>), f[k + 2])
          ELSE Nothing(k, FALSE)
      BY <1>3, Zenon DEF WordMeans
  <2> HIDE DEF n, w
  <2>5. ASSUME NEW x \in Seq(Nat), n <= Len(w)
        PROVE  Append(LettersTo(w, n), <<w[n], x>>) \in Seq(Returned)
    <3>1. w[n] \in Nat
        BY <2>1, <2>2, <2>5
    <3>2. <<w[n], x>> \in Returned
        BY <3>1 DEF Returned
    <3>. QED
        BY <2>3, <3>2, AppendProperties
  <2>6. CASE n > Len(w)
      BY <2>1, <2>3, <2>4, <2>6, WithIs
  <2>7. CASE n <= Len(w) /\ w[n] \notin WithArg
    <3>1. ~(n > Len(w))
        BY <2>1, <2>2, <2>7
    <3>. QED
        BY <1>0, <2>4, <2>7, <3>1, NothingIs
  <2>8. CASE n < Len(w) /\ w[n] \in WithArg
    <3>1. ~(n > Len(w)) /\ n <= Len(w)
        BY <2>1, <2>2, <2>8
    <3>2. SubSeq(w, n + 1, Len(w)) \in Seq(Nat)
        BY <2>1, <2>2
    <3>. QED
        BY <2>1, <2>4, <2>5, <2>8, <3>1, <3>2, WithIs
  <2>9. CASE n = Len(w) /\ w[n] \in WithArg
    <3>1. ~(n > Len(w)) /\ n <= Len(w) /\ ~(n < Len(w))
        BY <2>1, <2>2, <2>9
    <3>2. CASE k < Len(v)
      <4>1. v[k + 1] \in Seq(Nat)
          BY <3>2
      <4> DEFINE o == Append(LettersTo(w, n), <<w[n], v[k + 1]>>)
      <4>2. o \in Seq(Returned)
          BY <2>5, <3>1, <4>1
      <4>3. WordMeans(f, v, k) = With(o, f[k + 2])
          BY <2>4, <2>9, <3>1, <3>2
      <4> HIDE DEF o
      <4>. QED
          BY <3>2, <4>2, <4>3, WithIs
    <3>3. CASE ~(k < Len(v))
        BY <1>0, <2>4, <2>9, <3>1, <3>3, NothingIs
    <3>. QED
        BY <3>2, <3>3
  <2>. QED
    <3>1. n > Len(w) \/ n = Len(w) \/ n < Len(w)
        BY <2>1, <2>2
    <3>. QED
        BY <2>1, <2>2, <2>6, <2>7, <2>8, <2>9, <3>1
<1>. QED
    BY <1>1, <1>2, <1>3

LEMMA MeantType ==
    ASSUME NEW v \in Seq(Seq(Nat)), v # <<>>
    PROVE  \A k \in 2 .. Len(v) + 1 : Understood(v)[k] \in Meanings
<1> DEFINE N == Len(v)
           f == Understood(v)
           S == {m \in Nat : \A k \in 2 .. N + 1 : N + 1 - k <= m => f[k] \in Meanings}
<1>0. N \in Nat \ {0}
    OBVIOUS
<1>1. \A k \in 2 .. N + 1 : f[k] = WordMeans(f, v, k)
    BY <1>0, MeantIs
<1> HIDE DEF f
<1>2. 0 \in S
  <2> SUFFICES ASSUME NEW k \in 2 .. N + 1, N + 1 - k <= 0 PROVE f[k] \in Meanings
      OBVIOUS
  <2>1. ~(k <= N) /\ ~(k < N)
      OBVIOUS
  <2>. QED
      BY <1>1, <2>1, WordMeansType
<1>3. ASSUME NEW m \in Nat, m \in S PROVE m + 1 \in S
  <2> SUFFICES ASSUME NEW k \in 2 .. N + 1, N + 1 - k <= m + 1 PROVE f[k] \in Meanings
      OBVIOUS
  <2>1. ASSUME NEW i \in 2 .. N + 1, i > k PROVE f[i] \in Meanings
    <3>1. N + 1 - i <= m
        BY <2>1
    <3>. QED
        BY <1>3, <3>1
  <2>2. k <= N => f[k + 1] \in Meanings
    <3> SUFFICES ASSUME k <= N PROVE f[k + 1] \in Meanings
        OBVIOUS
    <3>1. k + 1 \in 2 .. N + 1 /\ k + 1 > k
        OBVIOUS
    <3>. QED
        BY <2>1, <3>1
  <2>3. k < N => f[k + 2] \in Meanings
    <3> SUFFICES ASSUME k < N PROVE f[k + 2] \in Meanings
        OBVIOUS
    <3>1. k + 2 \in 2 .. N + 1 /\ k + 2 > k
        OBVIOUS
    <3>. QED
        BY <2>1, <3>1
  <2>. QED
      BY <1>1, <2>2, <2>3, WordMeansType
<1>4. Nat \subseteq S
  <2> HIDE DEF S
  <2>. QED
      BY <1>2, <1>3, Induction
<1>5. N \in S
  <2> HIDE DEF S
  <2>. QED
      BY <1>0, <1>4
<1>6. \A k \in 2 .. N + 1 : N + 1 - k <= N
    BY <1>0
<1>. QED
    BY <1>5, <1>6 DEF f

\* Up to here, the words v mean what was returned and what is still read.
Agrees(v, g, i, c) ==
    \E G \in Seq(Returned) :
       Understood(v)[2] = With(G, Understood(v)[i]) /\ g = G \o LettersTo(v[i], c)

\* Egetopt is at a letter of a word of options.
AtLetter(v, i, c) ==
    /\ i \in 2 .. Len(v) /\ c \in 2 .. Len(v[i])
    /\ Opt!IsOption(v[i]) /\ v[i] # <<Dash, Dash>>
    /\ \A m \in 2 .. c - 1 : v[i][m] \in Plain

\* Egetopt is at a word, or in one that begins with letters it has returned.
ReadTo(v, g, i, c) ==
    /\ i \in 2 .. Len(v) + 1 /\ c \in Nat
    /\ c # 0 => AtLetter(v, i, c) /\ c > 2
    /\ Agrees(v, g, i, c)

LEMMA ConcatNothing ==
    ASSUME NEW g \in Seq(Returned), NEW w, NEW c \in {0, 2}
    PROVE  g \o LettersTo(w, c) = g
<1>1. 1 .. c - 2 = {}
    OBVIOUS
<1>2. LettersTo(w, c) = <<>>
  <2>1. LettersTo(w, c) = [m \in {} |-> <<w[m + 1]>>]
      BY <1>1 DEF LettersTo
  <2>. QED
      BY <2>1
<1>. QED
    BY <1>2, ConcatEmptySeq

LEMMA AppendBehind ==
    ASSUME NEW a \in Seq(Returned), NEW b \in Seq(Returned), NEW x \in Returned
    PROVE  Append(b, x) \in Seq(Returned) /\ Append(a \o b, x) = a \o Append(b, x)
<1>0. PICK s \in Seq(Returned) : s = <<x>>
  <2>1. <<x>> \in Seq(Returned)
      OBVIOUS
  <2>. QED
      BY <2>1
<1>1. a \o b \in Seq(Returned)
    BY ConcatProperties
<1>2. Append(a \o b, x) = (a \o b) \o s
    BY <1>0, <1>1, AppendIsConcat
<1>3. Append(b, x) = b \o s /\ Append(b, x) \in Seq(Returned)
    BY <1>0, AppendIsConcat, AppendProperties
<1>4. (a \o b) \o s = a \o (b \o s)
    BY ConcatAssociative
<1>. QED
    BY <1>2, <1>3, <1>4

\* One letter more.
LEMMA LetterMore ==
    ASSUME NEW w \in Seq(Nat), NEW c \in 2 .. Len(w), NEW G \in Seq(Returned)
    PROVE  Append(G \o LettersTo(w, c), <<w[c]>>) = G \o LettersTo(w, c + 1)
<1> DEFINE p == LettersTo(w, c)
           q == LettersTo(w, c + 1)
<1>0. c \in Nat /\ c \in 2 .. Len(w) + 1 /\ Len(w) \in Nat
    OBVIOUS
<1>1. /\ p \in Seq(Returned) /\ Len(p) = c - 2
      /\ \A m \in 1 .. c - 2 : p[m] = <<w[m + 1]>>
    BY <1>0, LettersIs
<1>2. /\ q \in Seq(Returned) /\ Len(q) = c - 1
      /\ \A m \in 1 .. c - 1 : q[m] = <<w[m + 1]>>
  <2>1. PICK d \in 2 .. Len(w) + 1 : d = c + 1 /\ d - 2 = c - 1
      OBVIOUS
  <2>. QED
      BY <2>1, LettersIs
<1>3. <<w[c]>> \in Returned
  <2>1. w[c] \in Nat
      OBVIOUS
  <2>. QED
      BY <2>1 DEF Returned
<1> HIDE DEF p, q
<1>4. Append(p, <<w[c]>>) = q
  <2>1. /\ Append(p, <<w[c]>>) \in Seq(Returned) /\ Len(Append(p, <<w[c]>>)) = c - 1
        /\ \A m \in 1 .. c - 2 : Append(p, <<w[c]>>)[m] = p[m]
        /\ Append(p, <<w[c]>>)[c - 1] = <<w[c]>>
    <3> DEFINE x == <<w[c]>>
    <3>1. x \in Returned
        BY <1>3
    <3> HIDE DEF x
    <3>2. /\ Append(p, x) \in Seq(Returned) /\ Len(Append(p, x)) = Len(p) + 1
          /\ \A m \in 1 .. Len(p) : Append(p, x)[m] = p[m]
          /\ Append(p, x)[Len(p) + 1] = x
        BY <1>1, <3>1, AppendProperties
    <3>3. Len(p) = c - 2 /\ Len(p) + 1 = c - 1
        BY <1>0, <1>1
    <3>4. /\ Append(p, x) \in Seq(Returned) /\ Len(Append(p, x)) = c - 1
          /\ \A m \in 1 .. c - 2 : Append(p, x)[m] = p[m]
          /\ Append(p, x)[c - 1] = x
        BY <3>2, <3>3
    <3>. QED
        BY <3>4 DEF x
  <2>2. ASSUME NEW m \in 1 .. c - 1 PROVE Append(p, <<w[c]>>)[m] = q[m]
    <3>1. CASE m \in 1 .. c - 2
        BY <1>1, <1>2, <2>1, <3>1
    <3>2. CASE m = c - 1
      <4>1. m + 1 = c
          BY <3>2
      <4>. QED
          BY <1>2, <2>1, <3>2, <4>1
    <3>3. m \in 1 .. c - 2 \/ m = c - 1
        BY <1>0
    <3>. QED
        BY <3>1, <3>2, <3>3
  <2>. QED
      BY <1>2, <2>1, <2>2, SeqEqual
<1>5. Append(G \o p, <<w[c]>>) = G \o Append(p, <<w[c]>>)
    BY <1>1, <1>3, AppendBehind
<1>. QED
    BY <1>4, <1>5 DEF p, q

\* The letters of a word and what is behind them are returned.
LEMMA WordDone ==
    ASSUME NEW v \in Seq(Seq(Nat)), v # <<>>, NEW i \in 2 .. Len(v), NEW j \in 2 .. Len(v) + 1,
           NEW G \in Seq(Returned), NEW p \in Seq(Returned),
           Understood(v)[2] = With(G, Understood(v)[i]),
           Understood(v)[i] = With(p, Understood(v)[j])
    PROVE  Agrees(v, G \o p, j, 0)
<1>1. Understood(v)[j] \in Meanings
    BY MeantType
<1>2. /\ G \o p \in Seq(Returned)
      /\ With(G, With(p, Understood(v)[j])) = With(G \o p, Understood(v)[j])
    BY <1>1, WithWith
<1>3. (G \o p) \o LettersTo(v[j], 0) = G \o p
    BY <1>2, ConcatNothing
<1>. QED
    BY <1>2, <1>3 DEF Agrees

\* Nothing can be read from a word on.
LEMMA WordEnds ==
    ASSUME NEW v \in Seq(Seq(Nat)), v # <<>>, NEW i \in 2 .. Len(v) + 1, NEW g, NEW c \in Nat,
           Agrees(v, g, i, c), NEW k \in Nat, NEW ok \in BOOLEAN,
           Understood(v)[i] = Nothing(k, ok)
    PROVE  /\ Understood(v)[2].ok = ok
           /\ c = 0 => g = Understood(v)[2].given /\ k = Understood(v)[2].operand
<1>1. PICK G \in Seq(Returned) :
         Understood(v)[2] = With(G, Understood(v)[i]) /\ g = G \o LettersTo(v[i], c)
    BY DEF Agrees
<1>2. Nothing(k, ok) \in Meanings
    BY NothingIs
<1>3. Understood(v)[2] = [given |-> G \o Nothing(k, ok).given, operand |-> Nothing(k, ok).operand,
                     ok |-> Nothing(k, ok).ok]
    BY <1>1, <1>2, WithIs
<1>4. Nothing(k, ok).given = <<>> /\ Nothing(k, ok).operand = k /\ Nothing(k, ok).ok = ok
    BY DEF Nothing
<1>5. G \o <<>> = G
    BY ConcatEmptySeq
<1>6. c = 0 => g = G
    BY <1>1, ConcatNothing
<1>. QED
    BY <1>3, <1>4, <1>5, <1>6

\* All words are read.
LEMMA AllRead ==
    ASSUME NEW v \in Seq(Seq(Nat)), v # <<>>, NEW i \in 2 .. Len(v) + 1, NEW g,
           Agrees(v, g, i, 0), NEW k \in Nat, Understood(v)[i] = Nothing(k, TRUE)
    PROVE  /\ Understood(v)[2].ok /\ g = Understood(v)[2].given
           /\ k = Understood(v)[2].operand
<1>1. \A ok \in BOOLEAN, c \in Nat : Agrees(v, g, i, c) /\ Understood(v)[i] = Nothing(k, ok)
         => Understood(v)[2].ok = ok /\ (c = 0 => g = Understood(v)[2].given
                                          /\ k = Understood(v)[2].operand)
    BY WordEnds
<1>2. Understood(v)[2].ok = TRUE
    BY <1>1
<1>3. g = Understood(v)[2].given /\ k = Understood(v)[2].operand
    BY <1>1
<1>. QED
    BY <1>2, <1>3

\* A word cannot be read.
LEMMA WordWrong ==
    ASSUME NEW v \in Seq(Seq(Nat)), v # <<>>, NEW i \in 2 .. Len(v) + 1, NEW g, NEW c \in Nat,
           Agrees(v, g, i, c), Understood(v)[i] = Nothing(i, FALSE)
    PROVE  Understood(v)[2].ok = FALSE
<1>1. \A ok \in BOOLEAN, k \in Nat : Understood(v)[i] = Nothing(k, ok) => Understood(v)[2].ok = ok
    BY WordEnds
<1>2. i \in Nat
    OBVIOUS
<1>. QED
    BY <1>1, <1>2

\* A letter that is no option without an argument.
LEMMA OtherLetter ==
    ASSUME NEW v \in Seq(Seq(Nat)), v # <<>>, NEW i, NEW c, AtLetter(v, i, c),
           v[i][c] \notin Plain
    PROVE  Understood(v)[i] =
             IF v[i][c] \notin WithArg THEN Nothing(i, FALSE)
             ELSE IF c < Len(v[i])
             THEN With(Append(LettersTo(v[i], c), <<v[i][c], SubSeq(v[i], c + 1, Len(v[i]))>>),
                       Understood(v)[i + 1])
             ELSE IF i < Len(v)
             THEN With(Append(LettersTo(v[i], c), <<v[i][c], v[i + 1]>>), Understood(v)[i + 2])
             ELSE Nothing(i, FALSE)
<1>1. /\ i \in 2 .. Len(v) /\ c \in 2 .. Len(v[i]) /\ v[i] \in Seq(Nat)
      /\ Opt!IsOption(v[i]) /\ v[i] # <<Dash, Dash>>
      /\ \A m \in 2 .. c - 1 : v[i][m] \in Plain
    BY DEF AtLetter
<1>2. /\ ~(i > Len(v)) /\ i \in 2 .. Len(v) + 1 /\ ~(c > Len(v[i])) /\ c \in 2 .. Len(v[i]) + 1
      /\ Len(v) \in Nat \ {0}
    BY <1>1
<1>3. Opt!FirstOther(v[i]) = c
    BY <1>1, <1>2, FirstOtherAt DEF LettersEnd
<1>4. Understood(v)[i] = WordMeans(Understood(v), v, i)
    BY <1>2, MeantIs
<1>. QED
    BY <1>1, <1>2, <1>3, <1>4, Zenon DEF WordMeans

\* A letter without an argument at the end of a word.
LEMMA LastLetter ==
    ASSUME NEW v \in Seq(Seq(Nat)), v # <<>>, NEW i, NEW c, AtLetter(v, i, c),
           v[i][c] \in Plain, c = Len(v[i])
    PROVE  Understood(v)[i] = With(LettersTo(v[i], c + 1), Understood(v)[i + 1])
<1>1. /\ i \in 2 .. Len(v) /\ c \in 2 .. Len(v[i]) /\ v[i] \in Seq(Nat)
      /\ Opt!IsOption(v[i]) /\ v[i] # <<Dash, Dash>>
      /\ \A m \in 2 .. c - 1 : v[i][m] \in Plain
    BY DEF AtLetter
<1>2. /\ ~(i > Len(v)) /\ i \in 2 .. Len(v) + 1 /\ c + 1 > Len(v[i])
      /\ Len(v) \in Nat \ {0}
    BY <1>1
<1>3. Opt!FirstOther(v[i]) = c + 1
  <2>1. PICK n \in 2 .. Len(v[i]) + 1 : n = c + 1
    <3>1. c + 1 \in 2 .. Len(v[i]) + 1
        BY <1>1
    <3>. QED
        BY <3>1
  <2>2. \A m \in 2 .. n - 1 : v[i][m] \in Plain
      BY <1>1, <2>1
  <2>3. LettersEnd(v[i], n)
      BY <2>1 DEF LettersEnd
  <2>. QED
      BY <1>1, <2>1, <2>2, <2>3, FirstOtherAt
<1>4. Understood(v)[i] = WordMeans(Understood(v), v, i)
    BY <1>2, MeantIs
<1>. QED
    BY <1>1, <1>2, <1>3, <1>4, Zenon DEF WordMeans

\* A letter and its argument behind letters without one.
LEMMA ArgumentMore ==
    ASSUME NEW v \in Seq(Seq(Nat)), v # <<>>, NEW i \in 2 .. Len(v), NEW j \in 2 .. Len(v) + 1,
           NEW c \in 2 .. Len(v[i]), NEW g, Agrees(v, g, i, c), NEW arg \in Seq(Nat),
           Understood(v)[i] = With(Append(LettersTo(v[i], c), <<v[i][c], arg>>), Understood(v)[j])
    PROVE  ReadTo(v, Append(g, <<v[i][c], arg>>), j, 0)
<1> DEFINE w == v[i]
           p == LettersTo(w, c)
           x == <<w[c], arg>>
<1>1. w \in Seq(Nat) /\ c \in 2 .. Len(w) + 1 /\ w[c] \in Nat
  <2>1. w \in Seq(Nat)
      OBVIOUS
  <2> HIDE DEF w
  <2>2. c \in 2 .. Len(w)
      BY DEF w
  <2>3. Len(w) \in Nat /\ \A n \in 1 .. Len(w) : w[n] \in Nat
      BY ONLY <2>1, LenProperties, ElementOfSeq
  <2>4. c \in 2 .. Len(w) + 1 /\ c \in 1 .. Len(w)
      BY ONLY <2>2, <2>3
  <2>. QED
      BY <2>1, <2>3, <2>4
<1>2. x \in Returned
    BY <1>1 DEF Returned
<1>3. PICK G \in Seq(Returned) : Understood(v)[2] = With(G, Understood(v)[i]) /\ g = G \o p
    BY DEF Agrees
<1>4. p \in Seq(Returned)
    BY <1>1, LettersIs
<1> HIDE DEF w, p, x
<1>5. Append(p, x) \in Seq(Returned) /\ Append(G \o p, x) = G \o Append(p, x)
    BY <1>2, <1>4, AppendBehind
<1>6. Append(g, x) = G \o Append(p, x)
    BY <1>3, <1>5
<1>7. Agrees(v, G \o Append(p, x), j, 0)
  <2>1. Understood(v)[i] = With(Append(p, x), Understood(v)[j])
      BY DEF p, x, w
  <2>. QED
      BY <1>3, <1>5, <2>1, WordDone
<1>. QED
    BY <1>6, <1>7 DEF ReadTo, x, w

(***************************************************************************)
(* What a call of egetopt at a letter leaves to the next one.              *)
(***************************************************************************)
LEMMA LetterTaken ==
    ASSUME NEW v \in Seq(Seq(Nat)), v # <<>>, NEW i, NEW c, AtLetter(v, i, c),
           NEW g, Agrees(v, g, i, c)
    PROVE  LET w == v[i] IN
           /\ w[c] \notin Plain \cup WithArg => Understood(v)[2].ok = FALSE
           /\ w[c] \in Plain /\ c = Len(w) => ReadTo(v, Append(g, <<w[c]>>), i + 1, 0)
           /\ w[c] \in Plain /\ c < Len(w) => ReadTo(v, Append(g, <<w[c]>>), i, c + 1)
           /\ w[c] \in WithArg /\ c < Len(w)
                => ReadTo(v, Append(g, <<w[c], SubSeq(w, c + 1, Len(w))>>), i + 1, 0)
           /\ w[c] \in WithArg /\ c = Len(w) /\ i < Len(v)
                => ReadTo(v, Append(g, <<w[c], v[i + 1]>>), i + 2, 0)
           /\ w[c] \in WithArg /\ c = Len(w) /\ i = Len(v) => Understood(v)[2].ok = FALSE
<1> DEFINE w == v[i]
<1>1. /\ i \in 2 .. Len(v) /\ c \in 2 .. Len(w) /\ w \in Seq(Nat)
      /\ Opt!IsOption(w) /\ w # <<Dash, Dash>>
      /\ \A m \in 2 .. c - 1 : w[m] \in Plain
  <2>1. /\ i \in 2 .. Len(v) /\ c \in 2 .. Len(w)
        /\ Opt!IsOption(w) /\ w # <<Dash, Dash>>
        /\ \A m \in 2 .. c - 1 : w[m] \in Plain
      BY Zenon DEF AtLetter
  <2>2. w \in Seq(Nat)
      BY <2>1
  <2>. QED
      BY <2>1, <2>2
<1>2. /\ i \in Nat /\ c \in Nat /\ i \in 2 .. Len(v) + 1 /\ i + 1 \in 2 .. Len(v) + 1
      /\ i < Len(v) => i + 2 \in 2 .. Len(v) + 1
    BY <1>1
<1>3. PICK G \in Seq(Returned) :
         Understood(v)[2] = With(G, Understood(v)[i]) /\ g = G \o LettersTo(w, c)
    BY DEF Agrees
<1>4. ASSUME w[c] \notin Plain \cup WithArg PROVE Understood(v)[2].ok = FALSE
  <2>1. Understood(v)[i] = Nothing(i, FALSE)
      BY <1>4, OtherLetter
  <2>. QED
      BY <1>2, <2>1, WordWrong
<1>5. ASSUME w[c] \in Plain, c = Len(w) PROVE ReadTo(v, Append(g, <<w[c]>>), i + 1, 0)
  <2>1. Understood(v)[i] = With(LettersTo(w, c + 1), Understood(v)[i + 1])
      BY <1>5, LastLetter
  <2>2. Append(g, <<w[c]>>) = G \o LettersTo(w, c + 1)
      BY <1>1, <1>3, LetterMore
  <2>3. LettersTo(w, c + 1) \in Seq(Returned)
    <3>1. PICK n \in 2 .. Len(w) + 1 : n = c + 1
      <4>1. c + 1 \in 2 .. Len(w) + 1
          BY <1>1
      <4>. QED
          BY <4>1
    <3>. QED
        BY <1>1, <3>1, LettersIs
  <2>4. Agrees(v, G \o LettersTo(w, c + 1), i + 1, 0)
      BY <1>1, <1>2, <1>3, <2>1, <2>3, WordDone
  <2>. QED
      BY <1>2, <2>2, <2>4 DEF ReadTo
<1>6. ASSUME w[c] \in Plain, c < Len(w) PROVE ReadTo(v, Append(g, <<w[c]>>), i, c + 1)
  <2>1. Append(g, <<w[c]>>) = G \o LettersTo(w, c + 1)
      BY <1>1, <1>3, LetterMore
  <2>2. AtLetter(v, i, c + 1) /\ c + 1 > 2 /\ c + 1 \in Nat
    <3> DEFINE d == c + 1
    <3>1. d \in 2 .. Len(w) /\ d > 2 /\ d \in Nat
        BY <1>1, <1>6
    <3>2. \A m \in 2 .. d - 1 : w[m] \in Plain
        BY <1>1, <1>6
    <3> HIDE DEF d
    <3>3. i \in 2 .. Len(v) /\ Opt!IsOption(w) /\ w # <<Dash, Dash>>
        BY <1>1 DEF AtLetter
    <3>4. AtLetter(v, i, d)
        BY <3>1, <3>2, <3>3 DEF AtLetter
    <3>. QED
        BY <3>1, <3>4 DEF d
  <2>. QED
      BY <1>2, <1>3, <2>1, <2>2 DEF ReadTo, Agrees
<1>7. ASSUME w[c] \in WithArg PROVE w[c] \notin Plain
    BY <1>7, LineAssumption
<1>8. ASSUME w[c] \in WithArg, c < Len(w)
      PROVE  ReadTo(v, Append(g, <<w[c], SubSeq(w, c + 1, Len(w))>>), i + 1, 0)
  <2>1. PICK arg \in Seq(Nat) : arg = SubSeq(w, c + 1, Len(w))
    <3> HIDE DEF w
    <3>0. w \in Seq(Nat) /\ c + 1 \in Nat /\ c + 1 > 0 /\ Len(w) \in Nat
        BY <1>1
    <3>1. SubSeq(w, c + 1, Len(w)) \in Seq(Nat)
        BY ONLY <3>0
    <3>. QED
        BY <3>1
  <2>2. Understood(v)[i] = With(Append(LettersTo(w, c), <<w[c], arg>>), Understood(v)[i + 1])
      BY <1>7, <1>8, <2>1, OtherLetter
  <2>. QED
      BY <1>1, <1>2, <2>1, <2>2, ArgumentMore
<1>9. ASSUME w[c] \in WithArg, c = Len(w), i < Len(v)
      PROVE  ReadTo(v, Append(g, <<w[c], v[i + 1]>>), i + 2, 0)
  <2>1. PICK arg \in Seq(Nat) : arg = v[i + 1]
      BY <1>1, <1>9
  <2>2. ~(c < Len(w))
      BY <1>1, <1>9
  <2>3. Understood(v)[i] = With(Append(LettersTo(w, c), <<w[c], arg>>), Understood(v)[i + 2])
      BY <1>7, <1>9, <2>1, <2>2, OtherLetter
  <2>. QED
      BY <1>1, <1>2, <1>9, <2>1, <2>3, ArgumentMore
<1>10. ASSUME w[c] \in WithArg, c = Len(w), i = Len(v) PROVE Understood(v)[2].ok = FALSE
  <2>1. ~(c < Len(w)) /\ ~(i < Len(v))
      BY <1>1, <1>10
  <2>2. Understood(v)[i] = Nothing(i, FALSE)
      BY <1>7, <1>10, <2>1, OtherLetter
  <2>. QED
      BY <1>2, <2>2, WordWrong
<1>. QED
    BY <1>4, <1>5, <1>6, <1>8, <1>9, <1>10

(***************************************************************************)
(* Up to where egetopt is, the words of the command mean what it returned; *)
(* what it told in the end is what they mean.                              *)
(***************************************************************************)
OptInv ==
    /\ phase # "options" => parsing = "no"
    /\ phase = "options" =>
          /\ parsing = "yes" => ReadTo(words, given, ind, Opt!Kept)
          /\ parsing = "run" => /\ Understood(words)[2].ok /\ given = Understood(words)[2].given
                                /\ ind = Understood(words)[2].operand
          /\ parsing = "usage" => ~Understood(words)[2].ok

LEMMA OptionsIs ==
    ASSUME ListInv, OptInv
    PROVE  OptionsAsGiven
<1>1. Abs(args) = words
    BY HoldsIs DEF ListsHold
<1>2. Opt!Meaning = Understood(words)[2]
    BY <1>1, ReadingIs, Zenon DEF Opt!Meaning, Understood
<1>. QED
    BY <1>2 DEF OptInv, OptionsAsGiven, Opt!OptionsAsGiven

\* A command begins to read its words.
LEMMA ReadFromStart ==
    ASSUME NEW v \in Seq(Seq(Nat)), v # <<>>
    PROVE  ReadTo(v, <<>>, 2, 0)
<1>1. 2 \in 2 .. Len(v) + 1
    OBVIOUS
<1>2. PICK m \in Meanings : m = Understood(v)[2]
    BY <1>1, MeantType
<1>3. <<>> \in Seq(Returned)
    OBVIOUS
<1>4. With(<<>>, m) = m
  <2>1. With(<<>>, m) = [given |-> <<>> \o m.given, operand |-> m.operand, ok |-> m.ok]
      BY <1>3, WithIs
  <2>2. <<>> \o m.given = m.given
      BY ConcatEmptySeq DEF Meanings
  <2>. QED
      BY <2>1, <2>2 DEF Meanings
<1>5. <<>> = <<>> \o LettersTo(v[2], 0)
    BY <1>3, ConcatNothing
<1>. QED
    BY <1>1, <1>2, <1>3, <1>4, <1>5 DEF ReadTo, Agrees

LEMMA OptionStep ==
    ASSUME ListInv, OptInv, phase = "options", parsing = "yes", Opt!Egetopt,
           UNCHANGED <<phase, list>>
    PROVE  OptInv'
<1> DEFINE v == words
           w == words[ind]
           c == IF Opt!Kept = 0 THEN 2 ELSE Opt!Kept
<1>1. /\ Abs(args) = v /\ v \in Seq(Seq(Nat)) /\ v # <<>> /\ Len(v) \in Nat \ {0}
      /\ words' = words
  <2>1. Abs(args) = words
      BY HoldsIs DEF ListsHold
  <2>. QED
      BY <2>1 DEF ListInv, list
<1>2. /\ ReadTo(v, given, ind, Opt!Kept) /\ ind \in 2 .. Len(v) + 1 /\ Opt!Kept \in Nat
      /\ Agrees(v, given, ind, Opt!Kept)
      /\ Opt!Kept # 0 => AtLetter(v, ind, Opt!Kept)
    BY DEF OptInv, ReadTo
<1>3. ~Opt!Behind
    BY <1>1, <1>2 DEF Opt!Behind, AtLetter
<1>4. Opt!Here = ind /\ (Opt!Fresh <=> Opt!Kept = 0) /\ Opt!At = c
    BY <1>3 DEF Opt!Here, Opt!Fresh, Opt!At
<1>5. Opt!Kept' = pos'
    BY DEF Opt!Egetopt, Opt!Kept
<1>6. CASE Opt!Ends
  <2>1. parsing' = "run" /\ given' = given
      BY <1>6 DEF Opt!Ends
  <2>2. PICK k \in Nat : Opt!Kept = 0 /\ ind' = k /\ Understood(v)[ind] = Nothing(k, TRUE)
    <3>0. Understood(v)[ind] = WordMeans(Understood(v), v, ind) /\ ind \in Nat
        BY <1>1, <1>2, MeantIs
    <3>0a. ind + 1 \in Nat
        BY <3>0
    <3>1. CASE ind > Len(v)
      <4>1. Opt!Kept = 0 /\ ind' = ind
          BY <1>1, <1>2, <1>4, <1>6, <3>1 DEF Opt!Ends, AtLetter
      <4>2. Understood(v)[ind] = Nothing(ind, TRUE)
          BY <3>0, <3>1, Zenon DEF WordMeans
      <4>. QED
          BY <3>0, <4>1, <4>2
    <3>2. CASE ~(ind > Len(v)) /\ Opt!Kept = 0 /\ ~Opt!IsOption(w) /\ ind' = ind
      <4>1. Understood(v)[ind] = Nothing(ind, TRUE)
          BY <3>0, <3>2, Zenon DEF WordMeans
      <4>. QED
          BY <3>0, <3>2, <4>1
    <3>3. CASE /\ ~(ind > Len(v)) /\ Opt!Kept = 0
               /\ Opt!IsOption(w) /\ w = <<Dash, Dash>> /\ ind' = ind + 1
      <4>1. Understood(v)[ind] = Nothing(ind + 1, TRUE)
          BY <3>0, <3>3, Zenon DEF WordMeans
      <4>. QED
          BY <3>0a, <3>3, <4>1
    <3>4. \/ ind > Len(v)
          \/ ~(ind > Len(v)) /\ Opt!Kept = 0 /\ ~Opt!IsOption(w) /\ ind' = ind
          \/ ~(ind > Len(v)) /\ Opt!Kept = 0 /\ w = <<Dash, Dash>> /\ ind' = ind + 1
        BY <1>1, <1>4, <1>6 DEF Opt!Ends
    <3>5. w = <<Dash, Dash>> => Opt!IsOption(w)
        BY DEF Opt!IsOption
    <3>. QED
        BY <3>1, <3>2, <3>3, <3>4, <3>5
  <2>3. Understood(v)[2].ok /\ given = Understood(v)[2].given /\ k = Understood(v)[2].operand
    <3>1. Agrees(v, given, ind, 0)
        BY <1>2, <2>2
    <3>2. v \in Seq(Seq(Nat)) /\ v # <<>> /\ ind \in 2 .. Len(v) + 1
        BY <1>1, <1>2
    <3> HIDE DEF v, w, c
    <3>. QED
        BY ONLY <2>2, <3>1, <3>2, AllRead
  <2>. QED
      BY <1>1, <2>1, <2>2, <2>3 DEF OptInv
<1>7. ASSUME Opt!InWord
      PROVE  AtLetter(v, ind, c) /\ Agrees(v, given, ind, c)
  <2>1. CASE Opt!Kept = 0
    <3>1. ind \in 2 .. Len(v) /\ Opt!IsOption(w) /\ w # <<Dash, Dash>>
        BY <1>1, <1>2, <1>4, <1>7, <2>1 DEF Opt!InWord
    <3>2. w \in Seq(Nat) /\ Len(w) > 1
        BY <1>1, <3>1 DEF Opt!IsOption
    <3>3. AtLetter(v, ind, 2)
        BY <3>1, <3>2 DEF AtLetter
    <3>4. Agrees(v, given, ind, 2)
      <4>1. PICK G \in Seq(Returned) :
               Understood(v)[2] = With(G, Understood(v)[ind]) /\ given = G \o LettersTo(w, 0)
          BY <1>2, <2>1 DEF Agrees
      <4>2. G \o LettersTo(w, 0) = G /\ G \o LettersTo(w, 2) = G
          BY ConcatNothing
      <4>. QED
          BY <4>1, <4>2 DEF Agrees
    <3>. QED
        BY <2>1, <3>3, <3>4
  <2>2. CASE Opt!Kept # 0
      BY <1>2, <2>2
  <2>. QED
      BY <2>1, <2>2
<1>8. Opt!Char = w[c] /\ Opt!Rest = SubSeq(w, c + 1, Len(w))
    BY <1>1, <1>4 DEF Opt!Char, Opt!Rest
<1>9. ASSUME Opt!InWord
      PROVE  /\ w[c] \notin Plain \cup WithArg => Understood(v)[2].ok = FALSE
             /\ w[c] \in Plain /\ c = Len(w) => ReadTo(v, Append(given, <<w[c]>>), ind + 1, 0)
             /\ w[c] \in Plain /\ c < Len(w) => ReadTo(v, Append(given, <<w[c]>>), ind, c + 1)
             /\ w[c] \in WithArg /\ c < Len(w)
                  => ReadTo(v, Append(given, <<w[c], SubSeq(w, c + 1, Len(w))>>), ind + 1, 0)
             /\ w[c] \in WithArg /\ c = Len(w) /\ ind < Len(v)
                  => ReadTo(v, Append(given, <<w[c], v[ind + 1]>>), ind + 2, 0)
             /\ w[c] \in WithArg /\ c = Len(w) /\ ind = Len(v) => Understood(v)[2].ok = FALSE
    BY <1>1, <1>7, <1>9, LetterTaken
<1>10. ASSUME Opt!InWord
       PROVE  (Opt!Rest = <<>> <=> c = Len(w)) /\ (Opt!Rest # <<>> <=> c < Len(w))
  <2>1. ind \in 2 .. Len(v) /\ c \in 2 .. Len(w)
      BY <1>7, <1>10 DEF AtLetter
  <2>2. w \in Seq(Nat) /\ Len(w) \in Nat
      BY <1>1, <2>1
  <2> HIDE DEF w, c
  <2>3. Len(SubSeq(w, c + 1, Len(w))) = Len(w) - c
      BY <2>1, <2>2
  <2>4. Len(<<>>) = 0 /\ SubSeq(w, c + 1, Len(w)) \in Seq(Nat)
      BY <2>1, <2>2
  <2>5. Opt!Rest = <<>> => c = Len(w)
    <3> SUFFICES ASSUME Opt!Rest = <<>> PROVE c = Len(w)
        OBVIOUS
    <3>1. Len(w) - c = 0
        BY <1>8, <2>3, <2>4
    <3>. QED
        BY <2>1, <2>2, <3>1
  <2>6. c = Len(w) => Opt!Rest = <<>>
    <3> SUFFICES ASSUME c = Len(w) PROVE Opt!Rest = <<>>
        OBVIOUS
    <3>1. Len(SubSeq(w, c + 1, Len(w))) = 0
        BY <2>2, <2>3
    <3>. QED
        BY <1>8, <2>4, <3>1, EmptySeq
  <2>7. c = Len(w) \/ c < Len(w)
      BY <2>1, <2>2
  <2>. QED
      BY <2>1, <2>2, <2>5, <2>6, <2>7
<1> HIDE DEF c, w
<1>11. CASE Opt!Illegal
    BY <1>1, <1>8, <1>9, <1>11 DEF Opt!Illegal, OptInv
<1>12. CASE Opt!PlainOption
  <2>1. /\ Opt!InWord /\ w[c] \in Plain /\ given' = Append(given, <<w[c]>>) /\ parsing' = "yes"
        /\ \/ c = Len(w) /\ pos' = 0 /\ ind' = ind + 1
           \/ c < Len(w) /\ pos' = c + 1 /\ ind' = ind
      BY <1>4, <1>8, <1>10, <1>12 DEF Opt!PlainOption
  <2>2. ReadTo(v, given', ind', pos')
      BY <1>9, <2>1
  <2>. QED
      BY <1>1, <1>5, <2>1, <2>2 DEF OptInv, list
<1>13. CASE Opt!OptionWithArg
  <2>1. Opt!InWord /\ w[c] \in WithArg /\ pos' = 0
      BY <1>8, <1>13 DEF Opt!OptionWithArg
  <2>2. CASE /\ c < Len(w) /\ ind' = ind + 1 /\ parsing' = parsing
             /\ given' = Append(given, <<w[c], SubSeq(w, c + 1, Len(w))>>)
    <3>1. ReadTo(v, given', ind', pos')
        BY <1>9, <2>1, <2>2
    <3>. QED
        BY <1>1, <1>5, <2>2, <3>1 DEF OptInv
  <2>3. CASE /\ c = Len(w) /\ ind < Len(v) /\ ind' = ind + 2 /\ parsing' = parsing
             /\ given' = Append(given, <<w[c], v[ind + 1]>>)
    <3>1. ReadTo(v, given', ind', pos')
        BY <1>9, <2>1, <2>3
    <3>. QED
        BY <1>1, <1>5, <2>3, <3>1 DEF OptInv
  <2>4. CASE c = Len(w) /\ ind = Len(v) /\ parsing' = "usage"
      BY <1>1, <1>9, <2>1, <2>4 DEF OptInv
  <2>. QED
      BY <1>1, <1>4, <1>8, <1>10, <1>13, <2>1, <2>2, <2>3, <2>4 DEF Opt!OptionWithArg
<1>. QED
    BY <1>6, <1>11, <1>12, <1>13 DEF Opt!Egetopt

LEMMA OptStep == ListInv /\ OptInv /\ [Next]_vars => OptInv'
<1> SUFFICES ASSUME ListInv, OptInv, [Next]_vars PROVE OptInv'
    OBVIOUS
<1>1. CASE phase # "options" /\ phase' # "options" /\ UNCHANGED options
    BY <1>1 DEF options, OptInv
<1>2. CASE Type \/ Tab \/ Enter \/ GlobWord \/ UseOperand \/ Prompt
    BY <1>1, <1>2 DEF Type, Tab, Enter, GlobWord, UseOperand, Prompt
<1>3. CASE CommandBegins
  <2>1. /\ phase = "glob" /\ phase' = "options" /\ words' = words
        /\ parsing' = "yes" /\ ind' = 2 /\ reset' = TRUE /\ given' = <<>>
      BY <1>3 DEF CommandBegins, Opt!Begin, Opt!ResetAtStart, list
  <2>2. Opt!Kept' = 0
      BY <2>1 DEF Opt!Kept
  <2>3. words \in Seq(Seq(Nat)) /\ words # <<>>
      BY <2>1 DEF ListInv
  <2>4. ReadTo(words', given', ind', Opt!Kept')
      BY <2>1, <2>2, <2>3, ReadFromStart
  <2>. QED
      BY <2>1, <2>4 DEF OptInv
<1>4. CASE TakeOption
    BY <1>4, OptionStep DEF TakeOption
<1>5. CASE TakeOperand
    BY <1>5 DEF TakeOperand, OptInv
<1>6. CASE UNCHANGED vars
  <2>1. UNCHANGED <<phase, words, parsing, ind, reset, pos, given>>
      BY <1>6 DEF vars, list, options
  <2>2. Opt!Kept' = Opt!Kept
      BY <2>1 DEF Opt!Kept
  <2>. QED
      BY <2>1, <2>2 DEF OptInv
<1>. QED
    BY <1>2, <1>3, <1>4, <1>5, <1>6 DEF Next

(***************************************************************************)
(* What egetopt returns are the options among the words, each letter with  *)
(* the argument it takes, up to the first operand; it complains when one   *)
(* of them is wrong and then only, and the variables it keeps from one     *)
(* command to the next do not matter (egetopt.c:13-102, cmds.c:430-447).   *)
(***************************************************************************)
THEOREM OptionsAlwaysAsGiven == Spec => []OptionsAsGiven
<1>1. Init => OptInv
    BY DEF Init, Opt!Init, OptInv
<1>2. ListInv /\ OptInv => OptionsAsGiven
    BY OptionsIs
<1>. QED
    BY ListInit, ListStep, OptStep, <1>1, <1>2, PTL DEF Spec

-----------------------------------------------------------------------------
(* Sequences, and what is defined by going through one. *)

LEMMA InductionUpTo ==
    ASSUME NEW m \in Nat, NEW S, 0 \in S, \A n \in 0 .. m - 1 : n \in S => n + 1 \in S
    PROVE  0 .. m \subseteq S
<1> DEFINE T == {n \in Nat : n <= m => n \in S}
<1>1. 0 \in T
    OBVIOUS
<1>2. ASSUME NEW n \in Nat, n \in T PROVE n + 1 \in T
  <2>1. CASE n + 1 <= m
    <3>1. n \in 0 .. m - 1 /\ n <= m
        BY <2>1
    <3>. QED
        BY <1>2, <3>1
  <2>. QED
      BY <2>1
<1>3. Nat \subseteq T
  <2> HIDE DEF T
  <2>. QED
      BY <1>1, <1>2, Induction
<1>. QED
    BY <1>3

LEMMA Shorter ==
    ASSUME NEW D, NEW s \in Seq(D), s # <<>>
    PROVE  LET t == SubSeq(s, 1, Len(s) - 1)
           IN  /\ t \in Seq(D) /\ Len(t) = Len(s) - 1 /\ s[Len(s)] \in D
               /\ s = Append(t, s[Len(s)])
               /\ \A i \in 1 .. Len(s) - 1 : t[i] = s[i]
<1> DEFINE t == SubSeq(s, 1, Len(s) - 1)
<1>1. Len(s) \in Nat \ {0} /\ \A i \in 1 .. Len(s) : s[i] \in D
    OBVIOUS
<1>2. /\ t \in Seq(D) /\ Len(t) = Len(s) - 1
      /\ \A i \in 1 .. Len(s) - 1 : t[i] = s[i]
  <2>1. 1 \in Int /\ Len(s) - 1 \in Int
      BY <1>1
  <2>2. /\ t \in Seq(D)
        /\ Len(t) = IF 1 <= Len(s) - 1 THEN Len(s) - 1 - 1 + 1 ELSE 0
        /\ \A i \in 1 .. Len(s) - 1 - 1 + 1 : t[i] = s[1 + i - 1]
      BY <1>1, <2>1, SubSeqProperties
  <2>3. \A n \in Nat \ {0} : /\ n - 1 - 1 + 1 = n - 1
                              /\ (IF 1 <= n - 1 THEN n - 1 - 1 + 1 ELSE 0) = n - 1
                              /\ \A i \in 1 .. n - 1 : 1 + i - 1 = i
      OBVIOUS
  <2> HIDE DEF t
  <2>. QED
      BY <1>1, <2>2, <2>3
<1> DEFINE u == Append(t, s[Len(s)])
<1>3. u \in Seq(D) /\ Len(u) = Len(s) /\ \A i \in 1 .. Len(s) : u[i] = s[i]
  <2> HIDE DEF t
  <2>. QED
      BY <1>1, <1>2
<1>4. u = s
  <2> HIDE DEF u
  <2>. QED
      BY <1>3, SeqEqual
<1>. QED
    BY <1>1, <1>2, <1>4

\* Induction on the length of a sequence.
LEMMA SeqInduction ==
    ASSUME NEW D, NEW S, <<>> \in S,
           \A s \in Seq(D) : s \in S => \A x \in D : Append(s, x) \in S
    PROVE  Seq(D) \subseteq S
<1> DEFINE T == {n \in Nat : \A s \in Seq(D) : Len(s) = n => s \in S}
<1>1. 0 \in T
    OBVIOUS
<1>2. ASSUME NEW n \in Nat, n \in T PROVE n + 1 \in T
  <2> SUFFICES ASSUME NEW s \in Seq(D), Len(s) = n + 1 PROVE s \in S
      OBVIOUS
  <2> DEFINE t == SubSeq(s, 1, Len(s) - 1)
  <2>1. s # <<>>
      OBVIOUS
  <2>2. t \in Seq(D) /\ Len(t) = n /\ s[Len(s)] \in D /\ s = Append(t, s[Len(s)])
      BY <2>1, Shorter
  <2>3. t \in S
      BY <1>2, <2>2
  <2>. QED
      BY <2>2, <2>3
<1>3. Nat \subseteq T
  <2> HIDE DEF T
  <2>. QED
      BY <1>1, <1>2, Induction
<1>. QED
    BY <1>3

LEMMA SeqNarrow ==
    ASSUME NEW A, NEW B, NEW s \in Seq(A), \A i \in 1 .. Len(s) : s[i] \in B
    PROVE  s \in Seq(B)
<1>1. s = [i \in 1 .. Len(s) |-> s[i]] /\ Len(s) \in Nat
    OBVIOUS
<1>. QED
    BY <1>1

LEMMA LeastExists ==
    ASSUME NEW S, S \subseteq Nat, S # {}
    PROVE  \E j \in S : \A m \in S : j <= m
<1> DEFINE T == {n \in Nat : (\E j \in S : j <= n) => \E j \in S : \A m \in S : j <= m}
<1>1. 0 \in T
    OBVIOUS
<1>2. ASSUME NEW n \in Nat, n \in T PROVE n + 1 \in T
  <2> SUFFICES ASSUME NEW j \in S, j <= n + 1 PROVE \E l \in S : \A m \in S : l <= m
      OBVIOUS
  <2>1. CASE \E l \in S : l <= n
      BY <1>2, <2>1
  <2>2. CASE \A l \in S : ~(l <= n)
    <3>1. \A m \in S : j <= m
        BY <2>2
    <3>. QED
        BY <3>1
  <2>. QED
      BY <2>1, <2>2
<1>3. Nat \subseteq T
  <2> HIDE DEF T
  <2>. QED
      BY <1>1, <1>2, Induction
<1>4. PICK n \in S : TRUE
    OBVIOUS
<1>5. n \in Nat /\ n <= n
    OBVIOUS
<1>. QED
    BY <1>3, <1>4, <1>5

LEMMA AppendIs ==
    ASSUME NEW D, NEW s \in Seq(D), NEW x \in D
    PROVE  /\ Append(s, x) \in Seq(D) /\ Len(Append(s, x)) = Len(s) + 1
           /\ Append(s, x)[Len(s) + 1] = x
           /\ \A j \in 1 .. Len(s) : Append(s, x)[j] = s[j]
  OBVIOUS

LEMMA ConcatIs ==
    ASSUME NEW D, NEW a \in Seq(D), NEW b \in Seq(D)
    PROVE  /\ a \o b \in Seq(D) /\ Len(a \o b) = Len(a) + Len(b)
           /\ \A j \in 1 .. Len(a) : (a \o b)[j] = a[j]
           /\ \A j \in Len(a) + 1 .. Len(a) + Len(b) : (a \o b)[j] = b[j - Len(a)]
  OBVIOUS

LEMMA AppendBehindOne ==
    ASSUME NEW D, NEW s \in Seq(D), NEW x \in D
    PROVE  s \o <<x>> = Append(s, x)
  OBVIOUS

\* What folding f over p makes of b.
FoldsTo(h, f, b, p) ==
    h[0] = b /\ \A n \in 1 .. Len(p) : h[n] = f[<<h[n - 1], p[n]>>]
Folded(f, b, p) == (CHOOSE h : FoldsTo(h, f, b, p))[Len(p)]

\* What f does with one of S and one of D is one of S.
Takes(f, b, S, D) == b \in S /\ f \in [S \X D -> S]

LEMMA FoldExists ==
    ASSUME NEW S, NEW D, NEW b, NEW f, Takes(f, b, S, D), NEW p \in Seq(D)
    PROVE  \E h \in [0 .. Len(p) -> S] : FoldsTo(h, f, b, p)
<1>. b \in S /\ f \in [S \X D -> S]
    BY DEF Takes
<1> DEFINE m == Len(p)
           Is(h, l) == h \in [0 .. l -> S] /\ h[0] = b
                       /\ \A n \in 1 .. l : h[n] = f[<<h[n - 1], p[n]>>]
           T == {l \in Nat : \E h : Is(h, l)}
<1>. m \in Nat /\ \A n \in 1 .. m : p[n] \in D
    OBVIOUS
<1> HIDE DEF m
<1>1. 0 \in T
  <2> DEFINE h == [n \in 0 .. 0 |-> b]
  <2>1. Is(h, 0)
      OBVIOUS
  <2>. QED
      BY <2>1
<1>2. ASSUME NEW l \in 0 .. m - 1, l \in T PROVE l + 1 \in T
  <2>1. PICK h : Is(h, l)
      BY <1>2
  <2> DEFINE x == f[<<h[l], p[l + 1]>>]
             g == [n \in 0 .. l + 1 |-> IF n = l + 1 THEN x ELSE h[n]]
  <2>2. x \in S
      BY <2>1
  <2> HIDE DEF x
  <2>3. g \in [0 .. l + 1 -> S] /\ g[0] = b
      BY <2>1, <2>2
  <2>4. ASSUME NEW n \in 1 .. l + 1 PROVE g[n] = f[<<g[n - 1], p[n]>>]
    <3>1. g[n - 1] = h[n - 1] /\ n - 1 \in 0 .. l
        BY <2>4
    <3>2. CASE n = l + 1
      <4>1. n - 1 = l /\ g[n - 1] = h[l] /\ g[n] = x
          BY <3>1, <3>2
      <4>. QED
          BY <3>2, <4>1 DEF x
    <3>3. CASE n # l + 1
      <4>1. n \in 1 .. l /\ g[n] = h[n]
          BY <3>3
      <4>. QED
          BY <2>1, <3>1, <4>1
    <3>. QED
        BY <3>2, <3>3
  <2> HIDE DEF g
  <2>5. Is(g, l + 1)
      BY <2>3, <2>4
  <2>. QED
      BY <2>5
<1>3. m \in T
  <2>1. 0 .. m \subseteq T
    <3> HIDE DEF T
    <3>. QED
        BY <1>1, <1>2, InductionUpTo
  <2> HIDE DEF T
  <2>. QED
      BY <2>1
<1>4. PICK h : Is(h, m)
    BY <1>3
<1>. QED
    BY <1>4 DEF FoldsTo, m

LEMMA FoldIs ==
    ASSUME NEW S, NEW D, NEW b, NEW f, Takes(f, b, S, D)
    PROVE  /\ Folded(f, b, <<>>) = b
           /\ \A p \in Seq(D) :
                 /\ Folded(f, b, p) \in S
                 /\ \A x \in D : Folded(f, b, Append(p, x)) = f[<<Folded(f, b, p), x>>]
<1>. b \in S /\ f \in [S \X D -> S]
    BY DEF Takes
<1> DEFINE H(p) == CHOOSE h : FoldsTo(h, f, b, p)
<1>1. ASSUME NEW p \in Seq(D) PROVE FoldsTo(H(p), f, b, p)
    BY FoldExists, Zenon
<1>2. \A p : Folded(f, b, p) = H(p)[Len(p)]
    BY DEF Folded
<1> HIDE DEF H
<1>3. ASSUME NEW p \in Seq(D), NEW q \in Seq(D), NEW g, NEW h, FoldsTo(g, f, b, p),
             FoldsTo(h, f, b, q), NEW m \in Nat, m <= Len(p), m <= Len(q),
             \A n \in 1 .. m : p[n] = q[n]
      PROVE  g[m] = h[m]
  <2> DEFINE T == {n \in 0 .. m : g[n] = h[n]}
  <2>1. 0 \in T
      BY <1>3 DEF FoldsTo
  <2>2. ASSUME NEW n \in 0 .. m - 1, n \in T PROVE n + 1 \in T
    <3>1. n + 1 \in 1 .. Len(p) /\ n + 1 \in 1 .. Len(q) /\ n + 1 - 1 = n
        BY <1>3
    <3>2. Len(p) \in Nat /\ Len(q) \in Nat
        OBVIOUS
    <3>3. g[n + 1] = f[<<g[n + 1 - 1], p[n + 1]>>]
        BY <1>3, <3>1, <3>2 DEF FoldsTo
    <3>4. h[n + 1] = f[<<h[n + 1 - 1], q[n + 1]>>]
        BY <1>3, <3>1, <3>2 DEF FoldsTo
    <3>5. p[n + 1] = q[n + 1] /\ n + 1 \in 0 .. m
        BY <1>3
    <3>. QED
        BY <2>2, <3>1, <3>3, <3>4, <3>5
  <2>3. 0 .. m \subseteq T
    <3> HIDE DEF T
    <3>. QED
        BY <2>1, <2>2, InductionUpTo
  <2>. QED
      BY <2>3
<1>4. ASSUME NEW p \in Seq(D) PROVE Folded(f, b, p) \in S
  <2>1. PICK h \in [0 .. Len(p) -> S] : FoldsTo(h, f, b, p)
      BY FoldExists
  <2>2. Len(p) \in Nat
      OBVIOUS
  <2>3. H(p)[Len(p)] = h[Len(p)]
      BY <1>1, <1>3, <2>1, <2>2
  <2>. QED
      BY <1>2, <2>1, <2>2, <2>3
<1>5. ASSUME NEW p \in Seq(D), NEW x \in D
      PROVE  Folded(f, b, Append(p, x)) = f[<<Folded(f, b, p), x>>]
  <2> DEFINE q == Append(p, x)
  <2>1. /\ q \in Seq(D) /\ Len(q) = Len(p) + 1 /\ Len(p) \in Nat /\ q[Len(p) + 1] = x
        /\ \A n \in 1 .. Len(p) : p[n] = q[n]
      OBVIOUS
  <2> HIDE DEF q
  <2>2. H(p)[Len(p)] = H(q)[Len(p)]
    <3>1. FoldsTo(H(p), f, b, p) /\ FoldsTo(H(q), f, b, q)
        BY <1>1, <2>1
    <3>2. Len(p) <= Len(p) /\ Len(p) <= Len(q)
        BY <2>1
    <3>. QED
        BY <1>3, <2>1, <3>1, <3>2
  <2>3. H(q)[Len(q)] = f[<<H(q)[Len(p)], x>>]
    <3>1. FoldsTo(H(q), f, b, q)
        BY <1>1, <2>1
    <3>2. Len(q) \in 0 .. Len(q) /\ Len(q) # 0 /\ Len(q) - 1 = Len(p)
        BY <2>1
    <3>. QED
        BY <2>1, <3>1, <3>2 DEF FoldsTo
  <2>. QED
      BY <1>2, <2>2, <2>3 DEF q
<1>6. Folded(f, b, <<>>) = b
  <2>1. <<>> \in Seq(D) /\ Len(<<>>) = 0
      OBVIOUS
  <2>2. FoldsTo(H(<<>>), f, b, <<>>)
      BY <1>1, <2>1
  <2>. QED
      BY <1>2, <2>1, <2>2 DEF FoldsTo
<1>. QED
    BY <1>4, <1>5, <1>6

(***************************************************************************)
(* A function that is defined like a fold is one, if what it applies is f  *)
(* wherever f is defined.                                                  *)
(***************************************************************************)
LEMMA IsFold ==
    ASSUME NEW S, NEW D, NEW b, NEW f, Takes(f, b, S, D), NEW p \in Seq(D),
           NEW h, h[0] = b,
           \A n \in 1 .. Len(p) : h[n - 1] \in S => h[n] = f[<<h[n - 1], p[n]>>]
    PROVE  h[Len(p)] = Folded(f, b, p)
<1>. b \in S /\ f \in [S \X D -> S]
    BY DEF Takes
<1> DEFINE g == CHOOSE g : FoldsTo(g, f, b, p)
           m == Len(p)
           T == {n \in 0 .. m : g[n] = h[n] /\ h[n] \in S}
<1>1. FoldsTo(g, f, b, p)
    BY FoldExists, Zenon
<1> HIDE DEF g
<1>2. m \in Nat /\ \A n \in 1 .. m : p[n] \in D
    OBVIOUS
<1>3. 0 \in T
    BY <1>1, <1>2 DEF FoldsTo
<1>4. ASSUME NEW n \in 0 .. m - 1, n \in T PROVE n + 1 \in T
  <2>1. n + 1 \in 0 .. m /\ n + 1 \in 1 .. m /\ n + 1 - 1 = n
      BY <1>2
  <2>2. g[n + 1] = f[<<g[n], p[n + 1]>>]
      BY <1>1, <2>1 DEF FoldsTo
  <2>3. h[n + 1] = f[<<h[n], p[n + 1]>>]
      BY <1>4, <2>1
  <2>. QED
      BY <1>2, <1>4, <2>1, <2>2, <2>3
<1>5. 0 .. m \subseteq T
  <2> HIDE DEF T, m
  <2>. QED
      BY <1>2, <1>3, <1>4, InductionUpTo
<1>. QED
    BY <1>2, <1>5 DEF Folded, g

-----------------------------------------------------------------------------
(***************************************************************************)
(* How a line is quoted, told by the number of quotes.                     *)
(***************************************************************************)
LEMMA LineIs ==
    ASSUME line \in Seq(Nat)
    PROVE  /\ Len(line) \in Nat /\ DOMAIN line = 1 .. Len(line)
           /\ \A n \in 1 .. Len(line) : line[n] \in Nat
  OBVIOUS

LEMMA OddIs ==
    ASSUME line \in Seq(Nat)
    PROVE  /\ ~Odd(1)
           /\ \A n \in 1 .. Len(line) :
                 Odd(n + 1) <=> (Odd(n) /\ ~IsQuote(n)) \/ (~Odd(n) /\ IsQuote(n))
<1> DEFINE Q(n) == {m \in 1 .. n - 1 : line[m] = Quote}
<1>1. ASSUME NEW n \in Nat PROVE IsFiniteSet(Q(n)) /\ Cardinality(Q(n)) \in Nat
  <2>1. IsFiniteSet(1 .. n - 1)
      BY FS_Interval
  <2>2. IsFiniteSet(Q(n))
      BY <2>1, FS_Subset
  <2>. QED
      BY <2>2, FS_CardinalityType
<1>2. ~Odd(1)
  <2>1. Q(1) = {}
      OBVIOUS
  <2>2. QuotesBefore(1) = 0
      BY <2>1, FS_EmptySet DEF QuotesBefore
  <2>. QED
      BY <2>2 DEF Odd
<1>3. ASSUME NEW n \in 1 .. Len(line)
      PROVE  Odd(n + 1) <=> (Odd(n) /\ ~IsQuote(n)) \/ (~Odd(n) /\ IsQuote(n))
  <2>1. n \in Nat /\ n + 1 \in Nat /\ n \notin Q(n) /\ n \in DOMAIN line
      BY LineIs
  <2>2. QuotesBefore(n) = Cardinality(Q(n)) /\ QuotesBefore(n + 1) = Cardinality(Q(n + 1))
      BY DEF QuotesBefore
  <2>3. CASE IsQuote(n)
    <3>1. Q(n + 1) = Q(n) \cup {n}
        BY <2>1, <2>3 DEF IsQuote
    <3>2. Cardinality(Q(n + 1)) = Cardinality(Q(n)) + 1
        BY <1>1, <2>1, <3>1, FS_AddElement
    <3> HIDE DEF Q
    <3>3. \A k \in Nat : (k + 1) % 2 = 1 <=> k % 2 # 1
        OBVIOUS
    <3>. QED
        BY <1>1, <2>1, <2>2, <2>3, <3>2, <3>3 DEF Odd
  <2>4. CASE ~IsQuote(n)
    <3>1. Q(n + 1) = Q(n)
        BY <2>1, <2>4 DEF IsQuote
    <3> HIDE DEF Q
    <3>. QED
        BY <2>2, <2>4, <3>1 DEF Odd
  <2>. QED
      BY <2>3, <2>4
<1>. QED
    BY <1>2, <1>3

\* Inside quotes, a quote with a quote behind it is the first of a pair.
PairAt(n) == IsQuote(n) /\ IsQuote(n + 1) /\ Odd(n)

LEMMA RowIs ==
    ASSUME line \in Seq(Nat), NEW n \in 1 .. Len(line), IsQuote(n)
    PROVE  /\ RowBegins(n) \in 1 .. n
           /\ \A m \in RowBegins(n) .. n : IsQuote(m)
<1> DEFINE S == {b \in 1 .. n : \A m \in b .. n : IsQuote(m)}
<1>1. n \in S /\ S \subseteq Nat
    OBVIOUS
<1>2. PICK b \in S : \A m \in S : b <= m
  <2> HIDE DEF S
  <2>. QED
      BY <1>1, LeastExists
<1>3. ~IsQuote(b - 1)
  <2> SUFFICES ASSUME IsQuote(b - 1) PROVE FALSE
      OBVIOUS
  <2>1. b - 1 \in 1 .. n /\ b \in 1 .. n
      BY LineIs DEF IsQuote
  <2>2. \A m \in b - 1 .. n : m = b - 1 \/ m \in b .. n
      BY <2>1
  <2>3. b - 1 \in S
      BY <2>1, <2>2
  <2>. QED
      BY <1>2, <2>1, <2>3
<1>4. \E c \in 1 .. n : ~IsQuote(c - 1) /\ \A m \in c .. n : IsQuote(m)
    BY <1>3
<1>. QED
    BY <1>4, Zenon DEF RowBegins

LEMMA PairIs ==
    ASSUME line \in Seq(Nat), NEW n \in Int
    PROVE  FirstOfPair(n) <=> PairAt(n)
<1> SUFFICES ASSUME IsQuote(n)
             PROVE  (n - RowBegins(n)) % 2 = (IF Odd(RowBegins(n)) THEN 0 ELSE 1) <=> Odd(n)
    BY DEF FirstOfPair, PairAt
<1> DEFINE b == RowBegins(n)
           T == {k \in 0 .. n - b : Odd(b + k) <=> (Odd(b) /\ k % 2 = 0) \/ (~Odd(b) /\ k % 2 = 1)}
<1>1. n \in 1 .. Len(line) /\ Len(line) \in Nat
    BY LineIs DEF IsQuote
<1>2. b \in 1 .. n /\ \A m \in b .. n : IsQuote(m)
    BY <1>1, RowIs
<1> HIDE DEF b
<1>3. 0 \in T
  <2>1. b + 0 = b /\ 0 % 2 = 0 /\ 0 \in 0 .. n - b
      BY <1>1, <1>2
  <2>2. 0 % 2 # 1
      OBVIOUS
  <2>. QED
      BY <2>1, <2>2
<1>4. ASSUME NEW k \in 0 .. n - b - 1, k \in T PROVE k + 1 \in T
  <2>1. b + k \in 1 .. Len(line) /\ b + k \in b .. n /\ (b + k) + 1 = b + (k + 1)
        /\ k + 1 \in 0 .. n - b /\ k \in Nat
      BY <1>1, <1>2
  <2>2. Odd(b + (k + 1)) <=> ~Odd(b + k)
      BY <1>2, <2>1, OddIs
  <2>3. /\ (k + 1) % 2 = 0 <=> k % 2 = 1
        /\ (k + 1) % 2 = 1 <=> k % 2 = 0
      BY <2>1
  <2>4. k % 2 = 0 \/ k % 2 = 1
      BY <2>1
  <2>5. ~(k % 2 = 0 /\ k % 2 = 1)
      OBVIOUS
  <2>. QED
      BY <1>4, <2>1, <2>2, <2>3, <2>4, <2>5
<1>5. n - b \in T
  <2>1. n - b \in Nat
      BY <1>1, <1>2
  <2>2. 0 .. n - b \subseteq T
    <3> HIDE DEF T
    <3>. QED
        BY <1>3, <1>4, <2>1, InductionUpTo
  <2> HIDE DEF T
  <2>. QED
      BY <2>1, <2>2
<1>6. b + (n - b) = n /\ (n - b) % 2 \in {0, 1}
    BY <1>1, <1>2
<1>. QED
    BY <1>5, <1>6 DEF b
-----------------------------------------------------------------------------
(* What FlattenSeq makes of a sequence of sequences. *)

Joint(D) == [p \in Seq(D) \X Seq(D) |-> p[1] \o p[2]]

IsFlat(f, ss) ==
    f = [n \in 1 .. Len(ss) |-> IF n = 1 THEN ss[n] ELSE f[n - 1] \o ss[n]]

LEMMA JointTakes ==
    ASSUME NEW D
    PROVE  /\ Takes(Joint(D), <<>>, Seq(D), Seq(D))
           /\ \A a, b \in Seq(D) : Joint(D)[<<a, b>>] = a \o b /\ a \o b \in Seq(D)
<1>1. ASSUME NEW a \in Seq(D), NEW b \in Seq(D) PROVE a \o b \in Seq(D)
    BY ConcatIs
<1>2. ASSUME NEW a \in Seq(D), NEW b \in Seq(D) PROVE Joint(D)[<<a, b>>] = a \o b
    BY DEF Joint
<1>3. Joint(D) \in [Seq(D) \X Seq(D) -> Seq(D)]
  <2>1. ASSUME NEW p \in Seq(D) \X Seq(D) PROVE p[1] \o p[2] \in Seq(D)
      BY <1>1
  <2>. QED
      BY <2>1 DEF Joint
<1>4. <<>> \in Seq(D)
    OBVIOUS
<1>. QED
    BY <1>1, <1>2, <1>3, <1>4 DEF Takes

LEMMA FlattenIsFold ==
    ASSUME NEW D, NEW ss \in Seq(Seq(D))
    PROVE  FlattenSeq(ss) = Folded(Joint(D), <<>>, ss)
<1> DEFINE J == Joint(D)
           E == Seq(D)
<1>1. /\ Takes(J, <<>>, E, E)
      /\ \A a, b \in E : J[<<a, b>>] = a \o b /\ a \o b \in E
    BY JointTakes
<1>. Len(ss) \in Nat /\ \A n \in 1 .. Len(ss) : ss[n] \in E
    OBVIOUS
<1> HIDE DEF J
<1>2. CASE Len(ss) = 0
  <2>1. ss = <<>>
      BY <1>2
  <2>2. Folded(J, <<>>, <<>>) = <<>>
      BY <1>1, FoldIs
  <2>. QED
      BY <1>2, <2>1, <2>2 DEF FlattenSeq, J
<1>3. CASE Len(ss) # 0
  <2> DEFINE none == <<>>
  <2>1. PICK h : h \in [0 .. Len(ss) -> E] /\ FoldsTo(h, J, none, ss)
      BY <1>1, FoldExists
  <2>2. /\ h[0] = none
        /\ \A n \in 1 .. Len(ss) : h[n] = h[n - 1] \o ss[n]
    <3>1. ASSUME NEW n \in 1 .. Len(ss) PROVE h[n - 1] \in E
      <4>1. n - 1 \in 0 .. Len(ss)
          OBVIOUS
      <4>. QED
          BY <2>1, <4>1
    <3>. QED
        BY <1>1, <2>1, <3>1 DEF FoldsTo
  <2>3. h[Len(ss)] = Folded(J, none, ss)
    <3>1. \A n \in 1 .. Len(ss) : h[n - 1] \in E => h[n] = J[<<h[n - 1], ss[n]>>]
        BY <2>1 DEF FoldsTo
    <3> HIDE DEF none, E
    <3>2. Takes(J, none, E, E) /\ h[0] = none
        BY <1>1, <2>2 DEF none
    <3>3. ss \in Seq(E)
        BY DEF E
    <3>. QED
        BY <3>1, <3>2, <3>3, IsFold
  <2>4. 0 + 1 = 1 /\ 1 \in 1 .. Len(ss) /\ 1 - 1 = 0
      BY <1>3
  <2>5. h[1] = ss[1]
    <3>1. \A x \in Seq(D) : <<>> \o x = x
        OBVIOUS
    <3>. QED
        BY <2>2, <2>4, <3>1
  <2> DEFINE f == [n \in 1 .. Len(ss) |-> h[n]]
  <2>6. IsFlat(f, ss)
    <3>1. ASSUME NEW n \in 1 .. Len(ss)
          PROVE  f[n] = IF n = 1 THEN ss[n] ELSE f[n - 1] \o ss[n]
      <4>1. CASE n = 1
          BY <2>5, <4>1
      <4>2. CASE n # 1
        <5>1. n - 1 \in 1 .. Len(ss)
            BY <4>2
        <5>. QED
            BY <2>2, <4>2, <5>1
      <4>. QED
          BY <4>1, <4>2
    <3>. QED
        BY <3>1 DEF IsFlat
  <2> DEFINE g == CHOOSE g : IsFlat(g, ss)
  <2>7. IsFlat(g, ss)
      BY <2>6, Zenon
  <2>8. FlattenSeq(ss) = g[Len(ss)]
      BY <1>3 DEF FlattenSeq, IsFlat
  <2> HIDE DEF f, g
  <2>9. \A n \in 1 .. Len(ss) : g[n] = IF n = 1 THEN ss[n] ELSE g[n - 1] \o ss[n]
      BY <2>7 DEF IsFlat
  <2> DEFINE T == {n \in 0 .. Len(ss) : n # 0 => g[n] = h[n]}
  <2>10. 0 \in T
      OBVIOUS
  <2>11. ASSUME NEW n \in 0 .. Len(ss) - 1, n \in T PROVE n + 1 \in T
    <3>1. n + 1 \in 1 .. Len(ss) /\ n + 1 \in 0 .. Len(ss) /\ (n + 1) - 1 = n
        OBVIOUS
    <3>2. CASE n = 0
      <4>1. n + 1 = 1
          BY <3>2
      <4>. QED
          BY <2>5, <2>9, <3>1, <4>1
    <3>3. CASE n # 0
      <4>1. n + 1 # 1
          BY <3>3
      <4>2. g[n + 1] = g[n] \o ss[n + 1] /\ h[n + 1] = h[n] \o ss[n + 1]
          BY <2>2, <2>9, <3>1, <4>1
      <4>. QED
          BY <2>11, <3>1, <3>3, <4>2
    <3>. QED
        BY <3>2, <3>3
  <2>12. Len(ss) \in T
    <3> HIDE DEF T
    <3>1. 0 .. Len(ss) \subseteq T
        BY <2>10, <2>11, InductionUpTo
    <3>. QED
        BY <3>1
  <2>. QED
      BY <1>3, <2>3, <2>8, <2>12 DEF J
<1>. QED
    BY <1>2, <1>3

LEMMA FlattenIs ==
    ASSUME NEW D
    PROVE  /\ FlattenSeq(<<>>) = <<>>
           /\ \A ss \in Seq(Seq(D)) :
                 /\ FlattenSeq(ss) \in Seq(D)
                 /\ \A x \in Seq(D) : FlattenSeq(Append(ss, x)) = FlattenSeq(ss) \o x
<1> DEFINE E == Seq(D)
           J == Joint(D)
           none == <<>>
<1>1. /\ Takes(J, none, E, E)
      /\ \A a, b \in E : J[<<a, b>>] = a \o b
    BY JointTakes
<1>2. none \in Seq(E)
    OBVIOUS
<1>3. \A ss \in Seq(E) : FlattenSeq(ss) = Folded(J, none, ss)
    BY FlattenIsFold
<1>4. \A ss \in Seq(E) : \A x \in E : Append(ss, x) \in Seq(E)
    OBVIOUS
<1> HIDE DEF E, J
<1>5. /\ Folded(J, none, <<>>) = none
      /\ \A p \in Seq(E) :
            /\ Folded(J, none, p) \in E
            /\ \A x \in E : Folded(J, none, Append(p, x)) = J[<<Folded(J, none, p), x>>]
  <2> HIDE DEF none
  <2>. QED
      BY <1>1, FoldIs
<1>6. FlattenSeq(<<>>) = <<>>
    BY <1>2, <1>3, <1>5
<1>7. ASSUME NEW ss \in Seq(E), NEW x \in E
      PROVE  FlattenSeq(ss) \in E /\ FlattenSeq(Append(ss, x)) = FlattenSeq(ss) \o x
  <2> HIDE DEF none
  <2>1. /\ FlattenSeq(ss) = Folded(J, none, ss) /\ Folded(J, none, ss) \in E
        /\ FlattenSeq(Append(ss, x)) = Folded(J, none, Append(ss, x))
      BY <1>3, <1>4, <1>5
  <2>2. Folded(J, none, Append(ss, x)) = J[<<Folded(J, none, ss), x>>]
      BY <1>5
  <2>. QED
      BY <1>1, <2>1, <2>2
<1>8. \A ss \in Seq(E) : FlattenSeq(ss) \in E
    BY <1>3, <1>5
<1>. QED
    BY <1>6, <1>7, <1>8 DEF E

-----------------------------------------------------------------------------
(* A part of a line, and what it means. *)

LEMMA MeansChars ==
    ASSUME line \in Seq(Nat), NEW n \in 1 .. Len(line)
    PROVE  Meant(n) \in Seq(Nat)
<1>1. line[n] \in Nat /\ Quote \in Nat /\ Backslash \in Nat
    BY LineIs DEF Quote, Backslash
<1>2. \A c, d \in Nat : <<>> \in Seq(Nat) /\ <<c>> \in Seq(Nat) /\ <<c, d>> \in Seq(Nat)
    OBVIOUS
<1>. QED
    BY <1>1, <1>2, Zenon DEF Meant, Escaped

LEMMA IsSeq ==
    ASSUME NEW D, NEW k \in Nat, NEW s \in [1 .. k -> D]
    PROVE  s \in Seq(D) /\ Len(s) = k
  OBVIOUS

LEMMA SpanIs ==
    ASSUME line \in Seq(Nat), NEW b \in 1 .. Len(line) + 1
    PROVE  /\ Span(b, b - 1) = <<>>
           /\ \A e \in b - 1 .. Len(line) : Span(b, e) \in Seq(Nat)
           /\ \A e \in b .. Len(line) : Span(b, e) = Span(b, e - 1) \o Meant(e)
<1> DEFINE E == Seq(Nat)
           Part(e) == [m \in 1 .. e - b + 1 |-> Meant(b + m - 1)]
<1>1. Len(line) \in Nat
    BY LineIs
<1>2. ASSUME NEW e \in b - 1 .. Len(line)
      PROVE  Part(e) \in Seq(E) /\ Len(Part(e)) = e - b + 1
  <2>1. e - b + 1 \in Nat
      BY <1>1
  <2>2. ASSUME NEW m \in 1 .. e - b + 1 PROVE Meant(b + m - 1) \in E
    <3>1. b + m - 1 \in 1 .. Len(line)
        BY <1>1
    <3>. QED
        BY <3>1, MeansChars
  <2>3. Part(e) \in [1 .. e - b + 1 -> E]
      BY <2>2
  <2> DEFINE k == e - b + 1
             s == Part(e)
  <2> HIDE DEF s, k, E
  <2>4. k \in Nat /\ s \in [1 .. k -> E]
      BY <2>1, <2>3 DEF s, k
  <2>5. s \in Seq(E) /\ Len(s) = k
      BY <2>4, IsSeq
  <2>. QED
      BY <2>5 DEF s, k
<1>3. Part(b - 1) = <<>>
  <2>1. b - 1 \in b - 1 .. Len(line) /\ (b - 1) - b + 1 = 0
      BY <1>1
  <2>2. Part(b - 1) \in Seq(E) /\ Len(Part(b - 1)) = 0
      BY <1>2, <2>1
  <2> HIDE DEF Part, E
  <2>. QED
      BY <2>2
<1>4. ASSUME NEW e \in b .. Len(line) PROVE Part(e) = Append(Part(e - 1), Meant(e))
  <2>1. /\ e - 1 \in b - 1 .. Len(line) /\ e \in b - 1 .. Len(line) /\ e \in 1 .. Len(line)
        /\ (e - 1) - b + 1 = e - b /\ e - b \in Nat
      BY <1>1
  <2> DEFINE p == Part(e - 1)
             x == Meant(e)
             q == Append(p, x)
  <2>2. p \in Seq(E) /\ Len(p) = e - b /\ x \in E /\ Part(e) \in Seq(E) /\ Len(Part(e)) = e - b + 1
      BY <1>2, <2>1, MeansChars
  <2>3. \A m \in 1 .. e - b : p[m] = Meant(b + m - 1)
      BY <2>1
  <2>4. \A m \in 1 .. e - b + 1 : Part(e)[m] = Meant(b + m - 1)
      BY <2>1
  <2> HIDE DEF E, Part, p, x
  <2>5. /\ q \in Seq(E) /\ Len(q) = e - b + 1 /\ q[e - b + 1] = x
        /\ \A m \in 1 .. e - b : q[m] = p[m]
    <3>1. /\ q \in Seq(E) /\ Len(q) = Len(p) + 1 /\ q[Len(p) + 1] = x
          /\ \A m \in 1 .. Len(p) : q[m] = p[m]
      <4>1. p \in Seq(E) /\ x \in E
          BY <2>2
      <4>. QED
          BY <4>1, AppendIs
    <3>. QED
        BY <2>2, <3>1
  <2> HIDE DEF q
  <2>6. ASSUME NEW m \in 1 .. e - b + 1 PROVE Part(e)[m] = q[m]
    <3>1. CASE m = e - b + 1
      <4>1. b + m - 1 = e
          BY <2>1, <3>1
      <4>. QED
          BY <2>4, <2>5, <3>1, <4>1 DEF x
    <3>2. CASE m # e - b + 1
      <4>1. m \in 1 .. e - b
          BY <2>1, <3>2
      <4>. QED
          BY <2>3, <2>4, <2>5, <4>1
    <3>. QED
        BY <3>1, <3>2
  <2>7. Part(e) = q
      BY <2>2, <2>5, <2>6, SeqEqual
  <2>. QED
      BY <2>7 DEF p, q, x
<1>5. \A e : Span(b, e) = FlattenSeq(Part(e))
    BY DEF Span
<1>6. ASSUME NEW e \in b .. Len(line)
      PROVE  e - 1 \in b - 1 .. Len(line) /\ Meant(e) \in E
  <2>1. e \in 1 .. Len(line) /\ e - 1 \in b - 1 .. Len(line)
      BY <1>1
  <2>. QED
      BY <2>1, MeansChars
<1> HIDE DEF Part
<1>7. /\ FlattenSeq(<<>>) = <<>>
      /\ \A ss \in Seq(E) :
            /\ FlattenSeq(ss) \in E
            /\ \A x \in E : FlattenSeq(Append(ss, x)) = FlattenSeq(ss) \o x
    BY FlattenIs
<1> HIDE DEF E
<1>8. Span(b, b - 1) = <<>>
    BY <1>3, <1>5, <1>7
<1>9. \A e \in b - 1 .. Len(line) : Span(b, e) \in E
    BY <1>2, <1>5, <1>7
<1>10. ASSUME NEW e \in b .. Len(line) PROVE Span(b, e) = Span(b, e - 1) \o Meant(e)
  <2>1. Part(e - 1) \in Seq(E) /\ Meant(e) \in E
      BY <1>2, <1>6
  <2>2. FlattenSeq(Append(Part(e - 1), Meant(e))) = FlattenSeq(Part(e - 1)) \o Meant(e)
      BY <1>7, <2>1
  <2>. QED
      BY <1>4, <1>5, <2>2
<1>. QED
    BY <1>8, <1>9, <1>10 DEF E
-----------------------------------------------------------------------------
(* Where the words of a line are. *)

LEMMA BeginsIs ==
    ASSUME line \in Seq(Nat)
    PROVE  /\ Begins \subseteq 1 .. Len(line) /\ IsFiniteSet(Begins)
           /\ Cardinality(Begins) \in Nat
           /\ BeginsBefore(1) = 0 /\ BeginsBefore(Len(line) + 1) = Cardinality(Begins)
           /\ \A n \in Int : BeginsBefore(n) \in Nat
           /\ \A n \in 1 .. Len(line) :
                 BeginsBefore(n + 1) = BeginsBefore(n) + (IF n \in Begins THEN 1 ELSE 0)
<1> DEFINE L == Len(line)
           B(n) == {b \in Begins : b < n}
<1>1. /\ Begins \subseteq 1 .. L /\ L \in Nat
      /\ \A b \in Begins : b \in Nat /\ 1 <= b /\ b <= L /\ b < L + 1
  <2>1. Begins \subseteq 1 .. L /\ L \in Nat
      BY LineIs DEF Begins
  <2>. QED
      BY <2>1
<1>2. IsFiniteSet(1 .. L)
    BY <1>1, FS_Interval
<1>3. IsFiniteSet(Begins) /\ Cardinality(Begins) \in Nat
    BY <1>1, <1>2, FS_Subset, FS_CardinalityType
<1>4. \A n : BeginsBefore(n) = Cardinality(B(n)) /\ B(n) \subseteq Begins
    BY DEF BeginsBefore
<1>5. \A n : IsFiniteSet(B(n)) /\ Cardinality(B(n)) \in Nat
  <2> HIDE DEF B
  <2>. QED
      BY <1>3, <1>4, FS_Subset, FS_CardinalityType
<1>6. B(1) = {} /\ B(L + 1) = Begins
  <2>1. \A b \in Begins : ~(b < 1) /\ b < L + 1
      BY <1>1
  <2>. QED
      BY <2>1
<1>7. ASSUME NEW n \in 1 .. L
      PROVE  BeginsBefore(n + 1) = BeginsBefore(n) + (IF n \in Begins THEN 1 ELSE 0)
  <2>1. CASE n \in Begins
    <3>1. (\A b \in Begins : b < n + 1 <=> b < n \/ b = n) /\ ~(n < n)
        BY <1>1
    <3>2. B(n + 1) = B(n) \cup {n} /\ n \notin B(n)
        BY <2>1, <3>1
    <3> HIDE DEF B
    <3>3. Cardinality(B(n + 1)) = Cardinality(B(n)) + 1
        BY <1>5, <3>2, FS_AddElement
    <3>. QED
        BY <1>4, <2>1, <3>3
  <2>2. CASE n \notin Begins
    <3>1. \A b \in Begins : b < n + 1 <=> b < n
        BY <1>1, <2>2
    <3>2. B(n + 1) = B(n)
        BY <3>1
    <3> HIDE DEF B
    <3>. QED
        BY <1>4, <1>5, <2>2, <3>2
  <2>. QED
      BY <2>1, <2>2
<1> HIDE DEF B
<1>8. BeginsBefore(1) = 0
    BY <1>4, <1>6, FS_EmptySet
<1>. QED
    BY <1>1, <1>3, <1>4, <1>5, <1>6, <1>7, <1>8

LEMMA BeginsAre ==
    ASSUME line \in Seq(Nat), NEW c \in Begins
    PROVE  c \in Int /\ 1 <= c /\ c <= Len(line) /\ BeginsBefore(c) \in Nat
<1>1. c \in Int /\ 1 <= c /\ c <= Len(line)
    BY LineIs, BeginsIs
<1>. QED
    BY <1>1, BeginsIs

\* Every word has its number.
LEMMA WordExists ==
    ASSUME line \in Seq(Nat), NEW w \in 1 .. Cardinality(Begins)
    PROVE  \E c \in Begins : BeginsBefore(c) = w - 1
<1> DEFINE L == Len(line)
           T == {n \in 0 .. L : \A v \in 1 .. BeginsBefore(n + 1) :
                                   \E c \in Begins : BeginsBefore(c) = v - 1}
<1>1. L \in Nat
    BY LineIs
<1>2. 0 \in T
  <2>1. BeginsBefore(0 + 1) = 0
      BY BeginsIs
  <2>. QED
      BY <1>1, <2>1
<1>3. ASSUME NEW n \in 0 .. L - 1, n \in T PROVE n + 1 \in T
  <2>1. n + 1 \in 1 .. L /\ n + 1 \in 0 .. L /\ n + 1 \in Int
      BY <1>1
  <2>2. /\ BeginsBefore(n + 1) \in Nat
        /\ BeginsBefore((n + 1) + 1) = BeginsBefore(n + 1) + (IF n + 1 \in Begins THEN 1 ELSE 0)
      BY <2>1, BeginsIs
  <2>3. ASSUME NEW v \in 1 .. BeginsBefore((n + 1) + 1)
        PROVE  \E c \in Begins : BeginsBefore(c) = v - 1
    <3>1. CASE v \in 1 .. BeginsBefore(n + 1)
        BY <1>3, <3>1
    <3>2. CASE v \notin 1 .. BeginsBefore(n + 1)
      <4>1. n + 1 \in Begins /\ BeginsBefore(n + 1) = v - 1
          BY <2>2, <2>3, <3>2
      <4>. QED
          BY <4>1
    <3>. QED
        BY <3>1, <3>2
  <2>. QED
      BY <2>1, <2>3
<1>4. L \in T
  <2> HIDE DEF T
  <2>1. 0 .. L \subseteq T
      BY <1>1, <1>2, <1>3, InductionUpTo
  <2>. QED
      BY <1>1, <2>1
<1>5. BeginsBefore(L + 1) = Cardinality(Begins)
    BY BeginsIs
<1>. QED
    BY <1>4, <1>5

\* A word that is followed by a blank, or by nothing, ends there.
LEMMA WordStops ==
    ASSUME line \in Seq(Nat), NEW b \in Begins, NEW i \in b + 1 .. Len(line) + 1,
           \A m \in b .. i - 1 : ~Separates(m),
           i = Len(line) + 1 \/ Separates(i)
    PROVE  /\ EndOf(b) = i - 1
           /\ BeginsBefore(i) = BeginsBefore(b) + 1
           /\ Separates(i) => i \notin Begins
<1> DEFINE L == Len(line)
           T == {k \in 0 .. i - b - 1 : BeginsBefore(b + k + 1) = BeginsBefore(b) + 1}
<1>1. b \in 1 .. L /\ L \in Nat /\ b \in Int
    BY LineIs, BeginsIs
<1>2. i - 1 \in b .. L /\ i \in Int /\ i - b - 1 \in Nat /\ (i - 1) + 1 = i
    BY <1>1
<1>3. EndOf(b) = i - 1
  <2>1. ASSUME NEW e \in b .. L, \A m \in b .. e : ~Separates(m), e = L \/ Separates(e + 1)
        PROVE  e = i - 1
    <3>1. CASE e < i - 1
      <4>1. e + 1 \in b .. i - 1 /\ e # L
          BY <1>1, <1>2, <3>1
      <4>. QED
          BY <2>1, <4>1
    <3>2. CASE e > i - 1
      <4>1. i \in b .. e /\ i # L + 1
          BY <1>1, <1>2, <3>2
      <4>. QED
          BY <2>1, <4>1
    <3>. QED
        BY <1>1, <1>2, <3>1, <3>2
  <2>2. /\ \A m \in b .. i - 1 : ~Separates(m)
        /\ i - 1 = L \/ Separates((i - 1) + 1)
      BY <1>1, <1>2
  <2> DEFINE Ends(e) == e \in b .. L /\ (\A m \in b .. e : ~Separates(m)) /\ (e = L \/ Separates(e + 1))
  <2>3. EndOf(b) = CHOOSE e : Ends(e)
      BY DEF EndOf
  <2>4. Ends(i - 1)
      BY <1>2, <2>2
  <2>5. \A e : Ends(e) => e = i - 1
      BY <2>1
  <2> HIDE DEF Ends
  <2>. QED
      BY <2>3, <2>4, <2>5
<1>4. ASSUME NEW m \in Begins PROVE m # 1 => Separates(m - 1)
    BY DEF Begins
<1>5. 0 \in T
  <2>1. BeginsBefore(b + 1) = BeginsBefore(b) + 1
      BY <1>1, BeginsIs
  <2>2. b + 0 + 1 = b + 1 /\ 0 \in 0 .. i - b - 1
      BY <1>1, <1>2
  <2>. QED
      BY <2>1, <2>2
<1>6. ASSUME NEW k \in 0 .. i - b - 1 - 1, k \in T PROVE k + 1 \in T
  <2>1. /\ b + k + 1 \in 1 .. L /\ b + k \in b .. i - 1 /\ (b + k + 1) - 1 = b + k
        /\ b + (k + 1) + 1 = (b + k + 1) + 1 /\ k + 1 \in 0 .. i - b - 1
        /\ b + k + 1 # 1 /\ b + k + 1 \in Int
      BY <1>1, <1>2
  <2>2. b + k + 1 \notin Begins
      BY <1>4, <2>1
  <2>3. BeginsBefore((b + k + 1) + 1) = BeginsBefore(b + k + 1) + 0 /\ BeginsBefore(b + k + 1) \in Nat
      BY <2>1, <2>2, BeginsIs
  <2>. QED
      BY <1>6, <2>1, <2>3
<1>7. i - b - 1 \in T
  <2> HIDE DEF T
  <2>1. 0 .. i - b - 1 \subseteq T
      BY <1>2, <1>5, <1>6, InductionUpTo
  <2>. QED
      BY <1>2, <2>1
<1>8. b + (i - b - 1) + 1 = i
    BY <1>1, <1>2
<1>9. Separates(i) => i \notin Begins
    BY DEF Begins
<1>. QED
    BY <1>3, <1>7, <1>8, <1>9
-----------------------------------------------------------------------------
(* The tokenizer on its way along a line. *)

WordAt(b) == Span(b, EndOf(b))

\* The words that begin before n are in the list.
Known(lst, n) ==
    /\ lst.count = BeginsBefore(n)
    /\ \A c \in Begins : c < n => Abs(lst)[BeginsBefore(c) + 1] = WordAt(c)

InWord(s) ==
    /\ s.intoken /\ s.start \in Begins /\ s.start <= s.i
    /\ \A m \in s.start .. s.i - 1 : ~Separates(m)
    /\ s.token = Span(s.start, s.i - 1) /\ Known(s.tokens, s.start)

BetweenWords(s) ==
    /\ ~s.intoken /\ s.i # 1 /\ Separates(s.i - 1) /\ Begins # {}
    /\ s.token = <<>> /\ Known(s.tokens, s.i)

NoWord(s) ==
    /\ s.intoken /\ s.i = Len(line) + 1 /\ Begins = {}
    /\ s.token = <<>> /\ s.tokens = NewList

\* It knows if it is inside quotes, and is never in the middle of a pair.
Placed(s) ==
    /\ s.i \in 1 .. Len(line) + 1 /\ s.inquote \in BOOLEAN
    /\ s.inquote <=> Odd(s.i)
    /\ ~PairAt(s.i - 1)

Scans(s) == IsReading(s) /\ Placed(s) /\ (InWord(s) \/ BetweenWords(s) \/ NoWord(s))

\* What comes first is skipped.
LEMMA StartIs ==
    ASSUME line \in Seq(Nat)
    PROVE  LET i == Start(line).i
           IN  /\ i \in 1 .. Len(line) + 1 /\ (i = Len(line) + 1 \/ line[i] # Blank)
               /\ \A b \in 1 .. i - 1 : line[b] = Blank
<1> DEFINE L == Len(line)
           First(j) == /\ j = Len(line) + 1 \/ line[j] # Blank
                       /\ \A b \in 1 .. j - 1 : line[b] = Blank
           S == {j \in 1 .. L + 1 : j = L + 1 \/ line[j] # Blank}
           i == CHOOSE j \in 1 .. L + 1 : First(j)
<1>1. L \in Nat
    BY LineIs
<1>2. PICK j \in S : \A m \in S : j <= m
  <2>1. L + 1 \in S /\ S \subseteq Nat
      BY <1>1
  <2> HIDE DEF S
  <2>. QED
      BY <2>1, LeastExists
<1>3. \A b \in 1 .. j - 1 : line[b] = Blank
  <2> SUFFICES ASSUME NEW b \in 1 .. j - 1, line[b] # Blank PROVE FALSE
      OBVIOUS
  <2>1. b \in S /\ ~(j <= b)
      BY <1>1
  <2>. QED
      BY <1>2, <2>1
<1>4. j \in 1 .. L + 1 /\ First(j)
    BY <1>3
<1> HIDE DEF First, L
<1>5. i \in 1 .. L + 1 /\ First(i)
    BY <1>4, Zenon
<1>6. Start(line).i = i
    BY DEF Start, L, First
<1>. QED
    BY <1>5, <1>6, Zenon DEF First, L

LEMMA StartScans ==
    ASSUME line \in Seq(Nat)
    PROVE  Scans(Start(line))
<1> DEFINE L == Len(line)
           s == Start(line)
           i == s.i
<1>1. L \in Nat
    BY LineIs
<1>2. i \in 1 .. L + 1 /\ (i = L + 1 \/ line[i] # Blank) /\ \A b \in 1 .. i - 1 : line[b] = Blank
    BY StartIs
<1>3. /\ s.token = <<>> /\ s.tokens = NewList /\ s.inquote = FALSE
      /\ s.intoken = TRUE /\ s.start = s.i /\ IsReading(s)
  <2> DEFINE S(k) == [i |-> k, token |-> <<>>, tokens |-> NewList,
                      inquote |-> FALSE, intoken |-> TRUE, start |-> k, end |-> 0]
  <2>1. PICK k : s = S(k)
      BY DEF Start
  <2>2. S(k).tokens = NewList /\ S(k).token = <<>> /\ S(k).inquote = FALSE
        /\ S(k).intoken = TRUE /\ S(k).start = S(k).i
      OBVIOUS
  <2>3. IsReading(S(k))
      BY NewHolds DEF IsReading
  <2> HIDE DEF S, s
  <2>. QED
      BY <2>1, <2>2, <2>3
<1> HIDE DEF s
<1> DEFINE T == {k \in 0 .. i - 1 : ~Odd(k + 1)}
<1>4. 0 \in T
  <2>1. 0 \in 0 .. i - 1 /\ 0 + 1 = 1
      BY <1>1, <1>2
  <2>. QED
      BY <2>1, OddIs
<1>5. ASSUME NEW k \in 0 .. i - 1 - 1, k \in T PROVE k + 1 \in T
  <2>1. k + 1 \in 1 .. i - 1 /\ k + 1 \in 1 .. L /\ k + 1 \in 0 .. i - 1
      BY <1>1, <1>2
  <2>2. ~IsQuote(k + 1)
      BY <1>2, <2>1 DEF IsQuote, Quote, Blank
  <2>3. ~Odd((k + 1) + 1)
      BY <1>5, <2>1, <2>2, OddIs
  <2>. QED
      BY <2>1, <2>3
<1>6. \A k \in 0 .. i - 1 : ~Odd(k + 1)
  <2>1. i - 1 \in Nat
      BY <1>1, <1>2
  <2>2. 0 .. i - 1 \subseteq T
    <3> HIDE DEF T
    <3>. QED
        BY <1>4, <1>5, <2>1, InductionUpTo
  <2>. QED
      BY <2>2
<1>7. \A n \in 1 .. i : ~Odd(n)
  <2> SUFFICES ASSUME NEW n \in 1 .. i PROVE ~Odd(n)
      OBVIOUS
  <2>1. n - 1 \in 0 .. i - 1 /\ (n - 1) + 1 = n
      BY <1>1, <1>2
  <2>. QED
      BY <1>6, <2>1
<1>8. i \in 1 .. i /\ \A b \in 1 .. i - 1 : b \in 1 .. i /\ Separates(b)
    BY <1>1, <1>2, <1>7 DEF Separates
<1>9. Placed(s)
  <2>1. ~PairAt(i - 1)
    <3>1. CASE i = 1
      <4>1. i - 1 = 0 /\ 0 \notin DOMAIN line
          BY <1>1, <3>1, LineIs
      <4>. QED
          BY <4>1 DEF PairAt, IsQuote
    <3>2. CASE i # 1
      <4>1. i - 1 \in 1 .. i - 1 /\ i - 1 \in 1 .. i
          BY <1>1, <1>2, <3>2
      <4>. QED
          BY <1>7, <4>1 DEF PairAt
    <3>. QED
        BY <3>1, <3>2
  <2>2. ~Odd(i)
      BY <1>7, <1>8
  <2>. QED
      BY <1>2, <1>3, <2>1, <2>2 DEF Placed
<1>10. \A c \in Begins : ~(c < i)
  <2> SUFFICES ASSUME NEW c \in Begins, c < i PROVE FALSE
      OBVIOUS
  <2>1. c \in 1 .. i - 1
      BY <1>1, <1>2, BeginsAre
  <2>2. ~Separates(c)
      BY DEF Begins
  <2>. QED
      BY <1>8, <2>1, <2>2
<1>11. Known(NewList, i)
  <2>1. {b \in Begins : b < i} = {}
      BY <1>10
  <2>2. BeginsBefore(i) = 0
      BY <2>1, FS_EmptySet DEF BeginsBefore
  <2>. QED
      BY <1>10, <2>2, NewHolds DEF Known
<1>12. ASSUME i = L + 1 PROVE Scans(s)
  <2>1. Begins = {}
    <3> SUFFICES ASSUME NEW c \in Begins PROVE FALSE
        OBVIOUS
    <3>1. c < L + 1
        BY <1>1, BeginsIs
    <3>. QED
        BY <1>10, <1>12, <3>1
  <2>2. NoWord(s)
      BY <1>3, <1>12, <2>1 DEF NoWord
  <2>. QED
      BY <1>3, <1>9, <2>2 DEF Scans
<1>13. ASSUME i # L + 1 PROVE Scans(s)
  <2>1. i \in 1 .. L /\ line[i] # Blank /\ i <= i
      BY <1>1, <1>2, <1>13
  <2>2. i \in Begins
    <3>1. i = 1 \/ i - 1 \in 1 .. i - 1
        BY <1>1, <1>2
    <3>2. ~Separates(i) /\ i \in DOMAIN line
        BY <2>1, LineIs DEF Separates
    <3>. QED
        BY <1>8, <3>1, <3>2 DEF Begins
  <2>3. Span(i, i - 1) = <<>>
      BY <1>2, SpanIs
  <2>4. \A m \in i .. i - 1 : ~Separates(m)
      BY <1>2
  <2>5. InWord(s)
      BY <1>3, <1>11, <2>1, <2>2, <2>3, <2>4 DEF InWord
  <2>. QED
      BY <1>3, <1>9, <2>5 DEF Scans
<1>. QED
    BY <1>12, <1>13 DEF s

\* What is no blank between words is in a word.
LEMMA BegunIs ==
    ASSUME line \in Seq(Nat), NEW s, Scans(s), s.i <= Len(line), ~Separates(s.i)
    PROVE  LET b == Begun(s)
           IN  /\ IsReading(b) /\ InWord(b)
               /\ b.i = s.i /\ b.inquote = s.inquote /\ b.token = s.token /\ b.tokens = s.tokens
<1> DEFINE b == Begun(s)
<1>1. s.i \in 1 .. Len(line) /\ Len(line) \in Nat
    BY LineIs DEF Scans, Placed
<1>2. IsReading(s) /\ {"i", "token", "tokens", "inquote", "intoken", "start", "end"} \subseteq DOMAIN s
    BY DEF Scans, IsReading
<1>3. /\ b.i = s.i /\ b.inquote = s.inquote /\ b.token = s.token /\ b.tokens = s.tokens
      /\ b.intoken = TRUE /\ b.start = IF s.intoken THEN s.start ELSE s.i
    BY <1>2 DEF Begun
<1>4. IsReading(b)
    BY <1>2 DEF IsReading, Begun
<1> HIDE DEF b
<1>5. CASE InWord(s)
  <2>1. b.start = s.start
      BY <1>3, <1>5 DEF InWord
  <2>. QED
      BY <1>3, <1>4, <1>5, <2>1 DEF InWord, b
<1>6. CASE BetweenWords(s)
  <2>1. b.start = s.i /\ s.i <= s.i /\ \A m \in s.i .. s.i - 1 : ~Separates(m)
      BY <1>1, <1>3, <1>6 DEF BetweenWords
  <2>2. s.i \in Begins
      BY <1>1, <1>6, LineIs DEF BetweenWords, Begins
  <2>3. Span(s.i, s.i - 1) = <<>>
      BY <1>1, SpanIs
  <2>4. InWord(b)
      BY <1>3, <1>6, <2>1, <2>2, <2>3 DEF InWord, BetweenWords
  <2>. QED
      BY <1>3, <1>4, <2>4 DEF b
<1>7. CASE NoWord(s)
    BY <1>1, <1>7 DEF NoWord
<1>. QED
    BY <1>5, <1>6, <1>7 DEF Scans

LEMMA WordGrowsBy ==
    ASSUME line \in Seq(Nat), NEW s, InWord(s), s.i \in 1 .. Len(line), ~Separates(s.i),
           NEW r, r.i = s.i + 1, r.token = s.token \o Meant(s.i),
           r.start = s.start, r.intoken, r.tokens = s.tokens
    PROVE  InWord(r)
<1>1. s.start \in 1 .. Len(line) /\ s.start <= s.i /\ Len(line) \in Nat
    BY LineIs, BeginsIs DEF InWord
<1>2. s.i \in s.start .. Len(line) /\ s.start \in 1 .. Len(line) + 1 /\ r.i - 1 = s.i /\ s.start <= r.i
    BY <1>1
<1>3. Span(s.start, s.i) = Span(s.start, s.i - 1) \o Meant(s.i)
    BY <1>2, SpanIs
<1>4. \A m \in s.start .. s.i : m = s.i \/ m \in s.start .. s.i - 1
    BY <1>1
<1>. QED
    BY <1>2, <1>3, <1>4 DEF InWord

\* At its end, a word gets its place behind the others.
LEMMA WordListed ==
    ASSUME line \in Seq(Nat), NEW s, IsReading(s), InWord(s), s.i \in 1 .. Len(line) + 1,
           s.i = Len(line) + 1 \/ Separates(s.i)
    PROVE  LET t == ListAdd(s.tokens, s.token)
           IN  Known(t, s.i) /\ (s.i <= Len(line) => Known(t, s.i + 1))
<1> DEFINE t == ListAdd(s.tokens, s.token)
           b == s.start
<1>1. b \in Begins /\ b \in 1 .. Len(line) /\ b <= s.i /\ Len(line) \in Nat /\ ~Separates(b)
    BY LineIs, BeginsIs DEF InWord, Begins
<1>2. s.i \in b + 1 .. Len(line) + 1
  <2>1. b # s.i
      BY <1>1
  <2>. QED
      BY <1>1, <2>1
<1>3. \A m \in b .. s.i - 1 : ~Separates(m)
    BY DEF InWord
<1>4. /\ EndOf(b) = s.i - 1 /\ BeginsBefore(s.i) = BeginsBefore(b) + 1
      /\ Separates(s.i) => s.i \notin Begins
    BY <1>1, <1>2, <1>3, WordStops
<1>5. /\ t.count = s.tokens.count + 1
      /\ \A j \in 1 .. s.tokens.count + 1 :
            Abs(t)[j] = IF j <= s.tokens.count THEN Abs(s.tokens)[j] ELSE s.token
  <2>1. IsList(s.tokens) /\ Fits(s.tokens)
      BY DEF IsReading
  <2> DEFINE lst == s.tokens
             x == s.token
  <2> HIDE DEF lst, x
  <2>2. IsList(lst) /\ Fits(lst)
      BY <2>1 DEF lst
  <2>3. LET r == ListAdd(lst, x)
        IN  /\ r.count = lst.count + 1
            /\ \A j \in 1 .. lst.count + 1 :
                  Abs(r)[j] = IF j <= lst.count THEN Abs(lst)[j] ELSE x
      BY <2>2, AddHolds
  <2>. QED
      BY <2>3 DEF lst, x
<1> HIDE DEF t
<1>6. Known(s.tokens, b) /\ s.token = WordAt(b)
    BY <1>4 DEF InWord, WordAt
<1>7. BeginsBefore(b) \in Nat /\ s.tokens.count = BeginsBefore(b) /\ \A c \in Begins : c \in 1 .. Len(line) /\ BeginsBefore(c) \in Nat
    BY <1>1, <1>6, BeginsAre DEF Known
<1>8. Known(t, s.i)
  <2>1. ASSUME NEW c \in Begins, c < s.i PROVE Abs(t)[BeginsBefore(c) + 1] = WordAt(c)
    <3>1. CASE c = b
      <4>1. BeginsBefore(b) + 1 \in 1 .. s.tokens.count + 1 /\ ~(BeginsBefore(b) + 1 <= s.tokens.count)
          BY <1>7
      <4>. QED
          BY <1>5, <1>6, <3>1, <4>1
    <3>2. CASE c < b
      <4>1. BeginsBefore(c) < BeginsBefore(b)
        <5> DEFINE C == {d \in Begins : d < c}
                   B == {d \in Begins : d < b}
        <5>1. C \cup {c} \subseteq B /\ c \notin C
            BY <1>1, <1>7, <3>2
        <5>2. IsFiniteSet(B) /\ IsFiniteSet(C)
          <6>1. IsFiniteSet(Begins) /\ B \subseteq Begins /\ C \subseteq Begins
              BY BeginsIs
          <6>. QED
              BY <6>1, FS_Subset
        <5>3. BeginsBefore(c) = Cardinality(C) /\ BeginsBefore(b) = Cardinality(B)
            BY DEF BeginsBefore
        <5> HIDE DEF B, C
        <5>4. Cardinality(C \cup {c}) <= Cardinality(B) /\ Cardinality(C \cup {c}) = Cardinality(C) + 1
            BY <5>1, <5>2, FS_Subset, FS_AddElement
        <5>. QED
            BY <1>7, <5>3, <5>4
      <4>2. BeginsBefore(c) + 1 \in 1 .. s.tokens.count + 1 /\ BeginsBefore(c) + 1 <= s.tokens.count
          BY <1>7, <4>1
      <4>. QED
          BY <1>5, <1>6, <3>2, <4>2 DEF Known
    <3>3. CASE c > b
      <4>1. c \in b .. s.i - 1 /\ c - 1 \in b .. s.i - 1 /\ c # 1
        <5>1. c \in Int /\ 1 <= c /\ c <= Len(line) /\ s.i \in Int /\ b \in Int /\ 1 <= b
            BY <1>1, <1>2, BeginsAre
        <5>. QED
            BY <2>1, <3>3, <5>1
      <4>. QED
          BY <1>3, <4>1 DEF Begins
    <3>. QED
        BY <1>1, <1>7, <3>1, <3>2, <3>3
  <2>. QED
      BY <1>4, <1>5, <1>7, <2>1 DEF Known
<1>9. ASSUME s.i <= Len(line) PROVE Known(t, s.i + 1)
  <2>1. s.i \in 1 .. Len(line) /\ s.i # Len(line) + 1 /\ s.i \notin Begins
      BY <1>1, <1>4, <1>9
  <2>2. BeginsBefore(s.i + 1) = BeginsBefore(s.i)
    <3>1. \A n \in 1 .. Len(line) : n \notin Begins => BeginsBefore(n + 1) = BeginsBefore(n) + 0
        BY BeginsIs
    <3> DEFINE n == s.i
    <3>2. n \in 1 .. Len(line) /\ n \notin Begins /\ n \in Int
        BY <2>1
    <3> HIDE DEF n
    <3>3. BeginsBefore(n + 1) = BeginsBefore(n) + 0
        BY <3>1, <3>2
    <3>4. BeginsBefore(n) \in Nat
        BY <3>2, BeginsIs
    <3>5. BeginsBefore(n + 1) = BeginsBefore(n)
        BY <3>3, <3>4
    <3>. QED
        BY <3>5 DEF n
  <2>3. \A c \in Begins : c < s.i + 1 => c < s.i
    <3>1. \A c \in Begins : c \in Int /\ c # s.i
        BY <1>7, <2>1
    <3>2. s.i \in Int
        BY <2>1
    <3>. QED
        BY <3>1, <3>2
  <2>4. t.count = BeginsBefore(s.i + 1)
      BY <1>8, <2>2 DEF Known
  <2>5. \A c \in Begins : c < s.i + 1 => Abs(t)[BeginsBefore(c) + 1] = WordAt(c)
      BY <1>8, <2>3 DEF Known
  <2>. QED
      BY <2>4, <2>5 DEF Known
<1>. QED
    BY <1>8, <1>9 DEF t
LEMMA TokenIs ==
    ASSUME line \in Seq(Nat), NEW s, InWord(s), s.i \in 1 .. Len(line) + 1
    PROVE  s.token \in Seq(Nat)
<1>1. s.start \in Int /\ 1 <= s.start /\ s.start <= s.i /\ s.start <= Len(line) /\ Len(line) \in Nat
    BY LineIs, BeginsAre DEF InWord
<1>2. s.start \in 1 .. Len(line) + 1 /\ s.i - 1 \in s.start - 1 .. Len(line)
    BY <1>1
<1>. QED
    BY <1>2, SpanIs DEF InWord

\* The cases of the switch, as what they make of the fields.
LEMMA AdvanceIs ==
    ASSUME line \in Seq(Nat), NEW s, Scans(s), s.i <= Len(line)
    PROVE  LET r == Advance(line, s)
               c == line[s.i]
           IN  /\ c = Quote /\ PairedQuote(line, s) =>
                     /\ r.i = s.i + 2 /\ r.inquote = s.inquote
                     /\ r.token = Append(s.token, Quote) /\ r.tokens = s.tokens
                     /\ r.start = Begun(s).start /\ r.intoken = TRUE
               /\ c = Quote /\ ~PairedQuote(line, s) =>
                     /\ r.i = s.i + 1 /\ r.inquote = ~s.inquote
                     /\ r.token = s.token /\ r.tokens = s.tokens
                     /\ r.start = Begun(s).start /\ r.intoken = TRUE
               /\ c = Blank /\ ~s.intoken =>
                     /\ r.i = s.i + 1 /\ r.inquote = s.inquote
                     /\ r.token = s.token /\ r.tokens = s.tokens /\ r.intoken = s.intoken
               /\ c = Blank /\ s.intoken /\ ~s.inquote =>
                     /\ r.i = s.i + 1 /\ r.inquote = s.inquote
                     /\ r.token = <<>> /\ r.tokens = ListAdd(s.tokens, s.token)
                     /\ r.intoken = FALSE
               /\ c # Quote /\ (c = Blank => s.intoken /\ s.inquote) =>
                     /\ r.i = s.i + 1 /\ r.inquote = s.inquote
                     /\ r.token = s.token \o Escaped(c, s.inquote) /\ r.tokens = s.tokens
                     /\ r.start = Begun(s).start /\ r.intoken = TRUE
<1> DEFINE r == Advance(line, s)
           c == line[s.i]
           b == Begun(s)
           Fields == {"i", "token", "tokens", "inquote", "intoken", "start", "end"}
<1>1. Fields \subseteq DOMAIN s
    BY DEF Scans, IsReading
<1>2. /\ Fields \subseteq DOMAIN b
      /\ b.i = s.i /\ b.inquote = s.inquote /\ b.token = s.token /\ b.tokens = s.tokens
      /\ b.intoken = TRUE
    BY <1>1 DEF Begun
<1>3. Quote # Blank
    BY DEF Quote, Blank
<1> HIDE DEF b
<1>4. ASSUME c = Quote, PairedQuote(line, s)
      PROVE  /\ r.i = s.i + 2 /\ r.inquote = s.inquote
             /\ r.token = Append(s.token, Quote) /\ r.tokens = s.tokens
             /\ r.start = b.start /\ r.intoken = TRUE
  <2>1. r = [b EXCEPT !.i = @ + 2, !.token = Append(@, Quote)]
      BY <1>4 DEF Advance, b
  <2> HIDE DEF r
  <2>. QED
      BY <1>2, <2>1
<1>5. ASSUME c = Quote, ~PairedQuote(line, s)
      PROVE  /\ r.i = s.i + 1 /\ r.inquote = ~s.inquote
             /\ r.token = s.token /\ r.tokens = s.tokens
             /\ r.start = b.start /\ r.intoken = TRUE
  <2>1. r = [b EXCEPT !.i = @ + 1, !.inquote = ~@]
      BY <1>5 DEF Advance, b
  <2> HIDE DEF r
  <2>. QED
      BY <1>2, <2>1
<1>6. ASSUME c = Blank, ~s.intoken
      PROVE  /\ r.i = s.i + 1 /\ r.inquote = s.inquote
             /\ r.token = s.token /\ r.tokens = s.tokens /\ r.intoken = s.intoken
  <2>1. r = [s EXCEPT !.i = @ + 1]
      BY <1>3, <1>6 DEF Advance
  <2> HIDE DEF r
  <2>. QED
      BY <1>1, <2>1
<1>7. ASSUME c = Blank, s.intoken, ~s.inquote
      PROVE  /\ r.i = s.i + 1 /\ r.inquote = s.inquote
             /\ r.token = <<>> /\ r.tokens = ListAdd(s.tokens, s.token)
             /\ r.intoken = FALSE
  <2>1. r = [EndToken(s) EXCEPT !.i = @ + 1]
      BY <1>3, <1>7 DEF Advance
  <2> DEFINE e == EndToken(s)
  <2>2. /\ Fields \subseteq DOMAIN e
        /\ e.i = s.i /\ e.inquote = s.inquote /\ e.token = <<>>
        /\ e.tokens = ListAdd(s.tokens, s.token) /\ e.intoken = FALSE
      BY <1>1 DEF EndToken
  <2>3. r = [e EXCEPT !.i = @ + 1]
      BY <2>1
  <2> HIDE DEF e, r
  <2>. QED
      BY <2>2, <2>3
<1>8. ASSUME c # Quote, c = Blank => s.intoken /\ s.inquote
      PROVE  /\ r.i = s.i + 1 /\ r.inquote = s.inquote
             /\ r.token = s.token \o Escaped(c, s.inquote) /\ r.tokens = s.tokens
             /\ r.start = b.start /\ r.intoken = TRUE
  <2>1. r = [b EXCEPT !.i = @ + 1, !.token = @ \o Escaped(c, s.inquote)]
      BY <1>3, <1>8 DEF Advance, b
  <2> HIDE DEF r, c
  <2>. QED
      BY <1>2, <2>1
<1> HIDE DEF r, c
<1>9. /\ c = Quote /\ PairedQuote(line, s) =>
            /\ r.i = s.i + 2 /\ r.inquote = s.inquote
            /\ r.token = Append(s.token, Quote) /\ r.tokens = s.tokens
            /\ r.start = b.start /\ r.intoken = TRUE
      /\ c = Quote /\ ~PairedQuote(line, s) =>
            /\ r.i = s.i + 1 /\ r.inquote = ~s.inquote
            /\ r.token = s.token /\ r.tokens = s.tokens
            /\ r.start = b.start /\ r.intoken = TRUE
    BY <1>4, <1>5
<1>10. /\ c = Blank /\ ~s.intoken =>
             /\ r.i = s.i + 1 /\ r.inquote = s.inquote
             /\ r.token = s.token /\ r.tokens = s.tokens /\ r.intoken = s.intoken
       /\ c = Blank /\ s.intoken /\ ~s.inquote =>
             /\ r.i = s.i + 1 /\ r.inquote = s.inquote
             /\ r.token = <<>> /\ r.tokens = ListAdd(s.tokens, s.token)
             /\ r.intoken = FALSE
       /\ c # Quote /\ (c = Blank => s.intoken /\ s.inquote) =>
             /\ r.i = s.i + 1 /\ r.inquote = s.inquote
             /\ r.token = s.token \o Escaped(c, s.inquote) /\ r.tokens = s.tokens
             /\ r.start = b.start /\ r.intoken = TRUE
    BY <1>6, <1>7, <1>8
<1>. QED
    BY <1>9, <1>10, Zenon DEF r, c, b

LEMMA AdvanceScans ==
    ASSUME line \in Seq(Nat), NEW s, Scans(s), s.i <= Len(line)
    PROVE  Scans(Advance(line, s)) /\ Advance(line, s).i > s.i
<1> DEFINE r == Advance(line, s)
           c == line[s.i]
           b == Begun(s)
           L == Len(line)
           i == s.i
<1>1. i \in 1 .. L /\ L \in Nat /\ i \in Int /\ DOMAIN line = 1 .. L
    BY LineIs DEF Scans, Placed
<1>2. IsReading(s) /\ IsReading(r)
    BY AdvanceKeeps DEF Scans
<1>3. s.inquote \in BOOLEAN /\ (s.inquote <=> Odd(i)) /\ ~PairAt(i - 1)
    BY DEF Scans, Placed
<1>4. ~Odd(i + 1) <=> (Odd(i) /\ IsQuote(i)) \/ (~Odd(i) /\ ~IsQuote(i))
    BY <1>1, OddIs
<1>5. IsQuote(i) <=> c = Quote
    BY <1>1 DEF IsQuote
<1>6. Separates(i) <=> c = Blank /\ ~Odd(i)
    BY DEF Separates
<1>7. Quote # Blank /\ Quote \in Nat
    BY DEF Quote, Blank
<1>8. FirstOfPair(i) <=> PairAt(i)
    BY <1>1, PairIs
<1>9. PairAt(i) <=> IsQuote(i) /\ IsQuote(i + 1) /\ Odd(i)
    BY DEF PairAt
<1>10. (i + 1) - 1 = i /\ (i + 2) - 1 = i + 1 /\ i + 1 > i /\ i + 2 > i /\ i + 1 \in 1 .. L + 1
  <2>1. i \in 1 .. L /\ L \in Nat
      BY <1>1
  <2> HIDE DEF L, i
  <2>. QED
      BY <2>1
<1>11. ASSUME ~Separates(i)
       PROVE  /\ InWord(b) /\ b.i = i /\ b.token = s.token /\ b.tokens = s.tokens
              /\ b.token \in Seq(Nat)
  <2>1. InWord(b) /\ b.i = i /\ b.token = s.token /\ b.tokens = s.tokens
      BY <1>1, <1>11, BegunIs
  <2>2. b.i \in 1 .. L + 1
      BY <1>1, <2>1
  <2> HIDE DEF b
  <2>3. b.token \in Seq(Nat)
      BY <2>1, <2>2, TokenIs
  <2>. QED
      BY <2>1, <2>3
<1>12. \A t \in Seq(Nat) : Append(t, Quote) = t \o <<Quote>> /\ t \o <<>> = t /\ t \o <<Quote>> \in Seq(Nat)
  <2>1. ASSUME NEW q \in Nat, NEW t \in Seq(Nat)
        PROVE  Append(t, q) = t \o <<q>> /\ t \o <<>> = t /\ t \o <<q>> \in Seq(Nat)
      OBVIOUS
  <2>. QED
      BY <1>7, <2>1
<1>13. CASE c = Quote /\ PairedQuote(line, s)
  <2>1. /\ r.i = i + 2 /\ r.inquote = s.inquote
        /\ r.token = Append(s.token, Quote) /\ r.tokens = s.tokens
        /\ r.start = b.start /\ r.intoken = TRUE
      BY <1>1, <1>13, AdvanceIs
  <2> HIDE DEF r, b
  <2>2. s.inquote /\ i < L /\ IsQuote(i + 1)
      BY <1>1, <1>13 DEF PairedQuote, IsQuote
  <2>3. PairAt(i) /\ Odd(i) /\ ~Odd(i + 1)
      BY <1>3, <1>4, <1>5, <1>9, <1>13, <2>2
  <2>4. i + 1 \in 1 .. L /\ i + 1 \in Int /\ (i + 1) + 1 = i + 2 /\ i + 2 \in 1 .. L + 1
    <3>1. i \in Nat /\ 1 <= i /\ L \in Nat /\ i < L
        BY <1>1, <2>2
    <3> HIDE DEF L
    <3>. QED
        BY <3>1
  <2>5. Odd(i + 2)
    <3>1. Odd((i + 1) + 1)
        BY <2>2, <2>3, <2>4, OddIs
    <3>. QED
        BY <2>4, <3>1
  <2>6. ~PairAt(i + 1) /\ ~FirstOfPair(i + 1)
      BY <2>3, <2>4, PairIs DEF PairAt
  <2>7. Placed(r)
      BY <1>3, <1>10, <2>1, <2>2, <2>4, <2>5, <2>6 DEF Placed
  <2>8. Meant(i) = <<Quote>> /\ Meant(i + 1) = <<>>
      BY <1>5, <1>8, <1>13, <2>2, <2>3, <2>6 DEF Meant
  <2>9. ~Separates(i)
      BY <1>6, <1>7, <1>13
  <2> DEFINE m == [i |-> i + 1, token |-> s.token \o <<Quote>>, start |-> b.start,
                   intoken |-> TRUE, tokens |-> s.tokens]
  <2>10. m.i = b.i + 1 /\ m.token = b.token \o Meant(b.i) /\ m.start = b.start /\ m.intoken /\ m.tokens = b.tokens
      BY <1>11, <2>8, <2>9
  <2>11. m.i = i + 1 /\ m.token = s.token \o <<Quote>> /\ m.tokens = s.tokens
      OBVIOUS
  <2> HIDE DEF m
  <2>12. InWord(m)
    <3>1. b.i \in 1 .. Len(line) /\ ~Separates(b.i) /\ InWord(b)
        BY <1>1, <1>11, <2>9
    <3>. QED
        BY <2>10, <3>1, WordGrowsBy
  <2>13. InWord(r)
    <3>1. m.i \in 1 .. Len(line) /\ ~Separates(m.i)
        BY <1>7, <2>2, <2>4, <2>11 DEF Separates, IsQuote
    <3>2. r.token = m.token \o Meant(m.i)
      <4>1. b.token \in Seq(Nat) /\ b.token = s.token
          BY <1>11, <2>9
      <4>2. m.token \in Seq(Nat) /\ Append(s.token, Quote) = m.token
          BY <1>12, <2>11, <4>1
      <4>3. m.token \o <<>> = m.token
          BY <1>12, <4>2
      <4>. QED
          BY <2>1, <2>8, <2>11, <4>2, <4>3, Zenon
    <3>3. r.i = m.i + 1 /\ r.start = m.start /\ r.intoken /\ r.tokens = m.tokens
        BY <2>1, <2>4, <2>10, <2>11
    <3>. QED
        BY <2>12, <3>1, <3>2, <3>3, WordGrowsBy
  <2>. QED
      BY <1>2, <1>10, <2>1, <2>7, <2>13 DEF Scans, r
<1>14. CASE c = Quote /\ ~PairedQuote(line, s)
  <2>1. /\ r.i = i + 1 /\ r.inquote = ~s.inquote
        /\ r.token = s.token /\ r.tokens = s.tokens
        /\ r.start = b.start /\ r.intoken = TRUE
      BY <1>1, <1>14, AdvanceIs
  <2> HIDE DEF r, b
  <2>2. ~PairAt(i)
    <3> SUFFICES ASSUME PairAt(i) PROVE FALSE
        OBVIOUS
    <3>1. s.inquote /\ IsQuote(i + 1)
        BY <1>3, <1>9
    <3>2. i < L /\ line[i + 1] = Quote
        BY <1>1, <3>1 DEF IsQuote
    <3>. QED
        BY <1>14, <3>1, <3>2 DEF PairedQuote
  <2>3. ~Separates(i) /\ Meant(i) = <<>>
      BY <1>5, <1>6, <1>7, <1>8, <1>14, <2>2 DEF Meant
  <2>4. Placed(r)
    <3>1. Odd(i + 1) <=> ~Odd(i)
        BY <1>4, <1>5, <1>14
    <3>. QED
        BY <1>3, <1>10, <2>1, <2>2, <3>1 DEF Placed
  <2>5. InWord(r)
    <3>1. b.i \in 1 .. Len(line) /\ ~Separates(b.i) /\ InWord(b)
        BY <1>1, <1>11, <2>3
    <3>2. /\ r.i = b.i + 1 /\ r.token = b.token \o Meant(b.i)
          /\ r.start = b.start /\ r.intoken /\ r.tokens = b.tokens
      <4>1. b.token \in Seq(Nat) /\ b.token = s.token /\ b.i = i /\ b.tokens = s.tokens
          BY <1>11, <2>3
      <4>2. b.token \o <<>> = b.token
          BY <1>12, <4>1
      <4>3. r.token = b.token \o Meant(b.i)
          BY <2>1, <2>3, <4>1, <4>2, Zenon
      <4>. QED
          BY <2>1, <4>1, <4>3
    <3>. QED
        BY <3>1, <3>2, WordGrowsBy
  <2>. QED
      BY <1>2, <1>10, <2>1, <2>4, <2>5 DEF Scans, r
<1>15. ASSUME c # Quote, r.i = i + 1, r.inquote = s.inquote PROVE Placed(r)
  <2>1. ~PairAt(i) /\ (Odd(i + 1) <=> Odd(i))
      BY <1>4, <1>5, <1>9, <1>15
  <2>. QED
      BY <1>3, <1>10, <1>15, <2>1 DEF Placed
<1>16. CASE c = Blank /\ ~s.intoken
  <2>1. /\ r.i = i + 1 /\ r.inquote = s.inquote
        /\ r.token = s.token /\ r.tokens = s.tokens /\ r.intoken = s.intoken
      BY <1>1, <1>16, AdvanceIs
  <2> HIDE DEF r
  <2>2. BetweenWords(s)
      BY <1>16 DEF Scans, InWord, NoWord
  <2>3. ~Odd(i)
    <3>1. i - 1 \in 1 .. L /\ (i - 1) + 1 = i
        BY <1>1, <2>2 DEF BetweenWords
    <3>2. ~Odd(i - 1) /\ ~IsQuote(i - 1)
        BY <1>7, <2>2 DEF BetweenWords, Separates, IsQuote
    <3>. QED
        BY <3>1, <3>2, OddIs
  <2>4. Separates(i) /\ i \notin Begins
      BY <1>6, <1>16, <2>3 DEF Begins
  <2>5. Known(s.tokens, i + 1)
    <3>1. BeginsBefore(i + 1) = BeginsBefore(i) + 0 /\ BeginsBefore(i) \in Nat
        BY <1>1, <2>4, BeginsIs
    <3>2. ASSUME NEW k \in Begins, k < i + 1 PROVE k < i
      <4>1. k \in Int /\ k # i
          BY <2>4, BeginsAre
      <4>. QED
          BY <1>1, <3>2, <4>1
    <3>. QED
        BY <2>2, <3>1, <3>2 DEF BetweenWords, Known
  <2>6. r.i # 1 /\ Separates(r.i - 1)
      BY <1>1, <1>10, <2>1, <2>4
  <2>7. BetweenWords(r)
      BY <1>16, <2>1, <2>2, <2>5, <2>6 DEF BetweenWords
  <2>. QED
      BY <1>2, <1>7, <1>10, <1>15, <1>16, <2>1, <2>7 DEF Scans, r
<1>17. CASE c = Blank /\ s.intoken /\ ~s.inquote
  <2>1. /\ r.i = i + 1 /\ r.inquote = s.inquote
        /\ r.token = <<>> /\ r.tokens = ListAdd(s.tokens, s.token)
        /\ r.intoken = FALSE
      BY <1>1, <1>17, AdvanceIs
  <2> HIDE DEF r
  <2>2. Separates(i)
      BY <1>3, <1>6, <1>17
  <2>3. InWord(s)
      BY <1>1, <1>17 DEF Scans, BetweenWords, NoWord
  <2>4. Known(ListAdd(s.tokens, s.token), i + 1)
    <3>1. s.i \in 1 .. Len(line) + 1 /\ s.i <= Len(line)
        BY <1>1
    <3>. QED
        BY <1>2, <2>2, <2>3, <3>1, WordListed
  <2>5. Begins # {}
      BY <2>3 DEF InWord
  <2>6. BetweenWords(r)
      BY <1>1, <1>10, <2>1, <2>2, <2>4, <2>5 DEF BetweenWords
  <2>. QED
      BY <1>2, <1>7, <1>10, <1>15, <1>17, <2>1, <2>6 DEF Scans, r
<1>18. CASE c # Quote /\ (c = Blank => s.intoken /\ s.inquote)
  <2>1. /\ r.i = i + 1 /\ r.inquote = s.inquote
        /\ r.token = s.token \o Escaped(c, s.inquote) /\ r.tokens = s.tokens
        /\ r.start = b.start /\ r.intoken = TRUE
      BY <1>1, <1>18, AdvanceIs
  <2> HIDE DEF r, b
  <2>2. ~Separates(i)
      BY <1>3, <1>6, <1>18
  <2>3. Meant(i) = Escaped(c, s.inquote)
    <3>1. Meant(i) = Escaped(c, Odd(i))
        BY <1>5, <1>18 DEF Meant
    <3>. QED
        BY <1>3, <3>1 DEF Escaped
  <2>4. InWord(r)
    <3>1. b.i \in 1 .. Len(line) /\ ~Separates(b.i) /\ InWord(b)
        BY <1>1, <1>11, <2>2
    <3>2. /\ r.i = b.i + 1 /\ r.token = b.token \o Meant(b.i)
          /\ r.start = b.start /\ r.intoken /\ r.tokens = b.tokens
        BY <1>11, <2>1, <2>2, <2>3
    <3>. QED
        BY <3>1, <3>2, WordGrowsBy
  <2>. QED
      BY <1>2, <1>10, <1>15, <1>18, <2>1, <2>4 DEF Scans, r
<1>. QED
    BY <1>13, <1>14, <1>16, <1>17, <1>18
LEMMA AtEndIs ==
    ASSUME line \in Seq(Nat)
    PROVE  Scans(AtEnd(line)) /\ AtEnd(line).i = Len(line) + 1
<1> DEFINE L == Len(line)
           f == CHOOSE g : IsRead(g, line, L)
           S == {n \in Nat : n <= L => Scans(f[n]) /\ f[n].i > n}
<1>1. L \in Nat
    BY LineIs
<1>2. IsRead(f, line, L)
    BY <1>1, ReadExists, Zenon
<1>3. AtEnd(line) = f[L]
    BY DEF AtEnd, IsRead
<1> HIDE DEF f
<1>4. /\ f[0] = Start(line)
      /\ \A n \in 1 .. L : f[n] = IF f[n - 1].i > L THEN f[n - 1] ELSE Advance(line, f[n - 1])
  <2> DEFINE After(t) == IF t.i > L THEN t ELSE Advance(line, t)
             g == [k \in 0 .. L |-> IF k = 0 THEN Start(line) ELSE After(f[k - 1])]
  <2>1. f = g
      BY <1>2 DEF IsRead
  <2> HIDE DEF After
  <2>2. \A k \in 0 .. L : g[k] = IF k = 0 THEN Start(line) ELSE After(f[k - 1])
      OBVIOUS
  <2> HIDE DEF g
  <2>3. f[0] = Start(line) /\ \A n \in 1 .. L : f[n] = After(f[n - 1])
    <3>1. 0 \in 0 .. L /\ \A n \in 1 .. L : n \in 0 .. L /\ n # 0
        BY <1>1
    <3>. QED
        BY <2>1, <2>2, <3>1
  <2>. QED
      BY <2>3 DEF After
<1>5. \A s : Scans(s) => s.i \in 1 .. L + 1
    BY DEF Scans, Placed
<1>6. 0 \in S
  <2>1. Scans(f[0])
      BY <1>4, StartScans
  <2>2. f[0].i \in 1 .. L + 1
      BY <1>5, <2>1
  <2>3. f[0].i > 0
      BY <1>1, <2>2
  <2>. QED
      BY <2>1, <2>3
<1>7. ASSUME NEW n \in Nat, n \in S PROVE n + 1 \in S
  <2> SUFFICES ASSUME n + 1 <= L PROVE Scans(f[n + 1]) /\ f[n + 1].i > n + 1
      OBVIOUS
  <2> DEFINE s == f[n]
  <2>1. n + 1 \in 1 .. L /\ (n + 1) - 1 = n /\ n <= L
      BY <1>1
  <2>2. /\ Scans(s) /\ s.i > n /\ s.i \in 1 .. L + 1
        /\ f[n + 1] = IF s.i > L THEN s ELSE Advance(line, s)
      BY <1>4, <1>5, <1>7, <2>1
  <2> HIDE DEF s
  <2>3. CASE s.i > L
    <3>1. s.i > n + 1
        BY <1>1, <2>1, <2>2, <2>3
    <3>. QED
        BY <2>2, <2>3, <3>1
  <2>4. CASE ~(s.i > L)
    <3> DEFINE r == Advance(line, s)
    <3>1. s.i <= L
        BY <1>1, <2>2, <2>4
    <3>2. Scans(r) /\ r.i > s.i
        BY <2>2, <3>1, AdvanceScans
    <3>3. f[n + 1] = r
        BY <2>2, <2>4
    <3> HIDE DEF r
    <3>4. r.i \in 1 .. L + 1
        BY <1>5, <3>2
    <3>5. r.i > n + 1
        BY <1>1, <2>2, <3>2, <3>4
    <3>. QED
        BY <3>2, <3>3, <3>5
  <2>. QED
      BY <2>3, <2>4
<1>8. Nat \subseteq S
  <2> HIDE DEF S
  <2>. QED
      BY <1>6, <1>7, Induction
<1>9. Scans(f[L]) /\ f[L].i > L
    BY <1>1, <1>8
<1>10. f[L].i \in 1 .. L + 1
    BY <1>5, <1>9
<1>11. f[L].i = L + 1
    BY <1>1, <1>9, <1>10
<1>. QED
    BY <1>3, <1>9, <1>11

LEMMA KnownIs ==
    ASSUME line \in Seq(Nat), Begins # {}, NEW lst, Known(lst, Len(line) + 1)
    PROVE  Abs(lst) = WordsMeant
<1> DEFINE N == Cardinality(Begins)
           Chosen(w) == CHOOSE c \in Begins : BeginsBefore(c) = w - 1
<1>1. lst.count = N
    BY BeginsIs DEF Known
<1>2. ASSUME NEW w \in 1 .. N
      PROVE  Abs(lst)[w] = Span(Chosen(w), EndOf(Chosen(w)))
  <2> DEFINE c == Chosen(w)
  <2>1. c \in Begins /\ BeginsBefore(c) = w - 1
      BY WordExists, Zenon
  <2> HIDE DEF c, N
  <2>2. c < Len(line) + 1
      BY <2>1, LineIs, BeginsAre
  <2>3. Abs(lst)[BeginsBefore(c) + 1] = WordAt(c)
      BY <2>1, <2>2 DEF Known
  <2>4. BeginsBefore(c) + 1 = w
      BY <2>1
  <2>. QED
      BY <2>3, <2>4 DEF WordAt, c
<1> DEFINE W == [w \in 1 .. N |-> Span(Chosen(w), EndOf(Chosen(w)))]
<1>3. WordsMeant = W
    BY DEF WordsMeant
<1>4. Abs(lst) = [w \in 1 .. N |-> Abs(lst)[w]]
    BY <1>1 DEF Abs
<1> HIDE DEF N, Chosen
<1>. QED
    BY <1>2, <1>3, <1>4

LEMMA TokensAsMeant ==
    ASSUME line \in Seq(Nat)
    PROVE  Abs(Tokenize(line)) = WordsMeant
<1> DEFINE s == AtEnd(line)
           t == ListAdd(s.tokens, s.token)
<1>1. Scans(s) /\ s.i = Len(line) + 1 /\ IsReading(s)
    BY AtEndIs DEF Scans
<1>2. s.intoken => Tokenize(line) = t
  <2>1. {"i", "token", "tokens", "inquote", "intoken", "start", "end"} \subseteq DOMAIN s
      BY <1>1 DEF IsReading
  <2> HIDE DEF s
  <2>2. EndToken(s).tokens = t
      BY <2>1 DEF EndToken
  <2>. QED
      BY <2>2 DEF Tokenize, s
<1>3. ~s.intoken => Tokenize(line) = s.tokens
    BY DEF Tokenize
<1>4. s.i \in 1 .. Len(line) + 1
    BY <1>1 DEF Scans, Placed
<1> HIDE DEF s
<1>5. CASE InWord(s)
  <2>1. Known(t, Len(line) + 1)
      BY <1>1, <1>4, <1>5, WordListed
  <2>2. s.intoken /\ Begins # {}
      BY <1>5 DEF InWord
  <2>. QED
      BY <1>2, <2>1, <2>2, KnownIs
<1>6. CASE BetweenWords(s)
  <2>1. Known(s.tokens, Len(line) + 1) /\ ~s.intoken /\ Begins # {}
      BY <1>1, <1>6 DEF BetweenWords
  <2>. QED
      BY <1>3, <2>1, KnownIs
<1>7. CASE NoWord(s)
  <2>1. s.intoken /\ t = ListAdd(NewList, <<>>) /\ Begins = {}
      BY <1>7 DEF NoWord
  <2> DEFINE none == <<>>
             r == ListAdd(NewList, none)
  <2> HIDE DEF none
  <2>2. /\ r.count = NewList.count + 1
        /\ \A j \in 1 .. NewList.count + 1 :
              Abs(r)[j] = IF j <= NewList.count THEN Abs(NewList)[j] ELSE none
      BY NewHolds, AddHolds
  <2> HIDE DEF r
  <2>3. r.count = 1 /\ Abs(r)[1] = none
    <3>1. 0 + 1 = 1 /\ 1 \in 1 .. 1 /\ ~(1 <= 0)
        OBVIOUS
    <3>. QED
        BY <2>2, <3>1, NewHolds
  <2>4. Abs(r) = [j \in 1 .. 1 |-> Abs(r)[j]]
      BY <2>3 DEF Abs
  <2> DEFINE one == <<none>>
  <2>5. one = [j \in 1 .. 1 |-> none]
      OBVIOUS
  <2> HIDE DEF one
  <2>6. Abs(r) = one
      BY <2>3, <2>4, <2>5
  <2>7. WordsMeant = one
      BY <2>1 DEF WordsMeant, one, none
  <2>. QED
      BY <1>2, <2>1, <2>6, <2>7 DEF r, none
<1>. QED
    BY <1>1, <1>5, <1>6, <1>7 DEF Scans

-----------------------------------------------------------------------------
(* What readline is told. *)

Outset == [i |-> 1, inquote |-> FALSE]

IsAsked(f, text, index, n) ==
    f = [k \in 0 .. n |->
           IF k = 0 THEN Outset
           ELSE LET s == f[k - 1]
                IN  IF Passes(text, index, s) THEN PassOver(text, s) ELSE s]

LEMMA AskedExists ==
    ASSUME NEW text, NEW index, NEW n \in Nat
    PROVE  \E f : IsAsked(f, text, index, n)
<1> DEFINE S == {m \in Nat : \E f : IsAsked(f, text, index, m)}
           Next1(s) == IF Passes(text, index, s) THEN PassOver(text, s) ELSE s
<1>1. 0 \in S
  <2> DEFINE f == [k \in 0 .. 0 |-> Outset]
  <2>1. IsAsked(f, text, index, 0)
      BY DEF IsAsked
  <2>. QED
      BY <2>1
<1>2. ASSUME NEW m \in Nat, m \in S PROVE m + 1 \in S
  <2>1. PICK f : IsAsked(f, text, index, m)
      BY <1>2
  <2> DEFINE g == [k \in 0 .. m + 1 |-> IF k <= m THEN f[k] ELSE Next1(f[m])]
             h == [k \in 0 .. m + 1 |-> IF k = 0 THEN Outset ELSE Next1(g[k - 1])]
  <2>2. ASSUME NEW k \in 0 .. m + 1 PROVE g[k] = h[k]
    <3> HIDE DEF Next1
    <3>1. CASE k = 0
        BY <2>1, <3>1 DEF IsAsked
    <3>2. CASE k # 0 /\ k <= m
      <4>1. k \in 0 .. m /\ k - 1 \in 0 .. m + 1 /\ k - 1 <= m
          BY <3>2
      <4>2. g[k] = f[k] /\ g[k - 1] = f[k - 1] /\ h[k] = Next1(g[k - 1])
          BY <3>2, <4>1
      <4>3. f[k] = Next1(f[k - 1])
          BY <2>1, <3>2, <4>1 DEF IsAsked, Next1
      <4>. QED
          BY <4>2, <4>3
    <3>3. CASE k = m + 1
      <4>1. k - 1 = m /\ k # 0 /\ ~(k <= m) /\ m \in 0 .. m + 1 /\ m <= m
          BY <3>3
      <4>. QED
          BY <3>3, <4>1
    <3>. QED
        BY <3>1, <3>2, <3>3
  <2>3. IsAsked(g, text, index, m + 1)
    <3>1. g = h
        BY <2>2
    <3>. QED
        BY <3>1 DEF IsAsked
  <2> HIDE DEF g, h
  <2>. QED
      BY <2>3
<1>3. Nat \subseteq S
  <2> HIDE DEF S
  <2>. QED
      BY <1>1, <1>2, Induction
<1>. QED
    BY <1>3

\* On its way to index, isquoted is where the tokenizer would be.
OnTheWay(s, index) ==
    /\ s.i \in 1 .. index /\ s.inquote \in BOOLEAN /\ {"i", "inquote"} \subseteq DOMAIN s
    /\ s.inquote <=> Odd(s.i)
    /\ ~PairAt(s.i - 1)

LEMMA AtPairIs ==
    ASSUME line \in Seq(Nat), NEW index \in 1 .. Len(line), NEW s, OnTheWay(s, index)
    PROVE  /\ s.i \in 1 .. Len(line) /\ (AtPair(line, s) <=> PairAt(s.i))
           /\ IsQuote(s.i) <=> line[s.i] = Quote
<1>1. Len(line) \in Nat /\ DOMAIN line = 1 .. Len(line)
    BY LineIs
<1>2. s.i \in 1 .. Len(line)
    BY <1>1 DEF OnTheWay
<1>3. s.i + 1 \in DOMAIN line <=> s.i < Len(line)
    BY <1>1, <1>2
<1>. QED
    BY <1>1, <1>2, <1>3 DEF OnTheWay, AtPair, PairedQuote, PairAt, IsQuote

LEMMA PassesOn ==
    ASSUME line \in Seq(Nat), NEW index \in 1 .. Len(line), NEW s, OnTheWay(s, index),
           Passes(line, index, s)
    PROVE  OnTheWay(PassOver(line, s), index) /\ PassOver(line, s).i > s.i
<1> DEFINE L == Len(line)
           r == PassOver(line, s)
           i == s.i
<1>1. L \in Nat /\ index \in 1 .. L
    BY LineIs
<1>2. i \in 1 .. L /\ i \in 1 .. index /\ i # index /\ i \in Int
      /\ (AtPair(line, s) <=> PairAt(i)) /\ (IsQuote(i) <=> line[i] = Quote)
    BY <1>1, AtPairIs DEF OnTheWay, Passes
<1>3. /\ {"i", "inquote"} \subseteq DOMAIN s /\ s.inquote \in BOOLEAN
      /\ s.inquote <=> Odd(i)
    BY DEF OnTheWay
<1>4. Odd(i + 1) <=> (Odd(i) /\ ~IsQuote(i)) \/ (~Odd(i) /\ IsQuote(i))
    BY <1>2, OddIs
<1>5. CASE PairAt(i)
  <2>1. i + 1 # index
      BY <1>2, <1>5 DEF Passes
  <2>2. i + 1 \in 1 .. L /\ i + 2 \in 1 .. index /\ (i + 1) + 1 = i + 2 /\ (i + 2) - 1 = i + 1 /\ i + 2 > i
    <3>1. i \in Int /\ index \in Int /\ L \in Int /\ 1 <= i /\ i < index /\ index <= L
        BY <1>1, <1>2
    <3>2. \A a, b, c \in Int :
             1 <= a /\ a < b /\ b <= c /\ a + 1 # b =>
                /\ a + 1 \in 1 .. c /\ a + 2 \in 1 .. b /\ (a + 1) + 1 = a + 2
                /\ (a + 2) - 1 = a + 1 /\ a + 2 > a
        OBVIOUS
    <3>. QED
        BY <2>1, <3>1, <3>2
  <2>3. EndOfPair(i) + 1 = i + 2
      BY <1>2 DEF EndOfPair
  <2>4. r = [s EXCEPT !.i = i + 2]
      BY <1>2, <1>5, <2>3 DEF PassOver
  <2>5. r.i = i + 2 /\ r.inquote = s.inquote /\ {"i", "inquote"} \subseteq DOMAIN r
      BY <1>3, <2>4
  <2> HIDE DEF r
  <2>6. Odd(i) /\ ~Odd(i + 1) /\ IsQuote(i + 1)
      BY <1>4, <1>5 DEF PairAt
  <2>7. Odd(i + 2)
    <3>1. Odd((i + 1) + 1)
        BY <2>2, <2>6, OddIs
    <3>. QED
        BY <2>2, <3>1
  <2>8. ~PairAt(i + 1)
      BY <2>6 DEF PairAt
  <2>. QED
      BY <1>3, <2>2, <2>5, <2>6, <2>7, <2>8 DEF OnTheWay, r
<1>6. CASE ~PairAt(i)
  <2>1. i + 1 \in 1 .. index /\ (i + 1) - 1 = i /\ i + 1 > i
      BY <1>1, <1>2
  <2>2. r = [s EXCEPT !.i = i + 1, !.inquote = IF line[i] = Quote THEN ~s.inquote ELSE s.inquote]
      BY <1>2, <1>6 DEF PassOver
  <2>3. /\ r.i = i + 1 /\ {"i", "inquote"} \subseteq DOMAIN r
        /\ r.inquote = IF line[i] = Quote THEN ~s.inquote ELSE s.inquote
      BY <1>3, <2>2
  <2> HIDE DEF r
  <2>4. r.inquote \in BOOLEAN /\ (r.inquote <=> Odd(i + 1))
    <3>1. CASE line[i] = Quote
        BY <1>2, <1>3, <1>4, <2>3, <3>1
    <3>2. CASE line[i] # Quote
        BY <1>2, <1>3, <1>4, <2>3, <3>2
    <3>. QED
        BY <3>1, <3>2
  <2>. QED
      BY <1>6, <2>1, <2>3, <2>4 DEF OnTheWay, r
<1>. QED
    BY <1>5, <1>6

(***************************************************************************)
(* The counterpart of TokensAsMeant: isquoted stops at index, or in front  *)
(* of the pair it belongs to.                                              *)
(***************************************************************************)
LEMMA InsideIs ==
    ASSUME line \in Seq(Nat), NEW index \in 1 .. Len(line)
    PROVE  IsQuoted(line, index) <=> Inside(index)
<1> DEFINE L == Len(line)
           f == CHOOSE g : IsAsked(g, line, index, L)
           Arrived(s) == ~Passes(line, index, s)
           S == {n \in Nat : n <= L => OnTheWay(f[n], index) /\ (f[n].i > n \/ Arrived(f[n]))}
           s == f[L]
<1>1. L \in Nat /\ index \in 1 .. L
    BY LineIs
<1>2. IsAsked(f, line, index, L)
    BY <1>1, AskedExists, Zenon
<1>3. IsQuoted(line, index) <=> /\ s.i <= L
                                /\ IF line[s.i] = Quote THEN AtPair(line, s) ELSE s.inquote
    BY DEF IsQuoted, IsAsked, Outset
<1> HIDE DEF f
<1>4. /\ f[0] = Outset
      /\ \A n \in 1 .. L :
            f[n] = IF Passes(line, index, f[n - 1]) THEN PassOver(line, f[n - 1]) ELSE f[n - 1]
  <2> DEFINE Next1(t) == IF Passes(line, index, t) THEN PassOver(line, t) ELSE t
             g == [k \in 0 .. L |-> IF k = 0 THEN Outset ELSE Next1(f[k - 1])]
  <2>1. f = g
      BY <1>2 DEF IsAsked
  <2> HIDE DEF Next1
  <2>2. \A k \in 0 .. L : g[k] = IF k = 0 THEN Outset ELSE Next1(f[k - 1])
      OBVIOUS
  <2> HIDE DEF g
  <2>3. f[0] = Outset /\ \A n \in 1 .. L : f[n] = Next1(f[n - 1])
    <3>1. 0 \in 0 .. L /\ \A n \in 1 .. L : n \in 0 .. L /\ n # 0
        BY <1>1
    <3>. QED
        BY <2>1, <2>2, <3>1
  <2>. QED
      BY <2>3 DEF Next1
<1>5. 0 \in S
  <2>1. ~PairAt(1 - 1)
    <3>1. 1 - 1 \notin DOMAIN line
        BY LineIs
    <3>. QED
        BY <3>1 DEF PairAt, IsQuote
  <2>2. 1 \in 1 .. index /\ 1 > 0
      BY <1>1
  <2>3. OnTheWay(Outset, index) /\ Outset.i = 1
      BY <2>1, <2>2, OddIs DEF OnTheWay, Outset
  <2>. QED
      BY <1>4, <2>2, <2>3
<1>6. ASSUME NEW n \in Nat, n \in S PROVE n + 1 \in S
  <2> SUFFICES ASSUME n + 1 <= L
               PROVE  OnTheWay(f[n + 1], index) /\ (f[n + 1].i > n + 1 \/ Arrived(f[n + 1]))
      OBVIOUS
  <2> DEFINE t == f[n]
             r == PassOver(line, t)
  <2>1. n + 1 \in 1 .. L /\ (n + 1) - 1 = n /\ n <= L
      BY <1>1
  <2>2. /\ OnTheWay(t, index) /\ (t.i > n \/ Arrived(t))
        /\ f[n + 1] = IF Passes(line, index, t) THEN r ELSE t
      BY <1>4, <1>6, <2>1
  <2> HIDE DEF t
  <2>3. CASE Arrived(t)
      BY <2>2, <2>3
  <2>4. CASE ~Arrived(t)
    <3>1. OnTheWay(r, index) /\ r.i > t.i /\ f[n + 1] = r /\ t.i > n
        BY <2>2, <2>4, PassesOn
    <3> HIDE DEF r
    <3>2. t.i \in Int /\ r.i \in Int
        BY <1>1, <2>2, <3>1 DEF OnTheWay
    <3>3. r.i > n + 1
        BY <3>1, <3>2
    <3>. QED
        BY <3>1, <3>3
  <2>. QED
      BY <2>3, <2>4
<1>7. Nat \subseteq S
  <2> HIDE DEF S
  <2>. QED
      BY <1>5, <1>6, Induction
<1>8. OnTheWay(s, index) /\ (s.i > L \/ Arrived(s))
    BY <1>1, <1>7
<1> HIDE DEF s
<1>9. /\ s.i \in 1 .. L /\ s.i <= L /\ ~(s.i > L) /\ s.i \in Int
      /\ (AtPair(line, s) <=> PairAt(s.i))
      /\ (IsQuote(s.i) <=> line[s.i] = Quote)
  <2>1. /\ s.i \in 1 .. L /\ (AtPair(line, s) <=> PairAt(s.i))
        /\ (IsQuote(s.i) <=> line[s.i] = Quote)
      BY <1>8, AtPairIs
  <2>. QED
      BY <1>1, <2>1
<1>10. s.i = index \/ (PairAt(s.i) /\ s.i + 1 = index)
    BY <1>8, <1>9 DEF Passes
<1>11. \A m \in Int : FirstOfPair(m) <=> PairAt(m)
    BY PairIs
<1>12. (s.inquote <=> Odd(s.i)) /\ ~PairAt(s.i - 1) /\ s.i - 1 \in Int
    BY <1>8, <1>9 DEF OnTheWay
<1>13. CASE s.i = index
    BY <1>3, <1>9, <1>11, <1>12, <1>13 DEF Inside
<1>14. CASE PairAt(s.i) /\ s.i + 1 = index
  <2>1. IsQuote(index) /\ IsQuote(s.i) /\ index - 1 = s.i
      BY <1>9, <1>14 DEF PairAt
  <2>. QED
      BY <1>3, <1>9, <1>11, <1>14, <2>1 DEF Inside
<1>. QED
    BY <1>10, <1>13, <1>14

\* Whatever the line is.
LEMMA LineReadAsQuoted ==
    ASSUME line \in Seq(Nat)
    PROVE  ReadAsQuoted
<1>1. Unbalanced(line) <=> Odd(Len(line) + 1)
    BY AtEndIs DEF Unbalanced, Scans, Placed
<1>2. Unbalanced(line) \in BOOLEAN /\ Odd(Len(line) + 1) \in BOOLEAN
    BY AtEndIs DEF Unbalanced, Scans, Placed, Odd
<1>3. Unbalanced(line) = Odd(Len(line) + 1)
    BY <1>1, <1>2
<1>4. Abs(Tokenize(line)) = WordsMeant
    BY TokensAsMeant
<1>5. Fits(Tokenize(line))
    BY LineIs, WordsInAList
<1>6. ASSUME NEW n \in DOMAIN line PROVE IsQuoted(line, n) = Inside(n)
  <2>1. n \in 1 .. Len(line)
      BY LineIs
  <2>2. IsQuoted(line, n) <=> Inside(n)
      BY <2>1, InsideIs
  <2>3. Inside(n) \in BOOLEAN
      BY DEF Inside, FirstOfPair, Odd
  <2>4. IsQuoted(line, n) \in BOOLEAN
      BY DEF IsQuoted
  <2>. QED
      BY <2>2, <2>3, <2>4
<1>. QED
    BY <1>3, <1>4, <1>5, <1>6 DEF ReadAsQuoted
-----------------------------------------------------------------------------
(* Sorting: list_sort, as counting what comes before. *)

\* R puts the elements of S in a row.
Orders(R, S) ==
    /\ \A x \in S : <<x, x>> \notin R
    /\ \A x, y \in S : x # y => <<x, y>> \in R \/ <<y, x>> \in R
    /\ \A x, y, z \in S : <<x, y>> \in R /\ <<y, z>> \in R => <<x, z>> \in R

Ahead(R, S, x) == {y \in S : <<y, x>> \in R}

LEMMA RankExists ==
    ASSUME NEW S, IsFiniteSet(S), NEW R, Orders(R, S)
    PROVE  \A k \in 0 .. Cardinality(S) - 1 :
              \E x \in S : Cardinality(Ahead(R, S, x)) = k
<1> DEFINE N == Cardinality(S)
           C(x) == Cardinality(Ahead(R, S, x))
           f == [x \in S |-> C(x)]
           T == 0 .. N - 1
<1>1. N \in Nat
    BY FS_CardinalityType
<1>2. ASSUME NEW x \in S
      PROVE  /\ IsFiniteSet(Ahead(R, S, x)) /\ Ahead(R, S, x) \subseteq S
             /\ x \notin Ahead(R, S, x) /\ C(x) \in Nat
  <2>1. Ahead(R, S, x) \subseteq S /\ x \notin Ahead(R, S, x)
      BY DEF Ahead, Orders
  <2>2. IsFiniteSet(Ahead(R, S, x))
      BY <2>1, FS_Subset
  <2>. QED
      BY <2>1, <2>2, FS_CardinalityType
<1>3. ASSUME NEW x \in S PROVE C(x) \in T
  <2> DEFINE A == Ahead(R, S, x)
  <2>1. IsFiniteSet(A) /\ A \subseteq S /\ x \notin A /\ Cardinality(A) \in Nat
      BY <1>2
  <2> HIDE DEF A
  <2>2. A \in SUBSET S /\ A # S
      BY <2>1
  <2>3. Cardinality(A) <= N /\ Cardinality(A) # N
      BY <2>2, FS_Subset
  <2> HIDE DEF N
  <2>. QED
      BY <1>1, <2>1, <2>3 DEF A
<1>4. ASSUME NEW x \in S, NEW y \in S, <<x, y>> \in R PROVE C(x) < C(y)
  <2> DEFINE A == Ahead(R, S, x)
             B == Ahead(R, S, y)
  <2>1. A \cup {x} \subseteq B
      BY <1>4 DEF Ahead, Orders
  <2>2. IsFiniteSet(A) /\ IsFiniteSet(B) /\ x \notin A /\ Cardinality(A) \in Nat /\ Cardinality(B) \in Nat
      BY <1>2
  <2> HIDE DEF A, B
  <2>3. Cardinality(A \cup {x}) = Cardinality(A) + 1
      BY <2>2, FS_AddElement
  <2>4. Cardinality(A \cup {x}) <= Cardinality(B)
      BY <2>1, <2>2, FS_Subset
  <2>5. Cardinality(A) < Cardinality(B)
      BY <2>2, <2>3, <2>4
  <2>. QED
      BY <2>5 DEF A, B
<1>5. f \in Injection(S, T)
  <2>1. f \in [S -> T]
      BY <1>3
  <2>2. ASSUME NEW x \in S, NEW y \in S, f[x] = f[y] PROVE x = y
    <3>1. C(x) = C(y) /\ C(x) \in Nat
        BY <1>2, <2>2
    <3> HIDE DEF C
    <3>2. <<x, y>> \notin R /\ <<y, x>> \notin R
        BY <1>4, <3>1
    <3>. QED
        BY <3>2 DEF Orders
  <2> HIDE DEF f, T
  <2>. QED
      BY <2>1, <2>2 DEF Injection, IsInjective
<1>6. IsFiniteSet(T) /\ Cardinality(T) = N
  <2>1. 0 \in Int /\ N - 1 \in Int
      BY <1>1
  <2>2. Cardinality(T) = IF 0 > N - 1 THEN 0 ELSE N - 1 - 0 + 1
      BY <2>1, FS_Interval
  <2>3. (IF 0 > N - 1 THEN 0 ELSE N - 1 - 0 + 1) = N
      BY <1>1
  <2>. QED
      BY <2>1, <2>2, <2>3, FS_Interval
<1>7. f \in Surjection(S, T)
  <2> HIDE DEF f, T, N
  <2>1. Cardinality(S) = Cardinality(T)
      BY <1>6 DEF N
  <2>. QED
      BY <1>5, <1>6, <2>1, FS_Injection
<1>8. ASSUME NEW k \in T PROVE \E x \in S : f[x] = k
  <2> HIDE DEF f, T
  <2>. QED
      BY <1>7 DEF Surjection
<1>. QED
    BY <1>8

\* Where two strings differ first, or one ends.
Code(s, n) == IF n \in 1 .. Len(s) THEN s[n] + 1 ELSE 0
Differ(s, t, n) == /\ n \in Nat \ {0} /\ Code(s, n) < Code(t, n)
                   /\ \A m \in 1 .. n - 1 : Code(s, m) = Code(t, m)

LEMMA SubSeqIs ==
    ASSUME NEW s \in Seq(Nat), NEW n \in 0 .. Len(s)
    PROVE  /\ SubSeq(s, 1, n) \in Seq(Nat) /\ Len(SubSeq(s, 1, n)) = n
           /\ \A m \in 1 .. n : SubSeq(s, 1, n)[m] = s[m]
<1>1. 1 \in Int /\ n \in Int /\ Len(s) \in Nat /\ n \in Nat /\ n <= Len(s)
    OBVIOUS
<1> DEFINE t == SubSeq(s, 1, n)
<1>2. /\ t \in Seq(Nat)
      /\ Len(t) = IF 1 <= n THEN n - 1 + 1 ELSE 0
      /\ \A i \in 1 .. n - 1 + 1 : t[i] = s[1 + i - 1]
    BY <1>1, SubSeqProperties
<1>3. n - 1 + 1 = n /\ (IF 1 <= n THEN n - 1 + 1 ELSE 0) = n /\ \A i \in 1 .. n : 1 + i - 1 = i
    BY <1>1
<1> HIDE DEF t
<1>4. t \in Seq(Nat) /\ Len(t) = n /\ \A m \in 1 .. n : t[m] = s[m]
    BY <1>2, <1>3
<1>. QED
    BY <1>4 DEF t

LEMMA SameBefore ==
    ASSUME NEW s \in Seq(Nat), NEW t \in Seq(Nat), NEW n \in 0 .. Len(s), n <= Len(t)
    PROVE  SubSeq(s, 1, n) = SubSeq(t, 1, n) <=> \A m \in 1 .. n : s[m] = t[m]
<1> DEFINE a == SubSeq(s, 1, n)
           b == SubSeq(t, 1, n)
<1>1. n \in 0 .. Len(t)
    OBVIOUS
<1>2. /\ a \in Seq(Nat) /\ b \in Seq(Nat) /\ Len(a) = n /\ Len(b) = n
      /\ \A m \in 1 .. n : a[m] = s[m] /\ b[m] = t[m]
    BY <1>1, SubSeqIs
<1> HIDE DEF a, b
<1>3. a = b <=> \A m \in 1 .. n : a[m] = b[m]
    BY <1>2, SeqEqual
<1>4. a = b <=> \A m \in 1 .. n : s[m] = t[m]
    BY <1>2, <1>3
<1>. QED
    BY <1>4 DEF a, b

LEMMA LessIs ==
    ASSUME NEW s \in Seq(Nat), NEW t \in Seq(Nat)
    PROVE  Less(s, t) <=> \E n : Differ(s, t, n)
<1>1. Len(s) \in Nat /\ Len(t) \in Nat /\ DOMAIN s = 1 .. Len(s) /\ DOMAIN t = 1 .. Len(t)
    OBVIOUS
<1>2. \A n \in 1 .. Len(s) : s[n] \in Nat
    OBVIOUS
<1>3. \A n \in 1 .. Len(t) : t[n] \in Nat
    OBVIOUS
<1>4. ASSUME IsStrictPrefix(s, t) PROVE Differ(s, t, Len(s) + 1)
  <2>1. Len(s) <= Len(t) /\ SubSeq(s, 1, Len(s)) = SubSeq(t, 1, Len(s)) /\ s # t
      BY <1>4 DEF IsStrictPrefix, IsPrefix
  <2>2. Len(s) \in 0 .. Len(s)
      BY <1>1
  <2>3. \A m \in 1 .. Len(s) : s[m] = t[m]
      BY <2>1, <2>2, SameBefore
  <2>4. Len(s) # Len(t)
      BY <2>1, <2>3, SeqEqual
  <2>5. Len(s) + 1 \in 1 .. Len(t) /\ Len(s) + 1 \notin 1 .. Len(s) /\ (Len(s) + 1) - 1 = Len(s)
    <3>1. \A a, b \in Nat : a <= b /\ a # b =>
             a + 1 \in 1 .. b /\ a + 1 \notin 1 .. a /\ (a + 1) - 1 = a
        OBVIOUS
    <3>2. Len(s) \in Nat /\ Len(t) \in Nat /\ Len(s) <= Len(t) /\ Len(s) # Len(t)
        BY <1>1, <2>1, <2>4
    <3>. QED
        BY <3>1, <3>2
  <2>6. Code(s, Len(s) + 1) < Code(t, Len(s) + 1)
      BY <1>3, <2>5 DEF Code
  <2>7. \A m \in 1 .. Len(s) : m \in 1 .. Len(t)
      BY <1>1, <2>1
  <2>. QED
      BY <1>1, <2>3, <2>5, <2>6, <2>7 DEF Differ, Code
<1>5. ASSUME NEW n \in DOMAIN s \cap DOMAIN t, s[n] < t[n], SubSeq(s, 1, n - 1) = SubSeq(t, 1, n - 1)
      PROVE  Differ(s, t, n)
  <2>1. n \in 1 .. Len(s) /\ n \in 1 .. Len(t) /\ n - 1 \in 0 .. Len(s) /\ n - 1 <= Len(t) /\ n \in Nat \ {0}
      BY <1>1
  <2>2. \A m \in 1 .. n - 1 : s[m] = t[m]
      BY <1>5, <2>1, SameBefore
  <2>3. Code(s, n) < Code(t, n)
      BY <1>2, <1>3, <1>5, <2>1 DEF Code
  <2>4. \A m \in 1 .. n - 1 : m \in 1 .. Len(s) /\ m \in 1 .. Len(t)
      BY <1>1, <2>1
  <2>. QED
      BY <2>1, <2>2, <2>3, <2>4 DEF Differ, Code
<1>6. ASSUME NEW n, Differ(s, t, n) PROVE Less(s, t)
  <2>1. n \in Nat \ {0} /\ Code(s, n) < Code(t, n)
      BY <1>6 DEF Differ
  <2>2. n \in 1 .. Len(t)
    <3> SUFFICES ASSUME n \notin 1 .. Len(t) PROVE FALSE
        OBVIOUS
    <3>1. Code(t, n) = 0 /\ Code(s, n) \in Nat
        BY <1>2 DEF Code
    <3>. QED
        BY <2>1, <3>1
  <2>3. ASSUME NEW m \in 1 .. n - 1 PROVE m \in 1 .. Len(s) /\ m \in 1 .. Len(t) /\ s[m] = t[m]
    <3>1. m \in 1 .. Len(t) /\ Code(s, m) = Code(t, m)
        BY <1>6, <2>1, <2>2 DEF Differ
    <3>2. Code(t, m) = t[m] + 1 /\ t[m] \in Nat
        BY <1>3, <3>1 DEF Code
    <3>3. m \in 1 .. Len(s)
        BY <3>1, <3>2 DEF Code
    <3>4. Code(s, m) = s[m] + 1 /\ s[m] \in Nat
        BY <1>2, <3>3 DEF Code
    <3>5. \A x, y \in Nat : x + 1 = y + 1 => x = y
        OBVIOUS
    <3>6. s[m] + 1 = t[m] + 1
        BY <3>1, <3>2, <3>4
    <3>7. s[m] = t[m]
        BY <3>2, <3>4, <3>5, <3>6
    <3>. QED
        BY <3>1, <3>3, <3>7
  <2>4. n - 1 <= Len(s)
    <3>1. CASE n = 1
        BY <1>1, <3>1
    <3>2. CASE n # 1
      <4>1. n - 1 \in 1 .. n - 1
          BY <2>1, <3>2
      <4>. QED
          BY <1>1, <2>3, <4>1
    <3>. QED
        BY <3>1, <3>2
  <2>5. n - 1 \in 0 .. Len(s) /\ n - 1 <= Len(t)
      BY <1>1, <2>1, <2>2, <2>4
  <2>6. SubSeq(s, 1, n - 1) = SubSeq(t, 1, n - 1)
      BY <2>3, <2>5, SameBefore
  <2>7. CASE n \in 1 .. Len(s)
    <3>1. s[n] < t[n]
        BY <1>2, <1>3, <2>1, <2>2, <2>7 DEF Code
    <3>2. n \in DOMAIN s \cap DOMAIN t
        BY <1>1, <2>2, <2>7
    <3>. QED
        BY <2>6, <3>1, <3>2 DEF Less
  <2>8. CASE n \notin 1 .. Len(s)
    <3>1. Len(s) = n - 1 /\ Len(s) <= Len(t) /\ Len(s) # Len(t)
      <4>1. \A a, b, c \in Nat : c \in 1 .. b /\ c \notin 1 .. a /\ c - 1 <= a =>
               a = c - 1 /\ a <= b /\ a # b
          OBVIOUS
      <4>2. Len(s) \in Nat /\ Len(t) \in Nat /\ n \in Nat
          BY <1>1, <2>1
      <4>. QED
          BY <4>1, <4>2, <2>2, <2>4, <2>8
    <3>2. IsStrictPrefix(s, t)
        BY <2>6, <3>1 DEF IsStrictPrefix, IsPrefix
    <3>. QED
        BY <3>2 DEF Less
  <2>. QED
      BY <2>7, <2>8
<1>. QED
    BY <1>4, <1>5, <1>6 DEF Less

\* strcmp puts all strings in a row.
LEMMA DifferOrders ==
    ASSUME NEW S, S \subseteq Seq(Nat), NEW R,
           \A s, t \in S : <<s, t>> \in R <=> \E n : Differ(s, t, n)
    PROVE  Orders(R, S)
<1>1. \A s, t \in S : <<s, t>> \in R <=> \E n : Differ(s, t, n)
    OBVIOUS
<1>2. ASSUME NEW s \in S, NEW n \in Nat PROVE Code(s, n) \in Nat
  <2>1. \A m \in 1 .. Len(s) : s[m] \in Nat
      OBVIOUS
  <2>. QED
      BY <2>1 DEF Code
<1>3. ASSUME NEW s \in S PROVE <<s, s>> \notin R
  <2>1. \A n \in Nat : ~(Code(s, n) < Code(s, n))
      BY <1>2
  <2>. QED
      BY <1>1, <2>1 DEF Differ
<1>4. ASSUME NEW s \in S, NEW t \in S, s # t PROVE <<s, t>> \in R \/ <<t, s>> \in R
  <2> DEFINE D == {n \in Nat \ {0} : Code(s, n) # Code(t, n)}
  <2>1. D # {}
    <3> SUFFICES ASSUME D = {} PROVE FALSE
        OBVIOUS
    <3>1. \A n \in Nat \ {0} : Code(s, n) = Code(t, n)
        OBVIOUS
    <3> HIDE DEF D
    <3>2. s \in Seq(Nat) /\ t \in Seq(Nat) /\ Len(s) \in Nat /\ Len(t) \in Nat
        OBVIOUS
    <3>3. ASSUME NEW a \in Seq(Nat), NEW n \in Nat \ {0}
          PROVE  /\ n \in 1 .. Len(a) => Code(a, n) = a[n] + 1 /\ a[n] \in Nat
                 /\ n \notin 1 .. Len(a) => Code(a, n) = 0
      <4>1. \A m \in 1 .. Len(a) : a[m] \in Nat
          OBVIOUS
      <4>. QED
          BY <4>1 DEF Code
    <3>4. \A n \in Nat \ {0} : n \in 1 .. Len(s) <=> n \in 1 .. Len(t)
      <4> SUFFICES ASSUME NEW n \in Nat \ {0} PROVE n \in 1 .. Len(s) <=> n \in 1 .. Len(t)
          OBVIOUS
      <4>1. Code(s, n) = Code(t, n)
          BY <3>1
      <4>2. \A x \in Nat : x + 1 # 0
          OBVIOUS
      <4>3. n \in 1 .. Len(s) => Code(s, n) # 0
          BY <3>2, <3>3, <4>2
      <4>4. n \in 1 .. Len(t) => Code(t, n) # 0
          BY <3>2, <3>3, <4>2
      <4>. QED
          BY <3>2, <3>3, <4>1, <4>3, <4>4
    <3>5. Len(s) = Len(t)
      <4>1. Len(s) \in Nat \ {0} => Len(s) <= Len(t)
          BY <3>2, <3>4
      <4>2. Len(t) \in Nat \ {0} => Len(t) <= Len(s)
          BY <3>2, <3>4
      <4>. QED
          BY <3>2, <4>1, <4>2
    <3>6. ASSUME NEW n \in 1 .. Len(s) PROVE s[n] = t[n]
      <4>1. n \in Nat \ {0} /\ n \in 1 .. Len(t)
          BY <3>2, <3>5
      <4>2. s[n] + 1 = t[n] + 1 /\ s[n] \in Nat /\ t[n] \in Nat
          BY <3>1, <3>2, <3>3, <4>1
      <4>. QED
          BY <4>2
    <3>. QED
        BY <1>4, <3>2, <3>5, <3>6, SeqEqual
  <2>2. PICK n \in D : \A m \in D : n <= m
    <3>1. D \subseteq Nat
        OBVIOUS
    <3> HIDE DEF D
    <3>. QED
        BY <2>1, <3>1, LeastExists
  <2>3. \A m \in 1 .. n - 1 : Code(s, m) = Code(t, m)
    <3> SUFFICES ASSUME NEW m \in 1 .. n - 1, Code(s, m) # Code(t, m) PROVE FALSE
        OBVIOUS
    <3>1. m \in D /\ ~(n <= m)
        OBVIOUS
    <3>. QED
        BY <2>2, <3>1
  <2>4. Code(s, n) < Code(t, n) \/ Code(t, n) < Code(s, n)
    <3>1. Code(s, n) \in Nat /\ Code(t, n) \in Nat /\ Code(s, n) # Code(t, n)
        BY <1>2
    <3>. QED
        BY <3>1
  <2>5. Differ(s, t, n) \/ Differ(t, s, n)
      BY <2>3, <2>4 DEF Differ
  <2>. QED
      BY <1>1, <2>5
<1>5. ASSUME NEW s \in S, NEW t \in S, NEW u \in S, <<s, t>> \in R, <<t, u>> \in R
      PROVE  <<s, u>> \in R
  <2>1. PICK m : Differ(s, t, m)
      BY <1>1, <1>5
  <2>2. PICK n : Differ(t, u, n)
      BY <1>1, <1>5
  <2>3. m \in Nat \ {0} /\ n \in Nat \ {0}
      BY <2>1, <2>2 DEF Differ
  <2>4. \A k \in Nat : Code(s, k) \in Nat /\ Code(t, k) \in Nat /\ Code(u, k) \in Nat
      BY <1>2
  <2>5. CASE m < n
    <3>1. m \in 1 .. n - 1 /\ \A k \in 1 .. m - 1 : k \in 1 .. n - 1
        BY <2>3, <2>5
    <3>2. Differ(s, u, m)
        BY <2>1, <2>2, <3>1 DEF Differ
    <3>. QED
        BY <1>1, <3>2
  <2>6. CASE m = n
    <3>1. Code(s, m) < Code(u, m)
        BY <2>1, <2>2, <2>3, <2>4, <2>6 DEF Differ
    <3>2. Differ(s, u, m)
        BY <2>1, <2>2, <2>6, <3>1 DEF Differ
    <3>. QED
        BY <1>1, <3>2
  <2>7. CASE n < m
    <3>1. n \in 1 .. m - 1 /\ \A k \in 1 .. n - 1 : k \in 1 .. m - 1
        BY <2>3, <2>7
    <3>2. Differ(s, u, n)
        BY <2>1, <2>2, <3>1 DEF Differ
    <3>. QED
        BY <1>1, <3>2
  <2>. QED
      BY <2>3, <2>5, <2>6, <2>7
<1>. QED
    BY <1>3, <1>4, <1>5 DEF Orders

LEMMA LessOrders ==
    ASSUME NEW S, S \subseteq Seq(Nat)
    PROVE  Orders({p \in S \X S : Less(p[1], p[2])}, S)
<1> DEFINE R == {p \in S \X S : Less(p[1], p[2])}
<1>1. \A s, t \in S : <<s, t>> \in R <=> \E n : Differ(s, t, n)
  <2>1. ASSUME NEW s \in S, NEW t \in S PROVE <<s, t>> \in R <=> Less(s, t)
      OBVIOUS
  <2>2. ASSUME NEW s \in S, NEW t \in S PROVE Less(s, t) <=> \E n : Differ(s, t, n)
      BY LessIs
  <2> HIDE DEF R
  <2>. QED
      BY <2>1, <2>2
<1> HIDE DEF R
<1>2. Orders(R, S)
    BY <1>1, DifferOrders
<1>. QED
    BY <1>2 DEF R

LEMMA InOrderIs ==
    ASSUME NEW names, IsFiniteSet(names), names \subseteq Seq(Nat), names # {}
    PROVE  /\ InOrder(names) \in Seq(names) /\ Len(InOrder(names)) = Cardinality(names)
           /\ Cardinality(names) \in Nat \ {0}
<1> DEFINE N == Cardinality(names)
           R == {p \in names \X names : Less(p[1], p[2])}
           Before(f) == {g \in names : Less(g, f)}
           Place(n) == CHOOSE f \in names : Cardinality(Before(f)) = n - 1
<1>1. N \in Nat \ {0}
    BY FS_CardinalityType, FS_EmptySet
<1>2. \A f \in names : Ahead(R, names, f) = Before(f)
    BY DEF Ahead
<1>3. Orders(R, names)
    BY LessOrders
<1> HIDE DEF R
<1>4. \A k \in 0 .. N - 1 : \E f \in names : Cardinality(Ahead(R, names, f)) = k
    BY <1>3, RankExists
<1> HIDE DEF N
<1>5. \A k \in 0 .. N - 1 : \E f \in names : Cardinality(Before(f)) = k
    BY <1>2, <1>4
<1> HIDE DEF Before
<1>6. ASSUME NEW n \in 1 .. N PROVE Place(n) \in names
  <2>1. n - 1 \in 0 .. N - 1
      BY <1>1
  <2>2. \E f \in names : Cardinality(Before(f)) = n - 1
      BY <1>5, <2>1
  <2>. QED
      BY <2>2, Zenon
<1>7. InOrder(names) = [n \in 1 .. N |-> Place(n)]
    BY DEF InOrder, Before, N
<1> HIDE DEF Place
<1>8. InOrder(names) \in [1 .. N -> names]
    BY <1>6, <1>7
<1>9. InOrder(names) \in Seq(names) /\ Len(InOrder(names)) = N
    BY <1>1, <1>8, IsSeq
<1>. QED
    BY <1>1, <1>9 DEF N

LEMMA CommonLeadIs ==
    ASSUME NEW first \in Seq(Nat), NEW last \in Seq(Nat)
    PROVE  CommonLead(first, last) \in Seq(Nat)
<1> DEFINE S == {n \in 0 .. Len(first) : IsPrefix(SubSeq(first, 1, n), last)}
           L == Len(first)
           Left == {k \in 0 .. L : L - k \in S}
           t == SubSeq(first, 1, 0)
<1>1. L \in Nat /\ Len(last) \in Nat
    OBVIOUS
<1>2. 0 \in S
  <2>1. t \in Seq(Nat) /\ Len(t) = 0
      BY <1>1, SubSeqIs
  <2> HIDE DEF t
  <2>2. SubSeq(t, 1, 0) = SubSeq(last, 1, 0)
      BY <1>1, <2>1, SameBefore
  <2>3. IsPrefix(t, last)
      BY <1>1, <2>1, <2>2 DEF IsPrefix
  <2>. QED
      BY <1>1, <2>3 DEF t
<1>3. L \in Left /\ Left \subseteq Nat /\ S \subseteq 0 .. L
  <2>1. L - L = 0 /\ L \in 0 .. L
      BY <1>1
  <2>. QED
      BY <1>2, <2>1
<1> HIDE DEF S, L
<1>4. PICK k : k \in Left /\ \A m \in Left : k <= m
  <2> HIDE DEF Left
  <2>. QED
      BY <1>3, LeastExists
<1>5. L - k \in S /\ \A m \in S : L - k >= m
  <2>1. ASSUME NEW m \in S PROVE L - m \in Left /\ m \in Nat
    <3>1. m \in 0 .. L /\ L - m \in 0 .. L /\ L - (L - m) = m
        BY <1>1, <1>3
    <3>. QED
        BY <3>1
  <2>2. \A m \in S : k <= L - m /\ m \in Nat
      BY <1>4, <2>1
  <2>. QED
      BY <1>1, <1>4, <2>2
<1>6. Max(S) \in S
    BY <1>5, Zenon DEF Max
<1>7. Max(S) \in 0 .. Len(first)
    BY <1>3, <1>6 DEF L
<1>8. CommonLead(first, last) = SubSeq(first, 1, Max(S))
    BY DEF CommonLead, S
<1>. QED
    BY <1>7, <1>8, SubSeqIs

LEMMA QuotedIs ==
    ASSUME NEW token \in Seq(Nat)
    PROVE  Quoted(token) \in Seq(Nat)
<1> DEFINE ss == [n \in 1 .. Len(token) |-> Doubled(token[n])]
<1>1. Len(token) \in Nat /\ DOMAIN token = 1 .. Len(token) /\ Quote \in Nat
    BY DEF Quote
<1>2. ASSUME NEW n \in 1 .. Len(token) PROVE Doubled(token[n]) \in Seq(Nat)
  <2>1. token[n] \in Nat
      OBVIOUS
  <2>. QED
      BY <1>1, <2>1 DEF Doubled
<1>3. ss \in [1 .. Len(token) -> Seq(Nat)]
    BY <1>2
<1>4. ss = [n \in DOMAIN token |-> Doubled(token[n])]
    BY <1>1
<1> HIDE DEF ss
<1>5. ss \in Seq(Seq(Nat))
    BY <1>1, <1>3, IsSeq
<1>6. FlattenSeq(ss) \in Seq(Nat)
    BY <1>5, FlattenIs
<1> DEFINE flat == FlattenSeq(ss)
<1>7. Quoted(token) = IF NeedsQuotes(token) THEN <<Quote>> \o flat \o <<Quote>> ELSE token
    BY <1>4 DEF Quoted
<1> HIDE DEF flat
<1>8. <<Quote>> \o flat \o <<Quote>> \in Seq(Nat)
    BY <1>1, <1>6 DEF flat
<1>. QED
    BY <1>7, <1>8

\* What completion writes are characters.
LEMMA AnswerIs ==
    ASSUME NEW names, IsFiniteSet(names), names \subseteq Seq(Nat), names # {}
    PROVE  Abs(Answer(names))[1] \in Seq(Nat)
<1> DEFINE sorted == InOrder(names)
           lst    == AddAll(NewList, sorted)
           x      == Quoted(CommonLead(Head(sorted), Last(sorted)))
<1>1. sorted \in Seq(names) /\ Len(sorted) \in Nat \ {0}
    BY InOrderIs
<1> HIDE DEF sorted
<1>2. Head(sorted) \in names /\ Last(sorted) \in names
  <2>1. \A n \in 1 .. Len(sorted) : sorted[n] \in names
      BY <1>1
  <2>2. 1 \in 1 .. Len(sorted) /\ Len(sorted) \in 1 .. Len(sorted)
      BY <1>1
  <2>3. Head(sorted) = sorted[1]
      BY <1>1
  <2>. QED
      BY <2>1, <2>2, <2>3 DEF Last
<1>3. CommonLead(Head(sorted), Last(sorted)) \in Seq(Nat)
    BY <1>2, CommonLeadIs
<1>4. x \in Seq(Nat)
    BY <1>3, QuotedIs
<1>5. IsList(lst) /\ Fits(lst)
    BY <1>1, AddAllHolds DEF Holds
<1>6. lst.count + 1 \in Nat /\ 1 \in 1 .. lst.count + 1
  <2>1. lst.count \in Nat
      BY <1>5 DEF Fits
  <2>. QED
      BY <2>1
<1>7. Answer(names) = ListPrepend(lst, x)
    BY DEF Answer, sorted
<1> HIDE DEF lst, x
<1>8. Abs(ListPrepend(lst, x))[1] = x
    BY <1>5, <1>6, PrependHolds
<1>. QED
    BY <1>4, <1>7, <1>8

-----------------------------------------------------------------------------
\* The line consists of characters, typed or written by completion.
LineInv == line \in Seq(Nat)

LEMMA LineInit == Init => LineInv
    BY DEF Init, LineInv

LEMMA LineStep == LineInv /\ [Next]_vars => LineInv'
<1> SUFFICES ASSUME line \in Seq(Nat), [Next]_vars PROVE line' \in Seq(Nat)
    BY DEF LineInv
<1>1. CASE Type
  <2>1. PICK c \in Letters : line' = Append(line, c)
      BY <1>1 DEF Type, Typed
  <2>2. c \in Nat
      BY LineAssumption
  <2>. QED
      BY <2>1, <2>2
<1>2. CASE Tab
  <2> DEFINE M(s) == Candidates(line, s, Len(line) + 1, connected)
  <2>1. PICK start \in 1 .. Len(line) + 1 :
           /\ M(start) # {}
           /\ \E sp \in {<<>>} \cup (IF Answer(M(start)).count = 2 THEN {<<Blank>>} ELSE {}) :
                 line' = SubSeq(line, 1, start - 1) \o Abs(Answer(M(start)))[1] \o sp
      BY <1>2 DEF Tab
  <2> DEFINE names == M(start)
             w == Abs(Answer(names))[1]
             front == SubSeq(line, 1, start - 1)
  <2>2. IsFiniteSet(names) /\ names \subseteq Seq(Nat)
    <3>1. names \subseteq Commands \cup Local \cup Remote
        BY DEF Candidates, CmdMatch, FileMatch, FilesFor
    <3>. QED
        BY <3>1, CandidatesFinite, CompletionAssumption
  <2>3. names # {}
      BY <2>1
  <2>4. w \in Seq(Nat)
    <3> HIDE DEF names
    <3>. QED
        BY <2>2, <2>3, AnswerIs
  <2>5. front \in Seq(Nat)
    <3>1. start - 1 \in 0 .. Len(line)
      <4>1. Len(line) \in Nat
          OBVIOUS
      <4>. QED
          BY <4>1
    <3>. QED
        BY <3>1, SubSeqIs
  <2>6. PICK sp : sp \in {<<>>, <<Blank>>} /\ line' = front \o w \o sp
      BY <2>1
  <2> HIDE DEF w, front
  <2>7. sp \in Seq(Nat)
    <3>1. 32 \in Nat
        OBVIOUS
    <3>2. \A c \in Nat : <<>> \in Seq(Nat) /\ <<c>> \in Seq(Nat)
        OBVIOUS
    <3>3. <<>> \in Seq(Nat) /\ <<Blank>> \in Seq(Nat)
        BY <3>1, <3>2 DEF Blank
    <3>. QED
        BY <2>6, <3>3, Zenon
  <2>. QED
      BY <2>4, <2>5, <2>6, <2>7
<1>3. CASE Enter
    BY <1>3 DEF Enter, Typed
<1>4. CASE GlobWord
    BY <1>4 DEF GlobWord, typed
<1>5. CASE CommandBegins
    BY <1>5 DEF CommandBegins, typed
<1>6. CASE TakeOption
    BY <1>6 DEF TakeOption, typed
<1>7. CASE TakeOperand
    BY <1>7 DEF TakeOperand, typed
<1>8. CASE UseOperand
    BY <1>8 DEF UseOperand, typed
<1>9. CASE Prompt
    BY <1>9 DEF Prompt, typed
<1>10. CASE UNCHANGED vars
    BY <1>10 DEF vars, typed
<1>. QED
    BY <1>1, <1>2, <1>3, <1>4, <1>5, <1>6, <1>7, <1>8, <1>9, <1>10 DEF Next

(***************************************************************************)
(* Every line, whatever its length and however its quotes are placed, is   *)
(* read as it is quoted: as the tokens that the parity of the quotes       *)
(* before each character gives, or as none if the quotes are unbalanced;   *)
(* and isquoted tells readline of every character whether it is inside     *)
(* quotes (tokenize_generic and isquoted, parsecl.c:109-240).              *)
(***************************************************************************)
THEOREM LinesReadAsQuoted == Spec => []ReadAsQuoted
<1>1. LineInv => ReadAsQuoted
    BY LineReadAsQuoted DEF LineInv
<1>. QED
    BY LineInit, LineStep, <1>1, PTL DEF Spec

-----------------------------------------------------------------------------
(* The components of paths, and what the operators of Path make of them. *)

Comps == DOMAIN Length
Names == Comps \ {"", ".", ".."}

LEMMA CompsIs ==
    /\ "" \in Comps /\ "." \in Comps /\ ".." \in Comps
    /\ \A c \in Comps : Length[c] \in Nat
    /\ Length[""] = 0 /\ MaxPath \in Nat \ {0}
<1>1. Length \in [Comps -> Nat]
    BY PathAssumption DEF Comps
<1>. QED
    BY <1>1, PathAssumption DEF Comps

LEMMA StrlenIs ==
    /\ Pth!Strlen(<<>>) = 0
    /\ \A p \in Seq(Comps) :
          /\ Pth!Strlen(p) \in Nat
          /\ \A c \in Comps : Pth!Strlen(Append(p, c)) = Pth!Strlen(p) + 1 + Length[c]
<1> DEFINE f == [x \in Nat \X Comps |-> x[1] + 1 + Length[x[2]]]
<1>1. \A c \in Comps : Length[c] \in Nat
    BY CompsIs
<1>2. Takes(f, 0, Nat, Comps)
    BY <1>1 DEF Takes
<1>3. \A a \in Nat, c \in Comps : f[<<a, c>>] = a + 1 + Length[c]
    OBVIOUS
<1> HIDE DEF f
<1>4. ASSUME NEW p \in Seq(Comps) PROVE Pth!Strlen(p) = Folded(f, 0, p)
  <2> DEFINE Is(h) == h = [n \in 0 .. Len(p) |->
                             IF n = 0 THEN 0 ELSE h[n - 1] + 1 + Length[p[n]]]
             s == CHOOSE h : Is(h)
  <2>1. Len(p) \in Nat /\ \A n \in 1 .. Len(p) : p[n] \in Comps
      OBVIOUS
  <2>2. PICK h \in [0 .. Len(p) -> Nat] : FoldsTo(h, f, 0, p)
      BY <1>2, FoldExists
  <2>3. Is(h)
    <3> DEFINE g == [n \in 0 .. Len(p) |->
                       IF n = 0 THEN 0 ELSE h[n - 1] + 1 + Length[p[n]]]
    <3>1. ASSUME NEW n \in 0 .. Len(p) PROVE h[n] = g[n]
      <4>1. CASE n = 0
          BY <2>2, <4>1 DEF FoldsTo
      <4>2. CASE n # 0
        <5>1. n \in 1 .. Len(p) /\ n - 1 \in 0 .. Len(p)
            BY <2>1, <4>2
        <5>2. h[n] = f[<<h[n - 1], p[n]>>]
            BY <2>2, <5>1 DEF FoldsTo
        <5>3. h[n - 1] \in Nat /\ p[n] \in Comps
            BY <2>1, <5>1
        <5>. QED
            BY <1>3, <4>2, <5>2, <5>3
      <4>. QED
          BY <4>1, <4>2
    <3> HIDE DEF g
    <3>2. h = g
        BY <3>1 DEF g
    <3>. QED
        BY <3>2 DEF g
  <2>4. Is(s)
      BY <2>3, Zenon
  <2>5. Pth!Strlen(p) = s[Len(p)]
      BY DEF Pth!Strlen
  <2> HIDE DEF s
  <2>6. s[0] = 0
      BY <2>1, <2>4
  <2>7. ASSUME NEW n \in 1 .. Len(p), s[n - 1] \in Nat
        PROVE  s[n] = f[<<s[n - 1], p[n]>>]
    <3>1. n \in 0 .. Len(p) /\ n # 0 /\ p[n] \in Comps
        BY <2>1
    <3>2. s[n] = s[n - 1] + 1 + Length[p[n]]
        BY <2>4, <3>1
    <3>3. f[<<s[n - 1], p[n]>>] = s[n - 1] + 1 + Length[p[n]]
        BY <1>3, <2>7, <3>1
    <3>. QED
        BY <3>2, <3>3, Zenon
  <2>8. s[Len(p)] = Folded(f, 0, p)
      BY <1>2, <2>6, <2>7, IsFold
  <2>. QED
      BY <2>5, <2>8
<1>5. /\ Folded(f, 0, <<>>) = 0
      /\ \A p \in Seq(Comps) :
            /\ Folded(f, 0, p) \in Nat
            /\ \A c \in Comps : Folded(f, 0, Append(p, c)) = f[<<Folded(f, 0, p), c>>]
    BY <1>2, FoldIs
<1>6. <<>> \in Seq(Comps) /\ \A p \in Seq(Comps), c \in Comps : Append(p, c) \in Seq(Comps)
    OBVIOUS
<1>7. ASSUME NEW p \in Seq(Comps), NEW c \in Comps
      PROVE  Pth!Strlen(Append(p, c)) = Pth!Strlen(p) + 1 + Length[c]
  <2>1. Pth!Strlen(Append(p, c)) = f[<<Folded(f, 0, p), c>>]
      BY <1>4, <1>5, <1>6
  <2>2. Folded(f, 0, p) \in Nat /\ Pth!Strlen(p) = Folded(f, 0, p)
      BY <1>4, <1>5
  <2>. QED
      BY <1>3, <2>1, <2>2
<1>. QED
    BY <1>4, <1>5, <1>6, <1>7

LEMMA OthersIs ==
    ASSUME NEW d
    PROVE  /\ Pth!Others(<<>>, d) = <<>>
           /\ \A p \in Seq(Comps) :
                 /\ Pth!Others(p, d) \in Seq(Comps)
                 /\ \A c \in Comps : Pth!Others(Append(p, c), d) = 
                        IF c = d THEN Pth!Others(p, d) ELSE Append(Pth!Others(p, d), c)
<1> DEFINE f == [x \in Seq(Comps) \X Comps |-> IF x[2] = d THEN x[1] ELSE Append(x[1], x[2])]
<1>1. Takes(f, <<>>, Seq(Comps), Comps)
    BY SMT DEF Takes
<1>2. \A a \in Seq(Comps), c \in Comps : f[<<a, c>>] = IF c = d THEN a ELSE Append(a, c)
    OBVIOUS
<1> HIDE DEF f
<1>3. ASSUME NEW p \in Seq(Comps) PROVE Pth!Others(p, d) = Folded(f, <<>>, p)
  <2> DEFINE Is(h) == h = [n \in 0 .. Len(p) |-> IF n = 0 THEN <<>> ELSE 
                             IF p[n] = d THEN h[n - 1] ELSE Append(h[n - 1], p[n])]
             s == CHOOSE h : Is(h)
  <2>1. Len(p) \in Nat /\ \A n \in 1 .. Len(p) : p[n] \in Comps
      OBVIOUS
  <2>2. PICK h \in [0 .. Len(p) -> Seq(Comps)] : FoldsTo(h, f, <<>>, p)
      BY <1>1, FoldExists
  <2>3. Is(h)
    <3> DEFINE g == [n \in 0 .. Len(p) |-> IF n = 0 THEN <<>> ELSE 
                             IF p[n] = d THEN h[n - 1] ELSE Append(h[n - 1], p[n])]
    <3>1. ASSUME NEW n \in 0 .. Len(p) PROVE h[n] = g[n]
      <4>1. CASE n = 0
          BY <2>2, <4>1 DEF FoldsTo
      <4>2. CASE n # 0
        <5>1. n \in 1 .. Len(p) /\ n - 1 \in 0 .. Len(p)
            BY <2>1, <4>2
        <5>2. h[n] = f[<<h[n - 1], p[n]>>]
            BY <2>2, <5>1 DEF FoldsTo
        <5>3. h[n - 1] \in Seq(Comps) /\ p[n] \in Comps
            BY <2>1, <5>1
        <5>. QED
            BY <1>2, <4>2, <5>2, <5>3
      <4>. QED
          BY <4>1, <4>2
    <3> HIDE DEF g
    <3>2. h = g
        BY <3>1 DEF g
    <3>. QED
        BY <3>2 DEF g
  <2>4. Is(s)
      BY <2>3, Zenon
  <2>5. Pth!Others(p, d) = s[Len(p)]
      BY DEF Pth!Others
  <2> HIDE DEF s
  <2>6. s[0] = <<>>
      BY <2>1, <2>4
  <2>7. ASSUME NEW n \in 1 .. Len(p), s[n - 1] \in Seq(Comps)
        PROVE  s[n] = f[<<s[n - 1], p[n]>>]
    <3>1. n \in 0 .. Len(p) /\ n # 0 /\ p[n] \in Comps
        BY <2>1
    <3>2. s[n] = IF p[n] = d THEN s[n - 1] ELSE Append(s[n - 1], p[n])
        BY <2>4, <3>1
    <3>. QED
        BY <1>2, <2>7, <3>1, <3>2
  <2>8. s[Len(p)] = Folded(f, <<>>, p)
      BY <1>1, <2>6, <2>7, IsFold
  <2>. QED
      BY <2>5, <2>8
<1>4. /\ Folded(f, <<>>, <<>>) = <<>>
      /\ \A p \in Seq(Comps) :
            /\ Folded(f, <<>>, p) \in Seq(Comps)
            /\ \A c \in Comps : Folded(f, <<>>, Append(p, c)) = f[<<Folded(f, <<>>, p), c>>]
    BY <1>1, FoldIs
<1>5. <<>> \in Seq(Comps) /\ \A p \in Seq(Comps), c \in Comps : Append(p, c) \in Seq(Comps)
    OBVIOUS
<1>6. ASSUME NEW p \in Seq(Comps), NEW c \in Comps
      PROVE  Pth!Others(Append(p, c), d) = 
                        IF c = d THEN Pth!Others(p, d) ELSE Append(Pth!Others(p, d), c)
  <2>1. Pth!Others(Append(p, c), d) = f[<<Folded(f, <<>>, p), c>>]
      BY <1>3, <1>4, <1>5
  <2>2. Folded(f, <<>>, p) \in Seq(Comps) /\ Pth!Others(p, d) = Folded(f, <<>>, p)
      BY <1>3, <1>4
  <2>. QED
      BY <1>2, <2>1, <2>2
<1>. QED
    BY <1>3, <1>4, <1>5, <1>6


LEMMA StepIs ==
    ASSUME NEW from \in Seq(Comps), NEW c \in Comps
    PROVE  Pth!Step(from, c) \in Seq(Comps)
<1>1. SubSeq(from, 1, Len(from) - 1) \in Seq(Comps)
  <2>1. CASE from = <<>>
      BY <2>1
  <2>2. CASE from # <<>>
      BY <2>2, Shorter
  <2>. QED
      BY <2>1, <2>2
<1>2. Append(from, c) \in Seq(Comps)
    OBVIOUS
<1>. QED
    BY <1>1, <1>2 DEF Pth!Step

LEMMA WayIs ==
    ASSUME NEW from \in Seq(Comps)
    PROVE  /\ Pth!Way(from, <<>>) = from
           /\ \A p \in Seq(Comps) :
                 /\ Pth!Way(from, p) \in Seq(Comps)
                 /\ \A c \in Comps : Pth!Way(from, Append(p, c)) = Pth!Step(Pth!Way(from, p), c)
<1> DEFINE f == [x \in Seq(Comps) \X Comps |-> Pth!Step(x[1], x[2])]
<1>1. \A a \in Seq(Comps), c \in Comps : Pth!Step(a, c) \in Seq(Comps)
    BY StepIs
<1>2. Takes(f, from, Seq(Comps), Comps)
    BY <1>1 DEF Takes
<1>3. \A a \in Seq(Comps), c \in Comps : f[<<a, c>>] = Pth!Step(a, c)
    OBVIOUS
<1> HIDE DEF f
<1>4. ASSUME NEW p \in Seq(Comps) PROVE Pth!Way(from, p) = Folded(f, from, p)
  <2> DEFINE Is(h) == h = [n \in 0 .. Len(p) |-> IF n = 0 THEN from ELSE Pth!Step(h[n - 1], p[n])]
             s == CHOOSE h : Is(h)
  <2>1. Len(p) \in Nat /\ \A n \in 1 .. Len(p) : p[n] \in Comps
      OBVIOUS
  <2>2. PICK h \in [0 .. Len(p) -> Seq(Comps)] : FoldsTo(h, f, from, p)
      BY <1>2, FoldExists
  <2>3. Is(h)
    <3> DEFINE g == [n \in 0 .. Len(p) |-> IF n = 0 THEN from ELSE Pth!Step(h[n - 1], p[n])]
    <3>1. ASSUME NEW n \in 0 .. Len(p) PROVE h[n] = g[n]
      <4>1. CASE n = 0
          BY <2>2, <4>1 DEF FoldsTo
      <4>2. CASE n # 0
        <5>1. n \in 1 .. Len(p) /\ n - 1 \in 0 .. Len(p)
            BY <2>1, <4>2
        <5>2. h[n] = f[<<h[n - 1], p[n]>>]
            BY <2>2, <5>1 DEF FoldsTo
        <5>3. h[n - 1] \in Seq(Comps) /\ p[n] \in Comps
            BY <2>1, <5>1
        <5>. QED
            BY <1>3, <4>2, <5>2, <5>3
      <4>. QED
          BY <4>1, <4>2
    <3> HIDE DEF g
    <3>2. h = g
        BY <3>1 DEF g
    <3>. QED
        BY <3>2 DEF g
  <2>4. Is(s)
      BY <2>3, Zenon
  <2>5. Pth!Way(from, p) = s[Len(p)]
      BY DEF Pth!Way
  <2> HIDE DEF s
  <2>6. s[0] = from
      BY <2>1, <2>4
  <2>7. ASSUME NEW n \in 1 .. Len(p), s[n - 1] \in Seq(Comps)
        PROVE  s[n] = f[<<s[n - 1], p[n]>>]
    <3>1. n \in 0 .. Len(p) /\ n # 0 /\ p[n] \in Comps
        BY <2>1
    <3>2. s[n] = Pth!Step(s[n - 1], p[n])
        BY <2>4, <3>1
    <3>. QED
        BY <1>3, <2>7, <3>1, <3>2
  <2>8. s[Len(p)] = Folded(f, from, p)
      BY <1>2, <2>6, <2>7, IsFold
  <2>. QED
      BY <2>5, <2>8
<1>5. /\ Folded(f, from, <<>>) = from
      /\ \A p \in Seq(Comps) :
            /\ Folded(f, from, p) \in Seq(Comps)
            /\ \A c \in Comps : Folded(f, from, Append(p, c)) = f[<<Folded(f, from, p), c>>]
    BY <1>2, FoldIs
<1>6. <<>> \in Seq(Comps) /\ \A p \in Seq(Comps), c \in Comps : Append(p, c) \in Seq(Comps)
    OBVIOUS
<1>7. ASSUME NEW p \in Seq(Comps), NEW c \in Comps
      PROVE  Pth!Way(from, Append(p, c)) = Pth!Step(Pth!Way(from, p), c)
  <2>1. Pth!Way(from, Append(p, c)) = f[<<Folded(f, from, p), c>>]
      BY <1>4, <1>5, <1>6
  <2>2. Folded(f, from, p) \in Seq(Comps) /\ Pth!Way(from, p) = Folded(f, from, p)
      BY <1>4, <1>5
  <2>. QED
      BY <1>3, <2>1, <2>2
<1>. QED
    BY <1>4, <1>5, <1>6, <1>7

LEMMA NamesIs == Names \subseteq Comps /\ Seq(Names) \subseteq Seq(Comps)
<1>1. Names \subseteq Comps
    BY DEF Names
<1>2. ASSUME NEW s \in Seq(Names) PROVE s \in Seq(Comps)
    BY <1>1
<1>. QED
    BY <1>1, <1>2

\* One way after the other.
LEMMA WayBehind ==
    ASSUME NEW from \in Seq(Comps), NEW p \in Seq(Comps), NEW q \in Seq(Comps)
    PROVE  Pth!Way(from, p \o q) = Pth!Way(Pth!Way(from, p), q)
<1> DEFINE mid == Pth!Way(from, p)
           T == {s \in Seq(Comps) : Pth!Way(from, p \o s) = Pth!Way(mid, s)}
<1>1. mid \in Seq(Comps)
    BY WayIs
<1> HIDE DEF mid
<1>2. <<>> \in T
  <2>1. p \o <<>> = p /\ <<>> \in Seq(Comps)
      OBVIOUS
  <2>. QED
      BY <1>1, <2>1, WayIs DEF mid
<1>3. ASSUME NEW s \in Seq(Comps), s \in T, NEW x \in Comps PROVE Append(s, x) \in T
  <2> DEFINE u == p \o s
  <2>1. p \o Append(s, x) = Append(u, x) /\ u \in Seq(Comps) /\ Append(s, x) \in Seq(Comps)
      OBVIOUS
  <2>2. Pth!Way(from, u) = Pth!Way(mid, s)
      BY <1>3
  <2> HIDE DEF u
  <2>3. Pth!Way(from, Append(u, x)) = Pth!Step(Pth!Way(from, u), x)
      BY <2>1, WayIs
  <2>4. Pth!Way(mid, Append(s, x)) = Pth!Step(Pth!Way(mid, s), x)
      BY <1>1, WayIs
  <2>. QED
      BY <2>1, <2>2, <2>3, <2>4
<1>4. Seq(Comps) \subseteq T
  <2> HIDE DEF T
  <2>. QED
      BY <1>2, <1>3, SeqInduction
<1>. QED
    BY <1>4 DEF mid

\* One step more from the root.
LEMMA WayOn ==
    ASSUME NEW p \in Seq(Comps), NEW c \in Comps
    PROVE  Pth!Way(<<>>, Append(p, c)) = Pth!Step(Pth!Way(<<>>, p), c)
<1>1. <<>> \in Seq(Comps)
    OBVIOUS
<1>. QED
    BY <1>1, WayIs

\* A way along names leads where they say.
LEMMA WayNames ==
    ASSUME NEW p \in Seq(Names)
    PROVE  Pth!Way(<<>>, p) = p
<1> DEFINE T == {s \in Seq(Names) : Pth!Way(<<>>, s) = s}
<1>1. <<>> \in Seq(Comps) /\ <<>> \in Seq(Names)
    OBVIOUS
<1>2. <<>> \in T
    BY <1>1, WayIs
<1>3. ASSUME NEW s \in Seq(Names), s \in T, NEW x \in Names PROVE Append(s, x) \in T
  <2>1. s \in Seq(Comps) /\ x \in Comps /\ x \notin {"", "."} /\ x # ".."
      BY NamesIs DEF Names
  <2>2. Pth!Way(<<>>, Append(s, x)) = Pth!Step(s, x)
    <3>1. Pth!Way(<<>>, s) = s
        BY <1>3
    <3>2. Pth!Way(<<>>, Append(s, x)) = Pth!Step(Pth!Way(<<>>, s), x)
        BY <2>1, WayOn
    <3>. QED
        BY <3>1, <3>2
  <2>3. Pth!Step(s, x) = Append(s, x)
      BY <2>1 DEF Pth!Step
  <2>. QED
      BY <2>2, <2>3
<1>4. Seq(Names) \subseteq T
  <2> HIDE DEF T
  <2>. QED
      BY <1>2, <1>3, SeqInduction
<1>. QED
    BY <1>4

\* There are neither dots nor empty names in a directory.
LEMMA StepNames ==
    ASSUME NEW from \in Seq(Names), NEW c \in Comps
    PROVE  /\ Pth!Step(from, c) \in Seq(Names)
           /\ Pth!Strlen(Pth!Step(from, c)) <= Pth!Strlen(from) + 1 + Length[c]
<1>1. from \in Seq(Comps) /\ Pth!Strlen(from) \in Nat /\ Length[c] \in Nat
    BY NamesIs, StrlenIs, CompsIs
<1>2. CASE c \in {"", "."}
  <2>1. Pth!Step(from, c) = from
      BY <1>2 DEF Pth!Step
  <2>. QED
      BY <1>1, <2>1
<1>3. CASE c = ".."
  <2> DEFINE t == SubSeq(from, 1, Len(from) - 1)
  <2>1. Pth!Step(from, c) = t
      BY <1>3 DEF Pth!Step
  <2>2. CASE from = <<>>
    <3>1. t = from
        BY <2>2
    <3> HIDE DEF t
    <3>. QED
        BY <1>1, <2>1, <3>1
  <2>3. CASE from # <<>>
    <3>1. t \in Seq(Names) /\ from[Len(from)] \in Names /\ from = Append(t, from[Len(from)])
        BY <2>3, Shorter
    <3> HIDE DEF t
    <3>2. t \in Seq(Comps) /\ from[Len(from)] \in Comps
        BY <3>1, NamesIs
    <3>3. /\ Pth!Strlen(from) = Pth!Strlen(t) + 1 + Length[from[Len(from)]]
          /\ Pth!Strlen(t) \in Nat /\ Length[from[Len(from)]] \in Nat
        BY <3>1, <3>2, StrlenIs, CompsIs
    <3>. QED
        BY <1>1, <2>1, <3>1, <3>3
  <2>. QED
      BY <2>2, <2>3
<1>4. CASE c \notin {"", ".", ".."}
  <2>1. c \in Names /\ Pth!Step(from, c) = Append(from, c)
      BY <1>4 DEF Names, Pth!Step
  <2>2. Pth!Strlen(Append(from, c)) = Pth!Strlen(from) + 1 + Length[c]
      BY <1>1, StrlenIs
  <2>. QED
      BY <1>1, <2>1, <2>2
<1>. QED
    BY <1>2, <1>3, <1>4

LEMMA WayShort ==
    ASSUME NEW from \in Seq(Names), NEW p \in Seq(Comps)
    PROVE  /\ Pth!Way(from, p) \in Seq(Names)
           /\ Pth!Strlen(Pth!Way(from, p)) <= Pth!Strlen(from) + Pth!Strlen(p)
<1> DEFINE Short(s) == /\ Pth!Way(from, s) \in Seq(Names)
                       /\ Pth!Strlen(Pth!Way(from, s)) <= Pth!Strlen(from) + Pth!Strlen(s)
           T == {s \in Seq(Comps) : Short(s)}
<1>1. from \in Seq(Comps) /\ Pth!Strlen(from) \in Nat
    BY NamesIs, StrlenIs
<1>2. <<>> \in T
  <2>1. Pth!Way(from, <<>>) = from /\ Pth!Strlen(<<>>) = 0 /\ <<>> \in Seq(Comps)
      BY <1>1, WayIs, StrlenIs
  <2>. QED
      BY <1>1, <2>1
<1>3. ASSUME NEW s \in Seq(Comps), s \in T, NEW x \in Comps PROVE Append(s, x) \in T
  <2> DEFINE w == Pth!Way(from, s)
  <2>1. w \in Seq(Names) /\ Pth!Strlen(w) <= Pth!Strlen(from) + Pth!Strlen(s)
      BY <1>3
  <2>2. Append(s, x) \in Seq(Comps) /\ Pth!Way(from, Append(s, x)) = Pth!Step(w, x)
      BY <1>1, WayIs
  <2>3. Pth!Strlen(Append(s, x)) = Pth!Strlen(s) + 1 + Length[x] /\ Pth!Strlen(s) \in Nat
      BY StrlenIs
  <2> HIDE DEF w
  <2>4. /\ Pth!Step(w, x) \in Seq(Names)
        /\ Pth!Strlen(Pth!Step(w, x)) <= Pth!Strlen(w) + 1 + Length[x]
      BY <2>1, StepNames
  <2>5. w \in Seq(Comps) /\ Pth!Step(w, x) \in Seq(Comps)
      BY <2>1, <2>4, NamesIs
  <2>6. Pth!Strlen(w) \in Nat /\ Pth!Strlen(Pth!Step(w, x)) \in Nat /\ Length[x] \in Nat
      BY <2>5, StrlenIs, CompsIs
  <2>7. Short(Append(s, x))
    <3>1. \A a, b, c, d, e \in Nat : a <= b + c /\ d <= a + 1 + e => d <= b + (c + 1 + e)
        OBVIOUS
    <3>2. Pth!Strlen(Pth!Step(w, x)) <= Pth!Strlen(from) + (Pth!Strlen(s) + 1 + Length[x])
        BY <1>1, <2>1, <2>3, <2>4, <2>6, <3>1
    <3>. QED
        BY <2>2, <2>3, <2>4, <3>2
  <2>. QED
      BY <2>2, <2>7
<1>4. Seq(Comps) \subseteq T
  <2> HIDE DEF T
  <2>. QED
      BY <1>2, <1>3, SeqInduction
<1>. QED
    BY <1>4

\* Nothing but the component in question is left out, and it leads nowhere.
LEMMA OthersKeep ==
    ASSUME NEW E, E \subseteq Comps, NEW p \in Seq(E), NEW d
    PROVE  /\ Pth!Others(p, d) \in Seq(E \ {d})
           /\ d \in {"", "."} => Pth!Way(<<>>, Pth!Others(p, d)) = Pth!Way(<<>>, p)
<1> DEFINE Good(s) == /\ Pth!Others(s, d) \in Seq(E \ {d})
                      /\ d \in {"", "."} => Pth!Way(<<>>, Pth!Others(s, d)) = Pth!Way(<<>>, s)
           T == {s \in Seq(E) : Good(s)}
<1>1. <<>> \in Seq(Comps) /\ <<>> \in Seq(E) /\ <<>> \in Seq(E \ {d})
    OBVIOUS
<1>2. <<>> \in T
    BY <1>1, OthersIs
<1>3. ASSUME NEW s \in Seq(E), s \in T, NEW x \in E PROVE Append(s, x) \in T
  <2> DEFINE o == Pth!Others(s, d)
  <2>1. s \in Seq(Comps) /\ x \in Comps /\ Append(s, x) \in Seq(E)
      OBVIOUS
  <2>2. /\ Pth!Others(Append(s, x), d) = IF x = d THEN o ELSE Append(o, x)
        /\ o \in Seq(Comps)
      BY <2>1, OthersIs
  <2>3. Pth!Way(<<>>, Append(s, x)) = Pth!Step(Pth!Way(<<>>, s), x)
      BY <2>1, WayOn
  <2>4. o \in Seq(E \ {d}) /\ (d \in {"", "."} => Pth!Way(<<>>, o) = Pth!Way(<<>>, s))
      BY <1>3
  <2> HIDE DEF o
  <2>5. CASE x = d
    <3>1. d \in {"", "."} => Pth!Way(<<>>, Append(s, x)) = Pth!Way(<<>>, s)
        BY <2>3, <2>5 DEF Pth!Step
    <3>2. Pth!Others(Append(s, x), d) = o
        BY <2>2, <2>5
    <3>3. Good(Append(s, x))
        BY <2>4, <3>1, <3>2
    <3>. QED
        BY <2>1, <3>3
  <2>6. CASE x # d
    <3>1. Pth!Way(<<>>, Append(o, x)) = Pth!Step(Pth!Way(<<>>, o), x)
        BY <2>1, <2>2, WayOn
    <3>2. Append(o, x) \in Seq(E \ {d})
      <4> DEFINE F == E \ {d}
      <4>1. o \in Seq(F) /\ x \in F
          BY <2>4, <2>6
      <4> HIDE DEF F
      <4>2. Append(o, x) \in Seq(F)
          BY <4>1
      <4>. QED
          BY <4>2 DEF F
    <3>3. Pth!Others(Append(s, x), d) = Append(o, x)
        BY <2>2, <2>6
    <3>4. d \in {"", "."} => Pth!Way(<<>>, Append(o, x)) = Pth!Way(<<>>, Append(s, x))
        BY <2>3, <2>4, <3>1
    <3>5. Good(Append(s, x))
        BY <3>2, <3>3, <3>4
    <3>. QED
        BY <2>1, <3>5
  <2>. QED
      BY <2>5, <2>6
<1>4. Seq(E) \subseteq T
  <2> HIDE DEF T
  <2>. QED
      BY <1>2, <1>3, SeqInduction
<1>. QED
    BY <1>4

\* A sequence and its two parts.
LEMMA PartsIs ==
    ASSUME NEW D, NEW s \in Seq(D), NEW i \in 0 .. Len(s)
    PROVE  LET a == SubSeq(s, 1, i)
               b == SubSeq(s, i + 1, Len(s))
           IN  /\ a \in Seq(D) /\ Len(a) = i /\ \A j \in 1 .. i : a[j] = s[j]
               /\ b \in Seq(D) /\ Len(b) = Len(s) - i
               /\ \A j \in 1 .. Len(s) - i : b[j] = s[i + j]
               /\ a \o b = s
<1> DEFINE a == SubSeq(s, 1, i)
           b == SubSeq(s, i + 1, Len(s))
<1>1. /\ Len(s) \in Nat /\ i \in Nat /\ i <= Len(s) /\ \A j \in 1 .. Len(s) : s[j] \in D
      /\ 1 \in Int /\ i \in Int /\ i + 1 \in Int /\ Len(s) \in Int
    OBVIOUS
<1>2. a \in Seq(D) /\ Len(a) = i /\ \A j \in 1 .. i : a[j] = s[j]
  <2>1. /\ \A j \in 1 .. i : s[j] \in D
        /\ (IF 1 <= i THEN i - 1 + 1 ELSE 0) = i
        /\ i - 1 + 1 = i /\ \A j \in 1 .. i : 1 + j - 1 = j
      BY <1>1
  <2>2. /\ a \in Seq(D) /\ Len(a) = IF 1 <= i THEN i - 1 + 1 ELSE 0
        /\ \A j \in 1 .. i - 1 + 1 : a[j] = s[1 + j - 1]
      BY <1>1, <2>1, SubSeqProperties
  <2> HIDE DEF a
  <2>. QED
      BY <2>1, <2>2
<1>3. /\ b \in Seq(D) /\ Len(b) = Len(s) - i
      /\ \A j \in 1 .. Len(s) - i : b[j] = s[i + j]
  <2> DEFINE k == i + 1
             n == Len(s)
  <2>1. /\ \A j \in k .. n : s[j] \in D
        /\ (IF k <= n THEN n - k + 1 ELSE 0) = n - i
        /\ n - k + 1 = n - i /\ k \in Int /\ n \in Int
        /\ \A j \in 1 .. n - i : k + j - 1 = i + j
      BY <1>1
  <2>2. b = SubSeq(s, k, n)
      OBVIOUS
  <2> HIDE DEF b, k, n
  <2>3. /\ b \in Seq(D) /\ Len(b) = IF k <= n THEN n - k + 1 ELSE 0
        /\ \A j \in 1 .. n - k + 1 : b[j] = s[k + j - 1]
      BY <2>2, <2>1, SubSeqProperties
  <2>4. /\ b \in Seq(D) /\ Len(b) = n - i
        /\ \A j \in 1 .. n - i : b[j] = s[i + j]
      BY <2>1, <2>3
  <2>. QED
      BY <2>4 DEF n
<1>4. a \o b = s
  <2> HIDE DEF a, b
  <2>1. a \in Seq(D) /\ b \in Seq(D)
      BY <1>2, <1>3
  <2>2. /\ a \o b \in Seq(D) /\ Len(a \o b) = Len(a) + Len(b)
        /\ \A j \in 1 .. Len(a) : (a \o b)[j] = a[j]
        /\ \A j \in Len(a) + 1 .. Len(a) + Len(b) : (a \o b)[j] = b[j - Len(a)]
      BY <2>1, ConcatIs
  <2>3. a \o b \in Seq(D) /\ Len(a \o b) = Len(s)
      BY <1>1, <1>2, <1>3, <2>2
  <2>4. ASSUME NEW j \in 1 .. Len(s) PROVE (a \o b)[j] = s[j]
    <3>1. CASE j <= i
      <4>1. j \in 1 .. Len(a)
          BY <1>1, <1>2, <3>1
      <4>. QED
          BY <1>2, <2>2, <4>1
    <3>2. CASE j > i
      <4>1. j - i \in 1 .. Len(s) - i /\ i + (j - i) = j
          BY <1>1, <3>2
      <4>2. (a \o b)[j] = b[j - i]
        <5>1. j \in Len(a) + 1 .. Len(a) + Len(b) /\ j - Len(a) = j - i
            BY <1>1, <1>2, <1>3, <3>2
        <5>. QED
            BY <2>2, <5>1
      <4>. QED
          BY <1>3, <4>1, <4>2
    <3>3. j <= i \/ j > i
        BY <1>1
    <3>. QED
        BY <3>1, <3>2, <3>3, Zenon
  <2>. QED
      BY <2>3, <2>4, SeqEqual
<1>. QED
    BY <1>2, <1>3, <1>4

LEMMA EndsIs ==
    ASSUME NEW D, NEW s \in Seq(D), s # <<>>
    PROVE  /\ Pth!Front(s) \in Seq(D) /\ Pth!Last(s) \in D /\ Pth!Last(s) = s[Len(s)]
           /\ s = Append(Pth!Front(s), Pth!Last(s)) /\ Len(Pth!Front(s)) = Len(s) - 1
           /\ \A i \in 1 .. Len(s) - 1 : Pth!Front(s)[i] = s[i]
<1>1. Pth!Front(s) = SubSeq(s, 1, Len(s) - 1) /\ Pth!Last(s) = s[Len(s)]
    BY DEF Pth!Front, Pth!Last
<1>. QED
    BY <1>1, Shorter

LEMMA EndsOf ==
    ASSUME NEW D, NEW s \in Seq(D), NEW x \in D
    PROVE  /\ Pth!Front(Append(s, x)) = s /\ Pth!Last(Append(s, x)) = x
           /\ Append(s, x) \in Seq(D) /\ Append(s, x) # <<>>
<1> DEFINE u == Append(s, x)
           t == Pth!Front(u)
<1>1. u \in Seq(D) /\ Len(u) = Len(s) + 1 /\ u[Len(s) + 1] = x /\ u # <<>>
      /\ Len(s) \in Nat /\ \A i \in 1 .. Len(s) : u[i] = s[i]
    OBVIOUS
<1> HIDE DEF u
<1>2. t \in Seq(D) /\ Len(t) = Len(u) - 1 /\ Pth!Last(u) = u[Len(u)]
      /\ \A i \in 1 .. Len(u) - 1 : t[i] = u[i]
    BY <1>1, EndsIs
<1> HIDE DEF t
<1>3. Len(t) = Len(s) /\ \A i \in 1 .. Len(s) : t[i] = s[i]
    BY <1>1, <1>2
<1>4. t = s
    BY <1>2, <1>3, SeqEqual
<1>. QED
    BY <1>1, <1>2, <1>4 DEF t, u

(***************************************************************************)
(* What evalpath works on after `//' and `/./' are gone.                   *)
(***************************************************************************)
Form(p) ==
    /\ p \in Seq(Comps) /\ p # <<>> /\ p[Len(p)] # "."
    /\ \A i \in 1 .. Len(p) - 1 : p[i] \notin {"", "."}
Same(q, p) == Pth!Way(<<>>, q) = Pth!Way(<<>>, p)

LEMMA SeqIn ==
    ASSUME NEW A, NEW B, A \subseteq B, NEW s \in Seq(A)
    PROVE  s \in Seq(B)
  OBVIOUS

LEMMA RootIs == <<>> \in Seq(Comps) /\ <<>> \in Seq(Names)
  OBVIOUS

LEMMA SameNext ==
    ASSUME NEW s \in Seq(Comps), NEW t \in Seq(Comps), Same(s, t), NEW x \in Comps,
           NEW y \in Comps, x = y \/ {x, y} \subseteq {"", "."}
    PROVE  Same(Append(s, x), Append(t, y))
<1> DEFINE w == Pth!Way(<<>>, s)
<1>1. /\ Pth!Way(<<>>, Append(s, x)) = Pth!Step(w, x)
      /\ Pth!Way(<<>>, Append(t, y)) = Pth!Step(Pth!Way(<<>>, t), y)
    BY WayOn
<1>2. Pth!Way(<<>>, t) = w
    BY DEF Same
<1> HIDE DEF w
<1>3. Pth!Step(w, x) = Pth!Step(w, y)
  <2>1. CASE x = y
      BY <2>1
  <2>2. CASE x \in {"", "."} /\ y \in {"", "."}
      BY <2>2 DEF Pth!Step
  <2>. QED
      BY <2>1, <2>2
<1>. QED
    BY <1>1, <1>2, <1>3 DEF Same

LEMMA WithoutIs ==
    ASSUME NEW E, E \subseteq Comps, NEW t \in Seq(E), NEW x \in Comps, NEW d \in {"", "."}
    PROVE  \E o \in Seq(E \ {d}) : /\ Pth!Without(Append(t, x), d) = Append(o, x)
                                   /\ Same(Append(o, x), Append(t, x))
<1> DEFINE o == Pth!Others(t, d)
<1>1. t \in Seq(Comps)
    BY SeqIn
<1>2. Pth!Without(Append(t, x), d) = Append(o, x)
    BY <1>1, EndsOf DEF Pth!Without
<1>3. o \in Seq(E \ {d}) /\ Same(o, t)
    BY OthersKeep DEF Same
<1>4. o \in Seq(Comps)
    BY <1>1, OthersIs
<1> HIDE DEF o
<1>5. Same(Append(o, x), Append(t, x))
    BY <1>1, <1>3, <1>4, SameNext
<1>. QED
    BY <1>2, <1>3, <1>5

LEMMA CleanIs ==
    ASSUME NEW p \in Seq(Comps), p # <<>>
    PROVE  LET q == Pth!EndDot(Pth!Without(Pth!Without(p, ""), "."))
           IN  Form(q) /\ Same(q, p)
<1> DEFINE E == Comps \ {""}
           F == E \ {"."}
<1>1. E \subseteq Comps /\ F \subseteq Comps /\ Comps \subseteq Comps /\ "" \in Comps
    BY CompsIs
<1>2. PICK t \in Seq(Comps), x \in Comps : p = Append(t, x)
  <2>1. /\ Pth!Front(p) \in Seq(Comps) /\ Pth!Last(p) \in Comps
        /\ p = Append(Pth!Front(p), Pth!Last(p))
      BY EndsIs
  <2>. QED
      BY <2>1
<1>3. PICK a \in Seq(E) : Pth!Without(p, "") = Append(a, x) /\ Same(Append(a, x), p)
    BY <1>1, <1>2, WithoutIs
<1> HIDE DEF E
<1>4. PICK b \in Seq(F) : /\ Pth!Without(Append(a, x), ".") = Append(b, x)
                          /\ Same(Append(b, x), Append(a, x))
    BY <1>1, <1>3, WithoutIs
<1>5. b \in Seq(Comps)
    BY <1>1, SeqIn
<1>6. Pth!Last(Append(b, x)) = x /\ Pth!Front(Append(b, x)) = b
    BY <1>5, EndsOf
<1> DEFINE y == IF x = "." THEN "" ELSE x
           q == Append(b, y)
<1>7. Pth!EndDot(Append(b, x)) = q
    BY <1>6 DEF Pth!EndDot
<1>8. y \in Comps /\ y # "."
    BY <1>1
<1>9. Form(q)
  <2>1. /\ q \in Seq(Comps) /\ q # <<>> /\ Len(q) = Len(b) + 1 /\ Len(b) \in Nat
        /\ q[Len(b) + 1] = y /\ \A i \in 1 .. Len(b) : q[i] = b[i]
    <3> HIDE DEF y
    <3>1. y \in Comps
        BY <1>8
    <3>. QED
        BY <1>5, <3>1, AppendIs, EndsOf
  <2>2. \A i \in 1 .. Len(b) : b[i] \in F
      OBVIOUS
  <2>3. \A c \in F : c \notin {"", "."}
      BY DEF E
  <2> HIDE DEF q, y, F
  <2>4. Len(q) - 1 = Len(b)
      BY <2>1
  <2>. QED
      BY <1>8, <2>1, <2>2, <2>3, <2>4 DEF Form
<1>10. Same(q, Append(b, x))
  <2>1. y = x \/ {y, x} \subseteq {"", "."}
      OBVIOUS
  <2>2. Same(b, b)
      BY DEF Same
  <2> HIDE DEF y
  <2>. QED
      BY <1>5, <1>8, <2>1, <2>2, SameNext
<1>. QED
    BY <1>3, <1>4, <1>7, <1>9, <1>10 DEF Same

\* Behind names, `..' takes the last of them away.
LEMMA UpIs ==
    ASSUME NEW p \in Seq(Comps), NEW i \in 1 .. Len(p), p[i] = "..",
           \A j \in 1 .. i - 1 : p[j] \in Names
    PROVE  LET b == SubSeq(p, 1, Pth!Before(i))
           IN  /\ b \in Seq(Names) /\ Len(b) = Pth!Before(i)
               /\ \A j \in 1 .. Pth!Before(i) : b[j] = p[j]
               /\ Pth!Way(<<>>, SubSeq(p, 1, i)) = b
<1> DEFINE k == Pth!Before(i)
           b == SubSeq(p, 1, k)
           m == i - 1
           a == SubSeq(p, 1, m)
           u == SubSeq(p, 1, i)
<1>1. /\ Len(p) \in Nat /\ i \in 0 .. Len(p) /\ m \in 0 .. Len(p) /\ k \in 0 .. Len(p)
      /\ m + 1 = i /\ k = IF m = 0 THEN 0 ELSE m - 1
    BY DEF Pth!Before
<1>2. u \in Seq(Comps) /\ Len(u) = i /\ \A j \in 1 .. i : u[j] = p[j]
    BY <1>1, PartsIs
<1>3. a \in Seq(Comps) /\ Len(a) = m /\ \A j \in 1 .. m : a[j] = p[j]
  <2> HIDE DEF m
  <2>. QED
      BY <1>1, PartsIs
<1>4. b \in Seq(Comps) /\ Len(b) = k /\ \A j \in 1 .. k : b[j] = p[j]
  <2> HIDE DEF k
  <2>. QED
      BY <1>1, PartsIs
<1>5. \A j \in 1 .. m : p[j] \in Names
    OBVIOUS
<1> HIDE DEF k, m, a, b, u
<1>6. a \in Seq(Names) /\ b \in Seq(Names)
  <2>1. \A j \in 1 .. Len(a) : a[j] \in Names
      BY <1>1, <1>3, <1>5
  <2>2. \A j \in 1 .. Len(b) : b[j] \in Names
      BY <1>1, <1>4, <1>5
  <2>. QED
      BY <1>3, <1>4, <2>1, <2>2, SeqNarrow
<1>7. u = Append(a, "..")
  <2> DEFINE w == Append(a, "..")
  <2>1. /\ w \in Seq(Comps) /\ Len(w) = Len(a) + 1 /\ w[Len(a) + 1] = ".."
        /\ \A j \in 1 .. Len(a) : w[j] = a[j]
    <3>1. ".." \in Comps
        BY CompsIs
    <3>. QED
        BY <1>3, <3>1, AppendIs
  <2> HIDE DEF w
  <2>2. Len(w) = i /\ \A j \in 1 .. i : w[j] = u[j]
      BY <1>1, <1>2, <1>3, <2>1
  <2>3. u = w
      BY <1>2, <2>1, <2>2, SeqEqual
  <2>. QED
      BY <2>3 DEF w
<1>8. Pth!Way(<<>>, u) = Pth!Step(Pth!Way(<<>>, a), "..")
  <2>1. ".." \in Comps /\ a \in Seq(Comps)
      BY <1>3, CompsIs
  <2>2. Pth!Way(<<>>, Append(a, "..")) = Pth!Step(Pth!Way(<<>>, a), "..")
      BY <2>1, WayOn
  <2>. QED
      BY <1>7, <2>2
<1>9. Pth!Step(Pth!Way(<<>>, a), "..") = SubSeq(a, 1, Len(a) - 1)
  <2>1. Pth!Way(<<>>, a) = a
      BY <1>6, WayNames
  <2>. QED
      BY <2>1 DEF Pth!Step
<1>10. SubSeq(a, 1, Len(a) - 1) = b
  <2>1. CASE m = 0
    <3>1. a = <<>> /\ b = <<>>
        BY <1>1, <1>3, <1>4, <2>1
    <3>. QED
        BY <3>1
  <2>2. CASE m # 0
    <3> DEFINE t == SubSeq(a, 1, Len(a) - 1)
    <3>1. /\ t \in Seq(Comps) /\ Len(t) = Len(a) - 1
          /\ \A j \in 1 .. Len(a) - 1 : t[j] = a[j]
      <4>1. a # <<>>
          BY <1>3, <2>2
      <4>. QED
          BY <1>3, <4>1, Shorter
    <3> HIDE DEF t
    <3>2. Len(t) = Len(b) /\ \A j \in 1 .. Len(b) : t[j] = b[j]
      <4>1. Len(a) - 1 = k /\ k = Len(b) /\ Len(t) = k
          BY <1>1, <1>3, <1>4, <2>2, <3>1
      <4>2. ASSUME NEW j \in 1 .. k PROVE t[j] = b[j]
        <5>1. j \in 1 .. Len(a) - 1 /\ j \in 1 .. m
            BY <1>1, <1>3, <4>1
        <5>. QED
            BY <1>3, <1>4, <3>1, <5>1
      <4>. QED
          BY <4>1, <4>2
    <3>3. t = b
        BY <1>4, <3>1, <3>2, SeqEqual
    <3>. QED
        BY <3>3 DEF t
  <2>. QED
      BY <2>1, <2>2
<1>. QED
    BY <1>4, <1>6, <1>8, <1>9, <1>10 DEF b, k, u

\* One `..' less, in a path that leads to the same.
LEMMA UpOnceIs ==
    ASSUME NEW p, Form(p)
    PROVE  /\ Form(Pth!UpOnce(p)) /\ Same(Pth!UpOnce(p), p)
           /\ Pth!Ups(p) # {} => Len(Pth!UpOnce(p)) < Len(p)
<1>1. /\ p \in Seq(Comps) /\ p[Len(p)] # "."
      /\ \A j \in 1 .. Len(p) - 1 : p[j] \notin {"", "."}
    BY Zenon DEF Form
<1>2. p \in Seq(Comps) /\ Len(p) \in Nat /\ \A j \in 1 .. Len(p) : p[j] \in Comps
  <2>1. p \in Seq(Comps)
      BY <1>1
  <2>. QED
      BY <2>1
<1>3. CASE Pth!Ups(p) = {}
  <2>1. Pth!UpOnce(p) = p
      BY <1>3 DEF Pth!UpOnce
  <2>. QED
      BY <1>3, <2>1 DEF Same
<1>4. CASE Pth!Ups(p) # {}
  <2> DEFINE First(j) == j \in Pth!Ups(p) /\ \A m \in Pth!Ups(p) : j <= m
             i == CHOOSE j \in Pth!Ups(p) : \A m \in Pth!Ups(p) : j <= m
             k == Pth!Before(i)
             b == SubSeq(p, 1, k)
             r == SubSeq(p, i + 1, Len(p))
             u == SubSeq(p, 1, i)
  <2>1. First(i)
    <3>1. Pth!Ups(p) \subseteq Nat
        BY <1>2 DEF Pth!Ups
    <3>2. \E j \in Pth!Ups(p) : \A m \in Pth!Ups(p) : j <= m
      <4> HIDE DEF First, i
      <4>. QED
          BY <1>4, <3>1, LeastExists
    <3>. QED
        BY <3>2, Zenon
  <2>2. Pth!UpOnce(p) = b \o r
      BY <1>4 DEF Pth!UpOnce
  <2> HIDE DEF i
  <2>3. i \in 1 .. Len(p) - 1 /\ p[i] = ".."
      BY <2>1 DEF Pth!Ups
  <2>4. \A j \in 1 .. i - 1 : p[j] \in Names
    <3> SUFFICES ASSUME NEW j \in 1 .. i - 1 PROVE p[j] \in Names
        OBVIOUS
    <3>1. j \in 1 .. Len(p) /\ j \in 1 .. Len(p) - 1 /\ ~(i <= j)
        BY <1>2, <2>3
    <3>2. p[j] \in Comps /\ p[j] \notin {"", "."}
        BY <1>1, <1>2, <3>1
    <3>3. p[j] # ".."
        BY <2>1, <3>1 DEF Pth!Ups
    <3>. QED
        BY <3>2, <3>3 DEF Names
  <2>5. /\ b \in Seq(Names) /\ Len(b) = k /\ \A j \in 1 .. k : b[j] = p[j]
        /\ Pth!Way(<<>>, u) = b
    <3>1. i \in 1 .. Len(p)
        BY <1>2, <2>3
    <3>. QED
        BY <1>2, <2>3, <2>4, <3>1, UpIs
  <2>6. /\ u \in Seq(Comps) /\ r \in Seq(Comps) /\ Len(r) = Len(p) - i
        /\ (\A j \in 1 .. Len(p) - i : r[j] = p[i + j]) /\ u \o r = p
    <3>1. i \in 0 .. Len(p)
        BY <1>2, <2>3
    <3>. QED
        BY <1>2, <3>1, PartsIs
  <2>7. k \in Nat /\ k <= i - 1
      BY <2>3 DEF Pth!Before
  <2> HIDE DEF k, b, r, u
  <2>8. b \in Seq(Comps)
      BY <2>5, NamesIs
  <2> DEFINE q == b \o r
  <2>9. /\ q \in Seq(Comps) /\ Len(q) = Len(b) + Len(r)
        /\ \A j \in 1 .. Len(b) : q[j] = b[j]
        /\ \A j \in Len(b) + 1 .. Len(b) + Len(r) : q[j] = r[j - Len(b)]
      BY <2>6, <2>8, ConcatIs
  <2>10. Same(q, p)
    <3> DEFINE none == <<>>
    <3>0. none \in Seq(Comps)
        BY RootIs
    <3> HIDE DEF none
    <3>1. Pth!Way(none, b \o r) = Pth!Way(Pth!Way(none, b), r)
        BY <2>6, <2>8, <3>0, WayBehind
    <3>2. Pth!Way(none, u \o r) = Pth!Way(Pth!Way(none, u), r)
        BY <2>6, <3>0, WayBehind
    <3> USE DEF none
    <3>3. Pth!Way(<<>>, b) = b
        BY <2>5, WayNames
    <3>. QED
        BY <2>5, <2>6, <3>1, <3>2, <3>3 DEF Same
  <2> HIDE DEF q
  <2>11. Len(q) = k + (Len(p) - i) /\ Len(q) \in Nat \ {0} /\ Len(q) < Len(p)
      BY <1>2, <2>3, <2>5, <2>6, <2>7, <2>9
  <2>12. q # <<>>
      BY <2>9, <2>11
  <2>13. ASSUME NEW j \in 1 .. Len(q) - 1 PROVE q[j] \notin {"", "."}
    <3>1. CASE j <= k
      <4>1. j \in 1 .. Len(b) /\ j \in 1 .. k
          BY <2>5, <2>7, <3>1
      <4>2. q[j] = b[j] /\ b[j] \in Names
          BY <2>5, <2>9, <4>1
      <4>. QED
          BY <4>2 DEF Names
    <3>2. CASE j > k
      <4> DEFINE l == i + (j - k)
      <4>1. j \in Len(b) + 1 .. Len(b) + Len(r) /\ j - k \in 1 .. Len(p) - i
            /\ l \in 1 .. Len(p) - 1
          BY <1>2, <2>3, <2>5, <2>6, <2>7, <2>11, <3>2
      <4>2. q[j] = r[j - k] /\ r[j - k] = p[l]
          BY <2>5, <2>6, <2>9, <4>1
      <4> HIDE DEF l
      <4>. QED
          BY <1>1, <4>1, <4>2
    <3>3. j <= k \/ j > k
        BY <2>7
    <3>. QED
        BY <3>1, <3>2, <3>3, Zenon
  <2>14. q[Len(q)] # "."
    <3>1. Len(q) \in Len(b) + 1 .. Len(b) + Len(r) /\ Len(q) - Len(b) = Len(p) - i
          /\ Len(p) - i \in 1 .. Len(p) - i /\ i + (Len(p) - i) = Len(p)
        BY <1>2, <2>3, <2>5, <2>6, <2>7, <2>9, <2>11
    <3>2. q[Len(q)] = r[Len(p) - i] /\ r[Len(p) - i] = p[i + (Len(p) - i)]
        BY <2>6, <2>9, <3>1
    <3>. QED
        BY <1>1, <3>1, <3>2
  <2>15. Form(q)
      BY <2>9, <2>12, <2>13, <2>14 DEF Form
  <2>. QED
      BY <2>2, <2>10, <2>11, <2>15 DEF q
<1>. QED
    BY <1>3, <1>4

LEMMA FormIs ==
    ASSUME NEW p, Form(p)
    PROVE  /\ p \in Seq(Comps) /\ p # <<>> /\ Len(p) \in Nat \ {0} /\ p[Len(p)] # "."
           /\ \A i \in 1 .. Len(p) : p[i] \in Comps
           /\ \A i \in 1 .. Len(p) - 1 : p[i] \notin {"", "."}
<1>1. /\ p \in Seq(Comps) /\ p # <<>> /\ p[Len(p)] # "."
      /\ \A i \in 1 .. Len(p) - 1 : p[i] \notin {"", "."}
    BY Zenon DEF Form
<1>2. Len(p) \in Nat \ {0} /\ \A i \in 1 .. Len(p) : p[i] \in Comps
  <2>1. p \in Seq(Comps) /\ p # <<>>
      BY <1>1
  <2>. QED
      BY <2>1
<1>. QED
    BY <1>1, <1>2

\* As there is one `..' less each time, none is left.
LEMMA AllUpIs ==
    ASSUME NEW p, Form(p)
    PROVE  LET q == Pth!AllUp(p)
           IN  Form(q) /\ Same(q, p) /\ Pth!Ups(q) = {}
<1> DEFINE S == {q \in Seq(Comps) : Form(q) /\ Same(q, p)}
           f == [x \in S \X Comps |-> Pth!UpOnce(x[1])]
<1>1. p \in Seq(Comps) /\ Len(p) \in Nat \ {0} /\ \A i \in 1 .. Len(p) : p[i] \in Comps
    BY FormIs
<1>2. ASSUME NEW q \in S
      PROVE  /\ Pth!UpOnce(q) \in S /\ Len(q) \in Nat \ {0}
             /\ Pth!Ups(q) # {} => Len(Pth!UpOnce(q)) < Len(q)
  <2>1. Form(q) /\ Same(q, p)
      OBVIOUS
  <2>2. /\ Form(Pth!UpOnce(q)) /\ Same(Pth!UpOnce(q), q)
        /\ Pth!Ups(q) # {} => Len(Pth!UpOnce(q)) < Len(q)
      BY <2>1, UpOnceIs
  <2>3. Pth!UpOnce(q) \in Seq(Comps) /\ Len(q) \in Nat \ {0}
      BY <2>1, <2>2, FormIs
  <2>. QED
      BY <2>1, <2>2, <2>3 DEF Same
<1>3. p \in S
    BY <1>1 DEF Same
<1> HIDE DEF S
<1>4. Takes(f, p, S, Comps)
    BY <1>2, <1>3 DEF Takes
<1>5. \A q \in S, c \in Comps : f[<<q, c>>] = Pth!UpOnce(q)
    OBVIOUS
<1> HIDE DEF f
<1>6. Pth!AllUp(p) = Folded(f, p, p)
  <2> DEFINE Is(h) == h = [n \in 0 .. Len(p) |-> IF n = 0 THEN p ELSE Pth!UpOnce(h[n - 1])]
             s == CHOOSE h : Is(h)
  <2>1. PICK h \in [0 .. Len(p) -> S] : FoldsTo(h, f, p, p)
      BY <1>1, <1>4, FoldExists
  <2>2. Is(h)
    <3> DEFINE g == [n \in 0 .. Len(p) |-> IF n = 0 THEN p ELSE Pth!UpOnce(h[n - 1])]
    <3>1. ASSUME NEW n \in 0 .. Len(p) PROVE h[n] = g[n]
      <4>1. CASE n = 0
          BY <2>1, <4>1 DEF FoldsTo
      <4>2. CASE n # 0
        <5>1. n \in 1 .. Len(p) /\ n - 1 \in 0 .. Len(p)
            BY <1>1, <4>2
        <5>2. h[n] = f[<<h[n - 1], p[n]>>]
            BY <2>1, <5>1 DEF FoldsTo
        <5>3. h[n - 1] \in S /\ p[n] \in Comps
            BY <1>1, <5>1
        <5>. QED
            BY <1>5, <4>2, <5>2, <5>3
      <4>. QED
          BY <4>1, <4>2
    <3> HIDE DEF g
    <3>2. h = g
        BY <3>1 DEF g
    <3>. QED
        BY <3>2 DEF g
  <2>3. Is(s)
      BY <2>2, Zenon
  <2>4. Pth!AllUp(p) = s[Len(p)]
      BY DEF Pth!AllUp
  <2> HIDE DEF s
  <2>5. s[0] = p
      BY <1>1, <2>3
  <2>6. ASSUME NEW n \in 1 .. Len(p), s[n - 1] \in S
        PROVE  s[n] = f[<<s[n - 1], p[n]>>]
    <3>1. n \in 0 .. Len(p) /\ n # 0 /\ p[n] \in Comps
        BY <1>1
    <3>2. s[n] = Pth!UpOnce(s[n - 1])
        BY <2>3, <3>1
    <3>. QED
        BY <1>5, <2>6, <3>1, <3>2
  <2>7. s[Len(p)] = Folded(f, p, p)
      BY <1>1, <1>4, <2>5, <2>6, IsFold
  <2>. QED
      BY <2>4, <2>7
<1>7. /\ Folded(f, p, <<>>) = p
      /\ \A s \in Seq(Comps) :
            /\ Folded(f, p, s) \in S
            /\ \A c \in Comps : Folded(f, p, Append(s, c)) = f[<<Folded(f, p, s), c>>]
    BY <1>4, FoldIs
<1> DEFINE Q(s) == Folded(f, p, s)
           Shrunk(s) == Pth!Ups(Q(s)) = {} \/ Len(Q(s)) + Len(s) <= Len(p)
           T == {s \in Seq(Comps) : Shrunk(s)}
<1>8. <<>> \in T
  <2>1. Len(<<>>) = 0 /\ Q(<<>>) = p /\ Len(p) + 0 <= Len(p)
      BY <1>1, <1>7
  <2>2. Shrunk(<<>>)
      BY <2>1
  <2>. QED
      BY <2>2, RootIs
<1>9. ASSUME NEW s \in Seq(Comps), s \in T, NEW x \in Comps PROVE Append(s, x) \in T
  <2> DEFINE q == Q(s)
  <2>1. q \in S /\ Q(Append(s, x)) = Pth!UpOnce(q)
      BY <1>5, <1>7
  <2>2. /\ Append(s, x) \in Seq(Comps) /\ Len(Append(s, x)) = Len(s) + 1 /\ Len(s) \in Nat
      BY AppendIs
  <2>3. Pth!Ups(q) = {} \/ Len(q) + Len(s) <= Len(p)
      BY <1>9
  <2> HIDE DEF q
  <2>4. Shrunk(Append(s, x))
    <3>1. CASE Pth!Ups(q) = {}
      <4>1. Pth!UpOnce(q) = q
          BY <3>1 DEF Pth!UpOnce
      <4>. QED
          BY <2>1, <3>1, <4>1
    <3>2. CASE Pth!Ups(q) # {}
      <4>1. Len(Pth!UpOnce(q)) < Len(q) /\ Len(q) \in Nat /\ Len(Pth!UpOnce(q)) \in Nat
          BY <1>2, <2>1, <3>2
      <4>2. Len(Pth!UpOnce(q)) + (Len(s) + 1) <= Len(p)
          BY <1>1, <2>2, <2>3, <3>2, <4>1
      <4>. QED
          BY <2>1, <2>2, <4>2
    <3>. QED
        BY <3>1, <3>2
  <2>. QED
      BY <2>2, <2>4
<1>10. p \in T
  <2>1. Seq(Comps) \subseteq T
    <3> HIDE DEF T
    <3>. QED
        BY <1>8, <1>9, SeqInduction
  <2> HIDE DEF T
  <2>. QED
      BY <1>1, <2>1
<1>11. Q(p) \in S /\ Shrunk(p)
    BY <1>1, <1>7, <1>10
<1>12. Pth!Ups(Q(p)) = {}
  <2> DEFINE q == Q(p)
  <2>1. Len(q) \in Nat \ {0} /\ (Pth!Ups(q) = {} \/ Len(q) + Len(p) <= Len(p))
      BY <1>2, <1>11
  <2> HIDE DEF q
  <2>2. Pth!Ups(q) = {}
      BY <1>1, <2>1
  <2>. QED
      BY <2>2 DEF q
<1>. QED
    BY <1>6, <1>11, <1>12 DEF S

\* The slash at the end goes, but for the root.
LEMMA SlashIs ==
    ASSUME NEW t \in Seq(Names)
    PROVE  Pth!EndSlash(Append(t, "")) = Pth!AsPath(t)
<1> DEFINE u == Append(t, "")
<1>1. t \in Seq(Comps) /\ "" \in Comps
    BY NamesIs, CompsIs
<1>2. Pth!Front(u) = t /\ Pth!Last(u) = ""
    BY <1>1, EndsOf
<1>3. Len(u) = Len(t) + 1
    BY <1>1, AppendIs
<1>4. CASE t = <<>>
  <2>1. u = <<"">>
      BY <1>4
  <2>2. Len(u) = 1
    <3>1. Len(t) = 0
        BY <1>4
    <3>. QED
        BY <1>3, <3>1
  <2>3. Pth!EndSlash(u) = u
    <3> HIDE DEF u
    <3>. QED
        BY <2>2 DEF Pth!EndSlash
  <2>4. Pth!AsPath(t) = <<"">>
      BY <1>4 DEF Pth!AsPath
  <2>. QED
      BY <2>1, <2>3, <2>4
<1>5. CASE t # <<>>
  <2>1. Len(t) \in Nat \ {0}
      BY <1>5
  <2> HIDE DEF u
  <2>2. Len(u) > 1
      BY <1>3, <2>1
  <2>3. Pth!EndSlash(u) = t
      BY <1>2, <2>2 DEF Pth!EndSlash
  <2>. QED
      BY <1>5, <2>3 DEF Pth!AsPath, u
<1>. QED
    BY <1>4, <1>5

LEMMA EndIs ==
    ASSUME NEW q, Form(q), Pth!Ups(q) = {}
    PROVE  Pth!EndSlash(Pth!EndUp(q)) = Pth!AsPath(Pth!Way(<<>>, q))
<1> DEFINE n == Len(q)
<1>1. /\ q \in Seq(Comps) /\ q # <<>> /\ n \in Nat \ {0} /\ q[n] # "."
      /\ \A i \in 1 .. n : q[i] \in Comps
      /\ \A i \in 1 .. n - 1 : q[i] \notin {"", "."}
    BY FormIs
<1>2. n = Len(q)
    OBVIOUS
<1>3. n \in Nat \ {0} /\ n \in 1 .. n /\ n \in 0 .. n /\ 1 .. n - 1 \subseteq 1 .. n
  <2>1. n \in Nat \ {0}
      BY <1>1, Zenon
  <2> HIDE DEF n
  <2>. QED
      BY <2>1
<1> HIDE DEF n
<1>4. \A i \in 1 .. n - 1 : q[i] \in Names
  <2> SUFFICES ASSUME NEW i \in 1 .. n - 1 PROVE q[i] \in Names
      OBVIOUS
  <2>1. q[i] # ".."
      BY <1>2 DEF Pth!Ups
  <2>2. i \in 1 .. n
      BY <1>3
  <2>. QED
      BY <1>1, <2>1, <2>2 DEF Names
<1> DEFINE t == Pth!Front(q)
           x == Pth!Last(q)
<1>5. /\ t \in Seq(Comps) /\ x \in Comps /\ x = q[n] /\ q = Append(t, x)
      /\ Len(t) = n - 1 /\ \A i \in 1 .. n - 1 : t[i] = q[i]
    BY <1>2, <1>1, EndsIs
<1>6. Pth!Last(q) = x
    OBVIOUS
<1> HIDE DEF t, x
<1>7. t \in Seq(Names)
  <2>1. \A i \in 1 .. Len(t) : t[i] \in Names
      BY <1>4, <1>5
  <2>. QED
      BY <1>5, <2>1, SeqNarrow
<1>8. Pth!Way(<<>>, q) = Pth!Step(t, x)
  <2>1. Pth!Way(<<>>, Append(t, x)) = Pth!Step(Pth!Way(<<>>, t), x)
      BY <1>5, WayOn
  <2>2. Pth!Way(<<>>, t) = t
      BY <1>7, WayNames
  <2>. QED
      BY <1>5, <2>1, <2>2
<1>9. CASE x = ".."
  <2> DEFINE b == SubSeq(q, 1, Pth!Before(n))
  <2>1. Pth!EndUp(q) = b \o <<"">>
      BY <1>2, <1>6, <1>9 DEF Pth!EndUp
  <2>2. b \in Seq(Names) /\ Pth!Way(<<>>, SubSeq(q, 1, n)) = b
    <3>1. n \in 1 .. n /\ q[n] = ".."
        BY <1>3, <1>5, <1>9
    <3>. QED
        BY <1>2, <1>1, <1>4, <3>1, UpIs
  <2>3. SubSeq(q, 1, n) = q
    <3> DEFINE a == SubSeq(q, 1, n)
    <3>1. a \in Seq(Comps) /\ Len(a) = n /\ \A j \in 1 .. n : a[j] = q[j]
      <4>1. q \in Seq(Comps) /\ n \in 0 .. Len(q)
          BY <1>2, <1>1, <1>3
      <4>. QED
          BY <4>1, PartsIs
    <3> HIDE DEF a
    <3>2. a = q
        BY <1>2, <1>1, <3>1, SeqEqual
    <3>. QED
        BY <3>2 DEF a
  <2> HIDE DEF b
  <2>4. b \o <<"">> = Append(b, "")
    <3>1. "" \in Comps /\ b \in Seq(Comps)
        BY <2>2, NamesIs, CompsIs
    <3>. QED
        BY <3>1, AppendBehindOne
  <2>. QED
      BY <2>1, <2>2, <2>3, <2>4, SlashIs
<1>10. CASE x = ""
  <2>1. Pth!EndUp(q) = q
      BY <1>6, <1>10 DEF Pth!EndUp
  <2>2. Pth!Step(t, x) = t
      BY <1>10 DEF Pth!Step
  <2>. QED
      BY <1>5, <1>7, <1>8, <1>10, <2>1, <2>2, SlashIs
<1>11. CASE x \notin {"", ".."}
  <2>1. Pth!EndUp(q) = q
      BY <1>6, <1>11 DEF Pth!EndUp
  <2>2. Pth!EndSlash(q) = q
      BY <1>6, <1>11 DEF Pth!EndSlash
  <2>3. Pth!Step(t, x) = q
      BY <1>1, <1>5, <1>11 DEF Pth!Step
  <2>. QED
      BY <1>1, <1>8, <2>1, <2>2, <2>3 DEF Pth!AsPath
<1>. QED
    BY <1>9, <1>10, <1>11

(***************************************************************************)
(* What evalpath makes of a string is the directory that one comes to by   *)
(* going from one component to the next.                                   *)
(***************************************************************************)
LEMMA RewriteIs ==
    ASSUME NEW p \in Seq(Comps), p # <<>>
    PROVE  Pth!Rewrite(p) = Pth!AsPath(Pth!Way(<<>>, p))
<1> DEFINE q == Pth!EndDot(Pth!Without(Pth!Without(p, ""), "."))
           r == Pth!AllUp(q)
<1>1. Form(q) /\ Same(q, p)
    BY CleanIs
<1>2. Pth!Rewrite(p) = Pth!EndSlash(Pth!EndUp(r))
    BY DEF Pth!Rewrite
<1> HIDE DEF q
<1>3. Form(r) /\ Same(r, q) /\ Pth!Ups(r) = {}
    BY <1>1, AllUpIs
<1> HIDE DEF r
<1>4. Pth!EndSlash(Pth!EndUp(r)) = Pth!AsPath(Pth!Way(<<>>, r))
    BY <1>3, EndIs
<1>. QED
    BY <1>1, <1>2, <1>3, <1>4 DEF Same

LEMMA MaxPathIs == MaxPath \in Nat /\ 1 <= MaxPath
<1>1. MaxPath \in Nat \ {0}
    BY PathAssumption, Zenon
<1>. QED
    BY <1>1

\* The root, as a string.
LEMMA RootString ==
    /\ <<"">> = Append(<<>>, "") /\ "" \in Comps /\ <<"">> \in Seq(Comps)
    /\ Pth!Strlen(<<"">>) = 1 /\ Pth!Strlen(<<>>) = 0 /\ Pth!Way(<<>>, <<"">>) = <<>>
<1>1. <<"">> = Append(<<>>, "")
    OBVIOUS
<1>2. "" \in Comps
    BY CompsIs
<1>3. Append(<<>>, "") \in Seq(Comps)
    BY <1>2, RootIs, AppendIs
<1>4. Pth!Strlen(<<>>) = 0
    BY StrlenIs
<1>5. Length[""] = 0
    BY CompsIs
<1>6. Pth!Strlen(Append(<<>>, "")) = 1
  <2>1. Pth!Strlen(Append(<<>>, "")) = Pth!Strlen(<<>>) + 1 + Length[""]
      BY <1>2, RootIs, StrlenIs
  <2>2. Pth!Strlen(Append(<<>>, "")) = 0 + 1 + 0
      BY <1>4, <1>5, <2>1, Zenon
  <2>3. 0 + 1 + 0 = 1
      OBVIOUS
  <2>. QED
      BY <2>2, <2>3, Zenon
<1>7. Pth!Way(<<>>, Append(<<>>, "")) = <<>>
  <2>1. Pth!Way(<<>>, Append(<<>>, "")) = Pth!Step(Pth!Way(<<>>, <<>>), "")
      BY <1>2, RootIs, WayOn
  <2>2. Pth!Way(<<>>, <<>>) = <<>>
      BY RootIs, WayIs
  <2>3. Pth!Step(<<>>, "") = <<>>
      BY DEF Pth!Step
  <2>. QED
      BY <2>1, <2>2, <2>3
<1>. QED
    BY <1>1, <1>2, <1>3, <1>4, <1>6, <1>7, Zenon

\* evalpath, given the directory one is in and a path of the user.
LEMMA EvalpathIs ==
    ASSUME NEW from \in Seq(Names), NEW new \in Inputs, Pth!Fits(Pth!AsPath(from), new)
    PROVE  LET to == Pth!Walk(from, new)
           IN  /\ to \in Seq(Names) /\ Pth!EvalFits(Pth!AsPath(from), new)
               /\ Pth!Evalpath(Pth!AsPath(from), new) = Pth!AsPath(to)
               /\ Pth!Strlen(Pth!AsPath(to)) <= MaxPath
<1> DEFINE old   == Pth!AsPath(from)
           comps == new.comps
           at0   == IF new.absolute THEN <<>> ELSE from
           to    == Pth!Walk(from, new)
           path0 == Pth!Joined(old, new)
<1>1. new.absolute \in BOOLEAN /\ comps \in Seq(Comps) /\ comps # <<>>
    BY PathAssumption DEF Comps
<1>2. from \in Seq(Comps) /\ at0 \in Seq(Names) /\ at0 \in Seq(Comps)
    BY NamesIs, RootIs
<1>3. to = Pth!Way(at0, comps)
    BY DEF Pth!Walk
<1>4. <<"">> \in Seq(Comps) /\ Pth!Strlen(<<"">>) = 1 /\ Pth!Strlen(<<>>) = 0
    BY RootString
<1>5. old \in Seq(Comps)
    BY <1>2, <1>4 DEF Pth!AsPath
<1>6. Pth!Way(<<>>, old) = from
  <2>1. CASE from = <<>>
    <3>1. old = <<"">>
        BY <2>1 DEF Pth!AsPath
    <3>. QED
        BY <2>1, <3>1, RootString
  <2>2. CASE from # <<>>
    <3>1. old = from
        BY <2>2 DEF Pth!AsPath
    <3>. QED
        BY <3>1, WayNames
  <2>. QED
      BY <2>1, <2>2
<1>7. path0 \in Seq(Comps) /\ path0 # <<>> /\ Pth!Way(<<>>, path0) = to
  <2>1. CASE new.absolute
    <3>1. path0 = comps /\ at0 = <<>>
        BY <2>1 DEF Pth!Joined
    <3>. QED
        BY <1>1, <1>3, <3>1
  <2>2. CASE ~new.absolute
    <3>1. path0 = old \o comps /\ at0 = from
        BY <2>2 DEF Pth!Joined
    <3> HIDE DEF old, comps, path0, at0, to
    <3>2. path0 \in Seq(Comps) /\ Len(path0) = Len(old) + Len(comps)
        BY <1>1, <1>5, <3>1, ConcatIs
    <3>3. Len(comps) \in Nat \ {0} /\ Len(old) \in Nat
        BY <1>1, <1>5
    <3>4. path0 # <<>>
        BY <3>2, <3>3
    <3>5. Pth!Way(<<>>, old \o comps) = Pth!Way(Pth!Way(<<>>, old), comps)
        BY <1>1, <1>5, RootIs, WayBehind
    <3>. QED
        BY <1>3, <1>6, <3>1, <3>2, <3>4, <3>5
  <2>. QED
      BY <1>1, <2>1, <2>2
<1>8. Pth!Rewrite(path0) = Pth!AsPath(to)
  <2> HIDE DEF path0, to
  <2>. QED
      BY <1>7, RewriteIs
<1>9. /\ to \in Seq(Names) /\ Pth!Strlen(to) \in Nat
      /\ Pth!Strlen(to) <= Pth!Strlen(at0) + Pth!Strlen(comps)
      /\ Pth!Strlen(at0) \in Nat /\ Pth!Strlen(comps) \in Nat /\ Pth!Strlen(old) \in Nat
  <2> HIDE DEF at0, comps, to, old
  <2>1. /\ to \in Seq(Names)
        /\ Pth!Strlen(to) <= Pth!Strlen(at0) + Pth!Strlen(comps)
      BY <1>1, <1>2, <1>3, WayShort
  <2>2. to \in Seq(Comps)
      BY <2>1, NamesIs
  <2>. QED
      BY <1>1, <1>2, <1>5, <2>1, <2>2, StrlenIs
<1>10. Pth!Strlen(at0) + Pth!Strlen(comps) <= MaxPath
  <2>1. Pth!Strlen(old) + 1 + (Pth!Strlen(comps) - (IF new.absolute THEN 0 ELSE 1)) <= MaxPath
      BY DEF Pth!Fits, Pth!NewLength
  <2>2. CASE new.absolute
    <3>1. at0 = <<>> /\ Pth!Strlen(<<>>) = 0
        BY <2>2, StrlenIs
    <3>2. Pth!Strlen(old) + 1 + (Pth!Strlen(comps) - 0) <= MaxPath
        BY <2>1, <2>2
    <3>3. Pth!Strlen(at0) = 0
        BY <3>1
    <3> HIDE DEF at0, comps, to, old
    <3>. QED
        BY <1>9, <3>2, <3>3, MaxPathIs
  <2>3. CASE ~new.absolute
    <3>1. at0 = from
        BY <2>3
    <3>2. Pth!Strlen(old) + 1 + (Pth!Strlen(comps) - 1) <= MaxPath
        BY <2>1, <2>3
    <3>3. Pth!Strlen(from) <= Pth!Strlen(old)
      <4>1. CASE from = <<>>
        <5>1. old = <<"">>
            BY <4>1 DEF Pth!AsPath
        <5>2. Pth!Strlen(from) = 0 /\ Pth!Strlen(old) = 1
            BY <1>4, <4>1, <5>1
        <5>. QED
            BY <5>2
      <4>2. CASE from # <<>>
        <5>1. old = from
            BY <4>2 DEF Pth!AsPath
        <5>. QED
            BY <1>9, <5>1
      <4>. QED
          BY <4>1, <4>2
    <3>4. Pth!Strlen(at0) <= Pth!Strlen(old)
        BY <3>1, <3>3
    <3> HIDE DEF at0, comps, to, old
    <3>. QED
        BY <1>9, <3>2, <3>4, MaxPathIs
  <2>. QED
      BY <1>1, <2>2, <2>3
<1>11. Pth!Strlen(Pth!AsPath(to)) <= MaxPath
  <2>1. CASE to = <<>>
    <3>1. Pth!AsPath(to) = <<"">>
        BY <2>1 DEF Pth!AsPath
    <3>2. 1 <= MaxPath
        BY MaxPathIs
    <3>. QED
        BY <1>4, <3>1, <3>2
  <2>2. CASE to # <<>>
    <3>1. Pth!AsPath(to) = to
        BY <2>2 DEF Pth!AsPath
    <3> HIDE DEF at0, comps, to, old
    <3>. QED
        BY <1>9, <1>10, <3>1, MaxPathIs
  <2>. QED
      BY <2>1, <2>2
<1>12. Pth!EvalFits(old, new)
    BY <1>8, <1>11 DEF Pth!EvalFits
<1>13. Pth!Evalpath(old, new) = Pth!AsPath(to)
    BY <1>8, <1>12 DEF Pth!Evalpath
<1>. QED
    BY <1>9, <1>11, <1>12, <1>13

-----------------------------------------------------------------------------
PathInv ==
    /\ place \in Seq(Names) /\ target \in Seq(Names)
    /\ PathsEvaluated

LEMMA PathInit == Init => PathInv
<1> SUFFICES ASSUME Init PROVE PathInv
    OBVIOUS
<1>1. cwd = <<"">> /\ uri = <<"">> /\ asserted = TRUE /\ place = <<>> /\ target = <<>>
    BY DEF Init, Pth!Init
<1>2. <<"">> = Pth!AsPath(<<>>)
    BY DEF Pth!AsPath
<1>3. Pth!Strlen(<<"">>) <= MaxPath
    BY RootString, MaxPathIs
<1>. QED
    BY <1>1, <1>2, <1>3, RootIs DEF PathInv, PathsEvaluated, Pth!PathsEvaluated

LEMMA PathStep == PathInv /\ [Next]_vars => PathInv'
<1> SUFFICES ASSUME PathInv, [Next]_vars PROVE PathInv'
    OBVIOUS
<1> USE DEF PathInv, PathsEvaluated, Pth!PathsEvaluated
<1>1. /\ place \in Seq(Names) /\ target \in Seq(Names)
      /\ cwd = Pth!AsPath(place) /\ uri = Pth!AsPath(target)
      /\ Pth!Strlen(cwd) <= MaxPath /\ asserted
    OBVIOUS
<1>2. CASE UNCHANGED path
  <2>1. UNCHANGED <<cwd, uri, asserted, place, target>>
      BY <1>2 DEF path
  <2>. QED
      BY <1>1, <2>1
<1>3. ASSUME NEW new \in Inputs, Pth!Fits(cwd, new)
      PROVE  LET to == Pth!Walk(place, new)
             IN  /\ to \in Seq(Names) /\ Pth!EvalFits(cwd, new)
                 /\ Pth!Evalpath(cwd, new) = Pth!AsPath(to)
                 /\ Pth!Strlen(Pth!AsPath(to)) <= MaxPath
  <2>1. Pth!Fits(Pth!AsPath(place), new)
      BY <1>1, <1>3
  <2>. QED
      BY <1>1, <2>1, EvalpathIs
<1>4. ASSUME NEW new \in Inputs, Pth!Request(new) PROVE PathInv'
  <2>1. CASE Pth!Fits(cwd, new)
    <3>1. /\ uri' = Pth!Evalpath(cwd, new) /\ target' = Pth!Walk(place, new) /\ cwd' = cwd
          /\ asserted' = asserted /\ place' = place
        BY <1>4, <2>1 DEF Pth!Request, Pth!Restored
    <3>. QED
        BY <1>1, <1>3, <2>1, <3>1
  <2>2. CASE ~Pth!Fits(cwd, new)
    <3>1. UNCHANGED <<cwd, uri, asserted, place, target>>
        BY <1>4, <2>2 DEF Pth!Request
    <3>. QED
        BY <1>1, <3>1
  <2>. QED
      BY <2>1, <2>2
<1>5. ASSUME NEW new \in Inputs, Pth!Chdir(new) PROVE PathInv'
  <2>1. CASE /\ Pth!Fits(cwd, new)
             /\ uri' = Pth!Evalpath(cwd, new) /\ target' = Pth!Walk(place, new)
             /\ cwd' = Pth!Evalpath(cwd, new) /\ asserted' = Pth!EvalFits(cwd, new)
             /\ place' = Pth!Walk(place, new)
      BY <1>1, <1>3, <2>1
  <2>2. CASE /\ Pth!Fits(cwd, new)
             /\ uri' = Pth!Evalpath(cwd, new) /\ target' = Pth!Walk(place, new)
             /\ UNCHANGED <<cwd, asserted, place>>
      BY <1>1, <1>3, <2>2
  <2>3. CASE UNCHANGED Pth!vars
    <3>1. UNCHANGED <<cwd, uri, asserted, place, target>>
        BY <2>3 DEF Pth!vars
    <3>. QED
        BY <1>1, <3>1
  <2>. QED
      BY <1>5, <2>1, <2>2, <2>3 DEF Pth!Chdir
<1>6. CASE UseOperand
    BY <1>4, <1>5, <1>6 DEF UseOperand
<1>7. CASE Prompt
  <2>1. /\ uri' = <<"">> /\ target' = <<>> /\ cwd' = cwd /\ asserted' = asserted
        /\ place' = place
      BY <1>7 DEF Prompt, Pth!NextRequest
  <2>2. <<"">> = Pth!AsPath(<<>>)
      BY DEF Pth!AsPath
  <2>. QED
      BY <1>1, <2>1, <2>2, RootIs
<1>8. CASE \/ Type \/ Tab \/ Enter \/ GlobWord \/ CommandBegins \/ TakeOption
           \/ TakeOperand \/ UNCHANGED vars
  <2>1. UNCHANGED path
      BY <1>8 DEF Type, Tab, Enter, GlobWord, CommandBegins, TakeOption, TakeOperand, vars
  <2>. QED
      BY <1>2, <2>1
<1>. QED
    BY <1>6, <1>7, <1>8 DEF Next

(***************************************************************************)
(* For every length of a path and of names, through any number of          *)
(* commands: a request goes where the user says and cd leads there, as one *)
(* that goes from one component to the next would come there; the string   *)
(* that evalpath rewrites fits where the joined one did, so smb_chdir's    *)
(* assertion holds (smbwrap.c:148-175, 612-695).                           *)
(***************************************************************************)
THEOREM PathsAlwaysEvaluated == Spec => []PathsEvaluated
<1>1. PathInv => PathsEvaluated
    BY DEF PathInv
<1>. QED
    BY PathInit, PathStep, <1>1, PTL DEF Spec

-----------------------------------------------------------------------------
(***************************************************************************)
(* The line of progress is as wide as the terminal, up to the size of its  *)
(* buffer, so that it covers all of the line before; on a narrow terminal  *)
(* it is the ETA or nothing (transfer.c:752-842).                          *)
(***************************************************************************)
THEOREM LineFits ==
    ASSUME NEW width \in Nat, NEW name \in Nat
    PROVE  /\ LineLength(width, name) \in {0, Eta, progresslen(width)}
           /\ LineLength(width, name) <= width
           /\ LineLength(width, name) <= PROGRESSLINE_MAXLEN
           /\ totallen(width) >= Name => LineLength(width, name) = progresslen(width)
<1>1. progresslen(width) \in Nat /\ progresslen(width) <= width
        /\ progresslen(width) <= PROGRESSLINE_MAXLEN /\ PROGRESSLINE_MAXLEN = 1024
    BY DEF progresslen, Least, PROGRESSLINE_MAXLEN
<1>2. CASE progresslen(width) < Eta
    BY <1>1, <1>2 DEF LineLength, totallen, Name, Eta
<1>3. CASE progresslen(width) >= Eta /\ totallen(width) < Name
    BY <1>1, <1>3 DEF LineLength, makeprogress, totallen, Name, Eta
<1>4. CASE totallen(width) >= Name
  <2>1. totallen(width) \in Nat /\ progresslen(width) = totallen(width) + 13
      BY <1>1, <1>4 DEF totallen, Eta, Name
  <2>2. filelen(width, name) \in Int /\ barlen(width, name) \in Int
          /\ sizelen(width) \in Int
      BY <2>1 DEF filelen, barlen, sizelen, Least, Size, Bar
  <2>3. Printed(width, name) = (IF Dotted(width, name) THEN filelen(width, name) - 3
                                ELSE name)
      BY <2>2 DEF Printed
  <2>4. filelen(width, name) <= name + 3
      BY <2>1 DEF filelen, sizelen, Least, Size, Bar
  <2>5. Printed(width, name) = filelen(width, name) - 3
      BY <2>2, <2>3, <2>4 DEF Dotted
  <2>6. makeprogress(width, name) = totallen(width)
      BY <1>4, <2>1, <2>2, <2>5 DEF makeprogress, space, Name
  <2>. QED
      BY <1>1, <2>1, <2>6 DEF LineLength, Eta
<1>. QED
    BY <1>1, <1>2, <1>3, <1>4 DEF totallen, Name, Eta

(***************************************************************************)
(* No part of the line has a negative length, which printf would take for  *)
(* a request to fill on the right: a name that is cut keeps part of its    *)
(* end, and the bar fits barbuf (transfer.c:756, 806-838).                 *)
(***************************************************************************)
THEOREM FieldsFit ==
    ASSUME NEW width \in Nat, NEW name \in Nat, totallen(width) >= Name
    PROVE  /\ Printed(width, name) \in 0 .. name
           /\ Dotted(width, name) => Printed(width, name) > 3
           /\ space(width, name) >= 2
           /\ barlen(width, name) \in {0} \cup Bar .. 50
<1>1. totallen(width) \in Nat /\ totallen(width) >= 15
    BY DEF totallen, progresslen, Least, PROGRESSLINE_MAXLEN, Eta, Name
<1>2. CASE BarShown(width)
  <2>1. sizelen(width) = 9 /\ totallen(width) >= 49
      BY <1>1, <1>2 DEF BarShown, sizelen, SizeShown, Size, Bar, Name
  <2>. QED
      BY <1>1, <1>2, <2>1 DEF Printed, Dotted, space, barlen, filelen, Least, Bar, Size
<1>3. CASE ~BarShown(width)
  <2>1. barlen(width, name) = 0 /\ sizelen(width) \in {0, 9}
          /\ totallen(width) - sizelen(width) >= 15
      BY <1>1, <1>3 DEF barlen, sizelen, SizeShown, Size, Name
  <2>. QED
      BY <1>1, <1>3, <2>1 DEF Printed, Dotted, space, filelen, Least
<1>. QED
    BY <1>2, <1>3

(***************************************************************************)
(* The loops that draw the bar end: there are not more stars than fit, and *)
(* all of them are there once everything has arrived (transfer.c:824-836). *)
(***************************************************************************)
THEOREM StarsFit ==
    ASSUME NEW inner \in Nat, NEW end \in Nat, NEW done \in 0 .. end
    PROVE  /\ starlen(inner, done, end) \in 0 .. inner
           /\ done = end => starlen(inner, done, end) = inner
<1>1. CASE end = 0
    BY <1>1 DEF starlen
<1>2. CASE end > 0
  <2> DEFINE p == inner * done
             q == inner * end
  <2>1. p \in Nat /\ q \in Nat
      OBVIOUS
  <2>2. p <= q
      OBVIOUS
  <2>3. \A n \in Nat, d \in Nat \ {0}, k \in Nat :
           n < d * (k + 1) => n \div d \in 0 .. k
      OBVIOUS
  <2>4. (2 * end) * (inner + 1) = 2 * q + 2 * end
      OBVIOUS
  <2>5. end + 2 * p < (2 * end) * (inner + 1) /\ end + 2 * p \in Nat
      BY <1>2, <2>1, <2>2, <2>4
  <2>6. starlen(inner, done, end) = (end + 2 * p) \div (2 * end)
      BY <1>2 DEF starlen
  <2>7. starlen(inner, done, end) \in 0 .. inner
      BY <1>2, <2>3, <2>5, <2>6
  <2>8. ASSUME done = end PROVE starlen(inner, done, end) = inner
    <3>1. end + 2 * p = (2 * end) * inner + end
        BY <2>8
    <3>2. \A d \in Nat \ {0}, k \in Nat, r \in Nat : r < d => (d * k + r) \div d = k
        OBVIOUS
    <3>. QED
        BY <1>2, <2>6, <3>1, <3>2
  <2>. QED
      BY <2>7, <2>8
<1>. QED
    BY <1>1, <1>2

(***************************************************************************)
(* The average is never zero, by which the remaining time is divided, and  *)
(* the ETA has two digits before and after its colon for whatever is less  *)
(* than a day (transfer.c:929-966).                                        *)
(***************************************************************************)
THEOREM EtaFits ==
    ASSUME NEW average \in Nat, NEW bytes \in Nat, NEW elapsed \in Nat \ {0},
           NEW left \in Nat
    PROVE  LET avg == Average(average, bytes, elapsed)
               s   == Seconds(left, avg)
           IN  /\ avg \in Nat \ {0} /\ s \in Nat
               /\ s < 24 * 3600 => large(s) \in 0 .. 59 /\ small(s) \in 0 .. 59
<1> DEFINE avg == Average(average, bytes, elapsed)
           s   == Seconds(left, avg)
<1>1. Measured(average, bytes, elapsed) \in Int
    BY DEF Measured
<1>2. avg \in Nat \ {0}
    BY <1>1 DEF Average
<1>3. s \in Nat
    BY <1>2 DEF Seconds
<1>4. ASSUME NEW t \in Nat, t < 24 * 3600
      PROVE  large(t) \in 0 .. 59 /\ small(t) \in 0 .. 59
    BY <1>4 DEF large, small
<1>. QED
    BY <1>2, <1>3, <1>4
-----------------------------------------------------------------------------
(* Globbing: the patterns of a line. *)

LEMMA GlbSame ==
    /\ \A S : Glb!Cardinality(S) = Cardinality(S) /\ Glb!IsFiniteSet(S) = IsFiniteSet(S)
    /\ \A s : Glb!Front(s) = SubSeq(s, 1, Len(s) - 1) /\ Glb!Last(s) = s[Len(s)]
<1>1. \A S : Glb!Cardinality(S) = Cardinality(S)
    BY DEF Glb!Cardinality, Cardinality
<1>2. \A S : Glb!IsFiniteSet(S) = IsFiniteSet(S)
    BY DEF Glb!IsFiniteSet, IsFiniteSet
<1>3. \A s : Glb!Front(s) = SubSeq(s, 1, Len(s) - 1) /\ Glb!Last(s) = s[Len(s)]
    BY DEF Glb!Front, Glb!Last
<1>. QED
    BY <1>1, <1>2, <1>3

LEMMA GlobLessIs ==
    ASSUME NEW s \in Seq(Nat), NEW t \in Seq(Nat)
    PROVE  Glb!Less(s, t) <=> \E n : Differ(s, t, n)
<1>1. Len(s) \in Nat /\ Len(t) \in Nat /\ DOMAIN s = 1 .. Len(s) /\ DOMAIN t = 1 .. Len(t)
    OBVIOUS
<1>2. \A n \in 1 .. Len(s) : s[n] \in Nat
    OBVIOUS
<1>3. \A n \in 1 .. Len(t) : t[n] \in Nat
    OBVIOUS
<1>4. ASSUME NEW n \in 1 .. Len(t), \A j \in 1 .. n - 1 : j \in 1 .. Len(s) /\ s[j] = t[j],
             n \notin 1 .. Len(s) \/ s[n] < t[n]
      PROVE  Differ(s, t, n)
  <2>1. n \in Nat \ {0} /\ \A j \in 1 .. n - 1 : j \in 1 .. Len(t)
      BY <1>1
  <2>2. Code(s, n) < Code(t, n)
      BY <1>2, <1>3, <1>4 DEF Code
  <2>3. \A j \in 1 .. n - 1 : Code(s, j) = Code(t, j)
      BY <1>4, <2>1 DEF Code
  <2>. QED
      BY <2>1, <2>2, <2>3 DEF Differ
<1>5. ASSUME NEW n, Differ(s, t, n)
      PROVE  /\ n \in 1 .. Len(t) /\ \A j \in 1 .. n - 1 : j \in 1 .. Len(s) /\ s[j] = t[j]
             /\ n \notin 1 .. Len(s) \/ s[n] < t[n]
  <2>1. n \in Nat \ {0} /\ Code(s, n) < Code(t, n)
      BY <1>5 DEF Differ
  <2>2. n \in 1 .. Len(t)
    <3> SUFFICES ASSUME n \notin 1 .. Len(t) PROVE FALSE
        OBVIOUS
    <3>1. Code(t, n) = 0 /\ Code(s, n) \in Nat
        BY <1>2 DEF Code
    <3>. QED
        BY <2>1, <3>1
  <2>3. ASSUME NEW j \in 1 .. n - 1 PROVE j \in 1 .. Len(s) /\ s[j] = t[j]
    <3>1. j \in 1 .. Len(t) /\ Code(s, j) = Code(t, j)
        BY <1>5, <2>1, <2>2 DEF Differ
    <3>2. Code(t, j) = t[j] + 1 /\ t[j] \in Nat
        BY <1>3, <3>1 DEF Code
    <3>3. j \in 1 .. Len(s)
        BY <3>1, <3>2 DEF Code
    <3>4. Code(s, j) = s[j] + 1 /\ s[j] \in Nat
        BY <1>2, <3>3 DEF Code
    <3>5. \A x, y \in Nat : x + 1 = y + 1 => x = y
        OBVIOUS
    <3>6. s[j] + 1 = t[j] + 1
        BY <3>1, <3>2, <3>4
    <3>7. s[j] = t[j]
        BY <3>2, <3>4, <3>5, <3>6
    <3>. QED
        BY <3>1, <3>3, <3>7
  <2>4. n \in 1 .. Len(s) => s[n] < t[n]
      BY <1>2, <1>3, <2>1, <2>2 DEF Code
  <2>. QED
      BY <2>2, <2>3, <2>4
<1>6. Glb!Less(s, t) <=>
         \E n \in 1 .. Len(t) :
            /\ \A j \in 1 .. n - 1 : j \in 1 .. Len(s) /\ s[j] = t[j]
            /\ n \notin 1 .. Len(s) \/ s[n] < t[n]
    BY <1>1 DEF Glb!Less
<1>. QED
    BY <1>4, <1>5, <1>6

LEMMA SortedIs ==
    ASSUME NEW S, IsFiniteSet(S), S \subseteq Seq(Nat)
    PROVE  /\ Cardinality(S) \in Nat
           /\ Glb!Sorted(S) \in Seq(S) /\ Len(Glb!Sorted(S)) = Cardinality(S)
<1> DEFINE N == Cardinality(S)
           R == {p \in S \X S : Glb!Less(p[1], p[2])}
           Before(p) == {q \in S : Glb!Less(q, p)}
           Place(n) == CHOOSE p \in S : Cardinality(Before(p)) = n - 1
<1>1. N \in Nat
    BY FS_CardinalityType
<1>2. \A p \in S : Ahead(R, S, p) = Before(p)
    BY DEF Ahead
<1>3. Orders(R, S)
  <2>1. ASSUME NEW s \in S, NEW t \in S PROVE <<s, t>> \in R <=> Glb!Less(s, t)
      OBVIOUS
  <2>2. ASSUME NEW s \in S, NEW t \in S PROVE Glb!Less(s, t) <=> \E n : Differ(s, t, n)
      BY GlobLessIs
  <2> HIDE DEF R
  <2>. QED
      BY <2>1, <2>2, DifferOrders
<1> HIDE DEF R
<1>4. \A k \in 0 .. N - 1 : \E p \in S : Cardinality(Ahead(R, S, p)) = k
    BY <1>3, RankExists
<1> HIDE DEF N
<1>5. \A k \in 0 .. N - 1 : \E p \in S : Cardinality(Before(p)) = k
    BY <1>2, <1>4
<1> HIDE DEF Before
<1>6. ASSUME NEW n \in 1 .. N PROVE Place(n) \in S
  <2>1. n - 1 \in 0 .. N - 1
      BY <1>1
  <2>2. \E p \in S : Cardinality(Before(p)) = n - 1
      BY <1>5, <2>1
  <2>. QED
      BY <2>2, Zenon
<1>7. Glb!Sorted(S) = [n \in 1 .. N |-> Place(n)]
    BY DEF Glb!Sorted, Before, N, Glb!Cardinality, Cardinality
<1> HIDE DEF Place
<1>8. Glb!Sorted(S) \in [1 .. N -> S]
    BY <1>6, <1>7
<1>9. Glb!Sorted(S) \in Seq(S) /\ Len(Glb!Sorted(S)) = N
    BY <1>1, <1>8, IsSeq
<1>. QED
    BY <1>1, <1>9 DEF N

\* What the walk compares: components without wildcards as they are written.
Hits(t) ==
    {p \in Tree : /\ Len(p) = Len(t)
                  /\ \A i \in DOMAIN t : IF t[i] \in Patterns
                                         THEN p[i] \in Matching[t[i]] ELSE p[i] = t[i]}

\* No backslash is before a component that has no wildcard.
Unquoted(t) == \A i \in DOMAIN t : t[i] \in Patterns \/ Glb!Unescape(t)[i] = t[i]

LEMMA HitsMatch ==
    ASSUME NEW t, Unquoted(t)
    PROVE  Glb!Matches(t) = Hits(t)
<1>1. ASSUME NEW p
      PROVE  (\A i \in DOMAIN t : IF t[i] \in Patterns THEN p[i] \in Matching[t[i]]
                                                       ELSE p[i] = Glb!Unescape(t)[i])
             <=> \A i \in DOMAIN t : IF t[i] \in Patterns THEN p[i] \in Matching[t[i]]
                                                           ELSE p[i] = t[i]
    BY DEF Unquoted
<1>. QED
    BY <1>1 DEF Glb!Matches, Hits

LEMMA UnescapeIs ==
    ASSUME Glb!WellFormed, NEW t \in Seq(Nat)
    PROVE  Glb!Unescape(t) \in Seq(Nat)
<1>1. Len(t) \in Nat /\ DOMAIN t = 1 .. Len(t) /\ \A i \in 1 .. Len(t) : t[i] \in Nat
    OBVIOUS
<1>2. \A c \in DOMAIN Unescaped : Unescaped[c] \in Nat
    BY DEF Glb!WellFormed
<1>3. Glb!Unescape(t) \in [1 .. Len(t) -> Nat]
    BY <1>1, <1>2 DEF Glb!Unescape
<1>. QED
    BY <1>1, <1>3, IsSeq

\* A path that a pattern may still match, and what is matched below it.
Suits(t, p) ==
    /\ p \in Tree \cup {<<>>} /\ Len(p) <= Len(t)
    /\ \A i \in 1 .. Len(p) : IF t[i] \in Patterns THEN p[i] \in Matching[t[i]] ELSE p[i] = t[i]
Under(t, p) ==
    {m \in Hits(t) : Len(p) <= Len(m) /\ \A i \in 1 .. Len(p) : m[i] = p[i]}

LEMMA TreeIs ==
    ASSUME Glb!WellFormed
    PROVE  /\ Tree \subseteq Seq(Nat) /\ Dirs \subseteq Tree \cup {<<>>} /\ IsFiniteSet(Tree)
           /\ \A p \in Tree : p # <<>> /\ SubSeq(p, 1, Len(p) - 1) \in Dirs
           /\ \A p \in Tree : p \in Seq(Nat) /\ Len(p) \in Nat \ {0} /\ DOMAIN p = 1 .. Len(p)
<1>1. /\ Tree \subseteq Seq(Nat) /\ Dirs \subseteq Tree \cup {<<>>} /\ IsFiniteSet(Tree)
      /\ \A p \in Tree : p # <<>> /\ SubSeq(p, 1, Len(p) - 1) \in Dirs
    BY GlbSame DEF Glb!WellFormed
<1>2. ASSUME NEW p \in Tree PROVE p \in Seq(Nat) /\ Len(p) \in Nat \ {0} /\ DOMAIN p = 1 .. Len(p)
  <2>1. p \in Seq(Nat) /\ p # <<>>
      BY <1>1
  <2>. QED
      BY <2>1
<1>. QED
    BY <1>1, <1>2

\* Whatever is above a thing is there, too.
LEMMA AboveIs ==
    ASSUME Glb!WellFormed, NEW m \in Tree
    PROVE  /\ \A k \in 1 .. Len(m) : SubSeq(m, 1, k) \in Tree
           /\ \A k \in 0 .. Len(m) - 1 : SubSeq(m, 1, k) \in Dirs
<1> DEFINE L == Len(m)
           Up(d) == SubSeq(m, 1, L - d)
           T == {d \in 0 .. L - 1 : Up(d) \in Tree}
<1>1. m \in Seq(Nat) /\ L \in Nat \ {0} /\ L - 1 \in Nat
    BY TreeIs
<1>2. Up(0) \in Tree
  <2>1. L - 0 = L /\ L \in 0 .. L
      BY <1>1
  <2>2. SubSeq(m, 1, L) \in Seq(Nat) /\ Len(SubSeq(m, 1, L)) = L
        /\ \A i \in 1 .. L : SubSeq(m, 1, L)[i] = m[i]
      BY <1>1, <2>1, SubSeqIs
  <2>3. SubSeq(m, 1, L) = m
      BY <1>1, <2>2, SeqEqual
  <2>. QED
      BY <2>1, <2>3
<1>3. ASSUME NEW d \in 0 .. L - 1, Up(d) \in Tree
      PROVE  SubSeq(m, 1, L - d - 1) \in Dirs
  <2> DEFINE k == L - d
             u == SubSeq(m, 1, k)
             v == SubSeq(m, 1, k - 1)
             w == SubSeq(u, 1, k - 1)
  <2>1. k \in 1 .. L /\ k \in 0 .. L /\ k - 1 \in 0 .. L /\ k - 1 \in 0 .. k /\ k \in Nat
      BY <1>1
  <2> HIDE DEF k
  <2>2. u \in Seq(Nat) /\ Len(u) = k /\ \A i \in 1 .. k : u[i] = m[i]
      BY <1>1, <2>1, SubSeqIs
  <2>3. v \in Seq(Nat) /\ Len(v) = k - 1 /\ \A i \in 1 .. k - 1 : v[i] = m[i]
      BY <1>1, <2>1, SubSeqIs
  <2> HIDE DEF u, v
  <2>4. w \in Seq(Nat) /\ Len(w) = k - 1 /\ \A i \in 1 .. k - 1 : w[i] = u[i]
      BY <2>1, <2>2, SubSeqIs
  <2>5. w \in Dirs
    <3>1. u \in Tree
        BY <1>3 DEF u, k
    <3>. QED
        BY <2>2, <3>1, TreeIs
  <2> HIDE DEF w
  <2>6. \A i \in 1 .. k - 1 : i \in 1 .. k
      BY <2>1
  <2>7. v = w
      BY <2>2, <2>3, <2>4, <2>6, SeqEqual
  <2>. QED
      BY <2>5, <2>7 DEF v, k
<1>4. ASSUME NEW d \in 0 .. L - 1 - 1, d \in T PROVE d + 1 \in T
  <2>1. d \in 0 .. L - 1 /\ d + 1 \in 0 .. L - 1 /\ L - (d + 1) = L - d - 1 /\ L - (d + 1) \in 1 .. L
      BY <1>1
  <2>2. Up(d + 1) \in Dirs
      BY <1>3, <1>4, <2>1
  <2>3. Up(d + 1) # <<>>
    <3>1. Len(Up(d + 1)) = L - (d + 1)
      <4>1. L - (d + 1) \in 0 .. L
          BY <1>1, <2>1
      <4>. QED
          BY <1>1, <4>1, SubSeqIs
    <3> DEFINE u == Up(d + 1)
               k == L - (d + 1)
    <3>2. k \in 1 .. L
        BY <2>1
    <3>3. Len(u) = k
        BY <3>1
    <3> HIDE DEF u, k
    <3>4. u # <<>>
        BY <1>1, <3>2, <3>3
    <3>. QED
        BY <3>4 DEF u
  <2>4. Up(d + 1) \in Tree
      BY <2>2, <2>3, TreeIs
  <2>. QED
      BY <2>1, <2>4
<1>5. 0 \in T
    BY <1>1, <1>2
<1> HIDE DEF Up
<1>6. 0 .. L - 1 \subseteq T
  <2> DEFINE M == L - 1
  <2>1. M \in Nat /\ \A d \in 0 .. M - 1 : d \in T => d + 1 \in T
      BY <1>1, <1>4
  <2> HIDE DEF T, M
  <2>2. 0 .. M \subseteq T
      BY <1>5, <2>1, InductionUpTo
  <2>. QED
      BY <2>2 DEF M
<1>7. ASSUME NEW k \in 1 .. L PROVE SubSeq(m, 1, k) \in Tree
  <2>1. L - k \in 0 .. L - 1 /\ L - (L - k) = k
      BY <1>1
  <2>2. Up(L - k) \in Tree
      BY <1>6, <2>1
  <2>. QED
      BY <2>1, <2>2 DEF Up
<1>8. ASSUME NEW k \in 0 .. L - 1 PROVE SubSeq(m, 1, k) \in Dirs
  <2>1. L - k - 1 \in 0 .. L - 1 /\ L - (L - k - 1) - 1 = k
      BY <1>1
  <2>2. Up(L - k - 1) \in Tree
      BY <1>6, <2>1
  <2>3. SubSeq(m, 1, L - (L - k - 1) - 1) \in Dirs
      BY <1>3, <2>1, <2>2
  <2>. QED
      BY <2>1, <2>3
<1>. QED
    BY <1>7, <1>8

LEMMA HitsAre ==
    ASSUME Glb!WellFormed, NEW t \in Seq(Nat)
    PROVE  /\ Hits(t) \subseteq Tree
           /\ \A m \in Hits(t) :
                 /\ m \in Seq(Nat) /\ Len(m) = Len(t)
                 /\ \A i \in 1 .. Len(t) : IF t[i] \in Patterns THEN m[i] \in Matching[t[i]]
                                                                ELSE m[i] = t[i]
<1>1. DOMAIN t = 1 .. Len(t)
    OBVIOUS
<1>. QED
    BY <1>1, TreeIs DEF Hits

LEMMA MatchesAre ==
    ASSUME Glb!WellFormed
    PROVE  \A t : Glb!Matches(t) \subseteq Tree
    BY DEF Glb!Matches

\* What is matched below a path is below its beginning of any length.
LEMMA UnderLonger ==
    ASSUME Glb!WellFormed, NEW t \in Seq(Nat), NEW p, Suits(t, p), Len(p) < Len(t),
           NEW m \in Under(t, p)
    PROVE  LET q == SubSeq(m, 1, Len(p) + 1)
           IN  /\ q \in Tree /\ q \in Seq(Nat) /\ Len(q) = Len(p) + 1
               /\ q[Len(p) + 1] = m[Len(p) + 1]
               /\ \A i \in 1 .. Len(p) : q[i] = p[i]
               /\ Suits(t, q) /\ m \in Under(t, q) /\ p \in Dirs
<1> DEFINE n == Len(p)
           q == SubSeq(m, 1, n + 1)
           Fit(i, x) == IF t[i] \in Patterns THEN x \in Matching[t[i]] ELSE x = t[i]
<1>1. /\ m \in Hits(t) /\ m \in Tree /\ m \in Seq(Nat) /\ Len(m) = Len(t)
      /\ \A i \in 1 .. Len(t) : Fit(i, m[i])
      /\ \A i \in 1 .. n : m[i] = p[i]
    BY HitsAre DEF Under
<1>2. p \in Seq(Nat) /\ n \in Nat /\ Len(t) \in Nat /\ Len(m) \in Nat
  <2> DEFINE none == <<>>
  <2>1. p \in Tree \/ p = none
      BY DEF Suits
  <2>2. none \in Seq(Nat)
      OBVIOUS
  <2> HIDE DEF none
  <2>3. p \in Seq(Nat)
      BY <2>1, <2>2, TreeIs
  <2>. QED
      BY <1>1, <2>3
<1>3. n + 1 \in 1 .. Len(m) /\ n + 1 \in 0 .. Len(m) /\ n \in 0 .. Len(m) - 1 /\ n \in 0 .. Len(m)
      /\ n + 1 <= Len(t)
    BY <1>1, <1>2
<1>4. q \in Seq(Nat) /\ Len(q) = n + 1 /\ \A i \in 1 .. n + 1 : q[i] = m[i]
    BY <1>1, <1>3, SubSeqIs
<1>5. q \in Tree /\ SubSeq(m, 1, n) \in Dirs
    BY <1>1, <1>3, AboveIs
<1>6. SubSeq(m, 1, n) = p
  <2> DEFINE u == SubSeq(m, 1, n)
  <2>1. u \in Seq(Nat) /\ Len(u) = n /\ \A i \in 1 .. n : u[i] = m[i]
      BY <1>1, <1>3, SubSeqIs
  <2> HIDE DEF u
  <2>2. u = p
      BY <1>1, <1>2, <2>1, SeqEqual
  <2>. QED
      BY <2>2 DEF u
<1> HIDE DEF q
<1>7. \A i \in 1 .. n + 1 : i \in 1 .. Len(t) /\ (i \in 1 .. n => i \in 1 .. n + 1)
    BY <1>2, <1>3
<1>8. \A i \in 1 .. n : q[i] = p[i]
  <2>1. \A i \in 1 .. n : i \in 1 .. n + 1
      BY <1>2
  <2>. QED
      BY <1>1, <1>4, <2>1
<1>9. Suits(t, q)
  <2>1. \A i \in 1 .. n + 1 : Fit(i, q[i])
      BY <1>1, <1>4, <1>7
  <2>. QED
      BY <1>3, <1>4, <1>5, <2>1 DEF Suits
<1>10. m \in Under(t, q)
  <2>1. Len(q) <= Len(m) /\ \A i \in 1 .. Len(q) : m[i] = q[i]
      BY <1>1, <1>3, <1>4
  <2>. QED
      BY <1>1, <2>1 DEF Under
<1>11. q[n + 1] = m[n + 1]
  <2>1. n + 1 \in 1 .. n + 1
      BY <1>2
  <2>. QED
      BY <1>4, <2>1
<1>. QED
    BY <1>4, <1>5, <1>6, <1>8, <1>9, <1>10, <1>11 DEF q

\* A path as long as the pattern is the only match below it.
LEMMA UnderWhole ==
    ASSUME Glb!WellFormed, NEW t \in Seq(Nat), NEW p, Suits(t, p), Len(p) = Len(t), p # <<>>
    PROVE  Under(t, p) = {p} /\ p \in Hits(t)
<1>1. p \in Tree /\ p \in Seq(Nat)
    BY TreeIs DEF Suits
<1>2. p \in Hits(t)
  <2>1. DOMAIN t = 1 .. Len(t)
      OBVIOUS
  <2>. QED
      BY <1>1, <2>1 DEF Suits, Hits
<1>3. p \in Under(t, p)
  <2>1. Len(p) \in Nat
      BY <1>1
  <2>. QED
      BY <1>2, <2>1 DEF Under
<1>4. ASSUME NEW m \in Under(t, p) PROVE m = p
  <2>1. m \in Hits(t) /\ \A i \in 1 .. Len(p) : m[i] = p[i]
      BY DEF Under
  <2>2. m \in Seq(Nat) /\ Len(m) = Len(p)
      BY <2>1, HitsAre
  <2>. QED
      BY <1>1, <2>1, <2>2, SeqEqual
<1>. QED
    BY <1>2, <1>3, <1>4

(***************************************************************************)
(* The walk for a pattern: every match has been found, or is below the     *)
(* path about to be examined or below an entry a directory still has.      *)
(***************************************************************************)
Goes(t, p, k) == Suits(t, p) /\ k = IF Len(p) = Len(t) THEN 0 ELSE Len(p) + 1

\* Once a directory is being read, only the last component can follow: so
\* that it has been cut before does no harm.
CutInv(t) ==
    /\ cut \subseteq Nat
    /\ IF stack = <<>> THEN call.at # 0 => \A j \in cut : j < call.at
                       ELSE call.at \in {0, Len(t)}
CallInv(t)  == call # Glb!NoCall => Goes(t, call.path, call.at)
StackInv(t) ==
    /\ stack \in Seq(Glb!Frames)
    /\ \A i \in DOMAIN stack :
          /\ stack[i].rest \in {0, Len(t)}
          /\ \A q \in stack[i].todo : Goes(t, q, stack[i].rest)
Waiting(t) ==
    {m \in Hits(t) : \E i \in DOMAIN stack : \E q \in stack[i].todo : m \in Under(t, q)}
FoundInv(t) ==
    /\ matched \subseteq Hits(t)
    /\ \A m \in Hits(t) :
          m \in matched \/ m \in Waiting(t) \/ (call # Glb!NoCall /\ m \in Under(t, call.path))
WalkInv(t) == CutInv(t) /\ CallInv(t) /\ StackInv(t) /\ FoundInv(t)

Shallow(t) == \A k \in DOMAIN t : t[k] \in Patterns => k >= Len(t) - 1

LEMMA CallIs ==
    ASSUME NEW p, NEW k
    PROVE  /\ Glb!Call(p, k).path = p /\ Glb!Call(p, k).at = k
           /\ Glb!NoCall.at = 0 /\ (p # <<>> => Glb!Call(p, k) # Glb!NoCall)
    BY DEF Glb!Call, Glb!NoCall

LEMMA WalkBegins ==
    ASSUME Glb!WellFormed, NEW t \in Seq(Nat), stack = <<>>, Glb!BeginToken, Len(t) # 0
    PROVE  WalkInv(t)'
<1>1. call' = Glb!Call(<<>>, 1) /\ cut' = {} /\ matched' = {} /\ stack' = <<>>
    BY DEF Glb!BeginToken
<1> DEFINE none == <<>>
<1>2. call'.path = none /\ call'.at = 1 /\ call' # Glb!NoCall
    BY <1>1, CallIs
<1>3. CutInv(t)'
    BY <1>1 DEF CutInv
<1>4. Len(none) = 0 /\ 0 <= Len(t) /\ none \in {none} /\ Len(t) \in Nat
    OBVIOUS
<1> HIDE DEF none
<1>5. Suits(t, none)
    BY <1>4 DEF Suits, none
<1>6. CallInv(t)'
    BY <1>2, <1>4, <1>5 DEF CallInv, Goes
<1>7. StackInv(t)'
    BY <1>1 DEF StackInv
<1>8. FoundInv(t)'
  <2>1. ASSUME NEW m \in Hits(t) PROVE m \in Under(t, none)
    <3>1. Len(m) \in Nat
        BY HitsAre
    <3>. QED
        BY <1>4, <3>1 DEF Under
  <2>. QED
      BY <1>1, <1>2, <2>1 DEF FoundInv
<1>. QED
    BY <1>3, <1>6, <1>7, <1>8 DEF WalkInv

LEMMA MatchAdded ==
    ASSUME Glb!WellFormed, NEW t \in Seq(Nat), Len(t) # 0, WalkInv(t), Glb!AddMatch
    PROVE  WalkInv(t)'
<1>1. /\ call # Glb!NoCall /\ call.at = 0 /\ call' = Glb!NoCall /\ matched' = matched \cup {call.path}
      /\ cut' = cut /\ stack' = stack
    BY DEF Glb!AddMatch, Glb!Calling
<1> DEFINE p == call.path
<1>2. Suits(t, p) /\ Len(p) = Len(t) /\ p # <<>>
  <2>1. Goes(t, p, 0)
      BY <1>1 DEF WalkInv, CallInv
  <2>2. Suits(t, p) /\ (Len(p) = Len(t) \/ Len(p) + 1 = 0)
      BY <2>1 DEF Goes
  <2> HIDE DEF p
  <2>3. Len(p) \in Nat
    <3>1. p \in Tree \/ p = <<>>
        BY <2>2 DEF Suits
    <3>2. p = <<>> => Len(p) = 0
        OBVIOUS
    <3>. QED
        BY <3>1, <3>2, TreeIs
  <2>4. Len(p) = Len(t) /\ Len(p) # 0
      BY <2>2, <2>3
  <2>. QED
      BY <2>2, <2>4
<1> HIDE DEF p
<1>3. Under(t, p) = {p} /\ p \in Hits(t)
    BY <1>2, UnderWhole
<1>4. call'.at = 0
    BY <1>1, CallIs
<1>5. CutInv(t)'
    BY <1>1, <1>4 DEF WalkInv, CutInv
<1>6. CallInv(t)' /\ StackInv(t)'
    BY <1>1 DEF WalkInv, CallInv, StackInv
<1>7. FoundInv(t)'
  <2>1. Waiting(t)' = Waiting(t)
      BY <1>1 DEF Waiting
  <2>. QED
      BY <1>1, <1>3, <2>1 DEF WalkInv, FoundInv, p
<1>. QED
    BY <1>5, <1>6, <1>7 DEF WalkInv

\* Where the walk is when it is at a component.
LEMMA AtComponent ==
    ASSUME Glb!WellFormed, NEW t \in Seq(Nat), WalkInv(t), Glb!Token = t, Glb!Calling, call.at # 0
    PROVE  /\ Suits(t, call.path) /\ Len(call.path) \in Nat /\ Len(call.path) < Len(t)
           /\ call.at = Len(call.path) + 1 /\ call.at \in 1 .. Len(t)
           /\ Glb!Component = t[call.at]
           /\ stack = <<>> => call.at \notin cut
           /\ stack # <<>> => call.at = Len(t)
<1> DEFINE p == call.path
<1>1. Goes(t, p, call.at)
    BY DEF WalkInv, CallInv, Glb!Calling
<1>2. Suits(t, p) /\ Len(p) <= Len(t) /\ Len(p) # Len(t) /\ call.at = Len(p) + 1
    BY <1>1 DEF Goes, Suits
<1>3. Len(p) \in Nat
  <2> HIDE DEF p
  <2>1. p \in Tree \/ p = <<>>
      BY <1>2 DEF Suits
  <2>2. p = <<>> => Len(p) = 0
      OBVIOUS
  <2>. QED
      BY <2>1, <2>2, TreeIs
<1>4. Len(t) \in Nat
    OBVIOUS
<1>5. Len(p) < Len(t) /\ call.at \in 1 .. Len(t)
    BY <1>2, <1>3, <1>4
<1>6. Glb!Component = t[call.at]
    BY DEF Glb!Component
<1>7. stack = <<>> => call.at \notin cut
  <2>1. ~(call.at < call.at)
      BY <1>5
  <2>. QED
      BY <2>1 DEF WalkInv, CutInv
<1>8. stack # <<>> => call.at = Len(t)
    BY DEF WalkInv, CutInv
<1>. QED
    BY <1>2, <1>3, <1>5, <1>6, <1>7, <1>8

LEMMA ExactKeeps ==
    ASSUME Glb!WellFormed, NEW t \in Seq(Nat), WalkInv(t), Glb!Token = t, Glb!Exact,
           failed = {}, failed' = {}
    PROVE  WalkInv(t)'
<1> DEFINE p  == call.path
           k  == call.at
           np == Append(p, t[k])
           after == IF k = Len(t) THEN 0 ELSE k + 1
<1>1. /\ Glb!Calling /\ k # 0 /\ Glb!Component \notin Patterns
      /\ cut' = cut \cup {k} /\ stack' = stack /\ matched' = matched /\ call # Glb!NoCall
    BY DEF Glb!Exact, Glb!Cut, Glb!Calling
<1>2. /\ Suits(t, p) /\ Len(p) \in Nat /\ Len(p) < Len(t) /\ k = Len(p) + 1 /\ k \in 1 .. Len(t)
      /\ Glb!Component = t[k]
      /\ stack = <<>> => k \notin cut
      /\ stack # <<>> => k = Len(t)
    BY <1>1, AtComponent
<1>3. Glb!Rest = after
    BY <1>2 DEF Glb!Rest
<1>4. call' = IF np \in Tree THEN Glb!Call(np, after) ELSE Glb!NoCall
    BY <1>2, <1>3 DEF Glb!Exact
<1>5. p \in Seq(Nat) /\ t[k] \in Nat /\ Len(t) \in Nat
  <2>1. p \in Tree \/ p = <<>>
      BY <1>2 DEF Suits
  <2>2. p = <<>> => p \in Seq(Nat)
      OBVIOUS
  <2>. QED
      BY <1>2, <2>1, <2>2, TreeIs
<1> HIDE DEF p, k
<1>6. np \in Seq(Nat) /\ Len(np) = Len(p) + 1 /\ np[Len(p) + 1] = t[k]
      /\ \A i \in 1 .. Len(p) : np[i] = p[i]
    BY <1>5, AppendIs
<1> HIDE DEF np
<1>7. np # <<>>
    BY <1>2, <1>6
<1>8. np \in Tree => Goes(t, np, after)
  <2> SUFFICES ASSUME np \in Tree PROVE Goes(t, np, after)
      OBVIOUS
  <2>1. Len(np) = k /\ Len(np) <= Len(t)
      BY <1>2, <1>6
  <2>2. ASSUME NEW i \in 1 .. Len(np)
        PROVE  IF t[i] \in Patterns THEN np[i] \in Matching[t[i]] ELSE np[i] = t[i]
    <3>1. CASE i \in 1 .. Len(p)
        BY <1>2, <1>6, <3>1 DEF Suits
    <3>2. CASE i \notin 1 .. Len(p)
      <4>1. i = k /\ k = Len(p) + 1
          BY <1>2, <2>1, <3>2
      <4>. QED
          BY <1>1, <1>2, <1>6, <4>1 DEF k
    <3>. QED
        BY <3>1, <3>2
  <2>3. Suits(t, np)
      BY <2>1, <2>2 DEF Suits
  <2>. QED
      BY <2>1, <2>3 DEF Goes
<1>9. \A m \in Under(t, p) : np \in Tree /\ m \in Under(t, np)
  <2> SUFFICES ASSUME NEW m \in Under(t, p) PROVE np \in Tree /\ m \in Under(t, np)
      OBVIOUS
  <2> DEFINE q == SubSeq(m, 1, Len(p) + 1)
  <2>1. /\ q \in Tree /\ q \in Seq(Nat) /\ Len(q) = Len(p) + 1
        /\ q[Len(p) + 1] = m[Len(p) + 1]
        /\ \A i \in 1 .. Len(p) : q[i] = p[i]
        /\ m \in Under(t, q)
      BY <1>2, UnderLonger
  <2>2. m[k] = t[k]
    <3>1. m \in Hits(t)
        BY DEF Under
    <3>2. t[k] \notin Patterns
        BY <1>1, <1>2 DEF k
    <3>. QED
        BY <1>2, <3>1, <3>2, HitsAre
  <2> HIDE DEF q
  <2>3. \A i \in 1 .. Len(p) + 1 : i \in 1 .. Len(p) \/ i = Len(p) + 1
      BY <1>2
  <2>4. \A i \in 1 .. Len(p) + 1 : q[i] = np[i]
      BY <1>2, <1>6, <2>1, <2>2, <2>3
  <2>5. q = np
      BY <1>6, <2>1, <2>4, SeqEqual
  <2>. QED
      BY <2>1, <2>5
<1>10. call' = IF np \in Tree THEN Glb!Call(np, after) ELSE Glb!NoCall
    BY <1>4 DEF np, p, k
<1>11. /\ np \in Tree => call'.path = np /\ call'.at = after /\ call' # Glb!NoCall
       /\ np \notin Tree => call' = Glb!NoCall /\ call'.at = 0
    BY <1>7, <1>10, CallIs
<1>12. CallInv(t)' /\ StackInv(t)'
    BY <1>1, <1>8, <1>11 DEF WalkInv, CallInv, StackInv
<1>13. CutInv(t)'
  <2>1. cut' \subseteq Nat
    <3>1. k \in Nat /\ cut \subseteq Nat
        BY <1>2 DEF WalkInv, CutInv
    <3>. QED
        BY <1>1, <3>1
  <2>2. call'.at = 0 \/ call'.at = after
      BY <1>11
  <2>3. CASE stack = <<>>
    <3>1. \A j \in cut : j < k
        BY <1>1, <2>3 DEF WalkInv, CutInv, k
    <3>2. after # 0 => \A j \in cut \cup {k} : j < after
      <4>1. \A j \in cut : j \in Nat
          BY DEF WalkInv, CutInv
      <4>2. k \in Nat
          BY <1>2
      <4>. QED
          BY <3>1, <4>1, <4>2
    <3>. QED
        BY <1>1, <2>1, <2>2, <2>3, <3>2 DEF CutInv
  <2>4. CASE stack # <<>>
      BY <1>1, <1>2, <2>1, <2>2, <2>4 DEF CutInv
  <2>. QED
      BY <2>3, <2>4
<1>14. FoundInv(t)'
  <2>1. Waiting(t)' = Waiting(t)
      BY <1>1 DEF Waiting
  <2>2. ASSUME NEW m \in Hits(t)
        PROVE  m \in matched \/ m \in Waiting(t) \/ (call' # Glb!NoCall /\ m \in Under(t, call'.path))
    <3>1. m \in matched \/ m \in Waiting(t) \/ m \in Under(t, p)
        BY DEF WalkInv, FoundInv, p
    <3>. QED
        BY <1>9, <1>11, <3>1
  <2>3. matched \subseteq Hits(t)
      BY DEF WalkInv, FoundInv
  <2>. QED
      BY <1>1, <2>1, <2>2, <2>3 DEF FoundInv
<1>. QED
    BY <1>12, <1>13, <1>14 DEF WalkInv

LEMMA EntriesAre ==
    ASSUME Glb!WellFormed, NEW t \in Seq(Nat), NEW p, Suits(t, p), Len(p) \in Nat,
           Len(p) < Len(t), t[Len(p) + 1] \in Patterns
    PROVE  LET todo == {q \in Glb!Inside(p) : Glb!Name(q) \in Matching[t[Len(p) + 1]]}
           IN  /\ todo \subseteq Tree
               /\ \A q \in todo : Suits(t, q) /\ Len(q) = Len(p) + 1
               /\ \A m \in Under(t, p) : p \in Dirs /\ \E q \in todo : m \in Under(t, q)
<1> DEFINE n == Len(p)
           k == n + 1
           todo == {q \in Glb!Inside(p) : Glb!Name(q) \in Matching[t[k]]}
<1>1. \A q : q \in todo <=> /\ q \in Tree /\ Len(q) = k /\ SubSeq(q, 1, Len(q) - 1) = p
                            /\ q[Len(q)] \in Matching[t[k]]
    BY GlbSame DEF Glb!Inside, Glb!Name
<1> HIDE DEF todo
<1>2. n \in Nat /\ k \in 1 .. Len(t) /\ k \in Nat /\ k <= Len(t) /\ k - 1 = n
    OBVIOUS
<1>3. ASSUME NEW q \in todo PROVE Suits(t, q)
  <2>1. q \in Tree /\ q \in Seq(Nat) /\ Len(q) = k /\ SubSeq(q, 1, n) = p /\ q[k] \in Matching[t[k]]
      BY <1>1, <1>2, TreeIs
  <2>2. n \in 0 .. Len(q)
      BY <1>2, <2>1
  <2>3. \A i \in 1 .. n : SubSeq(q, 1, n)[i] = q[i]
      BY <2>1, <2>2, SubSeqIs
  <2>4. \A i \in 1 .. k : i \in 1 .. n \/ i = k
      BY <1>2
  <2>5. ASSUME NEW i \in 1 .. k
        PROVE  IF t[i] \in Patterns THEN q[i] \in Matching[t[i]] ELSE q[i] = t[i]
    <3>1. CASE i \in 1 .. n
        BY <2>1, <2>3, <3>1 DEF Suits
    <3>2. CASE i = k
        BY <2>1, <3>2
    <3>. QED
        BY <2>4, <3>1, <3>2
  <2>. QED
      BY <1>2, <2>1, <2>5 DEF Suits
<1>4. ASSUME NEW m \in Under(t, p) PROVE p \in Dirs /\ \E q \in todo : m \in Under(t, q)
  <2> DEFINE q == SubSeq(m, 1, k)
  <2>1. /\ q \in Tree /\ q \in Seq(Nat) /\ Len(q) = k /\ q[k] = m[k]
        /\ \A i \in 1 .. n : q[i] = p[i]
        /\ m \in Under(t, q) /\ p \in Dirs
      BY UnderLonger
  <2> HIDE DEF q
  <2>2. m[k] \in Matching[t[k]]
    <3>1. m \in Hits(t)
        BY DEF Under
    <3>. QED
        BY <1>2, <3>1, HitsAre
  <2>3. SubSeq(q, 1, n) = p
    <3>1. p \in Seq(Nat)
      <4>1. p \in Tree \/ p = <<>>
          BY DEF Suits
      <4>2. p = <<>> => p \in Seq(Nat)
          OBVIOUS
      <4>. QED
          BY <4>1, <4>2, TreeIs
    <3>2. n \in 0 .. Len(q)
        BY <1>2, <2>1
    <3> DEFINE u == SubSeq(q, 1, n)
    <3>3. u \in Seq(Nat) /\ Len(u) = n /\ \A i \in 1 .. n : u[i] = q[i]
        BY <2>1, <3>2, SubSeqIs
    <3> HIDE DEF u
    <3>4. u = p
        BY <2>1, <3>1, <3>3, SeqEqual
    <3>. QED
        BY <3>4 DEF u
  <2>4. q \in todo
      BY <1>1, <1>2, <2>1, <2>2, <2>3
  <2>. QED
      BY <2>1, <2>4
<1>5. todo \subseteq Tree /\ \A q \in todo : Suits(t, q) /\ Len(q) = k
    BY <1>1, <1>3
<1>. QED
    BY <1>4, <1>5 DEF todo

LEMMA DirectoryRead ==
    ASSUME Glb!WellFormed, NEW t \in Seq(Nat), Shallow(t), WalkInv(t), Glb!Token = t,
           Glb!ReadDirectory, failed = {}, failed' = {}
    PROVE  WalkInv(t)'
<1> DEFINE p == call.path
           k == call.at
           after == IF k = Len(t) THEN 0 ELSE k + 1
           todo == {q \in Glb!Inside(p) : Glb!Name(q) \in Matching[t[k]]}
           F == [path |-> p, rest |-> after, todo |-> todo]
           N == Len(stack)
<1>1. /\ Glb!Calling /\ k # 0 /\ Glb!Component \in Patterns /\ call # Glb!NoCall
      /\ cut' = cut \cup {k} /\ call' = Glb!NoCall /\ matched' = matched
    BY DEF Glb!ReadDirectory, Glb!Cut, Glb!Calling
<1>2. /\ Suits(t, p) /\ Len(p) \in Nat /\ Len(p) < Len(t) /\ k = Len(p) + 1 /\ k \in 1 .. Len(t)
      /\ Glb!Component = t[k]
      /\ stack = <<>> => k \notin cut
      /\ stack # <<>> => k = Len(t)
    BY <1>1, AtComponent
<1>3. Glb!Rest = after
    BY <1>2 DEF Glb!Rest
<1>4. \/ p \in Dirs /\ stack' = Append(stack, F)
      \/ p \notin Dirs /\ stack' = stack
    BY <1>2, <1>3 DEF Glb!ReadDirectory
<1>5. after \in {0, Len(t)} /\ after = IF Len(p) + 1 = Len(t) THEN 0 ELSE Len(p) + 2
  <2>1. Len(t) \in Nat /\ DOMAIN t = 1 .. Len(t)
      OBVIOUS
  <2>2. k >= Len(t) - 1
      BY <1>1, <1>2, <2>1 DEF Shallow
  <2> DEFINE n == Len(p)
             L == Len(t)
  <2>3. L = Len(t) /\ n \in Nat /\ L \in Nat /\ k = n + 1 /\ k \in 1 .. L /\ k >= L - 1
      BY <1>2, <2>1, <2>2
  <2> HIDE DEF k, n, L
  <2>4. k = L \/ k + 1 = L
      BY <2>3
  <2>5. after \in {0, L}
      BY <2>3, <2>4
  <2>6. after = IF n + 1 = L THEN 0 ELSE n + 2
      BY <2>3, <2>4
  <2>. QED
      BY <2>5, <2>6 DEF n, L
<1>6. /\ todo \subseteq Tree
      /\ \A q \in todo : Suits(t, q) /\ Len(q) = Len(p) + 1
      /\ \A m \in Under(t, p) : p \in Dirs /\ \E q \in todo : m \in Under(t, q)
  <2> HIDE DEF p, k
  <2>1. t[k] \in Patterns
      BY <1>1, <1>2 DEF k
  <2>2. t[Len(p) + 1] \in Patterns
      BY <1>2, <2>1
  <2>3. todo = {q \in Glb!Inside(p) : Glb!Name(q) \in Matching[t[Len(p) + 1]]}
      BY <1>2
  <2> HIDE DEF todo
  <2>. QED
      BY <1>2, <2>2, <2>3, EntriesAre
<1>7. after \in Nat
    BY <1>2
<1> HIDE DEF p, k, todo, after
<1>8. F.path = p /\ F.rest = after /\ F.todo = todo
    OBVIOUS
<1>9. ASSUME p \in Dirs PROVE F \in Glb!Frames
    BY <1>6, <1>7, <1>9 DEF Glb!Frames
<1>10. \A q \in todo : Goes(t, q, after)
    BY <1>2, <1>5, <1>6 DEF Goes
<1> HIDE DEF F
<1>11. stack \in Seq(Glb!Frames) /\ N \in Nat /\ DOMAIN stack = 1 .. N
  <2>1. stack \in Seq(Glb!Frames)
      BY DEF WalkInv, StackInv
  <2>. QED
      BY <2>1
<1>12. ASSUME stack' = Append(stack, F), p \in Dirs
       PROVE  /\ stack' \in Seq(Glb!Frames) /\ DOMAIN stack' = 1 .. N + 1 /\ stack' # <<>>
              /\ stack'[N + 1] = F /\ \A i \in 1 .. N : stack'[i] = stack[i]
  <2> DEFINE r == Append(stack, F)
  <2>1. r \in Seq(Glb!Frames) /\ Len(r) = N + 1 /\ r[N + 1] = F /\ \A i \in 1 .. N : r[i] = stack[i]
      BY <1>9, <1>11, <1>12, AppendIs
  <2> HIDE DEF r
  <2>2. DOMAIN r = 1 .. N + 1
      BY <2>1
  <2>3. r # <<>>
      BY <1>11, <2>1
  <2>. QED
      BY <1>12, <2>1, <2>2, <2>3 DEF r
<1>13. call'.at = 0
    BY <1>1, CallIs
<1>14. CutInv(t)'
  <2>1. k \in Nat /\ cut \subseteq Nat
      BY <1>2 DEF WalkInv, CutInv
  <2>. QED
      BY <1>1, <1>13, <2>1 DEF CutInv
<1>15. CallInv(t)'
    BY <1>1 DEF CallInv
<1>16. StackInv(t)'
  <2>1. CASE stack' = stack
      BY <2>1 DEF WalkInv, StackInv
  <2>2. CASE stack' = Append(stack, F) /\ p \in Dirs
    <3>1. ASSUME NEW i \in 1 .. N + 1
          PROVE  stack'[i].rest \in {0, Len(t)} /\ \A q \in stack'[i].todo : Goes(t, q, stack'[i].rest)
      <4>1. CASE i = N + 1
          BY <1>5, <1>8, <1>10, <1>12, <2>2, <4>1
      <4>2. CASE i # N + 1
        <5>1. i \in 1 .. N
            BY <1>11, <4>2
        <5>. QED
            BY <1>11, <1>12, <2>2, <5>1 DEF WalkInv, StackInv
      <4>. QED
          BY <4>1, <4>2
    <3>. QED
        BY <1>12, <2>2, <3>1 DEF StackInv
  <2>. QED
      BY <1>4, <2>1, <2>2
<1>17. FoundInv(t)'
  <2>1. ASSUME NEW m \in Waiting(t) PROVE m \in Waiting(t)'
    <3>1. CASE stack' = stack
        BY <3>1 DEF Waiting
    <3>2. CASE stack' = Append(stack, F) /\ p \in Dirs
      <4>1. PICK i \in 1 .. N : \E q \in stack[i].todo : m \in Under(t, q)
          BY <1>11 DEF Waiting
      <4>2. i \in DOMAIN stack' /\ stack'[i] = stack[i]
          BY <1>11, <1>12, <3>2
      <4>. QED
          BY <4>1, <4>2 DEF Waiting
    <3>. QED
        BY <1>4, <3>1, <3>2
  <2>2. ASSUME NEW m \in Under(t, p) PROVE m \in Waiting(t)'
    <3>1. p \in Dirs /\ stack' = Append(stack, F)
        BY <1>4, <1>6
    <3>2. N + 1 \in DOMAIN stack' /\ stack'[N + 1].todo = todo
        BY <1>8, <1>11, <1>12, <3>1
    <3>3. m \in Hits(t)
        BY DEF Under
    <3>. QED
        BY <1>6, <3>2, <3>3 DEF Waiting
  <2>3. \A m \in Hits(t) : m \in matched \/ m \in Waiting(t) \/ m \in Under(t, p)
      BY DEF WalkInv, FoundInv, p
  <2>4. matched \subseteq Hits(t)
      BY DEF WalkInv, FoundInv
  <2>. QED
      BY <1>1, <2>1, <2>2, <2>3, <2>4 DEF FoundInv
<1>. QED
    BY <1>14, <1>15, <1>16, <1>17 DEF WalkInv

\* The innermost directory.
LEMMA FrameIs ==
    ASSUME NEW t, WalkInv(t), stack # <<>>
    PROVE  /\ stack \in Seq(Glb!Frames) /\ Len(stack) \in Nat \ {0} /\ DOMAIN stack = 1 .. Len(stack)
           /\ Len(stack) \in DOMAIN stack /\ Glb!Frame = stack[Len(stack)]
           /\ Glb!Frame \in Glb!Frames /\ Glb!Frame.todo \subseteq Tree
<1>1. stack \in Seq(Glb!Frames)
    BY DEF WalkInv, StackInv
<1>2. Len(stack) \in Nat \ {0} /\ DOMAIN stack = 1 .. Len(stack)
    BY <1>1
<1>3. Len(stack) \in DOMAIN stack /\ Glb!Frame = stack[Len(stack)]
    BY <1>2, GlbSame DEF Glb!Frame
<1>4. Glb!Frame \in Glb!Frames
    BY <1>1, <1>2, <1>3
<1>. QED
    BY <1>1, <1>2, <1>3, <1>4 DEF Glb!Frames

LEMMA EntryTaken ==
    ASSUME Glb!WellFormed, NEW t \in Seq(Nat), WalkInv(t), Glb!NextEntry
    PROVE  WalkInv(t)'
<1> DEFINE N == Len(stack)
<1>1. /\ call = Glb!NoCall /\ stack # <<>> /\ cut' = cut /\ matched' = matched
    BY DEF Glb!NextEntry, Glb!Reading
<1>2. PICK q \in Glb!Frame.todo : /\ call' = Glb!Call(q, Glb!Frame.rest)
                                  /\ stack' = [stack EXCEPT ![N].todo = @ \ {q}]
    BY DEF Glb!NextEntry
<1>3. /\ stack \in Seq(Glb!Frames) /\ N \in Nat \ {0} /\ DOMAIN stack = 1 .. N
      /\ N \in DOMAIN stack /\ Glb!Frame = stack[N]
      /\ Glb!Frame \in Glb!Frames /\ Glb!Frame.todo \subseteq Tree
    BY <1>1, FrameIs
<1> DEFINE G == [stack[N] EXCEPT !.todo = @ \ {q}]
<1>4. /\ G \in Glb!Frames /\ G.rest = stack[N].rest /\ G.todo = stack[N].todo \ {q}
    BY <1>3 DEF Glb!Frames
<1>5. stack' = [stack EXCEPT ![N] = G]
    BY <1>2, <1>3
<1> HIDE DEF G, N
<1>6. /\ stack' \in Seq(Glb!Frames) /\ DOMAIN stack' = 1 .. N /\ stack'[N] = G
      /\ \A i \in 1 .. N : i # N => stack'[i] = stack[i]
  <2>1. stack \in [1 .. N -> Glb!Frames]
      BY <1>3 DEF N
  <2>2. stack' \in [1 .. N -> Glb!Frames]
      BY <1>4, <1>5, <2>1
  <2>3. stack' \in Seq(Glb!Frames)
      BY <1>3, <2>2, IsSeq
  <2>. QED
      BY <1>3, <1>5, <2>2, <2>3
<1>7. stack' # <<>> /\ q \in Tree /\ q # <<>>
  <2>1. 1 \in DOMAIN stack'
      BY <1>3, <1>6
  <2>2. q \in Tree
      BY <1>2, <1>3
  <2>. QED
      BY <2>1, <2>2, TreeIs
<1>8. call'.path = q /\ call'.at = stack[N].rest /\ call' # Glb!NoCall
    BY <1>2, <1>3, <1>7, CallIs
<1>9. stack[N].rest \in {0, Len(t)} /\ Goes(t, q, stack[N].rest)
    BY <1>2, <1>3 DEF WalkInv, StackInv
<1>10. CutInv(t)' /\ CallInv(t)'
    BY <1>1, <1>7, <1>8, <1>9 DEF WalkInv, CutInv, CallInv
<1>11. StackInv(t)'
  <2>1. ASSUME NEW i \in 1 .. N
        PROVE  stack'[i].rest \in {0, Len(t)} /\ \A o \in stack'[i].todo : Goes(t, o, stack'[i].rest)
    <3>1. stack'[i].rest = stack[i].rest /\ stack'[i].todo \subseteq stack[i].todo
        BY <1>4, <1>6
    <3>. QED
        BY <1>3, <3>1 DEF WalkInv, StackInv
  <2>. QED
      BY <1>6, <2>1 DEF StackInv
<1>12. FoundInv(t)'
  <2>1. ASSUME NEW m \in Waiting(t) PROVE m \in Waiting(t)' \/ m \in Under(t, q)
    <3>1. PICK i \in 1 .. N : \E o \in stack[i].todo : m \in Under(t, o)
        BY <1>3 DEF Waiting
    <3>2. PICK o \in stack[i].todo : m \in Under(t, o)
        BY <3>1
    <3>3. o = q \/ o \in stack'[i].todo
        BY <1>4, <1>6
    <3>4. m \in Hits(t) /\ i \in DOMAIN stack'
        BY <1>6 DEF Waiting
    <3>. QED
        BY <3>2, <3>3, <3>4 DEF Waiting
  <2>2. \A m \in Hits(t) : m \in matched \/ m \in Waiting(t)
      BY <1>1 DEF WalkInv, FoundInv
  <2>3. matched \subseteq Hits(t)
      BY DEF WalkInv, FoundInv
  <2>. QED
      BY <1>1, <1>8, <2>1, <2>2, <2>3 DEF FoundInv
<1>. QED
    BY <1>10, <1>11, <1>12 DEF WalkInv

LEMMA FrontOf ==
    ASSUME NEW D, NEW s \in Seq(D), s # <<>>
    PROVE  LET r == SubSeq(s, 1, Len(s) - 1)
           IN  /\ r \in Seq(D) /\ Len(r) = Len(s) - 1 /\ DOMAIN r = 1 .. Len(s) - 1
               /\ \A i \in 1 .. Len(s) - 1 : r[i] = s[i] /\ i \in DOMAIN s
               /\ DOMAIN s = 1 .. Len(s) /\ Len(s) \in Nat \ {0}
<1>1. Len(s) \in Nat \ {0} /\ DOMAIN s = 1 .. Len(s)
    OBVIOUS
<1> DEFINE n == Len(s) - 1
           r == SubSeq(s, 1, n)
<1>2. n \in Nat /\ n \in Int /\ 1 \in Int /\ n <= Len(s) /\ n - 1 + 1 = n /\ \A i \in 1 .. n : 1 + i - 1 = i
    BY <1>1
<1>3. \A i \in 1 .. n : i \in 1 .. Len(s) /\ s[i] \in D
    BY <1>1
<1>4. r = [i \in 1 .. n |-> s[1 + i - 1]]
    BY <1>1, <1>2
<1> HIDE DEF n, r
<1>5. r = [i \in 1 .. n |-> s[i]]
    BY <1>2, <1>4
<1>6. r \in [1 .. n -> D] /\ \A i \in 1 .. n : r[i] = s[i]
    BY <1>3, <1>5
<1>7. r \in Seq(D) /\ Len(r) = n /\ DOMAIN r = 1 .. n
    BY <1>2, <1>6, IsSeq
<1>. QED
    BY <1>1, <1>3, <1>6, <1>7 DEF n, r

LEMMA DirectoryEnds ==
    ASSUME Glb!WellFormed, NEW t \in Seq(Nat), WalkInv(t), Glb!EndDirectory,
           failed = {}, failed' = {}
    PROVE  WalkInv(t)'
<1> DEFINE N == Len(stack)
           r == SubSeq(stack, 1, N - 1)
<1>1. /\ call = Glb!NoCall /\ call' = call /\ stack # <<>> /\ cut' = cut /\ matched' = matched
      /\ Glb!Frame.todo = {} /\ stack' = r
    BY GlbSame DEF Glb!EndDirectory, Glb!Reading, Glb!StopReading
<1>2. /\ stack \in Seq(Glb!Frames) /\ N \in Nat \ {0} /\ DOMAIN stack = 1 .. N /\ stack[N].todo = {}
    BY <1>1, FrameIs
<1>3. /\ r \in Seq(Glb!Frames) /\ DOMAIN r = 1 .. N - 1
      /\ \A i \in 1 .. N - 1 : r[i] = stack[i] /\ i \in DOMAIN stack
    BY <1>1, <1>2, FrontOf
<1> HIDE DEF r, N
<1>4. call'.at = 0
    BY <1>1, CallIs
<1>5. CutInv(t)' /\ CallInv(t)'
    BY <1>1, <1>4 DEF WalkInv, CutInv, CallInv
<1>6. StackInv(t)'
    BY <1>1, <1>3 DEF WalkInv, StackInv
<1>7. FoundInv(t)'
  <2>1. ASSUME NEW m \in Waiting(t) PROVE m \in Waiting(t)'
    <3>1. PICK i \in 1 .. N : \E o \in stack[i].todo : m \in Under(t, o)
        BY <1>2 DEF Waiting
    <3>2. i # N
        BY <1>2, <3>1
    <3>3. i \in DOMAIN r /\ r[i] = stack[i]
        BY <1>2, <1>3, <3>2
    <3>4. m \in Hits(t)
        BY DEF Waiting
    <3>. QED
        BY <1>1, <3>1, <3>3, <3>4 DEF Waiting
  <2>. QED
      BY <1>1, <2>1 DEF WalkInv, FoundInv
<1>. QED
    BY <1>5, <1>6, <1>7 DEF WalkInv

(* The line that globbing makes: what the first n tokens stand for. *)

Out(l, n) == FlattenSeq([i \in 1 .. n |-> Glb!Meaning(l[i])])

LEMMA GlbFlattenSame == \A s : Glb!FlattenSeq(s) = FlattenSeq(s)
    BY DEF Glb!FlattenSeq, FlattenSeq

LEMMA MatchesFinite ==
    ASSUME Glb!WellFormed, NEW t \in Seq(Nat)
    PROVE  LET S == Glb!Matches(t)
           IN  /\ IsFiniteSet(S) /\ S \subseteq Seq(Nat) /\ Cardinality(S) \in Nat
               /\ S # {} => Cardinality(S) # 0
               /\ Glb!Sorted(S) \in Seq(S) /\ Glb!Sorted(S) \in Seq(Seq(Nat))
               /\ Len(Glb!Sorted(S)) = Cardinality(S)
<1> DEFINE S == Glb!Matches(t)
<1>1. S \subseteq Tree /\ IsFiniteSet(Tree) /\ Tree \subseteq Seq(Nat)
    BY MatchesAre, TreeIs
<1> HIDE DEF S
<1>2. IsFiniteSet(S) /\ S \subseteq Seq(Nat)
    BY <1>1, FS_Subset
<1>3. S # {} => Cardinality(S) # 0
    BY <1>2, FS_EmptySet
<1>4. /\ Cardinality(S) \in Nat
      /\ Glb!Sorted(S) \in Seq(S) /\ Len(Glb!Sorted(S)) = Cardinality(S)
    BY <1>2, SortedIs
<1>5. Glb!Sorted(S) \in Seq(Seq(Nat))
  <2> DEFINE r == Glb!Sorted(S)
  <2>1. r \in Seq(S)
      BY <1>4
  <2> HIDE DEF r
  <2>2. r \in Seq(Seq(Nat))
      BY <1>2, <2>1
  <2>. QED
      BY <2>2 DEF r
<1>. QED
    BY <1>2, <1>3, <1>4, <1>5 DEF S

LEMMA MeaningIs ==
    ASSUME Glb!WellFormed, NEW t \in Seq(Nat)
    PROVE  /\ Glb!Meaning(t) \in Seq(Seq(Nat)) /\ Len(Glb!Meaning(t)) \in Nat
           /\ ~Glb!Globbable(t) \/ Glb!Matches(t) = {} =>
                 Glb!Meaning(t) = <<Glb!Unescape(t)>>
           /\ Glb!Globbable(t) /\ Glb!Matches(t) # {} =>
                 Glb!Meaning(t) = Glb!Sorted(Glb!Matches(t))
<1>1. ~Glb!Globbable(t) \/ Glb!Matches(t) = {} => Glb!Meaning(t) = <<Glb!Unescape(t)>>
    BY DEF Glb!Meaning
<1>2. Glb!Globbable(t) /\ Glb!Matches(t) # {} =>
         Glb!Meaning(t) = Glb!Sorted(Glb!Matches(t))
    BY DEF Glb!Meaning
<1>3. Glb!Sorted(Glb!Matches(t)) \in Seq(Seq(Nat))
    BY MatchesFinite
<1>4. <<Glb!Unescape(t)>> \in Seq(Seq(Nat))
    BY UnescapeIs
<1> HIDE DEF Glb!Matches
<1>5. Glb!Meaning(t) \in Seq(Seq(Nat))
    BY <1>1, <1>2, <1>3, <1>4, Zenon
<1>. QED
    BY <1>1, <1>2, <1>5

LEMMA MapAppend ==
    ASSUME NEW D, NEW N \in Nat, NEW f, \A i \in 1 .. N : f[i] \in D, NEW n \in 0 .. N - 1
    PROVE  /\ [i \in 1 .. n |-> f[i]] \in Seq(D) /\ n + 1 \in 1 .. N
           /\ [i \in 1 .. n + 1 |-> f[i]] = Append([i \in 1 .. n |-> f[i]], f[n + 1])
<1> DEFINE a == [i \in 1 .. n |-> f[i]]
           b == [i \in 1 .. n + 1 |-> f[i]]
           c == Append(a, f[n + 1])
<1>1. n \in Nat /\ n + 1 \in Nat /\ n + 1 \in 1 .. N /\ 1 .. n \subseteq 1 .. N
      /\ 1 .. n + 1 \subseteq 1 .. N
    OBVIOUS
<1>2. a \in [1 .. n -> D] /\ b \in [1 .. n + 1 -> D]
    BY <1>1
<1>3. /\ a \in Seq(D) /\ Len(a) = n
      /\ b \in Seq(D) /\ Len(b) = n + 1
    BY <1>1, <1>2, IsSeq
<1>4. (\A i \in 1 .. n : a[i] = f[i]) /\ \A i \in 1 .. n + 1 : b[i] = f[i]
    OBVIOUS
<1>5. f[n + 1] \in D
    BY <1>1
<1> HIDE DEF a, b
<1>6. c \in Seq(D) /\ Len(c) = n + 1 /\ c[n + 1] = f[n + 1] /\ \A i \in 1 .. n : c[i] = a[i]
    BY <1>3, <1>5, AppendIs
<1>7. \A i \in 1 .. n + 1 : i \in 1 .. n \/ i = n + 1
    BY <1>1
<1> HIDE DEF c
<1>8. \A i \in 1 .. n + 1 : b[i] = c[i]
    BY <1>4, <1>6, <1>7
<1>9. b = c
    BY <1>3, <1>6, <1>8, SeqEqual
<1>. QED
    BY <1>1, <1>3, <1>9 DEF a, b, c

LEMMA OutIs ==
    ASSUME Glb!WellFormed, NEW l \in Lines
    PROVE  /\ l \in Seq(Seq(Nat)) /\ Len(l) \in Nat /\ DOMAIN l = 1 .. Len(l)
           /\ \A i \in 1 .. Len(l) : l[i] \in Seq(Nat)
           /\ Out(l, 0) = <<>>
           /\ \A n \in 0 .. Len(l) : Out(l, n) \in Seq(Seq(Nat)) /\ Len(Out(l, n)) \in Nat
           /\ \A n \in 0 .. Len(l) - 1 : Out(l, n + 1) = Out(l, n) \o Glb!Meaning(l[n + 1])
<1>1. l \in Seq(Seq(Nat)) /\ Len(l) \in Nat /\ DOMAIN l = 1 .. Len(l)
  <2>1. l \in Seq(Seq(Nat))
      BY DEF Glb!WellFormed
  <2>. QED
      BY <2>1
<1>2. \A i \in 1 .. Len(l) : l[i] \in Seq(Nat)
    BY <1>1
<1> DEFINE E == Seq(Nat)
           N == Len(l)
           f == [i \in 1 .. N |-> Glb!Meaning(l[i])]
           M(n) == [i \in 1 .. n |-> f[i]]
           none == <<>>
<1>3. \A i \in 1 .. N : f[i] = Glb!Meaning(l[i]) /\ f[i] \in Seq(E)
    BY <1>2, MeaningIs
<1>4. ASSUME NEW n \in 0 .. N PROVE Out(l, n) = FlattenSeq(M(n))
  <2>1. \A i \in 1 .. n : i \in 1 .. N
      BY <1>1
  <2>2. [i \in 1 .. n |-> Glb!Meaning(l[i])] = M(n)
      BY <1>3, <2>1
  <2>. QED
      BY <2>2 DEF Out
<1> HIDE DEF f
<1>5. \A n \in 0 .. N : n \in Nat
    BY <1>1
<1>6. ASSUME NEW n \in 0 .. N PROVE M(n) \in Seq(Seq(E))
  <2>1. \A i \in 1 .. n : i \in 1 .. N
      BY <1>1
  <2>2. M(n) \in [1 .. n -> Seq(E)]
      BY <1>3, <2>1
  <2>3. n \in Nat
      BY <1>5
  <2> HIDE DEF M
  <2>. QED
      BY <2>2, <2>3, IsSeq
<1>7. ASSUME NEW n \in 0 .. N - 1
      PROVE  M(n + 1) = Append(M(n), f[n + 1]) /\ n \in 0 .. N /\ n + 1 \in 0 .. N /\ n + 1 \in 1 .. N
  <2>1. n \in 0 .. N /\ n + 1 \in 0 .. N /\ n + 1 \in 1 .. N
      BY <1>1
  <2> DEFINE D == Seq(E)
  <2>2. N \in Nat /\ \A i \in 1 .. N : f[i] \in D
      BY <1>1, <1>3
  <2> HIDE DEF D, N
  <2>3. M(n + 1) = Append(M(n), f[n + 1])
      BY <2>2, MapAppend
  <2>. QED
      BY <2>1, <2>3
<1>8. M(0) = none
    OBVIOUS
<1> HIDE DEF M, N, none
<1>9. Out(l, 0) = none
  <2>1. 0 \in 0 .. N
      BY <1>1 DEF N
  <2>2. FlattenSeq(none) = none
      BY FlattenIs DEF none
  <2>. QED
      BY <1>4, <1>8, <2>1, <2>2
<1>10. \A n \in 0 .. N : Out(l, n) \in Seq(E)
    BY <1>4, <1>6, FlattenIs
<1>11. ASSUME NEW n \in 0 .. N - 1 PROVE Out(l, n + 1) = Out(l, n) \o Glb!Meaning(l[n + 1])
  <2>1. M(n) \in Seq(Seq(E)) /\ f[n + 1] \in Seq(E) /\ f[n + 1] = Glb!Meaning(l[n + 1])
      BY <1>3, <1>6, <1>7
  <2>2. FlattenSeq(Append(M(n), f[n + 1])) = FlattenSeq(M(n)) \o f[n + 1]
      BY <2>1, FlattenIs
  <2>. QED
      BY <1>4, <1>7, <2>1, <2>2
<1>12. \A n \in 0 .. N : Len(Out(l, n)) \in Nat
    BY <1>10
<1>. QED
    BY <1>1, <1>2, <1>9, <1>10, <1>11, <1>12 DEF N, none

\* The tokens before the nth of the line as typed have been expanded, the
\* others are as typed.
Replaced(l, toks, n) ==
    /\ n \in 0 .. Len(l) /\ toks \in Seq(Seq(Nat))
    /\ Len(toks) = Len(Out(l, n)) + Len(l) - n
    /\ \A i \in 1 .. Len(Out(l, n)) : toks[i] = Out(l, n)[i]
    /\ \A j \in 1 .. Len(l) - n : toks[Len(Out(l, n)) + j] = l[n + j]

LEMMA Parts ==
    ASSUME NEW D, NEW s \in Seq(D), NEW p \in 1 .. Len(s)
    PROVE  /\ SubSeq(s, 1, p - 1) \in Seq(D) /\ Len(SubSeq(s, 1, p - 1)) = p - 1
           /\ \A i \in 1 .. p - 1 : SubSeq(s, 1, p - 1)[i] = s[i]
           /\ SubSeq(s, p + 1, Len(s)) \in Seq(D) /\ Len(SubSeq(s, p + 1, Len(s))) = Len(s) - p
           /\ \A i \in 1 .. Len(s) - p : SubSeq(s, p + 1, Len(s))[i] = s[p + i]
<1> DEFINE L == Len(s)
           q == p - 1
           r == p + 1
           a == SubSeq(s, 1, q)
           b == SubSeq(s, r, L)
<1>1. L \in Nat /\ p \in Nat /\ 1 <= p /\ p <= L /\ \A i \in 1 .. L : s[i] \in D
    OBVIOUS
<1>2. /\ 1 \in Int /\ q \in Int /\ r \in Int /\ L \in Int
      /\ \A i \in 1 .. q : s[i] \in D
    BY <1>1
<1>3. \A i \in r .. L : s[i] \in D
    BY <1>1
<1>4. a \in Seq(D) /\ Len(a) = (IF 1 <= q THEN q - 1 + 1 ELSE 0)
      /\ \A i \in 1 .. q - 1 + 1 : a[i] = s[1 + i - 1]
    BY <1>2, SubSeqProperties
<1>5. b \in Seq(D) /\ Len(b) = (IF r <= L THEN L - r + 1 ELSE 0)
      /\ \A i \in 1 .. L - r + 1 : b[i] = s[r + i - 1]
    BY <1>2, <1>3, SubSeqProperties
<1> HIDE DEF a, b, L
<1>6. Len(a) = p - 1 /\ q - 1 + 1 = p - 1 /\ \A i \in 1 .. p - 1 : 1 + i - 1 = i
    BY <1>1, <1>4
<1>7. Len(b) = L - p /\ L - r + 1 = L - p /\ \A j \in 1 .. L - p : r + j - 1 = p + j
    BY <1>1, <1>5
<1>8. \A i \in 1 .. p - 1 : a[i] = s[i]
    BY <1>4, <1>6
<1>9. \A i \in 1 .. L - p : b[i] = s[p + i]
    BY <1>5, <1>7
<1>. QED
    BY <1>4, <1>5, <1>6, <1>7, <1>8, <1>9 DEF a, b, L

LEMMA JoinIs ==
    ASSUME NEW D, NEW a \in Seq(D), NEW b \in Seq(D)
    PROVE  /\ a \o b \in Seq(D) /\ Len(a \o b) = Len(a) + Len(b)
           /\ \A j \in 1 .. Len(a) : (a \o b)[j] = a[j]
           /\ \A j \in 1 .. Len(b) : (a \o b)[Len(a) + j] = b[j]
<1> DEFINE c == a \o b
<1>1. /\ c \in Seq(D) /\ Len(c) = Len(a) + Len(b) /\ \A j \in 1 .. Len(a) : c[j] = a[j]
      /\ \A j \in Len(a) + 1 .. Len(a) + Len(b) : c[j] = b[j - Len(a)]
    BY ConcatIs
<1> HIDE DEF c
<1>2. Len(a) \in Nat /\ Len(b) \in Nat
    OBVIOUS
<1>3. \A j \in 1 .. Len(b) : Len(a) + j \in Len(a) + 1 .. Len(a) + Len(b) /\ Len(a) + j - Len(a) = j
    BY <1>2
<1>4. ASSUME NEW j \in 1 .. Len(b) PROVE c[Len(a) + j] = b[j]
  <2> DEFINE i == Len(a) + j
  <2>1. i \in Len(a) + 1 .. Len(a) + Len(b) /\ i - Len(a) = j
      BY <1>3
  <2> HIDE DEF i
  <2>2. c[i] = b[j]
      BY <1>1, <2>1
  <2>. QED
      BY <2>2 DEF i
<1>. QED
    BY <1>1, <1>4 DEF c

\* Between o and the tail there is one token, which is replaced by M.
Around(D, toks, o, k, tail) ==
    /\ toks \in Seq(D) /\ o \in Seq(D) /\ k \in Nat
    /\ Len(toks) = Len(o) + 1 + k
    /\ \A i \in 1 .. Len(o) : toks[i] = o[i]
    /\ \A j \in 1 .. k : toks[Len(o) + 1 + j] = tail[j]

Spliced(D, w, y, o, M, k, tail) ==
    /\ w \in Seq(D) /\ y \in Seq(D) /\ Len(y) = Len(o) + Len(M) /\ Len(w) = Len(y) + k
    /\ \A i \in 1 .. Len(y) : w[i] = y[i]
    /\ \A j \in 1 .. k : w[Len(y) + j] = tail[j]
    /\ \A i \in 1 .. Len(M) : y[Len(o) + i] = M[i]

LEMMA ReplacedOne ==
    ASSUME NEW D, NEW toks, NEW o, NEW k, NEW tail, Around(D, toks, o, k, tail),
           NEW M \in Seq(D),
           NEW w, w = SubSeq(toks, 1, Len(o)) \o M \o SubSeq(toks, Len(o) + 2, Len(toks)),
           NEW y, y = o \o M
    PROVE  Spliced(D, w, y, o, M, k, tail)
<1> DEFINE a == SubSeq(toks, 1, Len(o))
           b == SubSeq(toks, Len(o) + 2, Len(toks))
           p == Len(o) + 1
           c == a \o M
           u == c \o b
           v == o \o M
           L == Len(o)
           m == Len(M)
<1>0. /\ toks \in Seq(D) /\ o \in Seq(D) /\ k \in Nat /\ Len(toks) = Len(o) + 1 + k
      /\ \A i \in 1 .. Len(o) : toks[i] = o[i]
      /\ \A j \in 1 .. k : toks[Len(o) + 1 + j] = tail[j]
    BY DEF Around
<1>1. L \in Nat /\ m \in Nat /\ Len(toks) \in Nat
    BY <1>0
<1>2. p \in 1 .. Len(toks) /\ p - 1 = L /\ p + 1 = L + 2 /\ Len(toks) - p = k /\ p = L + 1
    BY <1>0, <1>1
<1>3. /\ a \in Seq(D) /\ Len(a) = L /\ \A i \in 1 .. L : a[i] = toks[i]
      /\ b \in Seq(D) /\ Len(b) = k
    BY <1>0, <1>2, Parts
<1>4. \A i \in 1 .. k : b[i] = toks[p + i]
    BY <1>0, <1>2, Parts
<1> HIDE DEF a, b, L, m
<1>5. /\ c \in Seq(D) /\ Len(c) = L + m /\ \A i \in 1 .. L : c[i] = a[i]
      /\ \A i \in 1 .. m : c[L + i] = M[i]
  <2>1. /\ c \in Seq(D) /\ Len(c) = Len(a) + Len(M)
        /\ \A i \in 1 .. Len(a) : c[i] = a[i]
        /\ \A i \in 1 .. Len(M) : c[Len(a) + i] = M[i]
    <3>1. a \in Seq(D)
        BY <1>3
    <3>. QED
        BY <3>1, JoinIs
  <2>2. Len(M) = m
      BY DEF m
  <2> HIDE DEF c
  <2>. QED
      BY <1>3, <2>1, <2>2
<1>6. /\ v \in Seq(D) /\ Len(v) = L + m /\ \A i \in 1 .. L : v[i] = o[i]
      /\ \A i \in 1 .. m : v[L + i] = M[i]
  <2>1. /\ v \in Seq(D) /\ Len(v) = Len(o) + Len(M)
        /\ \A i \in 1 .. Len(o) : v[i] = o[i]
        /\ \A i \in 1 .. Len(M) : v[Len(o) + i] = M[i]
      BY <1>0, JoinIs
  <2> HIDE DEF v
  <2>. QED
      BY <2>1 DEF m, L
<1> DEFINE n == L + m
<1> HIDE DEF c, v
<1>7. n \in Nat /\ Len(c) = n
    BY <1>1, <1>5
<1> HIDE DEF n
<1>8. /\ u \in Seq(D) /\ Len(u) = n + k /\ \A i \in 1 .. n : u[i] = c[i]
      /\ \A i \in 1 .. k : u[n + i] = b[i]
  <2>1. /\ u \in Seq(D) /\ Len(u) = Len(c) + Len(b)
        /\ \A i \in 1 .. Len(c) : u[i] = c[i]
        /\ \A i \in 1 .. Len(b) : u[Len(c) + i] = b[i]
    <3>1. c \in Seq(D) /\ b \in Seq(D)
        BY <1>3, <1>5
    <3>. QED
        BY <3>1, JoinIs
  <2> HIDE DEF u
  <2>. QED
      BY <1>3, <1>7, <2>1
<1> HIDE DEF u
<1>9. \A i \in 1 .. L : toks[i] = o[i] /\ a[i] = toks[i]
    BY <1>0, <1>3 DEF L
<1>10. ASSUME NEW i \in 1 .. n PROVE u[i] = v[i]
  <2>1. CASE i \in 1 .. L
      BY <1>5, <1>6, <1>8, <1>9, <2>1
  <2>2. CASE i \notin 1 .. L
    <3> DEFINE j == i - L
    <3>1. j \in 1 .. m /\ L + j = i
        BY <1>1, <2>2 DEF n
    <3> HIDE DEF j
    <3>2. c[L + j] = M[j] /\ v[L + j] = M[j]
        BY <1>5, <1>6, <3>1
    <3>3. u[i] = c[i]
        BY <1>8
    <3>. QED
        BY <3>1, <3>2, <3>3
  <2>. QED
      BY <2>1, <2>2
<1>11. \A j \in 1 .. k : b[j] = tail[j]
    BY <1>0, <1>4 DEF p
<1>12. /\ u \in Seq(D) /\ v \in Seq(D) /\ Len(v) = L + m /\ Len(v) = n /\ Len(u) = Len(v) + k
       /\ \A i \in 1 .. Len(v) : u[i] = v[i]
       /\ \A j \in 1 .. k : u[Len(v) + j] = tail[j]
    BY <1>0, <1>6, <1>8, <1>10, <1>11 DEF n
<1>13. w = u /\ y = v
    BY DEF u, v, c, a, b
<1>14. Spliced(D, u, v, o, M, k, tail)
    BY <1>6, <1>12 DEF L, m, Spliced
<1>. QED
    BY <1>13, <1>14

LEMMA ReplacedNext ==
    ASSUME Glb!WellFormed, NEW l \in Lines, NEW n \in 0 .. Len(l) - 1, NEW toks, Replaced(l, toks, n)
    PROVE  LET p == Len(Out(l, n)) + 1
               M == Glb!Meaning(l[n + 1])
           IN  /\ p \in 1 .. Len(toks) /\ toks[p] = l[n + 1] /\ l[n + 1] \in Seq(Nat)
               /\ Len(Out(l, n + 1)) = Len(Out(l, n)) + Len(M)
               /\ \A i \in 1 .. Len(M) : Out(l, n + 1)[Len(Out(l, n)) + i] = M[i]
               /\ Replaced(l, SubSeq(toks, 1, p - 1) \o M \o SubSeq(toks, p + 1, Len(toks)), n + 1)
               /\ \A y : M = <<y>> => Replaced(l, [toks EXCEPT ![p] = y], n + 1)
<1> DEFINE D == Seq(Nat)
           o == Out(l, n)
           v == Out(l, n + 1)
           x == l[n + 1]
           M == Glb!Meaning(x)
           L == Len(o)
           p == L + 1
           k == Len(l) - (n + 1)
           tail == [j \in 1 .. k |-> l[n + 1 + j]]
           u == SubSeq(toks, 1, p - 1) \o M \o SubSeq(toks, p + 1, Len(toks))
<1>1. l \in Seq(D) /\ Len(l) \in Nat /\ n \in Nat /\ n + 1 \in 1 .. Len(l)
  <2>1. Len(l) \in Nat /\ l \in Seq(D)
      BY OutIs
  <2>. QED
      BY <2>1
<1>2. k \in Nat /\ n \in 0 .. Len(l) /\ n + 1 \in 0 .. Len(l) /\ Len(l) - n = 1 + k
    BY <1>1
<1>3. /\ o \in Seq(D) /\ L \in Nat /\ v \in Seq(D) /\ v = o \o M /\ x \in D
    BY <1>1, <1>2, OutIs
<1>4. M \in Seq(D) /\ Len(M) \in Nat
    BY <1>3, MeaningIs
<1>5. /\ toks \in Seq(D) /\ Len(toks) = L + Len(l) - n
      /\ \A i \in 1 .. L : toks[i] = o[i]
      /\ \A j \in 1 .. Len(l) - n : toks[L + j] = l[n + j]
    BY DEF Replaced
<1> HIDE DEF k, L, o, v, M, x, D
<1>6. Len(toks) = L + 1 + k
  <2>1. L \in Nat /\ Len(l) \in Nat /\ n \in Nat /\ k \in Nat /\ Len(l) - n = 1 + k
      BY <1>1, <1>2, <1>3
  <2>2. L + Len(l) - n = L + 1 + k
      BY <2>1
  <2>. QED
      BY <1>5, <2>2
<1>7. p \in 1 .. Len(toks) /\ p - 1 = L /\ p + 1 = L + 2
    BY <1>2, <1>3, <1>6
<1>8. toks[p] = x
  <2>1. 1 \in 1 .. Len(l) - n
      BY <1>2
  <2>. QED
      BY <1>5, <2>1 DEF x
<1>9. ASSUME NEW j \in 1 .. k PROVE toks[L + 1 + j] = tail[j] /\ tail[j] = l[n + 1 + j]
  <2>1. 1 + j \in 1 .. Len(l) - n /\ L + (1 + j) = L + 1 + j /\ n + (1 + j) = n + 1 + j
      BY <1>1, <1>2, <1>3
  <2>2. toks[L + (1 + j)] = l[n + (1 + j)]
      BY <1>5, <2>1
  <2>. QED
      BY <2>1, <2>2
<1> HIDE DEF tail
<1>10. /\ u \in Seq(D) /\ Len(v) = L + Len(M) /\ Len(u) = Len(v) + k
       /\ \A i \in 1 .. Len(v) : u[i] = v[i]
       /\ \A j \in 1 .. k : u[Len(v) + j] = tail[j]
       /\ \A i \in 1 .. Len(M) : v[L + i] = M[i]
  <2> DEFINE w == SubSeq(toks, 1, Len(o)) \o M \o SubSeq(toks, Len(o) + 2, Len(toks))
             y == o \o M
  <2>1. /\ toks \in Seq(D) /\ o \in Seq(D) /\ M \in Seq(D) /\ k \in Nat
        /\ Len(toks) = Len(o) + 1 + k
        /\ \A i \in 1 .. Len(o) : toks[i] = o[i]
        /\ \A j \in 1 .. k : toks[Len(o) + 1 + j] = tail[j]
      BY <1>2, <1>3, <1>4, <1>5, <1>6, <1>9 DEF L
  <2>0. Around(D, toks, o, k, tail)
      BY <2>1 DEF Around
  <2>2. /\ w \in Seq(D) /\ Len(y) = Len(o) + Len(M) /\ Len(w) = Len(y) + k
        /\ \A i \in 1 .. Len(y) : w[i] = y[i]
        /\ \A j \in 1 .. k : w[Len(y) + j] = tail[j]
        /\ \A i \in 1 .. Len(M) : y[Len(o) + i] = M[i]
    <3>1. /\ w = SubSeq(toks, 1, Len(o)) \o M \o SubSeq(toks, Len(o) + 2, Len(toks))
          /\ y = o \o M
        OBVIOUS
    <3>2. M \in Seq(D)
        BY <2>1
    <3> HIDE DEF w, y, p
    <3>3. \A ww, yy :
             /\ ww = SubSeq(toks, 1, Len(o)) \o M \o SubSeq(toks, Len(o) + 2, Len(toks))
             /\ yy = o \o M
             => Spliced(D, ww, yy, o, M, k, tail)
        BY <2>0, <3>2, ReplacedOne
    <3>4. Spliced(D, w, y, o, M, k, tail)
        BY <3>1, <3>3
    <3>. QED
        BY <3>4 DEF Spliced
  <2>3. u = w /\ v = y
      BY <1>3, <1>7 DEF L
  <2> HIDE DEF w, y
  <2>. QED
      BY <2>2, <2>3 DEF L
<1> HIDE DEF u
<1>11. Len(l) - (n + 1) = k /\ n + 1 \in 0 .. Len(l)
    BY <1>2 DEF k
<1>12. Len(v) \in Nat /\ Len(l) \in Nat
    BY <1>1, <1>3
<1>13. Len(v) + k = Len(v) + Len(l) - (n + 1)
    BY <1>1, <1>11, <1>12
<1>14. Replaced(l, u, n + 1)
  <2>1. \A j \in 1 .. Len(l) - (n + 1) : u[Len(v) + j] = l[n + 1 + j]
      BY <1>9, <1>10, <1>11
  <2>2. Len(u) = Len(v) + Len(l) - (n + 1)
      BY <1>10, <1>13
  <2>3. u \in Seq(Seq(Nat))
      BY <1>10 DEF D
  <2>. QED
      BY <1>10, <1>11, <2>1, <2>2, <2>3 DEF Replaced, v
<1>15. ASSUME NEW y, M = <<y>> PROVE Replaced(l, [toks EXCEPT ![p] = y], n + 1)
  <2> DEFINE w == [toks EXCEPT ![p] = y]
  <2>1. Len(M) = 1 /\ M[1] = y /\ y \in D
      BY <1>4, <1>15
  <2>2. Len(v) = L + 1 /\ v[L + 1] = y
      BY <1>10, <2>1
  <2>3. \A i \in 1 .. L : v[i] = o[i]
      BY <1>3, <1>4, ConcatIs DEF L
  <2>4. w \in Seq(D) /\ Len(w) = Len(toks) /\ DOMAIN toks = 1 .. Len(toks)
      BY <1>5, <1>7, <2>1, ExceptSeq
  <2>5. w[p] = y /\ \A i \in 1 .. Len(toks) : i # p => w[i] = toks[i]
      BY <1>7, <2>4
  <2> HIDE DEF w
  <2>6. \A i \in 1 .. L + 1 : i \in 1 .. Len(toks) /\ ((i \in 1 .. L /\ i # p) \/ i = p)
      BY <1>2, <1>3, <1>6
  <2>7. \A i \in 1 .. Len(v) : w[i] = v[i]
      BY <1>5, <2>2, <2>3, <2>5, <2>6
  <2>8. \A j \in 1 .. k : Len(v) + j \in 1 .. Len(toks) /\ Len(v) + j # p
      BY <1>2, <1>3, <1>6, <2>2
  <2>9. \A j \in 1 .. Len(l) - (n + 1) : w[Len(v) + j] = l[n + 1 + j]
      BY <1>9, <1>11, <2>2, <2>5, <2>8
  <2>10. Len(w) = Len(v) + Len(l) - (n + 1)
      BY <1>6, <1>13, <2>2, <2>4
  <2>11. w \in Seq(Seq(Nat))
      BY <2>4 DEF D
  <2>12. Replaced(l, w, n + 1)
      BY <1>11, <2>7, <2>9, <2>10, <2>11 DEF Replaced, v
  <2>. QED
      BY <2>12 DEF w
<1>16. x \in Seq(Nat)
    BY <1>3 DEF D
<1>. QED
    BY <1>7, <1>8, <1>10, <1>14, <1>15, <1>16 DEF u, v, M, x, L, o

\* The whole line has been expanded.
LEMMA ReplacedAll ==
    ASSUME Glb!WellFormed, NEW l \in Lines, NEW toks, Replaced(l, toks, Len(l))
    PROVE  toks = Out(l, Len(l))
<1> DEFINE o == Out(l, Len(l))
<1>1. Len(l) \in Nat /\ Len(l) \in 0 .. Len(l)
    BY OutIs
<1>2. o \in Seq(Seq(Nat)) /\ Len(o) \in Nat
    BY <1>1, OutIs
<1>3. /\ toks \in Seq(Seq(Nat)) /\ Len(toks) = Len(o) + Len(l) - Len(l)
      /\ \A i \in 1 .. Len(o) : toks[i] = o[i]
    BY DEF Replaced
<1> HIDE DEF o
<1>4. Len(toks) = Len(o)
    BY <1>1, <1>2, <1>3
<1>5. toks = o
    BY <1>2, <1>3, <1>4, SeqEqual
<1>. QED
    BY <1>5 DEF o

LEMMA ReplacedNone ==
    ASSUME Glb!WellFormed, NEW l \in Lines
    PROVE  Replaced(l, l, 0) /\ Len(Out(l, 0)) = 0
<1>1. l \in Seq(Seq(Nat)) /\ Len(l) \in Nat /\ Out(l, 0) = <<>>
    BY OutIs
<1>2. Len(Out(l, 0)) = 0
    BY <1>1
<1>. QED
    BY <1>1, <1>2 DEF Replaced

\* A token that globbing leaves alone.
Settled(p) == ~Glb!Globbable(p) /\ Glb!Unescape(p) = p

(***************************************************************************)
(* The line while it is globbed.  As long as nothing has failed: the       *)
(* tokens behind us are expanded, those ahead are as typed, and globpos is *)
(* at the first of these or, once after each expansion, at the last file   *)
(* of those just put in, which is then taken for a token to be globbed.    *)
(***************************************************************************)
Between(n) ==
    /\ Replaced(typedline, tokens, n)
    /\ \/ globpos = Len(Out(typedline, n)) + 1
       \/ globpos = Len(Out(typedline, n)) /\ globpos # 0 /\ Settled(tokens[globpos])
Within(n) ==
    /\ Replaced(typedline, tokens, n) /\ n # Len(typedline)
    /\ globpos = Len(Out(typedline, n)) + 1
    /\ Glb!Globbable(typedline[n + 1]) /\ WalkInv(typedline[n + 1])
GlobInv ==
    /\ typedline \in Lines
    /\ failed = {} =>
          /\ globbing = "next" => stack = <<>> /\ \E n \in Nat : Between(n)
          /\ globbing = "match" => \E n \in Nat : Within(n)
          /\ globbing = "done" => tokens = Out(typedline, Len(typedline))
          /\ globbing \in {"next", "match", "done", "interrupted"}

\* Of a token with wildcards: at most one component follows the first of them,
\* the others have no backslash before them, and the last of the matches is
\* not called like a pattern and has no backslash.
Plainly ==
    \A l \in Lines : \A i \in DOMAIN l :
       Glb!Globbable(l[i]) =>
          /\ Shallow(l[i]) /\ Unquoted(l[i])
          /\ Glb!Matches(l[i]) # {} =>
                Settled(Glb!Meaning(l[i])[Cardinality(Glb!Matches(l[i]))])

LEMMA GlobBegins ==
    ASSUME Glb!WellFormed, Glb!Init
    PROVE  GlobInv
<1>1. /\ globbing = "next" /\ globpos = 1 /\ typedline \in Lines /\ tokens = typedline /\ stack = <<>>
    BY DEF Glb!Init
<1>2. Replaced(typedline, tokens, 0) /\ Len(Out(typedline, 0)) = 0
    BY <1>1, ReplacedNone
<1>3. Between(0)
    BY <1>1, <1>2 DEF Between
<1>4. \E n \in Nat : Between(n)
    BY <1>3
<1>. QED
    BY <1>1, <1>4 DEF GlobInv

\* Where the tokens that are ahead begin.
LEMMA AheadIs ==
    ASSUME Glb!WellFormed, typedline \in Lines, NEW n \in Nat, Replaced(typedline, tokens, n)
    PROVE  /\ Len(Out(typedline, n)) \in Nat /\ n \in 0 .. Len(typedline) /\ Len(typedline) \in Nat
           /\ Len(tokens) = Len(Out(typedline, n)) + (Len(typedline) - n)
           /\ n # Len(typedline) => n \in 0 .. Len(typedline) - 1 /\ n + 1 \in DOMAIN typedline
<1>1. Len(typedline) \in Nat /\ n \in 0 .. Len(typedline) /\ DOMAIN typedline = 1 .. Len(typedline)
    BY OutIs DEF Replaced
<1>2. Len(Out(typedline, n)) \in Nat
    BY <1>1, OutIs
<1>3. Len(tokens) = Len(Out(typedline, n)) + Len(typedline) - n
    BY DEF Replaced
<1>4. n # Len(typedline) => n \in 0 .. Len(typedline) - 1 /\ n + 1 \in 1 .. Len(typedline)
  <2> DEFINE L == Len(typedline)
  <2>1. L \in Nat /\ n \in 0 .. L
      BY <1>1
  <2> HIDE DEF L
  <2>2. n # L => n \in 0 .. L - 1 /\ n + 1 \in 1 .. L
      BY <2>1
  <2>. QED
      BY <2>2 DEF L
<1> DEFINE o == Len(Out(typedline, n))
           L == Len(typedline)
<1>5. o \in Nat /\ L \in Nat /\ n \in Nat
    BY <1>1, <1>2
<1> HIDE DEF o, L
<1>6. o + L - n = o + (L - n)
    BY <1>5
<1>. QED
    BY <1>1, <1>2, <1>3, <1>4, <1>6 DEF o, L

LEMMA AsTyped ==
    ASSUME Glb!WellFormed, typedline \in Lines, NEW n \in Nat, Replaced(typedline, tokens, n),
           n # Len(typedline), Glb!Matches(typedline[n + 1]) = {} \/ ~Glb!Globbable(typedline[n + 1])
    PROVE  LET p == Len(Out(typedline, n)) + 1
           IN  /\ Replaced(typedline, [tokens EXCEPT ![p] = Glb!Unescape(tokens[p])], n + 1)
               /\ Len(Out(typedline, n + 1)) = p
<1> DEFINE x == typedline[n + 1]
           p == Len(Out(typedline, n)) + 1
<1>1. n \in 0 .. Len(typedline) - 1
    BY AheadIs
<1>2. x \in Seq(Nat) /\ tokens[p] = x
    BY <1>1, ReplacedNext
<1>3. Glb!Meaning(x) = <<Glb!Unescape(x)>>
    BY <1>2, MeaningIs
<1>4. Len(Glb!Meaning(x)) = 1
    BY <1>3
<1>5. Len(Out(typedline, n + 1)) = Len(Out(typedline, n)) + Len(Glb!Meaning(x))
    BY <1>1, ReplacedNext
<1>6. \A y : Glb!Meaning(x) = <<y>> => Replaced(typedline, [tokens EXCEPT ![p] = y], n + 1)
    BY <1>1, ReplacedNext
<1>. QED
    BY <1>2, <1>3, <1>4, <1>5, <1>6

LEMMA LiteralPassed ==
    ASSUME Glb!WellFormed, GlobInv, Glb!Literal, failed = {}
    PROVE  GlobInv'
<1>1. /\ globbing = "next" /\ globbing' = "next" /\ globpos <= Len(tokens)
      /\ ~Glb!Globbable(tokens[globpos]) /\ globpos' = globpos + 1
      /\ tokens' = [tokens EXCEPT ![globpos] = Glb!Unescape(tokens[globpos])]
      /\ typedline' = typedline /\ failed' = failed /\ stack' = stack
    BY DEF Glb!Literal, Glb!TakeLiterally, Glb!AfterLiteral, Glb!match
<1>2. typedline \in Lines /\ stack = <<>>
    BY <1>1 DEF GlobInv
<1>3. PICK n \in Nat : Between(n)
    BY <1>1 DEF GlobInv
<1> DEFINE o == Len(Out(typedline, n))
<1>4. Replaced(typedline, tokens, n)
      /\ (globpos = o + 1 \/ (globpos = o /\ Settled(tokens[globpos])))
    BY <1>3 DEF Between
<1>5. \E m \in Nat : Replaced(typedline, tokens', m) /\ globpos + 1 = Len(Out(typedline, m)) + 1
  <2>1. CASE globpos = o /\ Settled(tokens[globpos])
    <3>1. Glb!Unescape(tokens[globpos]) = tokens[globpos]
        BY <2>1 DEF Settled
    <3>2. tokens' = tokens
      <4>1. tokens \in Seq(Seq(Nat))
          BY <1>4 DEF Replaced
      <4>2. tokens = [i \in DOMAIN tokens |-> tokens[i]]
          BY <4>1
      <4>. QED
          BY <1>1, <3>1, <4>2
    <3>. QED
        BY <1>4, <2>1, <3>2
  <2>2. CASE globpos = o + 1
    <3>1. n # Len(typedline)
      <4>1. /\ o \in Nat /\ Len(typedline) \in Nat
            /\ Len(tokens) = o + (Len(typedline) - n)
          BY <1>2, <1>4, AheadIs
      <4>2. o + 1 <= Len(tokens)
          BY <1>1, <2>2
      <4> HIDE DEF o
      <4>. QED
          BY <4>1, <4>2
    <3>2. tokens[globpos] = typedline[n + 1]
      <4>1. n \in 0 .. Len(typedline) - 1
          BY <1>2, <1>4, <3>1, AheadIs
      <4>2. tokens[o + 1] = typedline[n + 1]
          BY <1>2, <1>4, <4>1, ReplacedNext
      <4>. QED
          BY <2>2, <4>2
    <3>3. Replaced(typedline, tokens', n + 1) /\ Len(Out(typedline, n + 1)) = o + 1
      <4>1. ~Glb!Globbable(typedline[n + 1])
          BY <1>1, <3>2
      <4>. QED
          BY <1>1, <1>2, <1>4, <2>2, <3>1, <4>1, AsTyped
    <3>4. n + 1 \in Nat
        OBVIOUS
    <3>. QED
        BY <2>2, <3>3, <3>4
  <2>. QED
      BY <1>4, <2>1, <2>2
<1>6. \E m \in Nat : Between(m)'
    BY <1>1, <1>5 DEF Between
<1>. QED
    BY <1>1, <1>2, <1>6 DEF GlobInv

LEMMA TokenBegun ==
    ASSUME Glb!WellFormed, GlobInv, Glb!BeginToken, failed = {}
    PROVE  GlobInv'
<1>1. /\ globbing = "next" /\ globbing' = "match" /\ globpos <= Len(tokens)
      /\ Glb!Globbable(tokens[globpos]) /\ globpos' = globpos
      /\ tokens' = tokens /\ typedline' = typedline /\ failed' = failed
    BY DEF Glb!BeginToken
<1>2. typedline \in Lines /\ stack = <<>>
    BY <1>1 DEF GlobInv
<1>3. PICK n \in Nat : Between(n)
    BY <1>1 DEF GlobInv
<1> DEFINE o == Len(Out(typedline, n))
           t == typedline[n + 1]
<1>4. Replaced(typedline, tokens, n) /\ globpos = o + 1
    BY <1>1, <1>3 DEF Between, Settled
<1>5. n # Len(typedline)
  <2>1. /\ o \in Nat /\ Len(typedline) \in Nat
        /\ Len(tokens) = o + (Len(typedline) - n)
      BY <1>2, <1>4, AheadIs
  <2>2. o + 1 <= Len(tokens)
      BY <1>1, <1>4
  <2> HIDE DEF o
  <2>. QED
      BY <2>1, <2>2
<1>6. n \in 0 .. Len(typedline) - 1
    BY <1>2, <1>4, <1>5, AheadIs
<1>7. tokens[globpos] = t /\ t \in Seq(Nat)
    BY <1>2, <1>4, <1>6, ReplacedNext
<1>8. Glb!Globbable(t)
    BY <1>1, <1>7
<1>9. Len(t) # 0
    BY <1>7, <1>8 DEF Glb!Globbable
<1>10. PICK c : c = t
    OBVIOUS
<1>11. WalkInv(c)'
    BY <1>2, <1>7, <1>9, <1>10, WalkBegins
<1>12. Within(n)'
  <2>1. typedline'[n + 1] = c
      BY <1>1, <1>10
  <2>. QED
      BY <1>1, <1>4, <1>5, <1>8, <1>10, <1>11, <2>1 DEF Within
<1>. QED
    BY <1>1, <1>2, <1>12 DEF GlobInv

LEMMA LineDone ==
    ASSUME Glb!WellFormed, GlobInv, Glb!LineEnds, failed = {}
    PROVE  GlobInv'
<1>1. /\ globbing = "next" /\ globbing' = "done" /\ globpos > Len(tokens)
      /\ tokens' = tokens /\ typedline' = typedline /\ failed' = failed
    BY DEF Glb!LineEnds
<1>2. typedline \in Lines
    BY DEF GlobInv
<1>3. PICK n \in Nat : Between(n)
    BY <1>1 DEF GlobInv
<1> DEFINE o == Len(Out(typedline, n))
<1>4. Replaced(typedline, tokens, n) /\ (globpos = o + 1 \/ globpos = o)
    BY <1>3 DEF Between
<1>5. n = Len(typedline)
  <2>1. /\ o \in Nat /\ Len(typedline) \in Nat /\ n \in 0 .. Len(typedline)
        /\ Len(tokens) = o + (Len(typedline) - n)
      BY <1>2, <1>4, AheadIs
  <2> HIDE DEF o
  <2>. QED
      BY <1>1, <1>4, <2>1
<1>6. tokens = Out(typedline, Len(typedline))
    BY <1>2, <1>4, <1>5, ReplacedAll
<1>. QED
    BY <1>1, <1>2, <1>6 DEF GlobInv

LEMMA TokenWalked ==
    ASSUME Glb!WellFormed, typedline \in Lines, NEW n \in Nat, Within(n)
    PROVE  /\ Glb!Token = typedline[n + 1] /\ typedline[n + 1] \in Seq(Nat)
           /\ n \in 0 .. Len(typedline) - 1 /\ n + 1 \in DOMAIN typedline
           /\ Len(typedline[n + 1]) # 0
<1>1. Replaced(typedline, tokens, n) /\ n # Len(typedline)
      /\ globpos = Len(Out(typedline, n)) + 1 /\ Glb!Globbable(typedline[n + 1])
    BY DEF Within
<1>2. n \in 0 .. Len(typedline) - 1 /\ n + 1 \in DOMAIN typedline
    BY <1>1, AheadIs
<1>3. /\ tokens[Len(Out(typedline, n)) + 1] = typedline[n + 1]
      /\ typedline[n + 1] \in Seq(Nat)
    BY <1>1, <1>2, ReplacedNext
<1>4. Len(typedline[n + 1]) # 0
    BY <1>1, <1>3 DEF Glb!Globbable
<1>. QED
    BY <1>1, <1>2, <1>3, <1>4 DEF Glb!Token

\* What the walk does with one pattern, it does with the line.
LEMMA WalkKept ==
    ASSUME Glb!WellFormed, GlobInv, NEW n \in Nat, Within(n), failed = {}, globbing' = "match",
           tokens' = tokens, globpos' = globpos, typedline' = typedline,
           NEW t, t = typedline[n + 1], WalkInv(t)'
    PROVE  GlobInv'
<1>1. Within(n)'
  <2>1. typedline'[n + 1] = t
      OBVIOUS
  <2>. QED
      BY <2>1 DEF Within
<1>. QED
    BY <1>1 DEF GlobInv

LEMMA WalkGoesOn ==
    ASSUME Glb!WellFormed, Plainly, GlobInv, failed = {}, failed' = {},
           Glb!AddMatch \/ Glb!Exact \/ Glb!ReadDirectory \/ Glb!NextEntry \/ Glb!EndDirectory
    PROVE  GlobInv'
<1>1. /\ globbing = "match" /\ globbing' = "match"
      /\ tokens' = tokens /\ globpos' = globpos /\ typedline' = typedline
    BY DEF Glb!AddMatch, Glb!Exact, Glb!ReadDirectory, Glb!NextEntry, Glb!EndDirectory,
           Glb!Calling, Glb!Reading
<1>2. PICK n \in Nat : Within(n)
    BY <1>1 DEF GlobInv
<1>3. typedline \in Lines
    BY DEF GlobInv
<1>4. PICK t : t = typedline[n + 1]
    OBVIOUS
<1>5. Glb!Token = t /\ t \in Seq(Nat) /\ Len(t) # 0 /\ n + 1 \in DOMAIN typedline
    BY <1>2, <1>3, <1>4, TokenWalked
<1>6. WalkInv(t)
    BY <1>2, <1>4 DEF Within
<1>7. Shallow(t)
  <2>1. Glb!Globbable(t)
      BY <1>2, <1>4 DEF Within
  <2>. QED
      BY <1>3, <1>4, <1>5, <2>1 DEF Plainly
<1>8. CASE Glb!AddMatch
    BY <1>1, <1>2, <1>4, <1>5, <1>6, <1>8, MatchAdded, WalkKept
<1>9. CASE Glb!Exact
    BY <1>1, <1>2, <1>4, <1>5, <1>6, <1>9, ExactKeeps, WalkKept
<1>10. CASE Glb!ReadDirectory
    BY <1>1, <1>2, <1>4, <1>5, <1>6, <1>7, <1>10, DirectoryRead, WalkKept
<1>11. CASE Glb!NextEntry
    BY <1>1, <1>2, <1>4, <1>5, <1>6, <1>11, EntryTaken, WalkKept
<1>12. CASE Glb!EndDirectory
    BY <1>1, <1>2, <1>4, <1>5, <1>6, <1>12, DirectoryEnds, WalkKept
<1>. QED
    BY <1>8, <1>9, <1>10, <1>11, <1>12

\* When the walk is over, what it has found is what the pattern matches.
LEMMA WalkOver ==
    ASSUME NEW t, WalkInv(t), call = Glb!NoCall, stack = <<>>
    PROVE  matched = Hits(t)
<1>1. Waiting(t) = {}
    BY DEF Waiting
<1>. QED
    BY <1>1 DEF WalkInv, FoundInv

LEMMA MatchesPutIn ==
    ASSUME Glb!WellFormed, Plainly, GlobInv, Glb!Replace, failed = {}
    PROVE  GlobInv'
<1>1. /\ globbing = "match" /\ globbing' = "next" /\ call = Glb!NoCall /\ stack = <<>>
      /\ stack' = stack /\ typedline' = typedline /\ failed' = failed
    BY DEF Glb!Replace, Glb!match
<1>2. PICK n \in Nat : Within(n)
    BY <1>1 DEF GlobInv
<1>3. typedline \in Lines
    BY DEF GlobInv
<1>4. PICK t : t = typedline[n + 1]
    OBVIOUS
<1> DEFINE o == Len(Out(typedline, n))
           S == Glb!Matches(t)
           M == Glb!Meaning(t)
<1>5. /\ t \in Seq(Nat) /\ n \in 0 .. Len(typedline) - 1
      /\ Replaced(typedline, tokens, n) /\ n # Len(typedline)
      /\ globpos = o + 1 /\ Glb!Globbable(t) /\ WalkInv(t)
    BY <1>2, <1>3, <1>4, TokenWalked DEF Within
<1>6. matched = S
  <2>1. n + 1 \in DOMAIN typedline
      BY <1>2, <1>3, TokenWalked
  <2>2. Unquoted(t)
      BY <1>3, <1>4, <1>5, <2>1 DEF Plainly
  <2>. QED
      BY <1>1, <1>5, <2>2, WalkOver, HitsMatch
<1>7. o \in Nat /\ Len(typedline) \in Nat
    BY <1>3, <1>5, AheadIs
<1>8. CASE S = {}
  <2>1. /\ tokens' = [tokens EXCEPT ![globpos] = Glb!Unescape(tokens[globpos])]
        /\ globpos' = globpos + 1
      BY <1>6, <1>8 DEF Glb!Replace, Glb!TakeLiterally, Glb!AfterLiteral
  <2>2. Replaced(typedline, tokens', n + 1) /\ Len(Out(typedline, n + 1)) = o + 1
      BY <1>3, <1>4, <1>5, <1>8, <2>1, AsTyped
  <2>3. Between(n + 1)'
      BY <1>1, <1>5, <2>1, <2>2 DEF Between
  <2>4. n + 1 \in Nat
      OBVIOUS
  <2>. QED
      BY <1>1, <1>3, <2>3, <2>4 DEF GlobInv
<1>9. CASE S # {}
  <2>1. M = Glb!Sorted(S)
      BY <1>5, <1>9, MeaningIs
  <2>2. Cardinality(S) \in Nat /\ Cardinality(S) # 0 /\ M \in Seq(S) /\ Len(M) = Cardinality(S)
      BY <1>5, <1>9, <2>1, MatchesFinite
  <2>3. /\ tokens' = SubSeq(tokens, 1, globpos - 1) \o M \o SubSeq(tokens, globpos + 1, Len(tokens))
        /\ globpos' = globpos + Cardinality(S) - 1
      BY <1>6, <1>9, <2>1, GlbSame DEF Glb!Replace, Glb!NextPos
  <2>4. /\ Replaced(typedline, tokens', n + 1)
        /\ Len(Out(typedline, n + 1)) = o + Len(M)
        /\ \A i \in 1 .. Len(M) : Out(typedline, n + 1)[o + i] = M[i]
    <3>1. LET p == o + 1
          IN  /\ Len(Out(typedline, n + 1)) = o + Len(M)
              /\ \A i \in 1 .. Len(M) : Out(typedline, n + 1)[o + i] = M[i]
              /\ Replaced(typedline, SubSeq(tokens, 1, p - 1) \o M
                                        \o SubSeq(tokens, p + 1, Len(tokens)), n + 1)
        BY <1>3, <1>4, <1>5, ReplacedNext
    <3>. QED
        BY <1>5, <2>3, <3>1
  <2> DEFINE c == Len(M)
  <2>5. globpos' = o + c /\ c \in 1 .. c /\ globpos' # 0
    <3>1. c \in Nat /\ c # 0 /\ c = Cardinality(S)
        BY <2>2
    <3> HIDE DEF c, o
    <3>. QED
        BY <1>5, <1>7, <2>3, <3>1
  <2>6. Settled(tokens'[globpos'])
    <3>1. Settled(M[c])
      <4>1. n + 1 \in DOMAIN typedline
          BY <1>2, <1>3, TokenWalked
      <4>. QED
          BY <1>3, <1>4, <1>5, <1>9, <2>2, <4>1 DEF Plainly
    <3>2. globpos' \in 1 .. Len(Out(typedline, n + 1))
        BY <1>7, <2>2, <2>4, <2>5
    <3>3. tokens'[globpos'] = Out(typedline, n + 1)[globpos']
        BY <2>4, <3>2 DEF Replaced
    <3>4. tokens'[globpos'] = M[c]
        BY <2>4, <2>5, <3>3
    <3>. QED
        BY <3>1, <3>4
  <2>7. Between(n + 1)'
      BY <1>1, <2>4, <2>5, <2>6 DEF Between
  <2>8. n + 1 \in Nat
      OBVIOUS
  <2>. QED
      BY <1>1, <1>3, <2>7, <2>8 DEF GlobInv
<1>. QED
    BY <1>8, <1>9

LEMMA GlobStep ==
    ASSUME Glb!WellFormed, Plainly, GlobInv, [Glb!Next]_Glb!vars
    PROVE  GlobInv'
<1>1. typedline \in Lines /\ typedline' = typedline
    BY DEF GlobInv, Glb!vars, Glb!match, Glb!Next, Glb!Step, Glb!Literal, Glb!BeginToken,
           Glb!LineEnds, Glb!EntryTest, Glb!Interrupted, Glb!AddMatch, Glb!Exact,
           Glb!ReadDirectory, Glb!NextEntry, Glb!ReadInterrupted, Glb!EndDirectory,
           Glb!Replace, Glb!Interrupt
<1>2. failed \subseteq failed'
    BY DEF Glb!vars, Glb!match, Glb!Next, Glb!Step, Glb!Literal, Glb!BeginToken,
           Glb!LineEnds, Glb!EntryTest, Glb!Interrupted, Glb!AddMatch, Glb!Exact,
           Glb!ReadDirectory, Glb!NextEntry, Glb!ReadInterrupted, Glb!EndDirectory,
           Glb!Replace, Glb!Interrupt
<1>3. CASE failed' # {}
    BY <1>1, <1>3 DEF GlobInv
<1>4. CASE failed' = {}
  <2>1. failed = {}
      BY <1>2, <1>4
  <2>2. CASE Glb!Literal
      BY <2>1, <2>2, LiteralPassed
  <2>3. CASE Glb!BeginToken
      BY <2>1, <2>3, TokenBegun
  <2>4. CASE Glb!LineEnds
      BY <2>1, <2>4, LineDone
  <2>5. CASE Glb!EntryTest \/ Glb!ReadInterrupted
    <3>1. globbing' = "interrupted"
        BY <2>5 DEF Glb!EntryTest, Glb!ReadInterrupted, Glb!Interrupted
    <3>. QED
        BY <1>1, <3>1 DEF GlobInv
  <2>6. CASE Glb!AddMatch \/ Glb!Exact \/ Glb!ReadDirectory \/ Glb!NextEntry \/ Glb!EndDirectory
      BY <1>4, <2>1, <2>6, WalkGoesOn
  <2>7. CASE Glb!Replace
      BY <2>1, <2>7, MatchesPutIn
  <2>8. CASE Glb!Interrupt \/ UNCHANGED Glb!vars
    <3>1. /\ globbing' = globbing /\ tokens' = tokens /\ globpos' = globpos /\ call' = call
          /\ cut' = cut /\ stack' = stack /\ matched' = matched
          /\ typedline' = typedline /\ failed' = failed
        BY <2>8 DEF Glb!Interrupt, Glb!vars, Glb!match
    <3>. QED
        BY <3>1 DEF GlobInv, Between, Within, WalkInv, CutInv, CallInv, StackInv, FoundInv, Waiting
  <2>. QED
      BY <2>2, <2>3, <2>4, <2>5, <2>6, <2>7, <2>8 DEF Glb!Next, Glb!Step
<1>. QED
    BY <1>3, <1>4

LEMMA GlobInvExact ==
    ASSUME Glb!WellFormed, GlobInv
    PROVE  Glb!ExpandsExactly
<1>1. typedline \in Lines
    BY DEF GlobInv
<1>2. DOMAIN typedline = 1 .. Len(typedline)
    BY <1>1, OutIs
<1>3. Out(typedline, Len(typedline)) =
         Glb!FlattenSeq([i \in DOMAIN typedline |-> Glb!Meaning(typedline[i])])
    BY <1>2, GlbFlattenSame DEF Out
<1>4. globbing = "done" /\ failed = {} => tokens = Out(typedline, Len(typedline))
    BY DEF GlobInv
<1>. QED
    BY <1>3, <1>4 DEF Glb!ExpandsExactly

(***************************************************************************)
(* The command gets, for every token, exactly the files it matches, in     *)
(* order (samblah.1, Features; smbglob.c:36-58), for every line, every     *)
(* tree and wherever SIGINT comes, unless a call failed on a file that     *)
(* exists.  Of the tokens with wildcards Plainly leaves out those with two *)
(* components behind the first one, those with a backslash before another  *)
(* component (smbglob.c:183-195), and those whose last match is called     *)
(* like a pattern or has a backslash (smbglob.c:94, 107): for them it is   *)
(* not so.                                                                 *)
(***************************************************************************)
THEOREM PatternsExpanded ==
    ASSUME Plainly
    PROVE  GlobSpec => []ExpandsExactly
<1>1. Glb!Init => GlobInv
    BY GlobAssumption, GlobBegins
<1>2. GlobInv /\ [Glb!Next]_Glb!vars => GlobInv'
    BY GlobAssumption, GlobStep
<1>3. GlobInv => ExpandsExactly
    BY GlobAssumption, GlobInvExact DEF ExpandsExactly
<1>. QED
    BY <1>1, <1>2, <1>3, PTL DEF GlobSpec, Glb!Spec
=============================================================================
