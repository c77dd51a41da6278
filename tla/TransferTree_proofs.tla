------------------------- MODULE TransferTree_proofs -------------------------
(***************************************************************************)
(* Theorems about TransferTree, for every tree, all arguments and every    *)
(* depth of the recursion: that every file is dealt with once for each     *)
(* argument it is part of, how promptly it stops, that it closes what it   *)
(* opens, makes directories before it fills them, and asks no more after   *)
(* an answer for all.                                                      *)
(***************************************************************************)
EXTENDS TransferTree, SequenceTheorems, FiniteSetTheorems, TLAPS

-----------------------------------------------------------------------------
(* The inductive invariant. *)

Frames    == [dir : Dirs, dst : Seq(Names), at : Nat \ {0}]
Walked(s) == {s[i].dir : i \in DOMAIN s}

\* The command's own loop runs when no directory is walked, and the loop of
\* the innermost activation when one is.
ControlInv ==
    /\ pc \in {"arg", "transfer", "entry", "file", "ask", "done"}
    /\ intr \in BOOLEAN
    /\ stack \in Seq(Frames)
    /\ pc \in {"arg", "done"} => stack = <<>>
    /\ pc = "entry" => stack # <<>>

\* No directory is open that is not walked.
WalkInv == RemoteSource => opendirs \subseteq Walked(stack)

\* What is transferred goes into the directory the innermost activation fills.
PathInv ==
    /\ dst \in Seq(Names) /\ <<>> \in dstdirs /\ ParentsExist
    /\ pc = "transfer" /\ stack # <<>> =>
          \E x \in Names : dst = Append(LastOf(stack).dst, x)

\* After SIGINT control never comes back to where a transfer begins; the one
\* transfer of -o has begun by then, or begins once.
LateInv ==
    /\ next \in Nat \ {0} /\ (pc \notin {"arg", "done"} => next # 1)
    /\ late \in {0, 1}
    /\ late = 1 => intr /\ pc # "transfer" /\ (oopt => next # 1)

\* Who has answered for all is not asked, and was asked before.
AnswerInv ==
    /\ pc = "ask" => exist = "ask"
    /\ IF forall THEN exist # "ask" ELSE exist = onexist

IInv == ControlInv /\ WalkInv /\ PathInv /\ LateInv /\ AnswerInv

-----------------------------------------------------------------------------
(* What is still to come. *)

\* The entries the activations have not come to.
Rest(fr) == {Entries[fr.dir][j] : j \in fr.at .. Len(Entries[fr.dir])}
Ahead(s) == UNION {Rest(s[i]) : i \in DOMAIN s}

\* What is being transferred.
Busy == pc \in {"transfer", "file", "ask"}
Turn == IF Busy THEN {node} ELSE {}

Left == Ahead(stack) \cup Turn

RangeInv ==
    /\ ropt \in BOOLEAN /\ oopt \in BOOLEAN
    /\ next \in 1 .. ArgCount + 1 /\ node \in Nodes
    /\ onexist \in Exists /\ exist \in Exists /\ opendirs \subseteq Dirs
    /\ dstdirs \subseteq Seq(Names) /\ dstfiles \subseteq Seq(Names)
    /\ handled \in [Files -> Nat] /\ lost \subseteq Nodes /\ forall \in BOOLEAN
    /\ pc \in {"file", "ask"} => node \in Files
    /\ pc = "done" => intr \/ next > ArgCount

\* readdir stays within the directory.
AtInv(s) == \A i \in DOMAIN s : s[i].at \in 1 .. Len(Entries[s[i].dir]) + 1

(***************************************************************************)
(* The activations lead down the tree, to what is being transferred, and   *)
(* what is ahead of them is to the side of that way.                       *)
(***************************************************************************)
Nested(s) ==
    \A i, k \in DOMAIN s :
       i < k => s[i].dir \in Above[s[k].dir] /\ s[i].dir # s[k].dir

Apart(s) == s # <<>> => Ahead(s) \cap Above[LastOf(s).dir] = {}
Below(s, n) ==
    /\ s # <<>> => n \in Inside(LastOf(s).dir)
    /\ Ahead(s) \cap Above[n] = {}

WayInv ==
    Nested(stack) /\ Apart(stack) /\ (Busy => Below(stack, node))

(***************************************************************************)
(* A file is still to come, once, or it has been dealt with as often as    *)
(* the arguments so far ask for, or it was given up.                       *)
(***************************************************************************)
Owed(f) == handled[f] + IF Above[f] \cap Left = {} THEN 0 ELSE 1

CountInv ==
    \A f \in Files :
       /\ Owed(f) <= Covering(f, next - 1)
       /\ ~intr => Owed(f) = Covering(f, next - 1) \/ Above[f] \cap lost # {}

-----------------------------------------------------------------------------
(* The stack of activations, longer, shorter, and advanced by one entry. *)

LEMMA Pushed ==
    ASSUME NEW s \in Seq(Frames), NEW dir \in Dirs, NEW p \in Seq(Names)
    PROVE  LET t == Append(s, [dir |-> dir, dst |-> p, at |-> 1]) IN
           t \in Seq(Frames) /\ t # <<>> /\ Walked(t) = Walked(s) \cup {dir}
<1> DEFINE f == [dir |-> dir, dst |-> p, at |-> 1]
           t == Append(s, f)
<1>1. f \in Frames /\ f.dir = dir
  BY DEF Frames
<1> HIDE DEF f
<1>2. /\ t \in Seq(Frames) /\ DOMAIN t = 1 .. Len(s) + 1 /\ DOMAIN s = 1 .. Len(s)
      /\ Len(s) \in Nat
      /\ t[Len(s) + 1] = f /\ \A i \in 1 .. Len(s) : t[i] = s[i]
  BY <1>1
<1> HIDE DEF t
<1>3. Len(s) + 1 \in DOMAIN t /\ t # <<>>
  BY <1>2
<1>4. Walked(t) = Walked(s) \cup {dir}
  BY <1>1, <1>2, <1>3 DEF Walked
<1> QED  BY <1>2, <1>3, <1>4 DEF f, t

LEMMA Popped ==
    ASSUME NEW s \in Seq(Frames), s # <<>>
    PROVE  /\ ButLast(s) \in Seq(Frames) /\ Len(ButLast(s)) = Len(s) - 1
           /\ Walked(ButLast(s)) \subseteq Walked(s)
           /\ Walked(s) \ {LastOf(s).dir} \subseteq Walked(ButLast(s))
<1> DEFINE t == SubSeq(s, 1, Len(s) - 1)
<1>1. /\ Len(s) \in Nat \ {0} /\ 1 \in Int /\ Len(s) - 1 \in Int
      /\ DOMAIN s = 1 .. Len(s)
      /\ \A i \in 1 .. Len(s) - 1 : s[i] \in Frames
  OBVIOUS
<1>2. /\ t \in Seq(Frames)
      /\ Len(t) = IF 1 <= Len(s) - 1 THEN Len(s) - 1 - 1 + 1 ELSE 0
      /\ \A i \in 1 .. Len(s) - 1 - 1 + 1 : t[i] = s[1 + i - 1]
  BY <1>1, SubSeqProperties
<1>3. \A n \in Nat \ {0} : /\ n - 1 - 1 + 1 = n - 1
                            /\ (IF 1 <= n - 1 THEN n - 1 - 1 + 1 ELSE 0) = n - 1
                            /\ \A i \in 1 .. n - 1 : 1 + i - 1 = i
  OBVIOUS
<1> HIDE DEF t
<1>4. /\ t \in Seq(Frames) /\ Len(t) = Len(s) - 1
      /\ \A i \in 1 .. Len(s) - 1 : t[i] = s[i]
  BY <1>1, <1>2, <1>3
<1>5. DOMAIN t = 1 .. Len(s) - 1
  BY <1>4
<1>6. Walked(t) \subseteq Walked(s)
  BY <1>1, <1>4, <1>5 DEF Walked
<1>7. ASSUME NEW i \in DOMAIN s, s[i].dir # s[Len(s)].dir
      PROVE  s[i].dir \in Walked(t)
  <2>1. i \in DOMAIN t /\ t[i] = s[i]
    BY <1>1, <1>4, <1>5, <1>7
  <2> QED  BY <2>1 DEF Walked
<1> QED  BY <1>4, <1>6, <1>7 DEF Walked, ButLast, LastOf, t

LEMMA Advanced ==
    ASSUME NEW s \in Seq(Frames), s # <<>>, NEW k \in Nat \ {0}
    PROVE  LET t == [s EXCEPT ![Len(s)].at = k] IN
           t \in Seq(Frames) /\ t # <<>> /\ Walked(t) = Walked(s)
<1> DEFINE f == [s[Len(s)] EXCEPT !.at = k]
           t == [s EXCEPT ![Len(s)] = f]
<1>1. Len(s) \in 1 .. Len(s) /\ DOMAIN s = 1 .. Len(s) /\ Len(s) \in Nat
  OBVIOUS
<1>2. s[Len(s)] \in Frames
  BY <1>1
<1>3. f \in Frames /\ f.dir = s[Len(s)].dir
  BY <1>2 DEF Frames
<1> HIDE DEF f
<1>4. t \in Seq(Frames) /\ Len(t) = Len(s)
  BY <1>1, <1>3, ExceptSeq
<1>5. DOMAIN t = 1 .. Len(s) /\ \A i \in 1 .. Len(s) : t[i].dir = s[i].dir
  BY <1>1, <1>3
<1>6. t # <<>>
  BY <1>1, <1>4
<1>7. Walked(t) = Walked(s)
  BY <1>1, <1>5 DEF Walked
<1> QED  BY <1>4, <1>6, <1>7 DEF f

LEMMA NoneWalked == Walked(<<>>) = {}
  BY DEF Walked

-----------------------------------------------------------------------------
(* The tree: what is above a node. *)

LEMMA InsideNodes ==
    ASSUME NEW dir \in Dirs
    PROVE  Inside(dir) \subseteq Nodes
  BY TreeAssumption DEF Inside

LEMMA AboveSelf ==
    ASSUME NEW n \in Nodes
    PROVE  n \in Above[n] /\ Above[n] \subseteq Nodes
  BY DEF Above

LEMMA AboveWithin ==
    ASSUME NEW S \in Upward, NEW n \in S
    PROVE  Above[n] \subseteq S
  BY DEF Above, Upward

LEMMA AboveUpward ==
    ASSUME NEW n \in Nodes
    PROVE  Above[n] \in Upward
<1>1. ASSUME NEW dir \in Dirs, NEW c \in Inside(dir), c \in Above[n]
      PROVE  dir \in Above[n]
  <2>1. \A S \in Upward : n \in S => dir \in S
    BY <1>1 DEF Above, Upward
  <2>2. dir \in Nodes
    BY DEF Nodes
  <2> QED  BY <2>1, <2>2 DEF Above
<1>2. Above[n] \subseteq Nodes
  BY AboveSelf
<1> QED  BY <1>1, <1>2 DEF Upward

LEMMA AboveAbove ==
    ASSUME NEW n \in Nodes, NEW a \in Above[n]
    PROVE  Above[a] \subseteq Above[n]
  BY AboveUpward, AboveWithin

\* The way from a directory down to what is in it begins with an entry.
LEMMA WayDown ==
    ASSUME NEW n \in Nodes, NEW a \in Above[n], a # n
    PROVE  a \in Dirs /\ Inside(a) \cap Above[n] # {}
<1> DEFINE S == {b \in Above[n] : b = n \/ (b \in Dirs /\ Inside(b) \cap Above[n] # {})}
<1>1. \A dir \in Dirs : Inside(dir) \cap Above[n] # {} => dir \in Above[n]
  BY AboveUpward DEF Upward
<1>2. S \in SUBSET Nodes /\ n \in S
  BY AboveSelf
<1>3. ASSUME NEW dir \in Dirs, Inside(dir) \cap S # {}
      PROVE  dir \in S
  <2>1. Inside(dir) \cap Above[n] # {}
    BY <1>3
  <2> QED  BY <1>1, <2>1
<1>4. S \in Upward
  BY <1>2, <1>3 DEF Upward
<1>5. a \in S
  BY <1>2, <1>4, AboveWithin
<1> QED  BY <1>5

LEMMA AboveEntry ==
    ASSUME NEW dir \in Dirs, NEW c \in Inside(dir)
    PROVE  c \in Nodes /\ c # dir /\ Above[c] = Above[dir] \cup {c}
<1>1. c \in Nodes /\ dir \in Nodes
  BY InsideNodes DEF Nodes
<1>2. dir \in Above[dir] /\ c \in Above[c]
  BY <1>1, AboveSelf
<1>3. c # dir
  BY <1>2, OnePlace
<1>4. dir \in Above[c]
  BY <1>1, <1>2, AboveUpward DEF Upward
<1>5. Above[dir] \subseteq Above[c]
  BY <1>1, <1>4, AboveAbove
<1> DEFINE S == Above[dir] \cup {c}
<1>6. ASSUME NEW e \in Dirs, NEW x \in Inside(e), x \in S
      PROVE  e \in S
  <2>1. CASE x = c
    <3>1. e = dir
      BY <2>1, OnePlace DEF Inside
    <3> QED  BY <3>1, <1>2
  <2>2. CASE x \in Above[dir]
    BY <1>1, <2>2, AboveUpward DEF Upward
  <2> QED  BY <1>6, <2>1, <2>2
<1>7. S \in Upward
  <2>1. S \subseteq Nodes
    BY <1>1, AboveSelf
  <2> QED  BY <1>6, <2>1 DEF Upward
<1>8. Above[c] \subseteq S
  BY <1>7, AboveWithin
<1> QED  BY <1>1, <1>2, <1>3, <1>5, <1>8

\* Above a directory there are only directories.
LEMMA AboveDir ==
    ASSUME NEW dir \in Dirs
    PROVE  Above[dir] \subseteq Dirs
  BY WayDown DEF Nodes

-----------------------------------------------------------------------------
(* What is ahead, when an activation begins, ends, or goes on. *)

LEMMA RestInside ==
    ASSUME NEW fr \in Frames
    PROVE  Rest(fr) \subseteq Inside(fr.dir)
<1>1. fr.dir \in Dirs /\ fr.at \in Nat \ {0}
  BY DEF Frames
<1>2. fr.at .. Len(Entries[fr.dir]) \subseteq DOMAIN Entries[fr.dir]
  BY <1>1, TreeAssumption
<1> QED  BY <1>2 DEF Rest, Inside

LEMMA AheadPushed ==
    ASSUME NEW s \in Seq(Frames), NEW dir \in Dirs, NEW p \in Seq(Names)
    PROVE  Ahead(Append(s, [dir |-> dir, dst |-> p, at |-> 1])) = Ahead(s) \cup Inside(dir)
<1> DEFINE f == [dir |-> dir, dst |-> p, at |-> 1]
           t == Append(s, f)
<1>1. f \in Frames /\ f.dir = dir /\ f.at = 1
  BY DEF Frames
<1>2. Rest(f) = Inside(dir)
  <2>1. DOMAIN Entries[dir] = 1 .. Len(Entries[dir])
    BY TreeAssumption
  <2> QED  BY <1>1, <2>1 DEF Rest, Inside
<1> HIDE DEF f
<1>3. /\ DOMAIN t = 1 .. Len(s) + 1 /\ DOMAIN s = 1 .. Len(s) /\ Len(s) \in Nat
      /\ t[Len(s) + 1] = f /\ \A i \in 1 .. Len(s) : t[i] = s[i]
  BY <1>1
<1> HIDE DEF t
<1>4. DOMAIN t = DOMAIN s \cup {Len(s) + 1} /\ \A i \in DOMAIN s : t[i] = s[i]
  BY <1>3
<1>5. Ahead(t) = Ahead(s) \cup Rest(f)
  BY <1>3, <1>4 DEF Ahead
<1> QED  BY <1>2, <1>5 DEF f, t

LEMMA ButLastIs ==
    ASSUME NEW s \in Seq(Frames), s # <<>>
    PROVE  /\ Len(s) \in Nat \ {0} /\ DOMAIN s = 1 .. Len(s)
           /\ DOMAIN ButLast(s) = 1 .. Len(s) - 1
           /\ \A i \in 1 .. Len(s) - 1 : ButLast(s)[i] = s[i]
           /\ LastOf(s) = s[Len(s)] /\ LastOf(s) \in Frames
<1> DEFINE t == SubSeq(s, 1, Len(s) - 1)
<1>1. /\ Len(s) \in Nat \ {0} /\ 1 \in Int /\ Len(s) - 1 \in Int
      /\ DOMAIN s = 1 .. Len(s)
      /\ \A i \in 1 .. Len(s) : s[i] \in Frames
  OBVIOUS
<1>2. /\ t \in Seq(Frames)
      /\ Len(t) = IF 1 <= Len(s) - 1 THEN Len(s) - 1 - 1 + 1 ELSE 0
      /\ \A i \in 1 .. Len(s) - 1 - 1 + 1 : t[i] = s[1 + i - 1]
  BY <1>1, SubSeqProperties
<1>3. \A n \in Nat \ {0} : /\ n - 1 - 1 + 1 = n - 1
                            /\ (IF 1 <= n - 1 THEN n - 1 - 1 + 1 ELSE 0) = n - 1
                            /\ \A i \in 1 .. n - 1 : 1 + i - 1 = i
  OBVIOUS
<1> HIDE DEF t
<1>4. /\ t \in Seq(Frames) /\ Len(t) = Len(s) - 1
      /\ \A i \in 1 .. Len(s) - 1 : t[i] = s[i]
  BY <1>1, <1>2, <1>3
<1>5. DOMAIN t = 1 .. Len(s) - 1
  BY <1>4
<1>6. LastOf(s) = s[Len(s)] /\ LastOf(s) \in Frames
  BY <1>1 DEF LastOf
<1> QED  BY <1>1, <1>4, <1>5, <1>6 DEF ButLast, t

LEMMA AheadPopped ==
    ASSUME NEW s \in Seq(Frames), s # <<>>
    PROVE  Ahead(s) = Ahead(ButLast(s)) \cup Rest(LastOf(s))
<1> DEFINE t == ButLast(s)
<1>0. /\ Len(s) \in Nat \ {0} /\ DOMAIN s = 1 .. Len(s) /\ DOMAIN t = 1 .. Len(s) - 1
      /\ LastOf(s) = s[Len(s)] /\ \A i \in 1 .. Len(s) - 1 : t[i] = s[i]
  BY ButLastIs
<1> HIDE DEF t
<1>1. /\ DOMAIN s = DOMAIN t \cup {Len(s)} /\ LastOf(s) = s[Len(s)]
      /\ \A i \in DOMAIN t : t[i] = s[i]
  BY <1>0
<1>2. Ahead(s) = Ahead(t) \cup Rest(LastOf(s))
  BY <1>1 DEF Ahead
<1> QED  BY <1>2 DEF t

LEMMA NestedLast ==
    ASSUME NEW s \in Seq(Frames), s # <<>>, Nested(s)
    PROVE  \A i \in DOMAIN s : s[i].dir \in Above[LastOf(s).dir]
<1>0. /\ Len(s) \in Nat \ {0} /\ DOMAIN s = 1 .. Len(s)
      /\ LastOf(s) = s[Len(s)] /\ LastOf(s) \in Frames
  BY ButLastIs
<1>1. Len(s) \in DOMAIN s /\ DOMAIN s = 1 .. Len(s) /\ LastOf(s).dir = s[Len(s)].dir
      /\ LastOf(s).dir \in Nodes
  BY <1>0 DEF Frames, Nodes
<1>2. LastOf(s).dir \in Above[LastOf(s).dir]
  BY <1>1, AboveSelf
<1>3. \A i \in DOMAIN s : i = Len(s) \/ i < Len(s)
  BY <1>1
<1> QED  BY <1>1, <1>2, <1>3 DEF Nested

LEMMA NestedPushed ==
    ASSUME NEW s \in Seq(Frames), Nested(s), NEW dir \in Dirs, NEW p \in Seq(Names),
           s # <<>> => dir \in Inside(LastOf(s).dir)
    PROVE  Nested(Append(s, [dir |-> dir, dst |-> p, at |-> 1]))
<1> DEFINE f == [dir |-> dir, dst |-> p, at |-> 1]
           t == Append(s, f)
<1>1. f \in Frames /\ f.dir = dir
  BY DEF Frames
<1> HIDE DEF f
<1>2. /\ DOMAIN t = 1 .. Len(s) + 1 /\ DOMAIN s = 1 .. Len(s) /\ Len(s) \in Nat
      /\ t[Len(s) + 1] = f /\ \A i \in 1 .. Len(s) : t[i] = s[i]
  BY <1>1
<1> HIDE DEF t
<1>3. ASSUME NEW i \in DOMAIN s
      PROVE  s[i].dir \in Above[dir] /\ s[i].dir # dir
  <2>1. s # <<>>
    BY <1>2, <1>3
  <2>2. s[i].dir \in Above[LastOf(s).dir] /\ LastOf(s).dir \in Dirs
    BY <2>1, NestedLast, ButLastIs DEF Frames
  <2>3. Above[dir] = Above[LastOf(s).dir] \cup {dir} /\ dir \notin Above[LastOf(s).dir]
    BY <2>1, <2>2, AboveEntry, OnePlace
  <2> QED  BY <2>2, <2>3
<1>4. ASSUME NEW i \in DOMAIN t, NEW k \in DOMAIN t, i < k
      PROVE  t[i].dir \in Above[t[k].dir] /\ t[i].dir # t[k].dir
  <2>1. i \in DOMAIN s /\ t[i] = s[i]
    BY <1>2, <1>4
  <2>2. CASE k \in DOMAIN s
    BY <1>2, <1>4, <2>1, <2>2 DEF Nested
  <2>3. CASE k = Len(s) + 1
    BY <1>1, <1>2, <1>3, <2>1, <2>3
  <2> QED  BY <1>2, <2>2, <2>3
<1>5. Nested(t)
  BY <1>4 DEF Nested
<1> QED  BY <1>5 DEF f, t

LEMMA NestedPopped ==
    ASSUME NEW s \in Seq(Frames), s # <<>>, Nested(s)
    PROVE  /\ Nested(ButLast(s))
           /\ ButLast(s) # <<>> =>
                 Above[LastOf(ButLast(s)).dir] \subseteq Above[LastOf(s).dir]
<1> DEFINE t == ButLast(s)
<1>1. /\ DOMAIN t = 1 .. Len(s) - 1 /\ Len(s) \in Nat \ {0} /\ t \in Seq(Frames)
      /\ \A i \in DOMAIN t : t[i] = s[i] /\ i \in DOMAIN s
  <2>1. /\ DOMAIN t = 1 .. Len(s) - 1 /\ Len(s) \in Nat \ {0} /\ DOMAIN s = 1 .. Len(s)
        /\ \A i \in 1 .. Len(s) - 1 : t[i] = s[i]
    BY ButLastIs
  <2>2. t \in Seq(Frames)
    BY Popped
  <2> HIDE DEF t
  <2>3. \A i \in 1 .. Len(s) - 1 : i \in 1 .. Len(s)
    BY <2>1
  <2> QED  BY <2>1, <2>2, <2>3
<1> HIDE DEF t
<1>2. Nested(t)
  BY <1>1 DEF Nested
<1>3. ASSUME t # <<>>
      PROVE  Above[LastOf(t).dir] \subseteq Above[LastOf(s).dir]
  <2>1. LastOf(t) = t[Len(t)] /\ Len(t) \in DOMAIN t
    BY <1>1, <1>3, ButLastIs
  <2>2. LastOf(t).dir \in Above[LastOf(s).dir] /\ LastOf(s).dir \in Nodes
    BY <1>1, <2>1, NestedLast, ButLastIs DEF Frames, Nodes
  <2> QED  BY <2>2, AboveAbove
<1> QED  BY <1>2, <1>3 DEF t

LEMMA AheadAdvanced ==
    ASSUME NEW s \in Seq(Frames), s # <<>>, Nested(s),
           LastOf(s).at \in 1 .. Len(Entries[LastOf(s).dir])
    PROVE  LET t == [s EXCEPT ![Len(s)].at = LastOf(s).at + 1]
               n == Entries[LastOf(s).dir][LastOf(s).at] IN
           /\ Nested(t) /\ LastOf(t).dir = LastOf(s).dir
           /\ \A i \in DOMAIN t : t[i] = s[i] \/ (t[i].dir = LastOf(s).dir /\ t[i].at = LastOf(s).at + 1)
           /\ n \in Inside(LastOf(s).dir)
           /\ Ahead(s) = Ahead(t) \cup {n} /\ n \notin Ahead(t)
<1> DEFINE m == Len(s)
           dir == LastOf(s).dir
           k == LastOf(s).at
           f == [s[m] EXCEPT !.at = k + 1]
           t == [s EXCEPT ![m] = f]
           n == Entries[dir][k]
<1>0. m \in DOMAIN s /\ DOMAIN s = 1 .. m /\ m \in Nat /\ LastOf(s) = s[m] /\ s[m] \in Frames
  BY ButLastIs
<1>1. dir \in Dirs /\ k \in Nat /\ k \in 1 .. Len(Entries[dir]) /\ Entries[dir] \in Seq(Nodes)
  BY <1>0, TreeAssumption DEF Frames
<1>2. f.dir = dir /\ f.at = k + 1 /\ f \in Frames
  <2>1. s[m] \in Frames /\ k + 1 \in Nat \ {0} /\ s[m].dir = dir
    BY <1>0, <1>1
  <2> HIDE DEF m, k, dir
  <2> QED  BY <2>1 DEF Frames
<1> HIDE DEF f
<1>3. /\ DOMAIN t = DOMAIN s /\ t[m] = f
      /\ \A i \in DOMAIN s : i # m => t[i] = s[i]
  BY <1>0
<1>4. t = [s EXCEPT ![Len(s)].at = k + 1]
  BY <1>0 DEF f
<1>4a. t \in Seq(Frames) /\ Len(t) = m
  BY <1>0, <1>2, ExceptSeq
<1> HIDE DEF t
<1>5. \A i \in DOMAIN s : t[i].dir = s[i].dir
  BY <1>0, <1>2, <1>3
<1>6. Nested(t)
  BY <1>3, <1>5 DEF Nested
<1>7. LastOf(t).dir = dir
  BY <1>2, <1>3, <1>4a DEF LastOf
<1>8. n \in Inside(dir)
  BY <1>1 DEF Inside
<1>9. Rest(s[m]) = Rest(f) \cup {n}
  <2> DEFINE L == Len(Entries[dir])
  <2>1. k .. L = (k + 1 .. L) \cup {k}
    BY <1>1
  <2>2. Rest(s[m]) = {Entries[dir][j] : j \in k .. L}
    BY <1>0 DEF Rest
  <2>3. Rest(f) = {Entries[dir][j] : j \in k + 1 .. L}
    BY <1>2 DEF Rest
  <2> QED  BY <2>1, <2>2, <2>3
<1>10. Ahead(s) = Ahead(t) \cup {n}
  BY <1>0, <1>3, <1>9 DEF Ahead
<1>11. ASSUME n \in Ahead(t) PROVE FALSE
  <2>1. PICK i \in DOMAIN t : n \in Rest(t[i])
    BY <1>11 DEF Ahead
  <2>2. PICK j \in t[i].at .. Len(Entries[t[i].dir]) : n = Entries[t[i].dir][j]
    BY <2>1 DEF Rest
  <2>2a. t[i] \in Frames
    BY <1>4a, <2>1
  <2>3. t[i] \in Frames /\ t[i].at \in Nat /\ t[i].dir \in Dirs
    BY <2>2a DEF Frames
  <2>4. CASE i = m
    <3>1. j \in DOMAIN Entries[dir] /\ j # k /\ k \in DOMAIN Entries[dir]
      BY <1>1, <1>2, <1>3, <2>2, <2>4
    <3> QED  BY <1>1, <1>2, <1>3, <2>2, <2>4, <3>1, OnePlace
  <2>5. CASE i # m
    <3>1. s[i].dir # dir /\ t[i].dir = s[i].dir
      BY <1>0, <1>3, <2>1, <2>5 DEF Nested
    <3>2. n \in Inside(t[i].dir)
      BY <2>1, <2>3, RestInside
    <3>3. PICK h \in DOMAIN Entries[t[i].dir] : n = Entries[t[i].dir][h]
      BY <3>2 DEF Inside
    <3>4. k \in DOMAIN Entries[dir] /\ n = Entries[dir][k] /\ dir \in Dirs
      BY <1>1
    <3> QED  BY <2>3, <3>1, <3>3, <3>4, OnePlace
  <2> QED  BY <2>4, <2>5
<1> QED  BY <1>2, <1>3, <1>4, <1>6, <1>7, <1>8, <1>10, <1>11

-----------------------------------------------------------------------------
LEMMA InitIInv == Init => IInv
<1> SUFFICES ASSUME Init PROVE IInv
  OBVIOUS
<1>1. stack = <<>> /\ stack \in Seq(Frames) /\ Walked(stack) = {}
  BY NoneWalked DEF Init
<1>2. ControlInv
  BY <1>1 DEF Init, ControlInv
<1>3. WalkInv
  BY <1>1 DEF Init, WalkInv
<1>4. LateInv /\ AnswerInv
  BY DEF Init, LateInv, AnswerInv
<1>5. PathInv
  <2>1. dst = <<>> /\ dst \in Seq(Names) /\ DOMAIN stack = {}
    BY DEF Init
  <2>2. <<>> \in dstdirs
    BY PathAssumption DEF Init
  <2> QED  BY <1>1, <2>1, <2>2 DEF PathInv, ParentsExist
<1> QED  BY <1>2, <1>3, <1>4, <1>5 DEF IInv

\* The steps that leave the stack as it is.
Plain ==
    \/ NextArg \/ CommandEnds \/ ToFile \/ TransferFails \/ File \/ FileFails
    \/ AskFirst \/ Answer \/ NoAnswer \/ Interrupt

LEMMA PlainControl == IInv /\ Plain => (ControlInv /\ WalkInv)'
<1> SUFFICES ASSUME IInv, Plain PROVE (ControlInv /\ WalkInv)'
  OBVIOUS
<1>0. ControlInv /\ WalkInv
  BY DEF IInv
<1>1. stack' = stack /\ opendirs' = opendirs
  BY DEF Plain, NextArg, CommandEnds, ToFile, TransferFails, File, FileFails,
     AskFirst, Answer, NoAnswer, Interrupt, Returns, walk
<1>3. WalkInv'
  BY <1>0, <1>1 DEF WalkInv, Walked
<1>4. intr' \in BOOLEAN
  BY <1>0 DEF ControlInv, Plain, NextArg, CommandEnds, ToFile, TransferFails, File,
     FileFails, AskFirst, Answer, NoAnswer, Interrupt
<1>5. CASE NextArg \/ CommandEnds
  BY <1>0, <1>1, <1>3, <1>4, <1>5 DEF ControlInv, NextArg, CommandEnds
<1>6. CASE ToFile \/ AskFirst \/ Interrupt
  BY <1>0, <1>1, <1>3, <1>4, <1>6 DEF ControlInv, ToFile, AskFirst, Interrupt
<1>7. CASE TransferFails \/ File \/ FileFails \/ Answer \/ NoAnswer
  <2>1. pc' = Caller
    BY <1>7 DEF TransferFails, File, FileFails, Answer, NoAnswer, Returns
  <2> QED  BY <1>0, <1>1, <1>3, <1>4, <2>1 DEF ControlInv, Caller
<1> QED  BY <1>3, <1>5, <1>6, <1>7 DEF Plain

LEMMA EnterControl == IInv /\ EnterDirectory => (ControlInv /\ WalkInv)'
<1> SUFFICES ASSUME IInv, EnterDirectory PROVE (ControlInv /\ WalkInv)'
  OBVIOUS
<1>0. ControlInv /\ WalkInv
  BY DEF IInv
<1>1. /\ node \in Dirs /\ stack' = Append(stack, [dir |-> node, dst |-> dst, at |-> 1])
      /\ dst \in Seq(Names)
      /\ opendirs' = opendirs \cup {node}
      /\ pc' = "entry" /\ intr' = intr
  BY DEF EnterDirectory, IInv, PathInv
<1>2. stack' \in Seq(Frames) /\ stack' # <<>> /\ Walked(stack') = Walked(stack) \cup {node}
  BY <1>0, <1>1, Pushed DEF ControlInv
<1>3. Walked(stack)' = Walked(stack')
  BY DEF Walked
<1>4. ControlInv'
  BY <1>0, <1>1, <1>2 DEF ControlInv
<1>5. WalkInv'
  BY <1>0, <1>1, <1>2, <1>3 DEF WalkInv
<1> QED  BY <1>4, <1>5

LEMMA NextEntryControl == IInv /\ NextEntry => (ControlInv /\ WalkInv)'
<1> SUFFICES ASSUME IInv, NextEntry PROVE (ControlInv /\ WalkInv)'
  OBVIOUS
<1>0. ControlInv /\ WalkInv
  BY DEF IInv
<1>1. /\ pc = "entry" /\ pc' \in {"entry", "transfer"}
      /\ stack' = [stack EXCEPT ![Len(stack)].at = AfterEntry]
      /\ UNCHANGED <<intr, opendirs>>
  BY DEF NextEntry
<1>2. stack \in Seq(Frames) /\ stack # <<>>
  BY <1>0, <1>1 DEF ControlInv
<1>3. AfterEntry \in Nat \ {0}
  <2>1. Frame \in Frames
    BY <1>2 DEF Frame, LastOf
  <2> QED  BY <2>1 DEF AfterEntry, Frames
<1>4. stack' \in Seq(Frames) /\ stack' # <<>> /\ Walked(stack') = Walked(stack)
  BY <1>1, <1>2, <1>3, Advanced
<1>5. Walked(stack)' = Walked(stack')
  BY DEF Walked
<1>6. ControlInv'
  BY <1>0, <1>1, <1>4 DEF ControlInv
<1>7. WalkInv'
  BY <1>0, <1>1, <1>4, <1>5 DEF WalkInv
<1> QED  BY <1>6, <1>7

LEMMA LeaveControl == IInv /\ LeaveDirectory => (ControlInv /\ WalkInv)'
<1> SUFFICES ASSUME IInv, LeaveDirectory PROVE (ControlInv /\ WalkInv)'
  OBVIOUS
<1>0. ControlInv /\ WalkInv
  BY DEF IInv
<1>1. /\ pc = "entry" /\ stack' = ButLast(stack)
      /\ pc' = IF Len(stack) = 1 THEN "arg" ELSE "entry"
      /\ UNCHANGED intr
  BY DEF LeaveDirectory
<1>2. stack \in Seq(Frames) /\ stack # <<>>
  BY <1>0, <1>1 DEF ControlInv
<1>3. /\ stack' \in Seq(Frames) /\ Len(stack') = Len(stack) - 1
      /\ Walked(stack') \subseteq Walked(stack)
      /\ Walked(stack) \ {LastOf(stack).dir} \subseteq Walked(stack')
  BY <1>1, <1>2, Popped
<1>4. Walked(stack)' = Walked(stack')
  BY DEF Walked
<1>5. RemoteSource => opendirs' = opendirs \ {LastOf(stack).dir}
  BY DEF LeaveDirectory, ClosedAtInterrupt, Frame
<1>6. WalkInv'
  BY <1>0, <1>1, <1>3, <1>4, <1>5 DEF WalkInv
<1>7. Len(stack) \in Nat \ {0} /\ (Len(stack) = 1 <=> stack' = <<>>)
  BY <1>2, <1>3
<1>8. ControlInv'
  BY <1>0, <1>1, <1>3, <1>7 DEF ControlInv
<1> QED  BY <1>6, <1>8

-----------------------------------------------------------------------------
(* What SIGINT and the answers leave to do. *)

LEMMA LateStep == IInv /\ Next => (LateInv /\ AnswerInv)'
<1> SUFFICES ASSUME IInv, Next PROVE (LateInv /\ AnswerInv)'
  OBVIOUS
<1>0. ControlInv /\ LateInv /\ AnswerInv
  BY DEF IInv
<1> USE DEF ControlInv, LateInv, AnswerInv, hist, opts, walk, Returns, Caller
<1>1. CASE NextArg
  BY <1>0, <1>1 DEF NextArg, ArgLoopEnds, ArgCount, AfterRefused
<1>2. CASE CommandEnds
  BY <1>0, <1>2 DEF CommandEnds
<1>3. CASE ToFile
  BY <1>0, <1>3 DEF ToFile
<1>4. CASE EnterDirectory
  BY <1>0, <1>4 DEF EnterDirectory
<1>5. CASE TransferFails
  BY <1>0, <1>5 DEF TransferFails
<1>6. CASE NextEntry
  BY <1>0, <1>6 DEF NextEntry, MoreEntries
<1>7. CASE LeaveDirectory
  BY <1>0, <1>7 DEF LeaveDirectory
<1>8. CASE File \/ FileFails
  BY <1>0, <1>8 DEF File, FileFails
<1>9. CASE AskFirst
  BY <1>0, <1>9 DEF AskFirst
<1>10. CASE Answer
  BY <1>0, <1>10 DEF Answer, Stored, opts
<1>11. CASE NoAnswer
  <2>1. pc = "ask" /\ pc' # "ask" /\ pc' # "transfer" /\ UNCHANGED <<late, forall, exist, onexist, oopt, next>>
    BY <1>11 DEF NoAnswer
  <2>2. intr => intr'
    BY <1>11 DEF NoAnswer
  <2> QED  BY <1>0, <2>1, <2>2
<1>12. CASE Interrupt
  BY <1>0, <1>12 DEF Interrupt
<1> QED  BY <1>1, <1>2, <1>3, <1>4, <1>5, <1>6, <1>7, <1>8, <1>9, <1>10, <1>11,
            <1>12 DEF Next, Step, User

-----------------------------------------------------------------------------
(* Paths at the destination. *)

LEMMA ChainPaths ==
    ASSUME NEW p \in Seq(Names), NEW k \in 0 .. Len(p)
    PROVE  Chain(p, k) \subseteq Seq(Names)
<1> SUFFICES ASSUME NEW i \in 1 .. k PROVE SubSeq(p, 1, i) \in Seq(Names)
  BY DEF Chain
<1>1. /\ 1 \in Int /\ i \in Int /\ Len(p) \in Nat
      /\ \A j \in 1 .. i : p[j] \in Names
  OBVIOUS
<1> QED  BY <1>1, SubSeqProperties

\* The path of an entry leads through that of its directory.
LEMMA ParentsAppended ==
    ASSUME NEW p \in Seq(Names), NEW x \in Names, p # <<>>
    PROVE  p \in Parents(Append(p, x))
<1> DEFINE q == Append(p, x)
           r == SubSeq(q, 1, Len(p))
<1>1. /\ q \in Seq(Names) /\ Len(q) = Len(p) + 1 /\ Len(p) \in Nat \ {0}
      /\ \A i \in 1 .. Len(p) : q[i] = p[i]
  OBVIOUS
<1>2. /\ 1 \in Int /\ Len(p) \in Int /\ \A i \in 1 .. Len(p) : q[i] \in Names
  BY <1>1
<1>3. /\ r \in Seq(Names)
      /\ Len(r) = IF 1 <= Len(p) THEN Len(p) - 1 + 1 ELSE 0
      /\ \A i \in 1 .. Len(p) - 1 + 1 : r[i] = q[1 + i - 1]
  BY <1>2, SubSeqProperties
<1>4. \A n \in Nat \ {0} : /\ (IF 1 <= n THEN n - 1 + 1 ELSE 0) = n /\ n - 1 + 1 = n
                           /\ \A i \in 1 .. n : 1 + i - 1 = i
  OBVIOUS
<1> HIDE DEF q, r
<1>5. r \in Seq(Names) /\ Len(r) = Len(p) /\ \A i \in 1 .. Len(p) : r[i] = p[i]
  BY <1>1, <1>3, <1>4
<1>6. r = p
  BY <1>5, SeqEqual
<1>7. Len(p) \in 1 .. Len(q) - 1
  BY <1>1
<1> QED  BY <1>6, <1>7 DEF Parents, Chain, q, r

LEMMA DestinationPath ==
    ASSUME NEW n \in Nodes
    PROVE  Destination(n) \in Seq(Names)
<1>1. Path[n] \in Seq(Names) /\ Output \in Seq(Names)
  BY PathAssumption
<1>2. ASSUME n \in Files
      PROVE  LastOf(Path[n]) \in Names
  <2>1. Path[n] # <<>>
    BY <1>2, PathAssumption
  <2> QED  BY <1>1, <2>1 DEF LastOf
<1>3. ASSUME n \in Files
      PROVE  <<LastOf(Path[n])>> \in Seq(Names)
  BY <1>2, <1>3
<1>4. <<>> \in Seq(Names)
  OBVIOUS
<1> QED  BY <1>1, <1>3, <1>4 DEF Destination

\* What exists goes on existing, for the activations that there are.
LEMMA PathKept ==
    ASSUME IInv, dst' \in Seq(Names), dstdirs \subseteq dstdirs',
           dstfiles \subseteq dstfiles', stack' = stack, stack = <<>> \/ pc' # "transfer"
    PROVE  PathInv'
<1>1. ParentsExist'
  BY DEF IInv, PathInv, ParentsExist
<1> QED  BY <1>1 DEF IInv, PathInv

LEMMA PathStep == IInv /\ Next => PathInv'
<1> SUFFICES ASSUME IInv, Next PROVE PathInv'
  OBVIOUS
<1>0. /\ dst \in Seq(Names) /\ <<>> \in dstdirs /\ ParentsExist
      /\ stack \in Seq(Frames) /\ (pc = "arg" => stack = <<>>)
      /\ (pc = "entry" => stack # <<>>)
  BY DEF IInv, PathInv, ControlInv
<1> USE DEF opts, walk, dest, hist
<1>1. CASE NextArg
  <2>1. Args[next] \in Nodes
    BY <1>1, TreeAssumption DEF NextArg, ArgLoopEnds, ArgCount, IInv, LateInv
  <2>2. dst' \in Seq(Names)
    BY <1>0, <1>1, <2>1, DestinationPath DEF NextArg
  <2> QED  BY <1>0, <1>1, <2>2, PathKept DEF NextArg
<1>2. CASE CommandEnds \/ ToFile \/ AskFirst \/ Interrupt
  <2>1. /\ UNCHANGED <<dst, dstdirs, dstfiles, stack>>
        /\ pc' \in {"done", "file", "ask"} \/ pc' = pc
    BY <1>2 DEF CommandEnds, ToFile, AskFirst, Interrupt
  <2> QED  BY <1>0, <2>1 DEF PathInv, IInv, ParentsExist
<1>3. CASE TransferFails \/ File \/ FileFails \/ Answer \/ NoAnswer
  <2>1. /\ UNCHANGED <<dst, stack>> /\ pc' # "transfer"
        /\ dstdirs \subseteq dstdirs' /\ dstfiles \subseteq dstfiles'
    <3>1. CASE TransferFails
      BY <3>1 DEF TransferFails, Returns, Caller
    <3>2. CASE File \/ FileFails
      BY <3>2 DEF File, FileFails, Handled, Written, Returns, Caller
    <3>3. CASE Answer \/ NoAnswer
      BY <3>3 DEF Answer, NoAnswer, Handled, Written, Returns, Caller
    <3> QED  BY <1>3, <3>1, <3>2, <3>3
  <2> QED  BY <1>0, <2>1, PathKept
<1>4. CASE EnterDirectory
  <2> DEFINE f == [dir |-> node, dst |-> dst, at |-> 1]
             n == Len(stack)
  <2>1. /\ f \in Frames /\ f.dst = dst /\ stack' = Append(stack, f) /\ pc = "transfer"
        /\ Parents(dst) \cap dstfiles = {} /\ dst' = dst /\ dstfiles' = dstfiles
        /\ dstdirs' = dstdirs \cup (Chain(dst, Len(dst)) \ dstfiles) /\ pc' = "entry"
    BY <1>0, <1>4 DEF EnterDirectory, Frames, Made
  <2> HIDE DEF f
  <2>2. /\ DOMAIN stack' = 1 .. n + 1 /\ DOMAIN stack = 1 .. n /\ n \in Nat
        /\ Len(stack') = n + 1
        /\ stack'[n + 1] = f /\ \A i \in 1 .. n : stack'[i] = stack[i]
    BY <1>0, <2>1
  <2>3. Parents(dst) \subseteq dstdirs' /\ (dst \in dstdirs' \/ dst \in dstfiles)
    <3>1. Len(dst) \in Nat
      BY <1>0
    <3>2. Parents(dst) \subseteq Chain(dst, Len(dst))
      BY <3>1 DEF Parents, Chain
    <3>3. CASE dst = <<>>
      BY <1>0, <2>1, <3>2, <3>3
    <3>4. CASE dst # <<>>
      <4>1. Len(dst) \in 1 .. Len(dst)
        BY <1>0, <3>4
      <4>2. SubSeq(dst, 1, Len(dst)) = dst
        BY <1>0, <3>4
      <4>3. dst \in Chain(dst, Len(dst))
        BY <4>1, <4>2 DEF Chain
      <4> QED  BY <2>1, <3>2, <4>3
    <3> QED  BY <3>3, <3>4
  <2>4. ASSUME NEW i \in 1 .. n
        PROVE  stack[i].dst \in dstdirs
    <3>1. stack[i].dst \in dstdirs \/ (i = n /\ stack[i].dst \in dstfiles)
      BY <1>0, <2>2 DEF ParentsExist
    <3>2. ASSUME i = n, stack[n].dst \in dstfiles, stack[n].dst # <<>>
          PROVE  FALSE
      <4>1. stack # <<>> /\ LastOf(stack) = stack[n] /\ stack[n] \in Frames
        BY <1>0, <2>2, <3>2 DEF LastOf
      <4>2. PICK x \in Names : dst = Append(stack[n].dst, x)
        BY <2>1, <4>1 DEF IInv, PathInv
      <4>3. stack[n].dst \in Parents(dst)
        BY <3>2, <4>1, <4>2, ParentsAppended DEF Frames
      <4> QED  BY <2>1, <3>2, <4>3
    <3> QED  BY <1>0, <3>1, <3>2
  <2>5. ASSUME NEW i \in DOMAIN stack'
        PROVE  /\ Parents(stack'[i].dst) \subseteq dstdirs'
               /\ stack'[i].dst \in dstdirs' \/ (i = Len(stack') /\ stack'[i].dst \in dstfiles')
    <3>1. CASE i \in 1 .. n
      BY <1>0, <2>1, <2>2, <2>4, <3>1 DEF ParentsExist
    <3>2. CASE i = n + 1
      BY <2>1, <2>2, <2>3, <3>2
    <3> QED  BY <2>2, <3>1, <3>2
  <2>6. ParentsExist'
    BY <2>5 DEF ParentsExist
  <2> QED  BY <1>0, <2>1, <2>6 DEF PathInv
<1>5. CASE NextEntry
  <2> DEFINE fr == LastOf(stack)
             n  == Len(stack)
             x  == LastOf(Path[Entries[fr.dir][fr.at]])
  <2>1. /\ stack # <<>> /\ fr.at <= Len(Entries[fr.dir])
        /\ stack' = [stack EXCEPT ![n].at = fr.at + 1]
        /\ UNCHANGED <<dstdirs, dstfiles>>
        /\ dst' = dst \/ dst' = Append(fr.dst, x)
        /\ pc' = "transfer" => dst' = Append(fr.dst, x)
    BY <1>0, <1>5 DEF NextEntry, MoreEntries, AfterEntry, Frame
  <2>2. /\ fr \in Frames /\ DOMAIN stack = 1 .. n /\ n \in Nat \ {0} /\ fr = stack[n]
    BY <1>0, <2>1 DEF LastOf
  <2>3. fr.dir \in Dirs /\ fr.at \in DOMAIN Entries[fr.dir] /\ fr.dst \in Seq(Names)
    BY <2>1, <2>2, TreeAssumption DEF Frames
  <2>4. x \in Names
    <3>1. Entries[fr.dir][fr.at] \in Inside(fr.dir)
      BY <2>3 DEF Inside
    <3>2. Entries[fr.dir][fr.at] \in Nodes
      BY <2>3, TreeAssumption
    <3>3. Path[Entries[fr.dir][fr.at]] \in Seq(Names) \ {<<>>}
      BY <2>3, <3>1, <3>2, PathAssumption
    <3> QED  BY <3>3 DEF LastOf
  <2> HIDE DEF x
  <2>5. /\ DOMAIN stack' = DOMAIN stack /\ Len(stack') = n
        /\ \A i \in DOMAIN stack : stack'[i].dst = stack[i].dst
    BY <1>0, <2>1, <2>2 DEF Frames
  <2>6. ParentsExist'
    BY <1>0, <2>1, <2>5 DEF ParentsExist
  <2>7. LastOf(stack').dst = fr.dst
    BY <2>2, <2>5 DEF LastOf
  <2>8. dst' \in Seq(Names)
    <3>1. Append(fr.dst, x) \in Seq(Names)
      BY <2>3, <2>4
    <3> QED  BY <1>0, <2>1, <3>1
  <2> QED  BY <1>0, <2>1, <2>4, <2>6, <2>7, <2>8 DEF PathInv
<1>6. CASE LeaveDirectory
  <2>1. stack # <<>> /\ stack' = ButLast(stack) /\ UNCHANGED <<dst, dstdirs, dstfiles>>
        /\ pc' # "transfer"
    BY <1>0, <1>6 DEF LeaveDirectory
  <2>2. /\ Len(stack) \in Nat \ {0} /\ DOMAIN stack = 1 .. Len(stack)
        /\ DOMAIN stack' = 1 .. Len(stack) - 1
        /\ \A i \in 1 .. Len(stack) - 1 : stack'[i] = stack[i]
    BY <1>0, <2>1, ButLastIs
  <2>3. \A i \in DOMAIN stack' : i \in DOMAIN stack /\ i # Len(stack) /\ stack'[i] = stack[i]
    BY <2>2
  <2>4. ParentsExist'
    BY <1>0, <2>1, <2>3 DEF ParentsExist
  <2> QED  BY <1>0, <2>1, <2>4 DEF PathInv
<1> QED  BY <1>1, <1>2, <1>3, <1>4, <1>5, <1>6 DEF Next, Step, User

LEMMA StepIInv == IInv /\ [Next]_vars => IInv'
<1>1. ASSUME IInv, Next PROVE IInv'
  <2>1. Plain \/ EnterDirectory \/ NextEntry \/ LeaveDirectory
    BY <1>1 DEF Next, Step, User, Plain
  <2>2. (ControlInv /\ WalkInv)'
    BY <1>1, <2>1, PlainControl, EnterControl, NextEntryControl, LeaveControl
  <2>3. (LateInv /\ AnswerInv)'
    BY <1>1, LateStep
  <2>4. PathInv'
    BY <1>1, PathStep
  <2> QED  BY <2>2, <2>3, <2>4 DEF IInv
<1>2. ASSUME IInv, UNCHANGED vars PROVE IInv'
  BY <1>2 DEF vars, opts, walk, dest, hist, IInv, ControlInv, WalkInv, PathInv,
     ParentsExist, LateInv, AnswerInv, Walked
<1> QED  BY <1>1, <1>2

\* The inductive invariant holds of every behaviour of get and put.
THEOREM Invariance == Spec => []IInv
  BY InitIInv, StepIInv, PTL DEF Spec

-----------------------------------------------------------------------------
(* Every file once for each argument. *)

LEMMA AtStep == IInv /\ AtInv(stack) /\ Next => AtInv(stack)'
<1> SUFFICES ASSUME IInv, AtInv(stack), Next PROVE AtInv(stack')
  BY DEF AtInv
<1>0. stack \in Seq(Frames) /\ (pc = "entry" => stack # <<>>)
  BY DEF IInv, ControlInv
<1>1. CASE Plain
  <2>1. stack' = stack
    BY <1>1 DEF Plain, NextArg, CommandEnds, ToFile, TransferFails, File, FileFails,
       AskFirst, Answer, NoAnswer, Interrupt, Returns, walk
  <2> QED  BY <2>1
<1>2. CASE EnterDirectory
  <2> DEFINE f == [dir |-> node, dst |-> dst, at |-> 1]
  <2>1. f \in Frames /\ f.dir = node /\ f.at = 1 /\ node \in Dirs
        /\ stack' = Append(stack, f)
    BY <1>2 DEF EnterDirectory, Frames, IInv, PathInv
  <2> HIDE DEF f
  <2>2. /\ DOMAIN stack' = 1 .. Len(stack) + 1 /\ DOMAIN stack = 1 .. Len(stack)
        /\ Len(stack) \in Nat
        /\ stack'[Len(stack) + 1] = f /\ \A i \in 1 .. Len(stack) : stack'[i] = stack[i]
    BY <1>0, <2>1
  <2>3. Len(Entries[node]) \in Nat
    BY <2>1, TreeAssumption
  <2> QED  BY <2>1, <2>2, <2>3 DEF AtInv
<1>3. CASE NextEntry
  <2>1. /\ stack # <<>> /\ LastOf(stack).at <= Len(Entries[LastOf(stack).dir])
        /\ stack' = [stack EXCEPT ![Len(stack)].at = LastOf(stack).at + 1]
    BY <1>0, <1>3 DEF NextEntry, MoreEntries, AfterEntry, Frame
  <2>2. LastOf(stack) \in Frames
    BY <1>0, <2>1, ButLastIs
  <2>3. LastOf(stack).at \in Nat \ {0} /\ Len(Entries[LastOf(stack).dir]) \in Nat
    BY <2>2, TreeAssumption DEF Frames
  <2>4. /\ DOMAIN stack' = DOMAIN stack
        /\ \A i \in DOMAIN stack' : stack'[i] = stack[i] \/ (stack'[i].dir = LastOf(stack).dir
                                                   /\ stack'[i].at = LastOf(stack).at + 1)
    BY <1>0, <2>1, <2>2 DEF Frames, LastOf
  <2>5. ASSUME NEW i \in DOMAIN stack'
        PROVE  stack'[i].at \in 1 .. Len(Entries[stack'[i].dir]) + 1
    <3>1. CASE stack'[i] = stack[i]
      BY <2>4, <3>1 DEF AtInv
    <3>2. CASE stack'[i].dir = LastOf(stack).dir /\ stack'[i].at = LastOf(stack).at + 1
      BY <2>1, <2>3, <3>2
    <3> QED  BY <2>4, <3>1, <3>2
  <2> QED  BY <2>5 DEF AtInv
<1>4. CASE LeaveDirectory
  <2>1. stack' = ButLast(stack) /\ stack # <<>>
    BY <1>0, <1>4 DEF LeaveDirectory
  <2>2. /\ Len(stack) \in Nat \ {0} /\ DOMAIN stack = 1 .. Len(stack)
        /\ DOMAIN stack' = 1 .. Len(stack) - 1
        /\ \A i \in 1 .. Len(stack) - 1 : stack'[i] = stack[i]
    BY <1>0, <2>1, ButLastIs
  <2>3. DOMAIN stack' \subseteq DOMAIN stack /\ \A i \in DOMAIN stack' : stack'[i] = stack[i]
    BY <2>2
  <2> QED  BY <2>3 DEF AtInv
<1> QED  BY <1>1, <1>2, <1>3, <1>4 DEF Next, Step, User, Plain

LEMMA RangeStep == IInv /\ RangeInv /\ Next => RangeInv'
<1> SUFFICES ASSUME IInv, RangeInv, Next PROVE RangeInv'
  OBVIOUS
<1>0. /\ stack \in Seq(Frames) /\ (pc = "entry" => stack # <<>>) /\ intr \in BOOLEAN
      /\ ArgCount' = ArgCount /\ ArgCount \in Nat /\ ArgCount <= Len(Args)
      /\ \A i \in 1 .. Len(Args) : Args[i] \in Nodes
  <2>1. oopt' = oopt
    BY DEF Next, Step, User, NextArg, CommandEnds, ToFile, EnterDirectory, TransferFails,
       NextEntry, LeaveDirectory, File, FileFails, AskFirst, Answer, NoAnswer,
       Interrupt, opts
  <2>2. ArgCount' = ArgCount /\ ArgCount \in Nat /\ ArgCount <= Len(Args)
    BY <2>1, TreeAssumption DEF ArgCount
  <2> QED  BY <2>2, TreeAssumption DEF IInv, ControlInv
<1> USE DEF RangeInv, opts, walk, dest, hist, Returns
<1>1. CASE NextArg
  <2>1. next \in 1 .. ArgCount /\ next' = next + 1 /\ Args[next] \in Nodes
    BY <1>0, <1>1 DEF NextArg, ArgLoopEnds, AfterRefused
  <2>2. next' \in 1 .. ArgCount' + 1
    BY <1>0, <2>1
  <2>3. node' \in Nodes /\ lost' \subseteq Nodes /\ pc' \in {"arg", "transfer"}
    BY <1>1, <2>1 DEF NextArg, Skipped
  <2> QED  BY <1>1, <2>2, <2>3 DEF NextArg
<1>2. CASE CommandEnds
  BY <1>0, <1>2 DEF CommandEnds, ArgLoopEnds
<1>3. CASE ToFile
  BY <1>0, <1>3 DEF ToFile
<1>4. CASE EnterDirectory
  <2>0. dst \in Seq(Names) /\ Len(dst) \in 0 .. Len(dst)
    BY DEF IInv, PathInv
  <2>1. node \in Dirs /\ dstdirs' \subseteq Seq(Names) /\ opendirs' \subseteq Dirs
    BY <1>4, <2>0, ChainPaths DEF EnterDirectory, Made
  <2> QED  BY <1>0, <1>4, <2>1 DEF EnterDirectory
<1>5. CASE TransferFails
  <2>0. dst \in Seq(Names)
    BY DEF IInv, PathInv
  <2>1. dstdirs' \subseteq Seq(Names)
    BY <1>5, <2>0, ChainPaths DEF TransferFails
  <2>2. pc' \in {"arg", "entry"} /\ lost' \subseteq Nodes
    BY <1>5 DEF TransferFails, Skipped, Caller
  <2> QED  BY <1>0, <1>5, <2>1, <2>2 DEF TransferFails
<1>6. CASE NextEntry
  <2>1. stack # <<>> /\ LastOf(stack).at <= Len(Entries[LastOf(stack).dir])
    BY <1>0, <1>6 DEF NextEntry, MoreEntries, Frame
  <2>2. LastOf(stack) \in Frames
    BY <1>0, <2>1, ButLastIs
  <2>3. Entries[LastOf(stack).dir] \in Seq(Nodes) /\ LastOf(stack).at \in Nat \ {0}
    BY <2>2, TreeAssumption DEF Frames
  <2>4. Entries[LastOf(stack).dir][LastOf(stack).at] \in Nodes
    BY <2>1, <2>3
  <2>5. node' \in Nodes /\ lost' \subseteq Nodes /\ pc' \in {"entry", "transfer"}
    BY <1>6, <2>4 DEF NextEntry, Skipped, Frame
  <2> QED  BY <1>0, <1>6, <2>5 DEF NextEntry
<1>7. CASE LeaveDirectory
  <2>1. stack # <<>> /\ LastOf(stack) \in Frames
    BY <1>0, <1>7, ButLastIs DEF LeaveDirectory
  <2>2. Rest(LastOf(stack)) \subseteq Nodes
    BY <2>1, RestInside, InsideNodes DEF Frames
  <2>3. lost' \subseteq Nodes /\ pc' \in {"arg", "entry"}
    BY <1>7, <2>2 DEF LeaveDirectory, Rest, Frame
  <2>4. opendirs' \subseteq Dirs
    BY <1>7 DEF LeaveDirectory, ClosedAtInterrupt
  <2> QED  BY <1>0, <1>7, <2>3, <2>4 DEF LeaveDirectory
<1>8. CASE File \/ FileFails
  <2>0. dst \in Seq(Names)
    BY DEF IInv, PathInv
  <2>1. /\ pc = "file" /\ node \in Files /\ pc' \in {"arg", "entry"}
        /\ dstfiles' \subseteq Seq(Names) /\ handled' \in [Files -> Nat] /\ lost' \subseteq Nodes
        /\ UNCHANGED <<ropt, oopt, onexist, next, node, exist, opendirs, dstdirs, forall>>
    BY <1>8, <2>0 DEF File, FileFails, Handled, Skipped, Caller, Written
  <2> QED  BY <1>0, <2>1
<1>9. CASE AskFirst
  BY <1>0, <1>9 DEF AskFirst
<1>10. CASE Answer
  <2>0. dst \in Seq(Names)
    BY DEF IInv, PathInv
  <2>1. /\ pc = "ask" /\ node \in Files /\ pc' \in {"arg", "entry"}
        /\ dstfiles' \subseteq Seq(Names) /\ handled' \in [Files -> Nat] /\ lost' \subseteq Nodes
        /\ UNCHANGED <<ropt, oopt, onexist, next, node, opendirs, dstdirs>>
    BY <1>10, <2>0 DEF Answer, Handled, Skipped, Caller, Written
  <2>2. exist' \in Exists
    BY <1>10 DEF Answer, Stored, Exists
  <2>3. forall' \in BOOLEAN
    BY <1>10 DEF Answer
  <2> QED  BY <1>0, <2>1, <2>2, <2>3
<1>11. CASE NoAnswer
  <2>1. /\ pc' \in {"arg", "entry"} /\ lost' \subseteq Nodes
        /\ UNCHANGED <<ropt, oopt, onexist, next, node, exist, opendirs, dstdirs, dstfiles,
                       handled, forall>>
    BY <1>11 DEF NoAnswer, Skipped, Caller
  <2> QED  BY <1>0, <2>1
<1>12. CASE Interrupt
  BY <1>0, <1>12 DEF Interrupt
<1> QED  BY <1>1, <1>2, <1>3, <1>4, <1>5, <1>6, <1>7, <1>8, <1>9, <1>10, <1>11,
            <1>12 DEF Next, Step, User

LEMMA WayStep == IInv /\ RangeInv /\ AtInv(stack) /\ WayInv /\ Next => WayInv'
<1> SUFFICES ASSUME IInv, RangeInv, AtInv(stack), WayInv, Next
             PROVE  Nested(stack') /\ Apart(stack') /\ (Busy' => Below(stack', node'))
  BY DEF WayInv, Nested, Apart, Below, Ahead, Rest, LastOf
<1>0. /\ stack \in Seq(Frames) /\ (pc = "entry" => stack # <<>>)
      /\ (pc \in {"arg", "done"} => stack = <<>>)
      /\ Nested(stack) /\ Apart(stack) /\ (Busy => Below(stack, node))
  BY DEF IInv, ControlInv, WayInv
<1>1. CASE NextArg
  <2>1. stack' = stack /\ stack = <<>> /\ Ahead(stack) = {}
    BY <1>0, <1>1 DEF NextArg, Ahead
  <2> QED  BY <1>0, <2>1 DEF Below
<1>2. CASE ToFile \/ AskFirst
  <2>1. stack' = stack /\ node' = node /\ Busy
    BY <1>2 DEF ToFile, AskFirst, walk, Busy
  <2> QED  BY <1>0, <2>1
<1>3. CASE EnterDirectory
  <2>1. /\ node \in Dirs /\ Busy /\ ~Busy'
        /\ stack' = Append(stack, [dir |-> node, dst |-> dst, at |-> 1])
        /\ dst \in Seq(Names)
    BY <1>3 DEF EnterDirectory, Busy, IInv, PathInv
  <2>2. Nested(stack')
    BY <1>0, <2>1, NestedPushed DEF Below
  <2>3. LastOf(stack').dir = node
    BY <1>0, <2>1 DEF LastOf
  <2>4. Ahead(stack') = Ahead(stack) \cup Inside(node)
    BY <1>0, <2>1, AheadPushed
  <2>5. Apart(stack')
    BY <1>0, <2>1, <2>3, <2>4, OnePlace DEF Below, Apart
  <2> QED  BY <2>1, <2>2, <2>5
<1>4. CASE NextEntry
  <2>1. /\ stack # <<>> /\ LastOf(stack).at <= Len(Entries[LastOf(stack).dir])
        /\ stack' = [stack EXCEPT ![Len(stack)].at = LastOf(stack).at + 1]
        /\ Busy' => node' = Entries[LastOf(stack).dir][LastOf(stack).at]
    BY <1>0, <1>4 DEF NextEntry, MoreEntries, AfterEntry, Frame, Busy
  <2> DEFINE dir == LastOf(stack).dir
             n   == Entries[dir][LastOf(stack).at]
  <2>2. LastOf(stack) \in Frames
    BY <1>0, <2>1, ButLastIs
  <2>3. LastOf(stack).at \in 1 .. Len(Entries[dir]) /\ dir \in Dirs
    BY <2>1, <2>2, TreeAssumption DEF Frames
  <2>4. /\ Nested(stack') /\ LastOf(stack').dir = dir /\ n \in Inside(dir)
        /\ Ahead(stack) = Ahead(stack') \cup {n} /\ n \notin Ahead(stack')
    BY <1>0, <2>1, <2>3, AheadAdvanced
  <2>5. Above[n] = Above[dir] \cup {n}
    BY <2>3, <2>4, AboveEntry
  <2> HIDE DEF dir, n
  <2>6. Ahead(stack) \cap Above[dir] = {}
    BY <1>0, <2>1 DEF Apart, dir
  <2>7. Apart(stack')
    BY <2>4, <2>6 DEF Apart
  <2>8. Below(stack', n)
    BY <2>4, <2>5, <2>6 DEF Below
  <2> QED  BY <2>1, <2>4, <2>7, <2>8 DEF dir, n
<1>5. CASE LeaveDirectory
  <2>1. stack # <<>> /\ stack' = ButLast(stack) /\ ~Busy'
    BY <1>0, <1>5 DEF LeaveDirectory, Busy
  <2>2. /\ Nested(stack')
        /\ stack' # <<>> => Above[LastOf(stack').dir] \subseteq Above[LastOf(stack).dir]
    BY <1>0, <2>1, NestedPopped
  <2>3. Ahead(stack') \subseteq Ahead(stack)
    BY <1>0, <2>1, AheadPopped
  <2>4. Apart(stack')
    BY <1>0, <2>1, <2>2, <2>3 DEF Apart
  <2> QED  BY <2>1, <2>2, <2>4
<1>6. CASE CommandEnds \/ TransferFails \/ File \/ FileFails \/ Answer \/ NoAnswer
  <2>1. stack' = stack /\ ~Busy'
    BY <1>6 DEF CommandEnds, TransferFails, File, FileFails, Answer, NoAnswer, Returns,
       Caller, Busy, walk
  <2> QED  BY <1>0, <2>1
<1>7. CASE Interrupt
  <2>1. stack' = stack /\ node' = node /\ pc' = pc
    BY <1>7 DEF Interrupt, walk
  <2> QED  BY <1>0, <2>1 DEF Busy
<1> QED  BY <1>1, <1>2, <1>3, <1>4, <1>5, <1>6, <1>7 DEF Next, Step, User

LEMMA CoveringNext ==
    ASSUME NEW f \in Files, NEW k \in Nat
    PROVE  /\ Covering(f, 0) = 0 /\ Covering(f, k) \in Nat
           /\ Covering(f, k + 1) = Covering(f, k) + IF Args[k + 1] \in Above[f] THEN 1 ELSE 0
<1> DEFINE C(j) == {i \in 1 .. j : Args[i] \in Above[f]}
<1>1. IsFiniteSet(C(k)) /\ Cardinality(C(k)) \in Nat
  <2>1. IsFiniteSet(1 .. k)
    BY FS_Interval
  <2>2. C(k) \subseteq 1 .. k
    OBVIOUS
  <2>3. IsFiniteSet(C(k))
    BY <2>1, <2>2, FS_Subset
  <2> QED  BY <2>3, FS_CardinalityType
<1>2. C(0) = {} /\ Cardinality({}) = 0
  BY FS_EmptySet
<1>3. 1 .. k + 1 = (1 .. k) \cup {k + 1} /\ k + 1 \notin 1 .. k
  OBVIOUS
<1>4. CASE Args[k + 1] \in Above[f]
  <2>1. C(k + 1) = C(k) \cup {k + 1} /\ k + 1 \notin C(k)
    BY <1>3, <1>4
  <2>2. Cardinality(C(k + 1)) = Cardinality(C(k)) + 1
    BY <1>1, <2>1, FS_AddElement
  <2> QED  BY <1>1, <1>2, <1>4, <2>2 DEF Covering
<1>5. CASE Args[k + 1] \notin Above[f]
  <2>1. C(k + 1) = C(k)
    BY <1>3, <1>5
  <2> QED  BY <1>1, <1>2, <1>5, <2>1 DEF Covering
<1> QED  BY <1>4, <1>5

\* A step that deals with no file leaves all of it to come, or gives it up.
LEMMA CountKept ==
    ASSUME RangeInv, CountInv, next' = next, handled' = handled,
           lost \subseteq lost', intr => intr',
           \A f \in Files : Above[f] \cap Left' # {} => Above[f] \cap Left # {},
           \A f \in Files : Above[f] \cap Left # {} =>
                                Above[f] \cap Left' # {} \/ Above[f] \cap lost' # {}
    PROVE  CountInv'
<1> SUFFICES ASSUME NEW f \in Files
             PROVE  /\ Owed(f)' <= Covering(f, next - 1)
                    /\ ~intr' => Owed(f)' = Covering(f, next - 1) \/ Above[f] \cap lost' # {}
  BY DEF CountInv, Covering
<1> DEFINE c == Covering(f, next - 1)
           a == Above[f] \cap Left = {}
           b == Above[f] \cap Left' = {}
<1>1. next - 1 \in Nat
  BY TreeAssumption DEF RangeInv, ArgCount
<1>2. c \in Nat /\ handled[f] \in Nat
  BY <1>1, CoveringNext DEF RangeInv
<1>3. /\ handled[f] + (IF a THEN 0 ELSE 1) <= c
      /\ ~intr => handled[f] + (IF a THEN 0 ELSE 1) = c \/ Above[f] \cap lost # {}
  BY DEF CountInv, Owed
<1>4. Owed(f)' = handled[f] + IF b THEN 0 ELSE 1
  BY DEF Owed
<1>5. /\ a => b
      /\ b => a \/ Above[f] \cap lost' # {}
      /\ Above[f] \cap lost # {} => Above[f] \cap lost' # {}
  OBVIOUS
<1> HIDE DEF a, b, c
<1>6. CASE a /\ b
  BY <1>2, <1>3, <1>4, <1>5, <1>6 DEF c
<1>7. CASE ~a /\ ~b
  BY <1>2, <1>3, <1>4, <1>5, <1>7 DEF c
<1>8. CASE ~a /\ b
  BY <1>2, <1>3, <1>4, <1>5, <1>8 DEF c
<1> QED  BY <1>5, <1>6, <1>7, <1>8

\* A file that is dealt with is not to come again for this argument.
LEMMA CountHandled ==
    ASSUME RangeInv, WayInv, CountInv, Busy, node \in Files, UNCHANGED <<next, lost>>,
           intr => intr', handled' = [handled EXCEPT ![node] = @ + 1],
           Left' = Ahead(stack)
    PROVE  CountInv'
<1> SUFFICES ASSUME NEW f \in Files PROVE Owed(f)' = Owed(f)
  <2>1. \A f \in Files : Covering(f, next - 1)' = Covering(f, next - 1)
    BY DEF Covering
  <2> QED  BY <2>1 DEF CountInv
<1>1. Left = Ahead(stack) \cup {node}
  BY DEF Left, Turn
<1>2. handled[f] \in Nat /\ node \in Nodes
  BY DEF RangeInv
<1>3. CASE f = node
  <2>1. handled'[f] = handled[f] + 1
    BY <1>3 DEF RangeInv
  <2>2. Above[f] \cap Left' = {}
    BY <1>3 DEF WayInv, Below
  <2>3. Above[f] \cap Left # {}
    BY <1>1, <1>2, <1>3, AboveSelf
  <2> QED  BY <1>2, <2>1, <2>2, <2>3 DEF Owed
<1>4. CASE f # node
  <2>1. handled'[f] = handled[f]
    BY <1>4 DEF RangeInv
  <2>2. node \notin Above[f]
    BY <1>4, WayDown, TreeAssumption DEF Nodes
  <2>3. Above[f] \cap Left' = Above[f] \cap Left
    BY <1>1, <2>2
  <2> QED  BY <2>1, <2>3 DEF Owed
<1> QED  BY <1>3, <1>4

LEMMA CountArg == IInv /\ RangeInv /\ CountInv /\ NextArg => CountInv'
<1> SUFFICES ASSUME IInv, RangeInv, CountInv, NextArg, NEW f \in Files
             PROVE  /\ Owed(f)' <= Covering(f, next' - 1)
                    /\ ~intr' => Owed(f)' = Covering(f, next' - 1) \/ Above[f] \cap lost' # {}
  BY DEF CountInv, Covering
<1> DEFINE a == Args[next]
           k == next - 1
<1>1. /\ pc = "arg" /\ stack = <<>> /\ stack' = stack /\ intr' = intr /\ handled' = handled
      /\ next' = next + 1
      /\ \/ pc' = "transfer" /\ node' = a /\ lost' = lost
         \/ pc' = pc /\ node' = node /\ lost' = lost \cup {a}
  BY DEF IInv, ControlInv, NextArg, AfterRefused, Skipped
<1>2. k \in Nat /\ next' - 1 = k + 1 /\ next = k + 1
  BY <1>1, TreeAssumption DEF RangeInv, ArgCount
<1>3. /\ Covering(f, k) \in Nat /\ handled[f] \in Nat
      /\ Covering(f, k + 1) = Covering(f, k) + IF a \in Above[f] THEN 1 ELSE 0
  BY <1>2, CoveringNext DEF RangeInv
<1>4. Owed(f) = handled[f]
  <2>1. Left = {}
    BY <1>1 DEF Left, Ahead, Turn, Busy
  <2> QED  BY <1>3, <2>1 DEF Owed
<1>5. Owed(f) <= Covering(f, k) /\ (~intr => Owed(f) = Covering(f, k) \/ Above[f] \cap lost # {})
  BY DEF CountInv
<1>6. CASE pc' = "transfer" /\ node' = a /\ lost' = lost
  <2>1. Left' = {a}
    BY <1>1, <1>6 DEF Left, Ahead, Turn, Busy
  <2>2. Owed(f)' = handled[f] + IF a \in Above[f] THEN 1 ELSE 0
    BY <1>1, <2>1 DEF Owed
  <2> HIDE DEF a, k
  <2>3. CASE a \in Above[f]
    BY <1>1, <1>2, <1>3, <1>4, <1>5, <1>6, <2>2, <2>3
  <2>4. CASE a \notin Above[f]
    BY <1>1, <1>2, <1>3, <1>4, <1>5, <1>6, <2>2, <2>4
  <2> QED  BY <2>3, <2>4
<1>7. CASE pc' = pc /\ node' = node /\ lost' = lost \cup {a}
  <2>1. Left' = {}
    BY <1>1, <1>7 DEF Left, Ahead, Turn, Busy
  <2>2. Owed(f)' = handled[f]
    BY <1>1, <1>3, <2>1 DEF Owed
  <2> HIDE DEF a, k
  <2>3. CASE a \in Above[f]
    BY <1>1, <1>2, <1>3, <1>4, <1>5, <1>7, <2>2, <2>3
  <2>4. CASE a \notin Above[f]
    BY <1>1, <1>2, <1>3, <1>4, <1>5, <1>7, <2>2, <2>4
  <2> QED  BY <2>3, <2>4
<1> QED  BY <1>1, <1>6, <1>7

LEMMA CountStep ==
    IInv /\ RangeInv /\ AtInv(stack) /\ WayInv /\ CountInv /\ Next => CountInv'
<1> SUFFICES ASSUME IInv, RangeInv, AtInv(stack), WayInv, CountInv, Next PROVE CountInv'
  OBVIOUS
<1>0. /\ stack \in Seq(Frames) /\ (pc = "entry" => stack # <<>>)
      /\ Nested(stack) /\ \A f \in Files : Above[f] \in Upward
  BY AboveUpward DEF IInv, ControlInv, WayInv, Nodes
<1>00. Ahead(stack)' = Ahead(stack')
  BY DEF Ahead, Rest
<1> USE DEF walk, hist, Returns, Caller, Busy
<1>1. CASE NextArg
  BY <1>1, CountArg
<1>2. CASE CommandEnds \/ ToFile \/ AskFirst \/ Interrupt
  <2>1. /\ UNCHANGED <<next, handled, lost, stack, node>> /\ (intr => intr')
        /\ Busy' = Busy
    BY <1>2 DEF CommandEnds, ToFile, AskFirst, Interrupt
  <2>2. Left' = Left
    BY <1>00, <2>1 DEF Left, Turn
  <2> QED  BY <2>1, <2>2, CountKept
<1>3. CASE EnterDirectory
  <2>1. /\ UNCHANGED <<next, handled, lost, intr>> /\ node \in Dirs /\ Busy /\ ~Busy'
        /\ stack' = Append(stack, [dir |-> node, dst |-> dst, at |-> 1])
        /\ dst \in Seq(Names)
    BY <1>3 DEF EnterDirectory, IInv, PathInv
  <2>2. Ahead(stack') = Ahead(stack) \cup Inside(node)
    BY <1>0, <2>1, AheadPushed
  <2>3. Left = Ahead(stack) \cup {node} /\ Left' = Ahead(stack) \cup Inside(node)
    BY <1>00, <2>1, <2>2 DEF Left, Turn
  <2>4. ASSUME NEW f \in Files
        PROVE  Inside(node) \cap Above[f] # {} <=> node \in Above[f]
    <3>1. f \in Nodes /\ f # node
      BY <2>1, TreeAssumption DEF Nodes
    <3> QED  BY <1>0, <2>1, <3>1, WayDown DEF Upward
  <2>5. \A f \in Files : Above[f] \cap Left' # {} <=> Above[f] \cap Left # {}
    BY <2>3, <2>4
  <2> QED  BY <2>1, <2>5, CountKept
<1>4. CASE TransferFails \/ FileFails \/ NoAnswer
  <2>1. /\ UNCHANGED <<next, handled, stack>> /\ lost' = lost \cup {node} /\ (intr => intr')
        /\ Busy /\ ~Busy'
    <3>1. CASE TransferFails
      BY <3>1 DEF TransferFails, Skipped
    <3>2. CASE FileFails
      BY <3>2 DEF FileFails, Skipped
    <3>3. CASE NoAnswer
      <4>1. intr => intr'
        BY <3>3 DEF NoAnswer
      <4>2. /\ UNCHANGED <<next, handled, stack>> /\ lost' = lost \cup {node}
            /\ Busy /\ ~Busy'
        BY <3>3 DEF NoAnswer, Skipped
      <4> QED  BY <4>1, <4>2
    <3> QED  BY <1>4, <3>1, <3>2, <3>3
  <2>2. Left = Ahead(stack) \cup {node} /\ Left' = Ahead(stack)
    BY <1>00, <2>1 DEF Left, Turn
  <2> QED  BY <2>1, <2>2, CountKept
<1>5. CASE NextEntry
  <2> DEFINE n == Entries[LastOf(stack).dir][LastOf(stack).at]
  <2>1. /\ stack # <<>> /\ LastOf(stack).at <= Len(Entries[LastOf(stack).dir])
        /\ stack' = [stack EXCEPT ![Len(stack)].at = LastOf(stack).at + 1]
        /\ UNCHANGED <<next, handled, intr>> /\ ~Busy
        /\ \/ Busy' /\ node' = n /\ lost' = lost
           \/ ~Busy' /\ lost' = lost \cup {n}
    BY <1>0, <1>5 DEF NextEntry, MoreEntries, AfterEntry, Frame, Skipped
  <2>2. LastOf(stack) \in Frames
    BY <1>0, <2>1, ButLastIs
  <2>3. LastOf(stack).at \in 1 .. Len(Entries[LastOf(stack).dir])
    BY <2>1, <2>2, TreeAssumption DEF Frames
  <2>4. Ahead(stack) = Ahead(stack') \cup {n}
    BY <1>0, <2>1, <2>3, AheadAdvanced
  <2> HIDE DEF n
  <2>5. /\ Left = Ahead(stack') \cup {n}
        /\ Left' = Ahead(stack') \cup {n} \/ (Left' = Ahead(stack') /\ n \in lost')
    BY <1>00, <2>1, <2>4 DEF Left, Turn
  <2>6. lost \subseteq lost'
    BY <2>1
  <2>7. /\ \A f \in Files : Above[f] \cap Left' # {} => Above[f] \cap Left # {}
        /\ \A f \in Files : Above[f] \cap Left # {} =>
                                Above[f] \cap Left' # {} \/ Above[f] \cap lost' # {}
    BY <2>5
  <2> QED  BY <2>1, <2>6, <2>7, CountKept
<1>6. CASE LeaveDirectory
  <2>1. /\ stack # <<>> /\ stack' = ButLast(stack) /\ ~Busy /\ ~Busy'
        /\ UNCHANGED <<next, handled, intr>> /\ lost' = lost \cup Rest(LastOf(stack))
    BY <1>0, <1>6 DEF LeaveDirectory, Rest, Frame
  <2>2. Ahead(stack) = Ahead(stack') \cup Rest(LastOf(stack))
    BY <1>0, <2>1, AheadPopped
  <2>3. Left = Ahead(stack') \cup Rest(LastOf(stack)) /\ Left' = Ahead(stack')
    BY <1>00, <2>1, <2>2 DEF Left, Turn
  <2> QED  BY <2>1, <2>3, CountKept
<1>7. CASE File \/ Answer
  <2>1. /\ Busy /\ ~Busy' /\ node \in Files /\ UNCHANGED <<next, stack>> /\ (intr => intr')
        /\ \/ handled' = [handled EXCEPT ![node] = @ + 1] /\ lost' = lost
           \/ handled' = handled /\ lost' = lost \cup {node}
    BY <1>7 DEF File, Answer, Handled, Skipped, RangeInv
  <2>2. Left = Ahead(stack) \cup {node} /\ Left' = Ahead(stack)
    BY <1>00, <2>1 DEF Left, Turn
  <2>3. CASE handled' = [handled EXCEPT ![node] = @ + 1] /\ lost' = lost
    BY <2>1, <2>2, <2>3, CountHandled
  <2>4. CASE handled' = handled /\ lost' = lost \cup {node}
    BY <2>1, <2>2, <2>4, CountKept
  <2> QED  BY <2>1, <2>3, <2>4
<1> QED  BY <1>1, <1>2, <1>3, <1>4, <1>5, <1>6, <1>7 DEF Next, Step, User

TreeInv == RangeInv /\ AtInv(stack) /\ WayInv /\ CountInv

LEMMA InitTreeInv == Init => TreeInv
<1> SUFFICES ASSUME Init PROVE TreeInv
  OBVIOUS
<1>1. ArgCount \in Nat \ {0} /\ Args[1] \in Nodes
  BY TreeAssumption DEF ArgCount
<1>2. RangeInv
  <2>1. oopt \in BOOLEAN /\ ropt \in BOOLEAN
    BY TreeAssumption DEF Init
  <2>2. /\ next \in 1 .. ArgCount + 1 /\ node \in Nodes
        /\ handled \in [Files -> Nat] /\ onexist \in Exists /\ exist \in Exists
        /\ dstdirs \subseteq Seq(Names) /\ dstfiles \subseteq Seq(Names)
    BY <1>1, PathAssumption DEF Init
  <2> QED  BY <2>1, <2>2 DEF Init, RangeInv
<1>3. AtInv(stack) /\ WayInv
  BY DEF Init, AtInv, WayInv, Nested, Apart, Busy
<1>4. ASSUME NEW f \in Files
      PROVE  Owed(f) = 0 /\ Covering(f, next - 1) = 0
  <2>1. Left = {} /\ handled[f] = 0 /\ next - 1 = 0
    BY DEF Init, Left, Ahead, Turn, Busy
  <2> QED  BY <2>1, CoveringNext DEF Owed
<1>5. CountInv
  BY <1>4 DEF CountInv
<1> QED  BY <1>2, <1>3, <1>5 DEF TreeInv

LEMMA TreeInvariant == Spec => []TreeInv
<1>1. IInv /\ TreeInv /\ [Next]_vars => TreeInv'
  <2>1. ASSUME IInv, TreeInv, Next PROVE TreeInv'
    BY <2>1, RangeStep, AtStep, WayStep, CountStep DEF TreeInv
  <2>2. ASSUME TreeInv, UNCHANGED vars PROVE TreeInv'
    <3>1. UNCHANGED <<pc, intr, ropt, oopt, onexist, next, node, stack, exist, opendirs, dstdirs,
                      dstfiles, handled, lost, forall>>
      BY <2>2 DEF vars, opts, walk, dest, hist
    <3>2. RangeInv'
      BY <2>2, <3>1 DEF TreeInv, RangeInv, ArgCount
    <3>3. AtInv(stack)'
      BY <2>2, <3>1 DEF TreeInv, AtInv
    <3>4. WayInv'
      BY <2>2, <3>1 DEF TreeInv, WayInv, Nested, Apart, Below, Ahead, Rest, LastOf, Busy
    <3>5. CountInv'
      BY <2>2, <3>1 DEF TreeInv, CountInv, Owed, Covering, Left, Ahead, Rest, Turn, Busy
    <3> QED  BY <3>2, <3>3, <3>4, <3>5 DEF TreeInv
  <2> QED  BY <2>1, <2>2
<1> QED  BY InitTreeInv, <1>1, Invariance, PTL DEF Spec

(***************************************************************************)
(* A get or put deals with every file of every argument, once for each     *)
(* argument it is part of, unless it or a directory above it was given up  *)
(* or SIGINT came; it deals with none more often, in every tree and        *)
(* whatever fails (transfer.c:171-239, cmds.c:319-344).                    *)
(***************************************************************************)
THEOREM WholeTreeTransferred == Spec => []WholeTree
<1>1. ASSUME IInv, TreeInv PROVE WholeTree
  <2> SUFFICES ASSUME NEW f \in Files
               PROVE  /\ handled[f] <= Covering(f, next - 1)
                      /\ pc = "done" /\ ~intr => \/ handled[f] = Covering(f, ArgCount)
                                                 \/ Above[f] \cap lost # {}
    BY DEF WholeTree
  <2>1. handled[f] \in Nat /\ next - 1 \in Nat /\ ArgCount \in Nat
    BY <1>1, TreeAssumption DEF TreeInv, RangeInv, ArgCount
  <2>2. Covering(f, next - 1) \in Nat
    BY <2>1, CoveringNext
  <2>3. /\ Owed(f) <= Covering(f, next - 1)
        /\ ~intr => Owed(f) = Covering(f, next - 1) \/ Above[f] \cap lost # {}
    BY <1>1 DEF TreeInv, CountInv
  <2>4. handled[f] <= Covering(f, next - 1)
    BY <2>1, <2>2, <2>3 DEF Owed
  <2>5. ASSUME pc = "done", ~intr
        PROVE  Owed(f) = handled[f] /\ next - 1 = ArgCount
    <3>1. Left = {}
      BY <1>1, <2>5 DEF IInv, ControlInv, Left, Ahead, Turn, Busy
    <3>2. next - 1 = ArgCount
      BY <1>1, <2>1, <2>5 DEF TreeInv, RangeInv
    <3> QED  BY <2>1, <3>1, <3>2 DEF Owed
  <2> QED  BY <2>3, <2>4, <2>5
<1> QED  BY <1>1, Invariance, TreeInvariant, PTL

\* The variables of get and put keep to their ranges; control never leaves
\* the tree.
THEOREM TypeCorrect == Spec => []TypeOK
<1>1. ASSUME IInv, TreeInv PROVE TypeOK
  <2>1. \A i \in DOMAIN stack : stack[i].at \in 1 .. Len(Entries[stack[i].dir]) + 1
    BY <1>1 DEF TreeInv, AtInv
  <2>2. stack \in Seq([dir : Dirs, dst : Seq(Names), at : Nat])
    <3>1. Frames \subseteq [dir : Dirs, dst : Seq(Names), at : Nat]
      BY DEF Frames
    <3>2. stack \in Seq(Frames)
      BY <1>1 DEF IInv, ControlInv
    <3> QED  BY <3>1, <3>2, SeqMonotonic, Zenon
  <2>3. /\ pc \in {"arg", "transfer", "entry", "file", "ask", "done"}
        /\ intr \in BOOLEAN /\ late \in 0 .. 2 /\ dst \in Seq(Names)
    BY <1>1 DEF IInv, ControlInv, PathInv, LateInv
  <2> QED  BY <1>1, <2>1, <2>2, <2>3 DEF TreeInv, RangeInv, TypeOK
<1> QED  BY <1>1, Invariance, TreeInvariant, PTL

(***************************************************************************)
(* After SIGINT or Cancel at most one more file is begun, at whatever      *)
(* depth (transfer.c:171, cmds.c:319 and 833).                             *)
(***************************************************************************)
THEOREM StopsPromptly == Spec => []StopsAtInterrupt
<1>1. IInv => StopsAtInterrupt
  BY DEF IInv, LateInv, StopsAtInterrupt
<1> QED  BY Invariance, <1>1, PTL

(***************************************************************************)
(* A get closes every directory it opens, also after SIGINT                *)
(* (transfer.c:241-252).  A put does not: see ClosedAtInterrupt.           *)
(***************************************************************************)
THEOREM GetClosesDirectories ==
    ASSUME RemoteSource = TRUE
    PROVE  Spec => []DirectoriesClosed
<1>1. IInv => DirectoriesClosed
  <2> SUFFICES ASSUME IInv, pc = "done" PROVE opendirs = {}
    BY DEF DirectoriesClosed
  <2>1. stack = <<>> /\ opendirs \subseteq Walked(stack)
    BY RemoteSource = TRUE DEF IInv, ControlInv, WalkInv
  <2> QED  BY <2>1, NoneWalked
<1> QED  BY Invariance, <1>1, PTL

(***************************************************************************)
(* When a directory is walked all directories above the place of what is   *)
(* in it exist at the destination, and it itself, unless a file was in its *)
(* place, as mkpath and transfer take that for success; nothing below such *)
(* a file is walked (transfer.c:153-154, 686).                             *)
(***************************************************************************)
THEOREM ParentsFirst == Spec => []ParentsExist
<1>1. IInv => ParentsExist
  BY DEF IInv, PathInv
<1> QED  BY Invariance, <1>1, PTL

\* After an answer for all no question is asked (cmds.c:308-309).
THEOREM AnswerForAll == Spec => []AllMeansAll
<1>1. IInv => AllMeansAll
  BY DEF IInv, AnswerInv, AllMeansAll
<1> QED  BY Invariance, <1>1, PTL

=============================================================================
