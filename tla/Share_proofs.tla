---------------------------- MODULE Share_proofs ----------------------------
(***************************************************************************)
(* For every tree, every list of arguments and every order of the steps of *)
(* two users: a removal stays below its arguments, warns of what it leaves *)
(* of them, stops after SIGINT, and both users close their directories; a  *)
(* listing prints what it was asked for, and its columns lose nothing.     *)
(***************************************************************************)
EXTENDS Share, Screen, SequenceTheorems, FunctionTheorems, FiniteSetTheorems, TLAPS

-----------------------------------------------------------------------------
\* What is in a directory that is to go is to go itself.
LEMMA CoveredDown ==
    ASSUME NEW n \in Nodes, Parent[n] \in Covered
    PROVE  n \in Covered
  BY DEF Covered, Downward

LEMMA ArgsCovered ==
    ASSUME NEW i \in 1 .. Len(Args)
    PROVE  Args[i] \in Covered
<1>1. Args[i] \in Arguments /\ Args[i] \in Nodes
    BY RemoveAssumption DEF Arguments, Nodes
<1>. QED
    BY <1>1 DEF Covered

Frames  == [dir : Dirs \cap Covered, todo : SUBSET Covered]
Open(s) == {s[i].dir : i \in DOMAIN s}

(***************************************************************************)
(* The walk never leaves what is covered by the arguments; a directory is  *)
(* only removed or read when it is the node's turn; and after SIGINT a     *)
(* removal leads back to a caller that stops.                              *)
(***************************************************************************)
ControlInv ==
    /\ pc \in {"arg", "stat", "unlink", "opendir", "entry", "rmdir", "done"}
    /\ intr \in BOOLEAN /\ ropt \in BOOLEAN
    /\ pc \in {"arg", "done"} => stack = <<>>
    /\ pc = "entry" => stack # <<>>
    /\ ~ropt => pc \in {"arg", "unlink", "done"} /\ stack = <<>>

WalkInv ==
    /\ next \in Nat \ {0} /\ node \in Covered /\ stack \in Seq(Frames)
    /\ pc \in {"opendir", "rmdir"} => node \in Dirs
    /\ handles \subseteq Open(stack) /\ exists \subseteq Nodes

LateInv == late \in {0, 1} /\ (late = 1 => intr /\ pc \in {"arg", "entry", "done"})

RemoveInv == ControlInv /\ WalkInv /\ LateInv /\ OnlyAsked

\* All that is on the server is in a directory that is there, too.
ExistInv == exists \in Upward

\* What rm has yet to look at, or is looking at.
Pending ==
    {Args[i] : i \in next .. Len(Args)} \cup Open(stack)
       \cup IF pc \in {"stat", "unlink", "opendir", "rmdir"} THEN {node} ELSE {}

Told(n) == Above[n] \cap Covered \cap warned # {}

(***************************************************************************)
(* Of all that is to go and still there, rm has yet to come to a directory *)
(* above it, or it has warned of one.  That the entries of a directory are *)
(* not mentioned is the point: to remove the directory fails when one of   *)
(* them is still there, for whatever reason, and this is warned of.        *)
(***************************************************************************)
SilentInv ==
    /\ ~intr => \A n \in exists \cap Covered : Told(n) \/ Above[n] \cap Pending # {}
    /\ pc = "done" /\ ~intr => next > Len(Args)

-----------------------------------------------------------------------------
\* The stack of directories, shortened.
LEMMA Shortened ==
    ASSUME NEW F, NEW s \in Seq(F), s # <<>>
    PROVE  LET t == SubSeq(s, 1, Len(s) - 1) IN
           /\ t \in Seq(F) /\ Len(t) = Len(s) - 1
           /\ \A i \in 1 .. Len(s) - 1 : t[i] = s[i]
<1>1. /\ Len(s) \in Nat \ {0} /\ 1 \in Int /\ Len(s) - 1 \in Int
      /\ \A i \in 1 .. Len(s) - 1 : s[i] \in F
    OBVIOUS
<1> DEFINE t == SubSeq(s, 1, Len(s) - 1)
<1>2. /\ t \in Seq(F)
      /\ Len(t) = IF 1 <= Len(s) - 1 THEN Len(s) - 1 - 1 + 1 ELSE 0
      /\ \A i \in 1 .. Len(s) - 1 - 1 + 1 : t[i] = s[1 + i - 1]
    BY <1>1, SubSeqProperties
<1>3. \A n \in Nat \ {0} : /\ n - 1 - 1 + 1 = n - 1
                            /\ (IF 1 <= n - 1 THEN n - 1 - 1 + 1 ELSE 0) = n - 1
                            /\ \A i \in 1 .. n - 1 : 1 + i - 1 = i
    OBVIOUS
<1> HIDE DEF t
<1>4. t \in Seq(F) /\ Len(t) = Len(s) - 1
    BY <1>1, <1>2, <1>3
<1>5. \A i \in 1 .. Len(s) - 1 : t[i] = s[i]
    BY <1>1, <1>2, <1>3
<1>. QED
    BY <1>4, <1>5 DEF t

LEMMA OpenShortened ==
    ASSUME NEW s \in Seq(Frames), s # <<>>
    PROVE  Open(s) \ {s[Len(s)].dir} \subseteq Open(SubSeq(s, 1, Len(s) - 1))
<1> DEFINE t == SubSeq(s, 1, Len(s) - 1)
<1>1. /\ DOMAIN t = 1 .. Len(s) - 1 /\ DOMAIN s = 1 .. Len(s) /\ Len(s) \in Nat \ {0}
      /\ \A i \in 1 .. Len(s) - 1 : t[i] = s[i]
    BY Shortened
<1> HIDE DEF t
<1>2. ASSUME NEW i \in DOMAIN s, s[i].dir # s[Len(s)].dir
      PROVE  s[i].dir \in Open(t)
  <2>1. i \in DOMAIN t /\ t[i] = s[i]
      BY <1>1, <1>2
  <2>. QED
      BY <2>1 DEF Open
<1>. QED
    BY <1>2 DEF Open, t

LEMMA OpenAppended ==
    ASSUME NEW s \in Seq(Frames), NEW f \in Frames
    PROVE  Open(s) \cup {f.dir} \subseteq Open(Append(s, f))
<1> DEFINE t == Append(s, f)
<1>1. /\ DOMAIN t = 1 .. Len(s) + 1 /\ DOMAIN s = 1 .. Len(s) /\ Len(s) \in Nat
      /\ t[Len(s) + 1] = f /\ \A i \in 1 .. Len(s) : t[i] = s[i]
    OBVIOUS
<1> HIDE DEF t
<1>. QED
    BY <1>1 DEF Open, t

\* Taking an entry off a directory changes neither the stack nor its directories.
LEMMA OpenTaken ==
    ASSUME NEW s \in Seq(Frames), s # <<>>, NEW n
    PROVE  LET t == [s EXCEPT ![Len(s)].todo = @ \ {n}] IN
           t \in Seq(Frames) /\ Open(t) = Open(s) /\ t # <<>>
<1> DEFINE t == [s EXCEPT ![Len(s)].todo = @ \ {n}]
<1>1. Len(s) \in 1 .. Len(s) /\ DOMAIN s = 1 .. Len(s) /\ Len(s) \in Nat
    OBVIOUS
<1>2. s[Len(s)] \in Frames
    BY <1>1
<1>2a. [s[Len(s)] EXCEPT !.todo = @ \ {n}] \in Frames
    BY <1>2 DEF Frames
<1>3. DOMAIN t = 1 .. Len(s) /\ \A i \in 1 .. Len(s) : i # Len(s) => t[i] = s[i]
    BY <1>1
<1>4. t[Len(s)] = [s[Len(s)] EXCEPT !.todo = @ \ {n}]
    BY <1>1
<1>5. t[Len(s)] \in Frames /\ t[Len(s)].dir = s[Len(s)].dir
    BY <1>2, <1>4 DEF Frames
<1>6. \A i \in 1 .. Len(s) : t[i] \in Frames /\ t[i].dir = s[i].dir
    BY <1>1, <1>3, <1>5
<1>7. t \in Seq(Frames) /\ t # <<>>
  <2>1. t = [s EXCEPT ![Len(s)] = [s[Len(s)] EXCEPT !.todo = @ \ {n}]]
      OBVIOUS
  <2>2. t \in Seq(Frames) /\ Len(t) = Len(s)
      BY <1>1, <1>2a, <2>1, ExceptSeq
  <2>. QED
      BY <1>1, <2>2
<1> HIDE DEF t
<1>8. Open(t) = Open(s)
    BY <1>1, <1>3, <1>6 DEF Open
<1>. QED
    BY <1>7, <1>8 DEF t

-----------------------------------------------------------------------------
LEMMA RemoveStarts == Init => RemoveInv
<1> SUFFICES ASSUME Init PROVE RemoveInv
    OBVIOUS
<1>1. 1 \in 1 .. Len(Args)
    BY RemoveAssumption
<1>2. Args[1] \in Covered
    BY <1>1, ArgsCovered
<1>3. ControlInv
    BY DEF Init, ControlInv
<1>3a. LateInv
    BY DEF Init, LateInv
<1>4. OnlyAsked /\ exists \subseteq Nodes
    BY DEF Init, OnlyAsked, Nodes
<1>5. stack \in Seq(Frames)
    BY DEF Init
<1>6. WalkInv
    BY <1>2, <1>4, <1>5 DEF Init, WalkInv
<1>. QED
    BY <1>3, <1>3a, <1>4, <1>6 DEF RemoveInv

\* To leave a directory, and to return to whoever removes it.
LEMMA Leaves ==
    ASSUME WalkInv, stack # <<>>
    PROVE  /\ Outer \in Seq(Frames) /\ Frame \in Frames
           /\ handles \ {Frame.dir} \subseteq Open(Outer)
<1>1. stack \in Seq(Frames) /\ Len(stack) \in 1 .. Len(stack)
    BY DEF WalkInv
<1>2. Outer \in Seq(Frames)
    BY <1>1, Shortened DEF Outer
<1>3. Open(stack) \ {Frame.dir} \subseteq Open(Outer)
    BY <1>1, OpenShortened DEF Outer, Frame
<1>. QED
    BY <1>1, <1>2, <1>3 DEF WalkInv, Frame

LEMMA RemoveStep ==
    ASSUME RemoveInv, [Next]_vars
    PROVE  RemoveInv'
<1> USE DEF RemoveInv, ControlInv, WalkInv, LateInv, OnlyAsked, walk
<1>1. CASE NextArg
  <2>1. next \in 1 .. Len(Args) /\ next' \in Nat \ {0}
      BY <1>1, RemoveAssumption DEF NextArg, ArgLoopEnds
  <2>2. node' \in Covered
      BY <1>1, <2>1, ArgsCovered DEF NextArg
  <2>. QED
      BY <1>1, <2>1, <2>2 DEF NextArg, ArgLoopEnds, Open
<1>2. CASE CommandEnds
    BY <1>2 DEF CommandEnds, Open
<1>3. CASE Stat
    BY <1>3 DEF Stat, Returns, Caller, Warn, Open
<1>4. CASE Unlink
  <2>1. /\ pc = "unlink" /\ pc' = Caller(stack) /\ UNCHANGED <<walk, intr, ropt, handles>>
        /\ \/ late' = late /\ exists' = exists
           \/ /\ late = 0 /\ late' \in {0, 1} /\ (late' = 1 => intr)
              /\ exists' = exists \ {node} /\ node \notin Dirs
      BY <1>4 DEF Unlink, Returns, Warn, Remove
  <2>2. ControlInv'
      BY <2>1 DEF Caller
  <2>2a. LateInv'
      BY <2>1 DEF Caller
  <2>3. WalkInv' /\ OnlyAsked'
      BY <2>1 DEF Open, Caller
  <2>. QED
      BY <2>2, <2>2a, <2>3
<1>5. CASE OpenDir
  <2>1. CASE Returns /\ Warn /\ UNCHANGED handles
      BY <1>5, <2>1 DEF OpenDir, Returns, Caller, Warn, Open
  <2>2. CASE /\ node \in exists
             /\ stack' = Append(stack, [dir |-> node, todo |-> Entries(node)])
             /\ handles' = handles \cup {node} /\ pc' = "entry"
             /\ UNCHANGED <<next, node, warned>>
    <3> DEFINE f == [dir |-> node, todo |-> Entries(node)]
    <3>1. node \in Dirs \cap Covered
        BY <1>5 DEF OpenDir
    <3>2. Entries(node) \subseteq Covered
      <4>1. \A n \in exists \cap Nodes : Parent[n] = node => n \in Covered
          BY <3>1, CoveredDown
      <4>. QED
          BY <4>1 DEF Entries, Inside, Nodes
    <3>3. f \in Frames /\ f.dir = node
        BY <3>1, <3>2 DEF Frames
    <3>4. stack' \in Seq(Frames) /\ stack' # <<>>
        BY <2>2, <3>3
    <3>5. handles' \subseteq Open(stack')
        BY <2>2, <3>3, OpenAppended
    <3>. QED
        BY <1>5, <2>2, <3>4, <3>5 DEF OpenDir
  <2>. QED
      BY <1>5, <2>1, <2>2 DEF OpenDir
<1>6. CASE NextEntry
  <2>1. PICK n \in Frame.todo :
          /\ stack' = [stack EXCEPT ![Len(stack)].todo = @ \ {n}]
          /\ \/ pc' = "stat" /\ node' = n /\ UNCHANGED warned
             \/ warned' = warned \cup {Frame.dir} /\ UNCHANGED <<pc, node>>
      BY <1>6 DEF NextEntry
  <2>2. stack # <<>> /\ Frame \in Frames
      BY <1>6, Leaves DEF NextEntry
  <2>3. n \in Covered
      BY <2>2 DEF Frames
  <2>4. stack' \in Seq(Frames) /\ Open(stack') = Open(stack) /\ stack' # <<>>
      BY <2>1, <2>2, OpenTaken
  <2>. QED
      BY <1>6, <2>1, <2>3, <2>4 DEF NextEntry, MoreEntries
<1>7. CASE LeaveInterrupted
  <2>1. stack # <<>> /\ Outer \in Seq(Frames) /\ handles \ {Frame.dir} \subseteq Open(Outer)
      BY <1>7, Leaves DEF LeaveInterrupted
  <2>. QED
      BY <1>7, <2>1 DEF LeaveInterrupted, Leave, Caller, ClosedAtInterrupt
<1>8. CASE CloseDir
  <2>1. /\ stack # <<>> /\ Outer \in Seq(Frames) /\ Frame \in Frames
        /\ handles \ {Frame.dir} \subseteq Open(Outer)
      BY <1>8, Leaves DEF CloseDir
  <2>2. Frame.dir \in Dirs \cap Covered
      BY <2>1 DEF Frames
  <2>. QED
      BY <1>8, <2>1, <2>2 DEF CloseDir, Leave, Caller
<1>9. CASE Rmdir
    BY <1>9 DEF Rmdir, Returns, Caller, Warn, Remove, Open
<1>10. CASE OtherAdds
  <2>1. PICK n \in Added : exists' = exists \cup {n}
      BY <1>10 DEF OtherAdds
  <2>2. ControlInv' /\ LateInv'
      BY <1>10 DEF OtherAdds
  <2>3. WalkInv' /\ OnlyAsked'
      BY <1>10, <2>1 DEF OtherAdds, Open, Nodes
  <2>. QED
      BY <2>2, <2>3
<1>11. CASE Interrupt
    BY <1>11 DEF Interrupt, Open
<1>12. CASE UNCHANGED vars
    BY <1>12 DEF vars, Open
<1>. QED
    BY <1>1, <1>2, <1>3, <1>4, <1>5, <1>6, <1>7, <1>8, <1>9, <1>10, <1>11, <1>12 DEF Next

-----------------------------------------------------------------------------
(* What is above what. *)

LEMMA AboveSelf ==
    ASSUME NEW n \in Nodes
    PROVE  n \in Above[n] /\ Above[n] \subseteq Nodes
  BY DEF Above

LEMMA AboveParent ==
    ASSUME NEW n \in Nodes, Parent[n] \in Nodes
    PROVE  Above[Parent[n]] \subseteq Above[n]
<1>1. Parent[n] # Top
    BY RemoveAssumption
<1>. QED
    BY <1>1 DEF Above, Upward

LEMMA AboveWithin ==
    ASSUME NEW S \in Upward, NEW n \in S
    PROVE  Above[n] \subseteq S
  BY DEF Above, Upward

\* What is to go and was not asked for itself is in a directory that is to go.
LEMMA CoveredUp ==
    ASSUME NEW n \in Covered, n \notin Arguments
    PROVE  Parent[n] \in Covered
<1> DEFINE S == Covered \ {n}
<1>1. Arguments \subseteq S
    BY ArgsCovered, RemoveAssumption DEF Arguments
<1>2. S \in SUBSET Nodes /\ S \notin Downward
    BY <1>1 DEF Covered
<1>3. PICK m \in Nodes : Parent[m] \in S /\ m \notin S
    BY <1>2 DEF Downward
<1>4. m = n
    BY <1>3, CoveredDown
<1>. QED
    BY <1>3, <1>4

LEMMA ArgumentAbove ==
    ASSUME NEW n \in Covered
    PROVE  Above[n] \cap Arguments # {}
<1> DEFINE S == {m \in Nodes : Above[m] \cap Arguments # {}}
<1>1. S \in Downward
  <2>1. \A m \in Nodes : Parent[m] \in S => m \in S
      BY AboveParent
  <2>. QED
      BY <2>1 DEF Downward
<1>2. Arguments \subseteq S
    BY AboveSelf, RemoveAssumption DEF Arguments, Nodes
<1>. QED
    BY <1>1, <1>2 DEF Covered

-----------------------------------------------------------------------------
(* What stays is warned of. *)

LEMMA ExistStep ==
    ASSUME RemoveInv, ExistInv, [Next]_vars
    PROVE  ExistInv'
<1> USE DEF RemoveInv, WalkInv, ExistInv, Upward
<1>1. CASE Unlink
  <2>1. exists' = exists \/ (exists' = exists \ {node} /\ node \notin Dirs)
      BY <1>1 DEF Unlink, Remove
  <2>2. node # Top
      BY RemoveAssumption DEF Covered
  <2>. QED
      BY <2>1, <2>2, RemoveAssumption
<1>2. CASE Rmdir
    BY <1>2 DEF Rmdir, Remove, Inside
<1>3. CASE OtherAdds
    BY <1>3 DEF OtherAdds, Nodes
<1>4. CASE UNCHANGED exists
    BY <1>4
<1>5. Unlink \/ Rmdir \/ OtherAdds \/ UNCHANGED exists
    BY DEF Next, vars, NextArg, CommandEnds, Stat, OpenDir, NextEntry, LeaveInterrupted,
       CloseDir, Interrupt
<1>. QED
    BY <1>1, <1>2, <1>3, <1>4, <1>5

(***************************************************************************)
(* A step may take something off the list of what is to be looked at when  *)
(* it warns of it or removes it: what is removed is above nothing that is  *)
(* left.                                                                   *)
(***************************************************************************)
LEMMA Keeps ==
    ASSUME SilentInv, ExistInv', ~intr, exists' \subseteq exists,
           warned \subseteq warned',
           \A p \in Pending : p \in Pending' \/ p \in warned' \cap Covered \/ p \notin exists'
    PROVE  \A n \in exists' \cap Covered : Told(n)' \/ Above[n] \cap Pending' # {}
<1> SUFFICES ASSUME NEW n \in exists' \cap Covered
             PROVE  (Above[n] \cap Covered \cap warned') # {} \/ Above[n] \cap Pending' # {}
    BY DEF Told
<1>1. Above[n] \subseteq exists'
    BY AboveWithin DEF ExistInv
<1>2. CASE Told(n)
    BY <1>2 DEF Told
<1>3. CASE Above[n] \cap Pending # {}
  <2>1. PICK p \in Pending : p \in Above[n]
      BY <1>3
  <2>. QED
      BY <1>1, <2>1
<1>. QED
    BY <1>2, <1>3 DEF SilentInv

LEMMA SilentStep ==
    ASSUME Added \cap Arguments = {}, RemoveInv, ExistInv, SilentInv, [Next]_vars
    PROVE  SilentInv'
<1>0. ExistInv' /\ RemoveInv'
    BY ExistStep, RemoveStep
<1>1. ASSUME ~intr'
      PROVE  /\ \A n \in exists' \cap Covered : Told(n)' \/ Above[n] \cap Pending' # {}
             /\ pc' = "done" => next' > Len(Args)
  <2>0. ~intr /\ ~Interrupt /\ ~LeaveInterrupted
      BY <1>1 DEF RemoveInv, ControlInv, Next, vars, NextArg, CommandEnds, Stat, Unlink,
         OpenDir, NextEntry, LeaveInterrupted, CloseDir, Rmdir, OtherAdds, Interrupt
  <2> USE <2>0
  <2>1. CASE NextArg
    <3>1. next \in 1 .. Len(Args) /\ next \in Nat /\ next' = next + 1 /\ node' = Args[next]
          /\ stack' = stack /\ exists' = exists /\ warned' = warned
          /\ pc = "arg" /\ pc' \in {"stat", "unlink"}
        BY <2>1, RemoveAssumption DEF NextArg, ArgLoopEnds, RemoveInv, WalkInv
    <3>2. next .. Len(Args) \subseteq {next} \cup next' .. Len(Args)
        BY <3>1, RemoveAssumption
    <3>3. \A p \in Pending : p \in Pending'
        BY <3>1, <3>2 DEF Pending, Open
    <3>. QED
        BY <1>0, <3>1, <3>3, Keeps
  <2>2. CASE CommandEnds
    <3>1. UNCHANGED <<exists, warned, next, node, stack>> /\ next > Len(Args) /\ pc = "arg"
        BY <2>2 DEF CommandEnds, ArgLoopEnds, walk
    <3>2. \A p \in Pending : p \in Pending'
        BY <3>1 DEF Pending, Open
    <3>. QED
        BY <1>0, <3>1, <3>2, Keeps
  <2>3. CASE Stat
    <3>1. /\ UNCHANGED <<exists, next, node, stack>> /\ pc = "stat"
          /\ pc' # "done" /\ warned \subseteq warned'
          /\ pc' \in {"opendir", "unlink"} \/ warned' = warned \cup {node}
        BY <2>3 DEF Stat, Returns, Caller, Warn, walk
    <3>2. \A p \in Pending : p \in Pending' \/ p \in warned' \cap Covered
        BY <3>1 DEF Pending, Open, RemoveInv, WalkInv
    <3>. QED
        BY <1>0, <3>1, <3>2, Keeps
  <2>4. CASE Unlink \/ Rmdir
    <3>1. /\ UNCHANGED <<next, node, stack>> /\ pc' # "done"
          /\ warned \subseteq warned' /\ exists' \subseteq exists
          /\ node \notin exists' \/ warned' = warned \cup {node}
        BY <2>4 DEF Unlink, Rmdir, Remove, Returns, Caller, Warn, walk
    <3>2. \A p \in Pending : p \in Pending' \/ p \in warned' \cap Covered \/ p \notin exists'
        BY <3>1 DEF Pending, Open, RemoveInv, WalkInv
    <3>. QED
        BY <1>0, <3>1, <3>2, Keeps
  <2>5. CASE OpenDir
    <3>1. /\ UNCHANGED <<exists, next, node>> /\ pc = "opendir" /\ pc' # "done"
          /\ warned \subseteq warned'
        BY <2>5 DEF OpenDir, Returns, Caller, Warn, walk
    <3>2. CASE Returns /\ Warn
      <4>1. \A p \in Pending : p \in Pending' \/ p \in warned' \cap Covered
          BY <3>1, <3>2 DEF Pending, Open, RemoveInv, WalkInv, Returns, Warn, walk
      <4>. QED
          BY <1>0, <3>1, <4>1, Keeps
    <3>3. CASE /\ stack' = Append(stack, [dir |-> node, todo |-> Entries(node)])
               /\ pc' = "entry"
      <4> DEFINE fr == [dir |-> node, todo |-> Entries(node)]
      <4>1. node \in Dirs \cap Covered /\ stack \in Seq(Frames) /\ exists \subseteq Nodes
          BY <3>1 DEF RemoveInv, WalkInv
      <4>2. \A n \in exists \cap Nodes : Parent[n] = node => n \in Covered
          BY <4>1, CoveredDown
      <4>3. fr \in Frames /\ fr.dir = node
          BY <4>1, <4>2 DEF Frames, Entries, Inside
      <4>4. Open(stack) \cup {node} \subseteq Open(stack')
          BY <3>3, <4>1, <4>3, OpenAppended
      <4>5. Open(stack)' = Open(stack')
          BY DEF Open
      <4>6. \A p \in Pending : p \in Pending'
          BY <3>1, <4>4, <4>5 DEF Pending
      <4>. QED
          BY <1>0, <3>1, <4>6, Keeps
    <3>. QED
        BY <2>5, <3>2, <3>3 DEF OpenDir
  <2>6. CASE NextEntry
    <3>1. PICK n \in Frame.todo :
             /\ stack' = [stack EXCEPT ![Len(stack)].todo = @ \ {n}]
             /\ pc = "entry" /\ pc' # "done" /\ UNCHANGED <<next, exists>>
             /\ warned \subseteq warned'
        BY <2>6 DEF NextEntry
    <3>2. Open(stack') = Open(stack)
        BY <3>1, OpenTaken DEF RemoveInv, ControlInv, WalkInv
    <3>3. Open(stack)' = Open(stack')
        BY DEF Open
    <3>4. \A p \in Pending : p \in Pending'
        BY <3>1, <3>2, <3>3 DEF Pending
    <3>. QED
        BY <1>0, <3>1, <3>4, Keeps
  <2>7. CASE CloseDir
    <3>1. /\ pc = "entry" /\ pc' # "done" /\ UNCHANGED <<next, exists>>
          /\ stack' = Outer /\ node' = Frame.dir /\ warned \subseteq warned'
          /\ pc' = "rmdir" \/ warned' = warned \cup {Frame.dir}
        BY <2>7 DEF CloseDir, Leave, Caller, AfterCloseFails
    <3>2. stack # <<>> /\ stack \in Seq(Frames) /\ Frame.dir \in Covered
        BY <3>1, Leaves DEF RemoveInv, ControlInv, WalkInv, Frames
    <3>3. Open(stack) \ {Frame.dir} \subseteq Open(stack')
        BY <3>1, <3>2, OpenShortened DEF Outer, Frame
    <3>4. Open(stack)' = Open(stack')
        BY DEF Open
    <3>5. \A p \in Pending : p \in Pending' \/ p \in warned' \cap Covered
        BY <3>1, <3>2, <3>3, <3>4 DEF Pending
    <3>. QED
        BY <1>0, <3>1, <3>5, Keeps
  <2>8. CASE OtherAdds
    <3>1. PICK n \in Added : /\ Parent[n] \in exists \cup {Top}
                             /\ exists' = exists \cup {n}
                             /\ pc' # "done"
        BY <2>8 DEF OtherAdds
    <3>2. UNCHANGED <<next, node, stack, warned, pc>>
        BY <2>8 DEF OtherAdds, walk
    <3>3. Pending' = Pending /\ \A m \in Nodes : Told(m)' <=> Told(m)
        BY <3>2 DEF Pending, Open, Told
    <3>4. ASSUME n \in Covered
          PROVE  Told(n) \/ Above[n] \cap Pending # {}
      <4>1. n \in Nodes /\ n \notin Arguments
          BY DEF Nodes
      <4>2. Parent[n] \in Covered
          BY <3>4, <4>1, CoveredUp
      <4>3. Parent[n] \in exists /\ Parent[n] \in Nodes
          BY <3>1, <4>2, RemoveAssumption DEF Covered
      <4>4. Above[Parent[n]] \subseteq Above[n]
          BY <4>1, <4>3, AboveParent
      <4>. QED
          BY <4>2, <4>3, <4>4 DEF SilentInv, Told
    <3>. QED
        BY <3>1, <3>3, <3>4 DEF SilentInv, Covered
  <2>9. CASE UNCHANGED vars
    <3>1. UNCHANGED <<exists, warned, next, node, stack, pc>>
        BY <2>9 DEF vars, walk
    <3>2. \A p \in Pending : p \in Pending'
        BY <3>1 DEF Pending, Open
    <3>. QED
        BY <1>0, <3>1, <3>2, Keeps DEF SilentInv
  <2>. QED
      BY <2>1, <2>2, <2>3, <2>4, <2>5, <2>6, <2>7, <2>8, <2>9 DEF Next
<1>. QED
    BY <1>1 DEF SilentInv

LEMMA SilentStarts == Init => ExistInv /\ SilentInv
<1> SUFFICES ASSUME Init PROVE ExistInv /\ SilentInv
    OBVIOUS
<1>1. ExistInv
    BY RemoveAssumption DEF Init, ExistInv, Upward, Nodes
<1>2. Arguments \subseteq Pending
    BY RemoveAssumption DEF Init, Arguments, Pending
<1>. QED
    BY <1>1, <1>2, ArgumentAbove DEF SilentInv, Init

-----------------------------------------------------------------------------
(***************************************************************************)
(* The user who lists changes nothing the user who removes depends on, and *)
(* has a directory open only while it is read.                             *)
(***************************************************************************)
LEMMA ListStep ==
    ASSUME lpc # "read" => ~open, List!Next
    PROVE  exists' = exists /\ (lpc' # "read" => ~open')
<1>1. CASE List!Begin
    BY <1>1 DEF List!Begin
<1>2. CASE List!StatArg
    BY <1>2 DEF List!StatArg
<1>3. CASE List!PrintFiles
    BY <1>3 DEF List!PrintFiles
<1>4. CASE List!NextDir
    BY <1>4 DEF List!NextDir
<1>5. CASE List!OpenDir
    BY <1>5 DEF List!OpenDir
<1>6. CASE List!StatEntry
    BY <1>6 DEF List!StatEntry
<1>7. CASE List!CloseInterrupted
    BY <1>7 DEF List!CloseInterrupted, List!ClosedAtInterrupt
<1>8. CASE List!CloseDir
    BY <1>8 DEF List!CloseDir
<1>9. CASE List!Interrupt
    BY <1>9 DEF List!Interrupt, List!walk
<1>. QED
    BY <1>1, <1>2, <1>3, <1>4, <1>5, <1>6, <1>7, <1>8, <1>9 DEF List!Next

ShareInv == RemoveInv /\ ExistInv /\ (lpc # "read" => ~open)

LEMMA ShareInvariant == ShareSpec => []ShareInv
<1>1. ShareInit => ShareInv
    BY RemoveStarts, SilentStarts DEF ShareInit, ShareInv, List!Init
<1>2. ShareInv /\ [ShareNext]_<<vars, lvars>> => ShareInv'
  <2> SUFFICES ASSUME ShareInv, [ShareNext]_<<vars, lvars>> PROVE ShareInv'
      OBVIOUS
  <2>1. CASE Next /\ UNCHANGED lvars
      BY <2>1, RemoveStep, ExistStep DEF ShareInv, lvars
  <2>2. CASE List!Next /\ UNCHANGED <<pc, intr, ropt, walk, handles, warned, late>>
    <3>1. UNCHANGED vars
        BY <2>2, ListStep DEF ShareInv, vars
    <3>. QED
        BY <2>2, <3>1, ListStep, RemoveStep, ExistStep DEF ShareInv
  <2>3. CASE UNCHANGED <<vars, lvars>>
      BY <2>3, RemoveStep, ExistStep DEF ShareInv, lvars
  <2>. QED
      BY <2>1, <2>2, <2>3 DEF ShareNext
<1>. QED
    BY <1>1, <1>2, PTL DEF ShareSpec

LEMMA SilentInvariant ==
    ASSUME Added \cap Arguments = {}
    PROVE  ShareSpec => []SilentInv
<1>1. ShareInit => SilentInv
    BY SilentStarts DEF ShareInit
<1>2. ShareInv /\ SilentInv /\ [ShareNext]_<<vars, lvars>> => SilentInv'
  <2> SUFFICES ASSUME ShareInv, SilentInv, [ShareNext]_<<vars, lvars>> PROVE SilentInv'
      OBVIOUS
  <2>1. [Next]_vars
      BY ListStep DEF ShareInv, ShareNext, vars
  <2>. QED
      BY <2>1, SilentStep, Added \cap Arguments = {} DEF ShareInv
<1>. QED
    BY <1>1, <1>2, ShareInvariant, PTL DEF ShareSpec

(***************************************************************************)
(* rm removes nothing but its arguments and what is in them, and without   *)
(* -r no directory, whatever fails, whoever lists or adds files meanwhile  *)
(* (smbhlp.c:201-269).                                                     *)
(***************************************************************************)
THEOREM RemovesOnlyAsked == ShareSpec => []OnlyAsked
<1>1. ShareInv => OnlyAsked
    BY DEF ShareInv, RemoveInv
<1>. QED
    BY <1>1, ShareInvariant, PTL

(***************************************************************************)
(* Nothing stays behind in silence: unless SIGINT came, rm has warned of   *)
(* everything it was to remove and that is still there, or of a directory  *)
(* above it, in every tree, whatever fails and whatever others add         *)
(* meanwhile, except for the arguments themselves (smbhlp.c:212-269).      *)
(***************************************************************************)
THEOREM WarnsOfTheRest ==
    ASSUME Added \cap Arguments = {}
    PROVE  ShareSpec => []NothingSilent
<1>1. ASSUME ShareInv, SilentInv PROVE NothingSilent
  <2> SUFFICES ASSUME pc = "done", ~intr, NEW n \in exists \cap Covered
               PROVE  Above[n] \cap Covered \cap warned # {}
      BY DEF NothingSilent
  <2>1. Pending = {}
    <3>1. stack = <<>> /\ next > Len(Args) /\ next \in Nat
        BY <1>1 DEF ShareInv, RemoveInv, ControlInv, WalkInv, SilentInv
    <3>2. next .. Len(Args) = {}
        BY <3>1, RemoveAssumption
    <3>. QED
        BY <3>1, <3>2 DEF Pending, Open
  <2>. QED
      BY <1>1, <2>1 DEF SilentInv, Told
<1>. QED
    BY <1>1, ShareInvariant, SilentInvariant, Added \cap Arguments = {}, PTL

\* After SIGINT rm removes one thing at most, however deep it is
\* (smbhlp.c:232, 253).
THEOREM RemovalStops == ShareSpec => []StopsAtInterrupt
<1>1. ShareInv => StopsAtInterrupt
    BY DEF ShareInv, RemoveInv, LateInv, StopsAtInterrupt
<1>. QED
    BY <1>1, ShareInvariant, PTL

\* Both users close every directory they open, on all ways out
\* (smbhlp.c:252-261, cmdls.c:182-195).
THEOREM DirectoriesClosed == ShareSpec => []AllHandlesClosed
<1>1. ShareInv => AllHandlesClosed
    BY DEF ShareInv, RemoveInv, ControlInv, WalkInv, AllHandlesClosed, HandlesClosed, Open
<1>. QED
    BY <1>1, ShareInvariant, PTL
-----------------------------------------------------------------------------
(* How ls lays out what it prints, and how often a sequence has something. *)

LEMMA GroupsEnough ==
    ASSUME NEW n \in Nat \ {0}, NEW m \in Nat \ {0}
    PROVE  /\ Groups(n, m) \in Nat \ {0}
           /\ n <= Groups(n, m) * m
           /\ (Groups(n, m) - 1) * m < n
<1> DEFINE q == n \div m
           r == n % m
<1>1. q \in Nat /\ r \in 0 .. m - 1 /\ n = q * m + r
    OBVIOUS
<1>2. \A i \in Nat : (i * m) \div m = i
    OBVIOUS
<1>3. CASE r = 0
  <2>1. Groups(n, m) = q
      BY <1>1, <1>2, <1>3 DEF Groups
  <2>. QED
      BY <1>1, <1>3, <2>1
<1>4. CASE r > 0
  <2>1. Groups(n, m) = q + 1
    <3>1. n + m - r = (q + 1) * m
        BY <1>1
    <3>. QED
        BY <1>1, <1>2, <1>4, <3>1 DEF Groups
  <2>. QED
      BY <1>1, <1>4, <2>1
<1>. QED
    BY <1>1, <1>3, <1>4

LEMMA RowsAndCols ==
    ASSUME NEW S, NEW s \in Seq(S), s # <<>>, NEW fit \in Nat
    PROVE  /\ Rows(s, fit) \in Nat \ {0} /\ Cols(s, fit) \in Nat \ {0}
           /\ Len(s) <= Rows(s, fit) * Cols(s, fit)
           /\ fit >= 1 => Cols(s, fit) <= fit
<1>1. Len(s) \in Nat \ {0}
    OBVIOUS
<1>2. CASE fit <= 1
    BY <1>1, <1>2 DEF Rows, Cols
<1>3. CASE fit > 1
  <2> DEFINE R == Rows(s, fit)
             C == Cols(s, fit)
  <2>1. R = Groups(Len(s), fit) /\ C = Groups(Len(s), R)
      BY <1>3 DEF Rows, Cols
  <2> HIDE DEF R, C
  <2>2. fit \in Nat \ {0}
      BY <1>3
  <2>3. R \in Nat \ {0} /\ Len(s) <= R * fit
      BY <1>1, <2>1, <2>2, GroupsEnough
  <2>4. C \in Nat \ {0} /\ Len(s) <= C * R /\ (C - 1) * R < Len(s)
      BY <1>1, <2>1, <2>3, GroupsEnough
  <2>5. (C - 1) * R < fit * R
      BY <1>1, <2>3, <2>4
  <2>6. C - 1 < fit
      BY <2>2, <2>3, <2>4, <2>5
  <2>. QED
      BY <2>2, <2>3, <2>4, <2>6 DEF R, C
<1>. QED
    BY <1>2, <1>3

\* The place in column j of row i is the one of s[at].
IsPlace(at, i, j, s, fit) ==
    /\ i \in DOMAIN Columns(s, fit) /\ j \in DOMAIN Columns(s, fit)[i]
    /\ (j - 1) * Rows(s, fit) + i = at

(***************************************************************************)
(* printcolumns prints every name, in one place only, and no row has more  *)
(* columns than fit the terminal (misc.c:32-48).                           *)
(***************************************************************************)
THEOREM ColumnsComplete ==
    ASSUME NEW S, NEW s \in Seq(S), s # <<>>, NEW fit \in Nat,
           NEW at \in 1 .. Len(s)
    PROVE  /\ \E i, j : /\ IsPlace(at, i, j, s, fit) /\ Columns(s, fit)[i][j] = s[at]
                        /\ fit >= 1 => j <= fit
           /\ \A i, j, i2, j2 :
                 IsPlace(at, i, j, s, fit) /\ IsPlace(at, i2, j2, s, fit) => i = i2 /\ j = j2
<1> DEFINE rows == Columns(s, fit)
           R == Rows(s, fit)
           C == Cols(s, fit)
           Prints(i, j) == i \in DOMAIN rows /\ j \in DOMAIN rows[i]
                              /\ (j - 1) * R + i = at
<1>0. fit \in Nat
    OBVIOUS
<1>1. /\ R \in Nat \ {0} /\ C \in Nat \ {0} /\ (fit >= 1 => C <= fit)
      /\ Len(s) <= R * C /\ at \in Nat \ {0} /\ at <= Len(s)
  <2>1. /\ Rows(s, fit) \in Nat \ {0} /\ Cols(s, fit) \in Nat \ {0}
        /\ Len(s) <= Rows(s, fit) * Cols(s, fit)
        /\ (fit >= 1 => Cols(s, fit) <= fit)
      BY <1>0, RowsAndCols
  <2>2. at \in Nat \ {0} /\ at <= Len(s)
      OBVIOUS
  <2>. QED
      BY <2>1, <2>2
<1>2. DOMAIN rows = 1 .. R
    BY DEF Columns
<1> DEFINE Places(i) == {c \in 1 .. C : (c - 1) * R + i <= Len(s)}
           Row(i) == [j \in Places(i) |-> s[(j - 1) * R + i]]
<1>3. \A i \in 1 .. R : rows[i] = Row(i)
    BY DEF Columns
<1>4. \A i \in 1 .. R : DOMAIN rows[i] = Places(i)
  <2>1. \A i \in 1 .. R : DOMAIN Row(i) = Places(i)
      OBVIOUS
  <2> HIDE DEF Row, rows, Places
  <2>. QED
      BY <1>3, <2>1
<1>4a. \A i \in 1 .. R : \A j \in DOMAIN rows[i] : rows[i][j] = s[(j - 1) * R + i]
  <2>1. \A i \in 1 .. R : \A j \in Places(i) : Row(i)[j] = s[(j - 1) * R + i]
      OBVIOUS
  <2> HIDE DEF Row, rows, Places
  <2>. QED
      BY <1>3, <1>4, <2>1
<1> HIDE DEF rows, R, C
<1>5. \E i, j : Prints(i, j) /\ rows[i][j] = s[at]
                                      /\ (fit >= 1 => j <= fit)
  <2> DEFINE q == (at - 1) \div R
             r == (at - 1) % R
  <2>1. q \in Nat /\ r \in 0 .. R - 1 /\ at - 1 = q * R + r
      BY <1>1
  <2> HIDE DEF q, r
  <2>2. q * R < C * R
      BY <1>1, <2>1
  <2>3. q < C
      BY <1>1, <2>1, <2>2
  <2>4. r + 1 \in 1 .. R /\ q + 1 \in 1 .. C /\ ((q + 1) - 1) * R + (r + 1) = at
      BY <1>1, <2>1, <2>3
  <2>5. q + 1 \in DOMAIN rows[r + 1]
      BY <1>1, <1>4, <2>4
  <2>6. rows[r + 1][q + 1] = s[((q + 1) - 1) * R + (r + 1)]
      BY <1>4a, <2>4, <2>5
  <2>. QED
      BY <1>1, <1>2, <2>4, <2>5, <2>6
<1>6. ASSUME NEW i, NEW j, NEW i2, NEW j2, Prints(i, j), Prints(i2, j2)
      PROVE  i = i2 /\ j = j2
  <2>1. i \in 1 .. R /\ i2 \in 1 .. R /\ j \in 1 .. C /\ j2 \in 1 .. C
      BY <1>2, <1>4, <1>6
  <2>2. (j - 1) * R + i = (j2 - 1) * R + i2
      BY <1>6
  <2>3. j = j2
    <3>1. \A m, n \in Nat, a, b \in 1 .. R : m < n => m * R + a < n * R + b
      <4> SUFFICES ASSUME NEW m \in Nat, NEW n \in Nat, NEW a \in 1 .. R,
                          NEW b \in 1 .. R, m < n
                   PROVE  m * R + a < n * R + b
          OBVIOUS
      <4>1. (m + 1) * R <= n * R
          BY <1>1
      <4>2. (m + 1) * R = m * R + R
          BY <1>1
      <4>. QED
          BY <1>1, <4>1, <4>2
    <3>2. j - 1 \in Nat /\ j2 - 1 \in Nat
        BY <1>1, <2>1
    <3>3. ~(j - 1 < j2 - 1)
        BY <1>1, <2>1, <2>2, <3>1, <3>2
    <3>4. ~(j2 - 1 < j - 1)
        BY <1>1, <2>1, <2>2, <3>1, <3>2
    <3>. QED
        BY <1>1, <2>1, <3>2, <3>3, <3>4
  <2>. QED
      BY <1>1, <2>1, <2>2, <2>3
<1>. QED
    BY <1>5, <1>6 DEF rows, R, IsPlace

LEMMA Upto ==
    ASSUME NEW m \in Nat
    PROVE  IsFiniteSet(1 .. m) /\ Cardinality(1 .. m) = m
<1>1. 1 \in Int /\ m \in Int
    OBVIOUS
<1>2. /\ IsFiniteSet(1 .. m)
      /\ Cardinality(1 .. m) = IF 1 > m THEN 0 ELSE m - 1 + 1
    BY <1>1, FS_Interval
<1>. QED
    BY <1>2

LEMMA DisjointSum ==
    ASSUME NEW A, NEW B, IsFiniteSet(A), IsFiniteSet(B), A \cap B = {}
    PROVE  /\ IsFiniteSet(A \cup B)
           /\ Cardinality(A \cup B) = Cardinality(A) + Cardinality(B)
<1>1. Cardinality(A \cap B) = 0 /\ Cardinality(A) \in Nat /\ Cardinality(B) \in Nat
    BY FS_EmptySet, FS_CardinalityType
<1>2. /\ IsFiniteSet(A \cup B)
      /\ Cardinality(A \cup B) = Cardinality(A) + Cardinality(B) - Cardinality(A \cap B)
    BY FS_Union
<1>. QED
    BY <1>1, <1>2

LEMMA SameCardinality ==
    ASSUME NEW S
    PROVE  List!Cardinality(S) = Cardinality(S)
  BY DEF List!Cardinality, Cardinality

(***************************************************************************)
(* Which of the places I of a sequence hold a member of S, and how many.   *)
(***************************************************************************)
At(s, S, I)   == {i \in I : s[i] \in S}
Hits(s, S, I) == Cardinality(At(s, S, I))

LEMMA HitsNat ==
    ASSUME NEW s, NEW S, NEW I, IsFiniteSet(I)
    PROVE  /\ IsFiniteSet(At(s, S, I)) /\ Hits(s, S, I) \in Nat
           /\ Hits(s, S, I) = 0 <=> \A i \in I : s[i] \notin S
<1> DEFINE T == At(s, S, I)
<1>1. IsFiniteSet(T)
    BY FS_Subset DEF At
<1>2. Cardinality(T) \in Nat /\ (Cardinality(T) = 0 <=> T = {})
    BY <1>1, FS_CardinalityType, FS_EmptySet
<1>. QED
    BY <1>1, <1>2 DEF Hits, At

LEMMA HitsSame ==
    ASSUME NEW s, NEW t, NEW S, NEW T, NEW I,
           \A i \in I : s[i] \in S <=> t[i] \in T
    PROVE  Hits(s, S, I) = Hits(t, T, I)
<1>1. At(s, S, I) = At(t, T, I)
    BY DEF At
<1>. QED
    BY <1>1 DEF Hits

\* One place more.
LEMMA HitsOneMore ==
    ASSUME NEW s, NEW S, NEW I, IsFiniteSet(I), NEW j, j \notin I
    PROVE  Hits(s, S, I \cup {j}) = Hits(s, S, I) + (IF s[j] \in S THEN 1 ELSE 0)
<1> DEFINE T == At(s, S, I)
<1>1. IsFiniteSet(T) /\ Cardinality(T) \in Nat
    BY HitsNat, FS_CardinalityType
<1>2. At(s, S, I \cup {j}) = IF s[j] \in S THEN T \cup {j} ELSE T
    BY DEF At
<1>3. j \notin T
    BY DEF At
<1> HIDE DEF T
<1>4. Cardinality(T \cup {j}) = Cardinality(T) + 1
    BY <1>1, <1>3, FS_AddElement
<1>5. Hits(s, S, I) = Cardinality(T)
    BY DEF Hits, T
<1>6. Hits(s, S, I \cup {j}) = Cardinality(IF s[j] \in S THEN T \cup {j} ELSE T)
    BY <1>2 DEF Hits
<1>. QED
    BY <1>1, <1>4, <1>5, <1>6

LEMMA HitsSplit ==
    ASSUME NEW s, NEW S, NEW T, NEW I, IsFiniteSet(I), S \cap T = {}
    PROVE  Hits(s, S \cup T, I) = Hits(s, S, I) + Hits(s, T, I)
<1> DEFINE A == At(s, S, I)
           B == At(s, T, I)
<1>1. IsFiniteSet(A) /\ IsFiniteSet(B)
    BY HitsNat
<1>2. At(s, S \cup T, I) = A \cup B /\ A \cap B = {}
    BY DEF At
<1> HIDE DEF A, B
<1>3. Cardinality(A \cup B) = Cardinality(A) + Cardinality(B)
    BY <1>1, <1>2, DisjointSum
<1>. QED
    BY <1>2, <1>3 DEF Hits, A, B

\* list_sort loses nothing.
LEMMA HitsSorted ==
    ASSUME NEW s \in Seq(Nodes), NEW t \in List!Orders(s), NEW S
    PROVE  /\ t \in Seq(Nodes) /\ Len(t) = Len(s)
           /\ Hits(t, S, 1 .. Len(t)) = Hits(s, S, 1 .. Len(s))
           /\ \A i \in 1 .. Len(t) : \E j \in 1 .. Len(s) : t[i] = s[j]
<1> DEFINE D == 1 .. Len(s)
<1>0. DOMAIN s = D /\ Len(s) \in Nat /\ \A i \in D : s[i] \in Nodes
    OBVIOUS
<1>1. PICK p \in List!Bijection(D, D) : t = [i \in D |-> s[p[i]]]
    BY <1>0 DEF List!Orders
<1>2. List!Bijection(D, D) = Bijection(D, D)
    BY DEF List!Bijection, Bijection, List!Injection, Injection, List!Surjection, Surjection,
       List!IsInjective, IsInjective
<1>3. /\ p \in [D -> D] /\ \A a, b \in D : p[a] = p[b] => a = b
      /\ \A j \in D : \E i \in D : p[i] = j
  <2> HIDE DEF D
  <2>1. p \in Bijection(D, D)
      BY <1>2
  <2>. QED
      BY <2>1, Fun_BijectionProperties
<1> HIDE DEF D
<1>4. \A i \in D : t[i] = s[p[i]] /\ p[i] \in D
    BY <1>1, <1>3
<1>5. DOMAIN t = D
    BY <1>1
<1>6. t \in Seq(Nodes) /\ Len(t) = Len(s)
  <2>1. t \in [1 .. Len(s) -> Nodes]
      BY <1>0, <1>1, <1>3 DEF D
  <2>. QED
      BY <1>0, <2>1
<1> DEFINE A == At(s, S, D)
           B == At(t, S, D)
           q == [i \in B |-> p[i]]
<1>7. q \in Bijection(B, A)
  <2>1. q \in [B -> A] /\ \A a, b \in B : q[a] = q[b] => a = b
      BY <1>3, <1>4 DEF At
  <2>2. \A j \in A : \E i \in B : q[i] = j
    <3> SUFFICES ASSUME NEW j \in A PROVE \E i \in B : q[i] = j
        OBVIOUS
    <3>1. PICK i \in D : p[i] = j
        BY <1>3 DEF At
    <3>. QED
        BY <1>4, <3>1 DEF At
  <2> HIDE DEF q, A, B
  <2>. QED
      BY <2>1, <2>2, Fun_IsBij
<1>8. IsFiniteSet(B)
  <2>1. IsFiniteSet(D)
      BY <1>0, FS_Interval DEF D
  <2>. QED
      BY <2>1, HitsNat
<1>9. Cardinality(A) = Cardinality(B)
  <2> HIDE DEF A, B, q
  <2>. QED
      BY <1>7, <1>8, FS_Bijection, Fun_ExistsBij
<1>10. Hits(t, S, 1 .. Len(t)) = Hits(s, S, 1 .. Len(s))
    BY <1>6, <1>9 DEF Hits, D
<1>11. \A i \in 1 .. Len(t) : \E j \in 1 .. Len(s) : t[i] = s[j]
    BY <1>4, <1>6 DEF D
<1>. QED
    BY <1>6, <1>10, <1>11

\* printls prints every entry once.
LEMMA PlacesCounted ==
    ASSUME NEW s \in Seq(Nodes), NEW n
    PROVE  Cardinality(List!Places(n, s)) = Hits(s, {n}, 1 .. Len(s))
<1> DEFINE rows == Columns(s, Fit)
           R == Rows(s, Fit)
           P == List!Places(n, s)
           T == At(s, {n}, 1 .. Len(s))
<1>0. List!Screen!Columns(s, Fit) = rows
    BY DEF List!Screen!Columns, List!Screen!Rows, List!Screen!Cols,
       List!Screen!Groups, Columns, Rows, Cols, Groups
<1>1. P = UNION {{<<i, j>> : j \in {c \in DOMAIN rows[i] : rows[i][c] = n}} :
                    i \in DOMAIN rows}
  <2> HIDE DEF rows
  <2>. QED
      BY <1>0 DEF List!Places
<1>2. \A p : p \in P <=> \E i \in DOMAIN rows : \E j \in DOMAIN rows[i] :
                             rows[i][j] = n /\ p = <<i, j>>
  <2> HIDE DEF rows, P
  <2>. QED
      BY <1>1
<1>3. Fit \in Nat /\ Len(s) \in Nat /\ DOMAIN rows = 1 .. R
    BY ShareAssumption DEF Columns
<1> HIDE DEF P
<1>4. CASE s = <<>>
  <2>1. Len(s) = 0 /\ 1 .. 0 = {}
      BY <1>4
  <2>2. R = 0
    <3>1. \A i \in Nat : i > 1 => (0 + i - i) \div i = 0 /\ 0 % i = 0
        OBVIOUS
    <3>2. Fit > 1 => Groups(0, Fit) = 0
        BY <1>3, <3>1 DEF Groups
    <3>. QED
        BY <1>3, <2>1, <3>2 DEF Rows
  <2>3. P = {} /\ T = {}
    <3> HIDE DEF rows, R
    <3>1. DOMAIN rows = {}
        BY <1>3, <2>1, <2>2
    <3>2. P = {}
        BY <1>2, <3>1
    <3>3. T = {}
        BY <2>1 DEF At
    <3>. QED
        BY <3>2, <3>3
  <2>. QED
      BY <2>3 DEF Hits, P
<1>5. CASE s # <<>>
  <2> DEFINE at(i, j) == (j - 1) * R + i
             f == [p \in P |-> at(p[1], p[2])]
  <2>1. R \in Nat \ {0}
      BY <1>3, <1>5, RowsAndCols
  <2>2. \A i \in DOMAIN rows : \A j \in DOMAIN rows[i] :
           i \in Nat \ {0} /\ j \in Nat \ {0} /\ at(i, j) <= Len(s) /\ rows[i][j] = s[at(i, j)]
    <3> DEFINE C(i) == {c \in 1 .. Cols(s, Fit) : (c - 1) * R + i <= Len(s)}
               Row(i) == [j \in C(i) |-> s[at(i, j)]]
    <3>1. \A i \in 1 .. R : rows[i] = Row(i)
        BY DEF Columns
    <3>2. Cols(s, Fit) \in Nat
        BY <1>3, <1>5, RowsAndCols
    <3>3. \A i \in 1 .. R : \A j \in C(i) : j \in Nat \ {0} /\ at(i, j) <= Len(s)
        BY <3>2
    <3>4. \A i \in 1 .. R : DOMAIN Row(i) = C(i) /\ \A j \in C(i) : Row(i)[j] = s[at(i, j)]
        OBVIOUS
    <3>5. \A i \in 1 .. R : i \in Nat \ {0}
        BY <2>1
    <3> HIDE DEF rows, R, Row, C, at
    <3>. QED
        BY <1>3, <3>1, <3>3, <3>4, <3>5
  <2>3. \A i \in Nat \ {0}, j \in Nat \ {0} : at(i, j) \in Nat \ {0}
    <3>1. \A i \in Nat \ {0}, j \in Nat \ {0} : (j - 1) * R \in Nat
      <4> HIDE DEF R
      <4>1. \A a, b \in Nat : a * b \in Nat
          OBVIOUS
      <4>. QED
          BY <2>1, <4>1
    <3> HIDE DEF R
    <3>. QED
        BY <3>1
  <2>4. \A i \in DOMAIN rows : \A j \in DOMAIN rows[i] : at(i, j) \in 1 .. Len(s)
    <3> SUFFICES ASSUME NEW i \in DOMAIN rows, NEW j \in DOMAIN rows[i]
                 PROVE  at(i, j) \in 1 .. Len(s)
        OBVIOUS
    <3> HIDE DEF rows, at, R
    <3>1. i \in Nat \ {0} /\ j \in Nat \ {0} /\ at(i, j) <= Len(s)
        BY <2>2
    <3>2. at(i, j) \in Nat \ {0}
        BY <2>3, <3>1
    <3>. QED
        BY <1>3, <3>1, <3>2
  <2>5. ASSUME NEW m \in 1 .. Len(s)
        PROVE  /\ \E i, j : /\ i \in DOMAIN rows /\ j \in DOMAIN rows[i]
                            /\ at(i, j) = m /\ rows[i][j] = s[m]
               /\ \A i, j, i2, j2 :
                     /\ i \in DOMAIN rows /\ j \in DOMAIN rows[i] /\ at(i, j) = m
                     /\ i2 \in DOMAIN rows /\ j2 \in DOMAIN rows[i2] /\ at(i2, j2) = m
                     => i = i2 /\ j = j2
    <3>1. /\ \E i, j : IsPlace(m, i, j, s, Fit) /\ Columns(s, Fit)[i][j] = s[m]
          /\ \A i, j, i2, j2 :
                IsPlace(m, i, j, s, Fit) /\ IsPlace(m, i2, j2, s, Fit) => i = i2 /\ j = j2
      <4> HIDE DEF rows, at, R
      <4>1. Fit \in Nat /\ s \in Seq(Nodes) /\ s # <<>> /\ m \in 1 .. Len(s)
          BY <1>3, <1>5
      <4>. QED
          BY <4>1, ColumnsComplete
    <3>2. \A i, j : IsPlace(m, i, j, s, Fit) <=>
             i \in DOMAIN rows /\ j \in DOMAIN rows[i] /\ at(i, j) = m
        BY DEF IsPlace, rows, at, R
    <3>3. rows = Columns(s, Fit)
        BY DEF rows
    <3> HIDE DEF rows, at
    <3>. QED
        BY <3>1, <3>2, <3>3
  <2> HIDE DEF rows, R, at
  <2>6. f \in [P -> T]
    <3> SUFFICES ASSUME NEW p \in P PROVE at(p[1], p[2]) \in T
        OBVIOUS
    <3>1. PICK i, j : i \in DOMAIN rows /\ j \in DOMAIN rows[i] /\ rows[i][j] = n /\ p = <<i, j>>
        BY <1>2
    <3>2. p[1] = i /\ p[2] = j
        BY <3>1
    <3>3. at(i, j) \in 1 .. Len(s) /\ s[at(i, j)] = n
        BY <2>2, <2>4, <3>1
    <3>. QED
        BY <3>2, <3>3 DEF At
  <2>7. \A p, q \in P : f[p] = f[q] => p = q
    <3> SUFFICES ASSUME NEW p \in P, NEW q \in P, at(p[1], p[2]) = at(q[1], q[2])
                 PROVE  p = q
        OBVIOUS
    <3>1. PICK i, j : i \in DOMAIN rows /\ j \in DOMAIN rows[i] /\ p = <<i, j>>
        BY <1>2
    <3>2. PICK i2, j2 : i2 \in DOMAIN rows /\ j2 \in DOMAIN rows[i2] /\ q = <<i2, j2>>
        BY <1>2
    <3>3. at(i, j) = at(i2, j2)
        BY <3>1, <3>2
    <3>. QED
        BY <2>4, <2>5, <3>1, <3>2, <3>3
  <2>8. \A m \in T : \E p \in P : f[p] = m
    <3> SUFFICES ASSUME NEW m \in T PROVE \E p \in P : at(p[1], p[2]) = m
        OBVIOUS
    <3>1. m \in 1 .. Len(s) /\ s[m] = n
        BY DEF At
    <3>2. PICK i, j : i \in DOMAIN rows /\ j \in DOMAIN rows[i] /\ at(i, j) = m /\ rows[i][j] = s[m]
        BY <2>5, <3>1
    <3>3. <<i, j>> \in P
        BY <1>2, <3>1, <3>2
    <3>. QED
        BY <3>2, <3>3
  <2>9. ExistsBijection(P, T)
    <3> HIDE DEF f, T
    <3>. QED
        BY <2>6, <2>7, <2>8, Fun_IsBij, Fun_ExistsBij
  <2>10. IsFiniteSet(T)
      BY <1>3, FS_Interval, HitsNat
  <2>. QED
      BY <2>9, <2>10, Fun_ExistsBijSymmetric, FS_Bijection DEF Hits, P
<1>. QED
    BY <1>4, <1>5

\* list_sort by filecmp puts the files in front.
LEMMA FilesInFront ==
    ASSUME NEW s \in Seq(Nodes), NEW t \in List!FilesFirst(s)
    PROVE  /\ List!filecount(t) \in 0 .. Len(t)
           /\ \A i \in 1 .. Len(t) : t[i] \in Dirs <=> i > List!filecount(t)
<1> DEFINE F == {i \in DOMAIN t : t[i] \notin Dirs}
           c == Cardinality(F)
<1>1. t \in Seq(Nodes)
    BY HitsSorted DEF List!FilesFirst
<1>2. DOMAIN t = 1 .. Len(t) /\ Len(t) \in Nat
    BY <1>1
<1>3. \A i, j \in DOMAIN t : i < j /\ j \in F => i \in F
    BY DEF List!FilesFirst, List!filecmp
<1>4. IsFiniteSet(1 .. Len(t)) /\ Cardinality(1 .. Len(t)) = Len(t)
    BY <1>2, Upto
<1>5. F \subseteq 1 .. Len(t)
    BY <1>2
<1> HIDE DEF F
<1>6. IsFiniteSet(F) /\ c \in Nat /\ c <= Len(t)
  <2>1. IsFiniteSet(F) /\ Cardinality(F) <= Cardinality(1 .. Len(t))
      BY <1>4, <1>5, FS_Subset
  <2>. QED
      BY <1>4, <2>1, FS_CardinalityType
<1>7. \A i \in F : i <= c
  <2> SUFFICES ASSUME NEW i \in F PROVE i <= c
      OBVIOUS
  <2>1. i \in 1 .. Len(t)
      BY <1>5
  <2>2. 1 .. i \subseteq F
      BY <1>2, <1>3, <2>1
  <2>3. Cardinality(1 .. i) = i
      BY <2>1, Upto
  <2>. QED
    <3>1. Cardinality(1 .. i) <= Cardinality(F)
        BY <1>6, <2>2, FS_Subset
    <3>. QED
        BY <2>3, <3>1
<1>8. F \subseteq 1 .. c
    BY <1>2, <1>5, <1>6, <1>7
<1>9. F = 1 .. c
  <2>1. IsFiniteSet(1 .. c) /\ Cardinality(1 .. c) = c
      BY <1>6, Upto
  <2>. QED
      BY <1>8, <2>1, FS_Subset
<1>10. List!filecount(t) = c
    BY SameCardinality DEF List!filecount, F
<1>11. \A i \in 1 .. Len(t) : i \in F <=> t[i] \notin Dirs
    BY <1>2 DEF F
<1>. QED
    BY <1>2, <1>6, <1>9, <1>10, <1>11

-----------------------------------------------------------------------------
LEMMA SameTree == List!Nodes = Nodes /\ List!Above = Above
  BY DEF List!Nodes, Nodes, List!Above, Above, List!Upward, Upward

LEMMA AboveUpward ==
    ASSUME NEW n \in Nodes
    PROVE  Above[n] \in Upward
<1>1. Above[n] = {a \in Nodes : \A S \in Upward : n \in S => a \in S}
    BY DEF Above
<1> SUFFICES ASSUME NEW x \in Above[n], Parent[x] # Top
             PROVE  Parent[x] \in Above[n]
    BY <1>1 DEF Upward
<1>2. x \in Nodes /\ Parent[x] \in Nodes
    BY <1>1, RemoveAssumption DEF Nodes
<1>3. ASSUME NEW S \in Upward, n \in S PROVE Parent[x] \in S
    BY <1>1, <1>3 DEF Upward
<1>. QED
    BY <1>1, <1>2, <1>3

\* Of two directories a thing is in, one is in the other.
LEMMA AboveChain ==
    ASSUME NEW n \in Nodes, NEW a \in Above[n], NEW b \in Above[n]
    PROVE  a \in Above[b] \/ b \in Above[a]
<1> DEFINE S == {x \in Above[n] : \A y \in Above[n] : x \in Above[y] \/ y \in Above[x]}
<1>0. Above[n] \in Upward /\ \A x \in Nodes : Above[x] \in Upward
    BY AboveUpward
<1>1. S \in Upward
  <2> SUFFICES ASSUME NEW x \in S, Parent[x] # Top
               PROVE  Parent[x] \in S
      BY <1>0 DEF Upward
  <2>1. x \in Nodes /\ Parent[x] \in Above[n] /\ Parent[x] \in Nodes
      BY <1>0 DEF Upward
  <2>2. ASSUME NEW y \in Above[n] PROVE Parent[x] \in Above[y] \/ y \in Above[Parent[x]]
    <3>1. y \in Nodes
        BY AboveSelf
    <3>2. CASE x \in Above[y]
        BY <1>0, <2>1, <3>1, <3>2 DEF Upward
    <3>3. CASE y \in Above[x] /\ y # x
      <4> DEFINE U == {x} \cup Above[Parent[x]]
      <4>1. U \in Upward
          BY <1>0, <2>1, AboveSelf DEF Upward
      <4>2. Above[x] \subseteq U
          BY <4>1, AboveWithin
      <4>. QED
          BY <3>3, <4>2
    <3>4. CASE y = x
        BY <1>0, <2>1, <3>4, AboveSelf DEF Upward
    <3>. QED
        BY <2>2, <3>2, <3>3, <3>4
  <2>. QED
      BY <2>1, <2>2
<1>2. n \in S
    BY AboveSelf
<1>. QED
    BY <1>1, <1>2, AboveWithin

\* In a directory there is at most one thing that another is in.
LEMMA OneChild ==
    ASSUME NEW n \in Nodes, NEW a \in Above[n], NEW b \in Above[n],
           Parent[a] = Parent[b], Parent[a] \in Nodes
    PROVE  a = b
<1>1. a \in Nodes /\ b \in Nodes /\ Parent[a] # Top
    BY AboveSelf, RemoveAssumption
<1>2. a \notin Above[Parent[a]] /\ b \notin Above[Parent[b]]
    BY <1>1, ShareAssumption
<1>3. \A x \in Nodes : Parent[x] \in Nodes => Above[x] \subseteq {x} \cup Above[Parent[x]]
  <2> SUFFICES ASSUME NEW x \in Nodes, Parent[x] \in Nodes
               PROVE  Above[x] \subseteq {x} \cup Above[Parent[x]]
      OBVIOUS
  <2>1. Above[Parent[x]] \in Upward
      BY AboveUpward
  <2>2. {x} \cup Above[Parent[x]] \in Upward
      BY <2>1, AboveSelf DEF Upward
  <2>. QED
      BY <2>2, AboveWithin
<1>. QED
    BY <1>1, <1>2, <1>3, AboveChain

LEMMA ChildAbove ==
    ASSUME NEW n \in Nodes, NEW d \in Above[n], d # n
    PROVE  \E e \in Above[n] : Parent[e] = d
<1> SUFFICES ASSUME \A e \in Above[n] : Parent[e] # d PROVE FALSE
    OBVIOUS
<1>1. Above[n] \in Upward
    BY AboveUpward
<1>2. Above[n] \ {d} \in Upward
    BY <1>1 DEF Upward
<1>3. n \in Above[n] \ {d}
    BY AboveSelf
<1>. QED
    BY <1>2, <1>3, AboveWithin

-----------------------------------------------------------------------------
\* The arguments and directories whose listing n is to be in, and the entries
\* of a directory for which n is printed, themselves or later on.
Cov(n)  == {a \in Nodes : List!Covers(a, n)}
Bear(n) == IF lropt THEN Above[n] ELSE {n}

LEMMA CovAbove ==
    ASSUME NEW n \in Nodes
    PROVE  Cov(n) \subseteq Above[n]
<1> SUFFICES ASSUME NEW a \in Nodes, List!Covers(a, n) PROVE a \in Above[n]
    BY DEF Cov
<1>1. CASE a \notin Dirs
    BY <1>1, AboveSelf DEF List!Covers
<1>2. CASE a \in Dirs /\ lropt
    BY <1>2, SameTree DEF List!Covers
<1>3. CASE a \in Dirs /\ ~lropt
  <2>1. Parent[n] = a
      BY <1>3 DEF List!Covers
  <2>. QED
      BY <2>1, AboveParent, AboveSelf
<1>. QED
    BY <1>1, <1>2, <1>3

(***************************************************************************)
(* Of the entries of a directory one is printed for n, or a way to it, if  *)
(* the directory is to show n and the entry is there; otherwise none.      *)
(***************************************************************************)
LEMMA Entered ==
    ASSUME NEW n \in Nodes, NEW d \in Dirs
    PROVE  /\ \A e \in Bear(n) : Parent[e] = d => d \in Cov(n) /\ d \in Above[n]
           /\ \A e, f \in Bear(n) : Parent[e] = d /\ Parent[f] = d => e = f
           /\ d \in Cov(n) => \E e \in Bear(n) : Parent[e] = d
           /\ Bear(n) \subseteq Above[n] /\ n \in Bear(n)
<1>1. d \in Nodes /\ Above[n] \subseteq Nodes /\ n \in Above[n]
    BY AboveSelf DEF Nodes
<1>2. CASE ~lropt
  <2>1. Bear(n) = {n} /\ (d \in Cov(n) <=> Parent[n] = d)
      BY <1>1, <1>2 DEF Bear, Cov, List!Covers
  <2>. QED
      BY <1>1, <2>1, CovAbove
<1>3. CASE lropt
  <2>1. Bear(n) = Above[n] /\ (d \in Cov(n) <=> n # d /\ d \in Above[n])
      BY <1>1, <1>3, SameTree DEF Bear, Cov, List!Covers
  <2>2. ASSUME NEW e \in Above[n], Parent[e] = d PROVE d \in Above[n] /\ n # d
    <3>1. e \in Nodes /\ Parent[e] # Top /\ Above[n] \in Upward
        BY <1>1, <2>2, RemoveAssumption, AboveUpward
    <3>2. d \in Above[n]
        BY <2>2, <3>1 DEF Upward
    <3>3. e \notin Above[d]
        BY <2>2, <3>1, ShareAssumption
    <3>. QED
        BY <2>2, <3>2, <3>3
  <2>. QED
      BY <1>1, <2>1, <2>2, OneChild, ChildAbove
<1>. QED
    BY <1>2, <1>3

LEMMA HitsNone ==
    ASSUME NEW s, NEW S, NEW I, I = {}
    PROVE  Hits(s, S, I) = 0
<1>1. At(s, S, I) = {}
    BY DEF At
<1>. QED
    BY <1>1, FS_EmptySet DEF Hits

LEMMA HitsParts ==
    ASSUME NEW s, NEW S, NEW m \in Nat, NEW c \in 0 .. m
    PROVE  /\ IsFiniteSet(1 .. c) /\ IsFiniteSet(c + 1 .. m)
           /\ Hits(s, S, 1 .. m) = Hits(s, S, 1 .. c) + Hits(s, S, c + 1 .. m)
<1> DEFINE A == At(s, S, 1 .. c)
           B == At(s, S, c + 1 .. m)
<1>0. c \in Nat /\ c + 1 \in Int /\ m \in Int
    OBVIOUS
<1>1. IsFiniteSet(1 .. c) /\ IsFiniteSet(c + 1 .. m)
    BY <1>0, Upto, FS_Interval
<1>2. IsFiniteSet(A) /\ IsFiniteSet(B)
    BY <1>1, HitsNat
<1>3. At(s, S, 1 .. m) = A \cup B /\ A \cap B = {}
  <2>1. 1 .. m = (1 .. c) \cup (c + 1 .. m) /\ (1 .. c) \cap (c + 1 .. m) = {}
      BY <1>0
  <2>. QED
      BY <2>1 DEF At
<1> HIDE DEF A, B
<1>4. Cardinality(A \cup B) = Cardinality(A) + Cardinality(B)
    BY <1>2, <1>3, DisjointSum
<1>. QED
    BY <1>1, <1>3, <1>4 DEF Hits, A, B

LEMMA HitsAppended ==
    ASSUME NEW s \in Seq(Nodes), NEW x \in Nodes, NEW S
    PROVE  LET t == Append(s, x) IN
           Hits(t, S, 1 .. Len(t)) = Hits(s, S, 1 .. Len(s)) + (IF x \in S THEN 1 ELSE 0)
<1> DEFINE t == Append(s, x)
<1>1. /\ Len(s) \in Nat /\ Len(t) = Len(s) + 1 /\ t[Len(s) + 1] = x
      /\ \A i \in 1 .. Len(s) : t[i] = s[i]
    OBVIOUS
<1> HIDE DEF t
<1>2. 1 .. Len(t) = (1 .. Len(s)) \cup {Len(s) + 1} /\ Len(s) + 1 \notin 1 .. Len(s)
    BY <1>1
<1>3. IsFiniteSet(1 .. Len(s))
    BY <1>1, Upto
<1>4. Hits(t, S, 1 .. Len(t)) = Hits(t, S, 1 .. Len(s)) + (IF x \in S THEN 1 ELSE 0)
  <2> DEFINE I == 1 .. Len(s)
             j == Len(s) + 1
  <2> HIDE DEF I, j
  <2>1. IsFiniteSet(I) /\ j \notin I /\ t[j] = x
      BY <1>1, <1>2, <1>3 DEF I, j
  <2>2. Hits(t, S, I \cup {j}) = Hits(t, S, I) + (IF t[j] \in S THEN 1 ELSE 0)
      BY <2>1, HitsOneMore
  <2>. QED
      BY <1>2, <2>1, <2>2 DEF I, j
<1>5. Hits(t, S, 1 .. Len(s)) = Hits(s, S, 1 .. Len(s))
    BY <1>1, HitsSame
<1>. QED
    BY <1>4, <1>5 DEF t

\* printls prints the first entries, each once.
LEMMA Laid ==
    ASSUME NEW s \in Seq(Nodes), NEW c \in 0 .. Len(s), NEW n
    PROVE  List!Cardinality(List!Places(n, SubSeq(s, 1, c))) = Hits(s, {n}, 1 .. c)
<1> DEFINE t == SubSeq(s, 1, c)
<1>1. Len(s) \in Nat /\ c \in Nat /\ 1 \in Int /\ c \in Int /\ \A i \in 1 .. c : s[i] \in Nodes
    OBVIOUS
<1>2. /\ t \in Seq(Nodes) /\ Len(t) = IF 1 <= c THEN c - 1 + 1 ELSE 0
      /\ \A i \in 1 .. c - 1 + 1 : t[i] = s[1 + i - 1]
    BY <1>1, SubSeqProperties
<1>3. c - 1 + 1 = c /\ \A i \in 1 .. c : 1 + i - 1 = i
    BY <1>1
<1> HIDE DEF t
<1>4. t \in Seq(Nodes) /\ Len(t) = c /\ \A i \in 1 .. c : t[i] = s[i]
    BY <1>1, <1>2, <1>3
<1>5. Hits(t, {n}, 1 .. c) = Hits(s, {n}, 1 .. c)
    BY <1>4, HitsSame
<1>6. Cardinality(List!Places(n, t)) = Hits(t, {n}, 1 .. Len(t))
    BY <1>4, PlacesCounted
<1>. QED
    BY <1>4, <1>5, <1>6, SameCardinality DEF t

-----------------------------------------------------------------------------
LoopFrames ==
    {f \in [entries : Seq(Nodes), i : Nat \ {0}] :
        \A j \in f.i .. Len(f.entries) : f.entries[j] \in Dirs}

\* The places in a stack of loops whose turn is yet to come, with a member of S.
Dues(s, S) ==
    {p \in (1 .. Len(s)) \X Nat :
        /\ p[2] \in s[p[1]].i .. Len(s[p[1]].entries)
        /\ s[p[1]].entries[p[2]] \in S}

LEMMA DuesPushed ==
    ASSUME NEW s \in Seq(LoopFrames), NEW f \in LoopFrames, NEW S, IsFiniteSet(Dues(s, S))
    PROVE  LET t == Append(s, f) IN
           /\ t \in Seq(LoopFrames) /\ IsFiniteSet(Dues(t, S))
           /\ Cardinality(Dues(t, S)) =
                 Cardinality(Dues(s, S)) + Hits(f.entries, S, f.i .. Len(f.entries))
<1> DEFINE t == Append(s, f)
           I == f.i .. Len(f.entries)
           A == At(f.entries, S, I)
           B == {Len(s) + 1} \X A
           g == [j \in A |-> <<Len(s) + 1, j>>]
<1>1. /\ Len(s) \in Nat /\ Len(t) = Len(s) + 1 /\ t[Len(s) + 1] = f
      /\ t \in Seq(LoopFrames) /\ \A a \in 1 .. Len(s) : t[a] = s[a]
    OBVIOUS
<1>2. f.i \in Nat \ {0} /\ f.entries \in Seq(Nodes) /\ Len(f.entries) \in Nat
    BY DEF LoopFrames
<1>3. IsFiniteSet(I)
  <2>1. f.i \in Int /\ Len(f.entries) \in Int
      BY <1>2
  <2>. QED
      BY <2>1, FS_Interval
<1>4. IsFiniteSet(A) /\ Cardinality(A) = Hits(f.entries, S, I)
  <2> HIDE DEF I
  <2>. QED
      BY <1>3, HitsNat DEF Hits
<1>5. g \in Bijection(A, B)
  <2>1. g \in [A -> B] /\ \A x, y \in A : g[x] = g[y] => x = y
    <3> HIDE DEF A
    <3>. QED
        OBVIOUS
  <2>2. \A p \in B : \E x \in A : g[x] = p
    <3> HIDE DEF A
    <3>. QED
        OBVIOUS
  <2> HIDE DEF g, A, B
  <2>. QED
      BY <2>1, <2>2, Fun_IsBij
<1>6. IsFiniteSet(B) /\ Cardinality(B) = Cardinality(A)
  <2> HIDE DEF g, A, B
  <2>. QED
      BY <1>4, <1>5, FS_Bijection, Fun_ExistsBij
<1>7. Dues(t, S) = Dues(s, S) \cup B /\ Dues(s, S) \cap B = {}
  <2>1. A = {j \in I : f.entries[j] \in S} /\ I \subseteq Nat
      BY <1>2 DEF At
  <2> HIDE DEF A, t
  <2>2. \A p : p \in Dues(s, S) => p \in Dues(t, S) /\ p \notin B
      BY <1>1 DEF Dues
  <2>3. \A p : p \in B => p \in Dues(t, S)
      BY <1>1, <2>1 DEF Dues
  <2>4. \A p \in Dues(t, S) : p \in Dues(s, S) \/ p \in B
    <3> SUFFICES ASSUME NEW p \in Dues(t, S) PROVE p \in Dues(s, S) \/ p \in B
        OBVIOUS
    <3>1. /\ p = <<p[1], p[2]>> /\ p[1] \in 1 .. Len(t) /\ p[2] \in Nat
          /\ p[2] \in t[p[1]].i .. Len(t[p[1]].entries) /\ t[p[1]].entries[p[2]] \in S
        BY DEF Dues
    <3>2. CASE p[1] = Len(s) + 1
        BY <1>1, <2>1, <3>1, <3>2
    <3>3. CASE p[1] # Len(s) + 1
      <4>1. p[1] \in 1 .. Len(s)
          BY <1>1, <3>1, <3>3
      <4>. QED
          BY <1>1, <3>1, <4>1 DEF Dues
    <3>. QED
        BY <3>2, <3>3
  <2>. QED
      BY <2>2, <2>3, <2>4
<1> HIDE DEF A, B, I, g, t
<1>8. /\ IsFiniteSet(Dues(t, S))
      /\ Cardinality(Dues(t, S)) = Cardinality(Dues(s, S)) + Cardinality(B)
    BY <1>6, <1>7, DisjointSum
<1>. QED
    BY <1>1, <1>4, <1>6, <1>8 DEF t, I

LEMMA DuesPopped ==
    ASSUME NEW s \in Seq(LoopFrames), s # <<>>, NEW S
    PROVE  LET t == SubSeq(s, 1, Len(s) - 1)
               f == s[Len(s)]
           IN  /\ t \in Seq(LoopFrames) /\ Dues(t, S) \subseteq Dues(s, S)
               /\ f.i > Len(f.entries) => Dues(t, S) = Dues(s, S)
<1> DEFINE t == SubSeq(s, 1, Len(s) - 1)
           f == s[Len(s)]
<1>1. /\ t \in Seq(LoopFrames) /\ Len(t) = Len(s) - 1
      /\ \A a \in 1 .. Len(s) - 1 : t[a] = s[a]
    BY Shortened
<1>2. Len(s) \in Nat \ {0} /\ f \in LoopFrames
    OBVIOUS
<1> HIDE DEF t
<1>3. ASSUME NEW p \in Dues(t, S) PROVE p \in Dues(s, S)
  <2>1. /\ p \in (1 .. Len(t)) \X Nat /\ p[1] \in 1 .. Len(t)
        /\ p[2] \in t[p[1]].i .. Len(t[p[1]].entries) /\ t[p[1]].entries[p[2]] \in S
      BY <1>3 DEF Dues
  <2>2. p[1] \in 1 .. Len(s) /\ t[p[1]] = s[p[1]] /\ p \in (1 .. Len(s)) \X Nat
      BY <1>1, <1>2, <2>1
  <2>. QED
      BY <2>1, <2>2 DEF Dues
<1>4. ASSUME f.i > Len(f.entries) PROVE Dues(s, S) \subseteq Dues(t, S)
  <2>1. f.i \in Nat /\ Len(f.entries) \in Nat
      BY <1>2 DEF LoopFrames
  <2>2. f.i .. Len(f.entries) = {}
      BY <1>4, <2>1
  <2> SUFFICES ASSUME NEW p \in Dues(s, S) PROVE p \in Dues(t, S)
      OBVIOUS
  <2>3. /\ p \in (1 .. Len(s)) \X Nat /\ p[1] \in 1 .. Len(s)
        /\ p[2] \in s[p[1]].i .. Len(s[p[1]].entries) /\ s[p[1]].entries[p[2]] \in S
      BY DEF Dues
  <2>4. p[1] # Len(s)
      BY <2>2, <2>3
  <2>5. p[1] \in 1 .. Len(t) /\ t[p[1]] = s[p[1]] /\ p \in (1 .. Len(t)) \X Nat
      BY <1>1, <1>2, <2>3, <2>4
  <2>. QED
      BY <2>3, <2>5 DEF Dues
<1>. QED
    BY <1>1, <1>3, <1>4 DEF t

LEMMA DuesTaken ==
    ASSUME NEW s \in Seq(LoopFrames), s # <<>>, NEW S, IsFiniteSet(Dues(s, S)),
           s[Len(s)].i <= Len(s[Len(s)].entries)
    PROVE  LET t == [s EXCEPT ![Len(s)].i = @ + 1]
               d == s[Len(s)].entries[s[Len(s)].i]
           IN  /\ t \in Seq(LoopFrames) /\ d \in Dirs /\ IsFiniteSet(Dues(t, S))
               /\ Cardinality(Dues(s, S)) =
                     Cardinality(Dues(t, S)) + (IF d \in S THEN 1 ELSE 0)
<1> DEFINE t == [s EXCEPT ![Len(s)].i = @ + 1]
           f == s[Len(s)]
           g == [f EXCEPT !.i = @ + 1]
           q == <<Len(s), f.i>>
<1>1. Len(s) \in 1 .. Len(s) /\ DOMAIN s = 1 .. Len(s) /\ Len(s) \in Nat \ {0}
    OBVIOUS
<1>2. /\ f \in LoopFrames /\ f.i \in Nat \ {0} /\ f.entries \in Seq(Nodes)
      /\ Len(f.entries) \in Nat /\ f.i <= Len(f.entries)
    BY <1>1 DEF LoopFrames
<1>3. f.entries[f.i] \in Dirs
    BY <1>2 DEF LoopFrames
<1>4. g \in LoopFrames /\ g.entries = f.entries /\ g.i = f.i + 1
  <2>1. g.entries = f.entries /\ g.i = f.i + 1 /\ g \in [entries : Seq(Nodes), i : Nat \ {0}]
      BY <1>2 DEF LoopFrames
  <2>2. \A j \in f.i + 1 .. Len(f.entries) : f.entries[j] \in Dirs
      BY <1>2 DEF LoopFrames
  <2> HIDE DEF g
  <2>. QED
      BY <2>1, <2>2 DEF LoopFrames
<1>5. t \in Seq(LoopFrames) /\ Len(t) = Len(s) /\ t[Len(s)] = g
      /\ \A a \in 1 .. Len(s) : a # Len(s) => t[a] = s[a]
  <2>1. t = [s EXCEPT ![Len(s)] = g]
      BY <1>1
  <2> HIDE DEF g, t
  <2>2. t \in Seq(LoopFrames) /\ Len(t) = Len(s)
      BY <1>1, <1>4, <2>1, ExceptSeq
  <2>3. t[Len(s)] = g /\ \A a \in 1 .. Len(s) : a # Len(s) => t[a] = s[a]
      BY <1>1, <2>1
  <2>. QED
      BY <2>2, <2>3
<1> HIDE DEF t, g, f
<1>6. Dues(t, S) = Dues(s, S) \ {q}
  <2> SUFFICES ASSUME NEW p
               PROVE  p \in Dues(t, S) <=> p \in Dues(s, S) /\ p # q
      OBVIOUS
  <2>1. CASE p \notin (1 .. Len(s)) \X Nat
      BY <1>5, <2>1 DEF Dues
  <2>2. CASE p \in (1 .. Len(s)) \X Nat /\ p[1] # Len(s)
    <3>1. p # q /\ p[1] \in 1 .. Len(s)
        BY <2>2
    <3>. QED
        BY <1>5, <2>2, <3>1 DEF Dues
  <2>3. CASE p \in (1 .. Len(s)) \X Nat /\ p[1] = Len(s)
    <3>1. p = <<Len(s), p[2]>> /\ p[2] \in Nat
        BY <2>3
    <3>2. p[2] \in f.i + 1 .. Len(f.entries) <=> p[2] \in f.i .. Len(f.entries) /\ p[2] # f.i
        BY <1>2, <3>1
    <3>3. p # q <=> p[2] # f.i
        BY <3>1
    <3>. QED
        BY <1>4, <1>5, <2>3, <3>2, <3>3 DEF Dues, f
  <2>. QED
      BY <2>1, <2>2, <2>3
<1>7. q \in Dues(s, S) <=> f.entries[f.i] \in S
  <2>1. q[1] = Len(s) /\ q[2] = f.i /\ q \in (1 .. Len(s)) \X Nat
      BY <1>1, <1>2
  <2>2. f.i \in f.i .. Len(f.entries)
      BY <1>2
  <2> HIDE DEF q
  <2>. QED
      BY <2>1, <2>2 DEF Dues, f
<1>8. /\ IsFiniteSet(Dues(t, S))
      /\ Cardinality(Dues(t, S)) =
            IF q \in Dues(s, S) THEN Cardinality(Dues(s, S)) - 1 ELSE Cardinality(Dues(s, S))
    BY <1>6, FS_RemoveElement
<1>9. Cardinality(Dues(s, S)) \in Nat
    BY FS_CardinalityType
<1>. QED
    BY <1>3, <1>5, <1>7, <1>8, <1>9 DEF t, f

-----------------------------------------------------------------------------
ListTypes ==
    /\ lpc \in {"begin", "stat", "next", "open", "read", "done"}
    /\ args \in Seq(Nodes) /\ k \in Nat \ {0} /\ (lpc = "begin" => k = 1)
    /\ got \in Seq(Nodes) /\ (lpc \notin {"stat", "read"} => got = <<>>)
    /\ lpc \in {"open", "read"} => dir \in Dirs
    /\ todo \subseteq Nodes /\ (lpc # "read" => todo = {})
    /\ lpc = "read" => /\ \A e \in todo : Parent[e] = dir
                       /\ \A i \in 1 .. Len(got) : Parent[got[i]] = dir
    /\ lstack \in Seq(LoopFrames) /\ (lpc = "done" => lstack = <<>>)
    /\ shown \in [Nodes -> Nat]

(***************************************************************************)
(* How often n is yet to be printed: for the arguments to examine, for the *)
(* entries that have been read and have not, for the directory to open,    *)
(* and for those whose turn has not come.                                  *)
(***************************************************************************)
Asked(n)    == IF lpc \in {"begin", "stat"} THEN Hits(args, Cov(n), k .. Len(args)) ELSE 0
Gotten(n)   == Hits(got, IF lpc = "stat" THEN Cov(n) ELSE Bear(n), 1 .. Len(got))
Unread(n)   == IF todo \cap Bear(n) = {} THEN 0 ELSE 1
Entering(n) == IF lpc = "open" /\ dir \in Cov(n) THEN 1 ELSE 0
Stacked(n)  == Cardinality(Dues(lstack, Cov(n)))

Due(n) == Asked(n) + Gotten(n) + Unread(n) + Entering(n) + Stacked(n)

\* What may keep n from being printed.
Excused(n) == lintr \/ n \notin exists \ Added \/ Above[n] \cap failed # {}

(***************************************************************************)
(* What was printed and what is due never exceed what was asked for, and   *)
(* nothing is dropped without an excuse.                                   *)
(***************************************************************************)
Even(n) ==
    /\ IsFiniteSet(Dues(lstack, Cov(n)))
    /\ shown[n] + Due(n) <= List!Times(n)
    /\ shown[n] + Due(n) < List!Times(n) => Excused(n)

DueInv == ListTypes /\ \A n \in Nodes : Even(n)

LEMMA TimesAsked ==
    ASSUME args \in Seq(Nodes), NEW n
    PROVE  List!Times(n) = Hits(args, Cov(n), 1 .. Len(args))
<1>1. {i \in DOMAIN args : List!Covers(args[i], n)} = At(args, Cov(n), 1 .. Len(args))
    BY DEF At, Cov
<1>. QED
    BY <1>1, SameCardinality DEF List!Times, Hits

LEMMA Terms ==
    ASSUME ListTypes, NEW n \in Nodes, Even(n)
    PROVE  /\ Asked(n) \in Nat /\ Gotten(n) \in Nat /\ Unread(n) \in {0, 1}
           /\ Entering(n) \in {0, 1} /\ Stacked(n) \in Nat
           /\ List!Times(n) \in Nat /\ shown[n] \in Nat
<1>1. Len(args) \in Nat /\ Len(got) \in Nat /\ k \in Int /\ Len(args) \in Int
    BY DEF ListTypes
<1>2. IsFiniteSet(k .. Len(args)) /\ IsFiniteSet(1 .. Len(args)) /\ IsFiniteSet(1 .. Len(got))
    BY <1>1, Upto, FS_Interval
<1>3. Asked(n) \in Nat /\ Gotten(n) \in Nat
    BY <1>2, HitsNat DEF Asked, Gotten
<1>4. List!Times(n) \in Nat
    BY <1>2, HitsNat, TimesAsked DEF ListTypes
<1>5. Stacked(n) \in Nat
    BY FS_CardinalityType DEF Stacked, Even
<1>. QED
    BY <1>3, <1>4, <1>5 DEF Unread, Entering, ListTypes

LEMMA SameCovered ==
    ASSUME lropt' = lropt, args' = args, NEW n
    PROVE  Cov(n)' = Cov(n) /\ Bear(n)' = Bear(n) /\ List!Times(n)' = List!Times(n)
  BY DEF Cov, Bear, List!Covers, List!Times

\* A step keeps the balance when what is due becomes less with an excuse only.
LEMMA Balanced ==
    ASSUME ListTypes, NEW n \in Nodes, Even(n),
           UNCHANGED <<lropt, args>>, lintr => lintr', exists' \ Added \subseteq exists,
           failed \subseteq failed',
           IsFiniteSet(Dues(lstack, Cov(n)))',
           shown'[n] + Due(n)' \in Nat, shown'[n] + Due(n)' <= shown[n] + Due(n),
           shown'[n] + Due(n)' = shown[n] + Due(n) \/ Excused(n)'
    PROVE  Even(n)'
<1>1. List!Times(n)' = List!Times(n) /\ List!Times(n) \in Nat
    BY SameCovered, Terms
<1>2. Due(n) \in Nat /\ shown[n] \in Nat
    BY Terms DEF Due
<1>3. Excused(n) => Excused(n)'
    BY DEF Excused
<1> DEFINE x == shown[n] + Due(n)
           y == shown'[n] + Due(n)'
<1>4. /\ x \in Nat /\ y \in Nat /\ y <= x /\ (y = x \/ Excused(n)')
      /\ x <= List!Times(n) /\ (x < List!Times(n) => Excused(n))
    BY <1>2 DEF Even
<1> HIDE DEF x, y
<1>5. y <= List!Times(n) /\ (y < List!Times(n) => Excused(n)')
    BY <1>1, <1>3, <1>4
<1>. QED
    BY <1>1, <1>5 DEF Even, y

-----------------------------------------------------------------------------
(* The steps of ls keep the balance. *)

LEMMA EvenStarts == List!Init => DueInv
<1> SUFFICES ASSUME List!Init PROVE DueInv
    OBVIOUS
<1>1. ListTypes
  <2>1. /\ lpc = "begin" /\ args \in Seq(Nodes) /\ k = 1 /\ todo = {} /\ got = <<>>
        /\ lstack = <<>> /\ shown = [n \in Nodes |-> 0]
      BY ShareAssumption, SameTree DEF List!Init
  <2>. QED
      BY <2>1 DEF ListTypes
<1>2. ASSUME NEW n \in Nodes PROVE Even(n)
  <2>1. /\ lpc = "begin" /\ k = 1 /\ todo = {} /\ got = <<>> /\ lstack = <<>>
        /\ shown[n] = 0
      BY SameTree DEF List!Init
  <2>2. Dues(lstack, Cov(n)) = {}
      BY <2>1 DEF Dues
  <2>3. IsFiniteSet(Dues(lstack, Cov(n))) /\ Stacked(n) = 0
      BY <2>2, FS_EmptySet DEF Stacked
  <2>4. Gotten(n) = 0
      BY <2>1, HitsNone DEF Gotten
  <2>5. Unread(n) = 0 /\ Entering(n) = 0
      BY <2>1 DEF Unread, Entering
  <2>6. Asked(n) = List!Times(n)
      BY <1>1, <2>1, TimesAsked DEF Asked, ListTypes
  <2>7. Asked(n) \in Nat
      BY <1>1, <2>1, Upto, HitsNat DEF Asked, ListTypes
  <2>. QED
      BY <2>1, <2>3, <2>4, <2>5, <2>6, <2>7 DEF Even, Due
<1>. QED
    BY <1>1, <1>2 DEF DueInv

LEMMA BeginEven ==
    ASSUME ListTypes, NEW n \in Nodes, Even(n), List!Begin
    PROVE  Even(n)'
<1>1. /\ lpc = "begin" /\ k = 1 /\ got = <<>> /\ todo = {}
      /\ UNCHANGED <<lintr, lropt, args, k, todo, got, lstack, exists, shown, failed>>
    BY DEF List!Begin, ListTypes
<1>2. Cov(n)' = Cov(n) /\ Bear(n)' = Bear(n)
    BY <1>1, SameCovered
<1>3. Gotten(n) = 0 /\ Gotten(n)' = 0 /\ Unread(n) = 0 /\ Unread(n)' = 0 /\ Entering(n) = 0
  <2>1. 1 .. Len(got) = {} /\ 1 .. Len(got') = {}
      BY <1>1
  <2>. QED
      BY <1>1, <2>1, HitsNone DEF Gotten, Unread, Entering
<1>4. Stacked(n)' = Stacked(n) /\ IsFiniteSet(Dues(lstack, Cov(n)))'
    BY <1>1, <1>2 DEF Stacked, Even
<1>5. Asked(n)' + Entering(n)' = Asked(n)
  <2>1. CASE lpc' = "stat"
      BY <1>1, <1>2, <2>1, Terms DEF Asked, Entering
  <2>2. CASE Len(args) = 1 /\ dir' = args[1] /\ lpc' = "open"
    <3>1. Hits(args, Cov(n), {} \cup {1}) = Hits(args, Cov(n), {})
             + (IF args[1] \in Cov(n) THEN 1 ELSE 0)
        BY FS_EmptySet, HitsOneMore
    <3>2. k .. Len(args) = {} \cup {1}
        BY <1>1, <2>2
    <3>3. Hits(args, Cov(n), {}) = 0
        BY HitsNone
    <3>. QED
        BY <1>1, <1>2, <2>2, <3>1, <3>2, <3>3 DEF Asked, Entering
  <2>. QED
      BY <2>1, <2>2 DEF List!Begin
<1>6. Due(n)' = Due(n)
  <2>1. Asked(n)' \in Nat /\ Entering(n)' \in Nat
    <3>1. Asked(n)' = 0 \/ Asked(n)' = Asked(n)
        BY <1>1, <1>2 DEF Asked
    <3>. QED
        BY <3>1, Terms DEF Entering
  <2>. QED
      BY <1>3, <1>4, <1>5, <2>1, Terms DEF Due
<1>7. shown'[n] + Due(n)' = shown[n] + Due(n) /\ shown[n] + Due(n) \in Nat
  <2>1. Due(n) \in Nat /\ shown[n] \in Nat
      BY Terms DEF Due
  <2>. QED
      BY <1>1, <1>6, <2>1
<1>. QED
    BY <1>1, <1>4, <1>7, Balanced

LEMMA StatArgEven ==
    ASSUME ListTypes, NEW n \in Nodes, Even(n), List!StatArg
    PROVE  Even(n)'
<1>1. /\ lpc = "stat" /\ k <= Len(args) /\ k' = k + 1 /\ failed \subseteq failed'
      /\ UNCHANGED <<lpc, lintr, lropt, args, todo, lstack, exists, shown>>
      /\ \/ got' = Append(got, args[k])
         \/ got' = got /\ args[k] \in failed'
  <2>1. k \in Nat /\ Len(args) \in Nat
      BY DEF ListTypes
  <2>2. ~(k > Len(args))
      BY DEF List!StatArg, List!StatEnds
  <2>3. k <= Len(args)
      BY <2>1, <2>2
  <2>. QED
      BY <2>3 DEF List!StatArg, List!Fails
<1>2. Cov(n)' = Cov(n) /\ Bear(n)' = Bear(n)
    BY <1>1, SameCovered
<1>3. Unread(n)' = Unread(n) /\ Entering(n)' = 0 /\ Entering(n) = 0 /\ Stacked(n)' = Stacked(n)
      /\ IsFiniteSet(Dues(lstack, Cov(n)))'
    BY <1>1, <1>2 DEF Unread, Entering, Stacked, Even
<1> DEFINE one == IF args[k] \in Cov(n) THEN 1 ELSE 0
<1>4. /\ k \in Nat \ {0} /\ Len(args) \in Nat /\ got \in Seq(Nodes) /\ args[k] \in Nodes
    BY <1>1 DEF ListTypes
<1>5. Asked(n) = Asked(n)' + one /\ Asked(n)' \in Nat
  <2> DEFINE I == k + 1 .. Len(args)
  <2>1. IsFiniteSet(I)
    <3>1. k + 1 \in Int /\ Len(args) \in Int
        BY <1>4
    <3>. QED
        BY <3>1, FS_Interval
  <2>2. k .. Len(args) = I \cup {k} /\ k \notin I
      BY <1>1, <1>4
  <2>3. Asked(n)' = Hits(args, Cov(n), I) /\ Asked(n) = Hits(args, Cov(n), k .. Len(args))
      BY <1>1, <1>2 DEF Asked
  <2> HIDE DEF I
  <2>4. Hits(args, Cov(n), I \cup {k}) = Hits(args, Cov(n), I) + one
      BY <2>1, <2>2, HitsOneMore
  <2>5. Hits(args, Cov(n), I) \in Nat
      BY <2>1, HitsNat
  <2>. QED
      BY <2>2, <2>3, <2>4, <2>5
<1>6. CASE got' = Append(got, args[k])
  <2>1. Gotten(n)' = Gotten(n) + one
      BY <1>1, <1>2, <1>4, <1>6, HitsAppended DEF Gotten
  <2>2. one \in {0, 1}
      OBVIOUS
  <2> HIDE DEF one
  <2>3. Due(n)' = Due(n) /\ Due(n) \in Nat
      BY <1>3, <1>5, <2>1, <2>2, Terms DEF Due
  <2>4. shown'[n] + Due(n)' = shown[n] + Due(n) /\ shown[n] + Due(n) \in Nat
      BY <1>1, <2>3, Terms
  <2>. QED
      BY <1>1, <1>3, <2>4, Balanced
<1>7. CASE got' = got /\ args[k] \in failed'
  <2>1. Gotten(n)' = Gotten(n)
      BY <1>1, <1>2, <1>7 DEF Gotten
  <2>2. Due(n)' \in Nat /\ Due(n) = Due(n)' + one /\ Due(n) \in Nat /\ shown[n] \in Nat
      BY <1>3, <1>5, <2>1, Terms DEF Due
  <2>3. one = 0 \/ Excused(n)'
      BY <1>7, CovAbove DEF Excused
  <2>4. one \in {0, 1}
      OBVIOUS
  <2> HIDE DEF one
  <2>5. /\ shown'[n] + Due(n)' \in Nat /\ shown'[n] + Due(n)' <= shown[n] + Due(n)
        /\ shown'[n] + Due(n)' = shown[n] + Due(n) \/ Excused(n)'
      BY <1>1, <2>2, <2>3, <2>4
  <2>. QED
      BY <1>1, <1>3, <2>5, Balanced
<1>. QED
    BY <1>1, <1>6, <1>7

LEMMA OnlyDirsAbove ==
    ASSUME NEW n \in Nodes, NEW a \in Above[n], a # n
    PROVE  a \in Dirs
<1>1. PICK e \in Above[n] : Parent[e] = a
    BY ChildAbove
<1>. QED
    BY <1>1, AboveSelf, RemoveAssumption

(***************************************************************************)
(* The loop over the directories among sorted entries starts behind the    *)
(* files, and has directories only.                                        *)
(***************************************************************************)
LEMMA LoopOver ==
    ASSUME NEW s \in Seq(Nodes), NEW t \in List!FilesFirst(s)
    PROVE  LET c == List!filecount(t) IN
           /\ t \in Seq(Nodes) /\ c \in 0 .. Len(t)
           /\ [entries |-> t, i |-> c + 1] \in LoopFrames
<1> DEFINE c == List!filecount(t)
           f == [entries |-> t, i |-> c + 1]
<1>1. t \in Seq(Nodes) /\ Len(t) \in Nat
    BY HitsSorted DEF List!FilesFirst
<1>2. c \in 0 .. Len(t) /\ \A i \in 1 .. Len(t) : t[i] \in Dirs <=> i > c
    BY FilesInFront
<1>3. c \in Nat
    BY <1>1, <1>2
<1> HIDE DEF c
<1>4. f.entries = t /\ f.i = c + 1 /\ f \in [entries : Seq(Nodes), i : Nat \ {0}]
    BY <1>1, <1>3
<1>5. \A j \in c + 1 .. Len(t) : t[j] \in Dirs
    BY <1>1, <1>2, <1>3
<1> HIDE DEF f
<1>6. f \in LoopFrames
    BY <1>4, <1>5 DEF LoopFrames
<1>. QED
    BY <1>1, <1>2, <1>6 DEF c, f

(***************************************************************************)
(* The files in front are printed, and the loop over the directories has   *)
(* what else is due for the entries; the same when all of them have been   *)
(* printed.                                                                *)
(***************************************************************************)
LEMMA Divided ==
    ASSUME NEW s \in Seq(Nodes), NEW t \in List!FilesFirst(s), NEW n \in Nodes
    PROVE  LET c == List!filecount(t)
               f == [entries |-> t, i |-> c + 1]
               h == Hits(t, Cov(n), f.i .. Len(f.entries))
           IN  /\ t \in Seq(Nodes) /\ c \in 0 .. Len(t) /\ f \in LoopFrames
               /\ h \in Nat
               /\ Hits(s, Cov(n), 1 .. Len(s)) = Hits(t, {n}, 1 .. c) + h
               /\ lropt => Hits(s, Bear(n), 1 .. Len(s)) = Hits(s, {n}, 1 .. Len(s)) + h
<1> DEFINE c == List!filecount(t)
           f == [entries |-> t, i |-> c + 1]
           I == c + 1 .. Len(t)
<1>1. /\ t \in Seq(Nodes) /\ Len(t) = Len(s) /\ Len(t) \in Nat
      /\ \A S : Hits(t, S, 1 .. Len(t)) = Hits(s, S, 1 .. Len(s))
  <2>1. t \in List!Orders(s)
      BY DEF List!FilesFirst
  <2>. QED
      BY <2>1, HitsSorted
<1>2. c \in 0 .. Len(t) /\ \A i \in 1 .. Len(t) : t[i] \in Dirs <=> i > c
    BY FilesInFront
<1>3. c \in Nat /\ \A i \in 1 .. Len(t) : t[i] \in Nodes
    BY <1>1, <1>2
<1> HIDE DEF c
<1>4. f \in LoopFrames /\ f.entries = t /\ f.i = c + 1
    BY LoopOver DEF c
<1>5. \A S : /\ IsFiniteSet(1 .. c) /\ IsFiniteSet(I)
             /\ Hits(t, S, 1 .. Len(t)) = Hits(t, S, 1 .. c) + Hits(t, S, I)
    BY <1>1, <1>2, HitsParts
<1>6. Hits(t, Cov(n), 1 .. c) = Hits(t, {n}, 1 .. c)
  <2>1. \A i \in 1 .. c : t[i] \in Nodes \ Dirs
      BY <1>1, <1>2, <1>3
  <2>2. \A i \in 1 .. c : t[i] \in Cov(n) <=> t[i] \in {n}
      BY <2>1 DEF Cov, List!Covers
  <2> DEFINE J == 1 .. c
             N == {n}
  <2>3. \A i \in J : t[i] \in Cov(n) <=> t[i] \in N
      BY <2>2
  <2> HIDE DEF J, N
  <2>4. Hits(t, Cov(n), J) = Hits(t, N, J)
      BY <2>3, HitsSame
  <2>. QED
      BY <2>4 DEF J, N
<1>7. Hits(s, Cov(n), 1 .. Len(s)) = Hits(t, {n}, 1 .. c) + Hits(t, Cov(n), I)
    BY <1>1, <1>5, <1>6
<1>8. Hits(t, Cov(n), I) \in Nat
    BY <1>5, HitsNat
<1>9. ASSUME lropt
      PROVE  Hits(s, Bear(n), 1 .. Len(s)) = Hits(s, {n}, 1 .. Len(s)) + Hits(t, Cov(n), I)
  <2> DEFINE U == Above[n] \ {n}
  <2>1. Bear(n) = {n} \cup U /\ {n} \cap U = {}
      BY <1>9, AboveSelf DEF Bear
  <2> HIDE DEF U
  <2>2. Hits(s, Bear(n), 1 .. Len(s)) = Hits(s, {n}, 1 .. Len(s)) + Hits(s, U, 1 .. Len(s))
      BY <1>1, <2>1, Upto, HitsSplit
  <2>3. Hits(s, U, 1 .. Len(s)) = Hits(t, U, 1 .. c) + Hits(t, U, I)
      BY <1>1, <1>5
  <2>4. Hits(t, U, 1 .. c) = 0
    <3>1. \A i \in 1 .. c : t[i] \notin Dirs
        BY <1>1, <1>2, <1>3
    <3>2. \A i \in 1 .. c : t[i] \notin U
        BY <3>1, OnlyDirsAbove DEF U
    <3>. QED
        BY <1>5, <3>2, HitsNat
  <2>5. Hits(t, U, I) = Hits(t, Cov(n), I) /\ Hits(t, U, I) \in Nat
    <3>1. \A i \in I : t[i] \in Dirs /\ t[i] \in Nodes
        BY <1>1, <1>2, <1>3
    <3>2. \A i \in I : t[i] \in U <=> t[i] \in Cov(n)
        BY <1>9, <3>1, SameTree DEF Cov, List!Covers, U
    <3> HIDE DEF I
    <3>3. IsFiniteSet(I)
        BY <1>5
    <3>. QED
        BY <3>2, <3>3, HitsSame, HitsNat
  <2>. QED
      BY <2>2, <2>3, <2>4, <2>5
<1>. QED
    BY <1>1, <1>2, <1>4, <1>7, <1>8, <1>9 DEF c

LEMMA PrintFilesEven ==
    ASSUME ListTypes, NEW n \in Nodes, Even(n), List!PrintFiles
    PROVE  Even(n)'
<1>1. PICK t \in List!FilesFirst(got) :
         List!Shows(List!filecount(t), t) /\ List!Push(t)
    BY DEF List!PrintFiles
<1> DEFINE c == List!filecount(t)
           f == [entries |-> t, i |-> c + 1]
           h == Hits(t, Cov(n), f.i .. Len(f.entries))
<1>2. /\ lpc = "stat" /\ lpc' = "next" /\ got' = <<>> /\ lstack' = Append(lstack, f)
      /\ lintr \/ k > Len(args)
      /\ UNCHANGED <<lintr, lropt, args, k, todo, exists, failed>> /\ todo = {}
      /\ got \in Seq(Nodes) /\ k \in Nat \ {0} /\ args \in Seq(Nodes)
      /\ lstack \in Seq(LoopFrames)
    BY <1>1 DEF List!PrintFiles, List!StatEnds, List!Push, ListTypes
<1>3. /\ t \in Seq(Nodes) /\ c \in 0 .. Len(t) /\ f \in LoopFrames /\ h \in Nat
      /\ Hits(got, Cov(n), 1 .. Len(got)) = Hits(t, {n}, 1 .. c) + h
    BY <1>2, Divided
<1>4. shown'[n] = shown[n] + Hits(t, {n}, 1 .. c)
    BY <1>1, <1>3, Laid, SameTree DEF List!Shows
<1>4a. Hits(t, {n}, 1 .. c) \in Nat
  <2>1. c \in Nat
      BY <1>3
  <2>. QED
      BY <2>1, Upto, HitsNat
<1>5. Cov(n)' = Cov(n) /\ Bear(n)' = Bear(n)
    BY <1>2, SameCovered
<1>6. Stacked(n)' = Stacked(n) + h /\ IsFiniteSet(Dues(lstack, Cov(n)))'
  <2> HIDE DEF f, c
  <2>1. /\ IsFiniteSet(Dues(Append(lstack, f), Cov(n)))
        /\ Cardinality(Dues(Append(lstack, f), Cov(n))) =
              Cardinality(Dues(lstack, Cov(n))) + Hits(f.entries, Cov(n), f.i .. Len(f.entries))
      BY <1>2, <1>3, DuesPushed DEF Even
  <2>2. f.entries = t
      BY DEF f
  <2>. QED
      BY <1>2, <1>5, <2>1, <2>2 DEF Stacked
<1>7. /\ Gotten(n) = Hits(got, Cov(n), 1 .. Len(got)) /\ Gotten(n)' = 0
      /\ Unread(n) = 0 /\ Unread(n)' = 0 /\ Entering(n) = 0 /\ Entering(n)' = 0
  <2>1. 1 .. Len(got') = {}
      BY <1>2
  <2>. QED
      BY <1>2, <2>1, HitsNone DEF Gotten, Unread, Entering
<1>8. Asked(n)' = 0 /\ (Asked(n) = 0 \/ lintr')
  <2>1. CASE k > Len(args)
    <3>1. k .. Len(args) = {}
        BY <1>2, <2>1
    <3>. QED
        BY <1>2, <3>1, HitsNone DEF Asked
  <2>. QED
      BY <1>2, <2>1 DEF Asked
<1> HIDE DEF f, h, c
<1>9. /\ shown'[n] + Due(n)' \in Nat /\ shown'[n] + Due(n)' <= shown[n] + Due(n)
      /\ shown'[n] + Due(n)' = shown[n] + Due(n) \/ Excused(n)'
  <2> DEFINE g == Hits(t, {n}, 1 .. c)
  <2> HIDE DEF g
  <2>0. /\ g \in Nat /\ h \in Nat /\ Asked(n) \in Nat /\ Stacked(n) \in Nat /\ shown[n] \in Nat
        /\ Gotten(n) = g + h /\ shown'[n] = shown[n] + g
      BY <1>3, <1>4, <1>4a, <1>7, Terms DEF g
  <2>0a. Due(n)' = Stacked(n) + h
      BY <2>0, <1>6, <1>7, <1>8 DEF Due
  <2>0b. Due(n) = Asked(n) + (g + h) + Stacked(n)
      BY <2>0, <1>7 DEF Due
  <2>1. shown'[n] + Due(n)' + Asked(n) = shown[n] + Due(n)
      BY <2>0, <2>0a, <2>0b
  <2>2. shown'[n] + Due(n)' \in Nat
      BY <2>0, <2>0a
  <2>3. Asked(n) \in Nat /\ (Asked(n) = 0 \/ Excused(n)')
      BY <1>8, Terms DEF Excused
  <2> DEFINE x == shown[n] + Due(n)
             y == shown'[n] + Due(n)'
  <2> HIDE DEF x, y
  <2>4. y + Asked(n) = x /\ y \in Nat
      BY <2>1, <2>2 DEF x, y
  <2>5. y <= x /\ (y = x \/ Excused(n)')
      BY <2>3, <2>4
  <2>. QED
      BY <2>4, <2>5 DEF x, y
<1>. QED
    BY <1>2, <1>6, <1>9, Balanced

LEMMA NextDirEven ==
    ASSUME ListTypes, NEW n \in Nodes, Even(n), List!NextDir
    PROVE  Even(n)'
<1>1. /\ lpc = "next" /\ got = <<>> /\ todo = {} /\ lstack \in Seq(LoopFrames)
      /\ UNCHANGED <<lintr, lropt, args, k, got, todo, exists, shown, failed>>
    BY DEF List!NextDir, ListTypes
<1>2. Cov(n)' = Cov(n) /\ Bear(n)' = Bear(n)
    BY <1>1, SameCovered
<1>3. lpc' \in {"next", "open", "done"}
    BY <1>1 DEF List!NextDir
<1>4. /\ Asked(n) = 0 /\ Asked(n)' = 0 /\ Gotten(n) = 0 /\ Gotten(n)' = 0
      /\ Unread(n) = 0 /\ Unread(n)' = 0 /\ Entering(n) = 0
  <2>1. 1 .. Len(got) = {} /\ 1 .. Len(got') = {}
      BY <1>1
  <2>. QED
      BY <1>1, <1>3, <2>1, HitsNone DEF Asked, Gotten, Unread, Entering
<1>5. /\ IsFiniteSet(Dues(lstack, Cov(n)))'
      /\ Entering(n)' + Stacked(n)' \in Nat
      /\ Entering(n)' + Stacked(n)' <= Stacked(n)
      /\ Entering(n)' + Stacked(n)' = Stacked(n) \/ lintr'
  <2>1. CASE lstack = <<>> /\ lpc' = "done" /\ lstack' = lstack
      BY <1>2, <2>1, Terms DEF Entering, Stacked, Even
  <2>2. CASE /\ lstack # <<>> /\ (lintr \/ List!Frame.i > Len(List!Frame.entries))
             /\ lstack' = List!Outer /\ lpc' = lpc
    <3>1. /\ Dues(lstack', Cov(n)) \subseteq Dues(lstack, Cov(n))
          /\ Dues(lstack', Cov(n)) = Dues(lstack, Cov(n)) \/ lintr
        BY <1>1, <2>2, DuesPopped DEF List!Outer, List!Frame
    <3>2. IsFiniteSet(Dues(lstack, Cov(n)))
        BY DEF Even
    <3>3. /\ IsFiniteSet(Dues(lstack', Cov(n)))
          /\ Cardinality(Dues(lstack', Cov(n))) <= Cardinality(Dues(lstack, Cov(n)))
          /\ Cardinality(Dues(lstack', Cov(n))) \in Nat
        BY <3>1, <3>2, FS_Subset, FS_CardinalityType
    <3>4. Entering(n)' = 0
        BY <1>1, <2>2 DEF Entering
    <3>. QED
        BY <1>1, <1>2, <3>1, <3>3, <3>4 DEF Stacked
  <2>3. CASE /\ lstack # <<>> /\ ~(List!Frame.i > Len(List!Frame.entries))
             /\ dir' = List!Frame.entries[List!Frame.i] /\ lpc' = "open"
             /\ lstack' = [lstack EXCEPT ![Len(lstack)].i = @ + 1]
    <3> DEFINE g == lstack[Len(lstack)]
    <3>1. g.i \in Nat /\ Len(g.entries) \in Nat
      <4>1. g \in LoopFrames
          BY <1>1, <2>3
      <4>. QED
          BY <4>1 DEF LoopFrames
    <3>2. g.i <= Len(g.entries) /\ dir' = g.entries[g.i]
        BY <2>3, <3>1 DEF List!Frame
    <3>3. /\ IsFiniteSet(Dues(lstack', Cov(n)))
          /\ Cardinality(Dues(lstack, Cov(n))) =
                Cardinality(Dues(lstack', Cov(n))) + (IF dir' \in Cov(n) THEN 1 ELSE 0)
        BY <1>1, <2>3, <3>2, DuesTaken DEF Even
    <3>4. Cardinality(Dues(lstack', Cov(n))) \in Nat
        BY <3>3, FS_CardinalityType
    <3>5. Entering(n)' = IF dir' \in Cov(n) THEN 1 ELSE 0
        BY <1>2, <2>3 DEF Entering
    <3>. QED
        BY <1>2, <3>3, <3>4, <3>5 DEF Stacked
  <2>. QED
      BY <1>1, <2>1, <2>2, <2>3 DEF List!NextDir
<1>6. Entering(n)' \in Nat /\ Stacked(n)' \in Nat
    BY <1>5, FS_CardinalityType DEF Entering, Stacked
<1>7. /\ shown'[n] + Due(n)' = shown[n] + (Entering(n)' + Stacked(n)')
      /\ shown[n] + Due(n) = shown[n] + Stacked(n) /\ shown[n] \in Nat /\ Stacked(n) \in Nat
    BY <1>1, <1>4, <1>6, Terms DEF Due
<1>8. /\ shown'[n] + Due(n)' \in Nat /\ shown'[n] + Due(n)' <= shown[n] + Due(n)
      /\ shown'[n] + Due(n)' = shown[n] + Due(n) \/ Excused(n)'
    BY <1>5, <1>7 DEF Excused
<1>. QED
    BY <1>1, <1>5, <1>8, Balanced

LEMMA OpenDirEven ==
    ASSUME exists \in Upward, ListTypes, NEW n \in Nodes, Even(n), List!OpenDir
    PROVE  Even(n)'
<1>1. /\ lpc = "open" /\ got = <<>> /\ todo = {} /\ dir \in Dirs
      /\ UNCHANGED <<lintr, lropt, args, k, dir, got, lstack, exists, shown>>
      /\ failed \subseteq failed'
    BY DEF List!OpenDir, List!Fails, ListTypes
<1>2. Cov(n)' = Cov(n) /\ Bear(n)' = Bear(n)
    BY <1>1, SameCovered
<1>3. lpc' \in {"read", "next"}
    BY DEF List!OpenDir
<1>4. /\ Asked(n) = 0 /\ Asked(n)' = 0 /\ Gotten(n) = 0 /\ Gotten(n)' = 0
      /\ Unread(n) = 0 /\ Entering(n)' = 0 /\ Stacked(n)' = Stacked(n)
      /\ IsFiniteSet(Dues(lstack, Cov(n)))'
      /\ Entering(n) = IF dir \in Cov(n) THEN 1 ELSE 0
  <2>1. 1 .. Len(got) = {} /\ 1 .. Len(got') = {}
      BY <1>1
  <2>. QED
      BY <1>1, <1>2, <1>3, <2>1, HitsNone
         DEF Asked, Gotten, Unread, Entering, Stacked, Even
<1>5. /\ Unread(n)' \in {0, 1} /\ Unread(n)' <= Entering(n)
      /\ Unread(n)' = Entering(n) \/ Excused(n)'
  <2>1. CASE todo' = List!Inside(dir)
    <3>1. todo' = {e \in exists : Parent[e] = dir}
        BY <2>1 DEF List!Inside
    <3>2. Unread(n)' = IF todo' \cap Bear(n) = {} THEN 0 ELSE 1
        BY <1>2 DEF Unread
    <3>3. todo' \cap Bear(n) # {} => dir \in Cov(n)
        BY <1>1, <3>1, Entered
    <3>4. ASSUME dir \in Cov(n), n \in exists PROVE todo' \cap Bear(n) # {}
      <4>1. PICK e \in Bear(n) : Parent[e] = dir
          BY <1>1, <3>4, Entered
      <4>2. e \in exists
          BY <1>1, <3>4, Entered, AboveWithin
      <4>. QED
          BY <3>1, <4>1, <4>2
    <3>. QED
        BY <1>1, <1>4, <3>2, <3>3, <3>4 DEF Excused
  <2>2. CASE todo' = todo /\ (lintr \/ dir \in failed')
    <3>1. Unread(n)' = 0
        BY <1>1, <2>2 DEF Unread
    <3>2. dir \in Cov(n) => Excused(n)'
        BY <1>1, <2>2, CovAbove DEF Excused
    <3>. QED
        BY <1>4, <3>1, <3>2
  <2>. QED
      BY <2>1, <2>2 DEF List!OpenDir, List!Fails
<1>6. /\ shown'[n] + Due(n)' \in Nat /\ shown'[n] + Due(n)' <= shown[n] + Due(n)
      /\ shown'[n] + Due(n)' = shown[n] + Due(n) \/ Excused(n)'
  <2>1. Due(n)' = Unread(n)' + Stacked(n) /\ Due(n) = Entering(n) + Stacked(n)
      BY <1>4, <1>5, Terms DEF Due
  <2>. QED
      BY <1>1, <1>5, <2>1, Terms
<1>. QED
    BY <1>1, <1>4, <1>6, Balanced

LEMMA StatEntryEven ==
    ASSUME ListTypes, NEW n \in Nodes, Even(n), List!StatEntry
    PROVE  Even(n)'
<1>1. /\ lpc = "read" /\ lpc' = "read" /\ failed \subseteq failed' /\ dir \in Dirs
      /\ UNCHANGED <<lintr, lropt, args, k, dir, lstack, exists, shown>>
      /\ got \in Seq(Nodes)
    BY DEF List!StatEntry, List!Fails, ListTypes
<1>2. PICK m \in todo :
         /\ todo' = todo \ {m}
         /\ \/ got' = Append(got, m)
            \/ got' = got /\ m \in failed'
    BY DEF List!StatEntry, List!AfterStatFails, List!Fails
<1>3. m \in Nodes /\ Parent[m] = dir /\ \A e \in todo : Parent[e] = dir
    BY <1>1 DEF ListTypes
<1>4. Cov(n)' = Cov(n) /\ Bear(n)' = Bear(n)
    BY <1>1, SameCovered
<1>5. /\ Asked(n) = 0 /\ Asked(n)' = 0 /\ Entering(n) = 0 /\ Entering(n)' = 0
      /\ Stacked(n)' = Stacked(n) /\ IsFiniteSet(Dues(lstack, Cov(n)))'
    BY <1>1, <1>4 DEF Asked, Entering, Stacked, Even
<1> DEFINE one == IF m \in Bear(n) THEN 1 ELSE 0
<1>6. Unread(n) = Unread(n)' + one /\ Unread(n)' \in {0, 1}
  <2>1. \A e \in todo : m \in Bear(n) /\ e \in Bear(n) => e = m
      BY <1>1, <1>3, Entered
  <2>. QED
      BY <1>2, <1>4, <2>1 DEF Unread
<1>7. one \in {0, 1}
    OBVIOUS
<1>8. CASE got' = Append(got, m)
  <2>1. Gotten(n)' = Gotten(n) + one
      BY <1>1, <1>3, <1>4, <1>8, HitsAppended DEF Gotten
  <2> HIDE DEF one
  <2>2. Due(n)' = Gotten(n) + one + Unread(n)' + Stacked(n)
      BY <1>5, <1>6, <1>7, <2>1, Terms DEF Due
  <2>3. Due(n) = Gotten(n) + (Unread(n)' + one) + Stacked(n)
      BY <1>5, <1>6, <1>7, Terms DEF Due
  <2>4. Due(n)' = Due(n) /\ Due(n) \in Nat
      BY <1>6, <1>7, <2>2, <2>3, Terms
  <2>. QED
      BY <1>1, <1>5, <2>4, Terms, Balanced
<1>9. CASE got' = got /\ m \in failed'
  <2>1. Gotten(n)' = Gotten(n)
      BY <1>1, <1>4, <1>9 DEF Gotten
  <2>2. one = 0 \/ Excused(n)'
      BY <1>1, <1>9, Entered DEF Excused
  <2> HIDE DEF one
  <2>3. Due(n)' = Gotten(n) + Unread(n)' + Stacked(n)
      BY <1>5, <1>6, <2>1, Terms DEF Due
  <2>4. Due(n) = Gotten(n) + (Unread(n)' + one) + Stacked(n)
      BY <1>5, <1>6, <1>7, Terms DEF Due
  <2>4a. Due(n)' \in Nat /\ Due(n) = Due(n)' + one /\ shown'[n] = shown[n] /\ shown[n] \in Nat
      BY <1>1, <1>6, <1>7, <2>3, <2>4, Terms
  <2>5. /\ shown'[n] + Due(n)' \in Nat /\ shown'[n] + Due(n)' <= shown[n] + Due(n)
        /\ shown'[n] + Due(n)' = shown[n] + Due(n) \/ Excused(n)'
      BY <1>7, <2>2, <2>4a
  <2>. QED
      BY <1>1, <1>5, <2>5, Balanced
<1>. QED
    BY <1>2, <1>8, <1>9

LEMMA CloseInterruptedEven ==
    ASSUME ListTypes, NEW n \in Nodes, Even(n), List!CloseInterrupted
    PROVE  Even(n)'
<1>1. /\ lpc = "read" /\ lpc' = "next" /\ lintr /\ todo' = {} /\ got' = <<>>
      /\ UNCHANGED <<lintr, lropt, args, k, dir, lstack, exists, shown, failed>>
    BY DEF List!CloseInterrupted
<1>2. Cov(n)' = Cov(n) /\ Bear(n)' = Bear(n)
    BY <1>1, SameCovered
<1>3. /\ Asked(n) = 0 /\ Asked(n)' = 0 /\ Entering(n) = 0 /\ Entering(n)' = 0
      /\ Gotten(n)' = 0 /\ Unread(n)' = 0
      /\ Stacked(n)' = Stacked(n) /\ IsFiniteSet(Dues(lstack, Cov(n)))'
  <2>1. 1 .. Len(got') = {}
      BY <1>1
  <2>. QED
      BY <1>1, <1>2, <2>1, HitsNone DEF Asked, Entering, Gotten, Unread, Stacked, Even
<1>4. Due(n)' = Stacked(n) /\ Due(n) = Gotten(n) + Unread(n) + Stacked(n)
    BY <1>3, Terms DEF Due
<1>5. shown'[n] + Due(n)' \in Nat /\ shown'[n] + Due(n)' <= shown[n] + Due(n) /\ Excused(n)'
    BY <1>1, <1>4, Terms DEF Excused
<1>. QED
    BY <1>1, <1>3, <1>5, Balanced

LEMMA CloseDirEven ==
    ASSUME ListTypes, NEW n \in Nodes, Even(n), List!CloseDir
    PROVE  Even(n)'
<1>1. /\ lpc = "read" /\ lpc' = "next" /\ todo' = {} /\ got' = <<>>
      /\ UNCHANGED <<lintr, lropt, args, k, dir, exists>> /\ failed \subseteq failed'
      /\ got \in Seq(Nodes) /\ Len(got) \in Nat /\ dir \in Dirs /\ lstack \in Seq(LoopFrames)
      /\ \A e \in todo : Parent[e] = dir
      /\ \A i \in 1 .. Len(got) : Parent[got[i]] = dir
    BY DEF List!CloseDir, List!Fails, ListTypes
<1>2. Cov(n)' = Cov(n) /\ Bear(n)' = Bear(n)
    BY <1>1, SameCovered
<1>3. /\ Asked(n) = 0 /\ Asked(n)' = 0 /\ Entering(n) = 0 /\ Entering(n)' = 0
      /\ Gotten(n)' = 0 /\ Unread(n)' = 0 /\ Gotten(n) = Hits(got, Bear(n), 1 .. Len(got))
  <2>1. 1 .. Len(got') = {}
      BY <1>1
  <2>. QED
      BY <1>1, <2>1, HitsNone DEF Asked, Entering, Gotten, Unread
<1>4. Unread(n) = 0 \/ (todo # {} /\ dir \in Above[n])
    BY <1>1, Entered DEF Unread
<1>5. CASE /\ \E s \in List!ByName(got) : List!Shows(Len(s), s)
           /\ IF lropt THEN \E s \in List!FilesFirst(got) : List!Push(s) ELSE lstack' = lstack
           /\ todo = {} \/ dir \in failed'
  <2>1. shown'[n] = shown[n] + Hits(got, {n}, 1 .. Len(got))
    <3>1. PICK s \in List!ByName(got) : List!Shows(Len(s), s)
        BY <1>5
    <3>2. s \in Seq(Nodes) /\ Hits(s, {n}, 1 .. Len(s)) = Hits(got, {n}, 1 .. Len(got))
        BY <1>1, HitsSorted DEF List!ByName
    <3>3. Len(s) \in 0 .. Len(s)
        BY <3>2
    <3>. QED
        BY <3>1, <3>2, <3>3, Laid, SameTree DEF List!Shows
  <2> DEFINE g == Hits(got, {n}, 1 .. Len(got))
  <2>2. g \in Nat
      BY <1>1, Upto, HitsNat
  <2> HIDE DEF g
  <2>3. /\ IsFiniteSet(Dues(lstack, Cov(n)))' /\ Stacked(n)' \in Nat
        /\ Gotten(n) + Stacked(n) = g + Stacked(n)'
    <3>1. CASE ~lropt
      <4>1. Gotten(n) = g
          BY <1>3, <3>1 DEF Bear, g
      <4>. QED
          BY <1>2, <1>5, <2>2, <3>1, <4>1, Terms DEF Stacked, Even
    <3>2. CASE lropt
      <4>1. PICK t \in List!FilesFirst(got) : List!Push(t)
          BY <1>5, <3>2
      <4> DEFINE f == [entries |-> t, i |-> List!filecount(t) + 1]
                 h == Hits(t, Cov(n), f.i .. Len(f.entries))
      <4>2. f \in LoopFrames /\ h \in Nat /\ Gotten(n) = g + h
          BY <1>1, <1>3, <3>2, Divided DEF g
      <4>3. lstack' = Append(lstack, f) /\ f.entries = t
          BY <4>1 DEF List!Push
      <4>3a. h = Hits(f.entries, Cov(n), f.i .. Len(f.entries))
          BY <4>3
      <4> HIDE DEF f, h
      <4>4. /\ IsFiniteSet(Dues(Append(lstack, f), Cov(n)))
            /\ Cardinality(Dues(Append(lstack, f), Cov(n))) =
                  Cardinality(Dues(lstack, Cov(n))) + h
          BY <1>1, <4>2, <4>3a, DuesPushed DEF Even
      <4>5. IsFiniteSet(Dues(lstack, Cov(n)))' /\ Stacked(n)' = Stacked(n) + h
          BY <1>2, <4>3, <4>4 DEF Stacked
      <4>. QED
          BY <2>2, <4>2, <4>5, Terms
    <3>. QED
        BY <3>1, <3>2
  <2>4. Unread(n) = 0 \/ Excused(n)'
      BY <1>4, <1>5 DEF Excused
  <2>5. /\ Due(n)' = Stacked(n)' /\ shown'[n] = shown[n] + g
        /\ Due(n) = (g + Stacked(n)') + Unread(n)
    <3>1. Due(n)' = Stacked(n)'
        BY <1>3, <2>3 DEF Due
    <3>2. Due(n) = Gotten(n) + Unread(n) + Stacked(n)
        BY <1>3, Terms DEF Due
    <3>3. Gotten(n) + Unread(n) + Stacked(n) = (Gotten(n) + Stacked(n)) + Unread(n)
        BY Terms
    <3>. QED
        BY <2>1, <2>3, <3>1, <3>2, <3>3 DEF g
  <2>6. /\ shown'[n] + Due(n)' \in Nat /\ shown'[n] + Due(n)' <= shown[n] + Due(n)
        /\ shown'[n] + Due(n)' = shown[n] + Due(n) \/ Excused(n)'
      BY <2>2, <2>3, <2>4, <2>5, Terms
  <2>. QED
      BY <1>1, <2>3, <2>6, Balanced
<1>6. CASE dir \in failed' /\ lstack' = lstack /\ shown' = shown
  <2>1. Stacked(n)' = Stacked(n) /\ IsFiniteSet(Dues(lstack, Cov(n)))'
      BY <1>2, <1>6 DEF Stacked, Even
  <2>2. Gotten(n) = 0 \/ dir \in Above[n]
    <3> SUFFICES ASSUME dir \notin Above[n] PROVE Gotten(n) = 0
        OBVIOUS
    <3>1. \A i \in 1 .. Len(got) : got[i] \notin Bear(n)
        BY <1>1, Entered
    <3>2. IsFiniteSet(1 .. Len(got))
        BY <1>1, Upto
    <3>. QED
        BY <1>3, <3>1, <3>2, HitsNat
  <2>3. (Gotten(n) = 0 /\ Unread(n) = 0) \/ Excused(n)'
      BY <1>4, <1>6, <2>2 DEF Excused
  <2>4. Due(n)' = Stacked(n) /\ Due(n) = Gotten(n) + Unread(n) + Stacked(n)
      BY <1>3, <2>1, Terms DEF Due
  <2>5. /\ shown'[n] + Due(n)' \in Nat /\ shown'[n] + Due(n)' <= shown[n] + Due(n)
        /\ shown'[n] + Due(n)' = shown[n] + Due(n) \/ Excused(n)'
      BY <1>6, <2>3, <2>4, Terms
  <2>. QED
      BY <1>1, <2>1, <2>5, Balanced
<1>. QED
    BY <1>5, <1>6 DEF List!CloseDir, List!Fails

\* SIGINT, and whatever the other user and other clients do.
LEMMA RestEven ==
    ASSUME ListTypes, NEW n \in Nodes, Even(n), lintr => lintr', exists' \ Added \subseteq exists,
           UNCHANGED <<lpc, lropt, args, k, dir, todo, got, lstack, shown, failed>>
    PROVE  Even(n)'
<1>1. Cov(n)' = Cov(n) /\ Bear(n)' = Bear(n)
    BY SameCovered
<1>2. /\ Asked(n)' = Asked(n) /\ Gotten(n)' = Gotten(n) /\ Unread(n)' = Unread(n)
      /\ Entering(n)' = Entering(n) /\ Stacked(n)' = Stacked(n)
      /\ IsFiniteSet(Dues(lstack, Cov(n)))'
    BY <1>1 DEF Asked, Gotten, Unread, Entering, Stacked, Even
<1>3. Due(n)' = Due(n) /\ Due(n) \in Nat
    BY <1>2, Terms DEF Due
<1>. QED
    BY <1>2, <1>3, Terms, Balanced

LEMMA ShownTyped ==
    ASSUME shown \in [Nodes -> Nat], NEW s \in Seq(Nodes), NEW c \in 0 .. Len(s),
           List!Shows(c, s)
    PROVE  shown' \in [Nodes -> Nat]
<1>1. c \in Nat
    OBVIOUS
<1>2. IsFiniteSet(1 .. c)
    BY <1>1, Upto
<1>3. ASSUME NEW n
      PROVE  List!Cardinality(List!Places(n, SubSeq(s, 1, c))) \in Nat
  <2> DEFINE N == {n}
  <2>1. List!Cardinality(List!Places(n, SubSeq(s, 1, c))) = Hits(s, N, 1 .. c)
      BY Laid
  <2> HIDE DEF N
  <2>. QED
      BY <1>2, <2>1, HitsNat
<1>4. shown' = [n \in Nodes |->
                  shown[n] + List!Cardinality(List!Places(n, SubSeq(s, 1, c)))]
    BY SameTree DEF List!Shows
<1>. QED
    BY <1>3, <1>4

LEMMA TypesStep ==
    ASSUME ListTypes, exists \subseteq Nodes, List!Next
    PROVE  ListTypes'
<1> USE DEF ListTypes
<1>1. CASE List!Begin
    BY <1>1 DEF List!Begin
<1>2. CASE List!StatArg
  <2>1. k \in 1 .. Len(args) /\ args[k] \in Nodes /\ k + 1 \in Nat \ {0}
      BY <1>2 DEF List!StatArg, List!StatEnds
  <2>2. got' \in Seq(Nodes)
    <3>1. got \in Seq(Nodes) /\ (got' = Append(got, args[k]) \/ got' = got)
        BY <1>2 DEF List!StatArg
    <3>2. Append(got, args[k]) \in Seq(Nodes)
        BY <2>1, <3>1
    <3>. QED
        BY <3>1, <3>2
  <2>. QED
      BY <1>2, <2>1, <2>2 DEF List!StatArg
<1>3. CASE List!PrintFiles
  <2>1. PICK t \in List!FilesFirst(got) :
           List!Shows(List!filecount(t), t) /\ List!Push(t)
      BY <1>3 DEF List!PrintFiles
  <2>2. shown' \in [Nodes -> Nat]
      BY <2>1, LoopOver, ShownTyped
  <2>3. lstack' \in Seq(LoopFrames)
    <3> DEFINE f == [entries |-> t, i |-> List!filecount(t) + 1]
    <3>1. f \in LoopFrames /\ lstack' = Append(lstack, f)
        BY <2>1, LoopOver DEF List!Push
    <3> HIDE DEF f
    <3>. QED
        BY <3>1
  <2>. QED
      BY <1>3, <2>2, <2>3 DEF List!PrintFiles
<1>4. CASE List!NextDir
  <2>1. CASE lstack = <<>> /\ lpc' = "done" /\ UNCHANGED <<dir, lstack>>
      BY <1>4, <2>1 DEF List!NextDir
  <2>2. CASE lstack # <<>> /\ lstack' = List!Outer /\ UNCHANGED <<lpc, dir>>
    <3>1. lstack' \in Seq(LoopFrames)
        BY <2>2, Shortened DEF List!Outer
    <3>. QED
        BY <1>4, <2>2, <3>1 DEF List!NextDir
  <2>3. CASE /\ lstack # <<>> /\ ~(List!Frame.i > Len(List!Frame.entries))
             /\ dir' = List!Frame.entries[List!Frame.i] /\ lpc' = "open"
             /\ lstack' = [lstack EXCEPT ![Len(lstack)].i = @ + 1]
    <3> DEFINE g == lstack[Len(lstack)]
    <3>1. g \in LoopFrames
        BY <2>3
    <3>2. g.i <= Len(g.entries) /\ dir' = g.entries[g.i]
        BY <2>3, <3>1 DEF List!Frame, LoopFrames
    <3>3. Dues(lstack, {}) = {}
        BY DEF Dues
    <3>4. IsFiniteSet(Dues(lstack, {}))
        BY <3>3, FS_EmptySet
    <3>5. lstack' \in Seq(LoopFrames) /\ dir' \in Dirs
        BY <2>3, <3>2, <3>4, DuesTaken
    <3>. QED
        BY <1>4, <2>3, <3>5 DEF List!NextDir
  <2>. QED
      BY <1>4, <2>1, <2>2, <2>3 DEF List!NextDir
<1>5. CASE List!OpenDir
    BY <1>5 DEF List!OpenDir, List!Inside
<1>6. CASE List!StatEntry
  <2>1. PICK m \in todo : /\ todo' = todo \ {m}
                          /\ got' = Append(got, m) \/ got' = got
      BY <1>6 DEF List!StatEntry, List!AfterStatFails
  <2>2. /\ UNCHANGED <<lpc, args, k, dir, lstack, shown>> /\ lpc = "read"
        /\ m \in Nodes /\ Parent[m] = dir
        /\ got \in Seq(Nodes) /\ \A i \in 1 .. Len(got) : Parent[got[i]] = dir
      BY <1>6, <2>1 DEF List!StatEntry
  <2>3. got' \in Seq(Nodes) /\ \A i \in 1 .. Len(got') : Parent[got'[i]] = dir
    <3> HIDE DEF ListTypes
    <3>1. /\ Append(got, m) \in Seq(Nodes) /\ Len(Append(got, m)) = Len(got) + 1
          /\ Append(got, m)[Len(got) + 1] = m /\ Len(got) \in Nat
          /\ \A i \in 1 .. Len(got) : Append(got, m)[i] = got[i]
        BY <2>2
    <3>2. CASE got' = got
        BY <2>2, <3>2
    <3>3. CASE got' = Append(got, m)
      <4>1. \A i \in 1 .. Len(got) + 1 : i \in 1 .. Len(got) \/ i = Len(got) + 1
          BY <3>1
      <4>. QED
          BY <2>2, <3>1, <3>3, <4>1
    <3>. QED
        BY <2>1, <3>2, <3>3
  <2>. QED
      BY <2>1, <2>2, <2>3
<1>7. CASE List!CloseInterrupted
    BY <1>7 DEF List!CloseInterrupted
<1>8. CASE List!CloseDir
  <2>1. shown' \in [Nodes -> Nat]
    <3>1. CASE \E s \in List!ByName(got) : List!Shows(Len(s), s)
      <4>1. PICK s \in List!ByName(got) : List!Shows(Len(s), s)
          BY <3>1
      <4>2. s \in Seq(Nodes)
          BY <4>1, HitsSorted DEF List!ByName
      <4>3. Len(s) \in 0 .. Len(s)
          BY <4>2
      <4>. QED
          BY <4>1, <4>2, <4>3, ShownTyped
    <3>. QED
        BY <1>8, <3>1 DEF List!CloseDir
  <2>2. lstack' \in Seq(LoopFrames)
    <3>1. CASE \E s \in List!FilesFirst(got) : List!Push(s)
      <4>1. PICK t \in List!FilesFirst(got) : List!Push(t)
          BY <3>1
      <4> DEFINE f == [entries |-> t, i |-> List!filecount(t) + 1]
      <4>2. f \in LoopFrames /\ lstack' = Append(lstack, f)
          BY <4>1, LoopOver DEF List!Push
      <4> HIDE DEF f
      <4>. QED
          BY <4>2
    <3>. QED
        BY <1>8, <3>1 DEF List!CloseDir
  <2>. QED
      BY <1>8, <2>1, <2>2 DEF List!CloseDir
<1>9. CASE List!Interrupt
    BY <1>9 DEF List!Interrupt, List!walk
<1>. QED
    BY <1>1, <1>2, <1>3, <1>4, <1>5, <1>6, <1>7, <1>8, <1>9 DEF List!Next

-----------------------------------------------------------------------------
\* The user who lists leaves the share as it is.
LEMMA EvenStep ==
    ASSUME exists \in Upward, exists \subseteq Nodes, DueInv, List!Next, exists' = exists
    PROVE  DueInv'
<1>1. ListTypes'
    BY TypesStep DEF DueInv
<1>2. ASSUME NEW n \in Nodes PROVE Even(n)'
  <2>1. ListTypes /\ Even(n)
      BY DEF DueInv
  <2>2. CASE List!Interrupt
    <3>1. /\ lintr' = TRUE
          /\ UNCHANGED <<lpc, lropt, args, k, dir, todo, got, lstack, shown, failed>>
        BY <2>2 DEF List!Interrupt, List!walk
    <3>. QED
        BY <2>1, <3>1, RestEven
  <2>. QED
      BY <2>1, <2>2, BeginEven, StatArgEven, PrintFilesEven, NextDirEven, OpenDirEven,
         StatEntryEven, CloseInterruptedEven, CloseDirEven DEF List!Next
<1>. QED
    BY <1>1, <1>2 DEF DueInv

\* What is on the server becomes less, but for what others add.
LEMMA ExistsShrinks ==
    ASSUME [Next]_vars
    PROVE  exists' \ Added \subseteq exists
<1>1. CASE OtherAdds
    BY <1>1 DEF OtherAdds
<1>2. Unlink \/ Rmdir \/ OtherAdds \/ UNCHANGED exists
    BY DEF Next, vars, NextArg, CommandEnds, Stat, OpenDir, NextEntry, LeaveInterrupted,
       CloseDir, Interrupt
<1>. QED
    BY <1>1, <1>2 DEF Unlink, Rmdir, Remove

LEMMA EvenRests ==
    ASSUME DueInv, [Next]_vars, UNCHANGED lvars
    PROVE  DueInv'
<1>1. UNCHANGED <<lpc, lintr, lropt, args, k, dir, todo, got, lstack, shown, failed>>
    BY DEF lvars
<1>2. ListTypes'
    BY <1>1 DEF DueInv, ListTypes
<1>3. ASSUME NEW n \in Nodes PROVE Even(n)'
    BY <1>1, ExistsShrinks, RestEven DEF DueInv
<1>. QED
    BY <1>2, <1>3 DEF DueInv

LEMMA DueInvariant == ShareSpec => []DueInv
<1>1. ShareInit => DueInv
    BY EvenStarts DEF ShareInit
<1>2. ShareInv /\ DueInv /\ [ShareNext]_<<vars, lvars>> => DueInv'
  <2> SUFFICES ASSUME ShareInv, DueInv, [ShareNext]_<<vars, lvars>> PROVE DueInv'
      OBVIOUS
  <2>1. CASE [Next]_vars /\ UNCHANGED lvars
      BY <2>1, EvenRests
  <2>2. CASE List!Next
    <3>1. exists \in Upward /\ exists \subseteq Nodes /\ exists' = exists
        BY <2>2, ListStep DEF ShareInv, RemoveInv, WalkInv, ExistInv
    <3>. QED
        BY <2>2, <3>1, EvenStep
  <2>. QED
      BY <2>1, <2>2 DEF ShareNext
<1>. QED
    BY <1>1, <1>2, ShareInvariant, PTL DEF ShareSpec

(***************************************************************************)
(* ls prints whatever is there all the time once for every argument that   *)
(* covers it, unless SIGINT came or a request for it or for a directory    *)
(* above it failed, and nothing more often: in every tree, with every list *)
(* of arguments, however the entries are sorted, and whatever another user *)
(* removes or adds while ls is on its way (cmdls.c:35-207).                *)
(***************************************************************************)
THEOREM ListsTruly == ShareSpec => []ListedTruly
<1>1. ASSUME DueInv PROVE ListedTruly
  <2> SUFFICES ASSUME NEW n \in Nodes
               PROVE  /\ shown[n] <= List!Times(n)
                      /\ /\ lpc = "done" /\ ~lintr /\ n \in exists \ Added
                         /\ shown[n] < List!Times(n)
                         => Above[n] \cap failed # {}
      BY SameTree DEF ListedTruly, List!ListedTruly
  <2>1. ListTypes /\ Even(n)
      BY <1>1 DEF DueInv
  <2>2. Due(n) \in Nat /\ shown[n] \in Nat /\ List!Times(n) \in Nat
      BY <2>1, Terms DEF Due
  <2>3. shown[n] <= List!Times(n)
      BY <2>1, <2>2 DEF Even
  <2>4. ASSUME lpc = "done" PROVE Due(n) = 0
    <3>1. got = <<>> /\ todo = {} /\ lstack = <<>>
        BY <2>1, <2>4 DEF ListTypes
    <3>2. Dues(lstack, Cov(n)) = {} /\ 1 .. Len(got) = {}
        BY <3>1 DEF Dues
    <3>3. Stacked(n) = 0
        BY <3>2, FS_EmptySet DEF Stacked
    <3>4. Asked(n) = 0 /\ Gotten(n) = 0 /\ Unread(n) = 0 /\ Entering(n) = 0
        BY <2>4, <3>1, <3>2, HitsNone DEF Asked, Gotten, Unread, Entering
    <3>. QED
        BY <3>3, <3>4 DEF Due
  <2>5. ASSUME lpc = "done", ~lintr, n \in exists \ Added, shown[n] < List!Times(n)
        PROVE  Above[n] \cap failed # {}
    <3>1. shown[n] + Due(n) = shown[n]
        BY <2>2, <2>4, <2>5
    <3>2. Excused(n)
        BY <2>1, <2>5, <3>1 DEF Even
    <3>. QED
        BY <2>5, <3>2 DEF Excused
  <2>. QED
      BY <2>3, <2>5
<1>. QED
    BY <1>1, DueInvariant, PTL

-----------------------------------------------------------------------------
RangeInv == next \in 1 .. Len(Args) + 1 /\ warned \subseteq Nodes

LEMMA RangeStep ==
    ASSUME RemoveInv, RangeInv, [Next]_vars
    PROVE  RangeInv'
<1>1. next' \in 1 .. Len(Args) + 1
  <2>1. CASE NextArg
    <3>1. next \in Nat \ {0} /\ Len(Args) \in Nat /\ ~(next > Len(Args)) /\ next' = next + 1
        BY <2>1, RemoveAssumption DEF NextArg, ArgLoopEnds, RangeInv
    <3>. QED
        BY <3>1
  <2>2. NextArg \/ next' = next
      BY DEF Next, vars, walk, CommandEnds, Stat, Unlink, OpenDir, NextEntry, LeaveInterrupted,
         CloseDir, Rmdir, OtherAdds, Interrupt, Returns, Leave
  <2>. QED
      BY <2>1, <2>2 DEF RangeInv
<1>2. warned' \subseteq Nodes
  <2>1. node \in Nodes
      BY DEF RemoveInv, WalkInv, Covered
  <2>2. NextEntry \/ CloseDir => Frame.dir \in Nodes
    <3>1. NextEntry \/ CloseDir => stack # <<>>
        BY DEF NextEntry, CloseDir, RemoveInv, ControlInv
    <3>. QED
        BY <3>1, Leaves DEF RemoveInv, Frames, Nodes
  <2>3. /\ NextEntry \/ CloseDir => warned' \subseteq warned \cup {Frame.dir}
        /\ Stat \/ Unlink \/ OpenDir \/ Rmdir => warned' \subseteq warned \cup {node}
      BY DEF NextEntry, CloseDir, AfterCloseFails, Stat, Unlink, OpenDir, Rmdir, Warn
  <2>4. \/ NextEntry \/ CloseDir \/ Stat \/ Unlink \/ OpenDir \/ Rmdir
        \/ warned' = warned
      BY DEF Next, vars, NextArg, CommandEnds, LeaveInterrupted, OtherAdds, Interrupt
  <2>. QED
      BY <2>1, <2>2, <2>3, <2>4 DEF RangeInv
<1>. QED
    BY <1>1, <1>2 DEF RangeInv

(***************************************************************************)
(* The variables of both users keep to their ranges, for every tree and    *)
(* all arguments: what is indexed is there, only directories are opened,   *)
(* and a listing that has ended holds no entries (smbhlp.c:189-269,        *)
(* cmdls.c:35-226).                                                        *)
(***************************************************************************)
THEOREM TypeCorrect == ShareSpec => [](TypeOK /\ ListTypes)
<1>1. ShareInit => RangeInv
  <2>1. Len(Args) \in Nat /\ 1 \in 1 .. Len(Args) + 1
      BY RemoveAssumption
  <2>. QED
      BY <2>1 DEF ShareInit, Init, RangeInv
<1>2. ShareInv /\ RangeInv /\ [ShareNext]_<<vars, lvars>> => RangeInv'
  <2> SUFFICES ASSUME ShareInv, RangeInv, [ShareNext]_<<vars, lvars>> PROVE RangeInv'
      OBVIOUS
  <2>1. [Next]_vars
      BY ListStep DEF ShareInv, ShareNext, vars
  <2>. QED
      BY <2>1, RangeStep DEF ShareInv
<1>3. ASSUME ShareInv, RangeInv PROVE TypeOK
  <2> DEFINE All == [dir : Dirs, todo : SUBSET Nodes]
  <2>1. Covered \subseteq Nodes
      BY DEF Covered
  <2>2. stack \in Seq(All)
    <3>1. Frames \subseteq All
        BY <2>1 DEF Frames
    <3>2. stack \in Seq(Frames)
        BY <1>3 DEF ShareInv, RemoveInv, WalkInv
    <3> HIDE DEF All
    <3>. QED
        BY <3>1, <3>2
  <2>3. handles \subseteq Dirs
    <3>1. \A i \in DOMAIN stack : stack[i].dir \in Dirs
      <4>1. stack \in Seq(Frames)
          BY <1>3 DEF ShareInv, RemoveInv, WalkInv
      <4>2. \A i \in DOMAIN stack : stack[i] \in Frames
          BY <4>1
      <4>. QED
          BY <4>2 DEF Frames
    <3>. QED
        BY <1>3, <3>1 DEF ShareInv, RemoveInv, WalkInv, Open
  <2>. QED
      BY <1>3, <2>1, <2>2, <2>3
         DEF ShareInv, RemoveInv, ControlInv, WalkInv, LateInv, RangeInv, TypeOK
<1>4. DueInv => ListTypes
    BY DEF DueInv
<1>. QED
    BY <1>1, <1>2, <1>3, <1>4, ShareInvariant, DueInvariant, PTL DEF ShareSpec
=============================================================================
