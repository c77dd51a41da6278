----------------------------- MODULE Page_proofs -----------------------------
(***************************************************************************)
(* Theorems about Page, for files of any size and any number of            *)
(* descriptors and temporary files.                                        *)
(***************************************************************************)
EXTENDS Page, TLAPS

(***************************************************************************)
(* The inductive invariant, in parts: who still has to close and remove    *)
(* what, and how much of the file has arrived.                             *)
(***************************************************************************)
ControlOK ==
    /\ pc \in {"prompt", "open", "stat", "copy", "discard", "pager", "unlink"}
    /\ intr \in BOOLEAN /\ source \in BOOLEAN
    /\ phase \in {"idle", "copying"} /\ result \in {"none", "ok", "failed"}

Counts ==
    /\ fds \in 0 .. MaxFds /\ temps \in 0 .. MaxTemps /\ left \in Nat
    /\ pc \in {"open", "stat", "copy"} => fds > 0
    /\ temps = IF pc = "prompt" THEN left ELSE left + 1

SourceOpen == source = TRUE => pc \in {"stat", "copy"}

CopyOK ==
    /\ size \in Copy!Sizes /\ start \in Copy!Sizes /\ pos \in 0 .. size
    /\ dst \in Copy!Files

Copying == pc = "copy" <=> phase = "copying"

\* The first pos blocks have arrived, and nothing else.
Arrived ==
    \A i \in Copy!Positions : dst[i] = IF i <= pos THEN i ELSE Copy!Absent

Received ==
    /\ pc \in {"copy", "pager"} => Arrived
    /\ pc = "pager" => pos = size

IInv ==
    /\ ControlOK /\ Counts /\ SourceOpen /\ CopyOK /\ Copying /\ Received

-----------------------------------------------------------------------------
LEMMA InitIInv == Init => IInv
<1> SUFFICES ASSUME Init PROVE IInv
  OBVIOUS
<1> USE PageAssumption DEF Init, Copy!Init
<1>1. ControlOK /\ SourceOpen /\ Copying
  BY DEF ControlOK, SourceOpen, Copying
<1>4. Counts
  BY DEF Counts
<1>2. CopyOK
  BY DEF CopyOK, Copy!Sizes, Copy!Files, Copy!OldFile, Copy!Absent, Copy!Old,
         Copy!Positions
<1>3. Received
  BY DEF Received
<1> QED  BY <1>1, <1>2, <1>3, <1>4 DEF IInv

-----------------------------------------------------------------------------
(* What is open and what is in the directory. *)

LEMMA ControlStep == IInv /\ Next => (ControlOK /\ SourceOpen /\ Copying)'
<1> SUFFICES ASSUME IInv, Next PROVE (ControlOK /\ SourceOpen /\ Copying)'
  OBVIOUS
<1> USE DEF IInv, ControlOK, SourceOpen, Copying, copy
<1>1. CASE MakeTemp
  BY <1>1 DEF MakeTemp
<1>2. CASE Open
  BY <1>2 DEF Open
<1>3. CASE Stat
  BY <1>3 DEF Stat, Copy!Begin, AfterStatFails
<1>4. CASE CopySome
  BY <1>4 DEF CopySome, Copy!Move
<1>5. CASE CopyEnds
  BY <1>5 DEF CopyEnds, Copy!Finish, Copy!Abort, AfterCopy
<1>6. CASE Pager
  BY <1>6 DEF Pager
<1>7. CASE Unlink
  BY <1>7 DEF Unlink
<1>8. CASE Interrupt
  BY <1>8 DEF Interrupt
<1> QED  BY <1>1, <1>2, <1>3, <1>4, <1>5, <1>6, <1>7, <1>8 DEF Next

LEMMA CountsStep == IInv /\ Next => Counts'
<1> SUFFICES ASSUME IInv, Next PROVE Counts'
  OBVIOUS
<1> USE PageAssumption DEF IInv, Counts
<1>1. CASE MakeTemp
  BY <1>1 DEF MakeTemp
<1>2. CASE Open
  BY <1>2 DEF Open
<1>3. CASE Stat
  BY <1>3 DEF Stat
<1>4. CASE CopySome
  BY <1>4 DEF CopySome
<1>5. CASE CopyEnds
  BY <1>5 DEF CopyEnds, AfterCopy
<1>6. CASE Pager
  BY <1>6 DEF Pager
<1>7. CASE Unlink
  BY <1>7 DEF Unlink
<1>8. CASE Interrupt
  BY <1>8 DEF Interrupt
<1> QED  BY <1>1, <1>2, <1>3, <1>4, <1>5, <1>6, <1>7, <1>8 DEF Next

-----------------------------------------------------------------------------
(* What has arrived. *)

\* A step of the copy stores the next blocks of the source behind the others.
LEMMA MoveKeeps ==
    ASSUME CopyOK, Arrived, NEW k \in Copy!Positions, Copy!Move(k)
    PROVE  CopyOK' /\ Arrived'
<1> USE PageAssumption
<1>1. /\ size' = size /\ start' = start
      /\ pos \in Nat /\ size \in Nat /\ k \in Nat /\ size <= MaxSize
      /\ pos' = pos + k /\ pos + k <= size
  BY DEF CopyOK, Copy!Move, Copy!Positions, Copy!Sizes
<1>2. dst' = [i \in Copy!Positions |-> IF i \in pos + 1 .. pos + k
                                       THEN pos + (i - pos) ELSE dst[i]]
  BY DEF Copy!Move, Copy!Stored
<1>3. \A i \in Copy!Positions :
         dst'[i] = IF i <= pos + k THEN i ELSE Copy!Absent
  BY <1>1, <1>2 DEF Arrived, Copy!Positions
<1>4. dst' \in Copy!Files
  BY <1>1, <1>2, <1>3 DEF Copy!Files, Copy!Positions, Copy!Absent
<1> QED  BY <1>1, <1>3, <1>4 DEF CopyOK, Arrived

\* A copy begins with an empty file, none of which is kept.
LEMMA BeginEmpty ==
    ASSUME Copy!Begin, dst' = Copy!OldFile(0)
    PROVE  CopyOK' /\ Arrived' /\ pos' = 0
<1> USE PageAssumption
<1>1. PICK len \in Copy!Sizes : \E n \in 0 .. len : \E o \in 0 .. n :
         size' = len /\ start' = o /\ pos' = o /\ dst' = Copy!OldFile(n)
  BY DEF Copy!Begin
<1>2. PICK n \in 0 .. len : \E o \in 0 .. n :
         size' = len /\ start' = o /\ pos' = o /\ dst' = Copy!OldFile(n)
  BY <1>1
<1>3. PICK o \in 0 .. n :
         size' = len /\ start' = o /\ pos' = o /\ dst' = Copy!OldFile(n)
  BY <1>2
<1>4. n = 0
  <2>1. SUFFICES ASSUME n # 0 PROVE FALSE
    OBVIOUS
  <2>2. 1 \in Copy!Positions /\ 1 <= n
    BY <1>1, <1>2, <2>1 DEF Copy!Positions, Copy!Sizes
  <2>3. Copy!OldFile(n)[1] = Copy!Old
         /\ Copy!OldFile(0)[1] = Copy!Absent
    BY <2>2 DEF Copy!OldFile, Copy!Old, Copy!Absent
  <2> QED  BY <1>3, <2>3 DEF Copy!Old, Copy!Absent
<1>5. pos' = 0 /\ start' = 0 /\ size' = len /\ len \in Copy!Sizes /\ 0 \in Copy!Sizes
  BY <1>1, <1>3, <1>4 DEF Copy!Sizes
<1>6. dst' = [i \in Copy!Positions |-> IF i <= 0 THEN Copy!Old ELSE Copy!Absent]
  BY DEF Copy!OldFile
<1>7. dst' \in Copy!Files
  BY <1>6 DEF Copy!Files, Copy!Old, Copy!Absent
<1>8. \A i \in Copy!Positions : dst'[i] = Copy!Absent /\ ~(i <= 0)
  BY <1>6 DEF Copy!Positions
<1>9. 0 \in 0 .. len
  BY <1>1 DEF Copy!Sizes
<1> QED  BY <1>5, <1>7, <1>8, <1>9 DEF CopyOK, Arrived

LEMMA ReceivedStep == IInv /\ Next => (CopyOK /\ Received)'
<1> SUFFICES ASSUME IInv, Next PROVE (CopyOK /\ Received)'
  OBVIOUS
<1> USE DEF Received
<1>0. CopyOK /\ Received /\ Copying
  BY DEF IInv
<1>1. CASE Stat
  <2>1. CASE UNCHANGED copy /\ pc' = "discard"
    BY <1>0, <2>1 DEF copy, CopyOK
  <2>2. CASE Copy!Begin /\ dst' = Copy!OldFile(0) /\ pc' = "copy"
    BY <2>2, BeginEmpty
  <2> QED  BY <1>1, <2>1, <2>2 DEF Stat
<1>2. CASE CopySome
  <2>1. pc = "copy" /\ pc' = "copy"
    BY <1>2 DEF CopySome
  <2>2. PICK k \in Copy!Positions : Copy!Move(k)
    BY <1>2 DEF CopySome
  <2> QED  BY <1>0, <2>1, <2>2, MoveKeeps
<1>3. CASE CopyEnds
  <2>1. pc = "copy" /\ UNCHANGED <<size, start, pos, dst>>
    BY <1>3 DEF CopyEnds, Copy!Finish, Copy!Abort
  <2>2. pc' = "discard" \/ (pc' = "pager" /\ pos = size)
    BY <1>3 DEF CopyEnds, Copy!Finish, Copy!Abort, AfterCopy
  <2> QED  BY <1>0, <2>1, <2>2 DEF CopyOK, Arrived
<1>4. CASE MakeTemp \/ Open \/ Pager \/ Unlink \/ Interrupt
  <2>1. UNCHANGED <<size, start, pos, dst>>
    BY <1>4 DEF MakeTemp, Open, Pager, Unlink, Interrupt, copy
  <2>2. pc' \in {"copy", "pager"} => pc' = pc
    BY <1>4 DEF MakeTemp, Open, Pager, Unlink, Interrupt
  <2> QED  BY <1>0, <2>1, <2>2 DEF CopyOK, Arrived
<1> QED  BY <1>1, <1>2, <1>3, <1>4 DEF Next

-----------------------------------------------------------------------------
LEMMA StepIInv == IInv /\ [Next]_vars => IInv'
<1>1. ASSUME IInv, Next PROVE IInv'
  BY <1>1, ControlStep, CountsStep, ReceivedStep DEF IInv
<1>2. ASSUME IInv, UNCHANGED vars PROVE IInv'
  BY <1>2 DEF vars, copy, IInv, ControlOK, Counts, SourceOpen, CopyOK, Copying,
     Received, Arrived
<1> QED  BY <1>1, <1>2

\* The inductive invariant holds of every behaviour of page.
THEOREM Invariance == Spec => []IInv
  BY InitIInv, StepIInv, PTL DEF Spec

\* The variables of page keep to their ranges; in particular a descriptor is
\* only closed, and a file only removed, that is there.
THEOREM TypeCorrect == Spec => []TypeOK
<1>1. IInv => TypeOK
  <2> SUFFICES ASSUME IInv PROVE TypeOK
    OBVIOUS
  <2> USE PageAssumption DEF IInv
  <2>1. left \in 0 .. temps
    BY DEF Counts
  <2>2. pos \in Copy!Sizes
    BY DEF CopyOK, Copy!Sizes
  <2>3. Copy!TypeOK
    BY <2>2 DEF Copy!TypeOK, ControlOK, CopyOK
  <2>4. fds \in 0 .. MaxFds /\ temps \in 0 .. MaxTemps
    BY DEF Counts
  <2> QED  BY <2>1, <2>3, <2>4 DEF TypeOK, ControlOK
<1> QED  BY Invariance, <1>1, PTL

(***************************************************************************)
(* The pager is started on the whole file or not at all, whatever fails    *)
(* and whenever SIGINT arrives (cmds.c:747-758).                           *)
(***************************************************************************)
THEOREM WholeFile == Spec => []WholeFileShown
<1>1. IInv => WholeFileShown
  BY DEF IInv, Received, Arrived, WholeFileShown
<1> QED  BY Invariance, <1>1, PTL

\* After every command the remote file is closed and the temporary file gone,
\* unless it cannot be removed (transfer.c:83-106, cmds.c:748, 760).
THEOREM Cleaned == Spec => []NothingLeft
<1>1. IInv => NothingLeft
  <2> SUFFICES ASSUME IInv, pc = "prompt" PROVE temps = left /\ source = FALSE
    BY DEF NothingLeft
  <2>1. temps = left
    BY DEF IInv, Counts
  <2>2. source = FALSE
    BY DEF IInv, ControlOK, SourceOpen
  <2> QED  BY <2>1, <2>2
<1> QED  BY Invariance, <1>1, PTL
=============================================================================
