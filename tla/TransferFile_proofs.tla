------------------------- MODULE TransferFile_proofs -------------------------
(***************************************************************************)
(* Theorems about TransferFile, for files of any size and any rollback:    *)
(* consent, what a resume keeps, what it repairs, and the handles.         *)
(***************************************************************************)
EXTENDS TransferFile, TLAPS

-----------------------------------------------------------------------------
(***************************************************************************)
(* The inductive invariant, in parts.  Both handles of a copy exist only   *)
(* in states "source" (the destination's) and "copy".                      *)
(***************************************************************************)
Holding == pc \in {"source", "copy"}

\* What the user allowed follows from the mode, and nothing that exists is
\* opened without it.
Consent ==
    /\ granted = IF mode \in {"resume", "overwrite"} THEN mode ELSE "none"
    /\ pc = "reopen" => mode = "resume"
    /\ Holding => made \/ granted # "none"

\* What samblah has open is there, or is lost, and then what is there instead
\* is somebody else's; a success is forgotten when somebody removes the file.
Kept ==
    /\ Holding => there \/ lost
    /\ result = "ok" => pc = "idle" /\ (there \/ lost)
    /\ lost => pc \in {"idle", "source", "copy"}
    /\ lost /\ ours => ~there

\* The destination can only be swapped before it is opened again, and is
\* somebody else's then.
Swapped ==
    /\ swapped => pc \in {"idle", "reopen", "source", "copy"}
    /\ swapped /\ ((pc = "reopen" /\ there) \/ (Holding /\ ~lost)) => ~ours

Ends(f, n) ==
    /\ n \in Sizes
    /\ \A i \in Positions : i <= n <=> f[i] # FC!Absent

\* A file has no holes.
Contiguous == Ends(dst, Length(dst))

\* The block after which the copy goes on.
At == IF pc = "copy" THEN pos ELSE offset

Places ==
    /\ pc \in {"open", "stat", "ask", "reopen"} => offset = 0
    /\ pc = "reopen" => dlen < ssize
    /\ Holding => offset <= At /\ At <= ssize
    /\ Holding /\ mode = "resume" /\ ~made => offset >= dlen - Rollback

\* The destination is what stat saw, and no longer than the source.
Lengths ==
    /\ pc = "reopen" /\ ~swapped => there /\ dlen = Length(dst)
    /\ Holding /\ ~lost /\ (~swapped \/ At > offset) => At <= Length(dst)
    /\ Holding /\ ~lost /\ ~swapped => Length(dst) <= ssize
    /\ result = "ok" /\ ~lost /\ ~swapped => Length(dst) = ssize
    /\ ~there => Length(dst) = 0

\* Of a file that only samblah wrote, at most the last Rollback blocks are not
\* the source's; while it is copied, the first At blocks are.
Sound ==
    ours =>
      /\ Length(dst) <= ssize
      /\ ~Holding => \A i \in Positions : i <= Length(dst) - Rollback => dst[i] = i
      /\ Holding /\ ~lost => \A i \in Positions : i <= At => dst[i] = i
      /\ Holding /\ ~lost => Length(dst) <= At \/ Length(dst) <= offset + Rollback
      /\ result = "ok" /\ ~lost => \A i \in Positions : i <= ssize => dst[i] = i

IInv ==
    /\ TypeOK /\ Consent /\ Kept /\ Swapped /\ Contiguous /\ Places /\ Lengths
    /\ Sound

\* For get: which handles are open in which state.
Handles ==
    open = IF pc = "source" THEN {"dst"}
           ELSE IF pc = "copy" THEN {"src", "dst"} ELSE {}

-----------------------------------------------------------------------------
(* Lengths of files. *)

\* A file has one length, and Length finds it.
LEMMA LengthIs ==
    ASSUME NEW f, NEW n \in Sizes, \A i \in Positions : i <= n <=> f[i] # FC!Absent
    PROVE  Length(f) = n
<1> USE TransferAssumption DEF Positions, Sizes
<1> DEFINE Q(m) == \A i \in Positions : i <= m <=> f[i] # FC!Absent
<1>1. ASSUME NEW m \in Sizes, Q(m) PROVE m = n
  <2>1. ASSUME m < n PROVE FALSE
    <3>1. m + 1 \in Positions /\ m + 1 <= n /\ ~(m + 1 <= m)
      BY <2>1
    <3> QED  BY <1>1, <3>1
  <2>2. ASSUME n < m PROVE FALSE
    <3>1. n + 1 \in Positions /\ n + 1 <= m /\ ~(n + 1 <= n)
      BY <2>2
    <3> QED  BY <1>1, <3>1
  <2> QED  BY <2>1, <2>2, <1>1
<1>2. Length(f) = CHOOSE m \in Sizes : Q(m)
  BY DEF Length
<1> HIDE DEF Q
<1>3. Q(n)
  BY DEF Q
<1>4. (CHOOSE m \in Sizes : Q(m)) \in Sizes /\ Q(CHOOSE m \in Sizes : Q(m))
  BY <1>3
<1> QED  BY <1>1, <1>2, <1>4

\* n blocks of anything make a file of n blocks.
LEMMA OldFileEnds ==
    ASSUME NEW n \in Sizes
    PROVE  FC!OldFile(n) \in FC!Files /\ Length(FC!OldFile(n)) = n /\ Ends(FC!OldFile(n), n)
<1>1. /\ FC!OldFile(n) \in FC!Files
      /\ \A i \in Positions : i <= n <=> FC!OldFile(n)[i] # FC!Absent
  BY DEF FC!OldFile, FC!Files, FC!Old, FC!Absent, FC!Positions, Positions
<1> QED  BY <1>1, LengthIs DEF Ends

-----------------------------------------------------------------------------
(* Every action keeps the invariant.  First those that leave the file.     *)

LEMMA InitIInv == Init => IInv
<1> SUFFICES ASSUME Init PROVE IInv
  OBVIOUS
<1> USE TransferAssumption DEF Init
<1>1. 0 \in Sizes
  BY DEF Sizes
<1>2. dst \in FC!Files /\ Length(dst) = 0 /\ Contiguous
  BY <1>1, OldFileEnds DEF Contiguous
<1>3. TypeOK
  BY <1>1, <1>2 DEF TypeOK, Exists
<1>4. Consent /\ Kept /\ Swapped /\ Places /\ Lengths /\ ~Holding
  BY <1>2 DEF Consent, Kept, Swapped, Places, Lengths, Holding
<1>5. Sound
  BY <1>2, <1>4 DEF Sound, Positions, Sizes
<1> QED  BY <1>2, <1>3, <1>4, <1>5 DEF IInv

\* What the invariant needs of a step that changes neither the file nor
\* whose it is.
LEMMA FileStays ==
    ASSUME IInv, UNCHANGED <<ssize, disk>>
    PROVE  /\ Length(dst)' = Length(dst) /\ Length(dst) \in Sizes
           /\ ssize' \in Sizes /\ dst' \in FC!Files /\ (dst \in FC!Files)'
           /\ there' \in BOOLEAN /\ ours' \in BOOLEAN
           /\ ours' = ours /\ there' = there /\ ssize' = ssize /\ dst' = dst
           /\ Contiguous'
<1> QED  BY DEF IInv, TypeOK, disk, Contiguous, Ends, Length, FC!Files

(***************************************************************************)
(* The ranges of the variables other than the file and the places in it.   *)
(***************************************************************************)
Ranges ==
    /\ pc \in {"idle", "open", "stat", "ask", "reopen", "source", "copy"}
    /\ intr \in BOOLEAN /\ mode \in Exists /\ ssize \in Sizes
    /\ there \in BOOLEAN
    /\ open \in SUBSET {"src", "dst"}
    /\ result \in {"none", "ok", "failed", "kept"}
    /\ granted \in {"none", "resume", "overwrite"}
    /\ made \in BOOLEAN /\ ours \in BOOLEAN
    /\ swapped \in BOOLEAN /\ lost \in BOOLEAN

LEMMA RangesStep == IInv /\ Next => Ranges'
<1> SUFFICES ASSUME IInv, Next PROVE Ranges'
  OBVIOUS
<1>0. Ranges
  BY DEF IInv, TypeOK, Ranges
<1> USE DEF Ranges, disk, told, place, Go, GiveUp
<1>1. CASE Command
  BY <1>0, <1>1 DEF Command, Exists
<1>2. CASE OpenDestination
  BY <1>0, <1>2 DEF OpenDestination
<1>3. CASE DestinationExists
  BY <1>0, <1>3 DEF DestinationExists
<1>4. CASE OpenFails
  BY <1>0, <1>4 DEF OpenFails
<1>5. CASE Stat
  BY <1>0, <1>5 DEF Stat
<1>6. CASE Answer
  BY <1>0, <1>6 DEF Answer, Exists
<1>7. CASE NoAnswer
  BY <1>0, <1>7 DEF NoAnswer
<1>8. CASE Reopen
  BY <1>0, <1>8 DEF Reopen, HandlesLeft
<1>9. CASE OpenSource
  BY <1>0, <1>9 DEF OpenSource
<1>10. CASE SourceFails
  BY <1>0, <1>10 DEF SourceFails
<1>11. CASE CopyBlocks
  BY <1>0, <1>11 DEF CopyBlocks, FC!Move
<1>12. CASE CopyBeyondEnd
  BY <1>0, <1>12 DEF CopyBeyondEnd
<1>13. CASE CopyEnds
  BY <1>0, <1>13 DEF CopyEnds, FC!Finish
<1>14. CASE CopyFails
  BY <1>0, <1>14 DEF CopyFails
<1>15. CASE Interrupt
  BY <1>0, <1>15 DEF Interrupt
<1>16. CASE OtherCreates
  BY <1>0, <1>16 DEF OtherCreates
<1>18. CASE CopyUnseen
  BY <1>0, <1>18 DEF CopyUnseen
<1>17. CASE OtherRemoves
  <2>1. swapped' \in BOOLEAN /\ lost' \in BOOLEAN
    BY <1>17 DEF OtherRemoves
  <2>2. result' = "none" \/ result' = result
    BY <1>17 DEF OtherRemoves
  <2>3. /\ UNCHANGED <<pc, intr, ssize, mode, granted, open, made>>
        /\ there' = FALSE /\ ours' = TRUE
    BY <1>17 DEF OtherRemoves
  <2> QED  BY <1>0, <2>1, <2>2, <2>3
<1> QED  BY <1>1, <1>2, <1>3, <1>4, <1>5, <1>6, <1>7, <1>8, <1>9, <1>10, <1>11,
            <1>12, <1>13, <1>14, <1>15, <1>16, <1>17, <1>18 DEF Next, Transfer

(* Who may change the file, and who has it open. *)

LEMMA ConsentStep == IInv /\ Next => (Consent /\ Kept /\ Swapped)'
<1> SUFFICES ASSUME IInv, Next PROVE (Consent /\ Kept /\ Swapped)'
  OBVIOUS
<1>0. Ranges /\ Consent /\ Kept /\ Swapped
  BY DEF IInv, TypeOK, Ranges
<1> USE DEF Ranges, Consent, Kept, Swapped, Holding, disk, told, place, Go, GiveUp
<1>1. CASE Command
  BY <1>0, <1>1 DEF Command
<1>2. CASE OpenDestination
  BY <1>0, <1>2 DEF OpenDestination, Exclusive, Truncating
<1>3. CASE DestinationExists
  <2>1. /\ pc' \in {"idle", "stat"}
        /\ UNCHANGED <<mode, granted, swapped, lost, made, there, ours>>
    BY <1>3 DEF DestinationExists
  <2>2. result' = "kept" \/ result' = result
    BY <1>3 DEF DestinationExists
  <2>3. pc = "open" /\ ~swapped /\ ~lost
    BY <1>0, <1>3 DEF DestinationExists
  <2> QED  BY <1>0, <2>1, <2>2, <2>3
<1>4. CASE OpenFails
  BY <1>0, <1>4 DEF OpenFails
<1>5. CASE Stat
  BY <1>0, <1>5 DEF Stat
<1>6. CASE Answer
  BY <1>0, <1>6 DEF Answer
<1>7. CASE NoAnswer
  BY <1>0, <1>7 DEF NoAnswer
<1>8. CASE Reopen
  BY <1>0, <1>8 DEF Reopen
<1>9. CASE OpenSource
  BY <1>0, <1>9 DEF OpenSource
<1>10. CASE SourceFails
  BY <1>0, <1>10 DEF SourceFails
<1>11. CASE CopyBlocks
  BY <1>0, <1>11 DEF CopyBlocks, FC!Move
<1>12. CASE CopyBeyondEnd
  BY <1>0, <1>12 DEF CopyBeyondEnd
<1>13. CASE CopyEnds
  BY <1>0, <1>13 DEF CopyEnds, FC!Finish
<1>14. CASE CopyFails
  BY <1>0, <1>14 DEF CopyFails
<1>15. CASE Interrupt
  BY <1>0, <1>15 DEF Interrupt
<1>16. CASE OtherCreates
  BY <1>0, <1>16 DEF OtherCreates
<1>18. CASE CopyUnseen
  BY <1>0, <1>18 DEF CopyUnseen
<1>17. CASE OtherRemoves
  BY <1>0, <1>17 DEF OtherRemoves
<1> QED  BY <1>1, <1>2, <1>3, <1>4, <1>5, <1>6, <1>7, <1>8, <1>9, <1>10, <1>11,
            <1>12, <1>13, <1>14, <1>15, <1>16, <1>17, <1>18 DEF Next, Transfer

-----------------------------------------------------------------------------
(* Where the copy stands. *)

InFile == dlen \in Sizes /\ offset \in Sizes /\ pos \in Sizes

LEMMA PlacesStep == IInv /\ Next => (InFile /\ Places)'
<1> SUFFICES ASSUME IInv, Next PROVE (InFile /\ Places)'
  OBVIOUS
<1>0. /\ Ranges /\ InFile /\ Places /\ Consent
      /\ Length(dst) \in Sizes
  BY DEF IInv, TypeOK, Ranges, InFile, Contiguous, Ends
<1> USE TransferAssumption
    DEF Ranges, InFile, Places, At, Sizes, Holding, disk, told, place, Go, GiveUp
<1>1. CASE Command
  BY <1>0, <1>1 DEF Command
<1>2. CASE OpenDestination
  <2>1. /\ pc = "open" /\ pc' = "source"
        /\ UNCHANGED <<mode, dlen, offset, pos, ssize>>
    BY <1>2 DEF OpenDestination
  <2>2. made' = TRUE \/ mode = "overwrite"
    BY <1>0, <1>2 DEF OpenDestination, Exclusive
  <2>3. offset' = 0
    BY <1>0, <2>1
  <2> QED  BY <1>0, <2>1, <2>2, <2>3
<1>3. CASE DestinationExists
  BY <1>0, <1>3 DEF DestinationExists, Exclusive
<1>4. CASE OpenFails
  BY <1>0, <1>4 DEF OpenFails
<1>5. CASE Stat
  BY <1>0, <1>5 DEF Stat, TooLarge
<1>6. CASE Answer
  BY <1>0, <1>6 DEF Answer
<1>7. CASE NoAnswer
  BY <1>0, <1>7 DEF NoAnswer
<1>8. CASE Reopen
  BY <1>0, <1>8 DEF Reopen, ResumeAt, Larger
<1>9. CASE OpenSource
  BY <1>0, <1>9 DEF OpenSource
<1>10. CASE SourceFails
  BY <1>0, <1>10 DEF SourceFails
<1>11. CASE CopyBlocks
  BY <1>0, <1>11 DEF CopyBlocks, FC!Move, FC!Positions, Positions
<1>12. CASE CopyBeyondEnd
  BY <1>0, <1>12 DEF CopyBeyondEnd, Positions
<1>13. CASE CopyEnds
  BY <1>0, <1>13 DEF CopyEnds, FC!Finish
<1>14. CASE CopyFails
  BY <1>0, <1>14 DEF CopyFails
<1>15. CASE Interrupt
  BY <1>0, <1>15 DEF Interrupt
<1>16. CASE OtherCreates
  BY <1>0, <1>16 DEF OtherCreates
<1>18. CASE CopyUnseen
  BY <1>0, <1>18 DEF CopyUnseen
<1>17. CASE OtherRemoves
  BY <1>0, <1>17 DEF OtherRemoves
<1> QED  BY <1>1, <1>2, <1>3, <1>4, <1>5, <1>6, <1>7, <1>8, <1>9, <1>10, <1>11,
            <1>12, <1>13, <1>14, <1>15, <1>16, <1>17, <1>18 DEF Next, Transfer

-----------------------------------------------------------------------------
(* The contents of the file.  First the steps that leave it as it is. *)

FileOK == dst \in FC!Files /\ Contiguous /\ Lengths /\ Sound

Looking ==
    \/ Command \/ DestinationExists \/ OpenFails \/ Stat \/ Answer \/ NoAnswer
    \/ Reopen \/ OpenSource \/ SourceFails \/ CopyUnseen \/ CopyEnds \/ Interrupt

LEMMA LookingKeeps == IInv /\ Looking => FileOK'
<1> SUFFICES ASSUME IInv, Looking PROVE FileOK'
  OBVIOUS
<1>a. UNCHANGED <<ssize, disk>>
  BY DEF Looking, Command, DestinationExists, OpenFails, Stat, Answer, NoAnswer,
     Reopen, OpenSource, SourceFails, CopyUnseen, CopyEnds, Interrupt, GiveUp, disk,
     FC!Finish
<1>b. /\ Length(dst)' = Length(dst) /\ Length(dst) \in Sizes
      /\ ours' = ours /\ there' = there /\ ssize' = ssize /\ dst' = dst
      /\ Contiguous' /\ dst' \in FC!Files
  BY <1>a, FileStays
<1>c. /\ Ranges /\ InFile /\ Consent /\ Kept /\ Swapped /\ Places
      /\ Lengths /\ Sound
  BY DEF IInv, TypeOK, Ranges, InFile
<1> SUFFICES Lengths' /\ Sound'
  BY <1>b DEF FileOK
<1> USE TransferAssumption
    DEF Ranges, InFile, Consent, Kept, Swapped, Places, Lengths, Sound, At, Sizes,
        Positions, Holding, told, place, Go, GiveUp
<1>1. CASE Command
  BY <1>b, <1>c, <1>1 DEF Command
<1>2. CASE DestinationExists
  BY <1>b, <1>c, <1>2 DEF DestinationExists, Exclusive
<1>3. CASE OpenFails
  BY <1>b, <1>c, <1>3 DEF OpenFails
<1>4. CASE Stat
  BY <1>b, <1>c, <1>4 DEF Stat, TooLarge
<1>5. CASE Answer
  BY <1>b, <1>c, <1>5 DEF Answer
<1>6. CASE NoAnswer
  BY <1>b, <1>c, <1>6 DEF NoAnswer
<1>7. CASE Reopen
  BY <1>b, <1>c, <1>7 DEF Reopen, ResumeAt, Larger
<1>8. CASE OpenSource
  BY <1>b, <1>c, <1>8 DEF OpenSource
<1>9. CASE SourceFails
  BY <1>b, <1>c, <1>9 DEF SourceFails
<1>10. CASE CopyEnds
  BY <1>b, <1>c, <1>10 DEF CopyEnds, FC!Finish
<1>11. CASE Interrupt
  BY <1>b, <1>c, <1>11 DEF Interrupt
<1>12. CASE CopyUnseen
  BY <1>b, <1>c, <1>12 DEF CopyUnseen
<1> QED  BY <1>1, <1>2, <1>3, <1>4, <1>5, <1>6, <1>7, <1>8, <1>9, <1>10, <1>11, <1>12
            DEF Looking

-----------------------------------------------------------------------------
(* What becomes of a file that is written to. *)

\* k blocks stored at a place in the file, or at its end.
LEMMA StoredEnds ==
    ASSUME NEW f \in FC!Files, NEW n, Ends(f, n), NEW at \in Sizes, at <= n,
           NEW k \in Positions, at + k <= MaxSize
    PROVE  LET g == FC!Stored(f, at, at, k) IN
           /\ g \in FC!Files
           /\ Ends(g, Larger(n, at + k)) /\ Length(g) = Larger(n, at + k)
           /\ \A i \in Positions : at < i /\ i <= at + k => g[i] = i
           /\ \A i \in Positions : ~(at < i /\ i <= at + k) => g[i] = f[i]
<1> DEFINE g == FC!Stored(f, at, at, k)
<1>1. /\ g = [i \in Positions |-> IF i \in at+1 .. at+k THEN at + (i - at) ELSE f[i]]
      /\ FC!Files = [Positions -> {-1, 0} \cup Positions]
      /\ FC!Absent = 0
  BY DEF FC!Stored, FC!Files, FC!Positions, Positions, FC!Old, FC!Absent
<1> HIDE DEF g
<1> USE TransferAssumption DEF Positions, Sizes, Larger, Ends
<1>2. /\ \A i \in Positions : at < i /\ i <= at + k => g[i] = i
      /\ \A i \in Positions : ~(at < i /\ i <= at + k) => g[i] = f[i]
  BY <1>1
<1>3. g \in FC!Files
  <2>1. \A i \in Positions : g[i] \in {-1, 0} \cup Positions
    BY <1>1, <1>2
  <2> QED  BY <1>1, <2>1
<1>4. Larger(n, at + k) \in Sizes
  OBVIOUS
<1>5. \A i \in Positions : i <= Larger(n, at + k) <=> g[i] # FC!Absent
  BY <1>1, <1>2
<1> QED  BY <1>2, <1>3, <1>4, <1>5, LengthIs DEF g

\* The same behind the end of the file, after the hole was filled.
LEMMA FilledEnds ==
    ASSUME NEW f \in FC!Files, NEW n, Ends(f, n), NEW at \in Sizes, n < at
    PROVE  LET g == [i \in Positions |-> IF i <= at /\ f[i] = FC!Absent
                                         THEN FC!Old ELSE f[i]] IN
           g \in FC!Files /\ Ends(g, at)
<1> USE TransferAssumption DEF Positions, Sizes, Ends
<1> QED  BY DEF FC!Files, FC!Positions, FC!Old, FC!Absent

\* Some of the file's blocks are damaged.
LEMMA DamagedEnds ==
    ASSUME NEW f \in FC!Files, NEW n, Ends(f, n), NEW bad,
           \A i \in bad : i \in Positions /\ i <= n
    PROVE  LET g == [i \in Positions |-> IF i \in bad THEN FC!Old ELSE f[i]] IN
           g \in FC!Files /\ Ends(g, n) /\ Length(g) = n
<1> DEFINE g == [i \in Positions |-> IF i \in bad THEN FC!Old ELSE f[i]]
<1>1. g \in FC!Files
  BY DEF FC!Files, FC!Positions, Positions, FC!Old, FC!Absent
<1>2. \A i \in Positions : i <= n <=> g[i] # FC!Absent
  BY DEF Ends, FC!Old, FC!Absent
<1> QED  BY <1>1, <1>2, LengthIs DEF Ends

-----------------------------------------------------------------------------
(* The steps that write. *)

Writing == OpenDestination \/ CopyBlocks \/ CopyBeyondEnd \/ CopyFails
           \/ OtherCreates \/ OtherRemoves

LEMMA WritingKeeps == IInv /\ Writing => FileOK'
<1> SUFFICES ASSUME IInv, Writing PROVE FileOK'
  OBVIOUS
<1> DEFINE n == Length(dst)
<1>0. /\ Ranges /\ InFile /\ Consent /\ Kept /\ Swapped /\ Places
      /\ Lengths /\ Sound
      /\ dst \in FC!Files /\ Ends(dst, n) /\ n \in Sizes
  BY DEF IInv, TypeOK, Ranges, InFile, Contiguous, Ends
<1>00. Length(dst)' = Length(dst')
  BY DEF Length
<1>01. \A m : Ends(dst', m) /\ Length(dst') = m => Contiguous'
  BY <1>00 DEF Contiguous, Ends
<1>02. 0 \in Sizes
  BY TransferAssumption DEF Sizes
<1>1. CASE OpenDestination
  <2>1. CASE there /\ mode # "overwrite"
    BY <1>1, <2>1 DEF OpenDestination, Exclusive
  <2>2. CASE ~(there /\ mode # "overwrite")
    <3>1. /\ dst' = FC!OldFile(0) /\ pc = "open" /\ pc' = "source"
          /\ there' = TRUE /\ UNCHANGED <<offset, swapped, lost, result, ssize>>
      <4>1. dst' = FC!OldFile(0)
        BY <1>1, <2>2, Zenon DEF OpenDestination, Truncating
      <4> QED  BY <1>1, <4>1 DEF OpenDestination, Go, told, place
    <3>2. dst' \in FC!Files /\ Length(dst') = 0 /\ Contiguous'
      BY <1>01, <1>02, <3>1, OldFileEnds
    <3>3. Lengths'
      BY <1>0, <1>00, <3>1, <3>2
         DEF Lengths, Places, Kept, Holding, At, Ranges, Sizes, InFile
    <3>4. Sound'
      BY TransferAssumption, <1>0, <1>00, <3>1, <3>2
         DEF Sound, Places, Kept, Holding, At, Ranges, Sizes, InFile, Positions
    <3> QED  BY <3>2, <3>3, <3>4 DEF FileOK
  <2> QED  BY <2>1, <2>2
<1>2. CASE CopyBlocks
  <2>1. PICK k \in Positions :
           /\ pos + k <= ssize /\ dst' = FC!Stored(dst, pos, pos, k) /\ pos' = pos + k
           /\ pc = "copy" /\ pc' = "copy" /\ result' = result /\ ssize' = ssize
           /\ pos <= n /\ ~lost /\ UNCHANGED <<there, ours, offset, swapped, lost>>
    BY <1>2 DEF CopyBlocks, FC!Move, told, FC!Positions, Positions
  <2>2. /\ dst' \in FC!Files
        /\ Length(dst') = Larger(n, pos + k) /\ Ends(dst', Larger(n, pos + k))
        /\ \A i \in Positions : pos < i /\ i <= pos + k => dst'[i] = i
        /\ \A i \in Positions : ~(pos < i /\ i <= pos + k) => dst'[i] = dst[i]
    <3>1. pos \in Sizes /\ pos + k <= MaxSize
      BY TransferAssumption, <1>0, <2>1 DEF InFile, Ranges, Sizes, Positions
    <3> QED  BY <1>0, <2>1, <3>1, StoredEnds
  <2>3. Lengths'
    BY TransferAssumption, <1>0, <1>00, <2>1, <2>2
       DEF Lengths, Places, Kept, Holding, At, Ranges, Sizes, InFile, Positions, Larger
  <2>4. Sound'
    BY TransferAssumption, <1>0, <1>00, <2>1, <2>2
       DEF Sound, Swapped, Lengths, Places, Kept, Holding, At, Ranges, Sizes, InFile,
           Positions, Larger
  <2> QED  BY <1>01, <2>2, <2>3, <2>4 DEF FileOK
<1>3. CASE CopyBeyondEnd
  <2> DEFINE filled == [i \in Positions |-> IF i <= pos /\ dst[i] = FC!Absent
                                            THEN FC!Old ELSE dst[i]]
  <2>1. PICK k \in Positions :
           /\ pos + k <= ssize /\ dst' = FC!Stored(filled, pos, pos, k) /\ pos' = pos + k
           /\ pc = "copy" /\ pc' = "copy" /\ result' = result /\ ssize' = ssize
           /\ pos > n /\ ~lost /\ UNCHANGED <<there, ours, offset, swapped, lost>>
    BY <1>3 DEF CopyBeyondEnd, told
  <2>2. swapped = TRUE /\ ours = FALSE
    BY TransferAssumption, <1>0, <2>1
       DEF Lengths, Swapped, Holding, At, Sizes, InFile, Ranges
  <2>3. pos \in Sizes /\ n < pos /\ pos <= pos /\ pos + k <= MaxSize
    BY TransferAssumption, <1>0, <2>1 DEF InFile, Ranges, Sizes, Positions
  <2>4. filled \in FC!Files /\ Ends(filled, pos)
    BY <1>0, <2>3, FilledEnds
  <2> HIDE DEF filled
  <2>5. /\ dst' \in FC!Files
        /\ Length(dst') = Larger(pos, pos + k) /\ Ends(dst', Larger(pos, pos + k))
    BY <2>1, <2>3, <2>4, StoredEnds
  <2>6. Lengths'
    BY TransferAssumption, <1>0, <1>00, <2>1, <2>2, <2>5
       DEF Lengths, Places, Kept, Holding, At, Ranges, Sizes, InFile, Positions, Larger
  <2>7. Sound'
    BY <2>1, <2>2 DEF Sound
  <2> QED  BY <1>01, <2>5, <2>6, <2>7 DEF FileOK
<1>4. CASE CopyFails
  <2>1. /\ pc = "copy" /\ pc' = "idle" /\ result' = "failed"
        /\ UNCHANGED <<ssize, there, ours, swapped, lost, offset, pos>>
    BY <1>4 DEF CopyFails, Go, disk, told, place
  <2>2. PICK bad \in SUBSET {i \in Positions : /\ ~lost /\ i > offset
                                           /\ i > pos - Rollback /\ i <= pos} :
           dst' = [i \in Positions |-> IF i \in bad THEN FC!Old ELSE dst[i]]
    BY <1>4 DEF CopyFails
  <2>3. \A i \in bad : ~lost /\ i \in Positions /\ i > offset /\ i > pos - Rollback /\ i <= pos
    BY <2>2
  <2>4. \A i \in bad : i \in Positions /\ i <= n
    BY TransferAssumption, <1>0, <2>1, <2>3
       DEF Lengths, Holding, At, Sizes, InFile, Positions
  <2>5. /\ dst' \in FC!Files /\ Length(dst') = n /\ Ends(dst', n)
    BY <1>0, <2>2, <2>4, DamagedEnds
  <2>6. Lengths'
    BY <1>0, <1>00, <2>1, <2>5 DEF Lengths, Holding
  <2>7. Sound'
    <3>1. \A i \in Positions : i \notin bad => dst'[i] = dst[i]
      BY <2>2
    <3> QED  BY TransferAssumption, <1>0, <1>00, <2>1, <2>3, <2>5, <3>1
                DEF Sound, Lengths, Kept, Places, Holding, At, Ranges, Sizes, InFile, Positions
  <2> QED  BY <1>01, <2>5, <2>6, <2>7 DEF FileOK
<1>5. CASE OtherCreates
  <2>1. /\ ~there /\ there' = TRUE /\ ours' = FALSE
        /\ UNCHANGED <<pc, ssize, offset, pos, dlen, swapped, lost, result>>
    BY <1>5 DEF OtherCreates, told, place
  <2>2. PICK m \in Sizes : dst' = FC!OldFile(m)
    BY <1>5 DEF OtherCreates
  <2>3. dst' \in FC!Files /\ Contiguous'
    BY <1>01, <2>2, OldFileEnds
  <2>4. Lengths'
    BY <1>0, <2>1 DEF Lengths, Kept, Holding
  <2>5. Sound'
    BY <2>1 DEF Sound
  <2> QED  BY <2>3, <2>4, <2>5 DEF FileOK
<1>6. CASE OtherRemoves
  <2>1. /\ there /\ dst' = FC!OldFile(0)
        /\ swapped' = (swapped \/ pc = "reopen") /\ lost' = (lost \/ Holding)
        /\ result' = IF pc = "idle" THEN "none" ELSE result
        /\ UNCHANGED <<pc, ssize, offset, pos>>
    BY <1>6 DEF OtherRemoves, Holding, place
  <2>2. dst' \in FC!Files /\ Length(dst') = 0 /\ Contiguous'
    BY <1>01, <1>02, <2>1, OldFileEnds
  <2>3. Holding' = Holding
    BY <2>1 DEF Holding
  <2>4. result' # "ok"
    BY <1>0, <2>1 DEF Kept
  <2>a. ~(Holding' /\ ~lost') /\ (pc' = "reopen" => swapped')
    BY <2>1, <2>3
  <2>5. Lengths'
    BY <1>00, <2>2, <2>4, <2>a DEF Lengths
  <2>6. Sound'
    BY TransferAssumption, <1>0, <1>00, <2>1, <2>2, <2>4, <2>a
       DEF Sound, Sizes, Positions, Ranges
  <2> QED  BY <2>2, <2>5, <2>6 DEF FileOK
<1> QED  BY <1>1, <1>2, <1>3, <1>4, <1>5, <1>6 DEF Writing

LEMMA StepIInv == IInv /\ [Next]_vars => IInv'
<1>1. ASSUME IInv, Next PROVE IInv'
  <2>1. Looking \/ Writing
    BY <1>1 DEF Next, Transfer, Looking, Writing
  <2>2. FileOK'
    BY <1>1, <2>1, LookingKeeps, WritingKeeps
  <2>3. (Ranges /\ InFile)' /\ (Consent /\ Kept /\ Swapped)' /\ Places'
    BY <1>1, RangesStep, ConsentStep, PlacesStep
  <2>4. (dst \in FC!Files)'
    BY <2>2 DEF FileOK
  <2>5. TypeOK'
    BY <2>3, <2>4, Zenon DEF TypeOK, Ranges, InFile
  <2> QED  BY <2>2, <2>3, <2>5 DEF IInv, FileOK
<1>2. ASSUME IInv, UNCHANGED vars PROVE IInv'
  <2>1. /\ UNCHANGED <<pc, intr, mode, ssize, there, dst, dlen, offset, pos, open>>
        /\ UNCHANGED <<result, granted, swapped, lost, made, ours>>
    BY <1>2 DEF vars, disk, told, place
  <2>2. UNCHANGED <<ssize, disk>>
    BY <2>1 DEF disk
  <2>3. Length(dst)' = Length(dst) /\ Contiguous' /\ (dst \in FC!Files)'
    BY <1>2, <2>2, FileStays
  <2>4. (Consent /\ Kept /\ Swapped /\ Places)'
    BY <1>2, <2>1 DEF IInv, Consent, Kept, Swapped, Places, Holding, At
  <2>5. (Lengths /\ Sound)'
    BY <1>2, <2>1, <2>3 DEF IInv, Lengths, Sound, Holding, At
  <2>6. (Ranges /\ InFile)'
    BY <1>2, <2>1 DEF IInv, TypeOK, Ranges, InFile
  <2>7. TypeOK'
    BY <2>3, <2>6, Zenon DEF TypeOK, Ranges, InFile
  <2> QED  BY <2>3, <2>4, <2>5, <2>7 DEF IInv
<1> QED  BY <1>1, <1>2

\* The inductive invariant holds of every behaviour of transferfile.
THEOREM Invariance == Spec => []IInv
  BY InitIInv, StepIInv, PTL DEF Spec

\* The variables of transferfile keep to their ranges.
THEOREM TypeCorrect == Spec => []TypeOK
<1>1. IInv => TypeOK
  BY DEF IInv
<1> QED  BY Invariance, <1>1, PTL

(***************************************************************************)
(* After any history of failures and resumes a success leaves exactly the  *)
(* source, unless somebody else wrote the file, or removed it while it was *)
(* open (transfer.c:343-347).                                              *)
(***************************************************************************)
THEOREM Repairs == Spec => []ResumeRepairs
<1>1. IInv => ResumeRepairs
  <2> SUFFICES ASSUME IInv, result = "ok", ours, ~lost
               PROVE  dst = [i \in Positions |-> IF i <= ssize THEN i ELSE FC!Absent]
    BY DEF ResumeRepairs
  <2>1. /\ \A i \in Positions : i <= ssize => dst[i] = i
        /\ Length(dst) <= ssize
    BY DEF IInv, Sound
  <2>2. \A i \in Positions : ~(i <= ssize) => dst[i] = FC!Absent
    BY <2>1, TransferAssumption
       DEF IInv, Contiguous, Ends, TypeOK, Sizes, Positions
  <2>3. dst = [i \in Positions |-> dst[i]]
    BY DEF IInv, TypeOK, FC!Files, FC!Positions, Positions
  <2> QED  BY <2>1, <2>2, <2>3
<1> QED  BY Invariance, <1>1, PTL

\* A successful transfer ends where the source does, whatever was there
\* before, if nobody took the file away meanwhile (transfer.c:297-301, 331, 370).
THEOREM EndsWithSource == Spec => []NothingBeyond
<1>1. IInv => NothingBeyond
  BY DEF IInv, Lengths, NothingBeyond
<1> QED  BY Invariance, <1>1, PTL

-----------------------------------------------------------------------------
(* What a single step may do to a file that exists. *)

\* The destination changes under samblah's hands only while it copies, or
\* when it truncates the file.
LEMMA WhoWrites ==
    ASSUME IInv, Next, there, there', dst' # dst
    PROVE  \/ OpenDestination /\ mode = "overwrite"
           \/ CopyBlocks \/ CopyBeyondEnd \/ CopyFails
<1>1. ~Looking
  BY DEF Looking, Command, DestinationExists, OpenFails, Stat, Answer, NoAnswer,
     Reopen, OpenSource, SourceFails, CopyUnseen, CopyEnds, Interrupt, GiveUp, disk,
     FC!Finish
<1>2. ~OtherCreates /\ ~OtherRemoves
  BY DEF OtherCreates, OtherRemoves
<1>3. OpenDestination => mode = "overwrite"
  BY DEF OpenDestination, Exclusive
<1> QED  BY <1>1, <1>2, <1>3 DEF Next, Transfer, Looking

(***************************************************************************)
(* A file that was there before is changed by samblah only after the user  *)
(* said so, whoever creates it and when (transfer.c:297-315).              *)
(***************************************************************************)
THEOREM ConsentGiven == Spec => OnlyWithConsent
<1> DEFINE A == there /\ there' /\ dst' # dst => made \/ granted # "none"
<1>1. IInv /\ [Next]_vars => [A]_vars
  <2> SUFFICES ASSUME IInv, Next, there, there', dst' # dst
               PROVE  made \/ granted # "none"
    BY DEF vars
  <2>1. Consent
    BY DEF IInv
  <2>2. CASE OpenDestination /\ mode = "overwrite"
    BY <2>1, <2>2 DEF Consent
  <2>3. CASE CopyBlocks \/ CopyBeyondEnd \/ CopyFails
    <3>1. pc = "copy"
      BY <2>3 DEF CopyBlocks, CopyBeyondEnd, CopyFails, FC!Move, Go
    <3> QED  BY <2>1, <3>1 DEF Consent, Holding
  <2> QED  BY <2>2, <2>3, WhoWrites
<1> QED  BY Invariance, <1>1, PTL DEF Spec, OnlyWithConsent

(***************************************************************************)
(* A resume leaves what exists as it is, but for the last Rollback blocks  *)
(* that stat counted, however it ends (transfer.c:329-357).                *)
(***************************************************************************)
THEOREM ResumeKeepsFile == Spec => ResumeKeeps
<1> DEFINE A == there /\ there' /\ granted = "resume" /\ ~made =>
                \A i \in Positions :
                   i <= dlen - Rollback /\ dst[i] # FC!Absent => dst'[i] = dst[i]
<1>1. IInv /\ [Next]_vars => [A]_vars
  <2> SUFFICES ASSUME IInv, Next, there, there', granted = "resume", ~made,
                      NEW i \in Positions, i <= dlen - Rollback, dst[i] # FC!Absent
               PROVE  dst'[i] = dst[i]
    BY DEF vars
  <2>0. mode = "resume" /\ Places /\ InFile
    BY DEF IInv, Consent, TypeOK, InFile
  <2>1. CASE dst' = dst
    BY <2>1
  <2>2. CASE dst' # dst
    <3>1. CopyBlocks \/ CopyBeyondEnd \/ CopyFails
      BY <2>0, <2>2, WhoWrites
    <3>2. pc = "copy"
      BY <3>1 DEF CopyBlocks, CopyBeyondEnd, CopyFails, FC!Move, Go
    <3>3. i <= offset /\ offset <= pos /\ i \in Nat /\ offset \in Nat /\ pos \in Nat
      BY <2>0, <3>2, TransferAssumption
         DEF Places, Holding, At, InFile, Sizes, Positions
    <3>4. CASE CopyBlocks
      <4>1. PICK k \in Positions : dst' = FC!Stored(dst, pos, pos, k)
        BY <3>4 DEF CopyBlocks, FC!Move, FC!Positions, Positions
      <4> QED  BY <3>3, <4>1 DEF FC!Stored, FC!Positions, Positions
    <3>5. CASE CopyBeyondEnd
      <4>1. PICK k \in Positions :
               dst' = FC!Stored([j \in Positions |-> IF j <= pos /\ dst[j] = FC!Absent
                                   THEN FC!Old ELSE dst[j]], pos, pos, k)
        BY <3>5 DEF CopyBeyondEnd
      <4> QED  BY <3>3, <4>1 DEF FC!Stored, FC!Positions, Positions
    <3>6. CASE CopyFails
      <4>1. PICK bad \in SUBSET {j \in Positions : /\ ~lost /\ j > offset
                                                  /\ j > pos - Rollback /\ j <= pos} :
               dst' = [j \in Positions |-> IF j \in bad THEN FC!Old ELSE dst[j]]
        BY <3>6 DEF CopyFails
      <4>2. i \notin bad
        BY <3>3, <4>1
      <4> QED  BY <4>1, <4>2
    <3> QED  BY <3>1, <3>4, <3>5, <3>6
  <2> QED  BY <2>1, <2>2
<1> QED  BY Invariance, <1>1, PTL DEF Spec, ResumeKeeps

-----------------------------------------------------------------------------
(***************************************************************************)
(* A get gives both handles back on every return (transfer.c:386-404).     *)
(* For a put this is not so: see HandlesLeft.                              *)
(***************************************************************************)
THEOREM GetGivesBack ==
    ASSUME RemoteSource = TRUE
    PROVE  Spec => []HandlesGivenBack
<1>1. Init => Handles
  BY DEF Init, Handles
<1>2. Handles /\ [Next]_vars => Handles'
  <2>1. ASSUME Handles, UNCHANGED vars PROVE Handles'
    BY <2>1 DEF vars, Handles
  <2>2. ASSUME Handles, Next PROVE Handles'
    <3> USE <2>2 DEF Handles, Go, GiveUp, Next, Transfer
    <3>1. CASE Command \/ OpenFails \/ NoAnswer \/ Interrupt
      BY <3>1 DEF Command, OpenFails, NoAnswer, Interrupt
    <3>2. CASE OpenDestination \/ DestinationExists
      BY <3>2 DEF OpenDestination, DestinationExists
    <3>3. CASE Stat \/ Answer
      BY <3>3 DEF Stat, Answer
    <3>4. CASE Reopen
      BY <3>4 DEF Reopen, HandlesLeft
    <3>5. CASE OpenSource \/ SourceFails
      BY <3>5 DEF OpenSource, SourceFails
    <3>6. CASE CopyBlocks \/ CopyBeyondEnd \/ CopyUnseen \/ CopyEnds \/ CopyFails
      BY <3>6 DEF CopyBlocks, CopyBeyondEnd, CopyUnseen, CopyEnds, CopyFails, FC!Move,
                  FC!Finish
    <3>7. CASE OtherCreates \/ OtherRemoves
      BY <3>7 DEF OtherCreates, OtherRemoves
    <3> QED  BY <3>1, <3>2, <3>3, <3>4, <3>5, <3>6, <3>7
  <2> QED  BY <2>1, <2>2
<1>3. Handles => HandlesGivenBack
  BY DEF Handles, HandlesGivenBack
<1> QED  BY <1>1, <1>2, <1>3, RemoteSource = TRUE, PTL DEF Spec

=============================================================================
