-------------------------- MODULE CopyByFd_proofs --------------------------
(***************************************************************************)
(* Theorems about CopyByFd, for every size of file and buffer.             *)
(***************************************************************************)
EXTENDS CopyByFd, TLAPS

InLoop   == {"print", "arm", "loop", "read"}
InBuffer == {"inner", "write"}
After    == {"alarm0", "dfl", "decide", "closeFrom", "closeTo", "return"}

(***************************************************************************)
(* The inductive invariant, in parts.  The source's offset is ahead of the *)
(* destination's by what the buffer still holds; the loop is entered again *)
(* with something in the buffer only to be left because of SIGINT.         *)
(***************************************************************************)
Offsets ==
    /\ start <= dpos /\ spos = dpos + left /\ spos <= size
    /\ pc \in {"print", "arm", "read"} => left = 0
    /\ pc = "loop" => left = 0 \/ intr
    /\ pc = "write" => left > 0

\* transferred lags behind dpos by what this buffer has given so far.
Credit ==
    /\ pc \in InLoop => start + transferred = dpos
    /\ pc \in InBuffer => count >= left /\ start + transferred + (count - left) = dpos
    /\ pc \in After \cup {"idle"} =>
          /\ start + transferred <= dpos
          /\ dpos <= start + transferred + BufBlocks
          /\ path # "error" => start + transferred = dpos

\* Which way out of the loop is being taken.
Exit ==
    /\ pc \in InLoop \cup InBuffer \cup {"decide"} => path = "run"
    /\ pc \in {"alarm0", "dfl"} => path \in {"run", "error"}
    /\ pc \in {"closeFrom", "closeTo", "return"} => path # "run"
    /\ pc # "idle" => ret = "none"
    /\ ret # "none" => path # "run"
    /\ ret = "ok" => path = "end"

\* errno and save_errno on the way out.
Errno ==
    /\ path = "error" => saved = cause
    /\ path = "end" => cause \in {"none", "close"}
    /\ path = "end" /\ cause = "close" => errno = "close"
    /\ path = "intr" => cause = "EINTR"
    /\ pc = "idle" /\ ret = "failed" => errno = cause
    /\ ret = "ok" => cause = "none"

\* The handles are closed in order, once, on each way out.
Closed ==
    /\ pc \in InLoop \cup InBuffer \cup {"closeFrom", "decide"} =>
          closes["from"] = 0 /\ closes["to"] = 0
    /\ pc \in {"alarm0", "dfl"} /\ path = "run" =>
          closes["from"] = 0 /\ closes["to"] = 0
    /\ pc \in {"alarm0", "dfl"} /\ path = "error" =>
          closes["from"] = 1 /\ closes["to"] = 1
    /\ pc = "closeTo" => closes["from"] = 1 /\ closes["to"] = 0
    /\ pc = "return" => closes["from"] = 1 /\ closes["to"] = 1
    /\ pc = "idle" =>
          /\ ret = "none" => closes["from"] = 0 /\ closes["to"] = 0
          /\ ret # "none" => closes["from"] = 1 /\ closes["to"] = 1

\* The end of the destination is that of the source, or before it.
Ends == \A i \in Positions : i > size => dst[i] = Absent

\* How many reads and writes SIGINT has been followed by.
Late ==
    /\ late <= 1
    /\ late # 0 => pc = "idle" \/ (intr /\ pc \notin {"read", "write"})

\* The loop was left, without error or SIGINT, because the source ended.
AtEnd ==
    ~ZeroWrites =>
       /\ pc \in {"alarm0", "dfl", "decide"} /\ path = "run" /\ ~intr =>
             left = 0 /\ spos = size
       /\ path = "end" => left = 0 /\ spos = size

\* Where the timer cannot be running.
Quiet ==
    ~MidCall =>
       /\ pend # "due"
       /\ disp = "default" => ~timer /\ pend = "none"
       /\ pc \in {"idle", "print", "arm", "dfl", "decide", "return"} =>
             ~timer /\ pend = "none"
       /\ pc \in {"closeFrom", "closeTo"} /\ path # "error" =>
             ~timer /\ pend = "none"
       /\ pc \in {"print", "arm"} => disp = "handler"

IInv ==
    /\ TypeOK /\ Integrity /\ Ends
    /\ Offsets /\ Credit /\ Exit /\ Errno /\ Closed /\ Late /\ AtEnd /\ Quiet

-----------------------------------------------------------------------------
(* Initially. *)

LEMMA InitIInv == Init => IInv
<1> SUFFICES ASSUME Init PROVE IInv
  OBVIOUS
<1> USE BoundsAssumption DEF Init
<1>1. ControlOK
  BY DEF ControlOK, PCs, Errnos
<1>2. DataOK
  BY DEF DataOK, Sizes, Handles, FC!OldFile, FC!Files, FC!Old, FC!Absent,
         FC!Positions
<1>3. Integrity /\ Ends
  BY DEF Integrity, Ends, Positions, Old, Absent, FC!OldFile, FC!Old,
         FC!Absent, FC!Positions
<1>4. Offsets /\ Credit /\ Exit /\ Errno /\ Late /\ AtEnd /\ Quiet
  BY DEF Offsets, Credit, Exit, Errno, Late, AtEnd, Quiet, InLoop,
         InBuffer, After
<1>5. Closed
  BY DEF Closed, InLoop, InBuffer, Handles
<1> QED  BY <1>1, <1>2, <1>3, <1>4, <1>5 DEF IInv, TypeOK

-----------------------------------------------------------------------------
(* Every step keeps every part. *)

LEMMA ControlOKStep == ControlOK /\ Next => ControlOK'
<1> SUFFICES ASSUME ControlOK, Next PROVE ControlOK'
  OBVIOUS
<1> USE DEF ControlOK, Go, Running, io, sig, out, PCs, Errnos
<1>1. CASE NewCommand
  <2>1. intr' \in BOOLEAN /\ UNCHANGED <<pc, alive, pend, sig, io, out>>
    BY <1>1 DEF NewCommand
  <2> QED  BY <2>1
<1>2. CASE Begin
  <2>1. PICK show \in BOOLEAN :
          /\ Go("idle", IF show THEN "print" ELSE "loop")
          /\ disp' = IF show THEN "handler" ELSE disp
    BY <1>2 DEF Begin
  <2>2. pc' \in {"print", "loop"} /\ disp' \in {"default", "handler"}
    BY <2>1
  <2>3. pend' \in {"none", "raised", "due"} /\ UNCHANGED alive
    BY <2>1
  <2> QED  BY <1>2, <2>2, <2>3 DEF Begin
<1>3. CASE PrintProgress \/ Arm \/ LoopTest
  BY <1>3 DEF PrintProgress, Arm, LoopTest
<1>4. CASE Read
  BY <1>4 DEF Read, AtEof, Fails
<1>5. CASE InnerTest
  BY <1>5 DEF InnerTest
<1>6. CASE Write
  BY <1>6 DEF Write, Fails
<1>7. CASE CloseFrom \/ CloseTo
  BY <1>7 DEF CloseFrom, CloseTo, AfterCloses, Close
<1>8. CASE CancelAlarm \/ DefaultAlarm \/ Decide
  BY <1>8 DEF CancelAlarm, DefaultAlarm, Decide, Interrupted
<1>9. CASE Return
  BY <1>9 DEF Return, ReturnErrno
<1>10. CASE Signals
  BY <1>10 DEF Signals, Interrupt, TimerFires, AlarmHandler, Killed
<1> QED
  BY <1>1, <1>2, <1>3, <1>4, <1>5, <1>6, <1>7, <1>8, <1>9, <1>10
     DEF Next, Copying

LEMMA DataOKStep == IInv /\ Next => DataOK'
<1> SUFFICES ASSUME IInv, Next PROVE DataOK'
  OBVIOUS
<1> USE BoundsAssumption DEF DataOK, Go, file, loop, out, Sizes
<1>0. DataOK /\ Offsets /\ Credit
  BY DEF IInv, TypeOK
<1>1. CASE NewCommand
  BY <1>0, <1>1 DEF NewCommand
<1>2. CASE Begin
  <2>1. dst' \in FC!Files
    BY <1>2 DEF Begin, FC!OldFile, FC!Files, FC!Old, FC!Absent, FC!Positions
  <2> QED  BY <1>0, <1>2, <2>1 DEF Begin
<1>3. CASE PrintProgress \/ Arm \/ LoopTest
  BY <1>0, <1>3 DEF PrintProgress, Arm, LoopTest
<1>4. CASE Read
  BY <1>0, <1>4 DEF Read, Begun, Readable, Smaller
<1>5. CASE InnerTest
  BY <1>0, <1>5 DEF InnerTest, Credited, Credit, Offsets, InBuffer
<1>6. CASE Write
  <2>1. dst' \in FC!Files
    BY <1>0, <1>6 DEF Write, BufferPos, Offsets, FC!Stored, FC!Files,
       FC!Old, FC!Absent, FC!Positions
  <2> QED
    BY <1>0, <1>6, <2>1 DEF Write, Begun, Smaller, LeftAfter, Credited,
       Credit, Offsets, InBuffer
<1>7. CASE CloseFrom \/ CloseTo
  BY <1>0, <1>7 DEF CloseFrom, CloseTo, Close, Handles
<1>8. CASE CancelAlarm \/ DefaultAlarm \/ Decide \/ Return
  BY <1>0, <1>8 DEF CancelAlarm, DefaultAlarm, Decide, Return
<1>9. CASE Signals
  BY <1>0, <1>9 DEF Signals, Interrupt, TimerFires, AlarmHandler, Killed
<1> QED
  BY <1>1, <1>2, <1>3, <1>4, <1>5, <1>6, <1>7, <1>8, <1>9 DEF Next, Copying

LEMMA OffsetsStep == IInv /\ Next => Offsets'
<1> SUFFICES ASSUME IInv, Next PROVE Offsets'
  OBVIOUS
<1> USE BoundsAssumption DEF Offsets, Go, file, loop
<1>0. Offsets /\ DataOK
  BY DEF IInv, TypeOK
<1>1. CASE NewCommand
  BY <1>0, <1>1 DEF NewCommand
<1>2. CASE Begin
  <2>1. start' <= dpos' /\ spos' = dpos' + left' /\ spos' <= size'
    BY <1>2 DEF Begin, Sizes
  <2>2. left' = 0 /\ pc' \in {"print", "loop"}
    BY <1>2 DEF Begin
  <2> QED  BY <2>1, <2>2
<1>3. CASE PrintProgress \/ Arm \/ LoopTest
  BY <1>0, <1>3 DEF PrintProgress, Arm, LoopTest
<1>4. CASE Read
  BY <1>0, <1>4 DEF Read, Readable, Smaller, AtEof, DataOK, Sizes
<1>5. CASE InnerTest
  BY <1>0, <1>5 DEF InnerTest, MoreToWrite, DataOK, Sizes
<1>6. CASE Write
  BY <1>0, <1>6 DEF Write, LeftAfter, DataOK, Sizes
<1>7. CASE CloseFrom \/ CloseTo
  BY <1>0, <1>7 DEF CloseFrom, CloseTo, AfterCloses, Close
<1>8. CASE CancelAlarm \/ DefaultAlarm \/ Decide \/ Return
  BY <1>0, <1>8 DEF CancelAlarm, DefaultAlarm, Decide, Return
<1>9. CASE Signals
  BY <1>0, <1>9 DEF Signals, Interrupt, TimerFires, AlarmHandler, Killed
<1> QED
  BY <1>1, <1>2, <1>3, <1>4, <1>5, <1>6, <1>7, <1>8, <1>9 DEF Next, Copying

LEMMA IntegrityStep == IInv /\ Next => Integrity' /\ Ends'
<1> SUFFICES ASSUME IInv, Next PROVE Integrity' /\ Ends'
  OBVIOUS
<1> USE BoundsAssumption DEF Integrity, Ends, Positions
<1>0. Integrity /\ Ends /\ Offsets /\ DataOK
  BY DEF IInv, TypeOK
<1>1. CASE Begin
  <2>1. PICK len \in Sizes : \E n \in 0 .. len : \E o \in 0 .. n :
          /\ size' = len /\ start' = o /\ spos' = o /\ dpos' = o
          /\ dst' = FC!OldFile(n)
    BY <1>1 DEF Begin
  <2> QED
    BY <2>1 DEF Sizes, FC!OldFile, FC!Positions, FC!Old, FC!Absent, Old,
                Absent
<1>2. ASSUME Write, NEW k \in 1 .. left,
             dst' = FC!Stored(dst, dpos, BufferPos, k), dpos' = dpos + k
      PROVE  Integrity' /\ Ends'
  \* the k blocks stored are blocks dpos + 1, dpos + 2, ... of the source
  <2>1. BufferPos = dpos /\ size' = size /\ start' = start /\ dpos + k <= size
    BY <1>0, <1>2 DEF Write, BufferPos, Offsets, DataOK, Sizes
  <2>2. \A i \in Positions :
           dst'[i] = IF i \in dpos+1 .. dpos+k THEN i ELSE dst[i]
    BY <1>0, <1>2, <2>1 DEF FC!Stored, FC!Positions, DataOK, Sizes
  <2> QED  BY <1>0, <1>2, <2>1, <2>2 DEF Offsets, DataOK, Sizes
<1>3. CASE Write /\ UNCHANGED <<dst, dpos>>
  <2>1. UNCHANGED <<size, start, dpos, dst>>
    BY <1>3 DEF Write
  <2> QED  BY <1>0, <2>1
<1>4. CASE ~Begin /\ ~Write
  <2>1. UNCHANGED <<size, start, dpos, dst>>
    BY <1>4 DEF Next, NewCommand, Copying, PrintProgress, Arm, LoopTest,
       Read, InnerTest, CloseFrom, CloseTo, Close, CancelAlarm, DefaultAlarm,
       Decide, Return, Signals, Interrupt, TimerFires, AlarmHandler, Killed,
       file
  <2> QED  BY <1>0, <2>1
<1>5. Write => \/ UNCHANGED <<dst, dpos>>
               \/ \E k \in 1 .. left :
                     /\ dst' = FC!Stored(dst, dpos, BufferPos, k)
                     /\ dpos' = dpos + k
  BY DEF Write
<1> QED  BY <1>1, <1>2, <1>3, <1>4, <1>5

LEMMA CreditStep == IInv /\ Next => Credit'
<1> SUFFICES ASSUME IInv, Next PROVE Credit'
  OBVIOUS
<1> USE BoundsAssumption DEF Credit, Go, file, loop, io, InLoop, InBuffer, After
<1>0. Credit /\ Offsets /\ Exit /\ DataOK
  BY DEF IInv, TypeOK
<1>1. CASE NewCommand
  BY <1>0, <1>1 DEF NewCommand
<1>2. CASE Begin
  <2>1. start' + transferred' = dpos' /\ pc' \in {"print", "loop"}
    BY <1>2 DEF Begin, Sizes
  <2> QED  BY <2>1
<1>3. CASE PrintProgress \/ Arm \/ LoopTest
  BY <1>0, <1>3 DEF PrintProgress, Arm, LoopTest, DataOK, Sizes
<1>4. CASE Read
  BY <1>0, <1>4 DEF Read, Readable, Smaller, AtEof, DataOK, Sizes
<1>5. CASE InnerTest
  BY <1>0, <1>5 DEF InnerTest, Credited, DataOK, Sizes
<1>6. CASE Write
  BY <1>0, <1>6 DEF Write, LeftAfter, Credited, Offsets, DataOK, Sizes, Fails
<1>7. CASE CloseFrom \/ CloseTo
  BY <1>0, <1>7 DEF CloseFrom, CloseTo, AfterCloses, Close
<1>8. CASE CancelAlarm \/ DefaultAlarm \/ Decide \/ Return
  BY <1>0, <1>8 DEF CancelAlarm, DefaultAlarm, Decide, Return, Exit,
                    InLoop, InBuffer
<1>9. CASE Signals
  BY <1>0, <1>9 DEF Signals, Interrupt, TimerFires, AlarmHandler, Killed
<1> QED
  BY <1>1, <1>2, <1>3, <1>4, <1>5, <1>6, <1>7, <1>8, <1>9 DEF Next, Copying

LEMMA ExitStep == IInv /\ Next => Exit'
<1> SUFFICES ASSUME Exit, Next PROVE Exit'
  BY DEF IInv
<1> USE DEF Exit, Go, io, out, InLoop, InBuffer
<1>1. CASE NewCommand \/ Begin
  BY <1>1 DEF NewCommand, Begin
<1>2. CASE PrintProgress \/ Arm \/ LoopTest \/ InnerTest
  BY <1>2 DEF PrintProgress, Arm, LoopTest, InnerTest
<1>3. CASE Read \/ Write
  BY <1>3 DEF Read, Write, AtEof, Fails
<1>4. CASE CloseFrom \/ CloseTo
  BY <1>4 DEF CloseFrom, CloseTo, AfterCloses, Close
<1>5. CASE CancelAlarm \/ DefaultAlarm \/ Decide
  BY <1>5 DEF CancelAlarm, DefaultAlarm, Decide
<1>6. CASE Return
  BY <1>6 DEF Return
<1>7. CASE Signals
  BY <1>7 DEF Signals, Interrupt, TimerFires, AlarmHandler, Killed
<1> QED  BY <1>1, <1>2, <1>3, <1>4, <1>5, <1>6, <1>7 DEF Next, Copying

LEMMA ErrnoStep == IInv /\ Next => Errno'
<1> SUFFICES ASSUME Errno, Exit, ControlOK, Next PROVE Errno'
  BY DEF IInv, TypeOK
<1> USE DEF Errno, Exit, Go, io, out, InLoop, InBuffer
<1>1. CASE NewCommand \/ Begin
  BY <1>1 DEF NewCommand, Begin
<1>2. CASE PrintProgress \/ Arm \/ LoopTest \/ InnerTest
  BY <1>2 DEF PrintProgress, Arm, LoopTest, InnerTest
<1>3. CASE Read \/ Write
  BY <1>3 DEF Read, Write, AtEof, Fails
<1>4. CASE CloseFrom \/ CloseTo
  BY <1>4 DEF CloseFrom, CloseTo, AfterCloses, Close
<1>5. CASE CancelAlarm \/ DefaultAlarm \/ Decide
  BY <1>5 DEF CancelAlarm, DefaultAlarm, Decide
<1>6. CASE Return
  <2>1. path \in {"error", "intr", "end"}
    BY <1>6 DEF Return, ControlOK
  <2> QED  BY <1>6, <2>1 DEF Return, ReturnErrno
<1>7. CASE Signals
  BY <1>7 DEF Signals, Interrupt, TimerFires, AlarmHandler, Killed
<1> QED  BY <1>1, <1>2, <1>3, <1>4, <1>5, <1>6, <1>7 DEF Next, Copying

LEMMA ClosedStep == IInv /\ Next => Closed'
<1> SUFFICES ASSUME Closed, Exit, closes \in [Handles -> Nat], Next
             PROVE  Closed'
  BY DEF IInv, TypeOK, DataOK
<1> USE DEF Closed, Exit, Go, io, out, InLoop, InBuffer
<1>1. CASE NewCommand \/ Begin
  BY <1>1 DEF NewCommand, Begin, Handles
<1>2. CASE PrintProgress \/ Arm \/ LoopTest \/ InnerTest
  BY <1>2 DEF PrintProgress, Arm, LoopTest, InnerTest
<1>3. CASE Read \/ Write
  BY <1>3 DEF Read, Write, AtEof, Fails
<1>4. CASE CloseFrom \/ CloseTo
  BY <1>4 DEF CloseFrom, CloseTo, AfterCloses, Close, Handles
<1>5. CASE CancelAlarm \/ DefaultAlarm \/ Decide
  BY <1>5 DEF CancelAlarm, DefaultAlarm, Decide
<1>6. CASE Return
  BY <1>6 DEF Return
<1>7. CASE Signals
  BY <1>7 DEF Signals, Interrupt, TimerFires, AlarmHandler, Killed
<1> QED  BY <1>1, <1>2, <1>3, <1>4, <1>5, <1>6, <1>7 DEF Next, Copying

\* A read or write begun after SIGINT is the last one.
LEMMA LateStep == IInv /\ Next => Late'
<1> SUFFICES ASSUME Late, DataOK, Next PROVE Late'
  BY DEF IInv, TypeOK
<1> USE DEF Late, DataOK, Go
<1>1. CASE NewCommand \/ Begin
  BY <1>1 DEF NewCommand, Begin
<1>2. CASE PrintProgress \/ Arm \/ LoopTest
  BY <1>2 DEF PrintProgress, Arm, LoopTest
<1>3. CASE InnerTest
  BY <1>3 DEF InnerTest, MoreToWrite
<1>4. CASE Read \/ Write
  BY <1>4 DEF Read, Write, AtEof, Begun, Smaller
<1>5. CASE CloseFrom \/ CloseTo
  BY <1>5 DEF CloseFrom, CloseTo, AfterCloses, Close
<1>6. CASE CancelAlarm \/ DefaultAlarm \/ Decide \/ Return
  BY <1>6 DEF CancelAlarm, DefaultAlarm, Decide, Return
<1>7. CASE Signals
  BY <1>7 DEF Signals, Interrupt, TimerFires, AlarmHandler, Killed
<1> QED  BY <1>1, <1>2, <1>3, <1>4, <1>5, <1>6, <1>7 DEF Next, Copying

LEMMA AtEndStep == IInv /\ Next => AtEnd'
<1> SUFFICES ASSUME AtEnd, Exit, Offsets, ~ZeroWrites, Next PROVE AtEnd'
  BY DEF IInv, AtEnd
<1> USE DEF AtEnd, Exit, Offsets, Go, io, file, loop, InLoop, InBuffer
<1>1. CASE NewCommand \/ Begin
  BY <1>1 DEF NewCommand, Begin
<1>2. CASE PrintProgress \/ Arm \/ LoopTest \/ InnerTest
  BY <1>2 DEF PrintProgress, Arm, LoopTest, InnerTest
<1>3. CASE Read \/ Write
  BY <1>3 DEF Read, Write, AtEof, Fails
<1>4. CASE CloseFrom \/ CloseTo
  BY <1>4 DEF CloseFrom, CloseTo, AfterCloses, Close
<1>5. CASE CancelAlarm \/ DefaultAlarm \/ Decide \/ Return
  BY <1>5 DEF CancelAlarm, DefaultAlarm, Decide, Return, Interrupted
<1>6. CASE Signals
  BY <1>6 DEF Signals, Interrupt, TimerFires, AlarmHandler, Killed
<1> QED  BY <1>1, <1>2, <1>3, <1>4, <1>5, <1>6 DEF Next, Copying

LEMMA QuietStep == IInv /\ Next => Quiet'
<1> SUFFICES ASSUME Quiet, Exit, ~MidCall, Next PROVE Quiet'
  BY DEF IInv, Quiet
<1> USE DEF Quiet, Exit, Go, Running, io, sig, InLoop, InBuffer
<1>1. CASE NewCommand \/ Begin
  BY <1>1 DEF NewCommand, Begin
<1>2. CASE PrintProgress \/ Arm \/ LoopTest \/ InnerTest
  BY <1>2 DEF PrintProgress, Arm, LoopTest, InnerTest
<1>3. CASE Read \/ Write
  BY <1>3 DEF Read, Write, AtEof, Fails
<1>4. CASE CloseFrom \/ CloseTo
  BY <1>4 DEF CloseFrom, CloseTo, AfterCloses, Close
<1>5. CASE CancelAlarm \/ DefaultAlarm \/ Decide \/ Return
  BY <1>5 DEF CancelAlarm, DefaultAlarm, Decide, Return
<1>6. CASE Signals
  BY <1>6 DEF Signals, Interrupt, TimerFires, AlarmHandler, Killed
<1> QED  BY <1>1, <1>2, <1>3, <1>4, <1>5, <1>6 DEF Next, Copying

-----------------------------------------------------------------------------
(* The theorems. *)

\* Every part is kept, also by steps that change nothing.
LEMMA StepIInv == IInv /\ [Next]_vars => IInv'
<1>1. ASSUME IInv, Next PROVE IInv'
  BY <1>1, ControlOKStep, DataOKStep, OffsetsStep, IntegrityStep, CreditStep,
     ExitStep, ErrnoStep, ClosedStep, LateStep, AtEndStep, QuietStep
     DEF IInv, TypeOK
<1>2. ASSUME IInv, UNCHANGED vars PROVE IInv'
  BY <1>2 DEF vars, io, file, loop, sig, out, IInv, TypeOK, ControlOK, DataOK,
     Integrity, Ends, Offsets, Credit, Exit, Errno, Closed, Late, AtEnd, Quiet
<1> QED  BY <1>1, <1>2

\* The inductive invariant holds of every behaviour of copybyfd.
THEOREM Invariance == Spec => []IInv
  BY InitIInv, StepIInv, PTL DEF Spec

\* The variables of copybyfd, and its offsets into the two files, keep to
\* their ranges (transfer.c:428-440).
THEOREM TypeCorrect == Spec => []TypeOK
  BY Invariance, PTL DEF IInv

(***************************************************************************)
(* For every file and buffer size, whatever reads, writes and signals do:  *)
(* the bytes between the start of the copy and the destination's offset    *)
(* are the source's, and all others are untouched (transfer.c:488-534).    *)
(***************************************************************************)
THEOREM CopyIntegrity == Spec => []Integrity
  BY Invariance, PTL DEF IInv

\* Both handles are closed once on each way out (transfer.c:494-550).
THEOREM HandlesClosed == Spec => []HandlesClosedOnce
<1>1. IInv => HandlesClosedOnce
  BY DEF IInv, TypeOK, ControlOK, DataOK, PCs, Closed, Exit, HandlesClosedOnce,
     InLoop, InBuffer, Handles
<1> QED  BY Invariance, <1>1, PTL

\* errno names the call that failed, whatever closing and the alarm handler
\* did to it meanwhile (transfer.c:492-502, 545, 710-713).
THEOREM ErrnoKept == Spec => []ErrnoTellsCause
<1>1. IInv => ErrnoTellsCause
  BY DEF IInv, Errno, ErrnoTellsCause
<1> QED  BY Invariance, <1>1, PTL

\* The progress line never claims more than was written (transfer.c:530).
THEOREM ProgressExact == Spec => []ProgressHonest
<1>1. IInv => ProgressHonest
  <2> SUFFICES ASSUME IInv PROVE ProgressHonest
    OBVIOUS
  <2> USE DEF IInv, TypeOK, DataOK, Sizes
  <2>1. pc \in PCs /\ BufBlocks \in Nat
    BY BoundsAssumption DEF ControlOK
  <2>2. /\ start + transferred <= dpos
        /\ dpos <= start + transferred + BufBlocks
    BY <2>1 DEF Credit, PCs, InLoop, InBuffer, After
  <2>3. ret = "ok" => dpos = start + transferred
    BY DEF Credit, Exit, After
  <2> QED  BY <2>2, <2>3 DEF ProgressHonest
<1> QED  BY Invariance, <1>1, PTL

\* After SIGINT at most one more read or write is begun (transfer.c:489, 508).
THEOREM StopsPromptly == Spec => []PromptStop
<1>1. IInv => PromptStop
  BY DEF IInv, Late, PromptStop
<1> QED  BY Invariance, <1>1, PTL

(***************************************************************************)
(* If every write accepts something, success means that the destination is *)
(* complete (transfer.c:536-561).                                          *)
(***************************************************************************)
THEOREM Complete == ~ZeroWrites => (Spec => []SuccessComplete)
<1> SUFFICES ASSUME ~ZeroWrites PROVE Spec => []SuccessComplete
  OBVIOUS
<1>1. IInv => SuccessComplete
  <2> SUFFICES ASSUME IInv, ret = "ok"
               PROVE  dst = [i \in Positions |->
                               IF i <= start THEN Old
                               ELSE IF i <= size THEN i ELSE Absent]
    BY DEF SuccessComplete
  <2>1. dpos = size /\ size \in Nat /\ start \in Nat
    BY DEF IInv, Exit, AtEnd, Offsets, TypeOK, DataOK, Sizes
  <2> QED
    BY <2>1 DEF IInv, TypeOK, DataOK, Integrity, Ends, FC!Files, FC!Positions,
       Positions
<1> QED  BY Invariance, <1>1, PTL

(***************************************************************************)
(* If no signal is raised inside a system call, the timer never outlives   *)
(* its handler and SIGALRM does not kill the process (transfer.c:497-538). *)
(***************************************************************************)
THEOREM TimerConfined == ~MidCall => (Spec => []AlarmConfined)
<1> SUFFICES ASSUME ~MidCall PROVE Spec => []AlarmConfined
  OBVIOUS
<1>1. IInv => AlarmConfined
  BY DEF IInv, Quiet, AlarmConfined
<1> QED  BY Invariance, <1>1, PTL

-----------------------------------------------------------------------------
(* copybyfd implements FileCopy. *)

LEMMA RefinesInit == Init => FC!Init
  BY DEF Init, FC!Init

LEMMA RefinesStep ==
  ASSUME ~ZeroWrites, IInv, [Next]_vars
  PROVE  [FC!Next]_(FC!vars)
<1> USE DEF FC!vars
<1>0. IInv /\ Offsets /\ Exit /\ AtEnd /\ DataOK /\ ControlOK
  BY DEF IInv, TypeOK
<1>1. CASE UNCHANGED vars
  BY <1>1 DEF vars, file, out
<1>2. CASE NewCommand \/ Signals
  BY <1>2 DEF NewCommand, Signals, Interrupt, TimerFires, AlarmHandler, Killed,
     file, out
<1>3. CASE Begin
  <2>1. pc = "idle" /\ pc' # "idle" /\ ret' = "none"
    BY <1>3 DEF Begin, Go
  <2>2. \E len \in Sizes : \E n \in 0 .. len : \E o \in 0 .. n :
          size' = len /\ start' = o /\ dpos' = o /\ dst' = FC!OldFile(n)
    BY <1>3 DEF Begin
  <2>3. FC!Begin
    BY <2>1, <2>2 DEF FC!Begin, FC!Sizes, Sizes
  <2> QED  BY <2>3 DEF FC!Next
<1>4. CASE PrintProgress \/ Arm \/ LoopTest \/ InnerTest
  BY <1>4 DEF PrintProgress, Arm, LoopTest, InnerTest, Go, file, out
<1>5. CASE Read
  BY <1>5 DEF Read, Go, AtEof, out
<1>6. CASE Write
  <2>1. pc = "write" /\ pc' # "idle" /\ UNCHANGED <<ret, size, start>>
    BY <1>6 DEF Write, Go, out
  <2>2. ASSUME NEW k \in 1 .. left,
               dst' = FC!Stored(dst, dpos, BufferPos, k), dpos' = dpos + k
        PROVE  FC!Next
    <3>1. BufferPos = dpos /\ dpos + k <= size /\ k \in FC!Positions
      BY <1>0, BoundsAssumption DEF BufferPos, Offsets, DataOK, Sizes, FC!Positions
    <3>2. FC!Move(k)
      BY <2>1, <2>2, <3>1 DEF FC!Move
    <3> QED  BY <3>1, <3>2 DEF FC!Next
  <2>3. CASE UNCHANGED <<dst, dpos>>
    BY <2>1, <2>3
  <2> QED  BY <1>6, <2>2, <2>3 DEF Write
<1>7. CASE CloseFrom \/ CloseTo
  BY <1>7 DEF CloseFrom, CloseTo, AfterCloses, Close, Go, file
<1>8. CASE CancelAlarm \/ DefaultAlarm \/ Decide
  BY <1>8 DEF CancelAlarm, DefaultAlarm, Decide, Go, file, out
<1>9. CASE Return
  <2>1. pc = "return" /\ pc' = "idle" /\ UNCHANGED <<size, start, dpos, dst>>
    BY <1>9 DEF Return, Go, file
  <2>2. CASE ret' = "ok"
    <3>1. dpos = size
      BY <1>0, <1>9, <2>2 DEF Return, AtEnd, Offsets, DataOK, Sizes
    <3>2. FC!Finish
      BY <2>1, <2>2, <3>1 DEF FC!Finish
    <3> QED  BY <3>2 DEF FC!Next
  <2>3. CASE ret' = "failed"
    BY <2>1, <2>3 DEF FC!Abort, FC!Next
  <2> QED  BY <1>9, <2>2, <2>3 DEF Return
<1> QED
  BY <1>1, <1>2, <1>3, <1>4, <1>5, <1>6, <1>7, <1>8, <1>9 DEF Next, Copying

(***************************************************************************)
(* If every write accepts something, copybyfd is the copy FileCopy         *)
(* promises: in order, without holes, and successful only at the end of    *)
(* the source (transfer.c:418-562).                                        *)
(***************************************************************************)
THEOREM Refinement == ~ZeroWrites => (Spec => RefinesFileCopy)
<1> SUFFICES ASSUME ~ZeroWrites PROVE Spec => FC!Spec
  BY DEF RefinesFileCopy
<1>1. IInv /\ [Next]_vars => [FC!Next]_(FC!vars)
  BY RefinesStep
<1> QED  BY Invariance, RefinesInit, <1>1, PTL DEF Spec, FC!Spec
=============================================================================
