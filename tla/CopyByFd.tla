------------------------------ MODULE CopyByFd ------------------------------
(***************************************************************************)
(* copybyfd (transfer.c): the read/write loop every get, put and page goes *)
(* through, together with the asynchronous machinery around it: the        *)
(* SIGALRM timer that redraws the progress line (alarm_handler), the       *)
(* SIGINT flag (int_handler) and the two file handles it must give back.   *)
(*                                                                         *)
(* The process performs any number of transfers one after another; the     *)
(* signal state outlives each of them, as in the program.  A step is a     *)
(* system call or the computation between two of them.  A file is a        *)
(* function from block positions (see FileCopy); block i of the source     *)
(* holds i, so a block stored at the wrong place shows.                    *)
(*                                                                         *)
(* X_Fault is X with a plausible mistake in it: never used by the model,   *)
(* substituted for X to see that the property about it notices.            *)
(***************************************************************************)
EXTENDS Integers

CONSTANTS
    MaxSize,      \* bound: blocks in the largest file
    BufBlocks,    \* TRANSFER_BUFSIZE in blocks
    MidCall,      \* may SIGALRM be raised inside a system call of the process,
                  \* to be delivered when the call returns?
    ZeroWrites    \* may write(2) / smb_write accept nothing and return 0?

ASSUME BoundsAssumption ==
    MaxSize \in Nat \ {0} /\ BufBlocks \in Nat \ {0}
ASSUME SwitchesAssumption == MidCall \in BOOLEAN /\ ZeroWrites \in BOOLEAN

VARIABLES
    pc,           \* where in copybyfd the process is; "idle" outside it
    alive,        \* FALSE once a signal's default action has killed it
    intr,         \* int_signal
    timer,        \* is an alarm() running?
    pend,         \* SIGALRM: "none", "raised", or "due" before any other step
    disp,         \* disposition of SIGALRM: "default" or "handler"
    errno,        \* which call set it last
    saved,        \* save_errno of copybyfd
    path,         \* how the loop was left: "run", "error", "intr", "end"
    cause,        \* history: the call whose failure the caller must learn of
    size,         \* blocks in the source
    start,        \* argument cur
    spos,         \* file offset of handle from
    dpos,         \* file offset of handle to
    dst,          \* the destination file
    count, left,  \* count and countleft
    transferred,  \* the file-scope counter that printprogress reads
    closes,       \* how often each handle was closed
    ret,          \* "none", "ok" (non-zero) or "failed" (0)
    late          \* history: reads and writes begun since SIGINT, up to 2

io   == <<errno, saved, path, cause>>
file == <<size, start, spos, dpos, dst>>
loop == <<count, left, transferred>>
sig  == <<timer, disp>>
out  == <<closes, ret>>
vars == <<pc, alive, intr, sig, pend, io, file, loop, out, late>>

FC == INSTANCE FileCopy WITH
        phase <- IF pc = "idle" THEN "idle" ELSE "copying",
        result <- ret, pos <- dpos

Absent    == FC!Absent
Old       == FC!Old
Positions == 1 .. MaxSize
Sizes     == 0 .. MaxSize
Handles   == {"from", "to"}
Errnos    == {"none", "read", "write", "close", "EINTR"}

PCs == {"idle", "print", "arm", "loop", "read", "inner", "write", "closeFrom",
        "closeTo", "alarm0", "dfl", "decide", "return"}

\* The steps that are system calls, inside which a signal can be raised.
SystemCalls == {"print", "arm", "read", "write", "closeFrom", "closeTo",
                "alarm0", "dfl"}

Smaller(a, b) == IF a < b THEN a ELSE b

-----------------------------------------------------------------------------
(***************************************************************************)
(* The process takes its next step only when no signal waits for it.  The  *)
(* one exception is a signal raised after a system call was entered: the   *)
(* call still takes effect, and the signal is due when it returns.         *)
(***************************************************************************)
Running ==
    /\ alive
    /\ pend = "none" \/ (MidCall /\ pend = "raised" /\ pc \in SystemCalls)
    /\ pend' = IF pend = "raised" THEN "due" ELSE pend

Go(from, to) == pc = from /\ pc' = to /\ Running /\ UNCHANGED alive

\* do_line clears int_signal before the next command is read.
NewCommand ==
    /\ pc = "idle" /\ alive /\ pend = "none"
    /\ intr' = FALSE
    /\ UNCHANGED <<pc, alive, sig, pend, io, file, loop, out, late>>

(***************************************************************************)
(* The call, up to the loop or the first progress line.  transferfile has  *)
(* opened both handles, checked on a resume that the source is longer than *)
(* the destination, and seeked both to start.  The progress line is used   *)
(* when the variable showprogress is on and sigaction succeeds.            *)
(***************************************************************************)
Begin ==
    /\ \E show \in BOOLEAN :
          /\ Go("idle", IF show THEN "print" ELSE "loop")
          /\ disp' = IF show THEN "handler" ELSE disp
    /\ \E len \in Sizes : \E n \in 0 .. len : \E o \in 0 .. n :
          /\ size' = len /\ start' = o /\ spos' = o /\ dpos' = o
          /\ dst' = FC!OldFile(n)
    /\ transferred' = 0 /\ count' = -1 /\ left' = 0
    /\ path' = "run" /\ cause' = "none" /\ ret' = "none"
    /\ closes' = [h \in Handles |-> 0] /\ late' = 0
    /\ UNCHANGED <<intr, timer, errno, saved>>

PrintProgress ==
    /\ Go("print", "arm")
    /\ UNCHANGED <<intr, sig, io, file, loop, out, late>>

Arm ==
    /\ Go("arm", "loop")
    /\ timer' = TRUE
    /\ UNCHANGED <<intr, disp, io, file, loop, out, late>>

LoopTest ==
    /\ Go("loop", IF intr THEN "alarm0" ELSE "read")
    /\ UNCHANGED <<intr, sig, io, file, loop, out, late>>

\* Reads and writes begun while int_signal was already set; 2 stands for more.
Begun == late' = IF intr THEN Smaller(late + 1, 2) ELSE late

\* save_errno keeps what the failed call put into errno.
Fails(call) ==
    /\ errno' = call /\ saved' = call
    /\ path' = "error" /\ cause' = call

\* What one read may return: the buffer's size at most.
Readable == Smaller(BufBlocks, size - spos)

AtEof_Fault == "loop"
AtEof == "alarm0"

Read ==
    /\ Begun
    /\ \/ \E n \in 1 .. Readable :
             /\ Go("read", "inner")
             /\ spos' = spos + n
             /\ count' = n /\ left' = n
             /\ UNCHANGED io
       \/ /\ spos = size
          /\ Go("read", AtEof)
          /\ count' = 0
          /\ UNCHANGED <<left, spos, io>>
       \/ /\ Go("read", "closeFrom")
          /\ Fails("read")
          /\ count' = -1
          /\ UNCHANGED <<left, spos>>
    /\ UNCHANGED <<intr, sig, size, start, dpos, dst, transferred, out>>

MoreToWrite_Fault == left # 0
MoreToWrite == ~intr /\ left # 0

Credited_Fault == transferred + count
Credited == transferred + (count - left)

\* The test of the inner loop; when it fails the written part is accounted.
InnerTest ==
    /\ \/ /\ MoreToWrite
          /\ Go("inner", "write")
          /\ UNCHANGED transferred
       \/ /\ ~MoreToWrite
          /\ Go("inner", "loop")
          /\ transferred' = Credited
    /\ UNCHANGED <<intr, sig, io, file, count, left, out, late>>

BufferPos_Fault == spos - count
\* The block of the source at buf + (count - left).
BufferPos == spos - left

LeftAfter_Fault(k) == 0
LeftAfter(k) == left - k

Write ==
    /\ Begun
    /\ \/ \E k \in 1 .. left :
             /\ Go("write", "inner")
             /\ dst' = FC!Stored(dst, dpos, BufferPos, k)
             /\ dpos' = dpos + k
             /\ left' = LeftAfter(k)
             /\ UNCHANGED <<io, transferred>>
       \/ /\ ZeroWrites
          /\ Go("write", "alarm0")
          /\ transferred' = Credited
          /\ UNCHANGED <<io, dst, dpos, left>>
       \/ /\ Go("write", "closeFrom")
          /\ Fails("write")
          /\ UNCHANGED <<dst, dpos, left, transferred>>
    /\ UNCHANGED <<intr, sig, size, start, spos, count, out>>

\* Closing may fail; the handle is gone all the same, and errno with it.
Close(h) ==
    /\ closes' = [closes EXCEPT ![h] = @ + 1]
    /\ \/ UNCHANGED <<errno, cause>>
       \/ /\ errno' = "close"
          /\ cause' = IF path = "end" THEN "close" ELSE cause
    /\ UNCHANGED <<intr, sig, saved, path, file, loop, ret, late>>

CloseFrom_Fault ==
    /\ Close("from")
    /\ Go("closeFrom", IF cause' = "close" THEN "return" ELSE "closeTo")
CloseFrom == Go("closeFrom", "closeTo") /\ Close("from")

AfterCloses_Fault == "return"
\* On an error the timer is still running when the handles are closed.
AfterCloses == IF path = "error" THEN "alarm0" ELSE "return"

CloseTo == Go("closeTo", AfterCloses) /\ Close("to")

CancelAlarm ==
    /\ Go("alarm0", "dfl")
    /\ timer' = FALSE
    /\ UNCHANGED <<intr, disp, io, file, loop, out, late>>

DefaultAlarm ==
    /\ Go("dfl", IF path = "error" THEN "return" ELSE "decide")
    /\ disp' = "default"
    /\ UNCHANGED <<intr, timer, io, file, loop, out, late>>

Interrupted_Fault == FALSE
Interrupted == intr

Decide ==
    /\ Go("decide", "closeFrom")
    /\ path' = IF Interrupted THEN "intr" ELSE "end"
    /\ cause' = IF Interrupted THEN "EINTR" ELSE "none"
    /\ UNCHANGED <<intr, sig, errno, saved, file, loop, out, late>>

ReturnErrno_Fault == IF path = "intr" THEN "EINTR" ELSE errno
ReturnErrno ==
    IF path = "error" THEN saved ELSE IF path = "intr" THEN "EINTR" ELSE errno

\* The three returns, with errno as each leaves it.
Return ==
    /\ Go("return", "idle")
    /\ errno' = ReturnErrno
    /\ ret' = IF path = "end" /\ cause = "none" THEN "ok" ELSE "failed"
    /\ UNCHANGED <<intr, sig, saved, path, cause, file, loop, closes, late>>

-----------------------------------------------------------------------------
(* What happens to the process. *)

Interrupt ==
    /\ alive /\ ~intr
    /\ intr' = TRUE
    /\ UNCHANGED <<pc, alive, sig, pend, io, file, loop, out, late>>

TimerFires ==
    /\ alive /\ timer /\ pend = "none"
    /\ timer' = FALSE /\ pend' = "raised"
    /\ UNCHANGED <<pc, alive, intr, disp, io, file, loop, out, late>>

\* alarm_handler redraws the line, sets the timer again and restores errno.
AlarmHandler ==
    /\ alive /\ pend # "none" /\ disp = "handler"
    /\ pend' = "none" /\ timer' = TRUE
    /\ UNCHANGED <<pc, alive, intr, disp, io, file, loop, out, late>>

Killed ==
    /\ alive /\ pend # "none" /\ disp = "default"
    /\ alive' = FALSE
    /\ UNCHANGED <<pc, intr, sig, pend, io, file, loop, out, late>>

-----------------------------------------------------------------------------
Init ==
    /\ pc = "idle" /\ alive = TRUE /\ intr = FALSE
    /\ timer = FALSE /\ pend = "none" /\ disp = "default"
    /\ errno = "none" /\ saved = "none" /\ path = "run" /\ cause = "none"
    /\ size = 0 /\ start = 0 /\ spos = 0 /\ dpos = 0 /\ dst = FC!OldFile(0)
    /\ count = -1 /\ left = 0 /\ transferred = 0
    /\ closes = [h \in Handles |-> 0] /\ ret = "none" /\ late = 0

Copying ==
    \/ PrintProgress \/ Arm \/ LoopTest \/ Read \/ InnerTest \/ Write
    \/ CloseFrom \/ CloseTo \/ CancelAlarm \/ DefaultAlarm \/ Decide \/ Return

Signals == Interrupt \/ TimerFires \/ AlarmHandler \/ Killed

Next == NewCommand \/ Begin \/ Copying \/ Signals

Spec == Init /\ [][Next]_vars

(***************************************************************************)
(* Every call returns and a raised signal is delivered.  The process makes *)
(* progress although the timer keeps raising signals: it does so once a    *)
(* second only, so steps of the process are taken between two of them.     *)
(***************************************************************************)
FairSpec == Spec /\ SF_vars(Copying) /\ WF_vars(AlarmHandler \/ Killed)
-----------------------------------------------------------------------------
ControlOK ==
    /\ pc \in PCs /\ path \in {"run", "error", "intr", "end"}
    /\ alive \in BOOLEAN /\ intr \in BOOLEAN /\ timer \in BOOLEAN
    /\ pend \in {"none", "raised", "due"} /\ disp \in {"default", "handler"}
    /\ errno \in Errnos /\ saved \in Errnos /\ cause \in Errnos
    /\ ret \in {"none", "ok", "failed"}

DataOK ==
    /\ size \in Sizes /\ start \in Sizes /\ spos \in Sizes /\ dpos \in Sizes
    /\ dst \in FC!Files
    /\ count \in -1 .. BufBlocks /\ left \in 0 .. BufBlocks
    /\ transferred \in Sizes
    /\ closes \in [Handles -> Nat] /\ late \in 0 .. 2

TypeOK == ControlOK /\ DataOK

(***************************************************************************)
(* Whatever short reads, short writes, errors, interrupts and signals      *)
(* happen, the destination has exactly the source between start and its    *)
(* file offset, and is untouched before and after that.  This is what      *)
(* makes a resumed copy (cur > 0) and an abandoned one trustworthy.        *)
(***************************************************************************)
Integrity ==
    \A i \in Positions :
       /\ i \in start+1 .. dpos => dst[i] = i
       /\ i <= start => dst[i] = Old
       /\ i > dpos => dst[i] \in {Old, Absent}

(***************************************************************************)
(* "On failure 0 is returned" (transfer.c:422): when copybyfd reports      *)
(* success, the destination is the kept part followed by all the rest of   *)
(* the source, and nothing else.                                           *)
(***************************************************************************)
SuccessComplete ==
    ret = "ok" =>
       dst = [i \in Positions |-> IF i <= start THEN Old
                                  ELSE IF i <= size THEN i ELSE Absent]

(***************************************************************************)
(* "from and to must always be closed" (transfer.c:549): both, on every    *)
(* one of the four ways out, also when closing the first fails, and        *)
(* neither twice (a second close would hit a handle opened meanwhile).     *)
(***************************************************************************)
HandlesClosedOnce ==
    /\ \A h \in Handles : closes[h] <= 1
    /\ ret # "none" => \A h \in Handles : closes[h] = 1

(***************************************************************************)
(* When 0 is returned errno tells the call that made the copy fail,        *)
(* although closing the handles may fail too and the alarm handler runs    *)
(* in between (the callers print it with cmdwarn).                         *)
(***************************************************************************)
ErrnoTellsCause == pc = "idle" /\ ret = "failed" => errno = cause

(***************************************************************************)
(* At any moment alarm_handler may read transferred: what the progress     *)
(* line then claims was really written, lags by at most one buffer, and is *)
(* exact once copybyfd has returned success (printcompleted's line).       *)
(***************************************************************************)
ProgressHonest ==
    /\ start + transferred <= dpos
    /\ dpos <= start + transferred + BufBlocks
    /\ ret = "ok" => dpos = start + transferred

(***************************************************************************)
(* "All I/O system calls should stop and not be called further" (DESIGN,   *)
(* on int_signal): after SIGINT at most the one read or write is begun     *)
(* whose test had already been passed.                                     *)
(***************************************************************************)
PromptStop == late <= 1

(***************************************************************************)
(* The timer lives only while its handler is installed: never when         *)
(* printprogress runs outside the handler, nor after copybyfd returned, so *)
(* that SIGALRM's default action never ends samblah.                       *)
(***************************************************************************)
AlarmConfined ==
    /\ disp = "default" => ~timer /\ pend = "none"
    /\ pc \in {"idle", "print", "arm", "decide"} => ~timer /\ pend = "none"

(***************************************************************************)
(* samblah ends by `quit', at end of input, or on an error with a message  *)
(* (interface.c:21-23); a transfer does not end it.                        *)
(***************************************************************************)
NeverKilled == alive

\* The copy, seen through the handle's offset, is the promised one.
RefinesFileCopy == FC!Spec

\* Every call of copybyfd returns, however often the timer interrupts it.
Returns == pc # "idle" ~> pc = "idle"
=============================================================================
