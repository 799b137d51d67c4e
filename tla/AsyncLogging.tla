---------------------------- MODULE AsyncLogging ----------------------------
(***************************************************************************)
(* The double-buffered asynchronous logger of LogSystem/AsyncLogging.cc.   *)
(*                                                                         *)
(* Any number of front-end threads call append(); one back-end thread      *)
(* takes the filled buffers and writes them to the log file; the owner of  *)
(* the object calls start() and stop().  Everything done under mutex_ is   *)
(* one action: the front end keeps no state between two appends, so the    *)
(* number of front-end threads does not matter and none is named.          *)
(*                                                                         *)
(* Buffers have an identity, as the shared_ptrs of the code do; a line is  *)
(* its number in the order in which append() accepted the lines, together  *)
(* with the length it takes in the buffer.                                 *)
(***************************************************************************)
EXTENDS Integers, Sequences, SequencesExt

CONSTANTS
    Buffers,    \* the FixedBuffer<kLargeBuffer> objects the allocator can hand out
    NULL,       \* the empty shared_ptr
    Size,       \* kLargeBuffer, the bytes of one buffer
    MaxLine,    \* kSmallBuffer, the longest line a Logger hands over
    DropAbove,  \* 25 in the code: a longer hand-over is cut to two buffers
    MaxLines    \* bound of the model: how many lines are appended

ASSUME NullAssumption == NULL \notin Buffers
ASSUME SizeAssumption == /\ MaxLine \in Nat \ {0}
                         /\ Size \in Nat
                         /\ MaxLine < Size
ASSUME DropAssumption == DropAbove \in Nat /\ DropAbove >= 2
ASSUME BoundAssumption == MaxLines \in Nat

VARIABLES
    running_,       \* set by start(), cleared by stop(), read without the lock
    latch_,         \* count_ of the CountDownLatch start() waits for
    currentBuffer_, \* the buffer the front end fills
    nextBuffer_,    \* the spare of the front end, or NULL
    buffers_,       \* filled buffers, oldest first
    newBuffer1,     \* the two spares of the back end, or NULL
    newBuffer2,
    buffersToWrite, \* what the back end took, oldest first
    written,        \* how many of buffersToWrite output.append() has seen
    text,           \* text[b]: the lines in data_[0 .. cur_) of buffer b
    length,         \* length[b]: cur_ - data_ of buffer b
    appended,       \* how many lines append() was called with
    output,         \* the lines fwrite put into the FILE, in order
    flushed,        \* how many of them the last fflush covered
    lost,           \* history: lines that were discarded
    stopMark,       \* history: value of appended when stop() was called
    backend,        \* program counter of threadFunc
    owner           \* program counter of the thread that starts and stops

front == <<currentBuffer_, nextBuffer_, buffers_>>
back  == <<newBuffer1, newBuffer2, buffersToWrite, written>>
file  == <<output, flushed>>
heap  == <<text, length>>
vars  == <<running_, latch_, front, back, heap, appended, file, lost,
           stopMark, backend, owner>>

BackendPc == {"unborn", "entry", "setup", "check", "lock", "waiting", "woken",
              "trim", "write", "recycle", "exit", "done"}
OwnerPc   == {"new", "latch", "started", "stopping", "joining", "stopped"}

-----------------------------------------------------------------------------
(* FixedBuffer and the pointers to it.                                     *)

\* mutant: the room is measured from data_ instead of cur_
BugAvail(b) == Size

Avail(b) == Size - length[b]

\* the lines of the buffers of s, one after the other
Lines(s) == FlattenSeq([i \in DOMAIN s |-> text[s[i]]])

LinesIn(S) == UNION {ToSet(text[b]) : b \in S}

Referenced == ({currentBuffer_, nextBuffer_, newBuffer1, newBuffer2}
                 \cup ToSet(buffers_) \cup ToSet(buffersToWrite)) \ {NULL}

\* newElement<Buffer>() returns an object nobody points to
Fresh == Buffers \ Referenced

\* which of them newElement() returns makes no difference: the model takes one
Pick(S) == CHOOSE b \in S : TRUE

\* the destructor or reset() of the buffers in S leaves no line behind
Emptied(S) ==
    /\ text'   = [b \in Buffers |-> IF b \in S THEN <<>> ELSE text[b]]
    /\ length' = [b \in Buffers |-> IF b \in S THEN 0 ELSE length[b]]

\* mutant: the copy goes to data_ instead of cur_
BugPutLine(b, n, l) ==
    /\ text'   = [text EXCEPT ![b] = <<n>>]
    /\ length' = [length EXCEPT ![b] = l]
    /\ UNCHANGED lost

\* FixedBuffer::append drops what does not fit
PutLine(b, n, l) ==
    IF Avail(b) > l
    THEN /\ text'   = [text EXCEPT ![b] = Append(@, n)]
         /\ length' = [length EXCEPT ![b] = @ + l]
         /\ UNCHANGED lost
    ELSE /\ lost' = lost \cup {n}
         /\ UNCHANGED heap

\* mutant: the notification is forgotten
BugNotify == UNCHANGED backend

\* cond_.notify_one(): the back end is the only waiter
Notify == backend' = IF backend = "waiting" THEN "woken" ELSE backend

-----------------------------------------------------------------------------
(* Construction.                                                           *)

Init ==
    /\ running_ = FALSE
    /\ latch_ = 1
    /\ \E b \in Buffers : b = Pick(Buffers) /\ currentBuffer_ = b
    /\ LET rest == Buffers \ {currentBuffer_}
       IN  \E b \in rest : b = Pick(rest) /\ nextBuffer_ = b
    /\ buffers_ = <<>>
    /\ newBuffer1 = NULL
    /\ newBuffer2 = NULL
    /\ buffersToWrite = <<>>
    /\ written = 0
    /\ text = [b \in Buffers |-> <<>>]
    /\ length = [b \in Buffers |-> 0]
    /\ appended = 0
    /\ output = <<>>
    /\ flushed = 0
    /\ lost = {}
    /\ stopMark = 0
    /\ backend = "unborn"
    /\ owner = "new"

-----------------------------------------------------------------------------
(* The front end: append(logline, len), one critical section.              *)

\* mutant: >= instead of >
BugFits(l) == Avail(currentBuffer_) >= l

Fits(l) == Avail(currentBuffer_) > l

\* the current buffer has room
AppendHere(l) ==
    /\ Fits(l)
    /\ PutLine(currentBuffer_, appended + 1, l)
    /\ UNCHANGED <<front, backend>>

\* the current buffer is queued; the spare, or a new buffer, takes its place
AppendNext(l) ==
    /\ ~ Fits(l)
    /\ buffers_' = Append(buffers_, currentBuffer_)
    /\ IF nextBuffer_ # NULL
       THEN currentBuffer_' = nextBuffer_
       ELSE \E b \in Fresh : b = Pick(Fresh) /\ currentBuffer_' = b
    /\ nextBuffer_' = NULL
    /\ PutLine(currentBuffer_', appended + 1, l)
    /\ Notify

AppendLine(l) ==
    /\ appended < MaxLines
    /\ appended' = appended + 1
    /\ AppendHere(l) \/ AppendNext(l)
    /\ UNCHANGED <<running_, latch_, back, file, stopMark, owner>>

-----------------------------------------------------------------------------
(* The owner: start() and stop().                                          *)

Start ==
    /\ owner = "new"
    /\ running_' = TRUE
    /\ backend' = "entry"
    /\ owner' = "latch"
    /\ UNCHANGED <<latch_, front, back, heap, appended, file, lost, stopMark>>

\* latch_.wait() returns
LatchWait ==
    /\ owner = "latch"
    /\ latch_ = 0
    /\ owner' = "started"
    /\ UNCHANGED <<running_, latch_, front, back, heap, appended, file, lost,
                   stopMark, backend>>

\* mutant: running_ is left set
BugStopClear ==
    /\ owner = "started"
    /\ stopMark' = appended
    /\ owner' = "stopping"
    /\ UNCHANGED <<running_, latch_, front, back, heap, appended, file, lost,
                   backend>>

StopClear ==
    /\ owner = "started"
    /\ running_' = FALSE
    /\ stopMark' = appended
    /\ owner' = "stopping"
    /\ UNCHANGED <<latch_, front, back, heap, appended, file, lost, backend>>

StopNotify ==
    /\ owner = "stopping"
    /\ Notify
    /\ owner' = "joining"
    /\ UNCHANGED <<running_, latch_, front, back, heap, appended, file, lost,
                   stopMark>>

StopJoin ==
    /\ owner = "joining"
    /\ backend = "done"
    /\ owner' = "stopped"
    /\ UNCHANGED <<running_, latch_, front, back, heap, appended, file, lost,
                   stopMark, backend>>

-----------------------------------------------------------------------------
(* The back end: threadFunc().                                             *)

CountDown ==
    /\ backend = "entry"
    /\ latch_' = latch_ - 1
    /\ backend' = "setup"
    /\ UNCHANGED <<running_, front, back, heap, appended, file, lost, stopMark,
                   owner>>

SetUp ==
    /\ backend = "setup"
    /\ \E b \in Fresh : b = Pick(Fresh) /\ newBuffer1' = b
    /\ LET rest == Fresh \ {newBuffer1'}
       IN  \E b \in rest : b = Pick(rest) /\ newBuffer2' = b
    /\ backend' = "check"
    /\ UNCHANGED <<running_, latch_, front, buffersToWrite, written, heap,
                   appended, file, lost, stopMark, owner>>

CheckRunning ==
    /\ backend = "check"
    /\ backend' = IF running_ THEN "lock" ELSE "exit"
    /\ UNCHANGED <<running_, latch_, front, back, heap, appended, file, lost,
                   stopMark, owner>>

\* wait_for releases the mutex it was called with
Wait ==
    /\ backend = "lock"
    /\ buffers_ = <<>>
    /\ backend' = "waiting"
    /\ UNCHANGED <<running_, latch_, front, back, heap, appended, file, lost,
                   stopMark, owner>>

\* flushInterval_ has passed, or the wake-up is spurious
Timeout ==
    /\ backend = "waiting"
    /\ backend' = "woken"
    /\ UNCHANGED <<running_, latch_, front, back, heap, appended, file, lost,
                   stopMark, owner>>

\* mutant: the current buffer goes in front of the filled ones
BugFilled == <<currentBuffer_>> \o buffers_

\* what the back end takes: the filled buffers and the current one
Filled == Append(buffers_, currentBuffer_)

\* mutant: the spare is handed over without a look at nextBuffer_
BugHandSpare == nextBuffer_' = newBuffer2 /\ newBuffer2' = NULL

HandSpare ==
    IF nextBuffer_ = NULL
    THEN nextBuffer_' = newBuffer2 /\ newBuffer2' = NULL
    ELSE UNCHANGED <<nextBuffer_, newBuffer2>>

\* the rest of the critical section, with the mutex (again) held
Swap ==
    /\ \/ backend = "lock" /\ buffers_ # <<>>
       \/ backend = "woken"
    /\ buffersToWrite' = Filled
    /\ buffers_' = buffersToWrite
    /\ currentBuffer_' = newBuffer1
    /\ newBuffer1' = NULL
    /\ HandSpare
    /\ backend' = "trim"
    /\ UNCHANGED <<running_, latch_, written, heap, appended, file, lost,
                   stopMark, owner>>

\* more than DropAbove buffers: only the two oldest are kept
Trim ==
    /\ backend = "trim"
    /\ IF Len(buffersToWrite) > DropAbove
       THEN LET cut == SubSeq(buffersToWrite, 3, Len(buffersToWrite))
            IN  /\ buffersToWrite' = SubSeq(buffersToWrite, 1, 2)
                /\ lost' = lost \cup LinesIn(ToSet(cut))
                /\ Emptied(ToSet(cut))
       ELSE UNCHANGED <<buffersToWrite, lost, heap>>
    /\ written' = 0
    /\ backend' = "write"
    /\ UNCHANGED <<running_, latch_, front, newBuffer1, newBuffer2, appended,
                   file, stopMark, owner>>

NextLines == text[buffersToWrite[written + 1]]

\* output.append(data, length) of one buffer, of which k lines reach the FILE
WriteLines(k) ==
    /\ output' = output \o SubSeq(NextLines, 1, k)
    /\ lost' = lost \cup ToSet(SubSeq(NextLines, k + 1, Len(NextLines)))
    /\ written' = written + 1
    /\ UNCHANGED <<running_, latch_, front, newBuffer1, newBuffer2,
                   buffersToWrite, heap, appended, flushed, stopMark, backend,
                   owner>>

WriteBuffer ==
    /\ backend = "write"
    /\ written < Len(buffersToWrite)
    /\ WriteLines(Len(NextLines))

\* ferror() ends the loop of LogFile::append; the line the error cuts counts
\* as lost with those behind it
WriteError ==
    /\ backend = "write"
    /\ written < Len(buffersToWrite)
    /\ \E k \in 0 .. Len(NextLines) - 1 : WriteLines(k)

WriteEnd ==
    /\ backend = "write"
    /\ written = Len(buffersToWrite)
    /\ backend' = "recycle"
    /\ UNCHANGED <<running_, latch_, front, back, heap, appended, file, lost,
                   stopMark, owner>>

\* resize(2)
Kept == SubSeq(buffersToWrite, 1,
               IF Len(buffersToWrite) > 2 THEN 2 ELSE Len(buffersToWrite))

\* mutant: the buffer that became newBuffer1 is not popped
BugRefill ==
    /\ newBuffer1' = IF newBuffer1 = NULL THEN Last(Kept) ELSE newBuffer1
    /\ newBuffer2' = IF newBuffer2 = NULL THEN Last(Kept) ELSE newBuffer2

\* the missing spares come from the back of what was written
Refill ==
    LET rest == IF newBuffer1 = NULL THEN Front(Kept) ELSE Kept
    IN  /\ newBuffer1' = IF newBuffer1 = NULL THEN Last(Kept) ELSE newBuffer1
        /\ newBuffer2' = IF newBuffer2 = NULL THEN Last(rest) ELSE newBuffer2

\* mutant: what fwrite buffered stays in memory
BugFlush == UNCHANGED flushed

Flush == flushed' = Len(output)

\* clear() and flush() end the round
Recycle ==
    /\ backend = "recycle"
    /\ Refill
    /\ Emptied(ToSet(buffersToWrite))
    /\ buffersToWrite' = <<>>
    /\ written' = 0
    /\ Flush
    /\ backend' = "check"
    /\ UNCHANGED <<running_, latch_, front, appended, output, lost, stopMark,
                   owner>>

\* the last flush and the destructors of threadFunc's locals
Exit ==
    /\ backend = "exit"
    /\ newBuffer1' = NULL
    /\ newBuffer2' = NULL
    /\ Flush
    /\ backend' = "done"
    /\ UNCHANGED <<running_, latch_, front, buffersToWrite, written, heap,
                   appended, output, lost, stopMark, owner>>

-----------------------------------------------------------------------------
Frontend == \E l \in 1 .. MaxLine : AppendLine(l)

Owner == Start \/ LatchWait \/ StopClear \/ StopNotify \/ StopJoin

Backend == \/ CountDown \/ SetUp \/ CheckRunning \/ Wait \/ Timeout \/ Swap
           \/ Trim \/ WriteBuffer \/ WriteError \/ WriteEnd \/ Recycle \/ Exit

Next == Frontend \/ Owner \/ Backend

Spec == Init /\ [][Next]_vars

\* The operating system runs a runnable thread, and wait_for returns after
\* flushInterval_ at the latest: the back end never halts in mid-loop.  The
\* owner goes on inside start() and stop(); whether it calls stop() is open.
Fairness == /\ WF_vars(Backend)
            /\ WF_vars(LatchWait \/ StopNotify \/ StopJoin)

FairSpec == Spec /\ Fairness
-----------------------------------------------------------------------------
(* Properties.                                                             *)

TypeOK ==
    /\ running_ \in BOOLEAN
    /\ latch_ \in 0 .. 1
    /\ currentBuffer_ \in Buffers \cup {NULL}
    /\ nextBuffer_ \in Buffers \cup {NULL}
    /\ newBuffer1 \in Buffers \cup {NULL}
    /\ newBuffer2 \in Buffers \cup {NULL}
    /\ buffers_ \in Seq(Buffers)
    /\ buffersToWrite \in Seq(Buffers)
    /\ written \in 0 .. Len(buffersToWrite)
    /\ appended \in Nat
    /\ text \in [Buffers -> Seq(1 .. appended)]
    /\ length \in [Buffers -> 0 .. Size]
    /\ output \in Seq(1 .. appended)
    /\ flushed \in 0 .. Len(output)
    /\ lost \subseteq 1 .. appended
    /\ stopMark \in 0 .. appended
    /\ backend \in BackendPc
    /\ owner \in OwnerPc

\* The assert()s of threadFunc hold where they stand: the logger runs when
\* the thread starts (AsyncLogging.cc:55), at the top of the loop both spares
\* are there and empty and nothing is left to write (66-68), the hand-over is
\* never empty (82), and there are enough written buffers to refill the
\* spares that were given away (99, 105).
AssertsHold ==
    /\ backend = "entry" => running_
    /\ backend = "lock" =>
           /\ newBuffer1 # NULL /\ length[newBuffer1] = 0
           /\ newBuffer2 # NULL /\ length[newBuffer2] = 0
           /\ buffersToWrite = <<>>
    /\ backend = "trim" => buffersToWrite # <<>>
    /\ backend = "recycle" =>
           /\ newBuffer1 = NULL => Len(buffersToWrite) >= 1
           /\ newBuffer2 = NULL => Len(buffersToWrite) >= 1
           /\ newBuffer1 = NULL /\ newBuffer2 = NULL => Len(buffersToWrite) >= 2

\* No buffer is reachable through two of the pointers: the front end never
\* writes into a buffer the back end is writing out or keeps as a spare, and
\* the pointer append() dereferences without a test is never empty.
ExclusiveOwnership ==
    /\ currentBuffer_ \notin {NULL, nextBuffer_, newBuffer1, newBuffer2}
    /\ nextBuffer_ # NULL => nextBuffer_ \notin {newBuffer1, newBuffer2}
    /\ newBuffer1 # NULL => newBuffer1 # newBuffer2
    /\ IsInjective(buffers_)
    /\ IsInjective(buffersToWrite)
    /\ ToSet(buffers_) \cap ToSet(buffersToWrite) = {}
    /\ \A b \in ToSet(buffers_) \cup ToSet(buffersToWrite) :
           b \notin {currentBuffer_, nextBuffer_, newBuffer1, newBuffer2}

\* the lines that are in memory, in the order in which they will be written
Pending == Lines(SubSeq(buffersToWrite, written + 1, Len(buffersToWrite)))
               \o Lines(buffers_) \o text[currentBuffer_]

\* What is in the file followed by what is in memory is exactly the lines
\* append() accepted and nobody discarded, once each and in the order of the
\* calls, through every swap, recycling, cut and write error.
InOrderOnce ==
    /\ IsSorted(output \o Pending, <)
    /\ ToSet(output \o Pending) = (1 .. appended) \ lost

\* append() itself never discards a line: whichever buffer it turns to, the
\* spare or a new one, is empty and large enough (FixedBuffer::append would
\* drop the line silently).
AppendNeverDrops == [][appended' # appended => lost' = lost]_vars

\* The back end does not sleep on filled buffers: the notify_one() of append()
\* reaches it whenever it waits, so that a full buffer never has to wait for
\* the flush interval.
NoSleepOnFullBuffer == backend = "waiting" => buffers_ = <<>>

\* Every line that append() accepted reaches the disk, or is discarded under
\* overload or by a write error, as long as nobody calls stop(): flushInterval_
\* bounds the time a half-full buffer stays in memory.
OnDisk(i) == i \in ToSet(SubSeq(output, 1, flushed))

EventuallyOnDisk ==
    \A i \in 1 .. MaxLines :
        owner = "started" /\ appended >= i ~>
            OnDisk(i) \/ i \in lost \/ owner \in {"stopping", "joining", "stopped"}

\* stop() returns, whatever the back end is doing when it is called, and
\* although running_ is cleared without the mutex.
StopReturns == owner = "stopping" ~> owner = "stopped"

\* The back end writes the buffered log into the file (AsyncLogging.h:30): when
\* stop() has returned, every line that was accepted before the call is in the
\* file or was discarded.
ShutdownDrains ==
    owner = "stopped" =>
        \A i \in 1 .. stopMark : i \in lost \/ i \in ToSet(output)

-----------------------------------------------------------------------------
(* The logger implements the pipe.                                         *)

Pipe == INSTANCE LogPipe WITH accepted <- appended, flight <- Pending,
                              sink <- output, gone <- lost

\* Seen from the threads that log, the double buffering, the cut under
\* overload and the write errors are a FIFO pipe with discards.
ImplementsPipe == Pipe!Spec
=============================================================================
