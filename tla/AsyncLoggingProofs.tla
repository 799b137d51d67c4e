------------------------- MODULE AsyncLoggingProofs -------------------------
(***************************************************************************)
(* Proofs about the asynchronous logger, for any number of buffers and     *)
(* lines and any sizes: its types, the exclusive ownership of the buffers, *)
(* the assertions of threadFunc, and that append() never drops a line.     *)
(***************************************************************************)
EXTENDS AsyncLogging, SequenceLemmas

Ptr == Buffers \cup {NULL}

\* The typing of the pointers and program counters: all that the proof of
\* ownership needs of TypeOK.
PtrOK ==
    /\ running_ \in BOOLEAN
    /\ latch_ \in 0 .. 1
    /\ currentBuffer_ \in Ptr
    /\ nextBuffer_ \in Ptr
    /\ newBuffer1 \in Ptr
    /\ newBuffer2 \in Ptr
    /\ buffers_ \in Seq(Buffers)
    /\ buffersToWrite \in Seq(Buffers)
    /\ written \in 0 .. Len(buffersToWrite)
    /\ length \in [Buffers -> 0 .. Size]
    /\ backend \in BackendPc
    /\ owner \in OwnerPc

\* What the back end holds at each point of threadFunc.
HasSpares == newBuffer1 # NULL /\ newBuffer2 # NULL /\ buffersToWrite = <<>>
HasWork   == /\ newBuffer1 = NULL
             /\ Len(buffersToWrite) >= 1
             /\ newBuffer2 = NULL => Len(buffersToWrite) >= 2
HasNone   == newBuffer1 = NULL /\ newBuffer2 = NULL /\ buffersToWrite = <<>>

Phase ==
    /\ backend \in {"unborn", "entry", "setup", "done"} => HasNone
    /\ backend \in {"check", "lock", "waiting", "woken", "exit"} => HasSpares
    /\ backend \in {"trim", "write", "recycle"} => HasWork
    \* the spare of the front end is only missing when a buffer is queued
    /\ nextBuffer_ = NULL => Len(buffers_) >= 1
    \* start() and the thread it starts
    /\ backend = "unborn" => latch_ = 1
    /\ owner = "new" => backend = "unborn"
    /\ backend = "entry" => owner = "latch" /\ latch_ = 1
    /\ backend \notin {"unborn", "entry"} => latch_ = 0
    /\ owner = "latch" => running_

\* Only the current buffer and the queued ones hold bytes.
SparesEmpty ==
    \A b \in Buffers :
        b # currentBuffer_ /\ b \notin ToSet(buffers_) /\ b \notin ToSet(buffersToWrite)
            => length[b] = 0

IInv == PtrOK /\ ExclusiveOwnership /\ Phase /\ SparesEmpty

-----------------------------------------------------------------------------
(* The inductive invariant.                                                *)

LEMMA InitIInv == Init => IInv
<1> SUFFICES ASSUME Init PROVE IInv
  OBVIOUS
<1> USE NullAssumption, SizeAssumption DEF Init
<1>1. buffers_ = <<>> /\ buffersToWrite = <<>> /\ ToSet(<<>>) = {} /\ IsInjective(<<>>)
  BY DEF ToSet, IsInjective
<1>2. PtrOK
  <2>1. length \in [Buffers -> 0 .. Size]
    BY ONLY Init, SizeAssumption DEF Init
  <2>2. <<>> \in Seq(Buffers) /\ written \in 0 .. Len(<<>>)
    OBVIOUS
  <2>3. running_ \in BOOLEAN
    BY Zenon
  <2>7. latch_ \in 0 .. 1
    OBVIOUS
  <2>8. backend \in BackendPc /\ owner \in OwnerPc
    BY Zenon DEF BackendPc, OwnerPc
  <2>4. {currentBuffer_, nextBuffer_, newBuffer1, newBuffer2} \subseteq Ptr
    BY DEF Ptr
  <2>5. buffers_ \in Seq(Buffers) /\ buffersToWrite \in Seq(Buffers)
    BY <1>1, <2>2
  <2>6. written \in 0 .. Len(buffersToWrite)
    BY <1>1, <2>2
  <2> QED
    BY ONLY <2>1, <2>3, <2>4, <2>5, <2>6, <2>7, <2>8 DEF PtrOK
<1>3. ExclusiveOwnership
  BY <1>1 DEF ExclusiveOwnership
<1>4. Phase
  BY DEF Phase, HasNone, HasSpares, HasWork
<1>5. SparesEmpty
  BY DEF SparesEmpty
<1> QED
  BY <1>2, <1>3, <1>4, <1>5 DEF IInv

\* Every step that leaves the buffers where they are and their contents alone
\* only has to respect the program counters.
Still == UNCHANGED <<currentBuffer_, nextBuffer_, buffers_, newBuffer1, newBuffer2,
                     buffersToWrite, length>>

LEMMA StillKeeps ==
    ASSUME Still, ExclusiveOwnership, SparesEmpty
    PROVE  ExclusiveOwnership' /\ SparesEmpty'
BY DEF Still, ExclusiveOwnership, SparesEmpty

LEMMA QuietStep ==
    ASSUME IInv,
           \/ Start \/ LatchWait \/ StopClear \/ StopNotify \/ StopJoin
           \/ CountDown \/ CheckRunning \/ Wait \/ Timeout
           \/ WriteBuffer \/ WriteError \/ WriteEnd
           \/ UNCHANGED vars
    PROVE  IInv'
<1> USE DEF IInv, back, front, heap, file
<1>1. Still
  BY DEF Still, vars, Start, LatchWait, StopClear, StopNotify, StopJoin, CountDown,
         CheckRunning, Wait, Timeout, WriteBuffer, WriteError, WriteLines, WriteEnd
<1>2. PtrOK' /\ Phase'
  <2> USE <1>1 DEF Still, PtrOK, BackendPc, OwnerPc, Phase, HasNone, HasSpares, HasWork
  <2>1. CASE Start
    BY <2>1 DEF Start
  <2>2. CASE LatchWait
    BY <2>2 DEF LatchWait
  <2>3. CASE StopClear
    BY <2>3 DEF StopClear
  <2>4. CASE StopNotify
    BY <2>4 DEF StopNotify, Notify
  <2>5. CASE StopJoin
    BY <2>5 DEF StopJoin
  <2>6. CASE CountDown
    BY <2>6 DEF CountDown
  <2>7. CASE CheckRunning
    BY <2>7 DEF CheckRunning
  <2>8. CASE Wait
    BY <2>8 DEF Wait
  <2>9. CASE Timeout
    BY <2>9 DEF Timeout
  <2>10. CASE WriteBuffer
    BY <2>10 DEF WriteBuffer, WriteLines
  <2>11. CASE WriteError
    BY <2>11 DEF WriteError, WriteLines
  <2>12. CASE WriteEnd
    BY <2>12 DEF WriteEnd
  <2>13. CASE UNCHANGED vars
    BY <2>13 DEF vars
  <2> QED
    BY <2>1, <2>2, <2>3, <2>4, <2>5, <2>6, <2>7, <2>8, <2>9, <2>10, <2>11, <2>12, <2>13
<1> QED
  BY <1>1, <1>2, StillKeeps

\* append(): the current buffer takes the line, or is queued and replaced by
\* an empty buffer nobody else points to.
LEMMA AppendStep ==
    ASSUME IInv, NEW l \in 1 .. MaxLine, AppendLine(l)
    PROVE  IInv' /\ lost' = lost
<1> USE NullAssumption, SizeAssumption
    DEF IInv, back, file, front
<1>0. l \in Nat /\ l < Size /\ PtrOK
  OBVIOUS
<1>1. CASE AppendHere(l)
  <2>1. /\ UNCHANGED <<currentBuffer_, nextBuffer_, buffers_, newBuffer1, newBuffer2,
                       buffersToWrite, running_, latch_, written, backend, owner>>
        /\ lost' = lost
        /\ length' = [length EXCEPT ![currentBuffer_] = @ + l]
        /\ currentBuffer_ \in Buffers
        /\ length[currentBuffer_] + l \in 0 .. Size
    BY <1>0, <1>1 DEF AppendLine, AppendHere, PutLine, Fits, Avail, PtrOK, Ptr, ExclusiveOwnership
  <2>2. PtrOK'
    BY <1>0, <2>1 DEF PtrOK, Ptr
  <2>3. ExclusiveOwnership' /\ Phase'
    BY <2>1 DEF ExclusiveOwnership, Phase, HasNone, HasSpares, HasWork
  <2>4. SparesEmpty'
    BY <1>0, <2>1 DEF SparesEmpty, PtrOK
  <2> QED
    BY <2>1, <2>2, <2>3, <2>4
<1>2. CASE AppendNext(l)
  <2>1. /\ UNCHANGED <<newBuffer1, newBuffer2, buffersToWrite, running_, latch_,
                       written, owner>>
        /\ buffers_' = Append(buffers_, currentBuffer_)
        /\ nextBuffer_' = NULL
        /\ Notify
    BY <1>2 DEF AppendLine, AppendNext
  <2>2. /\ currentBuffer_ \in Buffers
        /\ currentBuffer_ \notin ToSet(buffers_) \cup ToSet(buffersToWrite)
        /\ currentBuffer_ \notin {newBuffer1, newBuffer2}
    BY <1>0 DEF PtrOK, Ptr, ExclusiveOwnership
  <2>3. /\ currentBuffer_' \in Buffers
        /\ currentBuffer_' \notin {NULL, currentBuffer_, newBuffer1, newBuffer2}
        /\ currentBuffer_' \notin ToSet(buffers_) \cup ToSet(buffersToWrite)
    <3>1. CASE nextBuffer_ # NULL
      BY <1>0, <1>2, <3>1 DEF AppendNext, PtrOK, Ptr, ExclusiveOwnership
    <3>2. CASE nextBuffer_ = NULL
      BY <1>0, <1>2, <3>2, <2>2 DEF AppendNext, Fresh, Referenced
    <3> QED
      BY <3>1, <3>2
  <2>4. length[currentBuffer_'] = 0
    BY <2>3 DEF SparesEmpty
  <2>5. lost' = lost /\ length' = [length EXCEPT ![currentBuffer_'] = @ + l]
    BY <1>0, <1>2, <2>4 DEF AppendNext, PutLine, Avail
  <2>6. /\ buffers_' \in Seq(Buffers)
        /\ Len(buffers_') = Len(buffers_) + 1
        /\ ToSet(buffers_') = ToSet(buffers_) \cup {currentBuffer_}
        /\ IsInjective(buffers_')
    BY <1>0, <2>1, <2>2, AppendDistinct DEF PtrOK, ExclusiveOwnership
  <2>7. PtrOK'
    <3>1. length' \in [Buffers -> 0 .. Size]
      BY <1>0, <2>3, <2>4, <2>5 DEF PtrOK
    <3>2. backend' \in BackendPc
      BY <1>0, <2>1 DEF PtrOK, Notify, BackendPc
    <3> QED
      BY <1>0, <2>1, <2>3, <2>6, <3>1, <3>2 DEF PtrOK, Ptr
  <2>8. ExclusiveOwnership'
    <3>1. /\ currentBuffer_' \notin {NULL, NULL, newBuffer1, newBuffer2}
          /\ newBuffer1 # NULL => newBuffer1 # newBuffer2
          /\ IsInjective(buffersToWrite)
          /\ (ToSet(buffers_) \cup {currentBuffer_}) \cap ToSet(buffersToWrite) = {}
      BY <2>2, <2>3 DEF ExclusiveOwnership
    <3>2. \A b \in ToSet(buffers_) \cup {currentBuffer_} \cup ToSet(buffersToWrite) :
              b \notin {currentBuffer_', newBuffer1, newBuffer2}
      BY <2>2, <2>3 DEF ExclusiveOwnership
    <3>3. NULL \notin ToSet(buffers_) \cup {currentBuffer_} \cup ToSet(buffersToWrite)
      BY <1>0, <2>2 DEF PtrOK, ToSet
    <3> QED
      BY <2>1, <2>6, <3>1, <3>2, <3>3 DEF ExclusiveOwnership
  <2>9. Phase'
    <3>1. Len(buffers_') >= 1
      BY <1>0, <2>6 DEF PtrOK
    <3> QED
      BY <2>1, <3>1 DEF Phase, Notify, HasNone, HasSpares, HasWork
  <2>10. SparesEmpty'
    BY <1>0, <2>1, <2>3, <2>5, <2>6 DEF SparesEmpty, PtrOK
  <2> QED
    BY <2>5, <2>7, <2>8, <2>9, <2>10
<1> QED
  BY <1>1, <1>2 DEF AppendLine

\* The thread starts with two buffers of its own.
LEMMA SetUpStep ==
    ASSUME IInv, SetUp
    PROVE  IInv'
<1> USE NullAssumption DEF IInv, front, heap, file
<1>1. /\ UNCHANGED <<currentBuffer_, nextBuffer_, buffers_, buffersToWrite, written,
                     running_, latch_, owner, length>>
      /\ backend = "setup" /\ backend' = "check"
      /\ newBuffer1' \in Buffers \ Referenced
      /\ newBuffer2' \in Buffers \ Referenced
      /\ newBuffer1' # newBuffer2'
  BY DEF SetUp, Fresh
<1>2. PtrOK'
  BY <1>1 DEF PtrOK, Ptr, BackendPc
<1>3. ExclusiveOwnership'
  BY <1>1 DEF ExclusiveOwnership, Referenced
<1>4. Phase'
  BY <1>1 DEF Phase, HasNone, HasSpares, HasWork
<1>5. SparesEmpty'
  BY <1>1 DEF SparesEmpty
<1> QED
  BY <1>2, <1>3, <1>4, <1>5

\* The exchange under the mutex: a spare becomes the current buffer, and what
\* was queued, with the old current buffer, becomes the work of the back end.
LEMMA SwapStep ==
    ASSUME IInv, Swap
    PROVE  IInv'
<1> USE NullAssumption DEF IInv, heap, file
<1>0. PtrOK /\ HasSpares
  BY DEF Swap, Phase
<1>1. /\ UNCHANGED <<running_, latch_, written, owner, length>>
      /\ buffersToWrite' = Append(buffers_, currentBuffer_)
      /\ buffers_' = <<>>
      /\ currentBuffer_' = newBuffer1
      /\ newBuffer1' = NULL
      /\ backend' = "trim"
      /\ backend \in {"lock", "woken"}
  BY <1>0 DEF Swap, Filled, HasSpares
<1>2. \/ nextBuffer_ = NULL /\ nextBuffer_' = newBuffer2 /\ newBuffer2' = NULL
      \/ nextBuffer_ # NULL /\ nextBuffer_' = nextBuffer_ /\ newBuffer2' = newBuffer2
  BY DEF Swap, HandSpare
<1>3. currentBuffer_ \in Buffers /\ newBuffer1 \in Buffers /\ newBuffer2 \in Buffers
  BY <1>0 DEF PtrOK, Ptr, HasSpares, ExclusiveOwnership
<1>4. /\ buffersToWrite' \in Seq(Buffers)
      /\ Len(buffersToWrite') = Len(buffers_) + 1
      /\ ToSet(buffersToWrite') = ToSet(buffers_) \cup {currentBuffer_}
      /\ IsInjective(buffersToWrite')
  BY <1>0, <1>1, <1>3, AppendDistinct DEF PtrOK, ExclusiveOwnership
<1>5. buffers_' \in Seq(Buffers) /\ ToSet(buffers_') = {} /\ IsInjective(buffers_')
  BY <1>1 DEF ToSet, IsInjective
<1>6. PtrOK'
  <2>1. written' \in 0 .. Len(buffersToWrite')
    BY <1>0, <1>1, <1>4 DEF PtrOK, HasSpares
  <2>2. backend' \in BackendPc
    BY <1>1 DEF BackendPc
  <2> QED
    BY <1>0, <1>1, <1>2, <1>3, <1>4, <1>5, <2>1, <2>2 DEF PtrOK, Ptr
<1>7. ExclusiveOwnership'
  <2>1. /\ newBuffer1 \notin {NULL, newBuffer2, nextBuffer_, currentBuffer_}
        /\ newBuffer2 \notin {NULL, nextBuffer_, currentBuffer_}
        /\ currentBuffer_ # nextBuffer_
    BY <1>3 DEF ExclusiveOwnership
  <2>2. \A b \in ToSet(buffers_) \cup {currentBuffer_} :
            b \notin {newBuffer1, nextBuffer_, newBuffer2, NULL}
    <3>1. NULL \notin ToSet(buffers_)
      BY <1>0 DEF PtrOK, ToSet
    <3> QED
      BY <1>3, <2>1, <3>1 DEF ExclusiveOwnership
  <2>3. /\ currentBuffer_' \notin {NULL, nextBuffer_', newBuffer1', newBuffer2'}
        /\ nextBuffer_' \notin {newBuffer1', newBuffer2'}
        /\ {nextBuffer_', newBuffer2'} \subseteq {nextBuffer_, newBuffer2, NULL}
    BY <1>1, <1>2, <2>1
  <2>4. \A b \in ToSet(buffersToWrite') :
            b \notin {currentBuffer_', nextBuffer_', newBuffer1', newBuffer2'}
    BY <1>1, <1>4, <2>2, <2>3
  <2> QED
    BY <1>1, <1>4, <1>5, <2>3, <2>4 DEF ExclusiveOwnership
<1>8. Phase'
  <2>1. HasWork'
    BY <1>0, <1>1, <1>2, <1>3, <1>4 DEF HasWork, Phase, PtrOK
  <2>2. nextBuffer_' # NULL
    BY <1>2, <1>3
  <2> QED
    BY <1>1, <2>1, <2>2 DEF Phase
<1>9. SparesEmpty'
  BY <1>0, <1>1, <1>4, <1>5 DEF SparesEmpty, HasSpares, ToSet
<1> QED
  BY <1>6, <1>7, <1>8, <1>9

\* The cut under overload leaves two buffers, enough for two spares.
LEMMA TrimStep ==
    ASSUME IInv, Trim
    PROVE  IInv'
<1> USE NullAssumption, DropAssumption DEF IInv, front, file
<1>0. PtrOK /\ HasWork /\ backend = "trim"
  BY DEF Trim, Phase
<1>1. /\ UNCHANGED <<running_, latch_, currentBuffer_, nextBuffer_, buffers_,
                     newBuffer1, newBuffer2, owner>>
      /\ written' = 0
      /\ backend' = "write"
  BY <1>0 DEF Trim
<1>2. CASE Len(buffersToWrite) <= DropAbove
  <2>1. UNCHANGED <<buffersToWrite, length>>
    BY <1>0, <1>2 DEF Trim, heap, PtrOK
  <2>2. PtrOK' /\ Phase'
    BY <1>0, <1>1, <2>1 DEF PtrOK, BackendPc, Phase, HasWork
  <2> QED
    BY <1>1, <2>1, <2>2, StillKeeps DEF Still
<1>3. CASE Len(buffersToWrite) > DropAbove
  <2> DEFINE n == Len(buffersToWrite)
             cut == SubSeq(buffersToWrite, 3, n)
  <2>1. /\ buffersToWrite' = SubSeq(buffersToWrite, 1, 2)
        /\ Emptied(ToSet(cut))
    BY <1>0, <1>3 DEF Trim, PtrOK
  <2>2. n \in Nat /\ n >= 3
    BY <1>0, <1>3 DEF PtrOK
  <2>3. /\ buffersToWrite' \in Seq(Buffers)
        /\ Len(buffersToWrite') = 2
        /\ ToSet(buffersToWrite') \subseteq ToSet(buffersToWrite)
        /\ IsInjective(buffersToWrite')
    <3>1. buffersToWrite \in Seq(Buffers) /\ IsInjective(buffersToWrite)
      BY <1>0 DEF PtrOK, ExclusiveOwnership
    <3>2. 1 \in 1 .. n + 1 /\ 2 \in 0 .. n
      BY <2>2
    <3>3. PICK s \in Seq(Buffers) :
              s = buffersToWrite /\ IsInjective(s) /\ 1 \in 1 .. Len(s) + 1 /\ 2 \in 0 .. Len(s)
      BY ONLY <3>1, <3>2
    <3>4. /\ SubSeq(s, 1, 2) \in Seq(Buffers)
          /\ Len(SubSeq(s, 1, 2)) = IF 1 <= 2 THEN 2 - 1 + 1 ELSE 0
          /\ ToSet(SubSeq(s, 1, 2)) \subseteq ToSet(s)
          /\ IsInjective(SubSeq(s, 1, 2))
      BY ONLY <3>3, SubSeqDistinct
    <3>5. (IF 1 <= 2 THEN 2 - 1 + 1 ELSE 0) = 2
      OBVIOUS
    <3> QED BY ONLY <2>1, <3>3, <3>4, <3>5
  <2>4. ToSet(buffersToWrite) \subseteq ToSet(buffersToWrite') \cup ToSet(cut)
    <3> SUFFICES ASSUME NEW i \in 1 .. n
                 PROVE  buffersToWrite[i] \in ToSet(buffersToWrite') \cup ToSet(cut)
      <4>1. DOMAIN buffersToWrite = 1 .. n
        BY <1>0 DEF PtrOK
      <4> QED
        BY <4>1 DEF ToSet
    <3>1. CASE i <= 2
      <4>1. buffersToWrite[i] = buffersToWrite'[i] /\ i \in 1 .. Len(buffersToWrite')
        BY <1>0, <2>1, <2>2, <2>3, <3>1, SubSeqDistinct DEF PtrOK
      <4> QED
        BY <2>3, <4>1 DEF ToSet
    <3>2. CASE i > 2
      <4>1. cut \in Seq(Buffers) /\ Len(cut) = n - 2
        BY <1>0, <2>2, SubSeqDistinct DEF PtrOK
      <4>2. buffersToWrite[i] = cut[i - 2] /\ i - 2 \in 1 .. Len(cut)
        BY <1>0, <2>2, <3>2, <4>1, SubSeqDistinct DEF PtrOK
      <4> QED
        BY <4>1, <4>2 DEF ToSet
    <3> QED
      BY <3>1, <3>2
  <2>5. /\ length' \in [Buffers -> 0 .. Size]
        /\ \A b \in Buffers : length'[b] = IF b \in ToSet(cut) THEN 0 ELSE length[b]
    BY <1>0, <2>1, SizeAssumption DEF Emptied, PtrOK
  <2>6. PtrOK'
    BY <1>0, <1>1, <2>3, <2>5 DEF PtrOK, BackendPc
  <2>7. ExclusiveOwnership'
    BY <1>1, <2>3 DEF ExclusiveOwnership
  <2>8. Phase'
    BY <1>0, <1>1, <2>3 DEF Phase, HasWork
  <2>9. SparesEmpty'
    BY <1>1, <2>4, <2>5 DEF SparesEmpty
  <2> QED
    BY <2>6, <2>7, <2>8, <2>9
<1> QED
  BY <1>0, <1>2, <1>3 DEF PtrOK

\* The missing spares are taken from the written buffers, distinct ones.
LEMMA RecycleStep ==
    ASSUME IInv, Recycle
    PROVE  IInv'
<1> USE NullAssumption DEF IInv, front
<1> DEFINE n == Len(buffersToWrite)
<1>0. PtrOK /\ HasWork /\ backend = "recycle" /\ n \in Nat /\ n >= 1
  BY DEF Recycle, Phase, PtrOK, HasWork
<1>1. /\ UNCHANGED <<running_, latch_, currentBuffer_, nextBuffer_, buffers_, owner>>
      /\ buffersToWrite' = <<>>
      /\ written' = 0
      /\ backend' = "check"
      /\ Emptied(ToSet(buffersToWrite))
      /\ Refill
  BY <1>0 DEF Recycle
<1>2. /\ Kept \in Seq(Buffers)
      /\ Len(Kept) = IF n > 2 THEN 2 ELSE n
      /\ \A i \in 1 .. Len(Kept) : Kept[i] = buffersToWrite[i]
  BY <1>0, SubSeqDistinct DEF Kept, PtrOK
<1>2a. n >= 2 => Len(Kept) = 2
  <2> SUFFICES ASSUME n >= 2 PROVE Len(Kept) = 2
    OBVIOUS
  <2>1. PICK k \in Nat : k = n
    BY <1>0
  <2>2. k >= 2 /\ Len(Kept) = IF k > 2 THEN 2 ELSE k
    BY ONLY <1>2, n >= 2, <2>1
  <2> QED
    BY ONLY <2>2
<1>3. newBuffer1' = Kept[Len(Kept)] /\ Len(Kept) \in 1 .. n
  BY <1>0, <1>1, <1>2 DEF Refill, HasWork, Last
<1>4. newBuffer2' = IF newBuffer2 = NULL THEN Kept[Len(Kept) - 1] ELSE newBuffer2
  <2>1. CASE newBuffer2 = NULL
    <3>1. Len(Kept) = 2 /\ Front(Kept) = SubSeq(Kept, 1, 1)
      <4>1. Len(Kept) = 2
        BY <1>2a, <1>0, <2>1 DEF HasWork
      <4> QED
        BY <4>1 DEF Front
    <3>2. Len(Front(Kept)) = 1 /\ Front(Kept)[1] = Kept[1]
      BY <1>2, <3>1, SubSeqDistinct
    <3> QED
      BY <1>0, <1>1, <2>1, <3>1, <3>2 DEF Refill, HasWork, Last
  <2>2. CASE newBuffer2 # NULL
    BY <1>1, <2>2 DEF Refill
  <2> QED
    BY <2>1, <2>2
<1>5. newBuffer1' \in ToSet(buffersToWrite) /\ newBuffer1' \in Buffers
  <2>1. PICK i \in 1 .. n : newBuffer1' = buffersToWrite[i]
    BY <1>2, <1>3
  <2>2. buffersToWrite \in Seq(Buffers)
    BY <1>0 DEF PtrOK
  <2> QED BY ONLY <2>1, <2>2 DEF ToSet
<1>6. /\ newBuffer2' \in Buffers
      /\ newBuffer2' # newBuffer1'
      /\ newBuffer2' \in ToSet(buffersToWrite) \cup {newBuffer2}
      /\ newBuffer2 # NULL => newBuffer2' = newBuffer2
  <2>1. CASE newBuffer2 = NULL
    <3>1. /\ Len(Kept) = 2
          /\ newBuffer1' = buffersToWrite[2] /\ newBuffer2' = buffersToWrite[1]
          /\ 1 \in 1 .. n /\ 2 \in 1 .. n
      <4>1. n >= 2
        BY <1>0, <2>1 DEF HasWork
      <4>2. 1 \in 1 .. n /\ 2 \in 1 .. n
        BY <1>0, <4>1
      <4>3. Len(Kept) = 2 /\ 2 \in 1 .. Len(Kept) /\ 1 \in 1 .. Len(Kept)
        BY <1>2a, <4>1
      <4> QED
        BY <1>2, <1>3, <1>4, <2>1, <4>2, <4>3
    <3> QED
      BY <1>0, <2>1, <3>1 DEF ExclusiveOwnership, IsInjective, ToSet, PtrOK
  <2>2. CASE newBuffer2 # NULL
    BY <1>0, <1>4, <1>5, <2>2 DEF ExclusiveOwnership, PtrOK, Ptr
  <2> QED
    BY <2>1, <2>2
<1>7. ToSet(buffersToWrite') = {} /\ IsInjective(buffersToWrite')
  BY <1>1 DEF ToSet, IsInjective
<1>8. /\ length' \in [Buffers -> 0 .. Size]
      /\ \A b \in Buffers :
             length'[b] = IF b \in ToSet(buffersToWrite) THEN 0 ELSE length[b]
  BY <1>0, <1>1, SizeAssumption DEF Emptied, PtrOK
<1>9. PtrOK'
  BY <1>0, <1>1, <1>5, <1>6, <1>8 DEF PtrOK, Ptr, BackendPc
<1>10. ExclusiveOwnership'
  <2>1. \A b \in ToSet(buffers_) : b \notin {currentBuffer_, nextBuffer_, newBuffer1', newBuffer2'}
    BY <1>5, <1>6 DEF ExclusiveOwnership
  <2>2. currentBuffer_ \notin {newBuffer1', newBuffer2'}
    BY <1>5, <1>6 DEF ExclusiveOwnership
  <2>3. nextBuffer_ \notin {newBuffer1', newBuffer2'}
    BY <1>5, <1>6 DEF ExclusiveOwnership
  <2> QED
    BY <1>1, <1>6, <1>7, <2>1, <2>2, <2>3 DEF ExclusiveOwnership
<1>11. Phase'
  BY <1>0, <1>1, <1>5, <1>6 DEF Phase, HasSpares
<1>12. SparesEmpty'
  BY <1>1, <1>7, <1>8 DEF SparesEmpty
<1> QED
  BY <1>9, <1>10, <1>11, <1>12

\* The thread returns and its spares go with it.
LEMMA ExitStep ==
    ASSUME IInv, Exit
    PROVE  IInv'
<1> USE NullAssumption DEF IInv, front, heap
<1>1. /\ UNCHANGED <<running_, latch_, currentBuffer_, nextBuffer_, buffers_,
                     buffersToWrite, written, owner, length>>
      /\ newBuffer1' = NULL /\ newBuffer2' = NULL
      /\ backend = "exit" /\ backend' = "done"
  BY DEF Exit
<1>2. PtrOK'
  BY <1>1 DEF PtrOK, Ptr, BackendPc
<1>3. ExclusiveOwnership'
  <2>1. NULL \notin ToSet(buffers_) \cup ToSet(buffersToWrite)
    BY DEF PtrOK, ToSet
  <2> QED
    BY <1>1, <2>1 DEF ExclusiveOwnership
<1>4. Phase'
  BY <1>1 DEF Phase, HasNone, HasSpares
<1>5. SparesEmpty'
  BY <1>1 DEF SparesEmpty
<1> QED
  BY <1>2, <1>3, <1>4, <1>5

LEMMA NextIInv == IInv /\ [Next]_vars => IInv'
<1> SUFFICES ASSUME IInv, [Next]_vars PROVE IInv'
  OBVIOUS
<1>1. CASE Frontend
  BY <1>1, AppendStep DEF Frontend
<1>2. CASE Owner \/ UNCHANGED vars
  BY <1>2, QuietStep DEF Owner
<1>3. CASE Backend
  BY <1>3, QuietStep, SetUpStep, SwapStep, TrimStep, RecycleStep, ExitStep DEF Backend
<1> QED
  BY <1>1, <1>2, <1>3 DEF Next

LEMMA Invariant == Spec => []IInv
BY InitIInv, NextIInv, PTL DEF Spec

\* The types of what the buffers and the file hold.
DataOK ==
    /\ appended \in Nat
    /\ text \in [Buffers -> Seq(1 .. appended)]
    /\ output \in Seq(1 .. appended)
    /\ flushed \in 0 .. Len(output)
    /\ lost \subseteq 1 .. appended
    /\ stopMark \in 0 .. appended

LEMMA LinesInType ==
    ASSUME text \in [Buffers -> Seq(1 .. appended)], NEW S \in SUBSET Buffers
    PROVE  LinesIn(S) \subseteq 1 .. appended
<1>1. \A b \in S : text[b] \in Seq(1 .. appended)
  OBVIOUS
<1>2. \A b \in S : ToSet(text[b]) \subseteq 1 .. appended
  BY <1>1, ElementsInType
<1> QED
  BY ONLY <1>2 DEF LinesIn

LEMMA EmptiedType ==
    ASSUME text \in [Buffers -> Seq(1 .. appended)], NEW S, Emptied(S)
    PROVE  text' \in [Buffers -> Seq(1 .. appended)]
<1>1. <<>> \in Seq(1 .. appended)
  OBVIOUS
<1> QED
  BY <1>1 DEF Emptied

LEMMA InitDataOK == Init => DataOK
<1> SUFFICES ASSUME Init PROVE DataOK
  OBVIOUS
<1>1. text \in [Buffers -> Seq(1 .. appended)] /\ output \in Seq(1 .. appended)
  <2>1. <<>> \in Seq(1 .. appended)
    OBVIOUS
  <2> QED
    BY ONLY Init, <2>1 DEF Init
<1>2. appended \in Nat /\ stopMark \in 0 .. appended /\ lost \subseteq 1 .. appended
  BY DEF Init
<1>3. flushed \in 0 .. Len(output)
  BY DEF Init
<1> QED
  BY <1>1, <1>2, <1>3 DEF DataOK

\* One more line: the numbers in use grow with appended.
LEMMA AppendData ==
    ASSUME IInv, DataOK, NEW l \in 1 .. MaxLine, AppendLine(l)
    PROVE  DataOK'
<1> USE DEF DataOK
<1>1. /\ appended' = appended + 1
      /\ UNCHANGED <<output, flushed, stopMark>>
  BY DEF AppendLine, file
<1>2. lost' = lost
  BY AppendStep
<1>3. Seq(1 .. appended) \subseteq Seq(1 .. appended')
  <2>1. 1 .. appended \subseteq 1 .. appended'
    BY <1>1
  <2> QED
    BY <2>1, SeqMonotonic
<1>4. PICK b \in Buffers : text' = [text EXCEPT ![b] = Append(@, appended + 1)]
  <2>1. IInv' /\ currentBuffer_ \in Buffers /\ currentBuffer_' \in Buffers
    BY AppendStep DEF IInv, PtrOK, Ptr, ExclusiveOwnership
  <2>2. CASE AppendHere(l)
    BY <2>1, <2>2 DEF AppendHere, PutLine, Fits
  <2>3. CASE AppendNext(l)
    <3>1. Avail(currentBuffer_') > l
      <4>1. currentBuffer_' # currentBuffer_ /\ currentBuffer_' \notin ToSet(buffers_)
                /\ currentBuffer_' \notin ToSet(buffersToWrite)
        <5>1. CASE nextBuffer_ # NULL
          BY <2>3, <5>1 DEF AppendNext, IInv, ExclusiveOwnership
        <5>2. CASE nextBuffer_ = NULL
          BY <2>1, <2>3, <5>2, NullAssumption DEF AppendNext, Fresh, Referenced
        <5> QED
          BY <5>1, <5>2
      <4>2. length[currentBuffer_'] = 0
        BY <2>1, <4>1 DEF IInv, SparesEmpty
      <4> QED
        BY <4>2, SizeAssumption DEF Avail
    <3> QED
      BY <2>1, <2>3, <3>1 DEF AppendNext, PutLine
  <2> QED
    BY <2>2, <2>3 DEF AppendLine
<1>5. text' \in [Buffers -> Seq(1 .. appended')]
  <2>1. text[b] \in Seq(1 .. appended') /\ appended + 1 \in 1 .. appended'
    BY <1>1, <1>3
  <2>2. Append(text[b], appended + 1) \in Seq(1 .. appended')
    BY <2>1
  <2>3. text \in [Buffers -> Seq(1 .. appended')]
    BY <1>3
  <2> QED
    BY <1>4, <2>2, <2>3
<1>6. output' \in Seq(1 .. appended')
  BY <1>1, <1>3
<1> QED
  BY <1>1, <1>2, <1>5, <1>6

\* Part of one buffer goes to the file, the rest of it is lost.
LEMMA WriteData ==
    ASSUME IInv, DataOK, backend = "write", written < Len(buffersToWrite),
           NEW k \in 0 .. Len(NextLines), WriteLines(k)
    PROVE  DataOK'
<1> USE DEF DataOK, heap
<1>1. /\ UNCHANGED <<appended, text, flushed, stopMark>>
      /\ output' = output \o SubSeq(NextLines, 1, k)
      /\ lost' = lost \cup ToSet(SubSeq(NextLines, k + 1, Len(NextLines)))
  BY DEF WriteLines
<1>2. buffersToWrite[written + 1] \in Buffers
  BY DEF IInv, PtrOK
<1>3. NextLines \in Seq(1 .. appended)
  BY <1>2 DEF NextLines
<1>4. /\ SubSeq(NextLines, 1, k) \in Seq(1 .. appended)
      /\ ToSet(SubSeq(NextLines, k + 1, Len(NextLines))) \subseteq ToSet(NextLines)
  <2>1. Len(NextLines) \in Nat
    BY <1>3
  <2>2. k + 1 \in 1 .. Len(NextLines) + 1 /\ 1 \in 1 .. Len(NextLines) + 1
    BY <2>1
  <2>3. SubSeq(NextLines, 1, k) \in Seq(1 .. appended)
    BY <1>3, <2>2, SubSeqDistinct
  <2>4. Len(NextLines) \in 0 .. Len(NextLines)
    BY <2>1
  <2>5. ToSet(SubSeq(NextLines, k + 1, Len(NextLines))) \subseteq ToSet(NextLines)
    BY <1>3, <2>2, <2>4, SubSeqDistinct
  <2> QED
    BY <2>3, <2>5
<1>5. ToSet(NextLines) \subseteq 1 .. appended
  BY <1>3 DEF ToSet
<1>6. output' \in Seq(1 .. appended) /\ Len(output') >= Len(output) /\ Len(output') \in Nat
  BY <1>1, <1>4
<1>7. lost' \subseteq 1 .. appended
  BY <1>1, <1>4, <1>5
<1>8. flushed' \in 0 .. Len(output')
  BY <1>1, <1>6
<1> QED
  BY <1>1, <1>6, <1>7, <1>8

\* The back end writes the lines of a buffer it has taken.
LEMMA NextLinesType ==
    ASSUME IInv, DataOK, WriteBuffer \/ WriteError
    PROVE  NextLines \in Seq(1 .. appended)
<1>1. buffersToWrite \in Seq(Buffers) /\ written + 1 \in 1 .. Len(buffersToWrite)
  BY DEF WriteBuffer, WriteError, IInv, PtrOK
<1>2. buffersToWrite[written + 1] \in Buffers
  BY ONLY <1>1
<1> QED BY <1>2 DEF NextLines, DataOK

LEMMA BackData ==
    ASSUME IInv, DataOK, Backend \/ Owner \/ UNCHANGED vars
    PROVE  DataOK'
<1> USE DEF DataOK, heap, file
<1>1. CASE \/ CountDown \/ SetUp \/ CheckRunning \/ Wait \/ Timeout \/ Swap \/ WriteEnd
           \/ Owner \/ UNCHANGED vars
  <2>1. UNCHANGED <<appended, text, output, flushed, lost>>
    BY <1>1 DEF CountDown, SetUp, CheckRunning, Wait, Timeout, Swap, WriteEnd, Owner, Start,
                LatchWait, StopClear, StopNotify, StopJoin, vars
  <2>2. stopMark' \in {stopMark, appended}
    BY <1>1 DEF CountDown, SetUp, CheckRunning, Wait, Timeout, Swap, WriteEnd, Owner, Start,
                LatchWait, StopClear, StopNotify, StopJoin, vars
  <2> QED
    BY <2>1, <2>2
<1>2. CASE Trim
  <2> DEFINE cut == SubSeq(buffersToWrite, 3, Len(buffersToWrite))
  <2>1. CASE Len(buffersToWrite) > DropAbove
    <3>1. /\ UNCHANGED <<appended, output, flushed, stopMark>>
          /\ lost' = lost \cup LinesIn(ToSet(cut))
          /\ Emptied(ToSet(cut))
      BY <1>2, <2>1 DEF Trim
    <3>2. ToSet(cut) \subseteq Buffers
      <4>1. buffersToWrite \in Seq(Buffers) /\ Len(buffersToWrite) >= 3
        BY <2>1, DropAssumption DEF IInv, PtrOK
      <4>2. cut \in Seq(Buffers)
        BY <4>1, SubSeqDistinct
      <4> QED
        BY <4>2 DEF ToSet
    <3>3. LinesIn(ToSet(cut)) \subseteq 1 .. appended
      BY <3>2, LinesInType
    <3>4. text' \in [Buffers -> Seq(1 .. appended)]
      BY <3>1, EmptiedType
    <3> QED
      BY <3>1, <3>3, <3>4
  <2>2. CASE ~ (Len(buffersToWrite) > DropAbove)
    BY <1>2, <2>2 DEF Trim
  <2> QED
    BY <2>1, <2>2
<1>3. CASE WriteBuffer
  <2>1. NextLines \in Seq(1 .. appended)
    BY <1>3, NextLinesType
  <2> QED
    BY <1>3, <2>1, WriteData DEF WriteBuffer
<1>4. CASE WriteError
  <2>1. NextLines \in Seq(1 .. appended)
    BY <1>4, NextLinesType
  <2>2. PICK k \in 0 .. Len(NextLines) - 1 : WriteLines(k)
    BY <1>4 DEF WriteError
  <2>3. k \in 0 .. Len(NextLines) /\ backend = "write" /\ written < Len(buffersToWrite)
    BY <1>4, <2>1 DEF WriteError
  <2> QED
    BY <2>2, <2>3, WriteData
<1>5. CASE Recycle
  <2>1. UNCHANGED <<appended, output, lost, stopMark>> /\ flushed' = Len(output)
    BY <1>5 DEF Recycle, Flush
  <2>2. text' \in [Buffers -> Seq(1 .. appended)]
    BY <1>5, EmptiedType DEF Recycle
  <2> QED
    BY <2>1, <2>2
<1>6. CASE Exit
  BY <1>6 DEF Exit, Flush
<1> QED
  BY <1>1, <1>2, <1>3, <1>4, <1>5, <1>6 DEF Backend

LEMMA DataInvariant == Spec => []DataOK
<1>1. IInv /\ DataOK /\ [Next]_vars => DataOK'
  BY AppendData, BackData DEF Next, Frontend
<1> QED
  BY <1>1, InitDataOK, Invariant, PTL DEF Spec

-----------------------------------------------------------------------------
(* What follows from it.                                                   *)

\* The state of the logger has the types of AsyncLogging.h:33-40 and of the
\* locals of threadFunc; in particular no buffer is ever filled beyond its end
\* (LogStream.h:16-21).
THEOREM TypeCorrect == Spec => []TypeOK
<1>1. IInv /\ DataOK => TypeOK
  BY DEF IInv, PtrOK, Ptr, DataOK, TypeOK
<1> QED
  BY <1>1, Invariant, DataInvariant, PTL

\* No buffer is reachable through two of the pointers of AsyncLogging and
\* threadFunc, in every state of every run (AsyncLogging.cc:30-35, 76-80,
\* 98-109).
THEOREM Ownership == Spec => []ExclusiveOwnership
BY Invariant, PTL DEF IInv

\* None of the assertions of threadFunc can fail (AsyncLogging.cc:55, 66-68,
\* 82, 99, 105).
THEOREM NoAssertFails == Spec => []AssertsHold
<1>1. IInv => AssertsHold
  <2> SUFFICES ASSUME IInv PROVE AssertsHold
    OBVIOUS
  <2> USE DEF IInv
  <2>1. backend = "entry" => running_
    BY DEF Phase
  <2>2. backend = "lock" =>
           /\ newBuffer1 # NULL /\ length[newBuffer1] = 0
           /\ newBuffer2 # NULL /\ length[newBuffer2] = 0
           /\ buffersToWrite = <<>>
    <3> SUFFICES ASSUME backend = "lock"
                 PROVE  /\ newBuffer1 # NULL /\ length[newBuffer1] = 0
                        /\ newBuffer2 # NULL /\ length[newBuffer2] = 0
                        /\ buffersToWrite = <<>>
      OBVIOUS
    <3>1. HasSpares
      BY DEF Phase
    <3>2. newBuffer1 \in Buffers /\ newBuffer2 \in Buffers
      BY <3>1 DEF HasSpares, PtrOK, Ptr
    <3>3. \A b \in {newBuffer1, newBuffer2} :
              b # currentBuffer_ /\ b \notin ToSet(buffers_) /\ b \notin ToSet(buffersToWrite)
      BY DEF ExclusiveOwnership
    <3> QED
      BY <3>1, <3>2, <3>3 DEF HasSpares, SparesEmpty
  <2>3. backend \in {"trim", "recycle"} =>
           /\ buffersToWrite # <<>>
           /\ Len(buffersToWrite) >= 1
           /\ newBuffer2 = NULL => Len(buffersToWrite) >= 2
    BY DEF Phase, HasWork
  <2> QED
    BY <2>1, <2>2, <2>3 DEF AssertsHold
<1> QED
  BY <1>1, Invariant, PTL

\* append() never loses a line inside FixedBuffer::append (AsyncLogging.cc:
\* 26-37, LogStream.h:16-21), whatever the other threads do.
THEOREM NeverDrops == Spec => AppendNeverDrops
<1>1. IInv /\ [Next]_vars => [appended' # appended => lost' = lost]_vars
  <2> SUFFICES ASSUME IInv, Next PROVE appended' # appended => lost' = lost
    OBVIOUS
  <2>1. CASE Frontend
    BY <2>1, AppendStep DEF Frontend
  <2>2. CASE Owner \/ Backend
    BY <2>2 DEF Owner, Start, LatchWait, StopClear, StopNotify, StopJoin, Backend,
                CountDown, SetUp, CheckRunning, Wait, Timeout, Swap, Trim, WriteBuffer,
                WriteError, WriteLines, WriteEnd, Recycle, Exit
  <2> QED
    BY <2>1, <2>2 DEF Next
<1> QED
  BY <1>1, Invariant, PTL DEF Spec, AppendNeverDrops


\* The back end never waits while a filled buffer is queued: wait_for is entered
\* with buffers_ empty, and the append() that queues a buffer wakes it in the
\* same critical section.
THEOREM NoSleep == Spec => []NoSleepOnFullBuffer
<1>1. Init => NoSleepOnFullBuffer
  BY DEF Init, NoSleepOnFullBuffer
<1>2. NoSleepOnFullBuffer /\ [Next]_vars => NoSleepOnFullBuffer'
  <2> SUFFICES ASSUME NoSleepOnFullBuffer, [Next]_vars, backend' = "waiting"
               PROVE  buffers_' = <<>>
    BY DEF NoSleepOnFullBuffer
  <2> USE DEF NoSleepOnFullBuffer, front, back
  <2>1. CASE Frontend
    <3>1. PICK l \in 1 .. MaxLine : AppendLine(l)
      BY <2>1 DEF Frontend
    <3>2. ~ AppendNext(l)
      BY DEF AppendNext, Notify
    <3>3. UNCHANGED <<front, backend>>
      BY <3>1, <3>2 DEF AppendLine, AppendHere
    <3> QED BY <3>3
  <2>2. CASE Owner
    BY <2>2 DEF Owner, Start, LatchWait, StopClear, StopNotify, StopJoin, Notify
  <2>3. CASE Wait
    BY <2>3 DEF Wait
  <2>4. CASE \/ CountDown \/ SetUp \/ CheckRunning \/ Timeout \/ Swap
             \/ Trim \/ WriteEnd \/ Recycle \/ Exit
    BY <2>4 DEF CountDown, SetUp, CheckRunning, Timeout, Swap, Trim, WriteEnd, Recycle, Exit
  <2>5. CASE WriteBuffer \/ WriteError
    BY <2>5 DEF WriteBuffer, WriteError, WriteLines
  <2>6. CASE UNCHANGED vars
    BY <2>6 DEF vars
  <2> QED BY <2>1, <2>2, <2>3, <2>4, <2>5, <2>6 DEF Next, Backend
<1> QED BY <1>1, <1>2, PTL DEF Spec
=============================================================================
