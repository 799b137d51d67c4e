---------------------- MODULE EventLoopThreadPoolProofs ----------------------
(***************************************************************************)
(* Proofs about the thread pool, for any number of threads, callers and    *)
(* functors, whichever thread is the one in detail: the types, the life of *)
(* a loop and of its thread, the turns of getNextLoop(), and that what     *)
(* EventLoopProofs proves of a loop holds of a loop of the pool.           *)
(***************************************************************************)
EXTENDS EventLoopThreadPool, EventLoopProofs

\* loop_ is set exactly while threadFunc() is in its second half, and the loop ends
\* only after somebody has called quit(): the destructor, or one whom quits counts.
ThreadInv ==
    /\ loop_ \in BOOLEAN
    /\ thread \in ThreadPc
    /\ owner \in OwnerPc
    /\ loop_ <=> thread = "loop"
    /\ owner = "new" => thread = "unstarted"
    /\ owner = "starting" => thread # "unstarted"
    /\ owner \in {"started", "quit"} => thread \notin {"unstarted", "init"}
    /\ NoOrphan
    /\ thread \in {"cleared", "ended"} => loop = "done"
    /\ quit_ \/ loop = "done" \/ thread \in {"cleared", "ended"} =>
           owner \in {"wakeup", "join", "gone"} \/ quits > 0

\* The loops are those of the threads that were started, in their order, and none
\* was given out while start() made them.
LoopsInv ==
    /\ numThreads_ \in 0 .. MaxThreads
    /\ started_ \in BOOLEAN
    /\ loops_ \in Seq(1 .. numThreads_)
    /\ given \in [0 .. MaxThreads -> Nat]
    /\ pool \in PoolPc
    /\ ended \in 0 .. Len(loops_)
    /\ \A i \in 1 .. Len(loops_) : loops_[i] = i
    /\ pool = "new" => loops_ = <<>>
    /\ pool \in {"new", "starting"} =>
           ended = 0 /\ next_ = 0 /\ \A i \in 1 .. MaxThreads : given[i] = 0
    /\ next_ \in Nat
    /\ next_ = 0 \/ next_ < Len(loops_)

PoolInv == alive \in BOOLEAN /\ IInv /\ ThreadInv /\ LoopsInv /\ Balanced

-----------------------------------------------------------------------------
(* The thread and its owner.                                               *)

\* What a step of the pool is for the loop: a step of EventLoop, or quit() by the
\* destructor, in its two halves, or the use of a loop that is gone.
LoopStep ==
    \/ [Next]_vars
    \/ OwnerQuit \/ OwnerWakeup
    \/ \E c \in Callers : UseDead(c)

LEMMA PoolStepIsLoopStep == ASSUME [PoolNext]_everything PROVE LoopStep
<1> USE DEF LoopStep, allVars
<1>1. CASE UNCHANGED everything
  BY <1>1 DEF everything
<1>2. CASE PoolStart \/ GetNextLoop \/ PoolDestroy \/ StartOther \/ StartEnd \/ EndOther \/ PoolEnd
  BY <1>2 DEF PoolStart, GetNextLoop, PoolDestroy, StartOther, StartEnd, EndOther, PoolEnd
<1>3. CASE StartDetail
  BY <1>3 DEF StartDetail, OwnerStart, OwnerGetLoop
<1>4. CASE EndDetail
  BY <1>4 DEF EndDetail, OwnerDestroy, OwnerJoin
<1>5. CASE DetailThread
  BY <1>5 DEF DetailThread, InitCallback, OtherEvent, Thread, Publish, GoOn, Clear, DestroyLoop,
              Next, Loop
<1>6. ASSUME NEW c \in Callers, UseGiven(c) PROVE LoopStep
  BY <1>6 DEF UseGiven, Use, UseLive, UseDead, Next, Caller
<1> QED
  BY <1>1, <1>2, <1>3, <1>4, <1>5, <1>6 DEF PoolNext, PoolGoes

\* The destructor disturbs nothing of what holds of a loop.
LEMMA LoopKept == ASSUME IInv, ThreadInv, LoopStep PROVE IInv'
<1> USE DEF IInv
<1>1. CASE [Next]_vars
  BY <1>1, NextType, NextPhase, NextOrder, NextWake
<1>2. CASE OwnerQuit \/ OwnerWakeup
  <2>1. /\ UNCHANGED <<pendingFunctors_, functors, callingPendingFunctors_, looping_, armed,
                       activeChannels_, loop, caller, queued, quits, early, ran>>
        /\ counter' \in Nat /\ counter' >= counter
    BY <1>2 DEF OwnerQuit, OwnerWakeup, queue, wake, count, TypeOK
  <2>2. quit_' \in BOOLEAN
    BY <1>2, Zenon DEF OwnerQuit, OwnerWakeup, TypeOK
  <2>3. TypeOK'
    BY <2>1, <2>2 DEF TypeOK
  <2>4. OnceInOrder' /\ Phase'
    BY <2>1 DEF OnceInOrder, Phase
  <2>5. WakeInv'
    BY <2>1 DEF WakeInv, Awaited, WakeupComing, TypeOK
  <2> QED BY <2>3, <2>4, <2>5
<1>3. ASSUME NEW c \in Callers, UseDead(c) PROVE IInv'
  <2>1. caller' = [caller EXCEPT ![c] = "idle"] /\ thread = "ended"
    BY <1>3 DEF UseDead
  <2>2. /\ UNCHANGED <<pendingFunctors_, functors, callingPendingFunctors_, looping_, quit_,
                       counter, armed, activeChannels_, loop, queued, quits, early, ran>>
    BY <1>3 DEF UseDead, queue, wake, count
  <2>3. caller' \in [Callers -> CallerPc]
    BY <2>1 DEF TypeOK, CallerPc
  <2>4. TypeOK' /\ OnceInOrder' /\ Phase'
    BY <2>2, <2>3 DEF TypeOK, OnceInOrder, Phase
  <2>5. WakeInv'
    BY <2>1, <2>2 DEF ThreadInv, WakeInv
  <2> QED BY <2>4, <2>5
<1> QED
  BY <1>1, <1>2, <1>3 DEF LoopStep

\* A callback of the loop thread that sets quit_ is counted.
LEMMA CallbackQuits ==
    ASSUME IInv, Callback
    PROVE  quits \in Nat /\ quits' \in Nat /\ quits' >= quits /\ (quit_' => quit_ \/ quits' > 0)
<1> USE DEF IInv, TypeOK
<1>1. CASE QuitInLoop
  BY <1>1 DEF QuitInLoop
<1>2. CASE NoQuit
  BY <1>2 DEF NoQuit
<1> QED
  BY <1>1, <1>2 DEF Callback

\* What the loop does by itself: it ends only when it finds quit_ set, which nobody
\* sets without being counted.
LEMMA LoopQuits ==
    ASSUME IInv, PushBeforeLoop \/ PollOther \/ Going
    PROVE  /\ quits \in Nat /\ quits' \in Nat /\ quits' >= quits
           /\ quit_' => quit_ \/ quits' > 0
           /\ loop = "done" => loop' = "done"
           /\ loop' = "done" => loop = "done" \/ quit_
<1>0. quits \in Nat
  BY DEF IInv, TypeOK
<1>1. CASE PushBeforeLoop
  BY <1>0, <1>1 DEF PushBeforeLoop
<1>2. CASE HandleOther \/ RunFunctor
  BY <1>2, CallbackQuits DEF HandleOther, RunFunctor
<1>3. CASE EnterLoop \/ ClearQuit \/ TestQuit
  BY <1>0, <1>3 DEF EnterLoop, ClearQuit, TestQuit, count
<1>4. CASE PollOther \/ PollWakeup \/ PollNothing \/ HandleWakeup \/ EndHandle
  BY <1>0, <1>4 DEF PollOther, PollWakeup, PollNothing, Report, HandleWakeup, EndHandle, count
<1>5. CASE Drain \/ EndDrain
  BY <1>0, <1>5 DEF Drain, EndDrain, count
<1> QED
  BY <1>1, <1>2, <1>3, <1>4, <1>5 DEF Going

\* The thread and the owner keep ThreadInv, with the loop in its own hands.
LEMMA ThreadKept == ASSUME IInv, ThreadInv, [PoolNext]_everything PROVE ThreadInv'
<1> USE DEF ThreadInv, ThreadPc, OwnerPc, NoOrphan
<1>0. quits \in Nat
  BY DEF IInv, TypeOK
<1>1. ASSUME UNCHANGED <<loop_, thread, owner>>,
             quits' \in Nat, quits' >= quits, quit_' => quit_ \/ quits' > 0,
             loop = "done" => loop' = "done",
             loop' = "done" => loop = "done" \/ quit_
      PROVE  ThreadInv'
  BY <1>0, <1>1
<1>2. ASSUME UNCHANGED <<vars, loop_, thread, owner>> PROVE ThreadInv'
  BY <1>2 DEF vars, count
<1>3. CASE UNCHANGED everything
  BY <1>2, <1>3 DEF everything, allVars, threadVars
<1>4. CASE PoolStart \/ GetNextLoop \/ PoolDestroy \/ StartOther \/ StartEnd \/ EndOther \/ PoolEnd
  BY <1>2, <1>4 DEF PoolStart, GetNextLoop, PoolDestroy, StartOther, StartEnd, EndOther, PoolEnd,
                    allVars, threadVars
<1>5. CASE StartDetail
  BY <1>5 DEF StartDetail, OwnerStart, OwnerGetLoop, vars, count
<1>6. CASE EndDetail
  BY <1>6 DEF EndDetail, OwnerDestroy, OwnerQuit, OwnerWakeup, OwnerJoin, vars, count
<1>7. CASE Publish \/ Clear \/ DestroyLoop
  <2>0. quits' = quits /\ owner' = owner /\ quit_' = quit_ /\ loop' = loop
    BY ONLY <1>7, Zenon DEF Publish, Clear, DestroyLoop, vars, count
  <2>1. CASE Publish
    <3>1. /\ loop_' = TRUE /\ thread' = "loop" /\ thread = "init"
      BY ONLY <2>1, Zenon DEF Publish
    <3> QED BY <2>0, <3>1
  <2>2. CASE Clear
    <3>1. /\ loop_' = FALSE /\ thread' = "cleared" /\ thread = "loop" /\ loop = "done"
      BY ONLY <2>2, Zenon DEF Clear
    <3> QED BY <2>0, <3>1
  <2>3. CASE DestroyLoop
    <3>1. /\ loop_' = loop_ /\ thread' = "ended" /\ thread = "cleared"
      BY ONLY <2>3, Zenon DEF DestroyLoop
    <3> QED BY <2>0, <3>1
  <2> QED BY <1>7, <2>1, <2>2, <2>3
<1>8. CASE InitCallback \/ OtherEvent \/ GoOn
  BY <1>1, <1>8, LoopQuits DEF InitCallback, OtherEvent, GoOn, threadVars
<1>9. ASSUME NEW c \in Callers, UseGiven(c) PROVE ThreadInv'
  <2>1. CASE UseDead(c)
    BY <1>0, <1>1, <2>1 DEF UseDead, count
  <2>2. CASE UseLive(c)
    <3>1. CASE CallerPush(c) \/ CallerWakeup(c)
      BY <1>0, <1>1, <2>2, <3>1 DEF UseLive, CallerPush, CallerWakeup, threadVars, count
    <3>2. CASE CallerQuit(c)
      BY <1>0, <1>1, <2>2, <3>2 DEF UseLive, CallerQuit, threadVars
    <3> QED BY <2>2, <3>1, <3>2 DEF UseLive
  <2> QED BY <1>9, <2>1, <2>2 DEF UseGiven, Use
<1> QED
  BY <1>3, <1>4, <1>5, <1>6, <1>7, <1>8, <1>9 DEF PoolNext, PoolGoes, DetailThread, Thread

LEMMA AliveKept == ASSUME alive \in BOOLEAN, [PoolNext]_everything PROVE alive' \in BOOLEAN
<1> USE DEF Undefined, allVars, threadVars
<1>1. CASE UNCHANGED everything
  BY <1>1, Zenon DEF everything
<1>2. CASE PoolStart \/ GetNextLoop \/ PoolDestroy \/ StartOther \/ StartEnd \/ EndOther \/ PoolEnd
  BY <1>2, Zenon DEF PoolStart, GetNextLoop, PoolDestroy, StartOther, StartEnd, EndOther, PoolEnd
<1>3. CASE StartDetail
  BY <1>3, Zenon DEF StartDetail, OwnerStart, OwnerGetLoop
<1>4. CASE EndDetail
  BY <1>4, Zenon DEF EndDetail, OwnerDestroy, OwnerQuit, OwnerWakeup, OwnerJoin
<1>5. CASE DetailThread
  BY <1>5, Zenon DEF DetailThread, InitCallback, OtherEvent, Thread, Publish, GoOn, Clear, DestroyLoop
<1>6. ASSUME NEW c \in Callers, UseGiven(c) PROVE alive' \in BOOLEAN
  BY <1>6, Zenon DEF UseGiven, Use, UseLive, UseDead
<1> QED
  BY <1>1, <1>2, <1>3, <1>4, <1>5, <1>6, Zenon DEF PoolNext, PoolGoes

-----------------------------------------------------------------------------
(* The pool.                                                               *)

\* loops_.push_back() of the thread that was started
LEMMA PushKept ==
    ASSUME LoopsInv, Balanced, PushLoop, pool = "starting", Starting <= numThreads_
    PROVE  LoopsInv' /\ Balanced'
<1> USE PoolAssumption DEF LoopsInv
<1> DEFINE n == Len(loops_)
<1>1. /\ n \in Nat /\ n + 1 \in 1 .. numThreads_
      /\ loops_' = Append(loops_, n + 1)
      /\ UNCHANGED <<numThreads_, started_, next_, given, pool, ended>>
  BY DEF PushLoop, Starting
<1>2. loops_' \in Seq(1 .. numThreads_) /\ Len(loops_') = n + 1
  BY <1>1, AppendProperties
<1>3. \A i \in 1 .. n + 1 : loops_'[i] = i
  BY <1>1, AppendProperties
<1>4. LoopsInv'
  BY <1>1, <1>2, <1>3
<1>5. Balanced'
  BY <1>1, <1>2, <1>3 DEF Balanced
<1> QED BY <1>4, <1>5

\* ++next_ and the loop before it
LEMMA NextLoopKept == ASSUME LoopsInv, Balanced, GetNextLoop PROVE LoopsInv' /\ Balanced'
<1> DEFINE n == Len(loops_)
<1>0. /\ pool \in {"new", "started"}
      /\ IF loops_ = <<>>
         THEN given' = [given EXCEPT ![Base] = @ + 1] /\ UNCHANGED next_
         ELSE given' = [given EXCEPT ![loops_[next_ + 1]] = @ + 1] /\ next_' = Advance
      /\ UNCHANGED <<numThreads_, started_, loops_, pool, ended>>
  BY ONLY GetNextLoop, Zenon DEF GetNextLoop
<1>1. n \in Nat /\ n <= MaxThreads /\ MaxThreads \in Nat
  <2>1. loops_ \in Seq(1 .. numThreads_) /\ numThreads_ \in 0 .. MaxThreads /\ MaxThreads \in Nat
    BY PoolAssumption DEF LoopsInv
  <2>2. n \in Nat /\ \A i \in 1 .. n : loops_[i] = i /\ loops_[i] \in 1 .. numThreads_
    BY <2>1 DEF LoopsInv
  <2>3. n > 0 => n \in 1 .. numThreads_
    <3>1. n > 0 => n \in 1 .. n
      BY <2>2
    <3> QED BY <2>2, <3>1
  <2> QED BY <2>1, <2>2, <2>3
<1>2. given \in [0 .. MaxThreads -> Nat] /\ next_ \in Nat
  BY DEF LoopsInv
<1>3. CASE loops_ = <<>>
  <2>1. given' = [given EXCEPT ![0] = @ + 1] /\ next_' = next_ /\ 0 \in 0 .. MaxThreads
    BY <1>0, <1>1, <1>3 DEF Base
  <2>2. given' \in [0 .. MaxThreads -> Nat] /\ \A i \in 1 .. MaxThreads : given'[i] = given[i]
    BY <1>2, <2>1
  <2>3. LoopsInv'
    BY <1>0, <2>1, <2>2 DEF LoopsInv
  <2>4. DOMAIN loops_' = {}
    BY <1>0, <1>3
  <2> QED
    BY <2>3, <2>4 DEF Balanced
<1>4. CASE loops_ # <<>>
  <2> DEFINE k == next_ + 1
  <2>1. n > 0 /\ pool = "started" /\ DOMAIN loops_ = 1 .. n
    BY <1>0, <1>4 DEF LoopsInv
  <2>2. k \in 1 .. n /\ k \in 0 .. MaxThreads
    BY <1>1, <2>1 DEF LoopsInv
  <2>3. \A i \in 1 .. n : loops_[i] = i /\ loops_'[i] = i
    BY <1>0 DEF LoopsInv
  <2>4. given' = [given EXCEPT ![k] = @ + 1] /\ next_' = IF k >= n THEN 0 ELSE k
    BY <1>0, <1>4, <2>2, <2>3 DEF Advance
  <2>5. given' \in [0 .. MaxThreads -> Nat] /\ next_' \in Nat /\ (next_' = 0 \/ next_' < n)
    BY <1>1, <1>2, <2>2, <2>4
  <2>6. LoopsInv'
    BY <1>0, <2>1, <2>5 DEF LoopsInv
  <2>7. \A i \in 1 .. n : given[i] \in Nat /\ given'[i] = IF i = k THEN given[i] + 1 ELSE given[i]
    <3> HIDE DEF k
    <3>1. 1 .. n \subseteq 0 .. MaxThreads
      BY <1>1
    <3> QED
      BY <1>2, <2>2, <2>4, <3>1
  <2>8. ASSUME NEW i \in 1 .. n, NEW j \in 1 .. n, i < j
        PROVE  given'[i] - given'[j] = (IF i <= next_' /\ next_' < j THEN 1 ELSE 0)
    <3>1. given[i] - given[j] = (IF i <= next_ /\ next_ < j THEN 1 ELSE 0)
      BY <2>1, <2>3, <2>8 DEF Balanced
    <3> DEFINE a == given[i]  b == given[j]  c == given'[i]  d == given'[j]
    <3>2. /\ a \in Nat /\ b \in Nat
          /\ c = IF i = k THEN a + 1 ELSE a
          /\ d = IF j = k THEN b + 1 ELSE b
      BY <2>7
    <3> HIDE DEF a, b, c, d
    <3>3. a - b = (IF i <= next_ /\ next_ < j THEN 1 ELSE 0)
      BY <3>1 DEF a, b
    <3>4. c - d = (IF i <= next_' /\ next_' < j THEN 1 ELSE 0)
      BY <1>1, <1>2, <2>2, <2>4, <2>8, <3>2, <3>3
    <3> QED
      BY <3>4 DEF c, d
  <2>9. DOMAIN loops_' = 1 .. n
    BY <1>0, <2>1
  <2> QED
    BY <2>3, <2>6, <2>8, <2>9 DEF Balanced
<1> QED BY <1>3, <1>4

LEMMA LoopsKept ==
    ASSUME LoopsInv, Balanced, [PoolNext]_everything
    PROVE  LoopsInv' /\ Balanced'
<1> USE DEF PoolPc
<1>1. ASSUME UNCHANGED poolVars PROVE LoopsInv' /\ Balanced'
  BY <1>1 DEF poolVars, LoopsInv, Balanced
<1>2. CASE StartOther
  BY <1>2, PushKept DEF StartOther
<1>3. CASE StartDetail
  BY <1>1, <1>3, PushKept DEF StartDetail
<1>4. CASE GetNextLoop
  BY <1>4, NextLoopKept
<1>5. CASE PoolStart \/ StartEnd \/ PoolDestroy \/ PoolEnd
  <2>1. UNCHANGED <<numThreads_, loops_, next_, given, ended>> /\ pool' \in PoolPc
    BY <1>5 DEF PoolStart, StartEnd, PoolDestroy, PoolEnd
  <2>2. started_' \in BOOLEAN
    BY <1>5, Zenon DEF PoolStart, StartEnd, PoolDestroy, PoolEnd, LoopsInv
  <2>3. pool' # "new" /\ (pool' = "starting" => pool = "new")
    BY <1>5 DEF PoolStart, StartEnd, PoolDestroy, PoolEnd
  <2> QED
    BY <2>1, <2>2, <2>3 DEF LoopsInv, Balanced
<1>6. CASE EndOther \/ EndDetail
  <2>1. UNCHANGED <<numThreads_, started_, loops_, next_, given, pool>> /\ pool = "ending"
    BY <1>6 DEF EndOther, EndDetail
  <2>2. ended' \in 0 .. Len(loops_)
    BY <1>6 DEF EndOther, EndDetail, Ending, LoopsInv
  <2> QED
    BY <2>1, <2>2 DEF LoopsInv, Balanced
<1>7. CASE DetailThread \/ \E c \in Callers : UseGiven(c)
  BY <1>1, <1>7 DEF DetailThread, UseGiven
<1>8. CASE UNCHANGED everything
  BY <1>1, <1>8 DEF everything
<1> QED
  BY <1>2, <1>3, <1>4, <1>5, <1>6, <1>7, <1>8 DEF PoolNext, PoolGoes

-----------------------------------------------------------------------------
(* The theorems.                                                           *)

LEMMA PoolInitInv == PoolInit => PoolInv
<1> SUFFICES ASSUME PoolInit PROVE PoolInv
  OBVIOUS
<1> USE PoolAssumption DEF PoolInit, ThreadInit
<1>1. IInv
  BY InitIInv
<1>2. ThreadInv
  BY DEF Init, ThreadInv, ThreadPc, OwnerPc, NoOrphan
<1>3. LoopsInv
  <2>1. <<>> \in Seq(1 .. numThreads_) /\ Len(<<>>) = 0
    OBVIOUS
  <2>2. /\ loops_ = <<>> /\ next_ = 0 /\ ended = 0 /\ started_ = FALSE /\ pool = "new"
        /\ numThreads_ \in 0 .. MaxThreads /\ given = [i \in 0 .. MaxThreads |-> 0]
    OBVIOUS
  <2>3. MaxThreads \in Nat
    OBVIOUS
  <2> QED BY ONLY <2>1, <2>2, <2>3 DEF LoopsInv, PoolPc
<1>4. Balanced
  BY DEF Balanced
<1> QED BY <1>1, <1>2, <1>3, <1>4, Zenon DEF PoolInv

LEMMA PoolInvariant == PoolSpec => []PoolInv
<1>1. PoolInv /\ [PoolNext]_everything => PoolInv'
  BY PoolStepIsLoopStep, LoopKept, ThreadKept, LoopsKept, AliveKept DEF PoolInv
<1> QED
  BY PoolInitInv, <1>1, PTL DEF PoolSpec

\* Type correctness of the pool, its detailed thread and that thread's loop.
THEOREM PoolTypeCorrect == PoolSpec => []PoolTypeOK
<1>1. PoolInv => PoolTypeOK
  BY DEF PoolInv, IInv, ThreadInv, LoopsInv, PoolTypeOK, ThreadTypeOK
<1> QED
  BY PoolInvariant, <1>1, PTL

\* startLoop() returns the address of a loop that is initialised and, unless somebody
\* quits it, lives until the destructor has called quit(), although the destructor
\* tests loop_ without the mutex (EventLoopThread.cc:16-36).
THEOREM LoopLives == PoolSpec => []LoopOutlivesUse
<1>1. PoolInv => LoopOutlivesUse
  <2> SUFFICES ASSUME PoolInv, owner \in {"started", "quit"}, quits = 0
               PROVE  thread = "loop" /\ loop_ /\ loop # "done"
    BY DEF LoopOutlivesUse
  <2>1. ThreadInv
    BY Zenon DEF PoolInv
  <2>2. loop # "done" /\ thread = "loop"
    BY <2>1 DEF ThreadInv, ThreadPc
  <2> QED
    BY <2>1, <2>2 DEF ThreadInv
<1> QED
  BY PoolInvariant, <1>1, PTL

\* No thread outlives its EventLoopThread but by the release of mutex_, and that
\* only when somebody else has ended the loop (EventLoopThread.cc:16-22).
THEOREM ThreadJoined == PoolSpec => []NoOrphan
<1>1. PoolInv => NoOrphan
  BY DEF PoolInv, ThreadInv
<1> QED
  BY PoolInvariant, <1>1, PTL

\* getNextLoop() gives the loops out in turn, however many there are
\* (EventLoopThreadPool.cc:35-47).
THEOREM Turns == PoolSpec => []Balanced
<1>1. PoolInv => Balanced
  BY DEF PoolInv
<1> QED
  BY PoolInvariant, <1>1, PTL

\* What is proved of a loop whose callers may do anything holds of one that a
\* pool starts, gives out and ends: the quit() of the destructor included.
THEOREM LoopOfPool == PoolSpec => [](OnceInOrder /\ FirstWakeup)
<1>1. PoolInv => OnceInOrder /\ FirstWakeup
  BY DEF PoolInv, IInv, WakeInv, FirstWakeup
<1> QED
  BY PoolInvariant, <1>1, PTL
=============================================================================
