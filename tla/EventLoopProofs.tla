--------------------------- MODULE EventLoopProofs ---------------------------
(***************************************************************************)
(* Proofs about the event loop, for any callers and any number of          *)
(* functors: its types, that every functor is called once and in the order *)
(* of queueInLoop(), and that the first sleep has its wake-up.             *)
(***************************************************************************)
EXTENDS EventLoop, SequenceLemmas

\* doPendingFunctors' vector is empty outside its loop, and
\* callingPendingFunctors_ is set in it: it is what makes queueInLoop() of the
\* loop thread wake the next round.
Phase ==
    /\ loop # "run" => functors = <<>>
    /\ loop = "run" => callingPendingFunctors_

\* A reported wake-up disarms the channel; until then what is queued has a
\* wake-up under way everywhere but between epoll_wait and doPendingFunctors(),
\* where the loop thread queues without one because it comes past it next.
WakeInv ==
    armed /\ loop \in {"built", "clear", "test", "poll", "run"} /\ Awaited => WakeupComing

IInv == TypeOK /\ OnceInOrder /\ Phase /\ WakeInv

-----------------------------------------------------------------------------
(* What queueInLoop() does to the queue.                                   *)

LEMMA PushQueue ==
    ASSUME TypeOK, Push
    PROVE  /\ queued' = queued + 1
           /\ pendingFunctors_' = Append(pendingFunctors_, queued + 1)
           /\ pendingFunctors_' \in Seq(1 .. queued')
           /\ functors \in Seq(1 .. queued')
           /\ ran \in Seq(1 .. queued')
           /\ queued' \in Nat
           /\ early \in 0 .. queued'
<1>1. queued \in Nat /\ queued' = queued + 1 /\ queued + 1 \in 1 .. queued'
  BY DEF TypeOK, Push
<1>2. pendingFunctors_ \in Seq(1 .. queued') /\ functors \in Seq(1 .. queued') /\ ran \in Seq(1 .. queued')
  BY <1>1, NumbersGrow DEF TypeOK
<1>3. pendingFunctors_' = Append(pendingFunctors_, queued + 1)
  BY DEF Push
<1> QED
  BY <1>1, <1>2, <1>3, AppendProperties DEF TypeOK

\* What is pushed comes last, after all that was pushed before.
LEMMA PushInOrder ==
    ASSUME TypeOK, OnceInOrder, Push
    PROVE  ran \o functors \o pendingFunctors_' = [i \in 1 .. queued' |-> i]
<1>1. /\ queued \in Nat /\ queued + 1 \in 1 .. queued + 1
      /\ ran \in Seq(1 .. queued + 1)
      /\ functors \in Seq(1 .. queued + 1)
      /\ pendingFunctors_ \in Seq(1 .. queued + 1)
  BY NumbersGrow DEF TypeOK
<1>2. PushesLast(ran, functors, pendingFunctors_, queued + 1)
  BY ONLY <1>1, AppendToThird
<1>3. /\ pendingFunctors_' = Append(pendingFunctors_, queued + 1) /\ queued' = queued + 1
      /\ ran \o functors \o pendingFunctors_ = [i \in 1 .. queued |-> i]
  BY DEF OnceInOrder, Push
<1>4. Append([i \in 1 .. queued |-> i], queued + 1) = [i \in 1 .. queued + 1 |-> i]
  BY ONLY <1>1, NextNumber
<1> QED
  BY ONLY <1>2, <1>3, <1>4 DEF PushesLast

-----------------------------------------------------------------------------
(* The inductive invariant.                                                *)

LEMMA InitIInv == Init => IInv
<1> SUFFICES ASSUME Init PROVE IInv
  OBVIOUS
<1> USE DEF Init
<1>1. TypeOK
  <2>1. caller \in [Callers -> CallerPc]
    BY DEF CallerPc
  <2>2. <<>> \in Seq(1 .. queued) /\ early \in 0 .. queued
    OBVIOUS
  <2> QED
    BY <2>1, <2>2 DEF TypeOK, LoopPc
<1>2. OnceInOrder
  <2>1. <<>> \o <<>> \o <<>> = <<>> /\ [i \in 1 .. 0 |-> i] = <<>>
    OBVIOUS
  <2> QED
    BY <2>1 DEF OnceInOrder
<1>3. Phase /\ WakeInv
  BY DEF Phase, WakeInv, Awaited
<1> QED
  BY <1>1, <1>2, <1>3 DEF IInv

\* Callbacks and functors: queueInLoop() and quit() of the loop thread.
LEMMA CallbackStep ==
    ASSUME TypeOK, Callback
    PROVE  /\ queued' \in Nat /\ queued <= queued'
           /\ pendingFunctors_' \in Seq(1 .. queued')
           /\ functors \in Seq(1 .. queued')
           /\ ran \in Seq(1 .. queued')
           /\ early \in 0 .. queued'
           /\ counter' \in Nat /\ counter <= counter'
           /\ quits' \in Nat
           /\ quit_' \in BOOLEAN
           /\ OnceInOrder => ran \o functors \o pendingFunctors_' = [i \in 1 .. queued' |-> i]
           /\ callingPendingFunctors_ => counter' > 0 \/ UNCHANGED <<pendingFunctors_, counter>>
<1>1. quits' \in Nat /\ quit_' \in BOOLEAN
  <2>1. quits' \in Nat
    BY DEF Callback, QuitInLoop, NoQuit, TypeOK
  <2>2. quit_' \in BOOLEAN
    BY Zenon DEF Callback, QuitInLoop, NoQuit, TypeOK
  <2> QED
    BY <2>1, <2>2
<1>2. CASE PushInLoop
  <2>1. Push /\ counter' \in Nat /\ counter <= counter'
    BY <1>2 DEF PushInLoop, TypeOK
  <2>2. callingPendingFunctors_ => counter' > 0
    BY <1>2 DEF PushInLoop, TypeOK
  <2>3. queued' = queued + 1 /\ queued \in Nat
    BY <2>1, PushQueue DEF TypeOK
  <2> QED
    BY <1>1, <2>1, <2>2, <2>3, PushQueue, PushInOrder
<1>3. CASE NoPush
  BY <1>1, <1>3 DEF NoPush, TypeOK, OnceInOrder
<1> QED
  BY <1>2, <1>3 DEF Callback

\* The actions change the type of nothing.
LEMMA NextType == TypeOK /\ [Next]_vars => TypeOK'
<1> SUFFICES ASSUME TypeOK, [Next]_vars PROVE TypeOK'
  OBVIOUS
<1> USE DEF TypeOK
<1>1. CASE UNCHANGED vars
  BY <1>1 DEF vars, queue, wake, count
<1>2. ASSUME NEW c \in Callers, CallerPush(c) PROVE TypeOK'
  <2>1. caller' \in [Callers -> CallerPc]
    BY <1>2 DEF CallerPush, CallerPc
  <2>2. Push
    BY <1>2 DEF CallerPush
  <2> QED
    BY <1>2, <2>1, <2>2, PushQueue DEF CallerPush, wake
<1>3. ASSUME NEW c \in Callers, CallerQuit(c) PROVE TypeOK'
  <2>1. caller' \in [Callers -> CallerPc] /\ quits' \in Nat
    BY <1>3 DEF CallerQuit, CallerPc
  <2>2. quit_' \in BOOLEAN
    BY <1>3, Zenon DEF CallerQuit
  <2> QED
    BY <1>3, <2>1, <2>2 DEF CallerQuit, queue, wake
<1>4. ASSUME NEW c \in Callers, CallerWakeup(c) PROVE TypeOK'
  <2>1. caller' \in [Callers -> CallerPc] /\ counter' \in Nat
    BY <1>4 DEF CallerWakeup, CallerPc
  <2> QED
    BY <1>4, <2>1 DEF CallerWakeup, queue, count
<1>5. CASE PushBeforeLoop
  <2>1. Push /\ counter' \in Nat /\ early' = queued'
    BY <1>5 DEF PushBeforeLoop, PushInLoop
  <2>2. early' \in 0 .. queued'
    BY <2>1, PushQueue
  <2> QED
    BY <1>5, <2>1, <2>2, PushQueue DEF PushBeforeLoop
<1>6. CASE HandleOther \/ RunFunctor
  <2>1. Callback
    BY <1>6 DEF HandleOther, RunFunctor
  <2>2. /\ callingPendingFunctors_' = callingPendingFunctors_ /\ looping_' = looping_
        /\ armed' = armed /\ loop' = loop /\ caller' = caller /\ early' = early
        /\ activeChannels_' \subseteq activeChannels_
    BY <1>6, Zenon DEF HandleOther, RunFunctor
  <2>3. functors' \in Seq(1 .. queued') /\ ran' \in Seq(1 .. queued')
    <3>1. CASE HandleOther
      BY <2>1, <3>1, CallbackStep DEF HandleOther
    <3>2. CASE RunFunctor
      BY <2>1, <3>2, CallbackStep, HeadTailProperties, AppendProperties DEF RunFunctor
    <3> QED
      BY <1>6, <3>1, <3>2
  <2> QED
    BY <2>1, <2>2, <2>3, CallbackStep
<1>7. CASE EnterLoop \/ ClearQuit \/ TestQuit \/ EndHandle \/ EndDrain
  <2>1. UNCHANGED <<pendingFunctors_, functors, counter, armed, caller, queued, quits, early, ran>>
    BY <1>7 DEF EnterLoop, ClearQuit, TestQuit, EndHandle, EndDrain, queue, wake, count
  <2>2. /\ activeChannels_' \subseteq {"wakeup", "other"}
        /\ callingPendingFunctors_' \in BOOLEAN /\ looping_' \in BOOLEAN /\ quit_' \in BOOLEAN
    BY <1>7, Zenon DEF EnterLoop, ClearQuit, TestQuit, EndHandle, EndDrain, queue
  <2>3. loop' \in LoopPc
    BY <1>7 DEF EnterLoop, ClearQuit, TestQuit, EndHandle, EndDrain, LoopPc
  <2> QED
    BY <2>1, <2>2, <2>3
<1>8. CASE PollWakeup \/ PollOther \/ PollNothing \/ HandleWakeup
  <2>1. UNCHANGED <<queue, looping_, quit_, caller, count, ran>> /\ counter' \in Nat
    BY <1>8 DEF PollWakeup, PollOther, PollNothing, HandleWakeup, Report, wake
  <2>2. activeChannels_' \subseteq {"wakeup", "other"} /\ armed' \in BOOLEAN
    BY <1>8, Zenon DEF PollWakeup, PollOther, PollNothing, HandleWakeup, Report, wake
  <2>3. loop' \in LoopPc
    BY <1>8 DEF PollWakeup, PollOther, PollNothing, HandleWakeup, Report, LoopPc
  <2> QED
    BY <2>1, <2>2, <2>3 DEF queue, count
<1>9. CASE Drain
  <2>1. functors' = pendingFunctors_ /\ pendingFunctors_' = functors
    BY <1>9 DEF Drain, TakeFunctors
  <2>2. callingPendingFunctors_' \in BOOLEAN
    BY <1>9, Zenon DEF Drain
  <2>3. loop' \in LoopPc
    BY <1>9 DEF Drain, LoopPc
  <2> QED
    BY <1>9, <2>1, <2>2, <2>3 DEF Drain, wake, count
<1> QED
  BY <1>1, <1>2, <1>3, <1>4, <1>5, <1>6, <1>7, <1>8, <1>9 DEF Next, Loop, Going, Caller

\* doPendingFunctors' vector is filled and emptied by the loop alone.
LEMMA NextPhase == TypeOK /\ Phase /\ [Next]_vars => Phase'
<1> SUFFICES ASSUME TypeOK, Phase, [Next]_vars PROVE Phase'
  OBVIOUS
<1> USE DEF Phase
<1>1. CASE UNCHANGED <<functors, callingPendingFunctors_, loop>>
  BY <1>1
<1>2. CASE Drain
  BY <1>2 DEF Drain, TakeFunctors
<1>3. CASE EndDrain
  BY <1>3 DEF EndDrain
<1>4. CASE RunFunctor
  BY <1>4 DEF RunFunctor
<1>5. CASE EnterLoop \/ ClearQuit \/ TestQuit \/ EndHandle \/ PollWakeup \/ PollOther \/ PollNothing
  BY <1>5 DEF EnterLoop, ClearQuit, TestQuit, EndHandle, PollWakeup, PollOther, PollNothing, Report, queue
<1> QED
  BY <1>1, <1>2, <1>3, <1>4, <1>5
     DEF Next, Loop, Going, Caller, PushBeforeLoop, CallerPush, CallerQuit, CallerWakeup,
         HandleWakeup, HandleOther, vars, queue

\* No step loses, repeats or reorders a functor.
LEMMA NextOrder == TypeOK /\ Phase /\ OnceInOrder /\ [Next]_vars => OnceInOrder'
<1> SUFFICES ASSUME TypeOK, Phase, OnceInOrder, [Next]_vars PROVE OnceInOrder'
  OBVIOUS
<1>1. CASE UNCHANGED <<ran, functors, pendingFunctors_, queued>>
  BY <1>1 DEF OnceInOrder
<1>2. ASSUME Push, UNCHANGED <<ran, functors>> PROVE OnceInOrder'
  BY <1>2, PushInOrder DEF OnceInOrder
<1>3. CASE HandleOther
  BY <1>3, CallbackStep DEF HandleOther, OnceInOrder
<1>4. CASE RunFunctor
  <2>1. Callback /\ functors # <<>> /\ ran' = Append(ran, Head(functors)) /\ functors' = Tail(functors)
    BY <1>4 DEF RunFunctor
  <2>2. ran \o functors \o pendingFunctors_' = [i \in 1 .. queued' |-> i]
    BY <2>1, CallbackStep
  <2>3. Append(ran, Head(functors)) \o Tail(functors) = ran \o functors
    <3>1. ran \in Seq(1 .. queued) /\ functors \in Seq(1 .. queued)
      BY DEF TypeOK
    <3> QED
      BY <2>1, <3>1, MoveHead
  <2> QED
    BY <2>1, <2>2, <2>3 DEF OnceInOrder
<1>5. CASE Drain
  <2>1. /\ functors = <<>> /\ functors' = pendingFunctors_ /\ pendingFunctors_' = functors
        /\ UNCHANGED <<ran, queued>>
    BY <1>5 DEF Drain, TakeFunctors, Phase, count
  <2>2. ran \o <<>> \o pendingFunctors_ = ran \o pendingFunctors_ \o <<>>
    <3>1. ran \in Seq(1 .. queued) /\ pendingFunctors_ \in Seq(1 .. queued)
      BY DEF TypeOK
    <3>2. ran \o pendingFunctors_ \in Seq(1 .. queued)
      BY <3>1, ConcatProperties
    <3> QED
      BY <3>1, <3>2, ConcatEmptySeq
  <2> QED
    BY <2>1, <2>2 DEF OnceInOrder
<1>6. CASE PushBeforeLoop
  BY <1>6, <1>2 DEF PushBeforeLoop, PushInLoop
<1>7. ASSUME NEW c \in Callers, CallerPush(c) PROVE OnceInOrder'
  BY <1>7, <1>2 DEF CallerPush
<1> QED
  BY <1>1, <1>3, <1>4, <1>5, <1>6, <1>7
     DEF Next, Loop, Going, Caller, CallerQuit, CallerWakeup, EnterLoop, ClearQuit,
         TestQuit, PollWakeup, PollOther, PollNothing, Report, HandleWakeup, EndHandle, EndDrain,
         vars, queue, count

\* What is queued without a wake-up is queued where the loop comes past it.
LEMMA NextWake == TypeOK /\ Phase /\ WakeInv /\ [Next]_vars => WakeInv'
<1> SUFFICES ASSUME TypeOK, Phase, WakeInv, [Next]_vars PROVE WakeInv'
  OBVIOUS
<1> USE DEF WakeInv
<1>1. CASE UNCHANGED vars
  BY <1>1 DEF vars, queue, wake, count, Awaited, WakeupComing
<1>2. ASSUME NEW c \in Callers, CallerPush(c) \/ CallerQuit(c) PROVE WakeInv'
  <2>1. caller'[c] = "wakeup"
    BY <1>2 DEF CallerPush, CallerQuit, TypeOK
  <2> QED
    BY <2>1 DEF WakeupComing
<1>3. ASSUME NEW c \in Callers, CallerWakeup(c) PROVE WakeInv'
  <2>1. counter' > 0
    BY <1>3 DEF CallerWakeup, TypeOK
  <2> QED
    BY <2>1 DEF WakeupComing
<1>4. CASE PushBeforeLoop
  <2>1. /\ early' = queued' /\ queued' \in Nat /\ pendingFunctors_' \in Seq(1 .. queued')
    BY <1>4, PushQueue DEF PushBeforeLoop, PushInLoop
  <2>2. \A i \in DOMAIN pendingFunctors_' : pendingFunctors_'[i] \in 1 .. queued'
    BY <2>1, LenProperties, ElementOfSeq
  <2> QED
    BY <2>1, <2>2 DEF Awaited
<1>5. CASE HandleWakeup \/ HandleOther \/ EndHandle
  BY <1>5 DEF HandleWakeup, HandleOther, EndHandle
<1>6. CASE PollWakeup \/ PollOther \/ PollNothing
  BY <1>6 DEF PollWakeup, PollOther, PollNothing, Report
<1>7. CASE Drain
  <2>1. pendingFunctors_' = <<>>
    BY <1>7 DEF Drain, TakeFunctors, Phase
  <2> QED
    BY <2>1 DEF Awaited
<1>8. CASE RunFunctor
  <2>1. counter' > 0 \/ UNCHANGED <<pendingFunctors_, counter>>
    BY <1>8, CallbackStep DEF RunFunctor, Phase
  <2>2. UNCHANGED <<early, armed, loop, caller>>
    BY <1>8 DEF RunFunctor
  <2> QED
    BY <2>1, <2>2 DEF Awaited, WakeupComing
<1>9. CASE EnterLoop \/ ClearQuit \/ TestQuit \/ EndDrain
  <2>1. /\ UNCHANGED <<pendingFunctors_, counter, early, armed, caller>>
        /\ loop \in {"built", "clear", "test", "run"}
    BY <1>9 DEF EnterLoop, ClearQuit, TestQuit, EndDrain, queue, wake, count
  <2> QED
    BY <2>1 DEF Awaited, WakeupComing
<1> QED
  BY <1>1, <1>2, <1>3, <1>4, <1>5, <1>6, <1>7, <1>8, <1>9 DEF Next, Loop, Going, Caller

-----------------------------------------------------------------------------
(* The theorems.                                                           *)

\* The strengthening is an invariant.
LEMMA Invariant == Spec => []IInv
<1>1. IInv /\ [Next]_vars => IInv'
  BY NextType, NextPhase, NextOrder, NextWake DEF IInv
<1> QED
  BY InitIInv, <1>1, PTL DEF Spec

\* Type correctness: the queue holds numbers of functors that were queued, and
\* so do the vector of doPendingFunctors() and the history.
THEOREM TypeCorrect == Spec => []TypeOK
<1>1. IInv => TypeOK
  BY DEF IInv
<1> QED
  BY Invariant, <1>1, PTL

\* Every functor is called at most once, in the order of queueInLoop(), and is
\* in exactly one place until then, for any number of threads that queue.
THEOREM InOrder == Spec => []OnceInOrder
<1>1. IInv => OnceInOrder
  BY DEF IInv
<1> QED
  BY Invariant, <1>1, PTL

\* While the wake-up channel is armed the loop never sleeps on queued functors
\* without a wake-up: the condition `!isInLoopThread() || callingPendingFunctors_`
\* of queueInLoop() is enough.
THEOREM WokenOnce == Spec => []FirstWakeup
<1>1. IInv => FirstWakeup
  BY DEF IInv, WakeInv, FirstWakeup
<1> QED
  BY Invariant, <1>1, PTL
=============================================================================
