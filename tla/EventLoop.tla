------------------------------ MODULE EventLoop ------------------------------
(***************************************************************************)
(* One EventLoop of Reactor/EventLoop.cc: its thread runs loop(); other    *)
(* threads, the callers, hand it functors with queueInLoop() (or, which is *)
(* the same for them, runInLoop()) and end it with quit().                 *)
(*                                                                         *)
(* A functor is its number in the order in which the functors were pushed  *)
(* under mutex_.  The wake-up is the pair of the eventfd, whose counter    *)
(* wakeup() increments and handleRead() clears, and of its registration in *)
(* epoll: kReadEvent carries EPOLLONESHOT (Channel.cc:5), so that the      *)
(* kernel disarms the registration when it reports it, and nothing in      *)
(* handleRead() arms it again.  All other channels of the loop are one     *)
(* channel "other" that may be ready at any time and stay so.              *)
(***************************************************************************)
EXTENDS Integers, Sequences, SequencesExt

CONSTANTS
    Callers,     \* the threads other than the loop thread
    MaxFunctors, \* bound of the model: how many functors are queued
    MaxQuits     \* bound of the model: how many times quit() is called

ASSUME BoundAssumption == MaxFunctors \in Nat /\ MaxQuits \in Nat

VARIABLES
    pendingFunctors_,        \* shared, under mutex_
    functors,                \* doPendingFunctors' vector, what is left of it
    callingPendingFunctors_,
    looping_,
    quit_,
    counter,                 \* the value behind wakeupFd_
    armed,                   \* epoll may report wakeupFd_
    activeChannels_,         \* reported and not yet handled
    loop,                    \* program counter of the loop thread
    caller,                  \* program counters of the other threads
    queued,                  \* how many functors were pushed
    quits,                   \* how many times quit() was called
    early,                   \* history: functors the loop thread pushed before loop()
    ran                      \* history: the functors in the order of their calls

queue == <<pendingFunctors_, functors, callingPendingFunctors_>>
wake  == <<counter, armed>>
count == <<queued, quits, early>>
vars  == <<queue, looping_, quit_, wake, activeChannels_, loop, caller, count, ran>>

LoopPc   == {"built", "clear", "test", "poll", "handle", "drain", "run", "done"}
CallerPc == {"idle", "wakeup"}

-----------------------------------------------------------------------------
Init ==
    /\ pendingFunctors_ = <<>>
    /\ functors = <<>>
    /\ callingPendingFunctors_ = FALSE
    /\ looping_ = FALSE
    /\ quit_ = FALSE
    /\ counter = 0
    /\ armed = TRUE
    /\ activeChannels_ = {}
    /\ loop = "built"
    /\ caller = [c \in Callers |-> "idle"]
    /\ queued = 0
    /\ quits = 0
    /\ early = 0
    /\ ran = <<>>

-----------------------------------------------------------------------------
(* The callers.                                                            *)

\* mutant: a number is given out twice
BugPush ==
    /\ queued < MaxFunctors
    /\ UNCHANGED queued
    /\ pendingFunctors_' = Append(pendingFunctors_, queued + 1)

\* the critical section of queueInLoop()
Push ==
    /\ queued < MaxFunctors
    /\ queued' = queued + 1
    /\ pendingFunctors_' = Append(pendingFunctors_, queued + 1)

\* queueInLoop() up to the release of the lock
CallerPush(c) ==
    /\ caller[c] = "idle"
    /\ Push
    /\ caller' = [caller EXCEPT ![c] = "wakeup"]
    /\ UNCHANGED <<functors, callingPendingFunctors_, looping_, quit_, wake,
                   activeChannels_, loop, quits, early, ran>>

CallerQuit(c) ==
    /\ caller[c] = "idle"
    /\ quits < MaxQuits
    /\ quits' = quits + 1
    /\ quit_' = TRUE
    /\ caller' = [caller EXCEPT ![c] = "wakeup"]
    /\ UNCHANGED <<queue, looping_, wake, activeChannels_, loop, queued, early, ran>>

\* wakeup(), called last by queueInLoop() and quit()
CallerWakeup(c) ==
    /\ caller[c] = "wakeup"
    /\ counter' = counter + 1
    /\ caller' = [caller EXCEPT ![c] = "idle"]
    /\ UNCHANGED <<queue, looping_, quit_, armed, activeChannels_, loop, count, ran>>

-----------------------------------------------------------------------------
(* The loop thread.                                                        *)

\* mutant: the loop thread wakes itself unless it is running the functors
BugPushInLoop ==
    /\ Push
    /\ counter' = IF callingPendingFunctors_ THEN counter ELSE counter + 1

\* queueInLoop() called by the loop thread
PushInLoop ==
    /\ Push
    /\ counter' = IF callingPendingFunctors_ THEN counter + 1 ELSE counter

NoPush == UNCHANGED <<pendingFunctors_, queued, counter>>

\* quit() called by the loop thread does not wake it
QuitInLoop ==
    /\ quits < MaxQuits
    /\ quits' = quits + 1
    /\ quit_' = TRUE

NoQuit == UNCHANGED <<quits, quit_>>

\* a callback of the loop thread, or a functor: it may queue one more functor
\* and may end the loop
Callback == (PushInLoop \/ NoPush) /\ (QuitInLoop \/ NoQuit)

\* queueInLoop() in the loop thread before it calls loop(), for instance in the
\* ThreadInitCallback of EventLoopThread
PushBeforeLoop ==
    /\ loop = "built"
    /\ PushInLoop
    /\ early' = queued'
    /\ UNCHANGED <<functors, callingPendingFunctors_, looping_, quit_, armed,
                   activeChannels_, loop, caller, quits, ran>>

EnterLoop ==
    /\ loop = "built"
    /\ looping_' = TRUE
    /\ loop' = "clear"
    /\ UNCHANGED <<queue, quit_, wake, activeChannels_, caller, count, ran>>

\* quit_ = false: a quit() that came before is forgotten
ClearQuit ==
    /\ loop = "clear"
    /\ quit_' = FALSE
    /\ loop' = "test"
    /\ UNCHANGED <<queue, looping_, wake, activeChannels_, caller, count, ran>>

\* mutant: the test is left out
BugTestQuit ==
    /\ loop = "test"
    /\ loop' = "poll"
    /\ activeChannels_' = {}
    /\ UNCHANGED <<queue, looping_, quit_, wake, caller, count, ran>>

\* while (!quit_)
TestQuit ==
    /\ loop = "test"
    /\ IF quit_
       THEN loop' = "done" /\ looping_' = FALSE /\ UNCHANGED activeChannels_
       ELSE loop' = "poll" /\ activeChannels_' = {} /\ UNCHANGED looping_
    /\ UNCHANGED <<queue, quit_, wake, caller, count, ran>>

WakeReady == armed /\ counter > 0

\* epoll_wait reports the channels in ready; what it reports of the wake-up
\* channel is disarmed
Report(ready) ==
    /\ loop = "poll"
    /\ activeChannels_' = ready
    /\ armed' = (armed /\ "wakeup" \notin ready)
    /\ loop' = "handle"
    /\ UNCHANGED <<queue, looping_, quit_, counter, caller, count, ran>>

PollWakeup == WakeReady /\ \E others \in SUBSET {"other"} : Report({"wakeup"} \cup others)

\* nothing makes another channel ready
PollOther == Report({"other"})

\* mutant: epoll_wait has no time limit
BugPollNothing == FALSE

\* kPollTimeMs have passed, or a signal interrupts epoll_wait
PollNothing ==
    /\ loop = "poll"
    /\ ~ WakeReady
    /\ loop' = "handle"
    /\ UNCHANGED <<queue, looping_, quit_, wake, activeChannels_, caller, count, ran>>

\* handleRead() of the wake-up channel
HandleWakeup ==
    /\ loop = "handle"
    /\ "wakeup" \in activeChannels_
    /\ activeChannels_' = activeChannels_ \ {"wakeup"}
    /\ counter' = 0
    /\ UNCHANGED <<queue, looping_, quit_, armed, loop, caller, count, ran>>

HandleOther ==
    /\ loop = "handle"
    /\ "other" \in activeChannels_
    /\ activeChannels_' = activeChannels_ \ {"other"}
    /\ Callback
    /\ UNCHANGED <<functors, callingPendingFunctors_, looping_, armed, loop, caller,
                   early, ran>>

EndHandle ==
    /\ loop = "handle"
    /\ activeChannels_ = {}
    /\ loop' = "drain"
    /\ UNCHANGED <<queue, looping_, quit_, wake, activeChannels_, caller, count, ran>>

\* mutant: the functors are copied, not swapped
BugTakeFunctors == functors' = pendingFunctors_ /\ UNCHANGED pendingFunctors_

TakeFunctors == functors' = pendingFunctors_ /\ pendingFunctors_' = functors

\* doPendingFunctors() up to the first call; when there is nothing to call it
\* returns and leaves callingPendingFunctors_ set
Drain ==
    /\ loop = "drain"
    /\ callingPendingFunctors_' = TRUE
    /\ TakeFunctors
    /\ loop' = IF pendingFunctors_ = <<>> THEN "test" ELSE "run"
    /\ UNCHANGED <<looping_, quit_, wake, activeChannels_, caller, count, ran>>

RunFunctor ==
    /\ loop = "run"
    /\ functors # <<>>
    /\ ran' = Append(ran, Head(functors))
    /\ functors' = Tail(functors)
    /\ Callback
    /\ UNCHANGED <<callingPendingFunctors_, looping_, armed, activeChannels_, loop,
                   caller, early>>

EndDrain ==
    /\ loop = "run"
    /\ functors = <<>>
    /\ callingPendingFunctors_' = FALSE
    /\ loop' = "test"
    /\ UNCHANGED <<pendingFunctors_, functors, looping_, quit_, wake,
                   activeChannels_, caller, count, ran>>

-----------------------------------------------------------------------------
\* what the loop thread does by itself
Going == \/ EnterLoop \/ ClearQuit \/ TestQuit \/ PollWakeup \/ PollNothing
         \/ HandleWakeup \/ HandleOther \/ EndHandle
         \/ Drain \/ RunFunctor \/ EndDrain

Loop == Going \/ PollOther

Caller(c) == CallerPush(c) \/ CallerQuit(c) \/ CallerWakeup(c)

Next == PushBeforeLoop \/ Loop \/ \E c \in Callers : Caller(c)

Spec == Init /\ [][Next]_vars

\* Every thread that can run does; epoll_wait returns after kPollTimeMs at the
\* latest, and the functors and callbacks return.  No event of another channel
\* need ever come.
Fairness == WF_vars(Going) /\ \A c \in Callers : WF_vars(CallerWakeup(c))

FairSpec == Spec /\ Fairness

-----------------------------------------------------------------------------
(* Properties.                                                             *)

TypeOK ==
    /\ pendingFunctors_ \in Seq(1 .. queued)
    /\ functors \in Seq(1 .. queued)
    /\ callingPendingFunctors_ \in BOOLEAN
    /\ looping_ \in BOOLEAN
    /\ quit_ \in BOOLEAN
    /\ counter \in Nat
    /\ armed \in BOOLEAN
    /\ activeChannels_ \subseteq {"wakeup", "other"}
    /\ loop \in LoopPc
    /\ caller \in [Callers -> CallerPc]
    /\ queued \in Nat
    /\ quits \in Nat
    /\ early \in 0 .. queued
    /\ ran \in Seq(1 .. queued)

\* A functor is called once and in the order of queueInLoop(), whichever thread
\* queued it and whenever; while it waits it is in pendingFunctors_ or in the
\* vector doPendingFunctors() works on, never in both.
OnceInOrder == ran \o functors \o pendingFunctors_ = [i \in 1 .. queued |-> i]

\* the functors that came with a wake-up; what the loop thread queued before it
\* called loop() has none and waits for the first event
Awaited == \E i \in DOMAIN pendingFunctors_ : pendingFunctors_[i] > early

WakeupComing == counter > 0 \/ \E c \in Callers : caller[c] = "wakeup"

\* As long as the wake-up channel is armed, the loop does not sit in epoll_wait
\* on queued functors without a wake-up under way, whoever queued them and at
\* whatever point of the loop: in a callback before doPendingFunctors(), in a
\* functor, or in another thread while the loop clears the counter.
FirstWakeup == loop = "poll" /\ armed /\ Awaited => WakeupComing

\* handleRead() receives the wake-ups (EventLoop.h:34): whenever functors are
\* queued, a wake-up that epoll will report is under way.
WakeupEndsPoll == loop = "poll" /\ Awaited => armed /\ WakeupComing

\* Every queued functor is called in the end, unless quit() is called.
EventuallyRuns ==
    \A i \in 1 .. MaxFunctors : queued >= i ~> i \in ToSet(ran) \/ quits > 0

\* loop() has come to its while: a quit() before, the one that finds looping_ set
\* and quit_ not yet cleared included, is forgotten
Entered == loop \notin {"built", "clear"}

\* quit() ends a loop that has come to its while: whoever calls it, and although
\* the wake-up may come to nothing.
QuitEndsLoop == Entered /\ quit_ ~> ~ looping_
=============================================================================
