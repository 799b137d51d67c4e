------------------------- MODULE EventLoopThreadPool -------------------------
(***************************************************************************)
(* ThreadPool/EventLoopThreadPool.cc: the pool starts its EventLoopThreads *)
(* one after the other, hands out their loops in turn, and destroys them.  *)
(*                                                                         *)
(* Thread number Detail, if the pool has that many, is the one of the      *)
(* module EventLoopThread, step by step; for the others the pool relies on *)
(* what is checked of that one: startLoop() returns the address of the     *)
(* loop, as nobody ends it before, and the destructor may return.  A loop  *)
(* is the number of its thread, baseLoop_ is Base.                         *)
(***************************************************************************)
EXTENDS EventLoopThread

CONSTANTS
    MaxThreads, \* bound of the model: numThreads_ is at most this
    Detail,     \* the thread that is modelled in detail
    MaxGiven    \* bound of the model: how many times getNextLoop() is called

ASSUME PoolAssumption == MaxThreads \in Nat /\ Detail \in Nat \ {0} /\ MaxGiven \in Nat

VARIABLES
    numThreads_,
    started_,
    loops_,   \* the vector of the loops; threads_ has the same length
    next_,
    given,    \* history: how often each loop was handed out
    pool,     \* what the thread of baseLoop_ does with the pool
    ended     \* how many threads the destructor has destroyed

poolVars == <<numThreads_, started_, loops_, next_, given, pool, ended>>

Base == 0
PoolPc == {"new", "starting", "started", "ending", "gone"}

\* the constructor and setThreadNum()
PoolInit ==
    /\ ThreadInit
    /\ numThreads_ \in 0 .. MaxThreads
    /\ started_ = FALSE
    /\ loops_ = <<>>
    /\ next_ = 0
    /\ given = [l \in 0 .. MaxThreads |-> 0]
    /\ pool = "new"
    /\ ended = 0

-----------------------------------------------------------------------------
(* start().  Without threads the callback is called for baseLoop_.         *)

PoolStart ==
    /\ pool = "new"
    /\ started_' = TRUE
    /\ pool' = "starting"
    /\ UNCHANGED <<allVars, numThreads_, loops_, next_, given, ended>>

\* the thread the loop of start() is at
Starting == Len(loops_) + 1

PushLoop ==
    /\ loops_' = Append(loops_, Starting)
    /\ UNCHANGED <<numThreads_, started_, next_, given, pool, ended>>

StartOther ==
    /\ pool = "starting"
    /\ Starting <= numThreads_
    /\ Starting # Detail
    /\ PushLoop
    /\ UNCHANGED allVars

StartDetail ==
    /\ pool = "starting"
    /\ Starting <= numThreads_
    /\ Starting = Detail
    /\ \/ OwnerStart /\ UNCHANGED poolVars
       \/ OwnerGetLoop /\ PushLoop

StartEnd ==
    /\ pool = "starting"
    /\ Len(loops_) = numThreads_
    /\ pool' = "started"
    /\ UNCHANGED <<allVars, numThreads_, started_, loops_, next_, given, ended>>

-----------------------------------------------------------------------------
\* mutant: the last loop is left out
BugAdvance == IF next_ + 2 >= Len(loops_) THEN 0 ELSE next_ + 1

\* ++next_, back to the first loop after the last
Advance == IF next_ + 1 >= Len(loops_) THEN 0 ELSE next_ + 1

\* getNextLoop(), which nothing keeps from being called before start()
GetNextLoop ==
    /\ pool \in {"new", "started"}
    /\ FoldFunction(+, 0, given) < MaxGiven
    /\ IF loops_ = <<>>
       THEN given' = [given EXCEPT ![Base] = @ + 1] /\ UNCHANGED next_
       ELSE given' = [given EXCEPT ![loops_[next_ + 1]] = @ + 1] /\ next_' = Advance
    /\ UNCHANGED <<allVars, numThreads_, started_, loops_, pool, ended>>

-----------------------------------------------------------------------------
(* The destructor destroys the members: the threads in their order.        *)

PoolDestroy ==
    /\ pool \in {"new", "started"}
    /\ \A c \in Callers : caller[c] = "idle"
    /\ pool' = "ending"
    /\ UNCHANGED <<allVars, numThreads_, started_, loops_, next_, given, ended>>

Ending == ended + 1

\* another thread's loop, destroyed like the one in detail
EndOther ==
    /\ pool = "ending"
    /\ Ending <= Len(loops_)
    /\ Ending # Detail
    /\ ended' = Ending
    /\ Undefined
    /\ UNCHANGED <<vars, loop_, thread, owner, numThreads_, started_, loops_, next_,
                   given, pool>>

EndDetail ==
    /\ pool = "ending"
    /\ Ending <= Len(loops_)
    /\ Ending = Detail
    /\ \/ OwnerDestroy \/ OwnerQuit \/ OwnerWakeup \/ OwnerJoin
    /\ ended' = IF owner' = "gone" THEN Ending ELSE ended
    /\ UNCHANGED <<numThreads_, started_, loops_, next_, given, pool>>

PoolEnd ==
    /\ pool = "ending"
    /\ ended = Len(loops_)
    /\ pool' = "gone"
    /\ UNCHANGED <<allVars, numThreads_, started_, loops_, next_, given, ended>>

-----------------------------------------------------------------------------
\* other threads use the loop once getNextLoop() has returned it, and until
\* the pool is destroyed
UseGiven(c) ==
    /\ \/ pool = "started" /\ given[Detail] > 0
       \/ caller[c] = "wakeup"
    /\ Use(c)
    /\ UNCHANGED poolVars

DetailThread ==
    /\ InitCallback \/ OtherEvent \/ Thread
    /\ UNCHANGED poolVars

PoolGoes == StartOther \/ StartDetail \/ StartEnd \/ EndDetail \/ PoolEnd

PoolNext ==
    /\ alive
    /\ \/ PoolStart \/ PoolGoes \/ GetNextLoop \/ PoolDestroy \/ EndOther
       \/ DetailThread
       \/ \E c \in Callers : UseGiven(c)

everything == <<allVars, poolVars>>

PoolSpec == PoolInit /\ [][PoolNext]_everything

\* start() and the destructor, once called, go on, and so do the threads and a
\* caller that owes a wake-up.  Of the other threads' destructors nothing is
\* assumed.
PoolFairness ==
    /\ WF_everything(alive /\ Thread /\ UNCHANGED poolVars)
    /\ WF_everything(alive /\ PoolGoes)
    /\ \A c \in Callers : WF_everything(alive /\ caller[c] = "wakeup" /\ UseGiven(c))

FairPoolSpec == PoolSpec /\ PoolFairness

-----------------------------------------------------------------------------
(* Properties.                                                             *)

PoolTypeOK ==
    /\ ThreadTypeOK
    /\ numThreads_ \in 0 .. MaxThreads
    /\ started_ \in BOOLEAN
    /\ loops_ \in Seq(1 .. numThreads_)
    /\ next_ \in Nat
    /\ given \in [0 .. MaxThreads -> Nat]
    /\ pool \in PoolPc
    /\ ended \in 0 .. Len(loops_)

\* The loops are given out evenly: at any time no loop of the pool is ahead of
\* another by more than one connection, and one that is behind comes first.
Balanced ==
    \A i, j \in DOMAIN loops_ :
        i < j => given[loops_[i]] - given[loops_[j]] = (IF i <= next_ /\ next_ < j THEN 1 ELSE 0)

\* start() returns: no startLoop() of its loop waits for ever.  (A functor of the
\* initialisation callback, or an event, may call quit() and end the loop before
\* startLoop() has seen loop_; then it does wait for ever.)
PoolStarts == pool = "starting" ~> pool = "started" \/ quits > 0 \/ ~ alive
=============================================================================
