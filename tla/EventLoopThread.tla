--------------------------- MODULE EventLoopThread ---------------------------
(***************************************************************************)
(* ThreadPool/EventLoopThread.cc: a thread that builds an EventLoop on its *)
(* stack, publishes its address in loop_ and runs it, and the owner of the *)
(* object, who calls startLoop() and destroys it.  The loop itself is the  *)
(* module EventLoop; its callers may queue functors and call quit() until  *)
(* the destructor begins, and so may its callbacks.  What the code does    *)
(* with a loop or a thread object that is gone, and the delete in          *)
(* ~EventLoop() of a channel that lies in a memory pool, is undefined:     *)
(* either nothing comes of it or it is the end of the process.             *)
(***************************************************************************)
EXTENDS EventLoop

VARIABLES
    loop_,   \* the published address is set
    thread,  \* program counter of threadFunc()
    owner,   \* program counter of the thread that owns the EventLoopThread
    alive    \* no undefined behaviour has ended the process

threadVars == <<loop_, thread, owner, alive>>

ThreadPc == {"unstarted", "init", "loop", "cleared", "ended"}
OwnerPc  == {"new", "starting", "started", "quit", "wakeup", "join", "gone"}

ThreadInit ==
    /\ Init
    /\ loop_ = FALSE
    /\ thread = "unstarted"
    /\ owner = "new"
    /\ alive = TRUE

\* what comes of undefined behaviour
Undefined == alive' \in BOOLEAN

-----------------------------------------------------------------------------
(* threadFunc().                                                           *)

\* callback_(&loop)
InitCallback == thread = "init" /\ PushBeforeLoop /\ UNCHANGED threadVars

\* mutant: the address is published before the initialisation callback
BugPublish ==
    /\ thread = "init"
    /\ loop_' = TRUE
    /\ thread' = IF loop_ THEN "loop" ELSE thread
    /\ UNCHANGED <<vars, owner, alive>>

\* loop_ = &loop, under mutex_, and notify_one()
Publish ==
    /\ thread = "init"
    /\ loop_' = TRUE
    /\ thread' = "loop"
    /\ UNCHANGED <<vars, owner, alive>>

GoOn == thread = "loop" /\ Going /\ UNCHANGED threadVars

OtherEvent == thread = "loop" /\ PollOther /\ UNCHANGED threadVars

\* loop_ = nullptr, under mutex_
Clear ==
    /\ thread = "loop"
    /\ loop = "done"
    /\ loop_' = FALSE
    /\ thread' = "cleared"
    /\ UNCHANGED <<vars, owner, alive>>

\* The end of threadFunc(): mutex_ is released, which may be that of a dead
\* EventLoopThread, and ~EventLoop() closes wakeupFd_ and deletes wakeupChannel_,
\* which is not from new but from a block of a memory pool.
DestroyLoop ==
    /\ thread = "cleared"
    /\ thread' = "ended"
    /\ Undefined
    /\ UNCHANGED <<vars, loop_, owner>>

-----------------------------------------------------------------------------
(* The owner.                                                              *)

\* mutant: the thread is not started
BugOwnerStart ==
    /\ owner = "new"
    /\ owner' = "starting"
    /\ UNCHANGED <<vars, loop_, thread, alive>>

\* thread_.start()
OwnerStart ==
    /\ owner = "new"
    /\ thread' = "init"
    /\ owner' = "starting"
    /\ UNCHANGED <<vars, loop_, alive>>

\* cond_.wait() until loop_ is set
OwnerGetLoop ==
    /\ owner = "starting"
    /\ loop_
    /\ owner' = "started"
    /\ UNCHANGED <<vars, loop_, thread, alive>>

\* the destructor reads loop_; without a loop it leaves the thread alone
OwnerDestroy ==
    /\ owner \in {"new", "started"}
    /\ \A c \in Callers : caller[c] = "idle"
    /\ owner' = IF loop_ THEN "quit" ELSE "gone"
    /\ UNCHANGED <<vars, loop_, thread, alive>>

\* mutant: the loop is woken but not told to end
BugOwnerQuit ==
    /\ owner = "quit"
    /\ owner' = "wakeup"
    /\ UNCHANGED <<vars, loop_, thread, alive>>

\* loop_->quit() up to quit_ = true.  loop_ is read again, or the address of the
\* test is used: a thread that has left its loop meanwhile has made it null and
\* may have destroyed the loop.
OwnerQuit ==
    /\ owner = "quit"
    /\ owner' = "wakeup"
    /\ IF thread = "loop" THEN quit_' = TRUE /\ UNCHANGED alive
                          ELSE Undefined /\ UNCHANGED quit_
    /\ UNCHANGED <<queue, looping_, wake, activeChannels_, loop, caller, count, ran,
                   loop_, thread>>

\* the wakeup() of quit(); the loop may be gone by then, and its eventfd closed
OwnerWakeup ==
    /\ owner = "wakeup"
    /\ owner' = "join"
    /\ IF thread = "ended" THEN Undefined /\ UNCHANGED counter
                           ELSE counter' = counter + 1 /\ UNCHANGED alive
    /\ UNCHANGED <<queue, looping_, quit_, armed, activeChannels_, loop, caller,
                   count, ran, loop_, thread>>

\* mutant: the thread is not joined
BugOwnerJoin ==
    /\ owner = "join"
    /\ owner' = "gone"
    /\ UNCHANGED <<vars, loop_, thread, alive>>

\* thread_.join()
OwnerJoin ==
    /\ owner = "join"
    /\ thread = "ended"
    /\ owner' = "gone"
    /\ UNCHANGED <<vars, loop_, thread, alive>>

-----------------------------------------------------------------------------
\* The callers got the loop from startLoop(): queueInLoop(), quit() and wakeup()
\* of a loop that is there ...
UseLive(c) ==
    /\ thread # "ended"
    /\ \/ owner = "started" /\ (CallerPush(c) \/ CallerQuit(c))
       \/ CallerWakeup(c)
    /\ UNCHANGED threadVars

\* ... and of one that quit() has ended, for which nothing holds
UseDead(c) ==
    /\ thread = "ended"
    /\ owner = "started" \/ caller[c] = "wakeup"
    /\ caller' = [caller EXCEPT ![c] = "idle"]
    /\ Undefined
    /\ UNCHANGED <<queue, looping_, quit_, wake, activeChannels_, loop, count, ran,
                   loop_, thread, owner>>

Use(c) == UseLive(c) \/ UseDead(c)

Thread == Publish \/ GoOn \/ Clear \/ DestroyLoop
Owner  == OwnerStart \/ OwnerGetLoop \/ OwnerDestroy \/ OwnerQuit \/ OwnerWakeup
              \/ OwnerJoin

allVars == <<vars, threadVars>>

ThreadNext ==
    /\ alive
    /\ InitCallback \/ OtherEvent \/ Thread \/ Owner \/ \E c \in Callers : Use(c)

ThreadSpec == ThreadInit /\ [][ThreadNext]_allVars

-----------------------------------------------------------------------------
(* Properties.                                                             *)

ThreadTypeOK ==
    /\ TypeOK
    /\ loop_ \in BOOLEAN
    /\ thread \in ThreadPc
    /\ owner \in OwnerPc
    /\ alive \in BOOLEAN

\* The address startLoop() returns is that of a loop whose initialisation callback
\* has returned, and unless somebody calls quit() the loop lives until the
\* destructor does: the unlocked test of loop_ in the destructor does not miss the
\* thread, nor does the quit() after it set the flag of a dead loop.
LoopOutlivesUse ==
    owner \in {"started", "quit"} /\ quits = 0 => thread = "loop" /\ loop_ /\ loop # "done"

\* After the destructor no thread runs that could come to use the dead
\* EventLoopThread, although the destructor joins only where it sees loop_ set and
\* reads it without mutex_: a thread whose loop somebody has ended may be in its
\* last step, the release of mutex_, at most.
NoOrphan ==
    owner = "gone" => \/ thread \in {"unstarted", "ended"}
                      \/ thread = "cleared" /\ quits > 0

\* The destructor of a thread whose loop() has cleared quit_ returns, although the
\* wake-up channel may be disarmed and others may end the loop at the same time.
\* (A quit() before that is forgotten, and the destructor waits for ever.)
DestructorReturns == owner = "quit" /\ Entered ~> owner = "gone" \/ ~ alive
=============================================================================
